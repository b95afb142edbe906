----------------------------- MODULE BizMessages -----------------------------
(*****************************************************************************)
(* The messages of the businesses that use the gateway (calls, data, files,  *)
(* instant messages, live rooms, notifications) and the rules their          *)
(* validators check.                                                         *)
(*****************************************************************************)
EXTENDS ValidationRules

----------------------------------------------------------------------------
(* call.proto *)

CallOffer == Message("CallOffer", <<AtMost("CallId", 128)>>)
CallAnswer == Message("CallAnswer", <<AtMost("CallId", 128)>>)
CallICE == Message("CallICE", <<AtMost("CallId", 128)>>)
CallHangup == Message("CallHangup", <<AtMost("CallId", 128)>>)
CallModify == Message("CallModify", <<AtMost("CallId", 128)>>)

----------------------------------------------------------------------------
(* data.proto *)

DataUpdate == Message("DataUpdate", <<AtMost("DataType", 64), AtMost("DataId", 128)>>)

----------------------------------------------------------------------------
(* file.proto *)

FileOffer == Message("FileOffer", <<AtMost("FileId", 128), AtMost("FileName", 256)>>)
FileAccept == Message("FileAccept", <<AtMost("FileId", 128)>>)
FileChunk == Message("FileChunk", <<AtMost("FileId", 128)>>)
FileDone == Message("FileDone", <<AtMost("FileId", 128)>>)
FileCancel == Message("FileCancel", <<AtMost("FileId", 128)>>)

----------------------------------------------------------------------------
(* im.proto *)

IMChat == Message("IMChat",
    <<AtMost("ConvId", 256), AtMost("ContentType", 64), AtMost("ReplyTo", 128)>>)
IMReceipt == Message("IMReceipt", <<AtMost("ReceiptType", 32), AtMost("MsgIds", 100)>>)
IMRevoke == Message("IMRevoke", <<AtMost("MsgId", 128)>>)
IMEdit == Message("IMEdit",
    <<AtMost("ConvId", 256), AtMost("MsgId", 128), AtMost("ContentType", 64)>>)
IMTyping == Message("IMTyping", <<>>)
IMReaction == Message("IMReaction", <<AtMost("MsgId", 128)>>)
IMPin == Message("IMPin", <<AtMost("MsgId", 128)>>)

----------------------------------------------------------------------------
(* live.proto *)

LiveJoin == Message("LiveJoin", <<AtMost("RoomId", 128)>>)
LiveLeave == Message("LiveLeave", <<AtMost("RoomId", 128)>>)
LiveComment == Message("LiveComment", <<AtMost("RoomId", 128), AtMost("Content", 512)>>)
LiveGift == Message("LiveGift", <<AtMost("RoomId", 128), AtMost("GiftId", 128)>>)
LiveSignal == Message("LiveSignal", <<AtMost("RoomId", 128)>>)
LiveState == Message("LiveState", <<AtMost("RoomId", 128)>>)

----------------------------------------------------------------------------
(* message.proto *)

PushNotify == Message("PushNotify", <<AtMost("Title", 256), AtMost("Body", 1024)>>)
================================================================================
