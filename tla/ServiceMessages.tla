--------------------------- MODULE ServiceMessages ---------------------------
(*****************************************************************************)
(* The requests and responses of the gateway service, which backends call,   *)
(* and the rules their validators check.                                     *)
(*****************************************************************************)
EXTENDS GatewayMessages

----------------------------------------------------------------------------
(* gateway_service.proto *)

Payload == Message("Payload",
    <<AtMost("EventType", 128)>> \o Enum("Codec", Codec_name) \o
    Enum("Compress", CompressAlgo_name))
PushMessageReq == Message("PushMessageReq",
    <<Required("To"), Embedded("To", RouteTarget), AtMost("BizCode", 128),
      Embedded("Delivery", Delivery), Required("Payload"),
      Embedded("Payload", Payload)>>)
PushMessageResp == Message("PushMessageResp", <<>>)
BatchPushMessageReq == Message("BatchPushMessageReq",
    <<NumItems("ToList", 1, 1000), Each("ToList", RouteTarget),
      AtMost("BizCode", 128), Embedded("Delivery", Delivery), Required("Payload"),
      Embedded("Payload", Payload)>>)
BatchPushMessageResp_SuccessItem == Message("BatchPushMessageResp_SuccessItem", <<>>)
BatchPushMessageResp_FailedItem == Message("BatchPushMessageResp_FailedItem", <<>>)
BatchPushMessageResp == Message("BatchPushMessageResp",
    <<Each("SuccessItems", BatchPushMessageResp_SuccessItem),
      Each("FailedItems", BatchPushMessageResp_FailedItem)>>)
BroadcastToRoomReq == Message("BroadcastToRoomReq",
    <<Between("RoomId", 1, 256), AtMost("BizCode", 128),
      Embedded("Delivery", Delivery), Required("Payload"),
      Embedded("Payload", Payload)>>)
BroadcastToRoomResp == Message("BroadcastToRoomResp", <<>>)
BroadcastToTopicReq == Message("BroadcastToTopicReq",
    <<Between("Topic", 1, 256), AtMost("BizCode", 128),
      Embedded("Delivery", Delivery), Required("Payload"),
      Embedded("Payload", Payload)>>)
BroadcastToTopicResp == Message("BroadcastToTopicResp", <<>>)
BroadcastToAllReq == Message("BroadcastToAllReq",
    <<AtMost("BizCode", 128), Embedded("Delivery", Delivery), Required("Payload"),
      Embedded("Payload", Payload)>>)
BroadcastToAllResp == Message("BroadcastToAllResp", <<>>)
ForwardToSessionReq == Message("ForwardToSessionReq",
    <<AtMost("SessionId", 128), AtMost("UserId", 128), AtMost("DeviceId", 128),
      Embedded("Delivery", Delivery), Embedded("Payload", Payload)>>)
ForwardToSessionResp == Message("ForwardToSessionResp", <<>>)
ForwardToRoomReq == Message("ForwardToRoomReq",
    <<Between("RoomId", 1, 256), AtMost("BizCode", 128),
      Embedded("Delivery", Delivery), Required("Payload"),
      Embedded("Payload", Payload)>>)
ForwardToRoomResp == Message("ForwardToRoomResp", <<>>)
KickUserReq == Message("KickUserReq", <<AtMost("UserId", 128)>>)
KickUserResp == Message("KickUserResp", <<>>)
KickSessionReq == Message("KickSessionReq", <<AtMost("SessionId", 128)>>)
KickSessionResp == Message("KickSessionResp", <<>>)
KickDeviceReq == Message("KickDeviceReq", <<AtMost("DeviceId", 128)>>)
KickDeviceResp == Message("KickDeviceResp", <<>>)
DrainNodeReq == Message("DrainNodeReq", <<>>)
DrainNodeResp == Message("DrainNodeResp", <<>>)
UndrainNodeReq == Message("UndrainNodeReq", <<>>)
UndrainNodeResp == Message("UndrainNodeResp", <<>>)
GetNodeStatusReq == Message("GetNodeStatusReq", <<>>)
GetNodeStatusResp == Message("GetNodeStatusResp", <<>>)
GetStatsReq == Message("GetStatsReq", <<>>)
GetStatsResp_BizStat == Message("GetStatsResp_BizStat", <<>>)
GetStatsResp_RoomStat == Message("GetStatsResp_RoomStat", <<>>)
GetStatsResp == Message("GetStatsResp",
    <<Each("BizStats", GetStatsResp_BizStat),
      Each("RoomStats", GetStatsResp_RoomStat)>>)
GetBizStatsReq == Message("GetBizStatsReq", <<AtMost("BizCode", 128)>>)
GetBizStatsResp == Message("GetBizStatsResp", <<>>)
GetRoomStatsReq == Message("GetRoomStatsReq", <<Between("RoomId", 1, 256)>>)
GetRoomStatsResp == Message("GetRoomStatsResp", <<>>)
QueryRouteReq == Message("QueryRouteReq", <<AtMost("UserId", 128)>>)
QueryRouteResp_RouteInfo == Message("QueryRouteResp_RouteInfo", <<>>)
QueryRouteResp == Message("QueryRouteResp", <<Each("Routes", QueryRouteResp_RouteInfo)>>)
QuerySessionReq == Message("QuerySessionReq", <<AtMost("SessionId", 128)>>)
QuerySessionResp == Message("QuerySessionResp", <<>>)
ListSessionsReq == Message("ListSessionsReq",
    <<AtLeast("Page", 1), Between("PageSize", 1, 1000)>>)
ListSessionsResp_SessionItem == Message("ListSessionsResp_SessionItem", <<>>)
ListSessionsResp == Message("ListSessionsResp", <<Each("Items", ListSessionsResp_SessionItem)>>)
================================================================================
