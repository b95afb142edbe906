--------------------------- MODULE GatewayMessages ---------------------------
(*****************************************************************************)
(* The messages between clients and the gateway and the rules their          *)
(* validators check, in the order of the generated code.                     *)
(*****************************************************************************)
EXTENDS ValidationRules

(* The values the enums define. *)
Codec_name == 0 .. 3
CompressAlgo_name == 0 .. 4
ErrorCode_name ==
    {0} \cup (1001 .. 1009) \cup (2001 .. 2006)
    \cup (3001 .. 3007) \cup (4001 .. 4006) \cup (5001 .. 5005)
HeartbeatBufferLevel_name == 0 .. 3
MessageOrigin_name == 0 .. 6
OpCode_name == 0 .. 13
QosClass_name == 0 .. 2
RouteTargetType_name == 0 .. 8

----------------------------------------------------------------------------
(* common.proto *)

GatewayFrame == Message("GatewayFrame", Enum("Op", OpCode_name))
RouteTarget == Message("RouteTarget",
    Enum("Type", RouteTargetType_name) \o <<Between("Target", 1, 128),
      AtMost("Labels", 32)>>)
Delivery == Message("Delivery", Enum("Qos", QosClass_name) \o <<Between("Priority", 0, 9)>>)
TraceContext == Message("TraceContext",
    <<AtMost("TraceId", 128), AtMost("SpanId", 64), AtMost("ParentSpanId", 64),
      AtMost("Baggage", 64)>>)
Dispatch == Message("Dispatch",
    <<AtLeastUnsigned("SeqId", 0), Between("MsgId", 1, 128),
      Between("BizCode", 1, 128), Between("EventType", 1, 128),
      Embedded("From", RouteTarget), Embedded("To", RouteTarget),
      Embedded("Delivery", Delivery), Embedded("Trace", TraceContext),
      AtLeast("Timestamp", 0)>> \o Enum("Origin", MessageOrigin_name) \o
    <<AtLeast("RecvAt", 0), AtMost("Metadata", 64)>>)
Hello == Message("Hello",
    <<AtLeast("SupportedCodecs", 1), AtLeast("SupportedCompress", 1),
      Between("HeartbeatInterval", 1, 3600), AtLeast("MaxBodySize", 1),
      Between("ProtocolVersion", 1, 32), Between("NodeId", 1, 128),
      AtLeast("ServerTime", 0)>>)
Handshake == Message("Handshake",
    <<Between("Token", 1, 4096), Between("DeviceId", 1, 128),
      Between("DeviceType", 1, 128), Between("SdkVersion", 1, 128),
      AtMost("SupportedExtensions", 64)>>)
Ready == Message("Ready",
    <<Between("SessionId", 1, 128), Between("UserId", 1, 128),
      AtLeast("ServerTime", 0), Between("HeartbeatInterval", 1, 3600),
      AtLeastUnsigned("ReplayFrom", 0)>> \o Enum("SelectedCodec", Codec_name) \o
    Enum("SelectedCompress", CompressAlgo_name) \o <<AtMost("Extensions", 64)>>)
Error == Message("Error",
    Enum("Code", ErrorCode_name) \o <<Between("Message", 1, 1024),
      AtMost("RefMsgId", 128), AtMost("Details", 64)>>)
Resume == Message("Resume",
    <<Between("SessionId", 1, 128), AtLeastUnsigned("LastSeq", 0),
      Between("Token", 1, 4096)>>)
Heartbeat == Message("Heartbeat",
    <<AtLeast("ClientTime", 0)>> \o Enum("BufferLevel", HeartbeatBufferLevel_name))
HeartbeatAck == Message("HeartbeatAck",
    <<AtLeast("ServerTime", 0), Between("HeartbeatInterval", 1, 3600)>>)
AuthRefresh == Message("AuthRefresh",
    <<Between("Token", 1, 4096), Between("DeviceId", 1, 128)>>)
AuthRefreshAck == Message("AuthRefreshAck", <<>>)
Reconnect == Message("Reconnect", <<Between("AfterMs", 0, 600000), AtMost("ResumeUrl", 2048)>>)
Kick == Message("Kick",
    Enum("Code", ErrorCode_name) \o <<Between("Reason", 1, 1024),
      Between("ReconnectAfter", 0, 600000)>>)
Ack == Message("Ack", <<Between("MsgIds", 1, 100), AtLeast("RecvTime", 0)>>)

----------------------------------------------------------------------------
(* batch.proto *)

BatchDispatch_SharedMeta == Message("BatchDispatch_SharedMeta",
    <<Embedded("From", RouteTarget), Embedded("Trace", TraceContext),
      Embedded("Delivery", Delivery)>>)
BatchDispatch_Item == Message("BatchDispatch_Item", <<Embedded("To", RouteTarget)>>)
BatchDispatch == Message("BatchDispatch",
    <<Embedded("Shared", BatchDispatch_SharedMeta), NumItems("Items", 1, 100),
      Each("Items", BatchDispatch_Item)>>)

----------------------------------------------------------------------------
(* client.proto *)

RateLimited == Message("RateLimited", <<>>)
SystemBroadcast == Message("SystemBroadcast", <<AtMost("BroadcastId", 128)>>)
AdminNotice == Message("AdminNotice", <<>>)

----------------------------------------------------------------------------
(* social.proto *)

PresenceUpdate == Message("PresenceUpdate", <<>>)
PresenceBatch_Item == Message("PresenceBatch_Item", <<>>)
PresenceBatch == Message("PresenceBatch", <<Each("Items", PresenceBatch_Item)>>)
Subscribe_RoomTarget == Message("Subscribe_RoomTarget", <<>>)
Subscribe_TopicTarget == Message("Subscribe_TopicTarget", <<>>)
Subscribe_GroupTarget == Message("Subscribe_GroupTarget", <<>>)
Subscribe == Message("Subscribe",
    <<Oneof("Target", [Room |-> Subscribe_RoomTarget,
      Topic |-> Subscribe_TopicTarget, Group |-> Subscribe_GroupTarget])>>)
SubscribeAck == Message("SubscribeAck", <<>>)
UnsubscribeAck == Message("UnsubscribeAck", <<>>)
================================================================================
