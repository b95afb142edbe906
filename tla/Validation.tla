------------------------------ MODULE Validation ------------------------------
(***************************************************************************)
(* A caller validates a message, with Validate and with ValidateAll, in    *)
(* either order.  The messages it tries are those whose fields sit at the  *)
(* borders of their rules, with one or two fields of it away from the      *)
(* ordinary, and one or all fields of a message embedded in it.            *)
(* They are messages a decoder can return: an embedded message may be      *)
(* missing, an item of a repeated field may not.                           *)
(***************************************************************************)
EXTENDS BizMessages, ServiceMessages, Functions

VARIABLES
    request,        \* the message type and the message, or Nil
    validated,      \* what Validate returned: <<>> for nil, or Nil: not called
    validatedAll    \* what ValidateAll returned

validationVars == <<request, validated, validatedAll>>

GatewayTypes ==
    { GatewayFrame, RouteTarget, Delivery, TraceContext, Dispatch, Hello,
      Handshake, Ready, Error, Resume, Heartbeat, HeartbeatAck,
      AuthRefresh, AuthRefreshAck, Reconnect, Kick, Ack,
      BatchDispatch_SharedMeta, BatchDispatch_Item, BatchDispatch,
      RateLimited, SystemBroadcast, AdminNotice, PresenceUpdate,
      PresenceBatch_Item, PresenceBatch, Subscribe_RoomTarget,
      Subscribe_TopicTarget, Subscribe_GroupTarget, Subscribe,
      SubscribeAck, UnsubscribeAck }
ServiceTypes ==
    { Payload, PushMessageReq, PushMessageResp, BatchPushMessageReq,
      BatchPushMessageResp_SuccessItem, BatchPushMessageResp_FailedItem,
      BatchPushMessageResp, BroadcastToRoomReq, BroadcastToRoomResp,
      BroadcastToTopicReq, BroadcastToTopicResp, BroadcastToAllReq,
      BroadcastToAllResp, ForwardToSessionReq, ForwardToSessionResp,
      ForwardToRoomReq, ForwardToRoomResp, KickUserReq, KickUserResp,
      KickSessionReq, KickSessionResp, KickDeviceReq, KickDeviceResp,
      DrainNodeReq, DrainNodeResp, UndrainNodeReq, UndrainNodeResp,
      GetNodeStatusReq, GetNodeStatusResp, GetStatsReq,
      GetStatsResp_BizStat, GetStatsResp_RoomStat, GetStatsResp,
      GetBizStatsReq, GetBizStatsResp, GetRoomStatsReq, GetRoomStatsResp,
      QueryRouteReq, QueryRouteResp_RouteInfo, QueryRouteResp,
      QuerySessionReq, QuerySessionResp, ListSessionsReq,
      ListSessionsResp_SessionItem, ListSessionsResp }
BizTypes ==
    { CallOffer, CallAnswer, CallICE, CallHangup, CallModify, DataUpdate,
      FileOffer, FileAccept, FileChunk, FileDone, FileCancel, IMChat,
      IMReceipt, IMRevoke, IMEdit, IMTyping, IMReaction, IMPin, LiveJoin,
      LiveLeave, LiveComment, LiveGift, LiveSignal, LiveState, PushNotify }

Types == GatewayTypes \cup ServiceTypes \cup BizTypes

----------------------------------------------------------------------------
(* The messages tried. *)

Fields(s) == {r.field : r \in Range(s.rules)}
RulesOn(s, f) == {r \in Range(s.rules) : r.field = f}

(* A message that breaks no rule, or one that breaks a rule in each field. *)
RECURSIVE Typical(_, _)
Typical(s, spoilt) ==
    [f \in Fields(s) |->
        LET rules == RulesOn(s, f)
            Has(form) == \E r \in rules : r.form = form
            The(form) == CHOOSE r \in rules : r.form = form
            some == CHOOSE r \in rules : TRUE
        IN  CASE Has("embedded") -> Typical(The("embedded").of, spoilt)
              [] Has("each") -> [len |-> 1, items |-> <<Typical(The("each").of, spoilt)>>]
              [] Has("oneof") -> Nil
              [] Has("defined") -> IF spoilt THEN 0 ELSE Max(The("defined").values)
              [] Has("most") -> some.hi + IF spoilt THEN 1 ELSE 0
              [] Has("unsigned") -> some.lo
              [] OTHER -> some.lo - IF spoilt THEN 1 ELSE 0]

Ordinary(s) == Typical(s, FALSE)

(* The values of a field on both sides of the borders of rule r. *)
RECURSIVE Borders(_)
Borders(r) ==
    LET Near(s) ==
            {Ordinary(s), Typical(s, TRUE)} \cup
            UNION {{[Ordinary(s) EXCEPT ![q.field] = v] : v \in Borders(q)} : q \in Range(s.rules)}
    IN  CASE r.form = "most" -> {0, r.hi, r.hi + 1}
          [] r.form = "between" -> {r.lo - 1, r.lo, r.hi, r.hi + 1}
          [] r.form = "least" -> {r.lo - 1, r.lo}
          [] r.form = "unsigned" -> {0, 1}
          [] r.form = "defined" -> {0, Max(r.values), Max(r.values) + 1}
          [] r.form = "embedded" -> {Nil} \cup Near(r.of)
          [] r.form = "items" -> {[len |-> n, items |-> <<>>] : n \in {r.lo - 1, r.lo, r.hi, r.hi + 1}}
          [] r.form = "each" -> {[len |-> 0, items |-> <<>>]} \cup
                {[len |-> 2, items |-> p] : p \in {Ordinary(r.of)} \X Near(r.of)} \cup
                {[len |-> 2, items |-> <<m, m>>] : m \in Near(r.of)}
          [] r.form = "oneof" -> {Nil} \cup {[case |-> c, msg |-> Nil] : c \in DOMAIN r.cases}
                \cup {[case |-> c, msg |-> Ordinary(r.cases[c])] : c \in DOMAIN r.cases}
          [] OTHER -> {}

Values(s, f) == UNION {Borders(r) : r \in RulesOn(s, f)}

(* One or two fields away from the ordinary. *)
Samples(s) ==
    {Ordinary(s), Typical(s, TRUE), Nil} \cup
    UNION {{[Ordinary(s) EXCEPT ![f] = v, ![g] = w] : v \in Values(s, f), w \in Values(s, g)}
           : <<f, g>> \in Fields(s) \X Fields(s)}

----------------------------------------------------------------------------
ValidationInit ==
    /\ \E s \in Types : \E m \in Samples(s) : request = [type |-> s, msg |-> m]
    /\ validated = Nil
    /\ validatedAll = Nil

CallValidate ==
    /\ validated = Nil
    /\ validated' = Validate(request.type, request.msg)
    /\ UNCHANGED <<request, validatedAll>>

CallValidateAll ==
    /\ validatedAll = Nil
    /\ validatedAll' = ValidateAll(request.type, request.msg)
    /\ UNCHANGED <<request, validated>>

ValidationNext == CallValidate \/ CallValidateAll

----------------------------------------------------------------------------
(* Properties. *)

(* The first of a list of errors, with the first of its cause, and so on.  *)
RECURSIVE FirstOf(_)
FirstOf(errors) ==
    IF errors = <<>> THEN <<>>
    ELSE <<[Head(errors) EXCEPT !.cause = FirstOf(Head(errors).cause)]>>

(* Validate and ValidateAll, called on the same message, agree: both find  *)
(* nothing, or the error of Validate is the first one ValidateAll reports, *)
(* and this holds for the errors of embedded messages that caused it.      *)
ValidateFindsTheFirst ==
    (request # Nil /\ validated # Nil /\ validatedAll # Nil)
        => validated = FirstOf(validatedAll)

(* What is wrong with message m by the rules of its type, as a set: the    *)
(* path to each field with a value its rule does not allow, and the rule.  *)
RECURSIVE Wrong(_, _)
Wrong(s, m) ==
    IF m = Nil THEN {}
    ELSE UNION {
        LET r == s.rules[i]
            v == m[r.field]
            Under(field, idx, of, msg) == {<<<<field, idx>>>> \o p : p \in Wrong(of, msg)}
            Self(ok) == IF ok THEN {} ELSE {<<<<r.field, 0>>, r.form>>}
        IN  CASE r.form = "embedded" -> Under(r.field, 0, r.of, v)
              [] r.form = "each" -> UNION {Under(r.field, j, r.of, v.items[j]) : j \in DOMAIN v.items}
              [] r.form = "oneof" -> IF v = Nil THEN {} ELSE Under(v.case, 0, r.cases[v.case], v.msg)
              [] r.form = "items" -> Self(v.len \in r.lo .. r.hi)
              [] r.form = "notzero" -> Self(v # 0)
              [] r.form = "defined" -> Self(v \in r.values)
              [] r.form = "required" -> Self(v # Nil)
              [] OTHER -> Self(v \in r.lo .. r.hi)
        : i \in DOMAIN s.rules}

(* The paths to the errors at the bottom of a list of errors, in order.    *)
RECURSIVE Leaves(_)
Leaves(errors) ==
    FlattenSeq([i \in DOMAIN errors |->
        LET e == errors[i]
            below == Leaves(e.cause)
        IN  IF e.cause = <<>> THEN <<<<<<e.field, e.idx>>, e.reason>>>>
            ELSE [j \in DOMAIN below |-> <<<<e.field, e.idx>>>> \o below[j]]])

(* ValidateAll reports every rule the message breaks, at whatever depth,   *)
(* nothing else, and each once.                                            *)
ValidateAllFindsExactlyTheWrong ==
    (request # Nil /\ validatedAll # Nil) =>
        /\ Range(Leaves(validatedAll)) = Wrong(request.type, request.msg)
        /\ IsInjective(Leaves(validatedAll))
================================================================================
