-------------------------------- MODULE Framing --------------------------------
(***************************************************************************)
(* The way of a frame from a peer to the gateway's readLoop: the codec     *)
(* that turns a message into a frame body and back, the TCP and WebSocket  *)
(* transports that turn bodies into bytes and back, and the peer, which    *)
(* uses the gateway's framing (TCPTransport.Write), the framing of the SDK *)
(* client (its Transport.Write) or WebSocket messages.                     *)
(*                                                                         *)
(* Bytes are numbers below 256.  A TCP read hands over any number of the   *)
(* bytes under way, at most ReadSize of them.                              *)
(***************************************************************************)
EXTENDS Naturals, Sequences, Functions

CONSTANTS
    Kinds,      \* kinds of frames the peer sends: see Body
    ReadSize,   \* bytes one conn.Read can take (4096 in the code)
    MaxFrame,   \* longest body a transport takes (4 MiB in the code)
    MaxFrames   \* bound: frames the peer sends

ASSUME ReadSizeAssumption == ReadSize \in Nat /\ ReadSize >= 1
ASSUME MaxFrameAssumption == MaxFrame \in Nat /\ MaxFrame <= 4194304
ASSUME MaxFramesAssumption == MaxFrames \in Nat

VARIABLES
    link,       \* "gateway", "sdk": TCP and the framing the peer uses; "ws"
    sent,       \* kinds of the frames the peer has sent, oldest first
    closed,     \* the peer has closed its side
    wire,       \* TCP: bytes under way; WebSocket: messages under way
    packetBuf,  \* TCPTransport.packetBuf
    status,     \* of the readLoop: "top", "read", "spinning", "ended", or
                \* "broken": ended by a failure of the connection
    cancelled,  \* the connection's context is done
    taken,      \* frames Read has returned
    decoded     \* numbers of the messages given to onMessage, oldest first

vars == <<link, sent, closed, wire, packetBuf, status, cancelled, taken, decoded>>

----------------------------------------------------------------------------
(* The codec. *)

CodecJSON == 1
CodecProtobuf == 2
CodecMsgpack == 3
CompressNone == 0
CompressGzip == 1
CompressZstd == 2
CompressSnappy == 3

Bad == 0    \* the error of a decoding; messages are numbered from one

makeFrameCodecByte(ct, ca) == ca * 16 + ct
CodecType(f) == f % 16
CompressAlgo(f) == (f \div 16) % 16

(* What json.Marshal and proto.Marshal make of message m: texts that only  *)
(* their own parser accepts.                                               *)
marshal(ct, m) == IF ct = CodecJSON THEN <<123, m>> ELSE <<10, m>>
unmarshal(ct, data) ==
    IF /\ ct \in {CodecJSON, CodecProtobuf}
       /\ Len(data) = 2
       /\ data = marshal(ct, data[2])
    THEN data[2]
    ELSE Bad

(* gzip prepends its magic number; zstd and snappy are stubs that copy.    *)
(* Unreadable is what no parser accepts: the error of decompress.          *)
Unreadable == <<0>>
compress(ca, data) == IF ca = CompressGzip THEN <<31>> \o data ELSE data
decompress(ca, data) ==
    CASE ca = CompressGzip -> IF Len(data) > 0 /\ data[1] = 31 THEN Tail(data) ELSE Unreadable
      [] ca \in {CompressNone, CompressZstd, CompressSnappy} -> data
      [] OTHER -> Unreadable

Encode(ct, ca, m) == <<makeFrameCodecByte(ct, ca)>> \o compress(ca, marshal(ct, m))
Decode(data) ==
    IF Len(data) < 1
    THEN Bad
    ELSE unmarshal(CodecType(data[1]), decompress(CompressAlgo(data[1]), Tail(data)))

(* The body of the peer's n-th frame, of kind k.  A frame of one of the    *)
(* first four kinds carries message n, which in a "timed" one has an       *)
(* ExpireAt; the others are malformed: no body, a codec the gateway does   *)
(* not have, shorter and longer, a payload that is not what its codec byte *)
(* says.  A WebSocket peer can also send a text message.                   *)
Good == {"json", "timed", "zstd", "gzip"}
Timed == {"timed"}
Body(k, n) ==
    CASE k \in {"json", "timed"} -> Encode(CodecJSON, CompressNone, n)
      [] k = "zstd" -> Encode(CodecProtobuf, CompressZstd, n)
      [] k = "gzip" -> Encode(CodecProtobuf, CompressGzip, n)
      [] k = "empty" -> <<>>
      [] k = "msgpack" -> <<makeFrameCodecByte(CodecMsgpack, CompressNone), 129, n>>
      [] k = "large" -> <<makeFrameCodecByte(CodecMsgpack, CompressNone), 129, n, n, n>>
      [] OTHER -> <<makeFrameCodecByte(CodecJSON, CompressGzip), 123, n>>

----------------------------------------------------------------------------
(* The framing. *)

Magic == <<18, 52>>
HeaderLen == 6

PutUint32(n) == <<n \div 16777216, (n \div 65536) % 256, (n \div 256) % 256, n % 256>>

(* Lengths of 2^31 and more are all the same to Read: far too large. *)
Uint32(b) ==
    IF b[1] > 127 THEN 2147483647 ELSE ((b[1] * 256 + b[2]) * 256 + b[3]) * 256 + b[4]

(* TCPTransport.Write: magic, length, body. *)
Packet(data) == Magic \o PutUint32(Len(data)) \o data

(* Transport.Write of the SDK: version and type between magic and length, *)
(* and no codec byte in front of the protobuf.                            *)
SdkPacket(data) == Magic \o <<1, 0>> \o PutUint32(Len(data)) \o data

(* Fault: Read waits until there is more than a header. *)
ShortByOne(buf) == Len(buf) <= HeaderLen

(* Bytes the reader has but not enough for what it wants next. *)
Short(buf) == Len(buf) < HeaderLen
ProtobufLen(buf) == Uint32(SubSeq(buf, 3, 6))
Incomplete(buf) == Len(buf) < HeaderLen + ProtobufLen(buf)

(* Fault: Read forgets what followed the frame in the buffer. *)
RestDropped(buf) == <<>>

(* packetBuf once the frame at its front has been cut off. *)
Rest(buf) == SubSeq(buf, HeaderLen + ProtobufLen(buf) + 1, Len(buf))

----------------------------------------------------------------------------
(* The peer. *)

Write(k) ==
    /\ Len(sent) < MaxFrames /\ ~closed /\ status \notin {"ended", "broken"}
    /\ k = "text" => link = "ws"
    /\ sent' = Append(sent, k)
    /\ LET data == Body(k, Len(sent) + 1)
       IN  wire' = CASE link = "gateway" -> wire \o Packet(data)
                     [] link = "sdk" -> wire \o SdkPacket(marshal(CodecProtobuf, Len(sent) + 1))
                     [] link = "ws" -> Append(wire, [binary |-> k # "text", data |-> data])
    /\ UNCHANGED <<link, closed, packetBuf, status, cancelled, taken, decoded>>

Hangup ==
    /\ ~closed
    /\ closed' = TRUE
    /\ UNCHANGED <<link, sent, wire, packetBuf, status, cancelled, taken, decoded>>

----------------------------------------------------------------------------
(* The gateway. *)

(* Something else in the gateway cancels the connection's context. *)
Cancel ==
    /\ ~cancelled
    /\ cancelled' = TRUE
    /\ UNCHANGED <<link, sent, closed, wire, packetBuf, status, taken, decoded>>

(* The top of the readLoop, and of Read: the only looks at the context.    *)
(* SetReadDeadline can fail.                                               *)
LoopTop ==
    /\ status = "top"
    /\ status' \in IF cancelled THEN {"ended"} ELSE {"read", "broken"}
    /\ UNCHANGED <<link, sent, closed, wire, packetBuf, cancelled, taken, decoded>>

(* conn.Read returns the next bytes, wherever TCP happens to cut them. *)
ConnRead ==
    /\ status = "read" /\ link # "ws" /\ Short(packetBuf) /\ wire # <<>>
    /\ \E n \in 1 .. ReadSize :
          /\ n <= Len(wire)
          /\ packetBuf' = packetBuf \o SubSeq(wire, 1, n)
          /\ wire' = SubSeq(wire, n + 1, Len(wire))
    /\ UNCHANGED <<link, sent, closed, status, cancelled, taken, decoded>>

(* conn.Read or ReadMessage fails: end of stream or the read deadline when *)
(* nothing is under way, the deadline or a reset when something is.        *)
ConnReadFails ==
    /\ status = "read"
    /\ link # "ws" => Short(packetBuf)
    /\ status' = IF wire = <<>> THEN "ended" ELSE "broken"
    /\ UNCHANGED <<link, sent, closed, wire, packetBuf, cancelled, taken, decoded>>

(* The body goes through Decode.  A malformed one is skipped, and so is a  *)
(* message that has expired, which one with an ExpireAt may have done.     *)
Returned(data) ==
    LET m == Decode(data)
    IN  /\ taken' = taken + 1
        /\ status' = "top"
        /\ \/ m # Bad /\ decoded' = Append(decoded, m)
           \/ (m # Bad => sent[m] \in Timed) /\ UNCHANGED decoded

(* Read has a header: it gives up, returns a frame, or loops without      *)
(* reading.                                                               *)
ParseHeader ==
    /\ status = "read" /\ link # "ws" /\ ~Short(packetBuf)
    /\ \/ /\ \/ SubSeq(packetBuf, 1, 2) # Magic
             \/ ProtobufLen(packetBuf) > MaxFrame
          /\ status' = "ended"
          /\ UNCHANGED <<packetBuf, taken, decoded>>
       \/ /\ SubSeq(packetBuf, 1, 2) = Magic
          /\ ProtobufLen(packetBuf) <= MaxFrame
          /\ Incomplete(packetBuf)
          /\ status' = "spinning"
          /\ UNCHANGED <<packetBuf, taken, decoded>>
       \/ /\ SubSeq(packetBuf, 1, 2) = Magic
          /\ ProtobufLen(packetBuf) <= MaxFrame
          /\ ~Incomplete(packetBuf)
          /\ Returned(SubSeq(packetBuf, HeaderLen + 1, HeaderLen + ProtobufLen(packetBuf)))
          /\ packetBuf' = Rest(packetBuf)
    /\ UNCHANGED <<link, sent, closed, wire, cancelled>>

(* WSTransport.Read: one binary message is one frame; a text message and a *)
(* body that is too large are errors.                                      *)
ReadMessage ==
    /\ status = "read" /\ link = "ws" /\ wire # <<>>
    /\ LET fits == Head(wire).binary /\ Len(Head(wire).data) <= MaxFrame
       IN  \/ fits /\ Returned(Head(wire).data)
           \/ ~fits /\ status' = "ended" /\ UNCHANGED <<taken, decoded>>
    /\ wire' = Tail(wire)
    /\ UNCHANGED <<link, sent, closed, packetBuf, cancelled>>

----------------------------------------------------------------------------
Init ==
    /\ link \in {"gateway", "sdk", "ws"}
    /\ sent = <<>> /\ wire = <<>> /\ packetBuf = <<>> /\ decoded = <<>>
    /\ closed = FALSE /\ cancelled = FALSE
    /\ status = "top"
    /\ taken = 0

ReaderStep == LoopTop \/ ConnRead \/ ConnReadFails \/ ParseHeader \/ ReadMessage

Next ==
    \/ \E k \in Kinds : Write(k)
    \/ Hangup
    \/ Cancel
    \/ ReaderStep

(* The read goroutine keeps running, and its deadline ends a silent wait. *)
Fairness == WF_vars(ReaderStep)

Spec == Init /\ [][Next]_vars /\ Fairness

----------------------------------------------------------------------------
(* Properties. *)

(* What a reader of the first n frames must end up with: the numbers of    *)
(* the well-formed ones among them, each once, in increasing order, except *)
(* that a message with an ExpireAt may be missing.                         *)
Carried(n, messages) ==
    /\ \A i \in DOMAIN messages : messages[i] \in 1 .. n /\ sent[messages[i]] \in Good
    /\ \A i, j \in DOMAIN messages : i < j => messages[i] < messages[j]
    /\ \A m \in 1 .. n :
          sent[m] \in Good \ Timed => \E i \in DOMAIN messages : messages[i] = m

(* However TCP cuts the stream and whatever malformed frames it holds,     *)
(* onMessage gets the messages of the well-formed frames among those Read  *)
(* returned, once and in the order they were sent, and all of them but for *)
(* those that can expire: readLoop skips a malformed frame and an expired  *)
(* message, and Read never loses its place in the stream.  A peer that     *)
(* speaks the SDK's framing gets none of its frames through.               *)
MessagesArriveInOrder ==
    /\ link # "sdk" => taken <= Len(sent) /\ Carried(taken, decoded)
    /\ link = "sdk" => taken = 0

Abstract == INSTANCE Channel WITH
    Kind <- Kinds, Readable <- Good, Perishable <- Timed,
    understood <- (link # "sdk"), delivered <- decoded

(* Transports, codec and readLoop together are a first-in first-out        *)
(* channel: a step delivers at most one message, the next one, and once    *)
(* delivered or skipped it is never looked at again, however the bytes of  *)
(* several frames share one conn.Read or one frame is spread over several. *)
(* Only malformed frames and messages with an ExpireAt are skipped.        *)
ConnectionIsAChannel == Abstract!Spec

(* Each frame sent by a peer with the gateway's framing is returned by     *)
(* Read in the end.  The reader may be stopped before that: the context is *)
(* cancelled, the connection fails, or the peer sends what ends the        *)
(* connection, a text message or a body that is too large.  The last       *)
(* exception is not meant by the Transport interface, which has Read block *)
(* until a whole frame is there: when the bytes of a body did not all come *)
(* with its header, Read loops without ever reading the rest.              *)
FramesAreTaken ==
    \A n \in 1 .. MaxFrames :
        (link # "sdk" /\ Len(sent) >= n)
            ~> \/ taken >= n
               \/ cancelled \/ status = "broken" \/ {"text", "large"} \cap Range(sent) # {}
               \/ status = "spinning"
================================================================================
