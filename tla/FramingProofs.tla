---------------------------- MODULE FramingProofs -----------------------------
(***************************************************************************)
(* Proofs about the framing, for any number of frames of any kind and any  *)
(* size of the reads: the codec decodes what it encoded and refuses the    *)
(* malformed bodies, a header gives back the length that was put into it,  *)
(* the messages of the well-formed frames arrive in order, and the         *)
(* connection implements module Channel.                                   *)
(***************************************************************************)
EXTENDS Framing, SequenceTheorems, TLAPS

----------------------------------------------------------------------------
(* The codec, and the header. *)

LEMMA Concat12 ==
    ASSUME NEW a \in Nat, NEW b \in Nat, NEW c \in Nat
    PROVE  <<a>> \o <<b, c>> = <<a, b, c>>
<1>1. <<a>> \in Seq(Nat) /\ <<b, c>> \in Seq(Nat) /\ <<a, b, c>> \in Seq(Nat)
    OBVIOUS
<1>2. Len(<<a>>) = 1 /\ Len(<<b, c>>) = 2 /\ Len(<<a, b, c>>) = 3
    OBVIOUS
<1>. DEFINE s == <<a>> \o <<b, c>>
<1>3. /\ s \in Seq(Nat) /\ Len(s) = 3
      /\ \A i \in 1 .. 3 : s[i] = IF i <= 1 THEN <<a>>[i] ELSE <<b, c>>[i - 1]
    BY <1>1, <1>2, ConcatProperties
<1>4. s[1] = a /\ s[2] = b /\ s[3] = c
    BY <1>3
<1>. HIDE DEF s
<1>. DEFINE t == <<a, b, c>>
<1>5. t \in Seq(Nat) /\ Len(t) = 3 /\ t[1] = a /\ t[2] = b /\ t[3] = c
    OBVIOUS
<1>. HIDE DEF t
<1>6. \A i \in 1 .. Len(s) : s[i] = t[i]
    BY <1>3, <1>4, <1>5
<1>7. s = t
    BY <1>3, <1>5, <1>6, SeqEqual
<1>. QED
    BY <1>7 DEF s, t

LEMMA Concat13 ==
    ASSUME NEW a \in Nat, NEW b \in Nat, NEW c \in Nat, NEW d \in Nat
    PROVE  <<a>> \o <<b, c, d>> = <<a, b, c, d>>
<1>1. <<a>> \in Seq(Nat) /\ <<b, c, d>> \in Seq(Nat) /\ <<a, b, c, d>> \in Seq(Nat)
    OBVIOUS
<1>2. Len(<<a>>) = 1 /\ Len(<<b, c, d>>) = 3 /\ Len(<<a, b, c, d>>) = 4
    OBVIOUS
<1>. DEFINE s == <<a>> \o <<b, c, d>>
<1>3. /\ s \in Seq(Nat) /\ Len(s) = 4
      /\ \A i \in 1 .. 4 : s[i] = IF i <= 1 THEN <<a>>[i] ELSE <<b, c, d>>[i - 1]
    BY <1>1, <1>2, ConcatProperties
<1>4. s[1] = a /\ s[2] = b /\ s[3] = c /\ s[4] = d
    BY <1>3
<1>. HIDE DEF s
<1>. DEFINE t == <<a, b, c, d>>
<1>5. t \in Seq(Nat) /\ Len(t) = 4 /\ t[1] = a /\ t[2] = b /\ t[3] = c /\ t[4] = d
    OBVIOUS
<1>. HIDE DEF t
<1>6. \A i \in 1 .. Len(s) : s[i] = t[i]
    BY <1>3, <1>4, <1>5
<1>7. s = t
    BY <1>3, <1>5, <1>6, SeqEqual
<1>. QED
    BY <1>7 DEF s, t

LEMMA Codes ==
    /\ makeFrameCodecByte(CodecJSON, CompressNone) = 1
    /\ makeFrameCodecByte(CodecProtobuf, CompressZstd) = 34
    /\ makeFrameCodecByte(CodecProtobuf, CompressGzip) = 18
    /\ makeFrameCodecByte(CodecMsgpack, CompressNone) = 3
    /\ makeFrameCodecByte(CodecJSON, CompressGzip) = 17
    /\ CodecType(1) = CodecJSON /\ CompressAlgo(1) = CompressNone
    /\ CodecType(34) = CodecProtobuf /\ CompressAlgo(34) = CompressZstd
    /\ CodecType(18) = CodecProtobuf /\ CompressAlgo(18) = CompressGzip
    /\ CodecType(3) = CodecMsgpack /\ CompressAlgo(3) = CompressNone
    /\ CodecType(17) = CodecJSON /\ CompressAlgo(17) = CompressGzip
    BY DEF makeFrameCodecByte, CodecType, CompressAlgo, CodecJSON, CodecProtobuf, CodecMsgpack,
       CompressNone, CompressGzip, CompressZstd

(* The bytes of the bodies. *)
LEMMA Bodies ==
    ASSUME NEW k, NEW n \in Nat
    PROVE  \/ k \in {"json", "timed"} /\ Body(k, n) = <<1, 123, n>>
           \/ k = "zstd" /\ Body(k, n) = <<34, 10, n>>
           \/ k = "gzip" /\ Body(k, n) = <<18, 31, 10, n>>
           \/ /\ k \notin Good
              /\ Body(k, n) \in {<<>>, <<3, 129, n>>, <<3, 129, n, n, n>>, <<17, 123, n>>}
<1>. USE DEF Encode, compress, marshal, CodecJSON, CodecProtobuf, CompressNone,
             CompressGzip, CompressZstd
<1>1. Encode(CodecJSON, CompressNone, n) = <<1, 123, n>>
    BY Codes, Concat12
<1>2. Encode(CodecProtobuf, CompressZstd, n) = <<34, 10, n>>
    BY Codes, Concat12
<1>3. Encode(CodecProtobuf, CompressGzip, n) = <<18, 31, 10, n>>
    <2>1. <<31>> \o <<10, n>> = <<31, 10, n>> /\ <<18>> \o <<31, 10, n>> = <<18, 31, 10, n>>
        BY Concat12, Concat13
    <2>2. marshal(CodecProtobuf, n) = <<10, n>>
        OBVIOUS
    <2>3. compress(CompressGzip, <<10, n>>) = <<31, 10, n>>
        BY <2>1
    <2>. HIDE DEF compress, marshal
    <2>. QED
        BY <2>1, <2>2, <2>3, Codes
<1>. HIDE DEF Encode
<1>. QED
    BY <1>1, <1>2, <1>3, Codes DEF Body, Good

LEMMA Header ==
    ASSUME NEW n \in 0 .. 5
    PROVE  PutUint32(n) = <<0, 0, 0, n>> /\ Uint32(<<0, 0, 0, n>>) = n
    BY DEF PutUint32, Uint32

(* The inverse of Encode on the bodies of the well-formed frames, an error on  *)
(* the others.                                                                 *)
LEMMA DecodeBody ==
    ASSUME NEW k, NEW n \in Nat \ {0}
    PROVE  Decode(Body(k, n)) = IF k \in Good THEN n ELSE Bad
<1>. USE DEF CodecJSON, CodecProtobuf, CodecMsgpack, CompressNone, CompressGzip, CompressZstd,
             CompressSnappy
<1>1. Decode(<<>>) = Bad
    BY DEF Decode
<1>2. Decode(<<1, 123, n>>) = n
    <2>1. Tail(<<1, 123, n>>) = <<123, n>>
        OBVIOUS
    <2>. QED
        BY <2>1, Codes DEF Decode, decompress, unmarshal, marshal
<1>3. Decode(<<34, 10, n>>) = n
    <2>1. Tail(<<34, 10, n>>) = <<10, n>>
        OBVIOUS
    <2>. QED
        BY <2>1, Codes DEF Decode, decompress, unmarshal, marshal
<1>4. Decode(<<18, 31, 10, n>>) = n
    <2>1. Tail(<<18, 31, 10, n>>) = <<31, 10, n>> /\ Tail(<<31, 10, n>>) = <<10, n>>
        OBVIOUS
    <2>. QED
        BY <2>1, Codes DEF Decode, decompress, unmarshal, marshal
<1>5. Decode(<<3, 129, n>>) = Bad
    BY Codes DEF Decode, unmarshal
<1>5a. Decode(<<3, 129, n, n, n>>) = Bad
    BY Codes DEF Decode, unmarshal
<1>6. Decode(<<17, 123, n>>) = Bad
    <2>1. Tail(<<17, 123, n>>) = <<123, n>>
        OBVIOUS
    <2>. QED
        BY <2>1, Codes DEF Decode, decompress, unmarshal, Unreadable
<1>7. CASE k \in Good
    BY <1>2, <1>3, <1>4, <1>7, Bodies
<1>8. CASE k \notin Good
    <2>1. Body(k, n) \in {<<>>, <<3, 129, n>>, <<3, 129, n, n, n>>, <<17, 123, n>>}
        BY <1>8, Bodies DEF Good
    <2>. QED
        BY <1>1, <1>5, <1>5a, <1>6, <1>8, <2>1
<1>. QED
    BY <1>7, <1>8

LEMMA BodyOK ==
    ASSUME NEW k, NEW n \in Nat
    PROVE  Body(k, n) \in Seq(Nat) /\ Len(Body(k, n)) \in 0 .. 5
<1>1. CASE Body(k, n) = <<1, 123, n>>
    BY <1>1
<1>2. CASE Body(k, n) = <<34, 10, n>>
    BY <1>2
<1>3. CASE Body(k, n) = <<18, 31, 10, n>>
    BY <1>3
<1>4. CASE Body(k, n) = <<>>
    BY <1>4
<1>5. CASE Body(k, n) = <<3, 129, n>>
    BY <1>5
<1>6. CASE Body(k, n) = <<17, 123, n>>
    BY <1>6
<1>7. CASE Body(k, n) = <<3, 129, n, n, n>>
    BY <1>7
<1>. QED
    BY <1>1, <1>2, <1>3, <1>4, <1>5, <1>6, <1>7, Bodies, Zenon

(* u is s followed by t. *)
IsConcat(u, s, t) ==
    /\ u \in Seq(Nat) /\ Len(u) = Len(s) + Len(t)
    /\ \A x \in 1 .. Len(s) : u[x] = s[x]
    /\ \A x \in 1 .. Len(t) : u[Len(s) + x] = t[x]

LEMMA Concat ==
    ASSUME NEW s \in Seq(Nat), NEW t \in Seq(Nat)
    PROVE  IsConcat(s \o t, s, t)
    BY DEF IsConcat

LEMMA MagicBytes ==
    Magic \in Seq(Nat) /\ Len(Magic) = 2 /\ Magic[1] = 18 /\ Magic[2] = 52
    BY DEF Magic

LEMMA LengthBytes ==
    ASSUME NEW n \in 0 .. 5, NEW s, s = PutUint32(n)
    PROVE  s \in Seq(Nat) /\ Len(s) = 4 /\ s[1] = 0 /\ s[2] = 0 /\ s[3] = 0 /\ s[4] = n
<1>1. s = <<0, 0, 0, n>> /\ n \in Nat
    BY Header
<1>2. <<0, 0, 0, n>> \in Seq(Nat) /\ Len(<<0, 0, 0, n>>) = 4
    BY <1>1
<1>. QED
    BY <1>1, <1>2

(* p is the frame with body b. *)
IsPacket(p, b) ==
    /\ p \in Seq(Nat) /\ Len(p) = 6 + Len(b)
    /\ p[1] = 18 /\ p[2] = 52 /\ p[3] = 0 /\ p[4] = 0 /\ p[5] = 0 /\ p[6] = Len(b)
    /\ \A x \in 1 .. Len(b) : p[6 + x] = b[x]

LEMMA PacketBytes ==
    ASSUME NEW data \in Seq(Nat), Len(data) \in 0 .. 5
    PROVE  IsPacket(Packet(data), data)
<1>n. PICK n \in 0 .. 5 : n = Len(data)
    OBVIOUS
<1>p. PICK p : p = Packet(data)
    OBVIOUS
<1>a. PICK len : len = PutUint32(n)
    OBVIOUS
<1>1. len \in Seq(Nat) /\ Len(len) = 4 /\ len[1] = 0 /\ len[2] = 0 /\ len[3] = 0 /\ len[4] = n
    BY <1>a, LengthBytes
<1>2. PICK magic : magic = Magic
    OBVIOUS
<1>3. magic \in Seq(Nat) /\ Len(magic) = 2 /\ magic[1] = 18 /\ magic[2] = 52
    BY <1>2, MagicBytes
<1>4. IsConcat(magic \o len, magic, len)
    BY <1>1, <1>3, Concat, Zenon
<1>5. PICK head : head = magic \o len
    OBVIOUS
<1>6. IsConcat(head, magic, len)
    BY <1>4, <1>5, Zenon
<1>7. /\ head \in Seq(Nat) /\ Len(head) = 6 /\ head[1] = 18 /\ head[2] = 52 /\ head[3] = 0
      /\ head[4] = 0 /\ head[5] = 0 /\ head[6] = n
    BY <1>1, <1>3, <1>6 DEF IsConcat
<1>8. IsConcat(head \o data, head, data)
    BY <1>7, Concat, Zenon
<1>9. p = head \o data
    BY <1>n, <1>p, <1>a, <1>2, <1>5, Zenon DEF Packet
<1>10. IsConcat(p, head, data)
    BY <1>8, <1>9, Zenon
<1>11. IsPacket(p, data)
    BY <1>n, <1>7, <1>10 DEF IsConcat, IsPacket
<1>. QED
    BY <1>p, <1>11, Zenon

(* The SDK puts two bytes between the magic and the length. *)
LEMMA SdkBytes ==
    ASSUME NEW n \in Nat, NEW p, p = SdkPacket(marshal(CodecProtobuf, n))
    PROVE  /\ p \in Seq(Nat) /\ Len(p) = 10
           /\ p[1] = 18 /\ p[2] = 52 /\ p[3] = 1 /\ p[4] = 0 /\ p[5] = 0 /\ p[6] = 0
<1>a. PICK data, len, more, magic :
        data = marshal(CodecProtobuf, n) /\ len = PutUint32(2) /\ more = <<1, 0>> /\ magic = Magic
    OBVIOUS
<1>1. data \in Seq(Nat) /\ Len(data) = 2
    BY <1>a DEF marshal, CodecProtobuf, CodecJSON
<1>2. len \in Seq(Nat) /\ Len(len) = 4 /\ len[1] = 0 /\ len[2] = 0
    BY <1>a, LengthBytes
<1>3. more \in Seq(Nat) /\ Len(more) = 2 /\ more[1] = 1 /\ more[2] = 0
    BY <1>a
<1>4. magic \in Seq(Nat) /\ Len(magic) = 2 /\ magic[1] = 18 /\ magic[2] = 52
    BY <1>a, MagicBytes
<1>5. PICK top : top = magic \o more
    OBVIOUS
<1>6. PICK head : head = top \o len
    OBVIOUS
<1>7. p = head \o data
    BY <1>a, <1>1, <1>5, <1>6, Zenon DEF SdkPacket
<1>8. IsConcat(top, magic, more)
    BY <1>3, <1>4, <1>5, Concat, Zenon
<1>9. top \in Seq(Nat) /\ Len(top) = 4 /\ top[1] = 18 /\ top[2] = 52 /\ top[3] = 1 /\ top[4] = 0
    BY <1>3, <1>4, <1>8 DEF IsConcat
<1>10. IsConcat(head, top, len)
    BY <1>2, <1>6, <1>9, Concat, Zenon
<1>11. /\ head \in Seq(Nat) /\ Len(head) = 8 /\ head[1] = 18 /\ head[2] = 52 /\ head[3] = 1
       /\ head[4] = 0 /\ head[5] = 0 /\ head[6] = 0
    BY <1>2, <1>9, <1>10 DEF IsConcat
<1>12. IsConcat(p, head, data)
    BY <1>1, <1>7, <1>11, Concat, Zenon
<1>. QED
    BY <1>1, <1>11, <1>12 DEF IsConcat

(* What Read sees of the header. *)
LEMMA HeaderRead ==
    ASSUME NEW buf \in Seq(Nat), Len(buf) >= 6, buf[1] = 18, buf[2] = 52
    PROVE  SubSeq(buf, 1, 2) = Magic
<1>. DEFINE s == SubSeq(buf, 1, 2)
<1>1. s \in Seq(Nat) /\ Len(s) = 2 /\ s[1] = buf[1] /\ s[2] = buf[2]
    OBVIOUS
<1>. HIDE DEF s
<1>2. PICK t : t = Magic
    OBVIOUS
<1>3. t \in Seq(Nat) /\ Len(t) = 2 /\ t[1] = 18 /\ t[2] = 52
    BY <1>2, MagicBytes
<1>4. Len(s) = Len(t) /\ \A i \in 1 .. Len(s) : s[i] = t[i]
    BY <1>1, <1>3
<1>5. s = t
    BY <1>1, <1>3, <1>4, SeqEqual, Zenon
<1>. QED
    BY <1>2, <1>5 DEF s

LEMMA LengthRead ==
    ASSUME NEW buf \in Seq(Nat), Len(buf) >= 6
    PROVE  ProtobufLen(buf) = IF buf[3] > 127 THEN 2147483647
                ELSE ((buf[3] * 256 + buf[4]) * 256 + buf[5]) * 256 + buf[6]
<1>. DEFINE b == SubSeq(buf, 3, 6)
<1>1. b[1] = buf[3] /\ b[2] = buf[4] /\ b[3] = buf[5] /\ b[4] = buf[6]
    OBVIOUS
<1>2. ProtobufLen(buf) = Uint32(b)
    BY DEF ProtobufLen
<1>. HIDE DEF b
<1>. QED
    BY <1>1, <1>2 DEF Uint32

LEMMA SmallLengthRead ==
    ASSUME NEW buf \in Seq(Nat), Len(buf) >= 6, NEW l \in 0 .. 5,
           buf[3] = 0, buf[4] = 0, buf[5] = 0, buf[6] = l
    PROVE  ProtobufLen(buf) = l
<1>1. ProtobufLen(buf) = IF buf[3] > 127 THEN 2147483647
          ELSE ((buf[3] * 256 + buf[4]) * 256 + buf[5]) * 256 + buf[6]
    BY LengthRead, SMTT(30)
<1>2. ProtobufLen(buf) = IF 0 > 127 THEN 2147483647
          ELSE ((0 * 256 + 0) * 256 + 0) * 256 + l
    BY <1>1, SMT
<1>. QED
    BY <1>2, SMT

-----------------------------------------------------------------------------
(* The stream: the bytes that Read has in packetBuf and those under way. *)

Total == Len(packetBuf) + Len(wire)
At(x) == IF x <= Len(packetBuf) THEN packetBuf[x] ELSE wire[x - Len(packetBuf)]

LEMMA ReadKeepsStream ==
    ASSUME packetBuf \in Seq(Nat), wire \in Seq(Nat), ConnRead
    PROVE  /\ packetBuf' \in Seq(Nat) /\ wire' \in Seq(Nat) /\ Total' = Total
           /\ \A x \in 1 .. Total : At(x)' = At(x)
<1>1. PICK n \in 1 .. ReadSize :
        /\ n <= Len(wire)
        /\ packetBuf' = packetBuf \o SubSeq(wire, 1, n)
        /\ wire' = SubSeq(wire, n + 1, Len(wire))
    BY DEF ConnRead
<1>2. PICK part, rest : part = SubSeq(wire, 1, n) /\ rest = SubSeq(wire, n + 1, Len(wire))
    OBVIOUS
<1>3. n \in Nat /\ Len(wire) \in Nat /\ Len(packetBuf) \in Nat
    BY ReadSizeAssumption
<1>4. /\ part \in Seq(Nat) /\ Len(part) = n
      /\ \A x \in 1 .. n : part[x] = wire[x]
    BY <1>1, <1>2, <1>3
<1>5. /\ rest \in Seq(Nat) /\ Len(rest) = Len(wire) - n
      /\ \A x \in 1 .. Len(wire) - n : rest[x] = wire[n + x]
    BY <1>1, <1>2, <1>3, SMTT(30)
<1>6. IsConcat(packetBuf', packetBuf, part)
    BY <1>1, <1>2, <1>4, Concat, Zenon
<1>7. wire' = rest
    BY <1>1, <1>2
<1>8. packetBuf' \in Seq(Nat) /\ wire' \in Seq(Nat) /\ Len(packetBuf') = Len(packetBuf) + n
    BY <1>4, <1>5, <1>6, <1>7 DEF IsConcat
<1>9. Total' = Total
    BY <1>3, <1>5, <1>7, <1>8 DEF Total
<1>10. ASSUME NEW x \in 1 .. Total PROVE At(x)' = At(x)
    <2>1. x \in Nat /\ x >= 1 /\ x <= Len(packetBuf) + Len(wire)
        BY <1>3 DEF Total
    <2>2. CASE x <= Len(packetBuf)
        BY <1>3, <1>6, <1>8, <2>1, <2>2 DEF At, IsConcat
    <2>3. CASE ~(x <= Len(packetBuf)) /\ x <= Len(packetBuf) + n
        <3>1. x - Len(packetBuf) \in 1 .. Len(part) /\ x = Len(packetBuf) + (x - Len(packetBuf))
            BY <1>3, <1>4, <2>1, <2>3
        <3>2. packetBuf'[x] = wire[x - Len(packetBuf)]
            BY <1>4, <1>6, <3>1 DEF IsConcat
        <3>. QED
            BY <1>8, <2>3, <3>2 DEF At
    <2>4. CASE ~(x <= Len(packetBuf) + n)
        <3>1. x - (Len(packetBuf) + n) \in 1 .. Len(wire) - n
            BY <1>1, <1>3, <2>1, <2>4
        <3>2. rest[x - (Len(packetBuf) + n)] = wire[n + (x - (Len(packetBuf) + n))]
            BY <1>5, <3>1
        <3>3. n + (x - (Len(packetBuf) + n)) = x - Len(packetBuf) /\ ~(x <= Len(packetBuf))
            BY <1>3, <2>1, <2>4
        <3>. QED
            BY <1>7, <1>8, <2>4, <3>2, <3>3 DEF At
    <2>. QED
        BY <1>3, <2>1, <2>2, <2>3, <2>4
<1>. QED
    BY <1>8, <1>9, <1>10

LEMMA WriteExtendsStream ==
    ASSUME packetBuf \in Seq(Nat), wire \in Seq(Nat), NEW p \in Seq(Nat),
           wire' = wire \o p, packetBuf' = packetBuf
    PROVE  /\ wire' \in Seq(Nat) /\ Total' = Total + Len(p)
           /\ \A x \in 1 .. Total : At(x)' = At(x)
           /\ \A x \in Total + 1 .. Total + Len(p) : At(x)' = p[x - Total]
<1>1. IsConcat(wire', wire, p)
    BY Concat, Zenon
<1>2. Len(wire) \in Nat /\ Len(packetBuf) \in Nat /\ Len(p) \in Nat
    OBVIOUS
<1>3. wire' \in Seq(Nat) /\ Len(wire') = Len(wire) + Len(p)
    BY <1>1 DEF IsConcat
<1>4. Total' = Total + Len(p)
    BY <1>2, <1>3 DEF Total
<1>5. ASSUME NEW x \in 1 .. Total PROVE At(x)' = At(x)
    <2>1. CASE x <= Len(packetBuf)
        BY <2>1 DEF At
    <2>2. CASE ~(x <= Len(packetBuf))
        <3>1. x - Len(packetBuf) \in 1 .. Len(wire)
            BY <1>2, <2>2 DEF Total
        <3>. QED
            BY <1>1, <2>2, <3>1 DEF At, IsConcat
    <2>. QED
        BY <2>1, <2>2
<1>6. ASSUME NEW x \in Total + 1 .. Total + Len(p) PROVE At(x)' = p[x - Total]
    <2>1. /\ ~(x <= Len(packetBuf)) /\ x - Total \in 1 .. Len(p)
          /\ x - Len(packetBuf) = Len(wire) + (x - Total)
        BY <1>2 DEF Total
    <2>2. wire'[Len(wire) + (x - Total)] = p[x - Total]
        BY <1>1, <2>1 DEF IsConcat
    <2>. QED
        BY <2>1, <2>2 DEF At
<1>. QED
    BY <1>3, <1>4, <1>5, <1>6

LEMMA Suffix ==
    ASSUME NEW s \in Seq(Nat), NEW n \in Nat, n <= Len(s), NEW t, t = SubSeq(s, n + 1, Len(s))
    PROVE  /\ t \in Seq(Nat) /\ Len(t) = Len(s) - n
           /\ \A x \in 1 .. Len(s) - n : t[x] = s[n + x]
<1>1. Len(s) \in Nat
    OBVIOUS
<1>. QED
    BY <1>1

LEMMA TakeShiftsStream ==
    ASSUME packetBuf \in Seq(Nat), wire \in Seq(Nat), NEW n \in Nat, n <= Len(packetBuf),
           packetBuf' \in Seq(Nat), Len(packetBuf') = Len(packetBuf) - n,
           \A x \in 1 .. Len(packetBuf) - n : packetBuf'[x] = packetBuf[n + x],
           wire' = wire
    PROVE  /\ Total' = Total - n
           /\ \A x \in 1 .. Total - n : At(x)' = At(n + x)
<1>2. Len(wire) \in Nat /\ Len(packetBuf) \in Nat
    OBVIOUS
<1>5. Total' = Total - n
    BY <1>2 DEF Total
<1>6. ASSUME NEW x \in 1 .. Total - n PROVE At(x)' = At(n + x)
    <2>1. CASE x <= Len(packetBuf) - n
        <3>1. n + x <= Len(packetBuf) /\ x \in 1 .. Len(packetBuf) - n
            BY <1>2, <2>1 DEF Total
        <3>. QED
            BY <2>1, <3>1 DEF At
    <2>2. CASE ~(x <= Len(packetBuf) - n)
        <3>1. ~(n + x <= Len(packetBuf)) /\ (n + x) - Len(packetBuf) = x - (Len(packetBuf) - n)
            BY <1>2, <2>2 DEF Total
        <3>. QED
            BY <2>2, <3>1 DEF At
    <2>. QED
        BY <2>1, <2>2
<1>. QED
    BY <1>5, <1>6

-----------------------------------------------------------------------------
(* What is under way. *)

Types ==
    /\ link \in {"gateway", "sdk", "ws"}
    /\ sent \in Seq(Kinds) /\ taken \in Nat /\ decoded \in Seq(Nat)
    /\ link # "ws" => wire \in Seq(Nat) /\ packetBuf \in Seq(Nat)
    /\ link = "ws" => wire \in Seq([binary : BOOLEAN, data : Seq(Nat)])

(* The bytes of frame i on a link with the gateway's framing. *)
Bytes(i) == Packet(Body(sent[i], i))

(* cut[i] is the place in the stream where frame i ends: the stream is made
   of the frames that Read has not returned, whole and in order. *)
IsCut(cut) ==
    /\ cut \in [taken .. Len(sent) -> Nat]
    /\ cut[taken] = 0 /\ cut[Len(sent)] = Total
    /\ \A i, j \in taken .. Len(sent) : i <= j => cut[i] <= cut[j]
    /\ \A i \in taken + 1 .. Len(sent) :
         /\ cut[i] = cut[i - 1] + Len(Bytes(i))
         /\ \A x \in 1 .. Len(Bytes(i)) : At(cut[i - 1] + x) = Bytes(i)[x]

GatewayInv == taken <= Len(sent) /\ \E cut : IsCut(cut)

(* The first header of the SDK stays in front: it announces 2^24 bytes. *)
SdkInv ==
    /\ taken = 0
    /\ Total # 0 => Total >= 6 /\ At(3) = 1 /\ At(4) = 0 /\ At(5) = 0 /\ At(6) = 0

(* WebSocket messages are the frames, until one of them ends the readLoop. *)
WsInv ==
    /\ taken <= Len(sent)
    /\ status # "ended" =>
         /\ Len(wire) = Len(sent) - taken
         /\ \A x \in 1 .. Len(wire) :
              /\ wire[x].binary = (sent[taken + x] # "text")
              /\ wire[x].data = Body(sent[taken + x], taken + x)

StreamInv ==
    /\ link = "gateway" => GatewayInv
    /\ link = "sdk" => SdkInv
    /\ link = "ws" => WsInv

FrameInv == Types /\ StreamInv /\ (link # "sdk" => Carried(taken, decoded))

LEMMA FrameBytes ==
    ASSUME NEW k, NEW n \in Nat
    PROVE  /\ Body(k, n) \in Seq(Nat) /\ Len(Body(k, n)) \in 0 .. 5
           /\ IsPacket(Packet(Body(k, n)), Body(k, n))
<1>1. Body(k, n) \in Seq(Nat) /\ Len(Body(k, n)) \in 0 .. 5
    BY BodyOK
<1>. QED
    BY <1>1, PacketBytes, Zenon

(* Another frame leaves the earlier ones as they were. *)
LEMMA Appended ==
    ASSUME NEW s \in Seq(Kinds), NEW k \in Kinds, NEW t, t = Append(s, k)
    PROVE  /\ t \in Seq(Kinds) /\ Len(s) \in Nat /\ Len(t) = Len(s) + 1
           /\ t[Len(s) + 1] = k /\ \A i \in 1 .. Len(s) : t[i] = s[i]
    OBVIOUS

(* Messages of frames that are not yet returned do not matter. *)
LEMMA CarriedStays ==
    ASSUME Types, Carried(taken, decoded), taken <= Len(sent), NEW k \in Kinds,
           sent' = Append(sent, k), UNCHANGED <<taken, decoded>>
    PROVE  Carried(taken, decoded)'
<1>1. \A i \in 1 .. taken : sent'[i] = sent[i]
    BY Appended DEF Types
<1>. QED
    BY <1>1 DEF Carried, Types

(* Read returns frame m: its message is delivered, or it is malformed or has   *)
(* expired.                                                                    *)
LEMMA ReturnedNext ==
    ASSUME NEW m \in Nat \ {0}, Returned(Body(sent[m], m))
    PROVE  \/ sent[m] \in Good /\ decoded' = Append(decoded, m)
           \/ sent[m] \notin Good \ Timed /\ decoded' = decoded
<1>1. CASE sent[m] \in Good
    <2>1. Decode(Body(sent[m], m)) = m /\ m # Bad
        BY <1>1, DecodeBody DEF Bad
    <2>. QED
        BY <1>1, <2>1 DEF Returned
<1>2. CASE sent[m] \notin Good
    <2>1. Decode(Body(sent[m], m)) = Bad
        BY <1>2, DecodeBody
    <2>. QED
        BY <1>2, <2>1 DEF Returned
<1>. QED
    BY <1>1, <1>2

(* One more frame: its message is appended, or it need not be there. *)
LEMMA CarriedGrows ==
    ASSUME Types, Carried(taken, decoded), taken + 1 <= Len(sent), sent' = sent,
           Returned(Body(sent[taken + 1], taken + 1))
    PROVE  decoded' \in Seq(Nat) /\ taken' = taken + 1 /\ Carried(taken, decoded)'
<1>. DEFINE m == taken + 1
<1>1. m \in Nat \ {0} /\ taken' = m /\ taken \in Nat
    BY DEF Types, Returned
<1>d. \/ sent[m] \in Good /\ decoded' = Append(decoded, m)
      \/ sent[m] \notin Good \ Timed /\ decoded' = decoded
    BY <1>1, ReturnedNext
<1>2. CASE sent[m] \in Good /\ decoded' = Append(decoded, m)
    <2>2. decoded' = Append(decoded, m)
        BY <1>2
    <2>3. /\ decoded' \in Seq(Nat) /\ Len(decoded') = Len(decoded) + 1 /\ Len(decoded) \in Nat
          /\ DOMAIN decoded = 1 .. Len(decoded) /\ DOMAIN decoded' = 1 .. Len(decoded) + 1
          /\ decoded'[Len(decoded) + 1] = m /\ \A i \in 1 .. Len(decoded) : decoded'[i] = decoded[i]
        BY <1>1, <2>2 DEF Types
    <2>. HIDE DEF m
    <2>4. \A i \in DOMAIN decoded' : decoded'[i] \in 1 .. m /\ sent[decoded'[i]] \in Good
        BY <1>1, <1>2, <2>3 DEF Carried, m
    <2>5. \A i, j \in DOMAIN decoded' : i < j => decoded'[i] < decoded'[j]
        <3>1. SUFFICES ASSUME NEW i \in DOMAIN decoded', NEW j \in DOMAIN decoded', i < j
                       PROVE  decoded'[i] < decoded'[j]
            OBVIOUS
        <3>2. i \in DOMAIN decoded /\ decoded[i] \in 1 .. taken /\ decoded'[i] = decoded[i]
            BY <2>3, <3>1 DEF Carried
        <3>3. CASE j = Len(decoded) + 1
            BY <1>1, <2>3, <3>2, <3>3 DEF m
        <3>4. CASE j # Len(decoded) + 1
            <4>1. j \in DOMAIN decoded /\ decoded'[j] = decoded[j]
                BY <2>3, <3>4
            <4>. QED
                BY <3>1, <3>2, <4>1 DEF Carried
        <3>. QED
            BY <3>3, <3>4
    <2>6. \A x \in 1 .. m :
            sent[x] \in Good \ Timed => \E i \in DOMAIN decoded' : decoded'[i] = x
        <3>1. SUFFICES ASSUME NEW x \in 1 .. m, sent[x] \in Good \ Timed
                       PROVE  \E i \in DOMAIN decoded' : decoded'[i] = x
            OBVIOUS
        <3>2. CASE x = m
            BY <2>3, <3>2
        <3>3. CASE x # m
            <4>1. x \in 1 .. taken
                BY <1>1, <3>3 DEF m
            <4>2. PICK i \in DOMAIN decoded : decoded[i] = x
                BY <3>1, <4>1 DEF Carried
            <4>. QED
                BY <2>3, <4>2
        <3>. QED
            BY <3>2, <3>3
    <2>. QED
        BY <1>1, <2>3, <2>4, <2>5, <2>6 DEF Carried, m
<1>3. CASE sent[m] \notin Good \ Timed /\ decoded' = decoded
    <2>2. decoded' = decoded
        BY <1>3
    <2>3. \A i \in 1 .. taken : i \in 1 .. m
        BY <1>1
    <2>4. \A i \in 1 .. m : i = m \/ i \in 1 .. taken
        BY <1>1
    <2>. HIDE DEF m
    <2>. QED
        BY <1>1, <1>3, <2>2, <2>3, <2>4 DEF Carried, Types, m
<1>. QED
    BY <1>d, <1>2, <1>3

-----------------------------------------------------------------------------
(* A peer with the gateway's framing. *)

LEMMA FrameIsPacket ==
    ASSUME Types, NEW i \in Nat
    PROVE  /\ Bytes(i) \in Seq(Nat) /\ Len(Bytes(i)) \in 6 .. 11
           /\ IsPacket(Bytes(i), Body(sent[i], i))
<1>1. PICK p, b : p = Bytes(i) /\ b = Body(sent[i], i)
    OBVIOUS
<1>2. Len(b) \in 0 .. 5 /\ IsPacket(p, b)
    BY <1>1, FrameBytes, Zenon DEF Bytes
<1>3. p \in Seq(Nat) /\ Len(p) = 6 + Len(b)
    BY <1>2, Zenon DEF IsPacket
<1>4. Len(p) \in 6 .. 11
    <2>1. PICK l \in 0 .. 5 : l = Len(b)
        BY <1>2
    <2>2. 6 + l \in 6 .. 11
        OBVIOUS
    <2>. QED
        BY <1>3, <2>1, <2>2, Zenon
<1>. QED
    BY <1>1, <1>2, <1>3, <1>4, Zenon

LEMMA GatewayWrite ==
    ASSUME Types, link = "gateway", GatewayInv, NEW k \in Kinds, Write(k)
    PROVE  wire' \in Seq(Nat) /\ GatewayInv'
<1>m. PICK m : m = Len(sent) + 1
    OBVIOUS
<1>1. PICK p : p = Packet(Body(k, m))
    OBVIOUS
<1>2. /\ sent' = Append(sent, k) /\ wire' = wire \o p
      /\ packetBuf' = packetBuf /\ taken' = taken
    BY <1>m, <1>1 DEF Write
<1>3. wire \in Seq(Nat) /\ packetBuf \in Seq(Nat) /\ sent \in Seq(Kinds) /\ taken \in Nat
    BY DEF Types
<1>4. /\ sent' \in Seq(Kinds) /\ Len(sent) \in Nat /\ Len(sent') = m
      /\ sent'[m] = k /\ \A i \in 1 .. Len(sent) : sent'[i] = sent[i]
    BY <1>m, <1>2, <1>3, Appended
<1>5. m \in Nat /\ m = Len(sent) + 1
    BY <1>m, <1>4
<1>6. p \in Seq(Nat) /\ Len(p) \in Nat
    <2>1. IsPacket(p, Body(k, m))
        BY <1>1, <1>5, FrameBytes, Zenon
    <2>. QED
        BY <2>1 DEF IsPacket
<1>7. /\ wire' \in Seq(Nat) /\ Total' = Total + Len(p)
      /\ \A x \in 1 .. Total : At(x)' = At(x)
      /\ \A x \in Total + 1 .. Total + Len(p) : At(x)' = p[x - Total]
    BY <1>2, <1>3, <1>6, WriteExtendsStream, Zenon
<1>8. Total \in Nat
    BY <1>3 DEF Total
<1>9. PICK cut : IsCut(cut)
    BY DEF GatewayInv
<1>c. /\ cut \in [taken .. Len(sent) -> Nat]
      /\ cut[taken] = 0 /\ cut[Len(sent)] = Total
      /\ \A i, j \in taken .. Len(sent) : i <= j => cut[i] <= cut[j]
    BY <1>9 DEF IsCut
<1>10. taken <= Len(sent)
    BY DEF GatewayInv
<1>11. /\ \A i \in 1 .. Len(sent) : Bytes(i)' = Bytes(i)
       /\ Bytes(m)' = p
    BY <1>1, <1>4 DEF Bytes
<1>12. PICK cut2 : cut2 = [i \in taken .. m |-> IF i = m THEN Total + Len(p) ELSE cut[i]]
    OBVIOUS
<1>13. \A i \in taken .. Len(sent) :
         cut2[i] = cut[i] /\ cut[i] \in Nat /\ cut[i] <= Total
    <2>1. SUFFICES ASSUME NEW i \in taken .. Len(sent)
                   PROVE  cut2[i] = cut[i] /\ cut[i] \in Nat /\ cut[i] <= Total
        OBVIOUS
    <2>2. i \in taken .. m /\ i # m /\ i <= Len(sent) /\ Len(sent) \in taken .. Len(sent)
        BY <1>3, <1>4, <1>5, <1>10
    <2>3. cut2[i] = cut[i]
        BY <1>12, <2>2
    <2>. QED
        BY <1>c, <2>2, <2>3
<1>14. /\ cut2 \in [taken .. m -> Nat] /\ cut2[m] = Total + Len(p) /\ cut2[taken] = 0
    BY <1>3, <1>4, <1>5, <1>6, <1>8, <1>c, <1>10, <1>12, <1>13
<1>15. \A i, j \in taken .. m : i <= j => cut2[i] <= cut2[j]
    <2>1. SUFFICES ASSUME NEW i \in taken .. m, NEW j \in taken .. m, i <= j
                   PROVE  cut2[i] <= cut2[j]
        OBVIOUS
    <2>2. CASE j = m
        <3>1. i = m \/ i \in taken .. Len(sent)
            BY <1>3, <1>4, <1>5
        <3>. QED
            BY <1>6, <1>8, <1>13, <1>14, <2>2, <3>1
    <2>3. CASE j # m
        <3>1. i \in taken .. Len(sent) /\ j \in taken .. Len(sent)
            BY <1>3, <1>4, <1>5, <2>1, <2>3
        <3>. QED
            BY <1>c, <1>13, <2>1, <3>1
    <2>. QED
        BY <2>2, <2>3
<1>16. ASSUME NEW i \in taken + 1 .. m
       PROVE  /\ cut2[i] = cut2[i - 1] + Len(Bytes(i)')
              /\ \A x \in 1 .. Len(Bytes(i)') : At(cut2[i - 1] + x)' = Bytes(i)'[x]
    <2>1. CASE i = m
        <3>1. i - 1 \in Nat /\ i - 1 = Len(sent) /\ cut2[i - 1] = Total
            BY <1>3, <1>4, <1>5, <1>c, <1>10, <1>13, <2>1
        <3>2. Bytes(i)' = p
            BY <1>11, <2>1
        <3>3. ASSUME NEW x \in 1 .. Len(p) PROVE At(cut2[i - 1] + x)' = p[x]
            <4>1. PICK y : y = cut2[i - 1] + x
                OBVIOUS
            <4>2. y \in Total + 1 .. Total + Len(p) /\ y - Total = x
                BY <1>6, <1>8, <3>1, <4>1
            <4>3. At(y)' = p[x]
                BY <1>7, <4>2
            <4>. QED
                BY <4>1, <4>3
        <3>. QED
            BY <1>14, <2>1, <3>1, <3>2, <3>3
    <2>2. CASE i # m
        <3>1. /\ i \in taken + 1 .. Len(sent) /\ i \in 1 .. Len(sent)
              /\ i \in taken .. Len(sent) /\ i - 1 \in taken .. Len(sent)
            BY <1>3, <1>4, <1>5, <2>2
        <3>2. cut2[i] = cut[i] /\ cut2[i - 1] = cut[i - 1] /\ cut[i] <= Total /\ cut[i - 1] \in Nat
            BY <1>13, <3>1
        <3>3. Bytes(i)' = Bytes(i)
            BY <1>11, <3>1
        <3>4. PICK q : q = Bytes(i)
            OBVIOUS
        <3>5. cut[i] = cut[i - 1] + Len(q) /\ \A x \in 1 .. Len(q) : At(cut[i - 1] + x) = q[x]
            BY <1>9, <3>1, <3>4 DEF IsCut
        <3>6. Len(q) \in Nat
            BY <3>1, <3>4, FrameIsPacket
        <3>7. ASSUME NEW x \in 1 .. Len(q) PROVE At(cut2[i - 1] + x)' = q[x]
            <4>1. PICK y : y = cut[i - 1] + x
                OBVIOUS
            <4>2. y \in 1 .. Total
                BY <1>8, <3>2, <3>5, <3>6, <4>1
            <4>3. At(y)' = At(y)
                BY <1>7, <4>2
            <4>4. At(y) = q[x]
                BY <3>5, <4>1
            <4>. QED
                BY <3>2, <4>1, <4>3, <4>4
        <3>. QED
            BY <3>2, <3>3, <3>4, <3>5, <3>7
    <2>. QED
        BY <2>1, <2>2
<1>17. IsCut(cut2)'
    BY <1>2, <1>4, <1>7, <1>14, <1>15, <1>16 DEF IsCut
<1>18. (taken <= Len(sent))'
    BY <1>2, <1>3, <1>4, <1>5, <1>10
<1>. QED
    BY <1>7, <1>17, <1>18 DEF GatewayInv

LEMMA CutOrder ==
    ASSUME Types, NEW cut, IsCut(cut), taken <= Len(sent), NEW i \in taken + 1 .. Len(sent)
    PROVE  /\ i \in Nat \ {0} /\ i - 1 \in taken .. Len(sent) /\ i \in taken .. Len(sent)
           /\ cut[i - 1] \in Nat /\ cut[i] \in Nat /\ cut[i] <= Total /\ Total \in Nat
           /\ cut[i] = cut[i - 1] + Len(Bytes(i)) /\ Len(Bytes(i)) \in 6 .. 11
           /\ \A x \in 1 .. Len(Bytes(i)) : At(cut[i - 1] + x) = Bytes(i)[x]
<1>1. sent \in Seq(Kinds) /\ taken \in Nat
    BY DEF Types
<1>2. Len(sent) \in Nat
    BY <1>1
<1>3. /\ cut \in [taken .. Len(sent) -> Nat] /\ cut[Len(sent)] = Total
      /\ \A j, k \in taken .. Len(sent) : j <= k => cut[j] <= cut[k]
      /\ cut[i] = cut[i - 1] + Len(Bytes(i))
      /\ \A x \in 1 .. Len(Bytes(i)) : At(cut[i - 1] + x) = Bytes(i)[x]
    BY DEF IsCut
<1>4. /\ i \in Nat \ {0} /\ i - 1 \in taken .. Len(sent) /\ i \in taken .. Len(sent)
      /\ i <= Len(sent) /\ Len(sent) \in taken .. Len(sent)
    BY <1>1, <1>2
<1>5. cut[i - 1] \in Nat /\ cut[i] \in Nat /\ cut[i] <= Total /\ Total \in Nat
    BY <1>3, <1>4
<1>6. Len(Bytes(i)) \in 6 .. 11
    BY <1>4, FrameIsPacket
<1>. QED
    BY <1>3, <1>4, <1>5, <1>6

LEMMA GatewayRead ==
    ASSUME Types, link = "gateway", GatewayInv, ConnRead
    PROVE  wire' \in Seq(Nat) /\ packetBuf' \in Seq(Nat) /\ GatewayInv'
<1>1. wire \in Seq(Nat) /\ packetBuf \in Seq(Nat)
    BY DEF Types
<1>2. /\ packetBuf' \in Seq(Nat) /\ wire' \in Seq(Nat) /\ Total' = Total
      /\ \A x \in 1 .. Total : At(x)' = At(x)
    BY <1>1, ReadKeepsStream
<1>3. sent' = sent /\ taken' = taken
    BY DEF ConnRead
<1>4. PICK cut : IsCut(cut)
    BY DEF GatewayInv
<1>5. taken <= Len(sent)
    BY DEF GatewayInv
<1>6. ASSUME NEW i \in taken + 1 .. Len(sent)
      PROVE  /\ cut[i] = cut[i - 1] + Len(Bytes(i)')
             /\ \A x \in 1 .. Len(Bytes(i)') : At(cut[i - 1] + x)' = Bytes(i)'[x]
    <2>1. PICK q : q = Bytes(i)
        OBVIOUS
    <2>2. /\ cut[i - 1] \in Nat /\ cut[i] <= Total /\ Total \in Nat
          /\ cut[i] = cut[i - 1] + Len(q) /\ Len(q) \in 6 .. 11
          /\ \A x \in 1 .. Len(q) : At(cut[i - 1] + x) = q[x]
        BY <1>4, <1>5, <2>1, CutOrder
    <2>3. Bytes(i)' = q
        BY <1>3, <2>1 DEF Bytes
    <2>4. ASSUME NEW x \in 1 .. Len(q) PROVE At(cut[i - 1] + x)' = q[x]
        <3>1. PICK y : y = cut[i - 1] + x
            OBVIOUS
        <3>2. y \in 1 .. Total
            BY <2>2, <3>1
        <3>3. At(y)' = At(y) /\ At(y) = q[x]
            BY <1>2, <2>2, <3>1, <3>2
        <3>. QED
            BY <3>1, <3>3
    <2>. QED
        BY <2>2, <2>3, <2>4
<1>7. IsCut(cut)'
    <2>1. /\ cut \in [taken .. Len(sent) -> Nat]
          /\ cut[taken] = 0 /\ cut[Len(sent)] = Total
          /\ \A i, j \in taken .. Len(sent) : i <= j => cut[i] <= cut[j]
        BY <1>4 DEF IsCut
    <2>. QED
        BY <1>2, <1>3, <1>6, <2>1 DEF IsCut
<1>. QED
    BY <1>2, <1>3, <1>5, <1>7 DEF GatewayInv

(* The bytes from position 7 on. *)
LEMMA BodyRead ==
    ASSUME NEW s \in Seq(Nat), NEW b \in Seq(Nat), 6 + Len(b) <= Len(s),
           \A x \in 1 .. Len(b) : s[6 + x] = b[x]
    PROVE  SubSeq(s, 6 + 1, 6 + Len(b)) = b
<1>1. PICK l \in Nat : l = Len(b)
    OBVIOUS
<1>2. PICK t : t = SubSeq(s, 6 + 1, 6 + l)
    OBVIOUS
<1>3. t \in Seq(Nat) /\ Len(t) = l /\ \A x \in 1 .. l : t[x] = s[6 + x]
    BY <1>1, <1>2
<1>4. Len(t) = Len(b) /\ \A x \in 1 .. Len(t) : t[x] = b[x]
    BY <1>1, <1>3
<1>5. t = b
    BY <1>3, <1>4, SeqEqual, Zenon
<1>. QED
    BY <1>1, <1>2, <1>5, Zenon

(* With a header in packetBuf, the next frame is in front. *)
LEMMA Front ==
    ASSUME Types, link = "gateway", NEW cut, IsCut(cut), taken <= Len(sent),
           ~Short(packetBuf), NEW b, b = Body(sent[taken + 1], taken + 1)
    PROVE  /\ taken + 1 <= Len(sent) /\ b \in Seq(Nat) /\ Len(b) \in 0 .. 5
           /\ cut[taken + 1] = 6 + Len(b)
           /\ SubSeq(packetBuf, 1, 2) = Magic /\ ProtobufLen(packetBuf) = Len(b)
           /\ 6 + Len(b) <= Len(packetBuf) => SubSeq(packetBuf, 6 + 1, 6 + Len(b)) = b
<1>1. /\ packetBuf \in Seq(Nat) /\ wire \in Seq(Nat) /\ taken \in Nat
      /\ Len(sent) \in Nat /\ Len(packetBuf) \in Nat /\ Len(wire) \in Nat
    BY DEF Types
<1>2. Len(packetBuf) >= 6 /\ Total >= 6
    BY <1>1 DEF Short, HeaderLen, Total
<1>3. cut[taken] = 0 /\ cut[Len(sent)] = Total
    BY DEF IsCut
<1>4. taken # Len(sent)
    BY <1>2, <1>3
<1>5. taken + 1 \in taken + 1 .. Len(sent) /\ taken + 1 \in Nat /\ (taken + 1) - 1 = taken
    BY <1>1, <1>4
<1>6. PICK p : p = Bytes(taken + 1)
    OBVIOUS
<1>7. b \in Seq(Nat) /\ Len(b) \in 0 .. 5 /\ IsPacket(p, b)
    BY <1>5, <1>6, FrameBytes, Zenon DEF Bytes
<1>8. PICK l \in 0 .. 5 : l = Len(b)
    BY <1>7
<1>9. /\ Len(p) = 6 + l /\ p[1] = 18 /\ p[2] = 52 /\ p[3] = 0 /\ p[4] = 0 /\ p[5] = 0
      /\ p[6] = l /\ \A x \in 1 .. l : p[6 + x] = b[x]
    BY <1>7, <1>8, Zenon DEF IsPacket
<1>10. /\ cut[taken + 1] = cut[taken] + Len(p)
       /\ \A x \in 1 .. Len(p) : At(cut[taken] + x) = p[x]
    BY <1>5, <1>6, CutOrder
<1>11. \A x \in 1 .. 6 + l : At(x) = p[x]
    BY <1>3, <1>9, <1>10
<1>12. \A x \in 1 .. 6 + l : x <= Len(packetBuf) => packetBuf[x] = p[x]
    BY <1>11 DEF At
<1>13. /\ packetBuf[1] = 18 /\ packetBuf[2] = 52 /\ packetBuf[3] = 0
       /\ packetBuf[4] = 0 /\ packetBuf[5] = 0 /\ packetBuf[6] = l
    <2>1. /\ 1 \in 1 .. 6 + l /\ 2 \in 1 .. 6 + l /\ 3 \in 1 .. 6 + l
          /\ 4 \in 1 .. 6 + l /\ 5 \in 1 .. 6 + l /\ 6 \in 1 .. 6 + l
        OBVIOUS
    <2>2. /\ 1 <= Len(packetBuf) /\ 2 <= Len(packetBuf) /\ 3 <= Len(packetBuf)
          /\ 4 <= Len(packetBuf) /\ 5 <= Len(packetBuf) /\ 6 <= Len(packetBuf)
        BY <1>1, <1>2
    <2>. QED
        BY <1>9, <1>12, <2>1, <2>2, ZenonT(40)
<1>14. SubSeq(packetBuf, 1, 2) = Magic
    BY <1>1, <1>2, <1>13, HeaderRead
<1>15. ProtobufLen(packetBuf) = l
    BY <1>1, <1>2, <1>13, SmallLengthRead
<1>16. cut[taken + 1] = 6 + l
    BY <1>3, <1>9, <1>10
<1>17. ASSUME 6 + Len(b) <= Len(packetBuf)
       PROVE  SubSeq(packetBuf, 6 + 1, 6 + Len(b)) = b
    <2>1. \A x \in 1 .. l : 6 + x \in 1 .. 6 + l /\ 6 + x <= Len(packetBuf)
        BY <1>1, <1>8, <1>17
    <2>2. \A x \in 1 .. Len(b) : packetBuf[6 + x] = b[x]
        BY <1>8, <1>9, <1>12, <2>1
    <2>. QED
        BY <1>1, <1>7, <1>17, <2>2, BodyRead
<1>18. taken + 1 <= Len(sent)
    BY <1>1, <1>5
<1>. QED
    BY <1>7, <1>8, <1>14, <1>15, <1>16, <1>17, <1>18, Zenon

LEMMA GatewayParse ==
    ASSUME Types, link = "gateway", GatewayInv, ParseHeader
    PROVE  /\ packetBuf' \in Seq(Nat) /\ GatewayInv'
           /\ \/ UNCHANGED <<taken, decoded>>
              \/ /\ taken + 1 <= Len(sent)
                 /\ Returned(Body(sent[taken + 1], taken + 1))
<1>1. /\ packetBuf \in Seq(Nat) /\ wire \in Seq(Nat) /\ taken \in Nat
      /\ Len(sent) \in Nat /\ Len(packetBuf) \in Nat /\ Len(wire) \in Nat
    BY DEF Types
<1>2. PICK cut : IsCut(cut)
    BY DEF GatewayInv
<1>3. taken <= Len(sent) /\ ~Short(packetBuf)
    BY DEF GatewayInv, ParseHeader
<1>4. PICK b : b = Body(sent[taken + 1], taken + 1)
    OBVIOUS
<1>5. /\ taken + 1 <= Len(sent) /\ b \in Seq(Nat) /\ Len(b) \in 0 .. 5
      /\ cut[taken + 1] = 6 + Len(b)
      /\ SubSeq(packetBuf, 1, 2) = Magic /\ ProtobufLen(packetBuf) = Len(b)
      /\ 6 + Len(b) <= Len(packetBuf) => SubSeq(packetBuf, 6 + 1, 6 + Len(b)) = b
    BY <1>2, <1>3, <1>4, Front, Zenon
<1>6. wire' = wire /\ sent' = sent
    BY DEF ParseHeader
<1>7. CASE UNCHANGED <<packetBuf, taken, decoded>>
    <2>1. /\ Total' = Total /\ taken' = taken
          /\ \A x : At(x)' = At(x)
          /\ \A i : Bytes(i)' = Bytes(i)
        BY <1>6, <1>7 DEF Bytes, At, Total
    <2>2. IsCut(cut)'
        BY <1>2, <1>6, <2>1 DEF IsCut
    <2>. QED
        BY <1>1, <1>3, <1>6, <1>7, <2>2 DEF GatewayInv
<1>8. CASE /\ ~Incomplete(packetBuf)
           /\ Returned(SubSeq(packetBuf, HeaderLen + 1, HeaderLen + ProtobufLen(packetBuf)))
           /\ packetBuf' = Rest(packetBuf)
    <2>1. PICK n : n = 6 + Len(b)
        OBVIOUS
    <2>2. n \in 6 .. 11
        <3>1. PICK l \in 0 .. 5 : l = Len(b)
            BY <1>5
        <3>2. 6 + l \in 6 .. 11
            OBVIOUS
        <3>. QED
            BY <2>1, <3>1, <3>2, Zenon
    <2>3. n <= Len(packetBuf) /\ packetBuf' = SubSeq(packetBuf, n + 1, Len(packetBuf))
        BY <1>1, <1>5, <1>8, <2>1, <2>2 DEF Incomplete, Rest, HeaderLen
    <2>4. Returned(b)
        <3>1. SubSeq(packetBuf, 6 + 1, 6 + Len(b)) = b
            BY <1>5, <2>1, <2>3
        <3>. QED
            BY <1>5, <1>8, <3>1, Zenon DEF HeaderLen
    <2>5. taken' = taken + 1
        BY <2>4 DEF Returned
    <2>6. /\ packetBuf' \in Seq(Nat) /\ Len(packetBuf') = Len(packetBuf) - n
          /\ \A x \in 1 .. Len(packetBuf) - n : packetBuf'[x] = packetBuf[n + x]
        <3>1. n \in Nat
            BY <2>2
        <3>. QED
            BY <1>1, <2>3, <3>1, Suffix, ZenonT(40)
    <2>7. /\ Total' = Total - n
          /\ \A x \in 1 .. Total - n : At(x)' = At(n + x)
        <3>1. n \in Nat
            BY <2>2
        <3>. QED
            BY <1>1, <1>6, <2>3, <2>6, <3>1, TakeShiftsStream, Zenon
    <2>8. PICK cut2 : cut2 = [i \in taken + 1 .. Len(sent) |-> cut[i] - n]
        OBVIOUS
    <2>9. /\ cut \in [taken .. Len(sent) -> Nat]
          /\ cut[Len(sent)] = Total
          /\ \A i, j \in taken .. Len(sent) : i <= j => cut[i] <= cut[j]
        BY <1>2 DEF IsCut
    <2>10. \A i \in taken + 1 .. Len(sent) :
             /\ i \in taken .. Len(sent) /\ cut2[i] = cut[i] - n
             /\ cut[i] \in Nat /\ n <= cut[i] /\ cut[i] - n \in Nat
        <3>1. SUFFICES ASSUME NEW i \in taken + 1 .. Len(sent)
                       PROVE  /\ i \in taken .. Len(sent) /\ cut2[i] = cut[i] - n
                              /\ cut[i] \in Nat /\ n <= cut[i] /\ cut[i] - n \in Nat
            OBVIOUS
        <3>2. i \in taken .. Len(sent) /\ taken + 1 \in taken .. Len(sent) /\ taken + 1 <= i
            BY <1>1
        <3>3. cut[i] \in Nat /\ n <= cut[i]
            BY <1>5, <2>1, <2>9, <3>2
        <3>. QED
            BY <2>2, <2>8, <3>2, <3>3
    <2>11. taken + 1 \in taken + 1 .. Len(sent) /\ Len(sent) \in taken + 1 .. Len(sent)
        BY <1>1, <1>5
    <2>12. /\ cut2 \in [taken + 1 .. Len(sent) -> Nat]
           /\ cut2[taken + 1] = 0 /\ cut2[Len(sent)] = Total - n
        BY <1>5, <2>1, <2>2, <2>8, <2>9, <2>10, <2>11
    <2>13. \A i, j \in taken + 1 .. Len(sent) : i <= j => cut2[i] <= cut2[j]
        BY <2>2, <2>9, <2>10
    <2>14. ASSUME NEW i \in taken + 2 .. Len(sent)
           PROVE  /\ cut2[i] = cut2[i - 1] + Len(Bytes(i)')
                  /\ \A x \in 1 .. Len(Bytes(i)') : At(cut2[i - 1] + x)' = Bytes(i)'[x]
        <3>1. i \in taken + 1 .. Len(sent) /\ i - 1 \in taken + 1 .. Len(sent)
            BY <1>1
        <3>2. PICK q : q = Bytes(i)
            OBVIOUS
        <3>3. /\ cut[i - 1] \in Nat /\ cut[i] <= Total /\ Total \in Nat
              /\ cut[i] = cut[i - 1] + Len(q) /\ Len(q) \in 6 .. 11
              /\ \A x \in 1 .. Len(q) : At(cut[i - 1] + x) = q[x]
            BY <1>2, <1>3, <3>1, <3>2, CutOrder
        <3>4. Bytes(i)' = q
            BY <1>6, <3>2 DEF Bytes
        <3>5. cut2[i] = cut[i] - n /\ cut2[i - 1] = cut[i - 1] - n /\ n <= cut[i - 1]
            BY <2>10, <3>1
        <3>6. ASSUME NEW x \in 1 .. Len(q) PROVE At(cut2[i - 1] + x)' = q[x]
            <4>1. PICK y : y = cut2[i - 1] + x
                OBVIOUS
            <4>2. y \in 1 .. Total - n /\ n + y = cut[i - 1] + x
                <5>1. PICK c, l, t : c = cut[i - 1] /\ l = Len(q) /\ t = Total
                    OBVIOUS
                <5>2. /\ c \in Nat /\ l \in 6 .. 11 /\ t \in Nat /\ x \in 1 .. l
                      /\ c + l <= t /\ n <= c /\ y = (c - n) + x
                    BY <3>3, <3>5, <4>1, <5>1
                <5>3. y \in 1 .. t - n /\ n + y = c + x
                    BY <2>2, <5>2
                <5>. QED
                    BY <5>1, <5>3
            <4>3. At(y)' = At(n + y)
                BY <2>7, <4>2
            <4>4. At(n + y) = q[x]
                BY <3>3, <4>2
            <4>. QED
                BY <4>1, <4>3, <4>4
        <3>7. cut2[i] = cut2[i - 1] + Len(q)
            BY <2>2, <3>3, <3>5
        <3>. QED
            BY <3>4, <3>6, <3>7
    <2>15. (taken + 1) + 1 = taken + 2
        BY <1>1
    <2>16. IsCut(cut2)'
        BY <1>6, <2>5, <2>7, <2>12, <2>13, <2>14, <2>15 DEF IsCut
    <2>17. (taken <= Len(sent))'
        BY <1>5, <1>6, <2>5
    <2>. QED
        BY <1>4, <1>5, <2>4, <2>6, <2>16, <2>17, Zenon DEF GatewayInv
<1>. QED
    BY <1>7, <1>8, Zenon DEF ParseHeader

-----------------------------------------------------------------------------
(* A peer with the framing of the SDK. *)

LEMMA SdkWrite ==
    ASSUME Types, link = "sdk", SdkInv, NEW k \in Kinds, Write(k)
    PROVE  wire' \in Seq(Nat) /\ SdkInv'
<1>1. PICK m, p : m = Len(sent) + 1 /\ p = SdkPacket(marshal(CodecProtobuf, m))
    OBVIOUS
<1>2. wire' = wire \o p /\ packetBuf' = packetBuf /\ taken' = taken
    BY <1>1 DEF Write
<1>3. wire \in Seq(Nat) /\ packetBuf \in Seq(Nat) /\ m \in Nat
    BY <1>1 DEF Types
<1>4. p \in Seq(Nat) /\ Len(p) = 10 /\ p[3] = 1 /\ p[4] = 0 /\ p[5] = 0 /\ p[6] = 0
    BY <1>1, <1>3, SdkBytes
<1>5. /\ wire' \in Seq(Nat) /\ Total' = Total + Len(p)
      /\ \A x \in 1 .. Total : At(x)' = At(x)
      /\ \A x \in Total + 1 .. Total + Len(p) : At(x)' = p[x - Total]
    BY <1>2, <1>3, <1>4, WriteExtendsStream, Zenon
<1>6. PICK t : t = Total
    OBVIOUS
<1>7. t \in Nat
    BY <1>3, <1>6 DEF Total
<1>8. Total' = t + 10 /\ t + 10 >= 6
    BY <1>4, <1>5, <1>6, <1>7
<1>9. At(3)' = 1 /\ At(4)' = 0 /\ At(5)' = 0 /\ At(6)' = 0
    <2>1. CASE t = 0
        <3>1. \A x \in 1 .. 10 : At(x)' = p[x - 0]
            <4>1. \A x \in t + 1 .. t + Len(p) : At(x)' = p[x - t]
                BY <1>5, <1>6, Zenon
            <4>2. t + 1 = 1 /\ t + Len(p) = 10
                BY <1>4, <2>1
            <4>. QED
                BY <2>1, <4>1, <4>2, Zenon
        <3>2. /\ 3 \in 1 .. 10 /\ 4 \in 1 .. 10 /\ 5 \in 1 .. 10 /\ 6 \in 1 .. 10
              /\ 3 - 0 = 3 /\ 4 - 0 = 4 /\ 5 - 0 = 5 /\ 6 - 0 = 6
            OBVIOUS
        <3>. QED
            BY <1>4, <3>1, <3>2, Zenon
    <2>2. CASE t # 0
        <3>1. t >= 6 /\ At(3) = 1 /\ At(4) = 0 /\ At(5) = 0 /\ At(6) = 0
            BY <1>6, <2>2 DEF SdkInv
        <3>2. 3 \in 1 .. t /\ 4 \in 1 .. t /\ 5 \in 1 .. t /\ 6 \in 1 .. t
            BY <1>7, <3>1
        <3>. QED
            BY <1>5, <1>6, <3>1, <3>2, Zenon
    <2>. QED
        BY <2>1, <2>2
<1>10. taken' = 0
    BY <1>2 DEF SdkInv
<1>. QED
    BY <1>5, <1>8, <1>9, <1>10, Zenon DEF SdkInv

LEMMA SdkRead ==
    ASSUME Types, link = "sdk", SdkInv, ConnRead
    PROVE  wire' \in Seq(Nat) /\ packetBuf' \in Seq(Nat) /\ SdkInv'
<1>1. wire \in Seq(Nat) /\ packetBuf \in Seq(Nat) /\ Total \in Nat
    BY DEF Types, Total
<1>2. /\ packetBuf' \in Seq(Nat) /\ wire' \in Seq(Nat) /\ Total' = Total
      /\ \A x \in 1 .. Total : At(x)' = At(x)
    BY <1>1, ReadKeepsStream
<1>3. taken' = 0
    BY DEF ConnRead, SdkInv
<1>4. CASE Total = 0
    BY <1>2, <1>3, <1>4 DEF SdkInv
<1>5. CASE Total # 0
    <2>1. Total >= 6 /\ At(3) = 1 /\ At(4) = 0 /\ At(5) = 0 /\ At(6) = 0
        BY <1>5 DEF SdkInv
    <2>2. 3 \in 1 .. Total /\ 4 \in 1 .. Total /\ 5 \in 1 .. Total /\ 6 \in 1 .. Total
        BY <1>1, <2>1
    <2>3. At(3)' = 1 /\ At(4)' = 0 /\ At(5)' = 0 /\ At(6)' = 0
        BY <1>2, <2>1, <2>2, Zenon
    <2>. QED
        BY <1>2, <1>3, <2>1, <2>3, Zenon DEF SdkInv
<1>. QED
    BY <1>2, <1>4, <1>5

(* Read gives up: the version byte makes the length too large. *)
LEMMA SdkParse ==
    ASSUME Types, link = "sdk", SdkInv, ParseHeader
    PROVE  UNCHANGED <<packetBuf, taken, decoded>>
<1>1. /\ packetBuf \in Seq(Nat) /\ wire \in Seq(Nat)
      /\ Len(packetBuf) \in Nat /\ Len(wire) \in Nat
    BY DEF Types
<1>2. Len(packetBuf) >= 6 /\ Total # 0
    BY <1>1 DEF ParseHeader, Short, HeaderLen, Total
<1>3. At(3) = 1 /\ At(4) = 0 /\ At(5) = 0 /\ At(6) = 0
    BY <1>2 DEF SdkInv
<1>4. packetBuf[3] = 1 /\ packetBuf[4] = 0 /\ packetBuf[5] = 0 /\ packetBuf[6] = 0
    BY <1>1, <1>2, <1>3 DEF At
<1>5. ProtobufLen(packetBuf) = 16777216
    BY <1>1, <1>2, <1>4, LengthRead, SMTT(30)
<1>6. ~(ProtobufLen(packetBuf) <= MaxFrame)
    BY <1>5, MaxFrameAssumption, SMT
<1>. QED
    BY <1>6, Zenon DEF ParseHeader

-----------------------------------------------------------------------------
(* A WebSocket peer. *)

LEMMA WsWrite ==
    ASSUME Types, link = "ws", WsInv, NEW k \in Kinds, Write(k)
    PROVE  wire' \in Seq([binary : BOOLEAN, data : Seq(Nat)]) /\ WsInv'
<1>. DEFINE M == [binary : BOOLEAN, data : Seq(Nat)]
<1>1. PICK m, b : m = Len(sent) + 1 /\ b = Body(k, m)
    OBVIOUS
<1>2. PICK r : r = [binary |-> k # "text", data |-> b]
    OBVIOUS
<1>3. /\ wire' = Append(wire, r) /\ sent' = Append(sent, k) /\ taken' = taken
      /\ status' = status /\ status # "ended"
    BY <1>1, <1>2 DEF Write
<1>4. wire \in Seq(M) /\ sent \in Seq(Kinds) /\ taken \in Nat /\ m \in Nat
    BY <1>1 DEF Types
<1>5. r \in M
    <2>1. b \in Seq(Nat)
        BY <1>1, <1>4, FrameBytes
    <2>. QED
        BY <1>2, <2>1
<1>6. r.binary = (k # "text") /\ r.data = b
    BY <1>2
<1>7. /\ sent' \in Seq(Kinds) /\ Len(sent) \in Nat /\ Len(sent') = Len(sent) + 1
      /\ sent'[Len(sent) + 1] = k /\ \A i \in 1 .. Len(sent) : sent'[i] = sent[i]
    BY <1>3, <1>4, Appended
<1>. HIDE DEF M
<1>8. /\ wire' \in Seq(M) /\ Len(wire) \in Nat /\ Len(wire') = Len(wire) + 1
      /\ wire'[Len(wire) + 1] = r /\ \A i \in 1 .. Len(wire) : wire'[i] = wire[i]
    BY <1>3, <1>4, <1>5
<1>9. /\ taken <= Len(sent) /\ Len(wire) = Len(sent) - taken
      /\ \A x \in 1 .. Len(wire) :
           /\ wire[x].binary = (sent[taken + x] # "text")
           /\ wire[x].data = Body(sent[taken + x], taken + x)
    BY <1>3 DEF WsInv
<1>10. ASSUME NEW x \in 1 .. Len(wire) + 1
       PROVE  /\ wire'[x].binary = (sent'[taken + x] # "text")
              /\ wire'[x].data = Body(sent'[taken + x], taken + x)
    <2>1. CASE x = Len(wire) + 1
        <3>1. taken + x = Len(sent) + 1
            BY <1>4, <1>7, <1>8, <1>9, <2>1
        <3>. QED
            BY <1>1, <1>6, <1>7, <1>8, <2>1, <3>1
    <2>2. CASE x # Len(wire) + 1
        <3>1. x \in 1 .. Len(wire) /\ taken + x \in 1 .. Len(sent)
            BY <1>4, <1>7, <1>8, <1>9, <2>2
        <3>. QED
            BY <1>7, <1>8, <1>9, <3>1
    <2>. QED
        BY <2>1, <2>2
<1>11. taken <= Len(sent') /\ Len(wire') = Len(sent') - taken
    BY <1>4, <1>7, <1>8, <1>9
<1>. QED
    BY <1>3, <1>8, <1>10, <1>11 DEF WsInv, M

LEMMA WsRead ==
    ASSUME Types, link = "ws", WsInv, ReadMessage
    PROVE  /\ wire' \in Seq([binary : BOOLEAN, data : Seq(Nat)]) /\ WsInv'
           /\ \/ UNCHANGED <<taken, decoded>>
              \/ /\ taken + 1 <= Len(sent)
                 /\ Returned(Body(sent[taken + 1], taken + 1))
<1>. DEFINE M == [binary : BOOLEAN, data : Seq(Nat)]
<1>1. wire \in Seq(M) /\ sent \in Seq(Kinds) /\ taken \in Nat /\ Len(sent) \in Nat
    BY DEF Types
<1>2. wire # <<>> /\ wire' = Tail(wire) /\ sent' = sent /\ status = "read"
    BY DEF ReadMessage
<1>. HIDE DEF M
<1>3. /\ wire' \in Seq(M) /\ Len(wire) \in Nat \ {0} /\ Len(wire') = Len(wire) - 1
      /\ Head(wire) = wire[1] /\ \A x \in 1 .. Len(wire) - 1 : wire'[x] = wire[x + 1]
    BY <1>1, <1>2
<1>4. /\ taken <= Len(sent) /\ Len(wire) = Len(sent) - taken
      /\ \A x \in 1 .. Len(wire) :
           /\ wire[x].binary = (sent[taken + x] # "text")
           /\ wire[x].data = Body(sent[taken + x], taken + x)
    BY <1>2 DEF WsInv
<1>5. CASE Returned(Head(wire).data)
    <2>1. 1 \in 1 .. Len(wire)
        BY <1>3
    <2>2. Head(wire).data = Body(sent[taken + 1], taken + 1)
        BY <1>3, <1>4, <2>1
    <2>3. Returned(Body(sent[taken + 1], taken + 1))
        BY <1>5, <2>2
    <2>4. taken' = taken + 1 /\ taken + 1 <= Len(sent) /\ Len(wire') = Len(sent) - (taken + 1)
        BY <1>1, <1>3, <1>4, <1>5 DEF Returned
    <2>5. ASSUME NEW x \in 1 .. Len(wire')
          PROVE  /\ wire'[x].binary = (sent[(taken + 1) + x] # "text")
                 /\ wire'[x].data = Body(sent[(taken + 1) + x], (taken + 1) + x)
        <3>1. /\ x \in 1 .. Len(wire) - 1 /\ x + 1 \in 1 .. Len(wire)
              /\ (taken + 1) + x = taken + (x + 1)
            BY <1>1, <1>3
        <3>. QED
            BY <1>3, <1>4, <3>1
    <2>. QED
        BY <1>2, <1>3, <2>3, <2>4, <2>5 DEF WsInv, M
<1>6. CASE status' = "ended" /\ UNCHANGED <<taken, decoded>>
    BY <1>2, <1>3, <1>4, <1>6 DEF WsInv, M
<1>. QED
    BY <1>5, <1>6 DEF ReadMessage

-----------------------------------------------------------------------------
(* The inductive invariant. *)

LEMMA FrameInit == Init => FrameInv
<1>. SUFFICES ASSUME Init PROVE FrameInv
    OBVIOUS
<1>1. /\ sent = <<>> /\ wire = <<>> /\ packetBuf = <<>> /\ decoded = <<>> /\ taken = 0
      /\ link \in {"gateway", "sdk", "ws"}
    BY DEF Init
<1>2. Len(sent) = 0 /\ Len(wire) = 0 /\ Len(packetBuf) = 0 /\ DOMAIN decoded = {}
    BY <1>1
<1>3. Types
    BY <1>1 DEF Types
<1>4. Total = 0
    BY <1>2 DEF Total
<1>5. GatewayInv
    <2>1. PICK cut : cut = [i \in 0 .. 0 |-> 0]
        OBVIOUS
    <2>2. IsCut(cut)
        BY <1>1, <1>2, <1>4, <2>1 DEF IsCut
    <2>. QED
        BY <1>1, <1>2, <2>2 DEF GatewayInv
<1>6. SdkInv
    BY <1>1, <1>4 DEF SdkInv
<1>7. WsInv
    BY <1>1, <1>2 DEF WsInv
<1>8. Carried(taken, decoded)
    BY <1>1, <1>2 DEF Carried
<1>. QED
    BY <1>3, <1>5, <1>6, <1>7, <1>8 DEF FrameInv, StreamInv

(* Steps that move nothing. *)
LEMMA FrameRests ==
    ASSUME FrameInv, UNCHANGED <<link, sent, wire, packetBuf, taken, decoded>>,
           status = "ended" => status' = "ended"
    PROVE  FrameInv'
<1>1. Types'
    BY DEF FrameInv, Types
<1>2. link = "gateway" => GatewayInv'
    <2>1. SUFFICES ASSUME link = "gateway" PROVE GatewayInv'
        OBVIOUS
    <2>2. PICK cut : IsCut(cut)
        BY <2>1 DEF FrameInv, StreamInv, GatewayInv
    <2>3. IsCut(cut)'
        BY <2>2 DEF IsCut, Total, At, Bytes
    <2>4. taken <= Len(sent)
        BY <2>1 DEF FrameInv, StreamInv, GatewayInv
    <2>. QED
        BY <2>3, <2>4 DEF GatewayInv
<1>3. link = "sdk" => SdkInv'
    BY DEF FrameInv, StreamInv, SdkInv, Total, At
<1>4. link = "ws" => WsInv'
    BY DEF FrameInv, StreamInv, WsInv
<1>5. link # "sdk" => Carried(taken, decoded)'
    BY DEF FrameInv, Carried
<1>. QED
    BY <1>1, <1>2, <1>3, <1>4, <1>5 DEF FrameInv, StreamInv

LEMMA FrameWrite ==
    ASSUME FrameInv, NEW k \in Kinds, Write(k)
    PROVE  FrameInv'
<1>1. Types /\ link' = link /\ UNCHANGED <<packetBuf, taken, decoded>> /\ sent' = Append(sent, k)
    BY DEF FrameInv, Write
<1>2. sent' \in Seq(Kinds)
    BY <1>1, Appended DEF Types
<1>3. ASSUME link # "sdk" PROVE Carried(taken, decoded)'
    <2>1. taken <= Len(sent) /\ Carried(taken, decoded)
        BY <1>1, <1>3 DEF FrameInv, StreamInv, GatewayInv, WsInv, Types
    <2>. QED
        BY <1>1, <2>1, CarriedStays
<1>4. CASE link = "gateway"
    <2>1. wire' \in Seq(Nat) /\ GatewayInv'
        BY <1>1, <1>4, GatewayWrite DEF FrameInv, StreamInv
    <2>. QED
        BY <1>1, <1>2, <1>3, <1>4, <2>1 DEF FrameInv, StreamInv, Types
<1>5. CASE link = "sdk"
    <2>1. wire' \in Seq(Nat) /\ SdkInv'
        BY <1>1, <1>5, SdkWrite DEF FrameInv, StreamInv
    <2>. QED
        BY <1>1, <1>2, <1>5, <2>1 DEF FrameInv, StreamInv, Types
<1>6. CASE link = "ws"
    <2>1. wire' \in Seq([binary : BOOLEAN, data : Seq(Nat)]) /\ WsInv'
        BY <1>1, <1>6, WsWrite DEF FrameInv, StreamInv
    <2>. QED
        BY <1>1, <1>2, <1>3, <1>6, <2>1 DEF FrameInv, StreamInv, Types
<1>. QED
    BY <1>1, <1>4, <1>5, <1>6 DEF Types

LEMMA FrameRead ==
    ASSUME FrameInv, ConnRead
    PROVE  FrameInv'
<1>1. Types /\ link # "ws" /\ UNCHANGED <<link, sent, taken, decoded>>
    BY DEF FrameInv, ConnRead
<1>2. link # "sdk" => Carried(taken, decoded)'
    BY <1>1 DEF FrameInv, Carried
<1>3. CASE link = "gateway"
    <2>1. wire' \in Seq(Nat) /\ packetBuf' \in Seq(Nat) /\ GatewayInv'
        BY <1>1, <1>3, GatewayRead DEF FrameInv, StreamInv
    <2>. QED
        BY <1>1, <1>2, <1>3, <2>1 DEF FrameInv, StreamInv, Types
<1>4. CASE link = "sdk"
    <2>1. wire' \in Seq(Nat) /\ packetBuf' \in Seq(Nat) /\ SdkInv'
        BY <1>1, <1>4, SdkRead DEF FrameInv, StreamInv
    <2>. QED
        BY <1>1, <1>4, <2>1 DEF FrameInv, StreamInv, Types
<1>. QED
    BY <1>1, <1>3, <1>4 DEF Types

(* Carried, when a step returns the next frame or none. *)
LEMMA FrameReturned ==
    ASSUME FrameInv, link # "sdk", sent' = sent,
           \/ UNCHANGED <<taken, decoded>>
           \/ taken + 1 <= Len(sent) /\ Returned(Body(sent[taken + 1], taken + 1))
    PROVE  taken' \in Nat /\ decoded' \in Seq(Nat) /\ Carried(taken, decoded)'
<1>1. Types /\ Carried(taken, decoded) /\ taken \in Nat /\ decoded \in Seq(Nat)
    BY DEF FrameInv, Types
<1>2. CASE UNCHANGED <<taken, decoded>>
    BY <1>1, <1>2 DEF Carried
<1>3. CASE taken + 1 <= Len(sent) /\ Returned(Body(sent[taken + 1], taken + 1))
    <2>1. decoded' \in Seq(Nat) /\ taken' = taken + 1 /\ Carried(taken, decoded)'
        BY <1>1, <1>3, CarriedGrows
    <2>. QED
        BY <1>1, <2>1
<1>. QED
    BY <1>2, <1>3

LEMMA FrameParse ==
    ASSUME FrameInv, ParseHeader
    PROVE  FrameInv'
<1>1. Types /\ link # "ws" /\ UNCHANGED <<link, sent, wire>> /\ status = "read"
    BY DEF FrameInv, ParseHeader
<1>2. CASE link = "gateway"
    <2>1. /\ packetBuf' \in Seq(Nat) /\ GatewayInv'
          /\ \/ UNCHANGED <<taken, decoded>>
             \/ taken + 1 <= Len(sent) /\ Returned(Body(sent[taken + 1], taken + 1))
        BY <1>1, <1>2, GatewayParse DEF FrameInv, StreamInv
    <2>2. taken' \in Nat /\ decoded' \in Seq(Nat) /\ Carried(taken, decoded)'
        BY <1>1, <1>2, <2>1, FrameReturned
    <2>. QED
        BY <1>1, <1>2, <2>1, <2>2 DEF FrameInv, StreamInv, Types
<1>3. CASE link = "sdk"
    <2>1. UNCHANGED <<packetBuf, taken, decoded>>
        BY <1>1, <1>3, SdkParse DEF FrameInv, StreamInv
    <2>. QED
        BY <1>1, <2>1, FrameRests
<1>. QED
    BY <1>1, <1>2, <1>3 DEF Types

LEMMA FrameMessage ==
    ASSUME FrameInv, ReadMessage
    PROVE  FrameInv'
<1>1. Types /\ link = "ws" /\ UNCHANGED <<link, sent, packetBuf>>
    BY DEF FrameInv, ReadMessage
<1>2. /\ wire' \in Seq([binary : BOOLEAN, data : Seq(Nat)]) /\ WsInv'
      /\ \/ UNCHANGED <<taken, decoded>>
         \/ taken + 1 <= Len(sent) /\ Returned(Body(sent[taken + 1], taken + 1))
    BY <1>1, WsRead DEF FrameInv, StreamInv
<1>3. taken' \in Nat /\ decoded' \in Seq(Nat) /\ Carried(taken, decoded)'
    BY <1>1, <1>2, FrameReturned
<1>. QED
    BY <1>1, <1>2, <1>3 DEF FrameInv, StreamInv, Types

LEMMA FrameStep == FrameInv /\ [Next]_vars => FrameInv'
<1>. SUFFICES ASSUME FrameInv, [Next]_vars PROVE FrameInv'
    OBVIOUS
<1>1. ASSUME NEW k \in Kinds, Write(k) PROVE FrameInv'
    BY <1>1, FrameWrite
<1>2. CASE Hangup
    BY <1>2, FrameRests DEF Hangup
<1>3. CASE Cancel
    BY <1>3, FrameRests DEF Cancel
<1>4. CASE LoopTop
    BY <1>4, FrameRests DEF LoopTop
<1>5. CASE ConnRead
    BY <1>5, FrameRead
<1>6. CASE ConnReadFails
    BY <1>6, FrameRests DEF ConnReadFails
<1>7. CASE ParseHeader
    BY <1>7, FrameParse
<1>8. CASE ReadMessage
    BY <1>8, FrameMessage
<1>9. CASE UNCHANGED vars
    BY <1>9, FrameRests DEF vars
<1>. QED
    BY <1>1, <1>2, <1>3, <1>4, <1>5, <1>6, <1>7, <1>8, <1>9 DEF Next, ReaderStep

(* onMessage gets the messages of the well-formed frames that Read returned,   *)
(* once and in order, and all of them but for messages with an ExpireAt,       *)
(* wherever conn.Read cuts the stream: what packetBuf and the connection hold  *)
(* is at any moment the frames not yet returned.  A peer with the SDK's        *)
(* framing gets no frame through.                                              *)
THEOREM ArriveCorrect == Spec => []MessagesArriveInOrder
<1>1. FrameInv => MessagesArriveInOrder
    BY DEF FrameInv, StreamInv, GatewayInv, SdkInv, WsInv, Types, MessagesArriveInOrder
<1>. QED
    BY <1>1, FrameInit, FrameStep, PTL DEF Spec

-----------------------------------------------------------------------------
(* The abstract specification: every step is a step of Channel. *)

LEMMA ReturnedTakes ==
    ASSUME Types, link # "sdk", taken + 1 <= Len(sent), UNCHANGED <<link, sent>>,
           Returned(Body(sent[taken + 1], taken + 1))
    PROVE  Abstract!Take
<1>1. PICK m : m = taken + 1
    OBVIOUS
<1>2. m \in Nat \ {0} /\ taken \in Nat /\ Len(sent) \in Nat
    BY <1>1 DEF Types
<1>4. \/ sent[m] \in Good /\ decoded' = Append(decoded, m)
      \/ sent[m] \notin Good \ Timed /\ decoded' = decoded
    BY <1>1, <1>2, ReturnedNext
<1>5. taken < Len(sent) /\ taken' = m
    BY <1>1, <1>2 DEF Returned
<1>. QED
    BY <1>1, <1>4, <1>5 DEF Abstract!Take

LEMMA ChannelStep ==
    FrameInv /\ [Next]_vars => [Abstract!Next]_(Abstract!vars)
<1>. SUFFICES ASSUME FrameInv, [Next]_vars PROVE [Abstract!Next]_(Abstract!vars)
    OBVIOUS
<1>. Types
    BY DEF FrameInv
<1>1. ASSUME NEW k \in Kinds, Write(k) PROVE Abstract!Next
    <2>1. Abstract!Send(k)
        BY <1>1 DEF Write, Abstract!Send
    <2>. QED
        BY <2>1 DEF Abstract!Next
<1>2. CASE UNCHANGED <<link, sent, taken, decoded>>
    BY <1>2 DEF Abstract!vars
<1>3. CASE ParseHeader
    <2>1. link # "ws" /\ UNCHANGED <<link, sent>>
        BY <1>3 DEF ParseHeader
    <2>2. CASE link = "gateway"
        BY <1>2, <1>3, <2>1, <2>2, GatewayParse, ReturnedTakes
           DEF FrameInv, StreamInv, Abstract!Next
    <2>3. CASE link = "sdk"
        BY <1>2, <1>3, <2>1, <2>3, SdkParse DEF FrameInv, StreamInv
    <2>. QED
        BY <2>1, <2>2, <2>3 DEF Types
<1>4. CASE ReadMessage
    <2>1. link = "ws" /\ UNCHANGED <<link, sent>>
        BY <1>4 DEF ReadMessage
    <2>. QED
        BY <1>2, <1>4, <2>1, WsRead, ReturnedTakes DEF FrameInv, StreamInv, Abstract!Next
<1>. QED
    BY <1>1, <1>2, <1>3, <1>4 DEF Next, ReaderStep, Hangup, Cancel, LoopTop, ConnRead,
       ConnReadFails, vars

(* The transports, the codec and the readLoop implement a first-in first-out   *)
(* channel in which only malformed and expired messages are skipped, for any   *)
(* number of frames, any frames, any MaxFrame and any way of cutting the       *)
(* stream: the bytes under way and in packetBuf are, by FrameInv, the frames   *)
(* not yet taken, so that cutting one off leaves the others whole.             *)
THEOREM ChannelRefinement == Spec => ConnectionIsAChannel
<1>1. Init => Abstract!Init
    BY DEF Init, Abstract!Init
<1>. QED
    BY <1>1, FrameInit, FrameStep, ChannelStep, PTL
       DEF Spec, ConnectionIsAChannel, Abstract!Spec
=============================================================================
