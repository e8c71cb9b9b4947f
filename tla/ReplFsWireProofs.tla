-------------------------- MODULE ReplFsWireProofs --------------------------
(***************************************************************************)
(* Every message arrives as it was sent, for all update ids and            *)
(* descriptors below 2^31, all names OpenFile lets pass and blocks of any  *)
(* extent and content: byte by byte, what serialize copies into a packet   *)
(* lies where deserialize looks for it, and nothing is copied over it.     *)
(***************************************************************************)
EXTENDS ReplFsWire, ReplFsProofs

\* The values of an int.
Int32 == {n \in Int : -2147483648 <= n /\ n <= 2147483647}

\* A number is its quotient and its remainder by a byte.
LEMMA LastByte ==
  ASSUME NEW n \in Int
  PROVE  /\ n \div 256 \in Int
         /\ n % 256 \in 0 .. 255
         /\ n = 256 * (n \div 256) + (n % 256)
  BY SMT

\* ntohl undoes htonl, for negative values too.
LEMMA WordRoundTrip ==
  ASSUME NEW n \in Int32
  PROVE  Ntohl(Htonl(n)) = n
<1> DEFINE b3 == n \div 16777216
           b2 == n \div 65536
           b1 == n \div 256
<1>1. n \in Int /\ -2147483648 <= n /\ n <= 2147483647
  BY DEF Int32
<1>2. b2 = b1 \div 256 /\ b3 = b2 \div 256 /\ b1 \in Int /\ b2 \in Int /\ b3 \in Int
  BY <1>1, SMT
<1>3. /\ n = 256 * b1 + (n % 256)
      /\ b1 = 256 * b2 + (b1 % 256)
      /\ b2 = 256 * b3 + (b2 % 256)
  BY <1>1, <1>2, LastByte
<1>4. /\ n % 256 \in 0 .. 255 /\ b1 % 256 \in 0 .. 255
      /\ b2 % 256 \in 0 .. 255 /\ b3 % 256 \in 0 .. 255
  BY <1>1, <1>2, LastByte
<1>5. -128 <= b3 /\ b3 <= 127
  BY <1>1, SMT
<1>6. (IF b3 % 256 < 128 THEN b3 % 256 ELSE (b3 % 256) - 256) = b3
  BY <1>2, <1>5, SMT
<1>7. Htonl(n) = <<b3 % 256, b2 % 256, b1 % 256, n % 256>>
  BY SMT DEF Htonl
<1> HIDE DEF b1, b2, b3
<1>8. b3 * 16777216 + (b2 % 256) * 65536 + (b1 % 256) * 256 + (n % 256) = n
  <2> DEFINE r0 == n % 256  r1 == b1 % 256  r2 == b2 % 256
  <2>1. r0 \in Int /\ r1 \in Int /\ r2 \in Int
    BY <1>4, SMT
  <2>2. n = 256 * b1 + r0 /\ b1 = 256 * b2 + r1 /\ b2 = 256 * b3 + r2
    BY <1>3
  <2> HIDE DEF r0, r1, r2
  <2>3. b3 * 16777216 + r2 * 65536 + r1 * 256 + r0 = n
    BY <1>1, <1>2, <2>1, <2>2, SMT
  <2> QED  BY <2>3 DEF r0, r1, r2
<1>9. ASSUME NEW x, NEW y, NEW z, NEW w
      PROVE  Ntohl(<<x, y, z, w>>)
               = (IF x < 128 THEN x ELSE x - 256) * 16777216 + y * 65536 + z * 256 + w
  BY SMT DEF Ntohl
<1>10. Ntohl(<<b3 % 256, b2 % 256, b1 % 256, n % 256>>)
         = (IF b3 % 256 < 128 THEN b3 % 256 ELSE (b3 % 256) - 256) * 16777216
             + (b2 % 256) * 65536 + (b1 % 256) * 256 + (n % 256)
  BY <1>9
<1> QED  BY <1>6, <1>7, <1>8, <1>10, SMT

-----------------------------------------------------------------------------
(* Bytes.                                                                   *)

\* memcpy changes the bytes it copies to, and no other.
LEMMA Copied ==
  ASSUME NEW buf, NEW at \in Nat, NEW bytes, NEW len \in Nat, Len(bytes) = len
  PROVE  /\ DOMAIN Memcpy(buf, at, bytes) = DOMAIN buf
         /\ \A k \in 1 .. len :
              at + k - 1 \in DOMAIN buf => Memcpy(buf, at, bytes)[at + k - 1] = bytes[k]
         /\ \A i \in DOMAIN buf :
              i \in Int /\ (i < at \/ i >= at + len) =>
                Memcpy(buf, at, bytes)[i] = buf[i]
<1>1. DOMAIN Memcpy(buf, at, bytes) = DOMAIN buf
  BY DEF Memcpy
<1>2. ASSUME NEW k \in 1 .. len, at + k - 1 \in DOMAIN buf
      PROVE  Memcpy(buf, at, bytes)[at + k - 1] = bytes[k]
  <2>1. (at + k - 1) - at + 1 = k
    OBVIOUS
  <2> QED  BY <1>2, <2>1 DEF Memcpy
<1>3. ASSUME NEW i \in DOMAIN buf, i \in Int, i < at \/ i >= at + len
      PROVE  Memcpy(buf, at, bytes)[i] = buf[i]
  <2>1. i - at + 1 \notin 1 .. len
    BY <1>3
  <2> QED  BY <2>1 DEF Memcpy
<1> QED  BY <1>1, <1>2, <1>3

\* The bytes lie at at in buf.
Lies(buf, at, bytes) ==
  \A k \in 1 .. Len(bytes) :
    at + k - 1 \in DOMAIN buf /\ buf[at + k - 1] = bytes[k]

\* An array of this size whose first byte is c.
Begins(buf, size, c) == DOMAIN buf = 0 .. size - 1 /\ buf[0] = c

\* They do when they have been copied there.
LEMMA BytesPut ==
  ASSUME NEW buf, NEW size \in Nat, NEW c, Begins(buf, size, c),
         NEW at \in Nat, NEW bytes, NEW len \in Nat, Len(bytes) = len,
         at + len <= size
  PROVE  Lies(Memcpy(buf, at, bytes), at, bytes)
<1> SUFFICES ASSUME NEW k \in 1 .. len
             PROVE  /\ at + k - 1 \in DOMAIN Memcpy(buf, at, bytes)
                    /\ Memcpy(buf, at, bytes)[at + k - 1] = bytes[k]
  BY DEF Lies
<1>1. at + k - 1 \in DOMAIN buf
  BY DEF Begins
<1> QED  BY <1>1, Copied

\* The size and the first byte stay.
LEMMA BeginsKept ==
  ASSUME NEW buf, NEW size \in Nat, NEW c, Begins(buf, size, c), size > 0,
         NEW at \in Nat, at > 0, NEW bytes, NEW len \in Nat, Len(bytes) = len
  PROVE  Begins(Memcpy(buf, at, bytes), size, c)
<1>1. 0 \in DOMAIN buf /\ 0 \in Int /\ 0 < at
  BY DEF Begins
<1> QED  BY <1>1, Copied DEF Begins

\* Bytes copied elsewhere leave them alone.
LEMMA BytesKept ==
  ASSUME NEW buf, NEW at \in Nat, NEW old, NEW l \in Nat, Len(old) = l,
         Lies(buf, at, old), NEW pos \in Nat, NEW bytes, NEW len \in Nat, Len(bytes) = len,
         pos >= at + l \/ pos + len <= at
  PROVE  Lies(Memcpy(buf, pos, bytes), at, old)
<1> SUFFICES ASSUME NEW k \in 1 .. l
             PROVE  /\ at + k - 1 \in DOMAIN Memcpy(buf, pos, bytes)
                    /\ Memcpy(buf, pos, bytes)[at + k - 1] = old[k]
  BY DEF Lies
<1>1. at + k - 1 \in DOMAIN buf /\ buf[at + k - 1] = old[k]
  BY DEF Lies
<1>2. at + k - 1 \in Int /\ (at + k - 1 < pos \/ at + k - 1 >= pos + len)
  OBVIOUS
<1> QED  BY <1>1, <1>2, Copied

\* The receive buffer begins with the packet.
LEMMA ReceivedBytes ==
  ASSUME NEW packet, NEW len \in 0 .. MaxBufSize, NEW c, Begins(packet, len, c)
  PROVE  /\ \A i \in 0 .. len - 1 : Received(packet)[i] = packet[i]
         /\ \A i \in len .. MaxBufSize - 1 : Received(packet)[i] = 0
<1>1. ASSUME NEW i \in 0 .. len - 1 PROVE Received(packet)[i] = packet[i]
  <2>1. i \in 0 .. MaxBufSize - 1 /\ i \in DOMAIN packet
    BY DEF MaxBufSize, Begins
  <2> QED  BY <2>1 DEF Received
<1>2. ASSUME NEW i \in len .. MaxBufSize - 1 PROVE Received(packet)[i] = 0
  <2>1. i \in 0 .. MaxBufSize - 1 /\ i \notin DOMAIN packet
    BY DEF MaxBufSize, Begins
  <2> QED  BY <2>1 DEF Received
<1> QED  BY <1>1, <1>2

\* What lies in the packet lies in the buffer.
LEMMA BytesReceived ==
  ASSUME NEW packet, NEW size \in 0 .. MaxBufSize, NEW c, Begins(packet, size, c),
         NEW at \in Nat, NEW bytes, Lies(packet, at, bytes)
  PROVE  \A k \in 1 .. Len(bytes) : Received(packet)[at + k - 1] = bytes[k]
<1> SUFFICES ASSUME NEW k \in 1 .. Len(bytes)
             PROVE  Received(packet)[at + k - 1] = bytes[k]
  OBVIOUS
<1>1. at + k - 1 \in 0 .. size - 1 /\ packet[at + k - 1] = bytes[k]
  BY DEF Lies, Begins
<1> QED  BY <1>1, ReceivedBytes

\* htonl makes four bytes.
LEMMA WordLength ==
  ASSUME NEW n
  PROVE  Len(Htonl(n)) = 4 /\ 4 \in Nat
  BY SMT DEF Htonl

\* The reader finds an int at its place in the buffer.
LEMMA WordRead ==
  ASSUME NEW packet, NEW size \in 0 .. MaxBufSize, NEW c, Begins(packet, size, c),
         NEW at \in Nat, NEW n \in Int32, Lies(packet, at, Htonl(n))
  PROVE  IntAt(Received(packet), at) = n
<1> DEFINE w == [k \in 1 .. 4 |-> Received(packet)[at + k - 1]]
<1>1. \A k \in 1 .. Len(Htonl(n)) : Received(packet)[at + k - 1] = Htonl(n)[k]
  BY BytesReceived, Zenon
<1>2. \A k \in 1 .. 4 : w[k] = Htonl(n)[k]
  BY <1>1, WordLength
<1>3. w[1] = Htonl(n)[1] /\ w[2] = Htonl(n)[2] /\ w[3] = Htonl(n)[3] /\ w[4] = Htonl(n)[4]
  BY <1>2
<1> HIDE DEF w
<1>4. Ntohl(w) = Ntohl(Htonl(n))
  BY <1>3 DEF Ntohl
<1> QED  BY <1>4, WordRoundTrip DEF IntAt, w

\* An int put into a packet lies there, and the first byte stays.
LEMMA IntPut ==
  ASSUME NEW buf, NEW size \in Nat, NEW c, Begins(buf, size, c), size > 0,
         NEW at \in Nat, at > 0, at + 4 <= size, NEW n
  PROVE  /\ Lies(Memcpy(buf, at, Htonl(n)), at, Htonl(n))
         /\ Begins(Memcpy(buf, at, Htonl(n)), size, c)
<1>1. Lies(Memcpy(buf, at, Htonl(n)), at, Htonl(n))
  BY WordLength, BytesPut, Zenon
<1>2. Begins(Memcpy(buf, at, Htonl(n)), size, c)
  BY WordLength, BeginsKept, Zenon
<1> QED  BY <1>1, <1>2

\* An int put behind or before them leaves the bytes alone.
LEMMA IntKept ==
  ASSUME NEW buf, NEW at \in Nat, NEW old, NEW l \in Nat, Len(old) = l,
         Lies(buf, at, old), NEW pos \in Nat, NEW n, pos >= at + l \/ pos + 4 <= at
  PROVE  Lies(Memcpy(buf, pos, Htonl(n)), at, old)
  BY WordLength, BytesKept, Zenon

\* The same for an int put there before.
LEMMA IntKeepsInt ==
  ASSUME NEW buf, NEW at \in Nat, NEW k, Lies(buf, at, Htonl(k)),
         NEW pos \in Nat, NEW n, pos >= at + 4 \/ pos + 4 <= at
  PROVE  Lies(Memcpy(buf, pos, Htonl(n)), at, Htonl(k))
  BY WordLength, IntKept, Zenon

LEMMA BytesKeepInt ==
  ASSUME NEW buf, NEW at \in Nat, NEW k, Lies(buf, at, Htonl(k)),
         NEW pos \in Nat, NEW bytes, NEW len \in Nat, Len(bytes) = len,
         pos >= at + 4 \/ pos + len <= at
  PROVE  Lies(Memcpy(buf, pos, bytes), at, Htonl(k))
  BY WordLength, BytesKept, Zenon

-----------------------------------------------------------------------------
(* Types.                                                                   *)

\* The first byte tells the type.
LEMMA TypeRead ==
  ASSUME NEW packet, NEW size \in 1 .. MaxBufSize, NEW t \in DOMAIN Code,
         Begins(packet, size, Code[t])
  PROVE  TypeOf(Received(packet)) = t
<1>1. \A x, y \in DOMAIN Code : Code[x] = Code[y] => x = y
  BY SMT DEF Code
<1>2. 0 \in 0 .. size - 1 /\ size \in 0 .. MaxBufSize
  BY DEF MaxBufSize
<1>3. Received(packet)[0] = Code[t]
  BY <1>2, ReceivedBytes DEF Begins
<1> HIDE DEF Code
<1> QED  BY <1>1, <1>3 DEF TypeOf

\* The types, and the handler of each.
LEMMA Types ==
  /\ DOMAIN Code = {"OPENFILE", "WRITEBLOCK", "VOTEACK"} \cup Empty
                     \cup WithFileId \cup WithFileDesc
  /\ \A buf : LET t == TypeOf(buf) IN
       /\ t = "OPENFILE" => Deserialized(buf) = DeserializeOpenFile(buf)
       /\ t = "WRITEBLOCK" => Deserialized(buf) = DeserializeWriteBlock(buf)
       /\ t = "VOTEACK" => Deserialized(buf) = DeserializeVoteAck(buf)
       /\ t \in WithFileId =>
            Deserialized(buf) = [type |-> t, fileId |-> IntAt(buf, HeaderSize)]
       /\ t \in WithFileDesc =>
            Deserialized(buf) = [type |-> t, fileDesc |-> IntAt(buf, HeaderSize)]
       /\ t \in Empty => Deserialized(buf) = [type |-> t]
<1>1. DOMAIN Code = {"OPENFILE", "WRITEBLOCK", "VOTEACK"} \cup Empty
                      \cup WithFileId \cup WithFileDesc
  BY SMT DEF Code, Empty, WithFileId, WithFileDesc
<1>2. ASSUME NEW buf, NEW t, t = TypeOf(buf)
      PROVE  /\ t = "OPENFILE" => Deserialized(buf) = DeserializeOpenFile(buf)
             /\ t = "WRITEBLOCK" => Deserialized(buf) = DeserializeWriteBlock(buf)
             /\ t = "VOTEACK" => Deserialized(buf) = DeserializeVoteAck(buf)
             /\ t \in WithFileId =>
                  Deserialized(buf) = [type |-> t, fileId |-> IntAt(buf, HeaderSize)]
             /\ t \in WithFileDesc =>
                  Deserialized(buf) = [type |-> t, fileDesc |-> IntAt(buf, HeaderSize)]
             /\ t \in Empty => Deserialized(buf) = [type |-> t]
  BY <1>2, SMT DEF Deserialized, Empty, WithFileId, WithFileDesc
<1> QED  BY <1>1, <1>2

-----------------------------------------------------------------------------
(* Messages.                                                                *)

\* A descriptor is an int.
LEMMA FileIdIsInt ==
  ASSUME NEW fileId \in FileId
  PROVE  fileId \in Int32
<1>1. fileId \in Ids
  BY IdAssumption DEF IdAssumption
<1> QED  BY <1>1, SMT DEF Ids, Int32

\* sendMessage starts from a cleared array with the type in it.
Blank(m) == [i \in 0 .. Length(m) - 1 |-> IF i = 0 THEN Code[m.type] ELSE 0]

LEMMA BlankBegins ==
  ASSUME NEW m, Length(m) \in Nat, Length(m) > 0
  PROVE  Begins(Blank(m), Length(m), Code[m.type])
  BY DEF Begins, Blank

LEMMA PacketIs ==
  ASSUME NEW m, NEW fileId
  PROVE  Packet(m, fileId) = Serialized(m, fileId, Blank(m))
  BY DEF Packet, Blank

\* The messages of one int.
LEMMA OneIntRead ==
  ASSUME NEW m, NEW fileId, m.type \in DOMAIN Code, Length(m) = HeaderSize + 4,
         NEW n \in Int32,
         Serialized(m, fileId, Blank(m)) = Memcpy(Blank(m), HeaderSize, Htonl(n))
  PROVE  /\ TypeOf(Received(Packet(m, fileId))) = m.type
         /\ IntAt(Received(Packet(m, fileId)), HeaderSize) = n
<1> DEFINE size == HeaderSize + 4
           P == Packet(m, fileId)
<1>1. /\ HeaderSize \in Nat /\ HeaderSize > 0
      /\ size \in Nat /\ size > 0 /\ HeaderSize + 4 <= size
      /\ size \in 0 .. MaxBufSize /\ size \in 1 .. MaxBufSize
  BY DEF HeaderSize, MaxBufSize
<1> HIDE DEF size
<1>2. Length(m) = size
  BY DEF size
<1>3. Begins(Blank(m), size, Code[m.type])
  BY <1>1, <1>2, BlankBegins
<1>4. P = Memcpy(Blank(m), HeaderSize, Htonl(n))
  BY PacketIs
<1> HIDE DEF P
<1>5. Lies(P, HeaderSize, Htonl(n)) /\ Begins(P, size, Code[m.type])
  BY <1>1, <1>3, <1>4, IntPut
<1>6. TypeOf(Received(P)) = m.type
  BY <1>1, <1>5, TypeRead
<1>7. IntAt(Received(P), HeaderSize) = n
  BY <1>1, <1>5, WordRead
<1> QED  BY <1>6, <1>7 DEF P

\* VOTE, COMMIT, ABORT and CLOSE.
LEMMA FileIdArrives ==
  ASSUME NEW m \in [type : WithFileId]
  PROVE  Arrives(m)
<1> SUFFICES ASSUME NEW fileId \in FileId
             PROVE  Deserialized(Received(Packet(m, fileId))) = Fields(m, fileId)
  BY DEF Arrives
<1>1. m.type \in WithFileId /\ m.type \in DOMAIN Code
  BY Types
<1>2. Length(m) = HeaderSize + 4
  BY <1>1, SMT DEF Length, WithFileId, Empty
<1>3. Serialized(m, fileId, Blank(m)) = Memcpy(Blank(m), HeaderSize, Htonl(fileId))
  <2>1. ~(m.type = "OPENFILE" \/ m.type = "WRITEBLOCK" \/ m.type = "VOTEACK")
    BY <1>1, SMT DEF WithFileId
  <2>2. Serialized(m, fileId, Blank(m)) = SerializeFileId(fileId, Blank(m))
    BY <1>1, <2>1, SMT DEF Serialized, WithFileId, WithFileDesc
  <2> QED  BY <2>2 DEF SerializeFileId
<1>4. Fields(m, fileId) = [type |-> m.type, fileId |-> fileId]
  BY <1>1, SMT DEF Fields, WithFileId
<1> DEFINE buf == Received(Packet(m, fileId))
<1>5. TypeOf(buf) = m.type /\ IntAt(buf, HeaderSize) = fileId
  BY <1>1, <1>2, <1>3, FileIdIsInt, OneIntRead
<1> HIDE DEF buf
<1>6. Deserialized(buf) = [type |-> m.type, fileId |-> fileId]
  BY <1>1, <1>5, Types
<1> QED  BY <1>4, <1>6 DEF buf

\* The acknowledgements with a result.
LEMMA FileDescArrives ==
  ASSUME NEW m \in [type : WithFileDesc, fileDesc : {-1, 0, 1}]
  PROVE  Arrives(m)
<1> SUFFICES ASSUME NEW fileId \in FileId
             PROVE  Deserialized(Received(Packet(m, fileId))) = Fields(m, fileId)
  BY DEF Arrives
<1>1. m.type \in WithFileDesc /\ m.type \in DOMAIN Code /\ m.fileDesc \in Int32
      /\ m = [type |-> m.type, fileDesc |-> m.fileDesc]
  BY Types DEF Int32
<1>2. Length(m) = HeaderSize + 4
  BY <1>1, SMT DEF Length, WithFileDesc, Empty
<1>3. Serialized(m, fileId, Blank(m)) = Memcpy(Blank(m), HeaderSize, Htonl(m.fileDesc))
  BY <1>1, SMT DEF Serialized, SerializeFileDesc, WithFileId, WithFileDesc
<1>4. Fields(m, fileId) = m
  BY <1>1, SMT DEF Fields, WithFileId, WithFileDesc
<1> DEFINE buf == Received(Packet(m, fileId))
<1>5. TypeOf(buf) = m.type /\ IntAt(buf, HeaderSize) = m.fileDesc
  BY <1>1, <1>2, <1>3, OneIntRead
<1> HIDE DEF buf
<1>6. Deserialized(buf) = [type |-> m.type, fileDesc |-> m.fileDesc]
  BY <1>1, <1>5, Types
<1> QED  BY <1>1, <1>4, <1>6 DEF buf

\* INIT and INITACK.
LEMMA EmptyArrives ==
  ASSUME NEW m \in [type : Empty]
  PROVE  Arrives(m)
<1> SUFFICES ASSUME NEW fileId \in FileId
             PROVE  Deserialized(Received(Packet(m, fileId))) = Fields(m, fileId)
  BY DEF Arrives
<1>1. m.type \in Empty /\ m.type \in DOMAIN Code /\ m = [type |-> m.type]
  BY Types
<1>2. Length(m) = HeaderSize
  BY <1>1, SMT DEF Length, Empty, HeaderSize
<1>3. Serialized(m, fileId, Blank(m)) = Blank(m)
  BY <1>1, SMT DEF Serialized, WithFileId, WithFileDesc, Empty
<1>4. Fields(m, fileId) = m
  BY <1>1, SMT DEF Fields, WithFileId, Empty
<1>5. Begins(Packet(m, fileId), HeaderSize, Code[m.type])
  BY <1>2, <1>3, BlankBegins, PacketIs DEF HeaderSize
<1> DEFINE buf == Received(Packet(m, fileId))
<1>6. TypeOf(buf) = m.type
  <2>1. HeaderSize \in 1 .. MaxBufSize
    BY DEF HeaderSize, MaxBufSize
  <2> QED  BY <1>1, <1>5, <2>1, TypeRead
<1> HIDE DEF buf
<1>7. Deserialized(buf) = [type |-> m.type]
  BY <1>1, <1>6, Types
<1> QED  BY <1>1, <1>4, <1>7 DEF buf

\* VOTEACK.
LEMMA VoteAckArrives ==
  ASSUME NEW m \in [type : {"VOTEACK"}, fileDesc : {0}, updateId : 0 .. MaxUpdates]
  PROVE  Arrives(m)
<1> SUFFICES ASSUME NEW fileId \in FileId
             PROVE  Deserialized(Received(Packet(m, fileId))) = Fields(m, fileId)
  BY DEF Arrives
<1>1. /\ m.type = "VOTEACK" /\ m.type \in DOMAIN Code
      /\ m = [type |-> "VOTEACK", fileDesc |-> m.fileDesc, updateId |-> m.updateId]
  BY Types
<1>2. m.fileDesc \in Int32 /\ m.updateId \in Int32
  <2>1. m.fileDesc = 0 /\ m.updateId \in 0 .. MaxUpdates
    OBVIOUS
  <2>2. MaxUpdates \in Ids
    BY IdAssumption DEF IdAssumption
  <2> QED  BY <2>1, <2>2, SMT DEF Ids, Int32
<1> DEFINE P == Packet(m, fileId)
           size == HeaderSize + 8
           at == HeaderSize + 4
           b0 == Blank(m)
           b1 == Memcpy(b0, HeaderSize, Htonl(m.fileDesc))
<1>3. /\ HeaderSize \in Nat /\ HeaderSize > 0 /\ at \in Nat /\ at > 0
      /\ size \in Nat /\ size > 0 /\ HeaderSize + 4 <= size /\ at + 4 <= size
      /\ at >= HeaderSize + 4
      /\ size \in 0 .. MaxBufSize /\ size \in 1 .. MaxBufSize
  BY DEF HeaderSize, MaxBufSize
<1>4. Length(m) = size
  BY <1>1, SMT DEF Length, Empty
<1>5. P = Memcpy(b1, at, Htonl(m.updateId))
  <2>1. m.type \notin WithFileId /\ m.type \notin WithFileDesc
    BY <1>1 DEF WithFileId, WithFileDesc
  <2>2. Serialized(m, fileId, b0) = SerializeVoteAck(m, b0)
    BY <1>1, <2>1, Zenon DEF Serialized
  <2> QED  BY <2>2, PacketIs DEF SerializeVoteAck
<1>6. Fields(m, fileId) = m
  BY <1>1, SMT DEF Fields, WithFileId
<1> HIDE DEF P, size, at
<1>7. Begins(b0, size, Code[m.type])
  BY <1>3, <1>4, BlankBegins
<1> HIDE DEF b0
<1>8. Lies(b1, HeaderSize, Htonl(m.fileDesc)) /\ Begins(b1, size, Code[m.type])
  BY <1>3, <1>7, IntPut
<1> HIDE DEF b1
<1>9. Lies(P, at, Htonl(m.updateId)) /\ Begins(P, size, Code[m.type])
  BY <1>3, <1>5, <1>8, IntPut
<1>10. Lies(P, HeaderSize, Htonl(m.fileDesc))
  BY <1>3, <1>5, <1>8, IntKeepsInt
<1> DEFINE buf == Received(P)
<1>11. TypeOf(buf) = m.type
  BY <1>1, <1>3, <1>9, TypeRead
<1>12. IntAt(buf, HeaderSize) = m.fileDesc /\ IntAt(buf, at) = m.updateId
  BY <1>2, <1>3, <1>9, <1>10, WordRead
<1> HIDE DEF buf
<1>13. Deserialized(buf) = m
  BY <1>1, <1>11, <1>12, Types DEF DeserializeVoteAck, at
<1> QED  BY <1>6, <1>13 DEF buf, P

\* A string ends at the first zero.
LEMMA StringRead ==
  ASSUME NEW buf, NEW at \in Nat, NEW name, NEW n \in 0 .. MaxFileNameSize - 1,
         name = [k \in 1 .. n |-> name[k]],
         \A k \in 1 .. n : buf[at + k - 1] = name[k] /\ name[k] # 0,
         buf[at + n] = 0
  PROVE  StringAt(buf, at) = name
<1> DEFINE Ends(l) == /\ \A k \in 0 .. l - 1 : buf[at + k] # 0
                      /\ l < MaxFileNameSize => buf[at + l] = 0
<1>1. MaxFileNameSize \in Nat
  BY DEF MaxFileNameSize
<1>2. \A k \in 0 .. n - 1 : buf[at + k] # 0
  <2> SUFFICES ASSUME NEW k \in 0 .. n - 1 PROVE buf[at + k] # 0
    OBVIOUS
  <2>1. k + 1 \in 1 .. n /\ at + (k + 1) - 1 = at + k
    OBVIOUS
  <2> QED  BY <2>1
<1>3. n \in 0 .. MaxFileNameSize /\ Ends(n)
  BY <1>1, <1>2
<1>4. ASSUME NEW l \in 0 .. MaxFileNameSize, Ends(l)
      PROVE  l = n
  <2>0. l \in Int /\ n \in Int /\ 0 <= l /\ 0 <= n /\ n < MaxFileNameSize
    BY <1>1
  <2>1. ~(n < l)
    <3> SUFFICES ASSUME n < l PROVE FALSE
      OBVIOUS
    <3>1. n \in 0 .. l - 1 /\ buf[at + n] = 0
      BY <2>0
    <3>2. \A k \in 0 .. l - 1 : buf[at + k] # 0
      BY <1>4
    <3> HIDE DEF Ends
    <3> QED  BY <3>1, <3>2
  <2>2. ~(l < n)
    <3> SUFFICES ASSUME l < n PROVE FALSE
      OBVIOUS
    <3>1. l < MaxFileNameSize /\ l \in 0 .. n - 1
      BY <1>1, <2>0
    <3> QED  BY <1>2, <1>4, <3>1
  <2> QED  BY <2>0, <2>1, <2>2
<1> DEFINE len == CHOOSE l \in 0 .. MaxFileNameSize : Ends(l)
<1>5. len = n
  <2> HIDE DEF Ends
  <2> QED  BY <1>3, <1>4
<1>6. StringAt(buf, at) = [k \in 1 .. len |-> buf[at + k - 1]]
  BY DEF StringAt
<1> HIDE DEF len
<1> QED  BY <1>5, <1>6

\* OPENFILE, with a name of any length OpenFile lets pass.
LEMMA OpenFileArrives ==
  ASSUME NEW m \in [type : {"OPENFILE"}, filename : File]
  PROVE  Arrives(m)
<1> SUFFICES ASSUME NEW fileId \in FileId
             PROVE  Deserialized(Received(Packet(m, fileId))) = Fields(m, fileId)
  BY DEF Arrives
<1>1. m.type = "OPENFILE" /\ m.filename \in File /\ m.type \in DOMAIN Code
  BY Types
<1>0. m.type \notin WithFileId /\ m.type \notin WithFileDesc /\ m.type \notin Empty
  BY <1>1 DEF WithFileId, WithFileDesc, Empty
<1> DEFINE name == Name[m.filename]
           n == Len(name)
           P == Packet(m, fileId)
           at == HeaderSize + 4
           size == at + n
           b0 == Blank(m)
           b1 == Memcpy(b0, HeaderSize, Htonl(fileId))
<1>2. name \in Seq(1 .. 255) /\ n < MaxFileNameSize
  BY <1>1, WireAssumption DEF WireAssumption
<1> HIDE DEF name
<1>3. n \in Nat /\ Len(name) = n /\ name = [k \in 1 .. n |-> name[k]]
  BY <1>2
<1>4. \A k \in 1 .. n : name[k] # 0
  <2> SUFFICES ASSUME NEW k \in 1 .. n PROVE name[k] # 0
    OBVIOUS
  <2>1. name[k] \in 1 .. 255
    BY <1>2, ElementOfSeq
  <2>2. \A x \in 1 .. 255 : x # 0
    OBVIOUS
  <2> QED  BY <2>1, <2>2
<1> HIDE DEF n
<1>5. /\ HeaderSize \in Nat /\ HeaderSize > 0 /\ at \in Nat /\ at > 0
      /\ at >= HeaderSize + 4 /\ at + 3 < MaxBufSize
      /\ MaxFileNameSize \in Nat /\ MaxBufSize \in Nat /\ at + MaxFileNameSize < MaxBufSize
  BY DEF HeaderSize, MaxBufSize, MaxFileNameSize
<1>6. /\ size \in Nat /\ size > 0 /\ HeaderSize + 4 <= size /\ at + n <= size
      /\ size \in 0 .. MaxBufSize /\ size \in 1 .. MaxBufSize
      /\ size \in size .. MaxBufSize - 1 /\ n \in 0 .. MaxFileNameSize - 1
  <2> HIDE DEF at
  <2> QED  BY <1>2, <1>3, <1>5
<1>7. Length(m) = size
  <2>1. Length(m) = HeaderSize + (4 + n)
    BY <1>0, <1>1, Zenon DEF Length, n, name
  <2> QED  BY <2>1, <1>3, <1>5
<1>8. P = Memcpy(b1, at, name)
  <2>1. Serialized(m, fileId, b0) = SerializeOpenFile(m, fileId, b0)
    BY <1>0, <1>1, Zenon DEF Serialized
  <2> QED  BY <2>1, PacketIs DEF SerializeOpenFile, name
<1>9. Fields(m, fileId) = [type |-> "OPENFILE", fileId |-> fileId, filename |-> name]
  BY <1>0, <1>1, Zenon DEF Fields, name
<1> HIDE DEF P, size, at
<1>10. Begins(b0, size, Code[m.type])
  BY <1>6, <1>7, BlankBegins
<1> HIDE DEF b0
<1>11. Lies(b1, HeaderSize, Htonl(fileId)) /\ Begins(b1, size, Code[m.type])
  BY <1>5, <1>6, <1>10, IntPut
<1> HIDE DEF b1
<1>12. Lies(P, at, name) /\ Begins(P, size, Code[m.type])
  BY <1>3, <1>5, <1>6, <1>8, <1>11, BytesPut, BeginsKept
<1>13. Lies(P, HeaderSize, Htonl(fileId))
  BY <1>3, <1>5, <1>8, <1>11, BytesKeepInt
<1> DEFINE buf == Received(P)
<1>14. TypeOf(buf) = m.type
  BY <1>1, <1>6, <1>12, TypeRead
<1>15. IntAt(buf, HeaderSize) = fileId
  BY <1>5, <1>6, <1>13, <1>12, FileIdIsInt, WordRead
<1>16. \A k \in 1 .. n : buf[at + k - 1] = name[k]
  <2>1. \A k \in 1 .. Len(name) : buf[at + k - 1] = name[k]
    BY <1>5, <1>6, <1>12, BytesReceived
  <2> QED  BY <2>1, <1>3
<1>17. buf[at + n] = 0
  BY <1>6, <1>12, ReceivedBytes DEF size
<1> HIDE DEF buf
<1>18. StringAt(buf, at) = name
  <2>1. \A k \in 1 .. n : buf[at + k - 1] = name[k] /\ name[k] # 0
    BY <1>4, <1>16
  <2>2. at \in Nat /\ n \in 0 .. MaxFileNameSize - 1 /\ buf[at + n] = 0
        /\ name = [k \in 1 .. n |-> name[k]]
    BY <1>3, <1>5, <1>6, <1>17
  <2> QED  BY <2>1, <2>2, StringRead
<1>19. Deserialized(buf) = [type |-> "OPENFILE", fileId |-> fileId, filename |-> name]
  BY <1>1, <1>14, <1>15, <1>18, Types DEF DeserializeOpenFile, at
<1> QED  BY <1>9, <1>19 DEF buf, P

\* What WriteBlock lets pass.
LEMMA ExtentIsInts ==
  ASSUME NEW u \in Update
  PROVE  /\ Extent[u.block].byteOffset \in Int32
         /\ Extent[u.block].blockSize \in Int32
         /\ Extent[u.block].blockSize \in 0 .. MaxBlockLength
<1>1. u.block \in Block
  BY DEF Update
<1>2. Extent[u.block] \in [byteOffset : 0 .. MaxFileSize, blockSize : 0 .. MaxBlockLength]
  BY <1>1, WireAssumption DEF WireAssumption
<1>3. /\ Extent[u.block].byteOffset \in 0 .. MaxFileSize
      /\ Extent[u.block].blockSize \in 0 .. MaxBlockLength
  BY <1>2
<1>4. /\ MaxFileSize \in Nat /\ MaxFileSize <= 2147483647
      /\ MaxBlockLength \in Nat /\ MaxBlockLength <= 2147483647
  BY SMT DEF MaxFileSize, MaxBlockLength
<1> QED  BY <1>3, <1>4, SMT DEF Int32

\* WRITEBLOCK, with a block of any extent WriteBlock lets pass.
LEMMA WriteBlockArrives ==
  ASSUME NEW m \in [type : {"WRITEBLOCK"}, updateId : UpdateId, update : Update]
  PROVE  Arrives(m)
<1> SUFFICES ASSUME NEW fileId \in FileId
             PROVE  Deserialized(Received(Packet(m, fileId))) = Fields(m, fileId)
  BY DEF Arrives
<1>1. /\ m.type = "WRITEBLOCK" /\ m.type \in DOMAIN Code
      /\ m.updateId \in UpdateId /\ m.update \in Update
  BY Types
<1>2. m.type \notin WithFileId /\ m.type \notin WithFileDesc /\ m.type \notin Empty
  BY <1>1 DEF WithFileId, WithFileDesc, Empty
<1> DEFINE offset == Extent[m.update.block].byteOffset
           n == Extent[m.update.block].blockSize
           data == Buffer(m.update)
           P == Packet(m, fileId)
           at1 == HeaderSize + 4
           at2 == HeaderSize + 8
           at3 == HeaderSize + 12
           at4 == HeaderSize + 16
           size == at4 + n
           b0 == Blank(m)
           b1 == Memcpy(b0, HeaderSize, Htonl(fileId))
           b2 == Memcpy(b1, at1, Htonl(m.updateId))
           b3 == Memcpy(b2, at2, Htonl(offset))
           b4 == Memcpy(b3, at3, Htonl(n))
<1>3. offset \in Int32 /\ n \in Int32 /\ n \in 0 .. MaxBlockLength
  BY <1>1, ExtentIsInts
<1>4. m.updateId \in Int32
  <2>1. MaxUpdates \in Ids
    BY IdAssumption DEF IdAssumption
  <2> QED  BY <1>1, <2>1, SMT DEF Ids, UpdateId, Int32
<1>5. data = [k \in 1 .. n |-> Octets[m.update.data][k]]
  BY DEF Buffer
<1>6. Length(m) = HeaderSize + (16 + n)
  BY <1>1, <1>2, Zenon DEF Length
<1>7. P = Memcpy(b4, at4, data)
  <2>1. Serialized(m, fileId, b0) = SerializeWriteBlock(m, fileId, b0)
    BY <1>1, <1>2, Zenon DEF Serialized
  <2> QED  BY <2>1, PacketIs DEF SerializeWriteBlock
<1>8. Fields(m, fileId) =
        [type |-> "WRITEBLOCK", fileId |-> fileId, updateId |-> m.updateId,
         byteOffset |-> offset, blockSize |-> n, buffer |-> data]
  BY <1>1, <1>2, Zenon DEF Fields
<1> HIDE DEF offset, n, data, P
<1>9. n \in Nat /\ Len(data) = n
  BY <1>3, <1>5
<1>10. /\ HeaderSize \in Nat /\ HeaderSize > 0
       /\ at1 \in Nat /\ at1 > 0 /\ at1 = HeaderSize + 4
       /\ at2 \in Nat /\ at2 > 0 /\ at2 = HeaderSize + 8
       /\ at3 \in Nat /\ at3 > 0 /\ at3 = HeaderSize + 12
       /\ at4 \in Nat /\ at4 > 0 /\ at4 = HeaderSize + 16
       /\ MaxBufSize \in Nat /\ MaxBlockLength \in Nat /\ at4 + MaxBlockLength <= MaxBufSize
  BY DEF HeaderSize, MaxBufSize, MaxBlockLength
<1>11. Length(m) = size
  BY <1>6, <1>9, <1>10
<1> HIDE DEF at1, at2, at3, at4, b0, b1, b2, b3, b4
<1>12. /\ size \in Nat /\ size > 0 /\ at4 <= size /\ at4 + n <= size
       /\ size \in 0 .. MaxBufSize /\ size \in 1 .. MaxBufSize
  BY <1>3, <1>9, <1>10
<1>13. HeaderSize + 4 <= size /\ at1 + 4 <= size /\ at2 + 4 <= size /\ at3 + 4 <= size
  BY <1>10, <1>12
<1> HIDE DEF size
<1> DEFINE c == Code[m.type]
<1>14. Begins(b0, size, c)
  BY <1>11, <1>12, BlankBegins DEF b0
<1> HIDE DEF c
<1>15. Lies(b1, HeaderSize, Htonl(fileId)) /\ Begins(b1, size, c)
  BY <1>10, <1>12, <1>13, <1>14, IntPut DEF b1
<1>16. /\ Lies(b2, at1, Htonl(m.updateId)) /\ Begins(b2, size, c)
       /\ Lies(b2, HeaderSize, Htonl(fileId))
  <2>1. Lies(b2, at1, Htonl(m.updateId)) /\ Begins(b2, size, c)
    BY <1>10, <1>12, <1>13, <1>15, IntPut DEF b2
  <2>2. at1 >= HeaderSize + 4
    BY <1>10
  <2>3. Lies(b2, HeaderSize, Htonl(fileId))
    BY <1>10, <1>15, <2>2, IntKeepsInt DEF b2
  <2> QED  BY <2>1, <2>3
<1>17. /\ Lies(b3, at2, Htonl(offset)) /\ Begins(b3, size, c)
       /\ Lies(b3, at1, Htonl(m.updateId)) /\ Lies(b3, HeaderSize, Htonl(fileId))
  <2>1. Lies(b3, at2, Htonl(offset)) /\ Begins(b3, size, c)
    BY <1>10, <1>12, <1>13, <1>16, IntPut DEF b3
  <2>2. at2 >= HeaderSize + 4 /\ at2 >= at1 + 4
    BY <1>10
  <2>3. Lies(b3, HeaderSize, Htonl(fileId))
    BY <1>10, <1>16, <2>2, IntKeepsInt DEF b3
  <2>4. Lies(b3, at1, Htonl(m.updateId))
    BY <1>10, <1>16, <2>2, IntKeepsInt DEF b3
  <2> QED  BY <2>1, <2>3, <2>4
<1>18. /\ Lies(b4, at3, Htonl(n)) /\ Begins(b4, size, c)
       /\ Lies(b4, at2, Htonl(offset))
       /\ Lies(b4, at1, Htonl(m.updateId)) /\ Lies(b4, HeaderSize, Htonl(fileId))
  <2>1. Lies(b4, at3, Htonl(n)) /\ Begins(b4, size, c)
    BY <1>10, <1>12, <1>13, <1>17, IntPut DEF b4
  <2>2. at3 >= HeaderSize + 4 /\ at3 >= at1 + 4 /\ at3 >= at2 + 4
    BY <1>10
  <2>3. Lies(b4, HeaderSize, Htonl(fileId))
    BY <1>10, <1>17, <2>2, IntKeepsInt DEF b4
  <2>4. Lies(b4, at1, Htonl(m.updateId))
    BY <1>10, <1>17, <2>2, IntKeepsInt DEF b4
  <2>5. Lies(b4, at2, Htonl(offset))
    BY <1>10, <1>17, <2>2, IntKeepsInt DEF b4
  <2> QED  BY <2>1, <2>3, <2>4, <2>5
<1>19. /\ Lies(P, at4, data) /\ Begins(P, size, c)
       /\ Lies(P, at3, Htonl(n)) /\ Lies(P, at2, Htonl(offset))
       /\ Lies(P, at1, Htonl(m.updateId)) /\ Lies(P, HeaderSize, Htonl(fileId))
  <2>1. Lies(P, at4, data) /\ Begins(P, size, c)
    BY <1>7, <1>9, <1>10, <1>12, <1>18, BytesPut, BeginsKept
  <2>2. at4 >= HeaderSize + 4 /\ at4 >= at1 + 4 /\ at4 >= at2 + 4 /\ at4 >= at3 + 4
    BY <1>10
  <2>3. Lies(P, HeaderSize, Htonl(fileId))
    BY <1>7, <1>9, <1>10, <1>18, <2>2, BytesKeepInt
  <2>4. Lies(P, at1, Htonl(m.updateId))
    BY <1>7, <1>9, <1>10, <1>18, <2>2, BytesKeepInt
  <2>5. Lies(P, at2, Htonl(offset))
    BY <1>7, <1>9, <1>10, <1>18, <2>2, BytesKeepInt
  <2>6. Lies(P, at3, Htonl(n))
    BY <1>7, <1>9, <1>10, <1>18, <2>2, BytesKeepInt
  <2> QED  BY <2>1, <2>3, <2>4, <2>5, <2>6
<1> DEFINE buf == Received(P)
<1>20. TypeOf(buf) = m.type
  BY <1>1, <1>12, <1>19, TypeRead DEF c
<1>21. IntAt(buf, HeaderSize) = fileId /\ IntAt(buf, at1) = m.updateId
  BY <1>4, <1>10, <1>12, <1>19, FileIdIsInt, WordRead
<1>22. IntAt(buf, at2) = offset /\ IntAt(buf, at3) = n
  BY <1>3, <1>10, <1>12, <1>19, WordRead
<1>23. \A k \in 1 .. n : buf[at4 + k - 1] = data[k]
  <2>1. \A k \in 1 .. Len(data) : buf[at4 + k - 1] = data[k]
    BY <1>10, <1>12, <1>19, BytesReceived
  <2> QED  BY <1>9, <2>1
<1> HIDE DEF buf
<1>24. [k \in 1 .. n |-> buf[at4 + k - 1]] = data
  <2>1. data = [k \in 1 .. n |-> data[k]]
    BY <1>5
  <2> QED  BY <1>23, <2>1
<1>25. Deserialized(buf) =
         [type |-> "WRITEBLOCK", fileId |-> fileId, updateId |-> m.updateId,
          byteOffset |-> offset, blockSize |-> n, buffer |-> data]
  <2>1. Deserialized(buf) = DeserializeWriteBlock(buf)
    BY <1>1, <1>20, Types
  <2> QED  BY <1>21, <1>22, <1>24, <2>1 DEF DeserializeWriteBlock, at1, at2, at3, at4
<1> QED  BY <1>8, <1>25 DEF buf, P

-----------------------------------------------------------------------------
\* Whatever is under way is read as it was sent: the handlers get every result,
\* count, name, extent and byte the sender meant, though sender, sendMessage
\* and reader each know the places and the lengths on their own.
THEOREM PacketsArrive == Spec => []PacketsReadAsSent
<1>1. ASSUME NEW m \in ClientMsg PROVE Arrives(m)
  <2>1. CASE m \in [type : {"INIT", "VOTE", "COMMIT", "ABORT", "CLOSE"}]
    <3>1. m \in [type : Empty] \/ m \in [type : WithFileId]
      BY <2>1 DEF Empty, WithFileId
    <3> QED  BY <3>1, EmptyArrives, FileIdArrives
  <2> QED  BY <1>1, <2>1, OpenFileArrives, WriteBlockArrives DEF ClientMsg
<1>2. ASSUME NEW m \in ServerMsg PROVE Arrives(m)
  <2>1. CASE m \in [type : {"INITACK"}]
    <3>1. m \in [type : Empty]
      BY <2>1 DEF Empty
    <3> QED  BY <3>1, EmptyArrives
  <2>2. CASE m \in [type : {"OPENFILEACK", "COMMITACK", "ABORTACK", "CLOSEACK"},
                    fileDesc : {-1, 0, 1}]
    BY <2>2, FileDescArrives DEF WithFileDesc
  <2> QED  BY <1>2, <2>1, <2>2, VoteAckArrives DEF ServerMsg
<1>3. TypeOK => PacketsReadAsSent
  <2> SUFFICES ASSUME TypeOK, NEW s \in Server
               PROVE  /\ \A i \in 1 .. Len(toServer[s]) : Arrives(toServer[s][i])
                      /\ \A i \in 1 .. Len(toClient[s]) : Arrives(toClient[s][i])
    BY DEF PacketsReadAsSent
  <2>1. toServer[s] \in Seq(ClientMsg) /\ toClient[s] \in Seq(ServerMsg)
    BY DEF TypeOK, NetTypeOK
  <2>2. ASSUME NEW i \in 1 .. Len(toServer[s]) PROVE toServer[s][i] \in ClientMsg
    BY <2>1, ElementOfSeq
  <2>3. ASSUME NEW i \in 1 .. Len(toClient[s]) PROVE toClient[s][i] \in ServerMsg
    BY <2>1, ElementOfSeq
  <2> QED  BY <1>1, <1>2, <2>2, <2>3
<1> QED  BY <1>3, TypeCorrect, PTL
=============================================================================
