----------------------------- MODULE ReplFsWire -----------------------------
(***************************************************************************)
(* Messages as packets: what serialize copies into the array sendMessage   *)
(* makes for it, and what deserialize takes from the receive buffer, byte  *)
(* by byte.  The sender's offsets, the lengths passed to sendMessage and   *)
(* the reader's offsets are three parts of the code, and of this module.   *)
(* Node id and seqNum are left out: bytes 2 to 9 of a packet are zero.     *)
(***************************************************************************)
EXTENDS ReplFsNetwork

CONSTANTS
  FileId,  \* the descriptors, which no handler reads
  Name,    \* Name[f]: the characters of a file name, without the final zero
  Extent,  \* Extent[b]: the byteOffset and blockSize of a block
  Octets   \* Octets[d]: the bytes of a buffer

HeaderSize == 10
MaxBufSize == 1024
MaxFileNameSize == 128
MaxBlockLength == 512
MaxFileSize == 1048576

\* Ids are uint32_t; all that occur are below 2^31.
Ids == {n \in Nat : n <= 2147483647}

ASSUME IdAssumption == MaxUpdates \in Ids /\ FileId \subseteq Ids

\* What OpenFile and WriteBlock let pass.
ASSUME WireAssumption ==
  /\ Name \in [File -> Seq(1 .. 255)]
  /\ \A f \in File : Len(Name[f]) < MaxFileNameSize
  /\ Extent \in [Block -> [byteOffset : 0 .. MaxFileSize,
                           blockSize : 0 .. MaxBlockLength]]
  /\ Octets \in [Data -> [1 .. MaxBlockLength -> 0 .. 255]]

Code ==
  [INIT |-> 192, INITACK |-> 193, OPENFILE |-> 194, OPENFILEACK |-> 195,
   WRITEBLOCK |-> 196, VOTE |-> 197, VOTEACK |-> 198, COMMIT |-> 199,
   COMMITACK |-> 200, ABORT |-> 201, ABORTACK |-> 202, CLOSE |-> 203,
   CLOSEACK |-> 204]

Empty == {"INIT", "INITACK"}
WithFileId == {"VOTE", "COMMIT", "ABORT", "CLOSE"}
WithFileDesc == {"OPENFILEACK", "COMMITACK", "ABORTACK", "CLOSEACK"}

\* htonl of an int, or of a uint32_t below 2^31.
Htonl(n) ==
  <<(n \div 16777216) % 256, (n \div 65536) % 256, (n \div 256) % 256, n % 256>>

\* ntohl, assigned to an int.
Ntohl(w) ==
  (IF w[1] < 128 THEN w[1] ELSE w[1] - 256) * 16777216
    + w[2] * 65536 + w[3] * 256 + w[4]

Buffer(u) == [k \in 1 .. Extent[u.block].blockSize |-> Octets[u.data][k]]

\* The members of the message object, as the constructors set them.
Fields(m, fileId) ==
  CASE m.type = "OPENFILE" ->
         [type |-> m.type, fileId |-> fileId, filename |-> Name[m.filename]]
    [] m.type = "WRITEBLOCK" ->
         [type |-> m.type, fileId |-> fileId, updateId |-> m.updateId,
          byteOffset |-> Extent[m.update.block].byteOffset,
          blockSize |-> Extent[m.update.block].blockSize,
          buffer |-> Buffer(m.update)]
    [] m.type \in WithFileId -> [type |-> m.type, fileId |-> fileId]
    [] OTHER -> m

-----------------------------------------------------------------------------
(* Sending.                                                                 *)

\* memcpy(buf + at, bytes, Len(bytes)), as far as buf reaches.
Memcpy(buf, at, bytes) ==
  [i \in DOMAIN buf |->
     IF i - at + 1 \in 1 .. Len(bytes) THEN bytes[i - at + 1] ELSE buf[i]]

SerializeOpenFile(m, fileId, buf) ==
  Memcpy(Memcpy(buf, HeaderSize, Htonl(fileId)), HeaderSize + 4, Name[m.filename])

SerializeWriteBlock(m, fileId, buf) ==
  LET extent == Extent[m.update.block]
      b1 == Memcpy(buf, HeaderSize, Htonl(fileId))
      b2 == Memcpy(b1, HeaderSize + 4, Htonl(m.updateId))
      b3 == Memcpy(b2, HeaderSize + 8, Htonl(extent.byteOffset))
      b4 == Memcpy(b3, HeaderSize + 12, Htonl(extent.blockSize))
  IN  Memcpy(b4, HeaderSize + 16, Buffer(m.update))

SerializeVoteAck(m, buf) ==
  Memcpy(Memcpy(buf, HeaderSize, Htonl(m.fileDesc)),
         HeaderSize + 4, Htonl(m.updateId))

\* VoteMessage, CommitMessage, AbortMessage and CloseMessage.
SerializeFileId(fileId, buf) == Memcpy(buf, HeaderSize, Htonl(fileId))

\* OpenFileAckMessage, CommitAckMessage, AbortAckMessage, CloseAckMessage.
SerializeFileDesc(m, buf) == Memcpy(buf, HeaderSize, Htonl(m.fileDesc))

Serialized(m, fileId, buf) ==
  CASE m.type = "OPENFILE" -> SerializeOpenFile(m, fileId, buf)
    [] m.type = "WRITEBLOCK" -> SerializeWriteBlock(m, fileId, buf)
    [] m.type = "VOTEACK" -> SerializeVoteAck(m, buf)
    [] m.type \in WithFileId -> SerializeFileId(fileId, buf)
    [] m.type \in WithFileDesc -> SerializeFileDesc(m, buf)
    [] OTHER -> buf

\* Mutant: a VoteAck is given the length of the other acknowledgements.
LengthOfAcks(m) ==
  HeaderSize +
    CASE m.type = "OPENFILE" -> 4 + Len(Name[m.filename])
      [] m.type = "WRITEBLOCK" -> 16 + Extent[m.update.block].blockSize
      [] m.type \in Empty -> 0
      [] OTHER -> 4

\* The length each send*Message passes to sendMessage.
Length(m) ==
  HeaderSize +
    CASE m.type = "OPENFILE" -> 4 + Len(Name[m.filename])
      [] m.type = "WRITEBLOCK" -> 16 + Extent[m.update.block].blockSize
      [] m.type = "VOTEACK" -> 8
      [] m.type \in Empty -> 0
      [] OTHER -> 4

\* sendMessage: a cleared array of that length; buf[0] is the type.
Packet(m, fileId) ==
  Serialized(m, fileId,
             [i \in 0 .. Length(m) - 1 |-> IF i = 0 THEN Code[m.type] ELSE 0])

-----------------------------------------------------------------------------
(* Receiving.                                                               *)

\* execute: a cleared buffer with the packet in it.
Received(packet) ==
  [i \in 0 .. MaxBufSize - 1 |-> IF i \in DOMAIN packet THEN packet[i] ELSE 0]

IntAt(buf, at) == Ntohl([k \in 1 .. 4 |-> buf[at + k - 1]])

\* memcpy of MaxFileNameSize characters, and a std::string made of them.
StringAt(buf, at) ==
  LET n == CHOOSE n \in 0 .. MaxFileNameSize :
             /\ \A k \in 0 .. n - 1 : buf[at + k] # 0
             /\ n < MaxFileNameSize => buf[at + n] = 0
  IN  [k \in 1 .. n |-> buf[at + k - 1]]

DeserializeOpenFile(buf) ==
  [type |-> "OPENFILE", fileId |-> IntAt(buf, HeaderSize),
   filename |-> StringAt(buf, HeaderSize + 4)]

DeserializeWriteBlock(buf) ==
  LET size == IntAt(buf, HeaderSize + 12)
  IN  [type |-> "WRITEBLOCK", fileId |-> IntAt(buf, HeaderSize),
       updateId |-> IntAt(buf, HeaderSize + 4),
       byteOffset |-> IntAt(buf, HeaderSize + 8), blockSize |-> size,
       buffer |-> [k \in 1 .. size |-> buf[HeaderSize + 16 + k - 1]]]

DeserializeVoteAck(buf) ==
  [type |-> "VOTEACK", fileDesc |-> IntAt(buf, HeaderSize),
   updateId |-> IntAt(buf, HeaderSize + 4)]

\* buf[0] tells execute which handler to run.
TypeOf(buf) == CHOOSE t \in DOMAIN Code : Code[t] = buf[0]

Deserialized(buf) ==
  LET t == TypeOf(buf)
  IN  CASE t = "OPENFILE" -> DeserializeOpenFile(buf)
        [] t = "WRITEBLOCK" -> DeserializeWriteBlock(buf)
        [] t = "VOTEACK" -> DeserializeVoteAck(buf)
        [] t \in WithFileId -> [type |-> t, fileId |-> IntAt(buf, HeaderSize)]
        [] t \in WithFileDesc -> [type |-> t, fileDesc |-> IntAt(buf, HeaderSize)]
        [] OTHER -> [type |-> t]

-----------------------------------------------------------------------------
Arrives(m) ==
  \A fileId \in FileId :
    Deserialized(Received(Packet(m, fileId))) = Fields(m, fileId)

\* Every packet under way will be read as the message that was sent: where
\* serialize puts a member deserialize looks for it, no member is copied over
\* another, all of them lie within the length the sender states, names and
\* blocks of any length included, and the -1 of a failed operation survives
\* the unsigned conversions.
PacketsReadAsSent ==
  \A s \in Server :
    /\ \A i \in 1 .. Len(toServer[s]) : Arrives(toServer[s][i])
    /\ \A i \in 1 .. Len(toClient[s]) : Arrives(toClient[s][i])
=============================================================================
