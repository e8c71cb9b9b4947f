---------------------------- MODULE ReplFsProofs ----------------------------
(***************************************************************************)
(* Theorems about replFs for every group of servers, every channel, every  *)
(* set of files and blocks: the parts' invariants hold together, because   *)
(* a step of one part leaves the state of the other alone and keeps the    *)
(* channels well typed.  First come lemmas about the operators both are    *)
(* built from: sets of update ids, file contents, update maps, channels.   *)
(***************************************************************************)
EXTENDS ReplFs, FiniteSetTheorems, SequenceTheorems, WellFoundedInduction,
        TLAPS

-----------------------------------------------------------------------------
(* Updates and contents.                                                    *)

\* Every non-empty set of numbers has a smallest member.
LEMMA Smallest ==
  ASSUME NEW S \in SUBSET Nat, S # {}
  PROVE  \E n \in S : \A k \in S : n <= k
<1>1. PICK n \in S : \A k \in S : ~(<<k, n>> \in OpToRel(<, Nat))
  BY WFMin, NatLessThanWellFounded, Zenon
<1>2. \A k \in S : ~(k < n)
  BY <1>1, Zenon DEF OpToRel
<1> QED  BY <1>2

\* Every non-empty set of update ids has a largest member, which is its Max.
LEMMA MaxOfIds ==
  ASSUME NEW ids \in SUBSET UpdateId, ids # {}
  PROVE  Max(ids) \in ids
<1> DEFINE distance == {MaxUpdates - i : i \in ids}
<1>1. distance \in SUBSET Nat /\ distance # {}
  <2>1. \A i \in ids : MaxUpdates - i \in Nat
    BY DataAssumption DEF UpdateId
  <2>2. PICK i \in ids : TRUE
    OBVIOUS
  <2>3. MaxUpdates - i \in distance
    OBVIOUS
  <2> QED  BY <2>1, <2>3
<1>2. PICK d \in distance : \A e \in distance : d <= e
  <2> HIDE DEF distance
  <2> QED  BY <1>1, Smallest
<1>3. PICK m \in ids : d = MaxUpdates - m
  OBVIOUS
<1>4. \A i \in ids : m >= i
  <2> TAKE i \in ids
  <2>1. MaxUpdates - m <= MaxUpdates - i
    BY <1>2, <1>3
  <2> QED  BY <2>1, DataAssumption DEF UpdateId
<1> QED  BY <1>4 DEF Max

\* Writing staged updates to a file yields a file, if the map has an update
\* under every id it is asked for.
LEMMA ApplyType ==
  ASSUME NEW content \in Content, NEW map \in UpdateMap,
         NEW n \in 0 .. MaxUpdates, HasPrefix(map, n)
  PROVE  Apply(content, map, n) \in Content
<1> DEFINE writers(c) == {i \in UpdateId : i < n /\ c \in map[i].block}
<1> SUFFICES ASSUME NEW c \in Cell
             PROVE  (IF writers(c) = {} THEN content[c]
                                        ELSE map[Max(writers(c))].data)
                      \in Data \cup {Hole, Zero}
  BY DEF Apply, Content
<1>1. CASE writers(c) = {}
  BY <1>1 DEF Content
<1>2. CASE writers(c) # {}
  <2>1. Max(writers(c)) \in writers(c)
    BY <1>2, MaxOfIds
  <2>2. map[Max(writers(c))] \in Update
    BY <2>1 DEF HasPrefix, UpdateMap
  <2> QED  BY <1>2, <2>2 DEF Update
<1> QED  BY <1>1, <1>2

\* What fopen finds or creates is a file.
LEMMA OpenedType ==
  ASSUME NEW content \in Content \cup {Absent}
  PROVE  Opened(content) \in Content
BY DEF Opened, EmptyFile, Content

\* No update is cached in an empty map.
LEMMA NoUpdatesFacts ==
  /\ NoUpdates \in UpdateMap
  /\ Cached(NoUpdates) = {}
  /\ HasPrefix(NoUpdates, 0)
BY DataAssumption DEF NoUpdates, UpdateMap, Cached, HasPrefix, UpdateId

-----------------------------------------------------------------------------
(* Channels.                                                                *)

\* Taking a packet out of a channel leaves a channel.
LEMMA RemoveAtType ==
  ASSUME NEW S, NEW q \in Seq(S), NEW i \in 1 .. Len(q)
  PROVE  RemoveAt(q, i) \in Seq(S)
<1>1. \A j \in 1 .. Len(q) : q[j] \in S
  BY ElementOfSeq
<1>2. SubSeq(q, 1, i - 1) \in Seq(S)
  BY <1>1, SubSeqProperties, LenProperties
<1>3. SubSeq(q, i + 1, Len(q)) \in Seq(S)
  BY <1>1, SubSeqProperties, LenProperties
<1> QED  BY <1>2, <1>3, ConcatProperties DEF RemoveAt

\* The same for the channels of all hosts.
LEMMA WithoutType ==
  ASSUME NEW S, NEW channels \in [Server -> Seq(S)], NEW s \in Server,
         NEW i \in 1 .. Len(channels[s])
  PROVE  Without(channels, s, i) \in [Server -> Seq(S)]
BY RemoveAtType DEF Without

\* Messages sent to the running servers arrive in channels of the right type.
LEMMA MulticastType ==
  ASSUME NetTypeOK, NEW msgs \in Seq(ClientMsg), Multicast(msgs)
  PROVE  toServer' \in [Server -> Seq(ClientMsg)]
<1>1. \A s \in Server : toServer[s] \o msgs \in Seq(ClientMsg)
  BY ConcatProperties DEF NetTypeOK
<1> QED  BY <1>1 DEF Multicast, NetTypeOK

\* A handler that answers reads one packet and sends one.
LEMMA ReplyType ==
  ASSUME NetTypeOK, NEW s \in Server, NEW i \in 1 .. Len(toServer[s]),
         NEW ack \in ServerMsg, Reply(s, i, ack)
  PROVE  /\ toServer' \in [Server -> Seq(ClientMsg)]
         /\ toClient' \in [Server -> Seq(ServerMsg)]
<1>1. Append(toClient[s], ack) \in Seq(ServerMsg)
  BY AppendProperties DEF NetTypeOK
<1> QED  BY <1>1, WithoutType DEF Reply, NetTypeOK

\* A handler that does not answer only reads one.
LEMMA ConsumeType ==
  ASSUME NetTypeOK, NEW s \in Server, NEW i \in 1 .. Len(toServer[s]),
         Consume(s, i)
  PROVE  /\ toServer' \in [Server -> Seq(ClientMsg)]
         /\ toClient' \in [Server -> Seq(ServerMsg)]
BY WithoutType DEF Consume, NetTypeOK

-----------------------------------------------------------------------------
(* Messages: the type field decides which other fields there are.           *)

\* An OpenFile message carries a name.
LEMMA OpenFileFields ==
  ASSUME NEW m \in ClientMsg, m.type = "OPENFILE"
  PROVE  m.filename \in File
BY DEF ClientMsg

\* A WriteBlock message carries an id and an update.
LEMMA WriteBlockFields ==
  ASSUME NEW m \in ClientMsg, m.type = "WRITEBLOCK"
  PROVE  m.updateId \in UpdateId /\ m.update \in Update
BY DEF ClientMsg

\* A VoteAck carries an id, at most one past the last.
LEMMA VoteAckFields ==
  ASSUME NEW m \in ServerMsg, m.type = "VOTEACK"
  PROVE  m.updateId \in 0 .. MaxUpdates
BY DEF ServerMsg

\* The messages the handlers build are messages of network.h.
LEMMA BuiltMessages ==
  /\ \A t \in {"INIT", "VOTE", "COMMIT", "ABORT", "CLOSE"} :
       Plain(t) \in ClientMsg
  /\ \A f \in File : OpenFileMessage(f) \in ClientMsg
  /\ \A id \in UpdateId, u \in Update : WriteBlockMessage(id, u) \in ClientMsg
  /\ Plain("INITACK") \in ServerMsg
  /\ \A t \in {"OPENFILEACK", "COMMITACK", "ABORTACK", "CLOSEACK"},
        desc \in {-1, 0, 1} : Ack(t, desc) \in ServerMsg
  /\ \A id \in 0 .. MaxUpdates : VoteAckMessage(id) \in ServerMsg
BY DEF Plain, OpenFileMessage, WriteBlockMessage, Ack, VoteAckMessage,
       ClientMsg, ServerMsg

-----------------------------------------------------------------------------
(* Every step of a server preserves the types of its state and of the       *)
(* channels, and the fact that a vote counts only updates that are cached.  *)

\* What a server step relies on and preserves.
ServerInv == NetTypeOK /\ ServerTypeOK /\ ServerPrefix

\* A packet a server reads is a message the client sends.
LEMMA ReceivedType ==
  ASSUME NetTypeOK, NEW s \in Server, NEW i \in 1 .. Len(toServer[s])
  PROVE  toServer[s][i] \in ClientMsg
BY ElementOfSeq DEF NetTypeOK

\* reset() leaves an empty cache and nothing counted.
LEMMA ResetSafe ==
  ASSUME ServerTypeOK, ServerPrefix, NEW s \in Server, Reset(s)
  PROVE  /\ updateMap' \in [Server -> UpdateMap]
         /\ nextUpdateId' \in [Server -> 0 .. MaxUpdates]
         /\ ServerPrefix'
<1>1. 0 \in 0 .. MaxUpdates
  BY DataAssumption
<1>2. updateMap' \in [Server -> UpdateMap] /\ nextUpdateId' \in [Server -> 0 .. MaxUpdates]
  BY <1>1, NoUpdatesFacts DEF Reset, ServerTypeOK
<1>3. ASSUME NEW t \in Server
      PROVE  HasPrefix(updateMap'[t], nextUpdateId'[t])
  <2>1. CASE t = s
    BY <2>1, NoUpdatesFacts DEF Reset, ServerTypeOK
  <2>2. CASE t # s
    BY <2>2 DEF Reset, ServerTypeOK, ServerPrefix
  <2> QED  BY <2>1, <2>2
<1> QED  BY <1>2, <1>3 DEF ServerPrefix

\* A file after some of the updates counted by a vote are written to it.
LEMMA WrittenType ==
  ASSUME ServerTypeOK, ServerPrefix, NEW s \in Server,
         NEW n \in 0 .. nextUpdateId[s], fileFullname[s] # NoFile
  PROVE  [disk EXCEPT ![s] = Written(s, n)]
           \in [Server -> [File -> Content \cup {Absent}]]
<1>1. fileFullname[s] \in File /\ disk[s] \in [File -> Content \cup {Absent}]
  BY DEF ServerTypeOK
<1>2. Opened(disk[s][fileFullname[s]]) \in Content
  BY <1>1, OpenedType
<1>3. n \in 0 .. MaxUpdates /\ n <= nextUpdateId[s] /\ nextUpdateId[s] \in Nat
  BY DataAssumption DEF ServerTypeOK
<1>4. HasPrefix(updateMap[s], n)
  BY <1>3 DEF ServerPrefix, HasPrefix, UpdateId
<1>5. Apply(Opened(disk[s][fileFullname[s]]), updateMap[s], n) \in Content
  BY <1>2, <1>3, <1>4, ApplyType DEF ServerTypeOK
<1>6. Written(s, n) \in [File -> Content \cup {Absent}]
  BY <1>1, <1>5 DEF Written
<1> QED  BY <1>6 DEF ServerTypeOK

-----------------------------------------------------------------------------
(* The handlers.                                                            *)

\* procInitMessage only answers.
LEMMA ProcInitSafe ==
  ASSUME ServerInv, NEW s \in Server, NEW i \in 1 .. Len(toServer[s]),
         ProcInitMessage(s, i)
  PROVE  ServerInv'
<1>1. NetTypeOK'
  BY ReplyType, BuiltMessages DEF ServerInv, ProcInitMessage, Receives, NetTypeOK
<1> QED  BY <1>1 DEF ServerInv, ProcInitMessage, serverVars, memoryVars,
                     ServerTypeOK, ServerPrefix

\* A lost packet changes no state.
LEMMA DropSafe ==
  ASSUME ServerInv, NEW s \in Server, NEW i \in 1 .. Len(toServer[s]),
         DropClientPacket(s, i)
  PROVE  ServerInv'
<1>1. NetTypeOK'
  BY ConsumeType DEF ServerInv, DropClientPacket, NetTypeOK
<1> QED  BY <1>1 DEF ServerInv, DropClientPacket, serverVars, memoryVars,
                     ServerTypeOK, ServerPrefix

\* procOpenFileMessage takes the name from the message.
LEMMA ProcOpenFileSafe ==
  ASSUME ServerInv, NEW s \in Server, NEW i \in 1 .. Len(toServer[s]),
         ProcOpenFileMessage(s, i)
  PROVE  ServerInv'
<1>1. NetTypeOK'
  BY ReplyType, BuiltMessages
     DEF ServerInv, ProcOpenFileMessage, Receives, NetTypeOK
<1>2. toServer[s][i].filename \in File
  BY ReceivedType, OpenFileFields DEF ServerInv, ProcOpenFileMessage, Receives
<1> QED  BY <1>1, <1>2 DEF ServerInv, ProcOpenFileMessage, ServerTypeOK,
                           ServerPrefix

\* An insert into the cache takes no id out of it.
LEMMA ProcWriteBlockSafe ==
  ASSUME ServerInv, NEW s \in Server, NEW i \in 1 .. Len(toServer[s]),
         ProcWriteBlockMessage(s, i)
  PROVE  ServerInv'
<1> DEFINE id == toServer[s][i].updateId
           u == toServer[s][i].update
<1>1. NetTypeOK'
  BY ConsumeType DEF ServerInv, ProcWriteBlockMessage, Receives, NetTypeOK
<1>2. id \in UpdateId /\ u \in Update
  BY ReceivedType, WriteBlockFields
     DEF ServerInv, ProcWriteBlockMessage, Receives
<1>3. u # NoUpdate
  BY <1>2, DataAssumption DEF Update
<1>4. updateMap' = IF updateMap[s][id] = NoUpdate
                     THEN [updateMap EXCEPT ![s][id] = u]
                     ELSE updateMap
  BY DEF ProcWriteBlockMessage
<1> HIDE DEF id, u
<1>5. updateMap' \in [Server -> UpdateMap]
  BY <1>2, <1>4 DEF ServerInv, ServerTypeOK, UpdateMap
<1>6. \A t \in Server, j \in UpdateId :
        updateMap[t][j] # NoUpdate => updateMap'[t][j] # NoUpdate
  BY <1>2, <1>3, <1>4 DEF ServerInv, ServerTypeOK, UpdateMap
<1>7. ServerTypeOK' /\ UNCHANGED nextUpdateId
  BY <1>5 DEF ServerInv, ServerTypeOK, ProcWriteBlockMessage
<1>8. ServerPrefix'
  BY <1>6, <1>7 DEF ServerInv, ServerPrefix, HasPrefix
<1> QED  BY <1>1, <1>7, <1>8 DEF ServerInv

\* The scan extends the prefix it starts from by the ids it finds.
LEMMA ProcVoteSafe ==
  ASSUME ServerInv, NEW s \in Server, NEW i \in 1 .. Len(toServer[s]),
         ProcVoteMessage(s, i)
  PROVE  ServerInv'
<1>1. PICK n \in nextUpdateId[s] .. MaxUpdates :
        /\ Receives(s, i, "VOTE")
        /\ ScanStopsAt(s, n)
        /\ nextUpdateId' = [nextUpdateId EXCEPT ![s] = n]
        /\ Reply(s, i, VoteAckMessage(n))
        /\ UNCHANGED <<fileFullname, updateMap, backup, fp, disk>>
  BY DEF ProcVoteMessage
<1>2. nextUpdateId[s] \in Nat /\ n \in 0 .. MaxUpdates
  BY DataAssumption DEF ServerInv, ServerTypeOK
<1>3. NetTypeOK'
  BY <1>1, <1>2, ReplyType, BuiltMessages DEF ServerInv, Receives, NetTypeOK
<1>4. ServerTypeOK'
  BY <1>1, <1>2 DEF ServerInv, ServerTypeOK
<1>5. ASSUME NEW t \in Server, NEW j \in UpdateId, j < nextUpdateId'[t]
      PROVE  updateMap'[t][j] # NoUpdate
  <2>1. CASE t = s /\ j >= nextUpdateId[s]
    <3>1. j \in nextUpdateId[s] .. n - 1
      BY <1>1, <1>2, <1>5, <2>1, DataAssumption
         DEF UpdateId, ServerInv, ServerTypeOK
    <3> QED  BY <1>1, <2>1, <3>1 DEF ScanStopsAt
  <2>2. CASE t = s /\ j < nextUpdateId[s]
    BY <1>1, <2>2 DEF ServerInv, ServerPrefix, HasPrefix
  <2>3. CASE t # s
    BY <1>1, <1>5, <2>3 DEF ServerInv, ServerPrefix, HasPrefix, ServerTypeOK
  <2> QED  BY <1>2, <2>1, <2>2, <2>3, DataAssumption DEF UpdateId
<1> QED  BY <1>3, <1>4, <1>5 DEF ServerInv, ServerPrefix, HasPrefix

\* A handler that answers, changes at most fp in memory and writes nothing.
LEMMA QuietAckSafe ==
  ASSUME ServerInv, NEW s \in Server, NEW i \in 1 .. Len(toServer[s]),
         NEW ack \in ServerMsg, Reply(s, i, ack), UNCHANGED up,
         NEW value \in File \cup {NoFile, Dangling},
         fp' = fp \/ SetFp(s, value),
         UNCHANGED <<fileFullname, updateMap, nextUpdateId, backup, disk>>
  PROVE  ServerInv'
<1>1. NetTypeOK'
  BY ReplyType DEF ServerInv, NetTypeOK
<1>2. ServerTypeOK'
  BY DEF ServerInv, ServerTypeOK, SetFp
<1>3. ServerPrefix'
  BY DEF ServerInv, ServerPrefix
<1> QED  BY <1>1, <1>2, <1>3 DEF ServerInv

\* A handler that answers and forgets the cached updates.
LEMMA ResetAckSafe ==
  ASSUME ServerInv, NEW s \in Server, NEW i \in 1 .. Len(toServer[s]),
         NEW ack \in ServerMsg, Reply(s, i, ack), UNCHANGED <<up, fileFullname>>,
         Reset(s),
         UNCHANGED backup \/ ResetBackup(s),
         NEW value \in File \cup {NoFile, Dangling},
         fp' = fp \/ SetFp(s, value),
         disk' \in [Server -> [File -> Content \cup {Absent}]]
  PROVE  ServerInv'
<1>1. NetTypeOK'
  BY ReplyType DEF ServerInv, NetTypeOK
<1>2. /\ updateMap' \in [Server -> UpdateMap]
      /\ nextUpdateId' \in [Server -> 0 .. MaxUpdates]
      /\ ServerPrefix'
  BY ResetSafe DEF ServerInv
<1>3. ServerTypeOK'
  BY <1>2 DEF ServerInv, ServerTypeOK, SetFp, ResetBackup
<1> QED  BY <1>1, <1>2, <1>3 DEF ServerInv

\* The answers built by the handlers of this section.
LEMMA Acks ==
  \A t \in {"COMMITACK", "ABORTACK", "CLOSEACK"}, desc \in {-1, 0, 1} :
    Ack(t, desc) \in ServerMsg
BY BuiltMessages

\* However Commit ends, it writes only counted updates, and keeps or resets
\* cache and count together.
LEMMA ProcCommitSafe ==
  ASSUME ServerInv, NEW s \in Server, NEW i \in 1 .. Len(toServer[s]),
         ProcCommitMessage(s, i)
  PROVE  ServerInv'
<1>1. CASE CommitOpenFails(s, i)
  BY <1>1, Acks, QuietAckSafe DEF CommitOpenFails, Receives
<1>2. CASE CommitFlushFails(s, i)
  <2>1. disk' \in [Server -> [File -> Content \cup {Absent}]]
    BY <1>2, WrittenType DEF CommitFlushFails, ServerInv
  <2>2. NetTypeOK'
    BY <1>2, Acks, ReplyType DEF CommitFlushFails, Receives, ServerInv, NetTypeOK
  <2>3. fileFullname[s] \in File
    BY <1>2 DEF CommitFlushFails, ServerInv, ServerTypeOK
  <2>4. BackupTaken(s) \in Content \cup {NoFile}
    BY <2>3 DEF BackupTaken, ReadAtEnd, Content, ServerInv, ServerTypeOK
  <2>5. ServerTypeOK'
    BY <1>2, <2>1, <2>3, <2>4
       DEF CommitFlushFails, SetFp, ServerInv, ServerTypeOK
  <2>6. ServerPrefix'
    BY <1>2 DEF CommitFlushFails, ServerInv, ServerPrefix
  <2> QED  BY <2>2, <2>5, <2>6 DEF ServerInv
<1>3. CASE CommitDone(s, i)
  <2>1. nextUpdateId[s] \in 0 .. nextUpdateId[s]
    BY DataAssumption DEF ServerInv, ServerTypeOK
  <2>2. disk' \in [Server -> [File -> Content \cup {Absent}]]
    BY <1>3, <2>1, WrittenType DEF CommitDone, ServerInv
  <2>3. fileFullname[s] \in File
    BY <1>3 DEF CommitDone, ServerInv, ServerTypeOK
  <2> QED  BY <1>3, <2>2, <2>3, Acks, ResetAckSafe DEF CommitDone, Receives
<1> QED  BY <1>1, <1>2, <1>3 DEF ProcCommitMessage

\* However Abort ends, cache and count are reset together.
LEMMA ProcAbortSafe ==
  ASSUME ServerInv, NEW s \in Server, NEW i \in 1 .. Len(toServer[s]),
         ProcAbortMessage(s, i)
  PROVE  ServerInv'
<1> DEFINE f == fileFullname[s]
           Disks == [Server -> [File -> Content \cup {Absent}]]
<1>1. \A value \in Content \cup {Absent} :
        [disk EXCEPT ![s][f] = value] \in Disks
  <2> TAKE value \in Content \cup {Absent}
  <2>1. disk[s] \in [File -> Content \cup {Absent}] /\ disk \in Disks
    BY DEF ServerInv, ServerTypeOK
  <2>2. [disk[s] EXCEPT ![f] = value] \in [File -> Content \cup {Absent}]
    BY <2>1
  <2> QED  BY <2>1, <2>2
<1>2. disk \in Disks /\ f \in File \cup {NoFile}
  BY DEF ServerInv, ServerTypeOK
<1>3. CASE AbortWithoutBackup(s, i)
  <2>1. UNCHANGED <<up, fileFullname, backup, fp, disk>> /\ Reset(s)
    BY <1>3 DEF AbortWithoutBackup, Receives
  <2> QED  BY <1>2, <1>3, <2>1, Acks, ResetAckSafe DEF AbortWithoutBackup
<1>4. CASE RollbackRemoveFails(s, i)
  BY <1>2, <1>4, Acks, ResetAckSafe
     DEF RollbackRemoveFails, RollsBack, Receives
<1>5. CASE RollbackReopenFails(s, i)
  BY <1>1, <1>5, Acks, ResetAckSafe
     DEF RollbackReopenFails, RollsBack, Receives
<1>6. ASSUME backup[s] # NoFile
      PROVE  {EmptyFile, PointerSizeOf(backup[s])} \subseteq Content
  <2>1. backup[s] \in Content
    BY <1>6 DEF ServerInv, ServerTypeOK
  <2> QED  BY <2>1, DataAssumption DEF Content, EmptyFile, PointerSizeOf
<1>7. CASE RollbackFlushFails(s, i)
  <2>1. disk' \in Disks
    BY <1>1, <1>6, <1>7 DEF RollbackFlushFails, RollsBack
  <2> QED  BY <1>2, <1>7, <2>1, Acks, ResetAckSafe
              DEF RollbackFlushFails, RollsBack, Receives
<1>8. CASE RollbackDone(s, i)
  <2>1. disk' \in Disks
    BY <1>1, <1>6, <1>8 DEF RollbackDone, RollsBack
  <2> QED  BY <1>2, <1>8, <2>1, Acks, ResetAckSafe
              DEF RollbackDone, RollsBack, Receives
<1> QED  BY <1>3, <1>4, <1>5, <1>7, <1>8 DEF ProcAbortMessage

\* procCloseMessage changes at most fp.
LEMMA ProcCloseSafe ==
  ASSUME ServerInv, NEW s \in Server, NEW i \in 1 .. Len(toServer[s]),
         ProcCloseMessage(s, i)
  PROVE  ServerInv'
<1>1. CASE CloseRefused(s, i)
  BY <1>1, Acks, QuietAckSafe
     DEF CloseRefused, Receives, serverVars, memoryVars
<1>2. CASE CloseDone(s, i)
  BY <1>2, Acks, QuietAckSafe DEF CloseDone, Receives
<1>3. CASE CloseFails(s, i)
  BY <1>3, Acks, QuietAckSafe DEF CloseFails, Receives
<1> QED  BY <1>1, <1>2, <1>3 DEF ProcCloseMessage

-----------------------------------------------------------------------------
(* The end of the process, and all steps together.                          *)

\* The end of the process empties its memory.
LEMMA DiesSafe ==
  ASSUME ServerInv, NEW s \in Server, Dies(s),
         disk' \in [Server -> [File -> Content \cup {Absent}]]
  PROVE  ServerInv'
<1>1. NetTypeOK'
  BY EmptySeq DEF Dies, ServerInv, NetTypeOK
<1>2. /\ updateMap' \in [Server -> UpdateMap]
      /\ nextUpdateId' \in [Server -> 0 .. MaxUpdates]
      /\ ServerPrefix'
  BY ResetSafe DEF Dies, ServerInv
<1>3. ServerTypeOK'
  BY <1>2 DEF Dies, ResetBackup, SetFp, ServerInv, ServerTypeOK
<1> QED  BY <1>1, <1>2, <1>3 DEF ServerInv

\* All handlers together.
LEMMA HandleSafe ==
  ASSUME ServerInv, NEW s \in Server, NEW i \in 1 .. Len(toServer[s]),
         Handle(s, i)
  PROVE  ServerInv'
BY ProcInitSafe, ProcOpenFileSafe, ProcWriteBlockSafe, ProcVoteSafe, ProcCommitSafe, ProcAbortSafe,
   ProcCloseSafe DEF Handle

\* A server step preserves the server's invariant, whatever the client sent.
THEOREM ServerStepSafe ==
  ASSUME ServerInv, NEW s \in Server, ServerStep(s)
  PROVE  ServerInv'
<1>1. CASE ServerReads(s)
  BY <1>1, HandleSafe, DropSafe DEF ServerReads
<1>2. CASE Crash(s)
  BY <1>2, DiesSafe DEF Crash, ServerInv, ServerTypeOK
<1>3. CASE CrashInCommit(s)
  BY <1>3, DiesSafe, WrittenType DEF CrashInCommit, ServerInv
<1>4. CASE BadFclose(s)
  BY <1>4, DiesSafe DEF BadFclose, ServerInv, ServerTypeOK
<1> QED  BY <1>1, <1>2, <1>3, <1>4 DEF ServerStep

-----------------------------------------------------------------------------
(* A vote is binding.                                                       *)

\* What VoteIsBinding says of one server.
Keeps(s) ==
  /\ nextUpdateId'[s] >= nextUpdateId[s]
  /\ \A i \in UpdateId : i < nextUpdateId[s] =>
       updateMap'[s][i] = updateMap[s][i]
GivesUp(s) == nextUpdateId'[s] = 0 /\ Cached(updateMap'[s]) = {}

\* Only WriteBlock, Vote and reset() touch the cache and the count.
LEMMA CacheSteps ==
  ASSUME NEW s \in Server, ServerStep(s)
  PROVE  \/ UNCHANGED <<updateMap, nextUpdateId>>
         \/ Reset(s)
         \/ \E i \in 1 .. Len(toServer[s]) :
              ProcWriteBlockMessage(s, i) \/ ProcVoteMessage(s, i)
<1> DEFINE Goal == \/ UNCHANGED <<updateMap, nextUpdateId>>
                   \/ Reset(s)
                   \/ \E i \in 1 .. Len(toServer[s]) :
                        ProcWriteBlockMessage(s, i) \/ ProcVoteMessage(s, i)
<1>1. ASSUME NEW i \in 1 .. Len(toServer[s]), Handle(s, i)
      PROVE  Goal
  <2>1. CASE ProcInitMessage(s, i) \/ ProcOpenFileMessage(s, i)
    BY <2>1 DEF ProcInitMessage, ProcOpenFileMessage, serverVars, memoryVars
  <2>2. CASE ProcCommitMessage(s, i)
    BY <2>2 DEF ProcCommitMessage, CommitOpenFails, CommitFlushFails, CommitDone
  <2>3. CASE ProcAbortMessage(s, i)
    BY <2>3 DEF ProcAbortMessage, AbortWithoutBackup, RollbackRemoveFails,
       RollbackReopenFails, RollbackFlushFails, RollbackDone, RollsBack
  <2>4. CASE ProcCloseMessage(s, i)
    BY <2>4 DEF ProcCloseMessage, CloseRefused, CloseDone, CloseFails,
       serverVars, memoryVars
  <2> QED  BY <1>1, <2>1, <2>2, <2>3, <2>4 DEF Handle
<1>2. ASSUME NEW i \in 1 .. Len(toServer[s]), DropClientPacket(s, i)
      PROVE  Goal
  BY <1>2 DEF DropClientPacket, serverVars, memoryVars
<1>3. CASE Crash(s) \/ CrashInCommit(s) \/ BadFclose(s)
  BY <1>3 DEF Crash, CrashInCommit, BadFclose, Dies
<1> QED  BY <1>1, <1>2, <1>3 DEF ServerStep, ServerReads

\* Whatever a server does, every server keeps the updates it counted or
\* gives all of them up.
LEMMA StepBinding ==
  ASSUME ServerInv, NEW s \in Server, ServerStep(s), NEW t \in Server
  PROVE  Keeps(t) \/ GivesUp(t)
<1>0. nextUpdateId[t] \in Nat
  BY DataAssumption DEF ServerInv, ServerTypeOK
<1>1. CASE UNCHANGED <<updateMap, nextUpdateId>>
  BY <1>0, <1>1 DEF Keeps
<1>2. CASE Reset(s)
  <2>1. CASE t = s
    BY <1>2, <2>1, NoUpdatesFacts
       DEF Reset, GivesUp, ServerInv, ServerTypeOK
  <2>2. CASE t # s
    BY <1>0, <1>2, <2>2 DEF Reset, Keeps, ServerInv, ServerTypeOK
  <2> QED  BY <2>1, <2>2
<1>3. ASSUME NEW i \in 1 .. Len(toServer[s]), ProcWriteBlockMessage(s, i)
      PROVE  Keeps(t)
  <2> DEFINE id == toServer[s][i].updateId
  <2>1. UNCHANGED nextUpdateId
    BY <1>3 DEF ProcWriteBlockMessage
  <2>2. \/ UNCHANGED updateMap
        \/ /\ updateMap[s][id] = NoUpdate
           /\ updateMap' = [updateMap EXCEPT ![s][id] = toServer[s][i].update]
    BY <1>3 DEF ProcWriteBlockMessage
  <2>3. \A j \in UpdateId : j < nextUpdateId[t] => updateMap[t][j] # NoUpdate
    BY DEF ServerInv, ServerPrefix, HasPrefix
  <2> HIDE DEF id
  <2>4. ASSUME NEW j \in UpdateId, j < nextUpdateId[t]
        PROVE  updateMap'[t][j] = updateMap[t][j]
    <3>1. updateMap \in [Server -> UpdateMap] /\ updateMap[t][j] # NoUpdate
      BY <2>3, <2>4 DEF ServerInv, ServerTypeOK
    <3>2. CASE t = s /\ j = id
      BY <2>2, <3>1, <3>2
    <3>3. CASE t # s
      BY <2>2, <3>1, <3>3
    <3>4. CASE t = s /\ j # id
      <4>1. updateMap[s] \in [UpdateId -> Update \cup {NoUpdate}]
        BY <3>1 DEF UpdateMap
      <4> QED  BY <2>2, <3>1, <3>4, <4>1
    <3> QED  BY <3>2, <3>3, <3>4
  <2> QED  BY <1>0, <2>1, <2>4 DEF Keeps
<1>4. ASSUME NEW i \in 1 .. Len(toServer[s]), ProcVoteMessage(s, i)
      PROVE  Keeps(t)
  <2>1. PICK n \in nextUpdateId[s] .. MaxUpdates :
          /\ nextUpdateId' = [nextUpdateId EXCEPT ![s] = n]
          /\ UNCHANGED updateMap
    BY <1>4 DEF ProcVoteMessage
  <2>2. nextUpdateId'[t] >= nextUpdateId[t]
    BY <1>0, <2>1, DataAssumption DEF ServerInv, ServerTypeOK
  <2> QED  BY <2>1, <2>2 DEF Keeps
<1> QED  BY <1>1, <1>2, <1>3, <1>4, CacheSteps

-----------------------------------------------------------------------------
(* Every step of the client preserves the types of its state and of the     *)
(* channels, and what it keeps across the operations of a call.             *)

\* Inside a call, and while a file is open, the current file has a name.
FileNamed == op \notin {"idle", "init"} \/ isFileOpen => fileName \in File

\* Between calls no answers to a CloseFile are kept.
NoCloseAnswers == op = "idle" => closeRecvServerId = {}

\* What a client step relies on and preserves.
ClientInv ==
  /\ NetTypeOK
  /\ ClientTypeOK
  /\ ClientMapComplete
  /\ VoteBookkeeping
  /\ SelectionHolds
  /\ FileNamed
  /\ NoCloseAnswers

-----------------------------------------------------------------------------
(* The parts steps are made of.                                             *)

\* A new operation sends well-typed messages.
LEMMA EnterFacts ==
  ASSUME ClientInv, NEW o \in Op, NEW recv, NEW before \in Seq(ClientMsg),
         NEW msg \in ClientMsg, Enter(o, recv, before, msg)
  PROVE  /\ toServer' \in [Server -> Seq(ClientMsg)]
         /\ op' = o /\ recvServerId' = recv /\ turn' \in {0, 1}
<1>1. Append(before, msg) \in Seq(ClientMsg)
  BY AppendProperties
<1>2. toServer' \in [Server -> Seq(ClientMsg)]
  BY <1>1, MulticastType DEF Enter, ClientInv
<1> QED  BY <1>2 DEF Enter, ClientInv, ClientTypeOK

\* reset() empties the map, the count and the votes together.
LEMMA ResetClientFacts ==
  ASSUME ResetClient
  PROVE  /\ clientUpdateMap' \in UpdateMap
         /\ updateId' \in 0 .. MaxUpdates
         /\ recvServerUpdateId' \in [Server -> -1 .. MaxUpdates]
         /\ ClientMapComplete'
         /\ Voted' = {}
<1>1. updateId' = 0 /\ clientUpdateMap' = NoUpdates /\ recvServerUpdateId' = NoIds
  BY DEF ResetClient
<1>2. ClientMapComplete'
  BY <1>1, NoUpdatesFacts DEF ClientMapComplete
<1>3. Voted' = {}
  BY <1>1 DEF Voted, NoIds
<1>4. recvServerUpdateId' \in [Server -> -1 .. MaxUpdates]
  BY <1>1, DataAssumption DEF NoIds
<1> QED  BY <1>1, <1>2, <1>3, <1>4, NoUpdatesFacts, DataAssumption

\* What holds of the staged updates holds while they do not change.
LEMMA StagedSame ==
  ASSUME ClientInv, UNCHANGED stagedVars
  PROVE  /\ clientUpdateMap' \in UpdateMap
         /\ updateId' \in 0 .. MaxUpdates
         /\ recvServerUpdateId' \in [Server -> -1 .. MaxUpdates]
         /\ ClientMapComplete'
         /\ Voted' = Voted
BY DEF ClientInv, ClientTypeOK, stagedVars, ClientMapComplete, Voted

\* The message of every operation is one of network.h.
LEMMA OpMessageType ==
  ASSUME NEW o \in Op, o # "idle", o = "open" => fileName \in File
  PROVE  OpMessage(o) \in ClientMsg
BY BuiltMessages DEF OpMessage, Op

\* Only selected servers are counted.
LEMMA AcceptedSafe ==
  ASSUME ClientInv, NEW s \in Server
  PROVE  Accepted(s) \subseteq serverIds /\ Accepted(s) \subseteq Server
BY DEF Accepted, ClientInv, SelectionHolds, ClientTypeOK

\* The staged updates can all be applied to a file.
LEMMA StagedPrefix ==
  ASSUME ClientInv
  PROVE  HasPrefix(clientUpdateMap, updateId)
<1> SUFFICES ASSUME NEW i \in UpdateId, i < updateId
             PROVE  clientUpdateMap[i] # NoUpdate
  BY DEF HasPrefix
<1>1. i \in 0 .. updateId - 1
  BY DataAssumption DEF UpdateId, ClientInv, ClientTypeOK
<1> QED  BY <1>1 DEF ClientInv, ClientMapComplete, Cached

-----------------------------------------------------------------------------
(* Calls.                                                                   *)

\* A new client starts with no server selected.
LEMMA InitReplFsSafe ==
  ASSUME ClientInv, InitReplFs
  PROVE  ClientInv'
<1>1. Plain("INIT") \in ClientMsg /\ <<>> \in Seq(ClientMsg)
  BY BuiltMessages, EmptySeq
<1>2. /\ toServer' \in [Server -> Seq(ClientMsg)]
      /\ op' = "init" /\ recvServerId' = {} /\ turn' \in {0, 1}
  BY <1>1, EnterFacts DEF InitReplFs, Op
<1>3. /\ serverIds' = {} /\ api' = "InitReplFs"
      /\ UNCHANGED <<toClient, up, closeRecvServerId, fileVars, calls,
                     promiseVars>>
      /\ UNCHANGED stagedVars
      /\ op = "idle" /\ clients < MaxClients /\ clients' = clients + 1
  BY DEF InitReplFs
<1>4. clients' \in 0 .. MaxClients
  BY <1>3, ClientAssumption DEF ClientInv, ClientTypeOK
<1>5. Voted' = {} /\ closeRecvServerId' = {}
  BY <1>3, StagedSame DEF ClientInv, VoteBookkeeping, NoCloseAnswers
<1>6. ClientTypeOK'
  BY <1>2, <1>3, <1>4, StagedSame
     DEF ClientInv, ClientTypeOK, Op, Api, fileVars, promiseVars
<1>7. SelectionHolds'
  BY <1>2, <1>3, <1>5, FS_EmptySet, ClientAssumption DEF SelectionHolds
<1>8. NetTypeOK'
  BY <1>2, <1>3 DEF ClientInv, NetTypeOK
<1>9. VoteBookkeeping' /\ NoCloseAnswers'
  BY <1>2, <1>5 DEF VoteBookkeeping, NoCloseAnswers
<1>10. FileNamed'
  BY <1>2, <1>3 DEF FileNamed, ClientInv, fileVars
<1> QED  BY <1>3, <1>6, <1>7, <1>8, <1>9, <1>10, StagedSame DEF ClientInv

\* A call that only starts an operation.
LEMMA StartSafe ==
  ASSUME ClientInv, op = "idle", NEW o \in Op \ {"idle", "init"},
         NEW name \in Api, NEW msg \in ClientMsg, api' = name,
         Enter(o, {}, <<>>, msg), calls < MaxCalls, calls' = calls + 1,
         fileName' \in File, nextFd' \in Nat,
         UNCHANGED <<toClient, up, serverIds, closeRecvServerId, isFileOpen, fd,
                     stagedVars, clients, promiseVars>>
  PROVE  ClientInv'
<1>1. /\ toServer' \in [Server -> Seq(ClientMsg)]
      /\ op' = o /\ recvServerId' = {} /\ turn' \in {0, 1}
  BY EnterFacts, EmptySeq
<1>2. calls' \in 0 .. MaxCalls
  BY ClientAssumption DEF ClientInv, ClientTypeOK
<1>3. UNCHANGED stagedVars /\ Voted = {}
  BY DEF ClientInv, VoteBookkeeping
<1>4. ClientTypeOK'
  BY <1>1, <1>2, <1>3, StagedSame DEF ClientInv, ClientTypeOK, Op, promiseVars
<1>5. SelectionHolds'
  BY <1>1, <1>3, StagedSame DEF ClientInv, SelectionHolds
<1>6. NetTypeOK'
  BY <1>1 DEF ClientInv, NetTypeOK
<1>7. VoteBookkeeping' /\ NoCloseAnswers' /\ FileNamed'
  BY <1>1, <1>3, StagedSame DEF VoteBookkeeping, NoCloseAnswers, FileNamed
<1> QED  BY <1>3, <1>4, <1>5, <1>6, <1>7, StagedSame DEF ClientInv

\* OpenFile names the current file.
LEMMA OpenFileSafe ==
  ASSUME ClientInv, NEW f \in File, OpenFile(f)
  PROVE  ClientInv'
<1>1. OpenFileMessage(f) \in ClientMsg
  BY BuiltMessages
<1>2. nextFd' \in Nat
  BY DEF OpenFile, ClientInv, ClientTypeOK
<1> QED  BY <1>1, <1>2, StartSafe DEF OpenFile, Called, Op, Api

\* Commit, Abort and CloseFile act on a file that is open.
LEMMA StartCallSafe ==
  ASSUME ClientInv, NEW name \in Api, NEW o \in {"vote", "abort", "close"},
         StartCall(name, o)
  PROVE  ClientInv'
<1>1. fileName \in File
  BY DEF StartCall, FdValid, ClientInv, FileNamed
<1>2. OpMessage(o) \in ClientMsg
  BY OpMessageType DEF Op
<1>3. fileName' \in File /\ nextFd' \in Nat
  BY <1>1 DEF StartCall, fileVars, ClientInv, ClientTypeOK
<1> QED  BY <1>2, <1>3, StartSafe DEF StartCall, Called, Op, fileVars

\* insert and updateId++ go together: the map grows by the next id.
LEMMA WriteBlockSafe ==
  ASSUME ClientInv, NEW u \in Update, WriteBlock(u)
  PROVE  ClientInv'
<1>1. updateId \in UpdateId /\ updateId' = updateId + 1
  BY DataAssumption DEF WriteBlock, UpdateId, ClientInv, ClientTypeOK
<1>2. clientUpdateMap' = [clientUpdateMap EXCEPT ![updateId] = u]
  BY DEF WriteBlock
<1>3. u # NoUpdate
  BY DataAssumption DEF Update
<1>4. clientUpdateMap' \in UpdateMap
  BY <1>1, <1>2 DEF ClientInv, ClientTypeOK, UpdateMap
<1>5. ClientMapComplete'
  <2>1. Cached(clientUpdateMap)' = Cached(clientUpdateMap) \cup {updateId}
    BY <1>1, <1>2, <1>3 DEF Cached, ClientInv, ClientTypeOK, UpdateMap
  <2>2. 0 .. updateId' - 1 = (0 .. updateId - 1) \cup {updateId}
    BY <1>1 DEF UpdateId
  <2> QED  BY <2>1, <2>2 DEF ClientMapComplete, ClientInv
<1>6. updateId' \in 0 .. MaxUpdates /\ calls' \in 0 .. MaxCalls
  BY <1>1, DataAssumption, ClientAssumption
     DEF WriteBlock, Called, UpdateId, ClientInv, ClientTypeOK
<1>7. <<WriteBlockMessage(updateId, u)>> \in Seq(ClientMsg)
  BY <1>1, BuiltMessages
<1>8. toServer' \in [Server -> Seq(ClientMsg)]
  BY <1>7, MulticastType DEF WriteBlock, ClientInv
<1>9. UNCHANGED <<toClient, up, serverIds, callVars, fileVars,
                  recvServerUpdateId, clients, promiseVars>>
  BY DEF WriteBlock
<1>10. ClientTypeOK'
  BY <1>4, <1>6, <1>9
     DEF ClientInv, ClientTypeOK, callVars, fileVars, promiseVars
<1>11. VoteBookkeeping' /\ SelectionHolds'
  BY <1>9 DEF ClientInv, VoteBookkeeping, SelectionHolds, Voted, callVars
<1>12. NetTypeOK' /\ FileNamed' /\ NoCloseAnswers'
  BY <1>8, <1>9
     DEF ClientInv, NetTypeOK, FileNamed, NoCloseAnswers, callVars, fileVars
<1> QED  BY <1>5, <1>10, <1>11, <1>12 DEF ClientInv

-----------------------------------------------------------------------------
(* The end of an operation.                                                 *)

\* What the step an operation ends in leaves to the operation's end.
InCall ==
  /\ op # "idle"
  /\ toClient' \in [Server -> Seq(ServerMsg)]
  /\ UNCHANGED <<up, serverIds, bookVars>>

\* The call returns: nothing is open that was not, and no vote is on record.
LEMMA ReturnSafe ==
  ASSUME ClientInv, InCall, ReturnToApp, UNCHANGED toServer,
         isFileOpen' \in BOOLEAN, isFileOpen' => fileName \in File,
         nextFd' \in Nat, fd' \in Nat \cup {-1}, fileName' = fileName,
         \/ ResetClient
         \/ UNCHANGED stagedVars /\ Voted = {},
         promised' \in [File -> Content \cup {Absent}],
         inDoubt' \subseteq File
  PROVE  ClientInv'
<1>1. /\ clientUpdateMap' \in UpdateMap
      /\ updateId' \in 0 .. MaxUpdates
      /\ recvServerUpdateId' \in [Server -> -1 .. MaxUpdates]
      /\ ClientMapComplete'
      /\ Voted' = {}
  BY ResetClientFacts, StagedSame
<1>2. ClientTypeOK'
  BY <1>1 DEF InCall, ReturnToApp, ClientInv, ClientTypeOK, Op, Api, bookVars
<1>3. SelectionHolds' /\ VoteBookkeeping' /\ NoCloseAnswers'
  BY <1>1 DEF InCall, ReturnToApp, ClientInv, SelectionHolds, VoteBookkeeping,
              NoCloseAnswers
<1>4. NetTypeOK' /\ FileNamed'
  BY DEF InCall, ReturnToApp, ClientInv, NetTypeOK, FileNamed
<1> QED  BY <1>1, <1>2, <1>3, <1>4 DEF ClientInv

\* The call goes on with the next operation.
LEMMA NextOpSafe ==
  ASSUME ClientInv, InCall, op # "init",
         NEW o \in Op \ {"idle", "init"}, NEW recv \in SUBSET serverIds,
         NEW before \in Seq(ClientMsg), NEW msg \in ClientMsg,
         Enter(o, recv, before, msg),
         UNCHANGED <<api, fileVars>>, closeRecvServerId' \subseteq serverIds,
         clientUpdateMap' \in UpdateMap, updateId' \in 0 .. MaxUpdates,
         recvServerUpdateId' \in [Server -> -1 .. MaxUpdates],
         ClientMapComplete', Voted' \subseteq serverIds,
         o = "vote" => Voted' = recv,
         o \notin {"vote", "commit", "abort"} => Voted' = {},
         promised' \in [File -> Content \cup {Absent}],
         inDoubt' \subseteq File
  PROVE  ClientInv'
<1>1. /\ toServer' \in [Server -> Seq(ClientMsg)]
      /\ op' = o /\ recvServerId' = recv /\ turn' \in {0, 1}
  BY EnterFacts
<1>2. ClientTypeOK'
  BY <1>1 DEF InCall, ClientInv, ClientTypeOK, fileVars, bookVars
<1>3. SelectionHolds' /\ VoteBookkeeping'
  BY <1>1 DEF InCall, ClientInv, SelectionHolds, VoteBookkeeping
<1>4. NoCloseAnswers' /\ NetTypeOK' /\ FileNamed'
  BY <1>1 DEF InCall, ClientInv, NoCloseAnswers, NetTypeOK, FileNamed, fileVars
<1> QED  BY <1>2, <1>3, <1>4 DEF ClientInv

\* The call waits on, for the answers not in recv.
LEMMA KeepWaitingSafe ==
  ASSUME ClientInv, InCall, NEW recv \in SUBSET serverIds, KeepWaiting(recv),
         op = "vote" => recv = recvServerId
  PROVE  ClientInv'
<1>1. UNCHANGED stagedVars
  BY DEF KeepWaiting
<1>2. ClientTypeOK'
  BY <1>1, StagedSame DEF KeepWaiting, InCall, ClientInv, ClientTypeOK,
     fileVars, promiseVars, bookVars
<1>3. SelectionHolds' /\ VoteBookkeeping'
  BY <1>1, StagedSame
     DEF KeepWaiting, InCall, ClientInv, SelectionHolds, VoteBookkeeping
<1>4. NoCloseAnswers' /\ NetTypeOK' /\ FileNamed'
  BY DEF KeepWaiting, InCall, ClientInv, NoCloseAnswers, NetTypeOK, FileNamed,
         fileVars
<1> QED  BY <1>1, <1>2, <1>3, <1>4, StagedSame DEF ClientInv

\* What an operation that goes on to the next keeps of the staged updates.
LEMMA VotesSelected ==
  ASSUME ClientInv
  PROVE  /\ Voted \subseteq serverIds
         /\ closeRecvServerId \subseteq serverIds
         /\ op \notin {"vote", "commit", "abort"} => Voted = {}
         /\ op \notin {"idle", "init"} => fileName \in File
         /\ promised \in [File -> Content \cup {Absent}]
         /\ inDoubt \subseteq File
         /\ isFileOpen \in BOOLEAN
         /\ isFileOpen => fileName \in File
         /\ nextFd \in Nat /\ fd \in Nat \cup {-1}
BY DEF ClientInv, SelectionHolds, VoteBookkeeping, FileNamed, ClientTypeOK

\* The messages that carry nothing.
LEMMA PlainCalls ==
  \A t \in {"VOTE", "COMMIT", "ABORT", "CLOSE"} :
    Plain(t) \in ClientMsg /\ <<>> \in Seq(ClientMsg)
BY BuiltMessages, EmptySeq

\* A call that reports and changes nothing.
LEMMA InitEndsSafe ==
  ASSUME ClientInv, InCall, op \in {"init", "open", "close", "close2"},
         InitEnds \/ OpenFails \/ CloseFileFails
  PROVE  ClientInv'
<1>1. /\ ReturnToApp
      /\ UNCHANGED <<toServer, fileVars, promiseVars>>
      /\ UNCHANGED stagedVars
  BY DEF InitEnds, OpenFails, CloseFileFails
<1> QED  BY <1>1, ReturnSafe, VotesSelected DEF fileVars, promiseVars

\* The file that is open now has a name.
LEMMA OpenSucceedsSafe ==
  ASSUME ClientInv, InCall, op = "open", OpenSucceeds
  PROVE  ClientInv'
<1>1. UNCHANGED <<toServer, nextFd, fileName, promiseVars>> /\ UNCHANGED stagedVars
  BY DEF OpenSucceeds
<1>2. fd' \in Nat \cup {-1}
  BY VotesSelected DEF OpenSucceeds
<1> QED  BY <1>1, <1>2, ReturnSafe, VotesSelected DEF OpenSucceeds, promiseVars

\* The file is closed; nothing else changes.
LEMMA CloseSucceedsSafe ==
  ASSUME ClientInv, InCall, op \in {"close", "close2"}, CloseSucceeds
  PROVE  ClientInv'
<1>1. UNCHANGED <<toServer, nextFd, fd, fileName, promiseVars>> /\ UNCHANGED stagedVars
  BY DEF CloseSucceeds
<1> QED  BY <1>1, ReturnSafe, VotesSelected DEF CloseSucceeds, promiseVars

\* An abort, answered or not, drops the staged updates.
LEMMA AbortEndsSafe ==
  ASSUME ClientInv, InCall, op = "abort", AbortEnds
  PROVE  ClientInv'
BY ReturnSafe, VotesSelected DEF AbortEnds, fileVars, promiseVars

\* The vote phase is over, one way or the other.
LEMMA VoteEndsSafe ==
  ASSUME ClientInv, InCall, op = "vote", VoteSucceeds \/ VoteFails
  PROVE  ClientInv'
<1>1. /\ UNCHANGED <<api, closeRecvServerId, fileVars, promiseVars>>
      /\ UNCHANGED stagedVars
  BY DEF VoteSucceeds, VoteFails
<1>2. PICK o \in {"commit", "abort"}, msg \in ClientMsg :
        Enter(o, {}, <<>>, msg)
  BY PlainCalls DEF VoteSucceeds, VoteFails
<1> QED  BY <1>1, <1>2, NextOpSafe, StagedSame, VotesSelected, PlainCalls
            DEF Op, promiseVars

\* The file being committed is in doubt from here on.
LEMMA CommitFailsSafe ==
  ASSUME ClientInv, InCall, op = "commit", CommitFails
  PROVE  ClientInv'
<1>1. /\ UNCHANGED <<api, closeRecvServerId, fileVars, promised>>
      /\ UNCHANGED stagedVars
      /\ Enter("abort", {}, <<>>, Plain("ABORT"))
      /\ inDoubt' \subseteq File
  BY VotesSelected DEF CommitFails
<1> QED  BY <1>1, NextOpSafe, StagedSame, VotesSelected, PlainCalls DEF Op

\* The staged updates can be applied, and are dropped.
LEMMA CommitSucceedsSafe ==
  ASSUME ClientInv, InCall, op = "commit", CommitSucceeds
  PROVE  ClientInv'
<1> DEFINE after == Apply(Opened(promised[fileName]), clientUpdateMap, updateId)
<1>1. promised[fileName] \in Content \cup {Absent}
  BY VotesSelected
<1>2. after \in Content
  BY <1>1, OpenedType, ApplyType, StagedPrefix DEF ClientInv, ClientTypeOK
<1>3. promised' = [promised EXCEPT ![fileName] = after]
  BY DEF CommitSucceeds
<1>4. promised' \in [File -> Content \cup {Absent}]
  <2> HIDE DEF after
  <2> QED  BY <1>2, <1>3, VotesSelected
<1>5. ResetClient /\ UNCHANGED <<fileVars, inDoubt>>
  BY DEF CommitSucceeds
<1>6. CASE api = "Commit" /\ ReturnToApp /\ UNCHANGED toServer
  BY <1>4, <1>5, <1>6, ReturnSafe, VotesSelected DEF fileVars
<1>7. CASE /\ Enter("close2", closeRecvServerId, <<>>, Plain("CLOSE"))
           /\ UNCHANGED <<api, closeRecvServerId>>
  BY <1>4, <1>5, <1>7, NextOpSafe, ResetClientFacts, VotesSelected, PlainCalls
     DEF Op, fileVars
<1> QED  BY <1>6, <1>7 DEF CommitSucceeds

\* CloseFile starts the votes of the Commit it calls with none on record.
LEMMA CloseCommitsSafe ==
  ASSUME ClientInv, InCall, op = "close", CloseCommits
  PROVE  ClientInv'
<1>1. /\ UNCHANGED <<api, fileVars, promiseVars>>
      /\ UNCHANGED stagedVars
      /\ Enter("vote", {}, <<>>, Plain("VOTE"))
      /\ closeRecvServerId' \subseteq serverIds
  BY DEF CloseCommits, ClientInv, SelectionHolds
<1> QED  BY <1>1, NextOpSafe, StagedSame, VotesSelected, PlainCalls
            DEF Op, promiseVars

\* However an operation ends.
LEMMA ExecuteSafe ==
  ASSUME ClientInv, InCall, ExecuteOk \/ ExecuteError
  PROVE  ClientInv'
BY InitEndsSafe, OpenSucceedsSafe, CloseSucceedsSafe, AbortEndsSafe,
   VoteEndsSafe, CommitFailsSafe, CommitSucceedsSafe
   DEF ExecuteOk, ExecuteError

\* An answer that is not an error either ends the operation or is awaited on.
LEMMA AfterAckSafe ==
  ASSUME ClientInv, InCall, NEW recv \in SUBSET serverIds, AfterAck(recv),
         op = "vote" => recv = recvServerId
  PROVE  ClientInv'
BY ExecuteSafe, KeepWaitingSafe DEF AfterAck

-----------------------------------------------------------------------------
(* Steps inside execute().                                                  *)

\* A packet read is an acknowledgement of network.h.
LEMMA ReadsFacts ==
  ASSUME ClientInv, NEW s \in Server, NEW i \in 1 .. Len(toClient[s]),
         Reads(s, i)
  PROVE  /\ op # "idle" /\ UNCHANGED up
         /\ toClient' \in [Server -> Seq(ServerMsg)]
         /\ toClient[s][i] \in ServerMsg
<1>1. toClient \in [Server -> Seq(ServerMsg)]
  BY DEF ClientInv, NetTypeOK
<1>2. toClient[s][i] \in ServerMsg
  BY <1>1, ElementOfSeq
<1> QED  BY <1>1, <1>2, WithoutType DEF Reads

\* The client's invariant survives steps that only touch the channels.
LEMMA ClientKept ==
  ASSUME ClientInv, UNCHANGED clientVars, NetTypeOK'
  PROVE  ClientInv'
<1>1. ClientTypeOK'
  BY DEF ClientInv, ClientTypeOK, clientVars, callVars, fileVars, stagedVars,
         bookVars, promiseVars
<1>2. ClientMapComplete' /\ VoteBookkeeping' /\ SelectionHolds'
  BY DEF ClientInv, ClientMapComplete, VoteBookkeeping, SelectionHolds, Voted,
         clientVars, callVars, stagedVars
<1>3. FileNamed' /\ NoCloseAnswers'
  BY DEF ClientInv, FileNamed, NoCloseAnswers, clientVars, callVars, fileVars
<1> QED  BY <1>1, <1>2, <1>3 DEF ClientInv

\* A repeated message is the message of the operation.
LEMMA ResendSafe ==
  ASSUME ClientInv, Resend
  PROVE  ClientInv'
<1>1. op \in Op /\ op # "idle" /\ (op = "open" => fileName \in File)
  BY VotesSelected DEF Resend, ClientInv, ClientTypeOK
<1>2. <<OpMessage(op)>> \in Seq(ClientMsg)
  BY <1>1, OpMessageType
<1>3. toServer' \in [Server -> Seq(ClientMsg)]
  BY <1>2, MulticastType DEF Resend, ClientInv
<1> QED  BY <1>3, ClientKept DEF Resend, ClientInv, NetTypeOK

\* A packet thrown away changes nothing.
LEMMA IgnoreAckSafe ==
  ASSUME ClientInv, NEW s \in Server, NEW i \in 1 .. Len(toClient[s]),
         IgnoreAck(s, i)
  PROVE  ClientInv'
<1>1. toClient' \in [Server -> Seq(ServerMsg)]
  BY ReadsFacts DEF IgnoreAck
<1> QED  BY <1>1, ClientKept DEF IgnoreAck, Reads, ClientInv, NetTypeOK

\* A server is added only while fewer than numServers are selected.
LEMMA ProcInitAckSafe ==
  ASSUME ClientInv, NEW s \in Server, NEW i \in 1 .. Len(toClient[s]),
         ProcInitAckMessage(s, i)
  PROVE  ClientInv'
<1>1. /\ op = "init" /\ UNCHANGED <<up, bookVars>>
      /\ toClient' \in [Server -> Seq(ServerMsg)]
  BY ReadsFacts DEF ProcInitAckMessage, ReadsAck
<1>2. /\ recvServerId' = recvServerId
      /\ UNCHANGED <<toServer, op, api, closeRecvServerId, turn, fileVars,
                     promiseVars>>
      /\ UNCHANGED stagedVars
      /\ serverIds' = IF Ready THEN serverIds ELSE serverIds \cup {s}
  BY DEF ProcInitAckMessage, KeepWaiting
<1>3. IsFiniteSet(serverIds) /\ Cardinality(serverIds) \in Nat
  BY NetworkAssumption, FS_Subset, FS_CardinalityType
     DEF ClientInv, ClientTypeOK
<1>4. Cardinality(serverIds') <= NumServers
  <2>1. CASE Ready
    BY <1>2, <2>1 DEF ClientInv, SelectionHolds
  <2>2. CASE ~Ready
    <3>1. serverIds' = serverIds \cup {s}
      BY <1>2, <2>2
    <3>2. \/ Cardinality(serverIds \cup {s}) = Cardinality(serverIds)
          \/ Cardinality(serverIds \cup {s}) = Cardinality(serverIds) + 1
      BY <1>3, FS_AddElement, Zenon
    <3>3. NumServers \in Nat
      BY ClientAssumption, NetworkAssumption, FS_CardinalityType
    <3>4. Cardinality(serverIds) < NumServers
      BY <1>3, <2>2, <3>3 DEF Ready
    <3>5. Cardinality(serverIds \cup {s}) <= NumServers
      BY <1>3, <3>2, <3>3, <3>4
    <3> QED  BY <3>1, <3>5, Zenon
  <2> QED  BY <2>1, <2>2
<1>5. SelectionHolds'
  BY <1>2, <1>4, StagedSame DEF ClientInv, SelectionHolds
<1>6. ClientTypeOK'
  BY <1>1, <1>2, StagedSame
     DEF ClientInv, ClientTypeOK, fileVars, promiseVars, bookVars
<1>7. VoteBookkeeping' /\ NoCloseAnswers' /\ FileNamed'
  BY <1>1, <1>2, StagedSame
     DEF ClientInv, VoteBookkeeping, NoCloseAnswers, FileNamed, fileVars
<1>8. NetTypeOK'
  BY <1>1, <1>2 DEF ClientInv, NetTypeOK
<1> QED  BY <1>2, <1>5, <1>6, <1>7, <1>8, StagedSame DEF ClientInv

\* Reading the answer leaves the rest of the step to the operation.
LEMMA ReadsAckInCall ==
  ASSUME ClientInv, NEW s \in Server, NEW i \in 1 .. Len(toClient[s]),
         NEW ops, ReadsAck(s, i, ops), UNCHANGED serverIds
  PROVE  InCall /\ op \in ops /\ toClient[s][i] \in ServerMsg
BY ReadsFacts DEF ReadsAck, InCall

\* An answer to OpenFile, Commit or Abort.
LEMMA ProcAckSafe ==
  ASSUME ClientInv, NEW s \in Server, NEW i \in 1 .. Len(toClient[s]),
         ProcAckMessage(s, i)
  PROVE  ClientInv'
<1>1. InCall /\ op \in {"open", "commit", "abort"}
  BY ReadsAckInCall DEF ProcAckMessage
<1>2. ExecuteError \/ AfterAck(Accepted(s))
  BY DEF ProcAckMessage
<1> QED  BY <1>1, <1>2, ExecuteSafe, AfterAckSafe, AcceptedSafe

\* An answer to CloseFile.
LEMMA ProcCloseAckSafe ==
  ASSUME ClientInv, NEW s \in Server, NEW i \in 1 .. Len(toClient[s]),
         ProcCloseAckMessage(s, i)
  PROVE  ClientInv'
<1>1. InCall /\ op \in {"close", "close2"}
  BY ReadsAckInCall DEF ProcCloseAckMessage
<1>2. \/ ExecuteError \/ AfterAck(Accepted(s))
      \/ op = "close" /\ CloseCommits
      \/ op = "close2" /\ CloseSucceeds
  BY DEF ProcCloseAckMessage
<1> QED  BY <1>1, <1>2, ExecuteSafe, AfterAckSafe, AcceptedSafe,
            CloseCommitsSafe, CloseSucceedsSafe

\* Sending updates again reads only ids the map has.
LEMMA RetransmissionType ==
  ASSUME ClientInv, NEW smallest \in 0 .. MaxUpdates
  PROVE  Retransmission(smallest) \in Seq(ClientMsg)
<1> DEFINE n == updateId - smallest
           len == IF n < 0 THEN 0 ELSE n
<1>1. updateId \in 0 .. MaxUpdates /\ smallest \in Int /\ n \in Int
  BY DataAssumption DEF ClientInv, ClientTypeOK
<1>2. len \in Nat /\ 1 .. n = 1 .. len
  BY <1>1
<1>3. ASSUME NEW k \in 1 .. n
      PROVE  WriteBlockMessage(smallest + k - 1, clientUpdateMap[smallest + k - 1])
               \in ClientMsg
  <2>1. smallest + k - 1 \in 0 .. updateId - 1
    BY <1>1, <1>3
  <2>2. /\ smallest + k - 1 \in UpdateId
        /\ clientUpdateMap[smallest + k - 1] # NoUpdate
    BY <2>1 DEF ClientInv, ClientMapComplete, Cached
  <2>3. clientUpdateMap[smallest + k - 1] \in Update
    BY <2>2 DEF ClientInv, ClientTypeOK, UpdateMap
  <2> QED  BY <2>2, <2>3, BuiltMessages
<1>4. Retransmission(smallest) \in [1 .. len -> ClientMsg]
  BY <1>2, <1>3 DEF Retransmission
<1> QED  BY <1>2, <1>4, SeqDef

\* A vote goes on record and into recvVoteServerId at once.
LEMMA CountVoteSafe ==
  ASSUME ClientInv, InCall, op = "vote", NEW s \in serverIds,
         NEW id \in 0 .. MaxUpdates, CountVote(s, id)
  PROVE  ClientInv'
<1>1. s \in Server /\ Accepted(s) = recvServerId \cup {s}
  BY DEF Accepted, ClientInv, ClientTypeOK
<1>2. recvServerUpdateId' = [recvServerUpdateId EXCEPT ![s] = id]
  BY DEF CountVote
<1>3. recvServerUpdateId' \in [Server -> -1 .. MaxUpdates]
  BY <1>1, <1>2, DataAssumption DEF ClientInv, ClientTypeOK
<1>4. Voted' = Voted \cup {s}
  BY <1>1, <1>2, DataAssumption DEF Voted, ClientInv, ClientTypeOK
<1>5. Voted' = Accepted(s) /\ Accepted(s) \subseteq serverIds
  BY <1>1, <1>4, AcceptedSafe DEF ClientInv, VoteBookkeeping
<1>6. UNCHANGED <<clientUpdateMap, updateId, fileVars, promiseVars, api,
                  closeRecvServerId>>
  BY DEF CountVote
<1>7. ClientMapComplete' /\ clientUpdateMap' \in UpdateMap
      /\ updateId' \in 0 .. MaxUpdates
  BY <1>6 DEF ClientInv, ClientTypeOK, ClientMapComplete
<1>8. CASE recvServerId' = Accepted(s) /\ UNCHANGED <<toServer, op, turn>>
  <2>1. ClientTypeOK'
    BY <1>3, <1>5, <1>6, <1>7, <1>8
       DEF InCall, ClientInv, ClientTypeOK, fileVars, promiseVars, bookVars
  <2>2. VoteBookkeeping' /\ SelectionHolds'
    BY <1>5, <1>6, <1>8
       DEF InCall, ClientInv, VoteBookkeeping, SelectionHolds
  <2>3. NetTypeOK' /\ FileNamed' /\ NoCloseAnswers'
    BY <1>6, <1>8
       DEF InCall, ClientInv, NetTypeOK, FileNamed, NoCloseAnswers, fileVars
  <2> QED  BY <1>7, <2>1, <2>2, <2>3 DEF ClientInv
<1>9. CASE Enter("commit", {}, <<>>, Plain("COMMIT"))
  BY <1>3, <1>5, <1>6, <1>7, <1>9, NextOpSafe, VotesSelected, PlainCalls
     DEF Op, promiseVars
<1>10. ASSUME NEW smallest \in 0 .. MaxUpdates,
              Enter("vote", Accepted(s), Retransmission(smallest), Plain("VOTE"))
       PROVE  ClientInv'
  BY <1>3, <1>5, <1>6, <1>7, <1>10, NextOpSafe, VotesSelected, PlainCalls,
     RetransmissionType DEF Op, promiseVars
<1> QED  BY <1>8, <1>9, <1>10 DEF CountVote

\* A vote, of a selected server or of another.
LEMMA ProcVoteAckSafe ==
  ASSUME ClientInv, NEW s \in Server, NEW i \in 1 .. Len(toClient[s]),
         ProcVoteAckMessage(s, i)
  PROVE  ClientInv'
<1>1. /\ InCall /\ op = "vote"
      /\ toClient[s][i] \in ServerMsg /\ toClient[s][i].type = "VOTEACK"
  <2>1. ReadsAck(s, i, {"vote"}) /\ UNCHANGED serverIds
    BY DEF ProcVoteAckMessage
  <2>2. InCall /\ op = "vote" /\ toClient[s][i] \in ServerMsg
    BY <2>1, ReadsAckInCall
  <2> QED  BY <2>1, <2>2 DEF ReadsAck, AckType
<1>2. toClient[s][i].updateId \in 0 .. MaxUpdates
  BY <1>1, VoteAckFields
<1>3. recvServerId \subseteq serverIds
  BY DEF ClientInv, SelectionHolds
<1> QED  BY <1>1, <1>2, <1>3, CountVoteSafe, AfterAckSafe DEF ProcVoteAckMessage

\* Time is up: the operation ends.
LEMMA TimeoutSafe ==
  ASSUME ClientInv, Timeout
  PROVE  ClientInv'
<1>1. InCall /\ (ExecuteOk \/ ExecuteError)
  BY DEF Timeout, InCall, ClientInv, NetTypeOK
<1> QED  BY <1>1, ExecuteSafe

\* The client of the next process starts from nothing.
LEMMA ClientCrashSafe ==
  ASSUME ClientInv, ClientCrash
  PROVE  ClientInv'
<1>1. /\ ReturnToApp /\ ResetClient
      /\ serverIds' = {} /\ isFileOpen' = FALSE
      /\ nextFd' = 0 /\ fd' = -1 /\ fileName' = NoFile
      /\ inDoubt' \subseteq File
      /\ UNCHANGED <<toServer, up, bookVars, promised>>
  BY VotesSelected DEF ClientCrash
<1>2. toClient' \in [Server -> Seq(ServerMsg)]
  BY EmptySeq DEF ClientCrash, ClientInv, NetTypeOK
<1>3. ClientTypeOK'
  BY <1>1, ResetClientFacts
     DEF ReturnToApp, ClientInv, ClientTypeOK, Op, Api, bookVars
<1>4. SelectionHolds'
  BY <1>1, ResetClientFacts, FS_EmptySet, ClientAssumption
     DEF ReturnToApp, SelectionHolds
<1>5. VoteBookkeeping' /\ NoCloseAnswers' /\ FileNamed'
  BY <1>1, ResetClientFacts
     DEF ReturnToApp, VoteBookkeeping, NoCloseAnswers, FileNamed
<1>6. NetTypeOK'
  BY <1>1, <1>2 DEF ClientInv, NetTypeOK
<1> QED  BY <1>1, <1>3, <1>4, <1>5, <1>6, ResetClientFacts DEF ClientInv

\* A client step preserves the client's invariant, whatever the servers sent.
THEOREM ClientStepSafe ==
  ASSUME ClientInv, ClientStep
  PROVE  ClientInv'
<1>1. CASE CallStep
  BY <1>1, InitReplFsSafe, OpenFileSafe, WriteBlockSafe, StartCallSafe
     DEF CallStep, Commit, Abort, CloseFile, Api
<1>2. CASE \E s \in Server : ReadStep(s)
  BY <1>2, ProcInitAckSafe, ProcAckSafe, ProcCloseAckSafe, ProcVoteAckSafe,
     IgnoreAckSafe DEF ReadStep, HandleAck
<1>3. CASE Resend
  BY <1>3, ResendSafe
<1>4. CASE Timeout
  BY <1>4, TimeoutSafe
<1>5. CASE ClientCrash
  BY <1>5, ClientCrashSafe
<1> QED  BY <1>1, <1>2, <1>3, <1>4, <1>5 DEF ClientStep

-----------------------------------------------------------------------------
(* The whole.                                                               *)

\* The inductive invariant.
IInv == ServerInv /\ ClientInv

\* The program starts in it.
LEMMA InitSafe ==
  ASSUME Init
  PROVE  IInv
<1>1. NetTypeOK
  BY EmptySeq DEF Init, NetInit, NetTypeOK
<1>2. ServerTypeOK /\ ServerPrefix
  <2>1. 0 \in 0 .. MaxUpdates
    BY DataAssumption
  <2> QED  BY <2>1, NoUpdatesFacts DEF Init, ServerInit, ServerTypeOK, ServerPrefix
<1>3. 0 \in 0 .. MaxUpdates /\ 0 \in 0 .. MaxCalls /\ 0 \in 0 .. MaxClients
  BY DataAssumption, ClientAssumption
<1>4. recvServerUpdateId \in [Server -> -1 .. MaxUpdates] /\ Voted = {}
  BY DataAssumption DEF Init, ClientInit, NoIds, Voted
<1>5. ClientTypeOK
  BY <1>3, <1>4, NoUpdatesFacts DEF Init, ClientInit, ClientTypeOK, Op, Api
<1>6. ClientMapComplete
  BY NoUpdatesFacts DEF Init, ClientInit, ClientMapComplete
<1>7. VoteBookkeeping /\ FileNamed /\ NoCloseAnswers
  BY <1>4 DEF Init, ClientInit, VoteBookkeeping, FileNamed, NoCloseAnswers
<1>8. SelectionHolds
  BY <1>4, FS_EmptySet, ClientAssumption DEF Init, ClientInit, SelectionHolds
<1> QED  BY <1>1, <1>2, <1>5, <1>6, <1>7, <1>8 DEF IInv, ServerInv, ClientInv

\* Every step of a server and every step of the client keeps it.
LEMMA NextSafe ==
  ASSUME IInv, [Next]_vars
  PROVE  IInv'
<1>1. ASSUME NEW s \in Server, ServerStep(s), UNCHANGED clientVars
      PROVE  IInv'
  <2>1. ServerInv'
    BY <1>1, ServerStepSafe DEF IInv
  <2>2. ClientInv'
    BY <1>1, <2>1, ClientKept DEF IInv, ServerInv
  <2> QED  BY <2>1, <2>2 DEF IInv
<1>2. ASSUME ClientStep, UNCHANGED serverVars
      PROVE  IInv'
  <2>1. ClientInv'
    BY <1>2, ClientStepSafe DEF IInv
  <2>2. ServerInv'
    BY <1>2, <2>1 DEF IInv, ClientInv, ServerInv, ServerTypeOK, ServerPrefix,
                      serverVars, memoryVars
  <2> QED  BY <2>1, <2>2 DEF IInv
<1>3. CASE UNCHANGED vars
  <2>1. UNCHANGED serverVars /\ UNCHANGED clientVars
        /\ UNCHANGED <<toServer, toClient, up>>
    BY <1>3 DEF vars, netVars
  <2>2. NetTypeOK'
    BY <2>1 DEF IInv, ServerInv, NetTypeOK
  <2>3. ServerInv'
    BY <2>1, <2>2 DEF IInv, ServerInv, ServerTypeOK, ServerPrefix, serverVars,
                      memoryVars
  <2>4. ClientInv'
    BY <2>1, <2>2, ClientKept DEF IInv
  <2> QED  BY <2>3, <2>4 DEF IInv
<1> QED  BY <1>1, <1>2, <1>3 DEF Next

\* The invariants of the server and of the client hold throughout.
THEOREM Invariance == Spec => []IInv
<1>1. Init => IInv
  BY InitSafe
<1>2. IInv /\ [Next]_vars => IInv'
  BY NextSafe
<1> QED  BY <1>1, <1>2, PTL DEF Spec

-----------------------------------------------------------------------------
\* Every variable holds a value the program can hold, whatever is lost,
\* repeated or reordered and whoever crashes.
THEOREM TypeCorrect == Spec => []TypeOK
<1>1. IInv => TypeOK
  BY DEF IInv, ServerInv, ClientInv, TypeOK
<1> QED  BY <1>1, Invariance, PTL

\* procCommitMessage never dereferences updateMap.end().
THEOREM ServerPrefixHolds == Spec => []ServerPrefix
<1>1. IInv => ServerPrefix
  BY DEF IInv, ServerInv
<1> QED  BY <1>1, Invariance, PTL

\* procVoteAckMessage never dereferences updateMap.end(), and insert never
\* drops an update the application stages.
THEOREM ClientMapCompleteHolds == Spec => []ClientMapComplete
<1>1. IInv => ClientMapComplete
  BY DEF IInv, ClientInv
<1> QED  BY <1>1, Invariance, PTL

\* The update ids the retransmission is computed from are those of the
\* servers whose votes are counted.
THEOREM VoteBookkeepingHolds == Spec => []VoteBookkeeping
<1>1. IInv => VoteBookkeeping
  BY DEF IInv, ClientInv
<1> QED  BY <1>1, Invariance, PTL

\* No server but the numServers selected ones is ever counted.
THEOREM SelectionAlwaysHolds == Spec => []SelectionHolds
<1>1. IInv => SelectionHolds
  BY DEF IInv, ClientInv
<1> QED  BY <1>1, Invariance, PTL

\* No message changes an update a server has voted for.
THEOREM VotesBind == Spec => VoteIsBinding
<1> DEFINE Binding == \A s \in Server : Keeps(s) \/ GivesUp(s)
<1>1. IInv /\ [Next]_vars => [Binding]_serverVars
  <2> SUFFICES ASSUME IInv, Next PROVE Binding \/ UNCHANGED serverVars
    BY DEF vars
  <2> QED  BY StepBinding DEF Next, IInv
<1>2. [Binding]_serverVars <=>
        [\A s \in Server :
           \/ /\ nextUpdateId'[s] >= nextUpdateId[s]
              /\ \A i \in UpdateId : i < nextUpdateId[s] =>
                   updateMap'[s][i] = updateMap[s][i]
           \/ nextUpdateId'[s] = 0 /\ Cached(updateMap'[s]) = {}]_serverVars
  BY DEF Keeps, GivesUp
<1> QED  BY <1>1, <1>2, Invariance, PTL DEF Spec, VoteIsBinding
=============================================================================
