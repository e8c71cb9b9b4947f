--------------------- MODULE ReplFsReliableServerProofs ---------------------
(***************************************************************************)
(* On a dependable network every step of a server keeps what Reliable says *)
(* of the server and of its channels.                                      *)
(***************************************************************************)
EXTENDS ReplFsReliable, ReplFsProofs

-----------------------------------------------------------------------------
(* Queues: the head is read, a packet is put at the end.                    *)

\* rest is q without its head.
Taken(q, rest) ==
  /\ Len(q) \in Nat /\ Len(q) >= 1 /\ Len(rest) = Len(q) - 1
  /\ \A k \in 1 .. Len(rest) : rest[k] = q[k + 1]

\* more is q with m at the end.
Put(q, m, more) ==
  /\ Len(q) \in Nat /\ Len(more) = Len(q) + 1
  /\ \A k \in 1 .. Len(q) : more[k] = q[k]
  /\ more[Len(q) + 1] = m

\* Removing the packet at position 1 takes the head.
LEMMA HeadTaken ==
  ASSUME NEW S, NEW q \in Seq(S), 1 \in 1 .. Len(q)
  PROVE  Taken(q, RemoveAt(q, 1))
<1>1. Len(q) \in Nat /\ Len(q) >= 1
  BY LenProperties
<1>2. RemoveAt(q, 1) = SubSeq(q, 1, 0) \o SubSeq(q, 2, Len(q))
  BY <1>1 DEF RemoveAt
<1>3. SubSeq(q, 1, 0) = <<>>
  BY SubSeqProperties
<1>4. /\ SubSeq(q, 2, Len(q)) \in Seq(S)
      /\ Len(SubSeq(q, 2, Len(q))) = Len(q) - 1
      /\ \A k \in 1 .. Len(q) - 1 : SubSeq(q, 2, Len(q))[k] = q[k + 1]
  <2>1. \A j \in 1 .. Len(q) : q[j] \in S
    BY ElementOfSeq
  <2> DEFINE tail == SubSeq(q, 2, Len(q))
  <2>2. /\ tail \in Seq(S)
        /\ Len(tail) = IF 2 <= Len(q) THEN Len(q) - 2 + 1 ELSE 0
        /\ \A k \in 1 .. Len(q) - 2 + 1 : tail[k] = q[2 + k - 1]
    BY <1>1, <2>1, SubSeqProperties
  <2> HIDE DEF tail
  <2>3. Len(tail) = Len(q) - 1
    <3>1. \A n \in Nat : n >= 1 => (IF 2 <= n THEN n - 2 + 1 ELSE 0) = n - 1
      OBVIOUS
    <3>2. (IF 2 <= Len(q) THEN Len(q) - 2 + 1 ELSE 0) = Len(q) - 1
      BY <1>1, <3>1, Zenon
    <3> QED  BY <2>2, <3>2
  <2>4. ASSUME NEW k \in 1 .. Len(q) - 1
        PROVE  tail[k] = q[k + 1]
    <3>1. k \in 1 .. Len(q) - 2 + 1 /\ 2 + k - 1 = k + 1
      BY <1>1
    <3>2. tail[k] = q[2 + k - 1]
      BY <2>2, <3>1
    <3> QED  BY <3>1, <3>2
  <2> QED  BY <2>2, <2>3, <2>4 DEF tail
<1> QED  BY <1>1, <1>2, <1>3, <1>4, ConcatProperties DEF Taken

\* Append puts a packet at the end, and so does sending just one.
LEMMA EndPut ==
  ASSUME NEW S, NEW q \in Seq(S), NEW m \in S
  PROVE  Put(q, m, Append(q, m)) /\ Put(q, m, q \o <<m>>)
<1>1. Len(q) \in Nat
  BY LenProperties
<1>2. Put(q, m, Append(q, m))
  BY <1>1, AppendProperties DEF Put
<1>3. <<m>> \in Seq(S) /\ Len(<<m>>) = 1 /\ <<m>>[1] = m
  OBVIOUS
<1>4. /\ Len(q \o <<m>>) = Len(q) + 1
      /\ \A k \in 1 .. Len(q) : (q \o <<m>>)[k] = q[k]
      /\ (q \o <<m>>)[Len(q) + 1] = m
  BY <1>1, <1>3, ConcatProperties
<1> QED  BY <1>1, <1>2, <1>4 DEF Put

\* What is true of all packets stays true of the rest.
LEMMA TakenOnly ==
  ASSUME NEW q, NEW rest, NEW T, Taken(q, rest), Only(q, T)
  PROVE  Only(rest, T) /\ q[1].type \in T
BY DEF Taken, Only

\* Where no packet of some types follows.
LEMMA TakenNone ==
  ASSUME NEW q, NEW rest, NEW T, Taken(q, rest)
  PROVE  /\ \A k \in 0 .. Len(rest) :
              NoneAfter(rest, k, T) <=> NoneAfter(q, k + 1, T)
         /\ NoneAfter(q, 0, T) <=>
              NoneAfter(rest, 0, T) /\ q[1].type \notin T
<1>1. ASSUME NEW k \in 0 .. Len(rest)
      PROVE  NoneAfter(rest, k, T) <=> NoneAfter(q, k + 1, T)
  <2>1. ASSUME NoneAfter(rest, k, T), NEW j \in k + 2 .. Len(q)
        PROVE  q[j].type \notin T
    <3>1. j - 1 \in k + 1 .. Len(rest) /\ rest[j - 1] = q[j]
      BY <2>1 DEF Taken
    <3> QED  BY <2>1, <3>1 DEF NoneAfter
  <2>2. ASSUME NoneAfter(q, k + 1, T), NEW j \in k + 1 .. Len(rest)
        PROVE  rest[j].type \notin T
    BY <2>2 DEF NoneAfter, Taken
  <2> QED  BY <2>1, <2>2 DEF NoneAfter
<1>2. NoneAfter(q, 0, T) <=> NoneAfter(q, 1, T) /\ q[1].type \notin T
  BY DEF NoneAfter, Taken
<1> QED  BY <1>1, <1>2 DEF Taken

\* The same for a packet put at the end.
LEMMA PutOnly ==
  ASSUME NEW q, NEW m, NEW more, NEW T, Put(q, m, more)
  PROVE  Only(more, T) <=> Only(q, T) /\ m.type \in T
<1>1. ASSUME Only(q, T), m.type \in T, NEW k \in 1 .. Len(more)
      PROVE  more[k].type \in T
  BY <1>1 DEF Put, Only
<1>2. ASSUME Only(more, T)
      PROVE  Only(q, T) /\ m.type \in T
  BY <1>2 DEF Put, Only
<1> QED  BY <1>1, <1>2 DEF Only

\* Types not met after a place in a queue are not met in the longer one, when
\* the packet put behind is of none of them.
LEMMA PutNone ==
  ASSUME NEW q, NEW m, NEW more, NEW T, Put(q, m, more)
  PROVE  /\ \A k \in 0 .. Len(q) :
              NoneAfter(more, k, T) <=> NoneAfter(q, k, T) /\ m.type \notin T
         /\ NoneAfter(more, Len(more), T)
<1>1. ASSUME NEW k \in 0 .. Len(q)
      PROVE  NoneAfter(more, k, T) <=> NoneAfter(q, k, T) /\ m.type \notin T
  <2>1. ASSUME NoneAfter(more, k, T)
        PROVE  NoneAfter(q, k, T) /\ m.type \notin T
    BY <2>1 DEF NoneAfter, Put
  <2>2. ASSUME NoneAfter(q, k, T), m.type \notin T, NEW j \in k + 1 .. Len(more)
        PROVE  more[j].type \notin T
    BY <2>2 DEF NoneAfter, Put
  <2> QED  BY <2>1, <2>2 DEF NoneAfter
<1>2. NoneAfter(more, Len(more), T)
  BY DEF NoneAfter, Put
<1> QED  BY <1>1, <1>2

-----------------------------------------------------------------------------
(* Types, and the tables of message types.                                  *)

\* What the inductive invariant of ReplFsProofs says of types.
LEMMA Typing ==
  ASSUME IInv
  PROVE  /\ toServer \in [Server -> Seq(ClientMsg)]
         /\ toClient \in [Server -> Seq(ServerMsg)]
         /\ up \in [Server -> BOOLEAN]
         /\ fileFullname \in [Server -> File \cup {NoFile}]
         /\ updateMap \in [Server -> UpdateMap]
         /\ nextUpdateId \in [Server -> 0 .. MaxUpdates]
         /\ backup \in [Server -> Content \cup {NoFile}]
         /\ fp \in [Server -> File \cup {NoFile, Dangling}]
         /\ disk \in [Server -> [File -> Content \cup {Absent}]]
         /\ op \in Op
         /\ serverIds \subseteq Server
         /\ recvServerId \subseteq serverIds
         /\ recvServerUpdateId \in [Server -> -1 .. MaxUpdates]
         /\ isFileOpen \in BOOLEAN
         /\ fileName \in File \cup {NoFile}
         /\ clientUpdateMap \in UpdateMap
         /\ updateId \in 0 .. MaxUpdates
         /\ clients \in 0 .. MaxClients
         /\ promised \in [File -> Content \cup {Absent}]
         /\ inDoubt \subseteq File
BY DEF IInv, ServerInv, NetTypeOK, ServerTypeOK, ClientInv, ClientTypeOK,
       SelectionHolds

\* The numbers among them.
LEMMA Numbers ==
  ASSUME IInv
  PROVE  /\ MaxUpdates \in Nat \ {0}
         /\ updateId \in Nat /\ updateId <= MaxUpdates
         /\ \A s \in Server : nextUpdateId[s] \in Nat
         /\ \A s \in Server : Len(toServer[s]) \in Nat /\ Len(toClient[s]) \in Nat
         /\ Target \in Nat /\ Target <= MaxUpdates
<1>1. updateId \in Nat /\ updateId <= MaxUpdates /\ MaxUpdates \in Nat \ {0}
  BY Typing, DataAssumption
<1>2. Target \in Nat /\ Target <= MaxUpdates
  BY <1>1 DEF Target
<1>3. \A s \in Server : nextUpdateId[s] \in Nat
  BY Typing, DataAssumption
<1>4. \A s \in Server : Len(toServer[s]) \in Nat /\ Len(toClient[s]) \in Nat
  BY Typing, LenProperties
<1> QED  BY <1>1, <1>2, <1>3, <1>4

\* What each operation sends and waits for.
LEMMA MsgTypes ==
  /\ MsgType["init"] = "INIT" /\ MsgType["open"] = "OPENFILE"
  /\ MsgType["vote"] = "VOTE" /\ MsgType["commit"] = "COMMIT"
  /\ MsgType["abort"] = "ABORT" /\ MsgType["close"] = "CLOSE"
  /\ MsgType["close2"] = "CLOSE"
BY DEF MsgType

\* AckType, entry by entry.
LEMMA AckTypes ==
  /\ AckType["init"] = "INITACK" /\ AckType["open"] = "OPENFILEACK"
  /\ AckType["vote"] = "VOTEACK" /\ AckType["commit"] = "COMMITACK"
  /\ AckType["abort"] = "ABORTACK" /\ AckType["close"] = "CLOSEACK"
  /\ AckType["close2"] = "CLOSEACK"
BY DEF AckType

\* An answer of type a belongs to messages of type m.
Pair(m, a) ==
  \/ m = "INIT" /\ a = "INITACK"
  \/ m = "OPENFILE" /\ a = "OPENFILEACK"
  \/ m = "VOTE" /\ a = "VOTEACK"
  \/ m = "COMMIT" /\ a = "COMMITACK"
  \/ m = "ABORT" /\ a = "ABORTACK"
  \/ m = "CLOSE" /\ a = "CLOSEACK"

\* The answer to an operation's message, and no other, is its answer.
LEMMA Pairs ==
  ASSUME NEW m, NEW a, Pair(m, a), NEW o \in Op, o # "idle"
  PROVE  /\ m = MsgType[o] <=> a = AckType[o]
         /\ m # "WRITEBLOCK"
         /\ m \in Follow(o) => m = MsgType[o]
BY MsgTypes, AckTypes DEF Pair, Op, Follow

-----------------------------------------------------------------------------
(* What a server step does to the channels.                                 *)

\* A handler that answers.
LEMMA Replied ==
  ASSUME IInv, ReorderWindow = 1, NEW s \in Server, NEW i \in 1 .. Len(toServer[s]),
         NEW type, NEW ack \in ServerMsg, Receives(s, i, type), Reply(s, i, ack)
  PROVE  /\ i = 1 /\ toServer[s][1].type = type
         /\ up[s] /\ UNCHANGED up
         /\ Taken(toServer[s], toServer'[s])
         /\ Put(toClient[s], ack, toClient'[s])
         /\ \A t \in Server : t # s =>
              toServer'[t] = toServer[t] /\ toClient'[t] = toClient[t]
<1>1. i = 1 /\ up[s] /\ UNCHANGED up /\ toServer[s][i].type = type
  BY DEF Receives, Deliverable
<1>2. toServer'[s] = RemoveAt(toServer[s], 1)
      /\ \A t \in Server : t # s => toServer'[t] = toServer[t]
  BY <1>1, Typing DEF Reply, Without
<1>3. toClient'[s] = Append(toClient[s], ack)
      /\ \A t \in Server : t # s => toClient'[t] = toClient[t]
  BY Typing DEF Reply
<1>4. Taken(toServer[s], toServer'[s])
  BY <1>1, <1>2, Typing, HeadTaken
<1>5. Put(toClient[s], ack, toClient'[s])
  <2>1. toClient[s] \in Seq(ServerMsg)
    BY Typing
  <2> QED  BY <1>3, <2>1, EndPut
<1> QED  BY <1>1, <1>2, <1>3, <1>4, <1>5

\* A handler that does not.
LEMMA Consumed ==
  ASSUME IInv, ReorderWindow = 1, NEW s \in Server, NEW i \in 1 .. Len(toServer[s]),
         NEW type, Receives(s, i, type), Consume(s, i)
  PROVE  /\ i = 1 /\ toServer[s][1].type = type
         /\ up[s] /\ UNCHANGED up
         /\ Taken(toServer[s], toServer'[s])
         /\ UNCHANGED toClient
         /\ \A t \in Server : t # s => toServer'[t] = toServer[t]
<1>1. i = 1 /\ up[s] /\ UNCHANGED up /\ toServer[s][i].type = type
  BY DEF Receives, Deliverable
<1>2. toServer'[s] = RemoveAt(toServer[s], 1)
      /\ \A t \in Server : t # s => toServer'[t] = toServer[t]
  BY <1>1, Typing DEF Consume, Without
<1>3. Taken(toServer[s], toServer'[s])
  BY <1>1, <1>2, Typing, HeadTaken
<1> QED  BY <1>1, <1>2, <1>3 DEF Consume

-----------------------------------------------------------------------------
(* The channels of the server that reads a packet.                          *)

\* Reading a message and answering it keeps both channels in order.
LEMMA ReplyInOrder ==
  ASSUME IInv, NEW s \in Server, InOrder(s), UNCHANGED clientVars,
         NEW ack, Pair(toServer[s][1].type, ack.type),
         Taken(toServer[s], toServer'[s]), Put(toClient[s], ack, toClient'[s])
  PROVE  InOrder(s)'
<1> DEFINE Q == toServer[s]
           R == toClient[s]
           Qn == toServer'[s]
           Rn == toClient'[s]
<1>0. op' = op /\ recvServerId' = recvServerId
  BY DEF clientVars, callVars
<1> SUFFICES ASSUME op # "idle" PROVE InOrder(s)'
  BY <1>0 DEF InOrder
<1> HIDE DEF Q, R, Qn, Rn
<1>1. op \in Op
  BY Typing
<1> DEFINE ackType == AckType[op]
           msgType == MsgType[op]
           follow == Follow(op)
<1>2. /\ \A k \in 1 .. Len(R) : R[k].type = ackType =>
           (\A j \in k .. Len(R) : R[j].type = ackType) /\ Only(Q, follow)
      /\ \A k \in 1 .. Len(Q) : Q[k].type = msgType =>
           \A j \in k .. Len(Q) : Q[j].type \in follow
      /\ s \in recvServerId => Only(R, {ackType}) /\ Only(Q, follow)
  BY DEF InOrder, Settled, Q, R
<1>3. /\ Q[1].type = msgType <=> ack.type = ackType
      /\ Q[1].type \in follow => Q[1].type = msgType
  BY <1>1, Pairs DEF Q
<1> HIDE DEF ackType, msgType, follow
<1>4. Taken(Q, Qn) /\ Put(R, ack, Rn)
  BY DEF Q, R, Qn, Rn
<1>5. ASSUME Only(Q, follow) PROVE Only(Qn, follow) /\ ack.type = ackType
  BY <1>3, <1>4, <1>5, TakenOnly
<1>6. ASSUME NEW k \in 1 .. Len(Rn), Rn[k].type = ackType
      PROVE  (\A j \in k .. Len(Rn) : Rn[j].type = ackType) /\ Only(Qn, follow)
  <2>1. CASE k \in 1 .. Len(R)
    <3>1. R[k].type = ackType
      BY <1>4, <1>6, <2>1 DEF Put
    <3>2. (\A j \in k .. Len(R) : R[j].type = ackType) /\ Only(Q, follow)
      BY <1>2, <2>1, <3>1
    <3>3. Only(Qn, follow) /\ ack.type = ackType
      BY <1>5, <3>2
    <3> QED  BY <1>4, <2>1, <3>2, <3>3 DEF Put
  <2>2. CASE k = Len(R) + 1
    <3>1. Rn[k] = ack /\ k .. Len(Rn) = {k}
      BY <1>4, <2>2 DEF Put
    <3>2. Q[1].type = msgType /\ 1 \in 1 .. Len(Q)
      BY <1>3, <1>4, <1>6, <3>1 DEF Taken
    <3>3. Only(Q, follow)
      BY <1>2, <3>2 DEF Only
    <3> QED  BY <1>5, <1>6, <3>1, <3>3
  <2> QED  BY <1>4, <2>1, <2>2 DEF Put
<1>7. ASSUME NEW k \in 1 .. Len(Qn), Qn[k].type = msgType,
             NEW j \in k .. Len(Qn)
      PROVE  Qn[j].type \in follow
  <2>1. k + 1 \in 1 .. Len(Q) /\ j + 1 \in k + 1 .. Len(Q)
        /\ Qn[k] = Q[k + 1] /\ Qn[j] = Q[j + 1]
    BY <1>4 DEF Taken
  <2> QED  BY <1>2, <1>7, <2>1
<1>8. s \in recvServerId => Only(Rn, {ackType}) /\ Only(Qn, follow)
  BY <1>2, <1>4, <1>5, PutOnly
<1> QED  BY <1>0, <1>6, <1>7, <1>8
         DEF InOrder, Settled, ackType, msgType, follow, Qn, Rn

\* The same when it answers nothing.
LEMMA ConsumeInOrder ==
  ASSUME IInv, NEW s \in Server, InOrder(s), UNCHANGED clientVars,
         Taken(toServer[s], toServer'[s]), UNCHANGED toClient
  PROVE  InOrder(s)'
<1> DEFINE Q == toServer[s]
           Qn == toServer'[s]
           follow == Follow(op)
<1>0. op' = op /\ recvServerId' = recvServerId
  BY DEF clientVars, callVars
<1> SUFFICES ASSUME op # "idle" PROVE InOrder(s)'
  BY <1>0 DEF InOrder
<1> HIDE DEF Q, Qn, follow
<1>1. Taken(Q, Qn)
  BY DEF Q, Qn
<1>2. ASSUME Only(Q, follow) PROVE Only(Qn, follow)
  BY <1>1, <1>2, TakenOnly
<1>3. /\ \A k \in 1 .. Len(toClient[s]) : toClient[s][k].type = AckType[op] =>
           /\ \A j \in k .. Len(toClient[s]) : toClient[s][j].type = AckType[op]
           /\ Only(Qn, follow)
      /\ s \in recvServerId =>
           Only(toClient[s], {AckType[op]}) /\ Only(Qn, follow)
  BY <1>2 DEF InOrder, Settled, Q, follow
<1>4. ASSUME NEW k \in 1 .. Len(Qn), Qn[k].type = MsgType[op],
             NEW j \in k .. Len(Qn)
      PROVE  Qn[j].type \in follow
  <2>1. k + 1 \in 1 .. Len(Q) /\ j + 1 \in k + 1 .. Len(Q)
        /\ Qn[k] = Q[k + 1] /\ Qn[j] = Q[j + 1]
    BY <1>1 DEF Taken
  <2>2. \A h \in 1 .. Len(Q) : Q[h].type = MsgType[op] =>
          \A l \in h .. Len(Q) : Q[l].type \in follow
    BY DEF InOrder, Q, follow
  <2> QED  BY <1>4, <2>1, <2>2
<1> QED  BY <1>0, <1>3, <1>4 DEF InOrder, Settled, Qn, follow

\* What Channels says besides the order.
LEMMA ReplyChannels ==
  ASSUME IInv, NEW s \in Server, Channels(s), UNCHANGED clientVars,
         NEW ack \in ServerMsg, Pair(toServer[s][1].type, ack.type),
         Taken(toServer[s], toServer'[s]), Put(toClient[s], ack, toClient'[s]),
         ack.type # "INITACK" => ack.fileDesc >= 0,
         op \in {"close", "close2"} /\ ack.type = "CLOSEACK" =>
           ack.fileDesc = IF updateId > 0 THEN 1 ELSE 0,
         op = "vote" /\ ack.type = "VOTEACK" => ack.updateId = updateId
  PROVE  Channels(s)'
<1>0. UNCHANGED <<op, isFileOpen, updateId>>
  BY DEF clientVars, callVars, fileVars, stagedVars
<1>1. InOrder(s)'
  BY ReplyInOrder DEF Channels
<1>2. Quiet(s)'
  <2> SUFFICES ASSUME op = "idle" PROVE Quiet(s)'
    BY <1>0 DEF Quiet
  <2>1. PICK o \in {"init", "open", "commit", "abort", "close"} :
          /\ o = "close" => ~isFileOpen
          /\ Only(toClient[s], {AckType[o]})
          /\ Only(toServer[s], {MsgType[o], "WRITEBLOCK"})
    BY DEF Channels, Quiet
  <2>2. Only(toServer'[s], {MsgType[o], "WRITEBLOCK"})
        /\ toServer[s][1].type \in {MsgType[o], "WRITEBLOCK"}
    BY <2>1, TakenOnly
  <2>3. ack.type = AckType[o]
    BY <2>2, Pairs DEF Op
  <2>4. Only(toClient'[s], {AckType[o]})
    BY <2>1, <2>3, PutOnly
  <2> QED  BY <1>0, <2>1, <2>2, <2>4 DEF Quiet
<1>3. NoOldVotes(s)'
  <2> SUFFICES ASSUME op \notin {"vote", "commit"} PROVE NoOldVotes(s)'
    BY <1>0 DEF NoOldVotes
  <2>1. \A k \in 1 .. Len(toServer'[s]) : toServer'[s][k].type # "VOTE"
    BY DEF Channels, NoOldVotes, Taken
  <2>2. ack.type # "VOTEACK"
    BY DEF Channels, NoOldVotes, Taken, Pair
  <2>3. \A k \in 1 .. Len(toClient'[s]) : toClient'[s][k].type # "VOTEACK"
    BY <2>2 DEF Channels, NoOldVotes, Put
  <2> QED  BY <2>1, <2>3 DEF NoOldVotes
<1>4. Answers(s)'
  <2> SUFFICES ASSUME NEW k \in 1 .. Len(toClient'[s])
               PROVE  LET m == toClient'[s][k]
                      IN  /\ m.type # "INITACK" => m.fileDesc >= 0
                          /\ op \in {"close", "close2"} /\ m.type = "CLOSEACK" =>
                               m.fileDesc = IF updateId > 0 THEN 1 ELSE 0
                          /\ op = "vote" /\ m.type = "VOTEACK" =>
                               m.updateId = updateId
    BY <1>0 DEF Answers
  <2>1. CASE k = Len(toClient[s]) + 1
    BY <2>1 DEF Put
  <2>2. CASE k \in 1 .. Len(toClient[s])
    BY <2>2 DEF Put, Channels, Answers
  <2> QED  BY <2>1, <2>2 DEF Put
<1> QED  BY <1>1, <1>2, <1>3, <1>4 DEF Channels

\* A server that reads a packet and answers nothing keeps the order of its channels.
LEMMA ConsumeChannels ==
  ASSUME IInv, NEW s \in Server, Channels(s), UNCHANGED clientVars,
         Taken(toServer[s], toServer'[s]), UNCHANGED toClient
  PROVE  Channels(s)'
<1>0. UNCHANGED <<op, isFileOpen, updateId>>
  BY DEF clientVars, callVars, fileVars, stagedVars
<1>1. InOrder(s)'
  BY ConsumeInOrder DEF Channels
<1>2. Quiet(s)'
  BY <1>0, TakenOnly DEF Channels, Quiet
<1>3. NoOldVotes(s)' /\ Answers(s)'
  BY <1>0 DEF Channels, NoOldVotes, Answers, Taken
<1> QED  BY <1>1, <1>2, <1>3 DEF Channels

\* The channels of a server that takes no step.
LEMMA ChannelsKept ==
  ASSUME NEW s, Channels(s), UNCHANGED clientVars,
         toServer'[s] = toServer[s], toClient'[s] = toClient[s]
  PROVE  Channels(s)'
<1>0. UNCHANGED <<op, isFileOpen, updateId, recvServerId>>
  BY DEF clientVars, callVars, fileVars, stagedVars
<1> QED  BY <1>0 DEF Channels, InOrder, Quiet, NoOldVotes, Answers, Settled, Only

\* What a server that dies leaves of its channels.
LEMMA ChannelsOfTheDead ==
  ASSUME NEW s, Channels(s), UNCHANGED clientVars,
         toServer'[s] = <<>>, toClient'[s] = toClient[s]
  PROVE  Channels(s)'
<1>0. UNCHANGED <<op, isFileOpen, updateId, recvServerId>>
  BY DEF clientVars, callVars, fileVars, stagedVars
<1>1. \A T : Only(toServer'[s], T)
  BY DEF Only
<1>2. InOrder(s)' /\ Quiet(s)'
  BY <1>0, <1>1 DEF Channels, InOrder, Quiet, Settled, Only
<1>3. NoOldVotes(s)' /\ Answers(s)'
  BY <1>0 DEF Channels, NoOldVotes, Answers
<1> QED  BY <1>2, <1>3 DEF Channels

-----------------------------------------------------------------------------
(* Updates: what a server does with its cache.                              *)

\* What is staged does not depend on the servers.
LEMMA StagedKept ==
  ASSUME UNCHANGED clientVars
  PROVE  /\ UNCHANGED <<op, updateId, clientUpdateMap>> /\ Target' = Target
         /\ \A id, u : Staged(id, u)' <=> Staged(id, u)
<1>1. UNCHANGED <<op, updateId, clientUpdateMap>>
  BY DEF clientVars, callVars, stagedVars
<1> QED  BY <1>1 DEF Target, Staged

\* Updates(s) said of a queue and a cache.
UpdatesIn(q, map) ==
  /\ \A k \in 1 .. Len(q) :
       q[k].type = "WRITEBLOCK" /\ NoneAfter(q, k, Clears) =>
         Staged(q[k].updateId, q[k].update)
  /\ NoneAfter(q, 0, Clears) => \A id \in Cached(map) : Staged(id, map[id])
  /\ \A id \in UpdateId : id < Target =>
       \/ NoneAfter(q, 0, Clears) /\ id \in Cached(map)
       \/ \E k \in 1 .. Len(q) :
            q[k].type = "WRITEBLOCK" /\ q[k].updateId = id /\ NoneAfter(q, k, Clears)

\* Updates(s) says UpdatesIn of the server's queue and cache, before a step and
\* after it.
LEMMA UpdatesSaid ==
  ASSUME UNCHANGED clientVars
  PROVE  \A s : /\ Updates(s) <=> UpdatesIn(toServer[s], updateMap[s])
                /\ Updates(s)' <=> UpdatesIn(toServer'[s], updateMap'[s])
BY StagedKept DEF Updates, UpdatesIn, NoneAfter, Cached

\* The updates still on their way when a packet has been read.
LEMMA UpdatesUnderWay ==
  ASSUME NEW q, NEW rest, NEW map, Taken(q, rest), UpdatesIn(q, map)
  PROVE  /\ \A k \in 1 .. Len(rest) :
              rest[k].type = "WRITEBLOCK" /\ NoneAfter(rest, k, Clears) =>
                Staged(rest[k].updateId, rest[k].update)
         /\ \A id \in UpdateId : id < Target =>
              \/ NoneAfter(q, 0, Clears) /\ id \in Cached(map)
              \/ /\ q[1].type = "WRITEBLOCK" /\ q[1].updateId = id
                 /\ NoneAfter(rest, 0, Clears)
              \/ \E k \in 1 .. Len(rest) :
                   rest[k].type = "WRITEBLOCK" /\ rest[k].updateId = id
                   /\ NoneAfter(rest, k, Clears)
<1>0. Len(q) \in Nat /\ Len(rest) = Len(q) - 1
      /\ \A k \in 1 .. Len(rest) : rest[k] = q[k + 1]
  BY DEF Taken
<1>1. \A k \in 0 .. Len(rest) : NoneAfter(rest, k, Clears) <=> NoneAfter(q, k + 1, Clears)
  BY TakenNone
<1>2. ASSUME NEW k \in 1 .. Len(rest),
             rest[k].type = "WRITEBLOCK", NoneAfter(rest, k, Clears)
      PROVE  Staged(rest[k].updateId, rest[k].update)
  <2>1. k + 1 \in 1 .. Len(q) /\ rest[k] = q[k + 1] /\ NoneAfter(q, k + 1, Clears)
    BY <1>0, <1>1, <1>2
  <2> QED  BY <1>2, <2>1 DEF UpdatesIn
<1>3. ASSUME NEW id \in UpdateId, id < Target,
             NEW k \in 1 .. Len(q), q[k].type = "WRITEBLOCK",
             q[k].updateId = id, NoneAfter(q, k, Clears)
      PROVE  \/ /\ q[1].type = "WRITEBLOCK" /\ q[1].updateId = id
                /\ NoneAfter(rest, 0, Clears)
             \/ \E j \in 1 .. Len(rest) :
                  rest[j].type = "WRITEBLOCK" /\ rest[j].updateId = id
                  /\ NoneAfter(rest, j, Clears)
  <2>1. CASE k = 1
    <3>1. 0 \in 0 .. Len(rest)
      BY <1>0, <2>1
    <3> QED  BY <1>1, <1>3, <2>1, <3>1
  <2>2. CASE k # 1
    <3>1. k - 1 \in 1 .. Len(rest) /\ rest[k - 1] = q[k]
          /\ NoneAfter(rest, k - 1, Clears)
      BY <1>0, <1>1, <1>3, <2>2
    <3> QED  BY <1>3, <3>1
  <2> QED  BY <2>1, <2>2
<1>4. ASSUME NEW id \in UpdateId, id < Target
      PROVE  \/ NoneAfter(q, 0, Clears) /\ id \in Cached(map)
             \/ \E k \in 1 .. Len(q) : q[k].type = "WRITEBLOCK"
                  /\ q[k].updateId = id /\ NoneAfter(q, k, Clears)
  BY <1>4 DEF UpdatesIn
<1> QED  BY <1>2, <1>3, <1>4

\* A packet that neither brings an update nor throws any out.
LEMMA UpdatesPassed ==
  ASSUME NEW q, NEW rest, NEW map, Taken(q, rest), UpdatesIn(q, map),
         q[1].type \notin Clears, q[1].type # "WRITEBLOCK"
  PROVE  UpdatesIn(rest, map)
<1>1. NoneAfter(q, 0, Clears) <=> NoneAfter(rest, 0, Clears)
  BY TakenNone
<1>2. ASSUME NEW id \in UpdateId, id < Target
      PROVE  \/ NoneAfter(rest, 0, Clears) /\ id \in Cached(map)
             \/ \E k \in 1 .. Len(rest) : rest[k].type = "WRITEBLOCK"
                  /\ rest[k].updateId = id /\ NoneAfter(rest, k, Clears)
  BY <1>1, <1>2, UpdatesUnderWay
<1>3. NoneAfter(rest, 0, Clears) => \A id \in Cached(map) : Staged(id, map[id])
  BY <1>1 DEF UpdatesIn
<1>4. \A k \in 1 .. Len(rest) :
        rest[k].type = "WRITEBLOCK" /\ NoneAfter(rest, k, Clears) =>
          Staged(rest[k].updateId, rest[k].update)
  BY UpdatesUnderWay
<1> QED  BY <1>2, <1>3, <1>4 DEF UpdatesIn

\* A Commit or an Abort.
LEMMA UpdatesThrownOut ==
  ASSUME NEW q, NEW rest, NEW map, Taken(q, rest), UpdatesIn(q, map),
         q[1].type \in Clears
  PROVE  UpdatesIn(rest, NoUpdates)
<1>1. ~NoneAfter(q, 0, Clears)
  BY TakenNone
<1>2. q[1].type # "WRITEBLOCK"
  BY DEF Clears
<1>3. Cached(NoUpdates) = {}
  BY NoUpdatesFacts
<1> QED  BY <1>1, <1>2, <1>3, UpdatesUnderWay DEF UpdatesIn

\* A block is inserted, or found in the cache already.
LEMMA UpdatesInserted ==
  ASSUME NEW q, NEW rest, NEW map \in UpdateMap, Taken(q, rest),
         UpdatesIn(q, map), q[1].type = "WRITEBLOCK",
         q[1].updateId \in UpdateId, q[1].update \in Update
  PROVE  UpdatesIn(rest, IF map[q[1].updateId] = NoUpdate
                           THEN [map EXCEPT ![q[1].updateId] = q[1].update]
                           ELSE map)
<1> DEFINE id == q[1].updateId
           u == q[1].update
           new == IF map[id] = NoUpdate THEN [map EXCEPT ![id] = u] ELSE map
<1>0. id \in UpdateId /\ u \in Update /\ u # NoUpdate
  BY DataAssumption DEF Update
<1>1. /\ NoneAfter(q, 0, Clears) <=> NoneAfter(rest, 0, Clears)
      /\ NoneAfter(q, 1, Clears) <=> NoneAfter(rest, 0, Clears)
      /\ 1 \in 1 .. Len(q)
  <2>1. q[1].type \notin Clears
    BY DEF Clears
  <2>2. 0 \in 0 .. Len(rest) /\ 1 \in 1 .. Len(q)
    BY DEF Taken
  <2> QED  BY <2>1, <2>2, TakenNone
<1>2. NoneAfter(rest, 0, Clears) => Staged(id, u)
  BY <1>1 DEF UpdatesIn
<1> HIDE DEF id, u
<1>3. /\ \A j \in UpdateId : new[j] = IF j = id /\ map[id] = NoUpdate THEN u ELSE map[j]
      /\ Cached(new) = Cached(map) \cup {id}
  <2>1. map \in [UpdateId -> Update \cup {NoUpdate}]
    BY DEF UpdateMap
  <2>2. \A j \in UpdateId : new[j] = IF j = id /\ map[id] = NoUpdate THEN u ELSE map[j]
    BY <1>0, <2>1
  <2> HIDE DEF new
  <2> QED  BY <1>0, <2>2 DEF Cached
<1> HIDE DEF new
<1>4. ASSUME NoneAfter(rest, 0, Clears), NEW j \in Cached(new)
      PROVE  Staged(j, new[j])
  <2>1. CASE j = id /\ map[id] = NoUpdate
    BY <1>0, <1>2, <1>3, <1>4, <2>1
  <2>2. CASE j \in Cached(map) /\ new[j] = map[j]
    BY <1>1, <1>4, <2>2 DEF UpdatesIn
  <2>3. j \in UpdateId /\ (j = id \/ j \in Cached(map))
    BY <1>0, <1>3, <1>4 DEF Cached
  <2> QED  BY <1>3, <2>1, <2>2, <2>3 DEF Cached
<1>5. \A j \in UpdateId : j < Target =>
        \/ NoneAfter(rest, 0, Clears) /\ j \in Cached(new)
        \/ \E k \in 1 .. Len(rest) :
             rest[k].type = "WRITEBLOCK" /\ rest[k].updateId = j
             /\ NoneAfter(rest, k, Clears)
  BY <1>1, <1>3, UpdatesUnderWay DEF id
<1>6. UpdatesIn(rest, new)
  BY <1>4, <1>5, UpdatesUnderWay DEF UpdatesIn
<1> QED  BY <1>6 DEF new, id, u

\* When all that was sent has been read but messages that change no cache,
\* the server has cached what the client has staged.
LEMMA AllCached ==
  ASSUME IInv, NEW s \in Server, Updates(s), op \notin {"commit", "abort"},
         Only(toServer[s], {"VOTE", "CLOSE", "INIT", "OPENFILE"})
  PROVE  updateMap[s] = clientUpdateMap
<1>1. NoneAfter(toServer[s], 0, Clears)
  BY DEF Only, NoneAfter, Clears
<1>2. Target = updateId
  BY DEF Target
<1>3. \A id \in UpdateId : id < updateId => id \in Cached(updateMap[s])
  BY <1>2 DEF Updates, Only
<1>4. \A id \in Cached(updateMap[s]) :
        id < updateId /\ updateMap[s][id] = clientUpdateMap[id]
  BY <1>1, <1>2 DEF Updates, Staged
<1>5. ASSUME NEW id \in UpdateId
      PROVE  updateMap[s][id] = clientUpdateMap[id]
  <2>1. CASE id < updateId
    BY <1>3, <1>4, <2>1
  <2>2. CASE ~(id < updateId)
    <3>1. id \notin 0 .. updateId - 1
      BY <2>2, Numbers DEF UpdateId
    <3>2. clientUpdateMap[id] = NoUpdate
      BY <3>1 DEF IInv, ClientInv, ClientMapComplete, Cached
    <3>3. updateMap[s][id] = NoUpdate
      BY <1>4, <2>2 DEF Cached
    <3> QED  BY <3>2, <3>3
  <2> QED  BY <2>1, <2>2
<1>6. updateMap[s] \in UpdateMap /\ clientUpdateMap \in UpdateMap
  BY Typing
<1> QED  BY <1>5, <1>6 DEF UpdateMap

\* A vote then counts them all.
LEMMA AllCounted ==
  ASSUME IInv, NEW s \in Server, updateMap[s] = clientUpdateMap,
         NEW n \in nextUpdateId[s] .. MaxUpdates, ScanStopsAt(s, n)
  PROVE  n = updateId
<1>0. n \in Nat /\ nextUpdateId[s] \in Nat /\ n <= MaxUpdates
      /\ nextUpdateId[s] <= n
  BY Numbers
<1>1. \A id \in UpdateId : clientUpdateMap[id] # NoUpdate <=> id < updateId
  BY Numbers DEF IInv, ClientInv, ClientMapComplete, Cached, UpdateId
<1>2. ASSUME n < updateId PROVE FALSE
  <2>1. n < MaxUpdates /\ n \in UpdateId
    BY <1>0, <1>2, Numbers DEF UpdateId
  <2> QED  BY <1>1, <1>2, <2>1 DEF ScanStopsAt
<1>3. ASSUME n > updateId PROVE FALSE
  <2>1. updateId \in UpdateId /\ clientUpdateMap[updateId] = NoUpdate
    BY <1>0, <1>1, <1>3, Numbers DEF UpdateId
  <2>2. CASE updateId < nextUpdateId[s]
    BY <2>1, <2>2 DEF IInv, ServerInv, ServerPrefix, HasPrefix
  <2>3. CASE ~(updateId < nextUpdateId[s])
    <3>1. updateId \in nextUpdateId[s] .. n - 1
      BY <1>0, <1>3, <2>3, Numbers
    <3> QED  BY <2>1, <3>1 DEF ScanStopsAt
  <2> QED  BY <2>2, <2>3
<1> QED  BY <1>0, <1>2, <1>3, Numbers

-----------------------------------------------------------------------------
(* What a replica holds, seen by a step of a server.                        *)

\* What Holds says of the client stays the same.
LEMMA ClientSame ==
  ASSUME UNCHANGED clientVars
  PROVE  UNCHANGED <<op, recvServerId, serverIds, isFileOpen, fileName,
                     clientUpdateMap, updateId, promised, inDoubt, clients, After>>
<1>1. UNCHANGED <<op, recvServerId, serverIds, isFileOpen, fileName,
                  clientUpdateMap, updateId, promised, inDoubt, clients>>
  BY DEF clientVars, callVars, fileVars, stagedVars, promiseVars, bookVars
<1> QED  BY <1>1 DEF After

\* A server that takes no step holds what it held.
LEMMA HoldsKept ==
  ASSUME NEW s, Holds(s), UNCHANGED clientVars,
         toServer'[s] = toServer[s], toClient'[s] = toClient[s],
         fileFullname'[s] = fileFullname[s], updateMap'[s] = updateMap[s],
         nextUpdateId'[s] = nextUpdateId[s], fp'[s] = fp[s], disk'[s] = disk[s]
  PROVE  Holds(s)'
<1>1. Updates(s)'
  BY UpdatesSaid DEF Holds
<1>2. Named(s)'
  BY ClientSame DEF Holds, Named, NoneAfter
<1>3. Voting(s)' /\ Closing(s)'
  BY ClientSame DEF Holds, Voting, Closing, Answered, Only
<1>4. Committing(s)'
  BY ClientSame DEF Holds, Committing, Answered, Only, CarriedOut, Cached
<1>5. CommitsLeft(s)' /\ OnDisk(s)'
  BY ClientSame DEF Holds, CommitsLeft, OnDisk, CarriedOut, Cached
<1> QED  BY <1>1, <1>2, <1>3, <1>4, <1>5 DEF Holds

\* A server has answered if it had before or does so now.
LEMMA AnsweredNow ==
  ASSUME NEW s, NEW ack, UNCHANGED clientVars, Put(toClient[s], ack, toClient'[s])
  PROVE  \A a : Answered(s, a)' => Answered(s, a) \/ ack.type = a
BY ClientSame DEF Answered, Put

\* Who has answered has nothing else to read.
LEMMA AnsweredLast ==
  ASSUME NEW s, InOrder(s), op # "idle", Answered(s, AckType[op])
  PROVE  Only(toServer[s], Follow(op))
BY DEF InOrder, Answered, Settled

\* A packet that names no file.
LEMMA NamedPassed ==
  ASSUME NEW s, Named(s), UNCHANGED clientVars, Taken(toServer[s], toServer'[s]),
         toServer[s][1].type # "OPENFILE", fileFullname'[s] = fileFullname[s]
  PROVE  Named(s)'
<1>0. fileName' = fileName
  BY ClientSame
<1>1. /\ NoneAfter(toServer[s], 0, {"OPENFILE"})
           <=> NoneAfter(toServer'[s], 0, {"OPENFILE"})
      /\ \A k \in 0 .. Len(toServer'[s]) :
           NoneAfter(toServer'[s], k, {"OPENFILE"})
             <=> NoneAfter(toServer[s], k + 1, {"OPENFILE"})
  BY TakenNone
<1>2. NoneAfter(toServer'[s], 0, {"OPENFILE"}) => fileFullname'[s] = fileName
  BY <1>1 DEF Named
<1>3. ASSUME NEW k \in 1 .. Len(toServer'[s]), toServer'[s][k].type = "OPENFILE",
             NoneAfter(toServer'[s], k, {"OPENFILE"})
      PROVE  toServer'[s][k].filename = fileName
  <2>1. /\ k + 1 \in 1 .. Len(toServer[s]) /\ k \in 0 .. Len(toServer'[s])
        /\ toServer'[s][k] = toServer[s][k + 1]
    BY DEF Taken
  <2> QED  BY <1>1, <1>3, <2>1 DEF Named
<1> QED  BY <1>0, <1>2, <1>3 DEF Named

\* OpenFile: if it is the last one under way, it names the current file.
LEMMA NamedNow ==
  ASSUME NEW s, Named(s), UNCHANGED clientVars, Taken(toServer[s], toServer'[s]),
         toServer[s][1].type = "OPENFILE",
         fileFullname'[s] = toServer[s][1].filename
  PROVE  Named(s)'
<1>0. fileName' = fileName
  BY ClientSame
<1>1. \A k \in 0 .. Len(toServer'[s]) :
        NoneAfter(toServer'[s], k, {"OPENFILE"})
          <=> NoneAfter(toServer[s], k + 1, {"OPENFILE"})
  BY TakenNone
<1>2. NoneAfter(toServer'[s], 0, {"OPENFILE"}) => fileFullname'[s] = fileName
  <2>1. 0 \in 0 .. Len(toServer'[s]) /\ 1 \in 1 .. Len(toServer[s])
    BY DEF Taken
  <2> QED  BY <1>1, <2>1 DEF Named
<1>3. ASSUME NEW k \in 1 .. Len(toServer'[s]), toServer'[s][k].type = "OPENFILE",
             NoneAfter(toServer'[s], k, {"OPENFILE"})
      PROVE  toServer'[s][k].filename = fileName
  <2>1. /\ k + 1 \in 1 .. Len(toServer[s]) /\ k \in 0 .. Len(toServer'[s])
        /\ toServer'[s][k] = toServer[s][k + 1]
    BY DEF Taken
  <2> QED  BY <1>1, <1>3, <2>1 DEF Named
<1> QED  BY <1>0, <1>2, <1>3 DEF Named

\* A packet that is no Commit has no Commit behind it when none is awaited.
LEMMA CommitsPassed ==
  ASSUME NEW s, CommitsLeft(s), UNCHANGED clientVars,
         Taken(toServer[s], toServer'[s]), toServer[s][1].type # "COMMIT"
  PROVE  CommitsLeft(s)'
<1> SUFFICES ASSUME op # "commit", NEW k \in 1 .. Len(toServer'[s]),
                    toServer'[s][k].type = "COMMIT"
             PROVE  FALSE
  BY ClientSame DEF CommitsLeft
<1>1. k + 1 \in 1 .. Len(toServer[s]) /\ 1 \in 1 .. k + 1
      /\ toServer[s][k + 1].type = "COMMIT"
  BY DEF Taken
<1> QED  BY <1>1 DEF CommitsLeft

\* A packet that is not part of a commit phase, read by a handler that leaves
\* file and count alone.
LEMMA PassedHolds ==
  ASSUME IInv, NEW s \in Server, Holds(s), UNCHANGED clientVars,
         Taken(toServer[s], toServer'[s]),
         toServer[s][1].type \notin {"VOTE", "COMMIT", "ABORT"},
         Updates(s)', Named(s)',
         nextUpdateId'[s] = nextUpdateId[s], disk'[s] = disk[s],
         Answered(s, "VOTEACK")' => Answered(s, "VOTEACK"),
         Closing(s)'
  PROVE  Holds(s)'
<1>1. op # "commit" /\ op' = op
  <2>1. toServer[s][1].type \notin {"VOTE", "COMMIT"} /\ 1 \in 1 .. Len(toServer[s])
    BY DEF Taken
  <2> QED  BY <2>1, ClientSame DEF Holds, Committing, Only
<1>2. Voting(s)'
  BY ClientSame DEF Holds, Voting
<1>3. Committing(s)'
  BY <1>1 DEF Committing
<1>4. CommitsLeft(s)'
  BY CommitsPassed DEF Holds
<1>5. OnDisk(s)'
  BY ClientSame DEF Holds, OnDisk
<1> QED  BY <1>2, <1>3, <1>4, <1>5 DEF Holds

\* Nor a packet that is not a Close, read without touching the open file.
LEMMA ClosingPassed ==
  ASSUME NEW s, Closing(s), UNCHANGED clientVars,
         Taken(toServer[s], toServer'[s]), fp'[s] = fp[s],
         Answered(s, "CLOSEACK")' => Answered(s, "CLOSEACK")
  PROVE  Closing(s)'
BY ClientSame, TakenOnly DEF Closing

-----------------------------------------------------------------------------
(* The handlers.                                                            *)

\* What is said of the server that reads.
ReplicaKept(s) == Channels(s)' /\ (Holds(s) => Holds(s)')

\* procInitMessage changes nothing but the channels: a repeated INIT is harmless
\* to a replica in use.
LEMMA ProcInitKeeps ==
  ASSUME IInv, Dependable, NEW s \in Server, NEW i \in 1 .. Len(toServer[s]),
         Channels(s), ProcInitMessage(s, i), UNCHANGED clientVars
  PROVE  ReplicaKept(s)
<1> DEFINE ack == Plain("INITACK")
<1>0. ack \in ServerMsg /\ ack.type = "INITACK"
  BY BuiltMessages DEF Plain
<1> HIDE DEF ack
<1>1. /\ toServer[s][1].type = "INIT"
      /\ Taken(toServer[s], toServer'[s]) /\ Put(toClient[s], ack, toClient'[s])
  BY <1>0, Replied DEF ProcInitMessage, ack, Dependable
<1>2. Channels(s)'
  BY <1>0, <1>1, ReplyChannels DEF Pair
<1>3. ASSUME Holds(s) PROVE Holds(s)'
  <2>1. UNCHANGED <<fileFullname, updateMap, nextUpdateId, fp, disk>>
    BY DEF ProcInitMessage, serverVars, memoryVars
  <2>2. Updates(s)'
    BY <1>1, <1>3, <2>1, UpdatesSaid, UpdatesPassed DEF Holds, Clears
  <2>3. Named(s)' /\ Closing(s)'
    BY <1>0, <1>1, <1>3, <2>1, NamedPassed, ClosingPassed, AnsweredNow DEF Holds
  <2> QED  BY <1>0, <1>1, <1>3, <2>1, <2>2, <2>3, PassedHolds, AnsweredNow
<1> QED  BY <1>2, <1>3 DEF ReplicaKept

\* procOpenFileMessage takes the name; a late copy of an OPENFILE names the same file.
LEMMA ProcOpenFileKeeps ==
  ASSUME IInv, Dependable, NEW s \in Server, NEW i \in 1 .. Len(toServer[s]),
         Channels(s), ProcOpenFileMessage(s, i), UNCHANGED clientVars
  PROVE  ReplicaKept(s)
<1> DEFINE ack == Ack("OPENFILEACK", 0)
<1>0. ack \in ServerMsg /\ ack.type = "OPENFILEACK" /\ ack.fileDesc = 0
  BY BuiltMessages DEF Ack
<1> HIDE DEF ack
<1>1. /\ i = 1 /\ toServer[s][1].type = "OPENFILE"
      /\ Taken(toServer[s], toServer'[s]) /\ Put(toClient[s], ack, toClient'[s])
  BY <1>0, Replied DEF ProcOpenFileMessage, ack, Dependable
<1>2. Channels(s)'
  BY <1>0, <1>1, ReplyChannels DEF Pair
<1>3. ASSUME Holds(s) PROVE Holds(s)'
  <2>1. UNCHANGED <<updateMap, nextUpdateId, fp, disk>>
        /\ fileFullname'[s] = toServer[s][1].filename
    BY <1>1, Typing DEF ProcOpenFileMessage
  <2>2. Updates(s)'
    BY <1>1, <1>3, <2>1, UpdatesSaid, UpdatesPassed DEF Holds, Clears
  <2>3. Named(s)' /\ Closing(s)'
    BY <1>0, <1>1, <1>3, <2>1, NamedNow, ClosingPassed, AnsweredNow DEF Holds
  <2> QED  BY <1>0, <1>1, <1>3, <2>1, <2>2, <2>3, PassedHolds, AnsweredNow
<1> QED  BY <1>2, <1>3 DEF ReplicaKept

\* procWriteBlockMessage: the block read is the client's own under that id, so
\* insert, which keeps the first, caches what the client has staged.
LEMMA ProcWriteBlockKeeps ==
  ASSUME IInv, Dependable, NEW s \in Server, NEW i \in 1 .. Len(toServer[s]),
         Channels(s), ProcWriteBlockMessage(s, i), UNCHANGED clientVars
  PROVE  ReplicaKept(s)
<1>1. /\ i = 1 /\ toServer[s][1].type = "WRITEBLOCK"
      /\ Taken(toServer[s], toServer'[s]) /\ UNCHANGED toClient
  BY Consumed DEF ProcWriteBlockMessage, Dependable
<1>2. Channels(s)'
  BY <1>1, ConsumeChannels
<1>3. ASSUME Holds(s) PROVE Holds(s)'
  <2> DEFINE m == toServer[s][1]
  <2>1. UNCHANGED <<fileFullname, nextUpdateId, fp, disk>>
    BY DEF ProcWriteBlockMessage
  <2>2. m.updateId \in UpdateId /\ m.update \in Update
    BY <1>1, ReceivedType, WriteBlockFields DEF IInv, ServerInv
  <2>3. updateMap[s] \in UpdateMap /\ updateMap \in [Server -> UpdateMap]
    BY Typing
  <2>4. updateMap'[s] = IF updateMap[s][m.updateId] = NoUpdate
                          THEN [updateMap[s] EXCEPT ![m.updateId] = m.update]
                          ELSE updateMap[s]
    BY <1>1, <2>3 DEF ProcWriteBlockMessage
  <2>5. UpdatesIn(toServer[s], updateMap[s])
    BY <1>3, UpdatesSaid DEF Holds
  <2>6. UpdatesIn(toServer'[s], updateMap'[s])
    <3>1. UpdatesIn(toServer'[s],
                    IF updateMap[s][m.updateId] = NoUpdate
                      THEN [updateMap[s] EXCEPT ![m.updateId] = m.update]
                      ELSE updateMap[s])
      BY <1>1, <2>2, <2>3, <2>5, UpdatesInserted
    <3> QED  BY <2>4, <3>1
  <2>7. Updates(s)'
    BY <2>6, UpdatesSaid
  <2>8. \A a : Answered(s, a)' => Answered(s, a)
    BY <1>1, ClientSame DEF Answered
  <2>9. Named(s)' /\ Closing(s)'
    BY <1>1, <1>3, <2>1, <2>8, NamedPassed, ClosingPassed DEF Holds
  <2> QED  BY <1>1, <1>3, <2>1, <2>7, <2>8, <2>9, PassedHolds
<1> QED  BY <1>2, <1>3 DEF ReplicaKept

\* A vote read in the vote phase counts every staged update.
LEMMA VoteCountsAll ==
  ASSUME IInv, NEW s \in Server, InOrder(s), Holds(s), op = "vote",
         toServer[s][1].type = "VOTE", 1 \in 1 .. Len(toServer[s]),
         NEW n \in nextUpdateId[s] .. MaxUpdates, ScanStopsAt(s, n)
  PROVE  n = updateId
<1>1. Only(toServer[s], {"VOTE", "CLOSE", "INIT", "OPENFILE"})
  <2>1. \A j \in 1 .. Len(toServer[s]) : toServer[s][j].type \in Follow(op)
    BY MsgTypes DEF InOrder
  <2>2. Follow(op) = {"VOTE"}
    BY MsgTypes DEF Follow
  <2> QED  BY <2>1, <2>2 DEF Only
<1> QED  BY <1>1, AllCached, AllCounted DEF Holds

\* procVoteMessage: everything staged was sent before the VOTE, so the server
\* votes for all of it.
LEMMA ProcVoteKeeps ==
  ASSUME IInv, Dependable, NEW s \in serverIds, NEW i \in 1 .. Len(toServer[s]),
         Channels(s), up[s] => Holds(s), ProcVoteMessage(s, i),
         UNCHANGED clientVars
  PROVE  Channels(s)' /\ Holds(s)'
<1>a. s \in Server
  BY Typing
<1>b. PICK n \in nextUpdateId[s] .. MaxUpdates :
        /\ Receives(s, i, "VOTE")
        /\ ScanStopsAt(s, n)
        /\ nextUpdateId' = [nextUpdateId EXCEPT ![s] = n]
        /\ Reply(s, i, VoteAckMessage(n))
        /\ UNCHANGED <<fileFullname, updateMap, backup, fp, disk>>
  BY DEF ProcVoteMessage
<1> DEFINE ack == VoteAckMessage(n)
<1>0. ack \in ServerMsg /\ ack.type = "VOTEACK" /\ ack.fileDesc = 0
      /\ ack.updateId = n
  <2>1. n \in 0 .. MaxUpdates
    BY <1>a, Numbers
  <2> QED  BY <2>1, BuiltMessages DEF VoteAckMessage
<1>1. /\ i = 1 /\ toServer[s][1].type = "VOTE" /\ up[s]
      /\ Taken(toServer[s], toServer'[s]) /\ Put(toClient[s], ack, toClient'[s])
  BY <1>a, <1>b, <1>0, Replied DEF Dependable
<1> HIDE DEF ack
<1>2. Holds(s) /\ InOrder(s)
  BY <1>1 DEF Channels
<1>3. op = "vote" => n = updateId
  BY <1>a, <1>b, <1>1, <1>2, VoteCountsAll
<1>4. Channels(s)'
  BY <1>a, <1>0, <1>1, <1>3, ReplyChannels DEF Pair
<1>5. nextUpdateId'[s] = n
      /\ UNCHANGED <<fileFullname, updateMap, fp, disk>>
  BY <1>a, <1>b, Typing
<1>6. Updates(s)'
  BY <1>1, <1>2, <1>5, UpdatesSaid, UpdatesPassed DEF Holds, Clears
<1>7. Named(s)' /\ Closing(s)'
  BY <1>0, <1>1, <1>2, <1>5, NamedPassed, ClosingPassed, AnsweredNow DEF Holds
<1>8. Voting(s)'
  BY <1>3, <1>5, ClientSame DEF Voting
<1>9. Committing(s)'
  <2> SUFFICES ASSUME op = "commit" PROVE Committing(s)'
    BY ClientSame DEF Committing
  <2>1. 1 \in 1 .. Len(toServer[s])
    BY <1>1 DEF Taken
  <2>2. /\ fileFullname[s] = fileName
        /\ Only(toServer[s], {"VOTE", "COMMIT"})
        /\ updateMap[s] = clientUpdateMap /\ nextUpdateId[s] = updateId
        /\ ~Answered(s, "COMMITACK")
        /\ fileName \notin inDoubt => disk[s][fileName] = promised[fileName]
    BY <1>1, <1>2, <2>1 DEF Holds, Committing, Only
  <2>3. n = updateId
    BY <1>a, <1>b, <2>2, AllCounted
  <2>4. Only(toServer'[s], {"VOTE", "COMMIT"})
    BY <1>1, <2>2, TakenOnly
  <2>5. ~Answered(s, "COMMITACK")'
    BY <1>0, <1>1, <2>2, AnsweredNow
  <2> QED  BY <1>5, <2>2, <2>3, <2>4, <2>5, ClientSame DEF Committing
<1>10. CommitsLeft(s)'
  BY <1>1, <1>2, CommitsPassed DEF Holds
<1>11. OnDisk(s)'
  BY <1>2, <1>5, ClientSame DEF Holds, OnDisk
<1> QED  BY <1>4, <1>6, <1>7, <1>8, <1>9, <1>10, <1>11 DEF Holds

\* Writing no update leaves a file as it is.
LEMMA NothingWritten ==
  ASSUME NEW content \in Content, NEW map
  PROVE  Apply(content, map, 0) = content
<1>1. \A i \in UpdateId : ~(i < 0)
  BY DataAssumption DEF UpdateId
<1>2. Apply(content, map, 0) = [c \in Cell |-> content[c]]
  BY <1>1 DEF Apply
<1> QED  BY <1>2 DEF Content

\* The disk of a replica after the first n counted updates are written
\* because of a Commit: outside the commit phase nothing is counted, so that
\* nothing changes; in it only the file being committed does.
LEMMA CommitWrites ==
  ASSUME IInv, NEW s \in Server, CommitsLeft(s),
         op = "commit" => fileFullname[s] = fileName,
         NEW n \in 0 .. nextUpdateId[s],
         1 \in 1 .. Len(toServer[s]), toServer[s][1].type = "COMMIT"
  PROVE  /\ fileFullname[s] \in File
         /\ Written(s, n) \in [File -> Content \cup {Absent}]
         /\ Written(s, n)[fileFullname[s]] =
              Apply(Opened(disk[s][fileFullname[s]]), updateMap[s], n)
         /\ Written(s, n)[fileFullname[s]] # Absent
         /\ CarriedOut(s) => Written(s, n) = disk[s]
         /\ op # "commit" => CarriedOut(s)
         /\ \A f \in File : Written(s, n)[f] # disk[s][f] =>
              op = "commit" /\ f = fileName
<1> DEFINE f == fileFullname[s]
           new == Apply(Opened(disk[s][f]), updateMap[s], n)
<1>0. s \in Server /\ disk[s] \in [File -> Content \cup {Absent}]
      /\ nextUpdateId[s] \in Nat
  BY Typing, Numbers
<1>1. op # "commit" => CarriedOut(s)
  BY DEF CommitsLeft
<1>2. f \in File /\ (op = "commit" => f = fileName)
  <2>1. op # "commit" => f \in File
    BY <1>1 DEF CarriedOut
  <2>2. op = "commit" => f = fileName /\ fileName \in File
    BY DEF IInv, ClientInv, FileNamed
  <2> QED  BY <2>1, <2>2
<1>3. new \in Content
  <2>1. Opened(disk[s][f]) \in Content
    BY <1>0, <1>2, OpenedType
  <2>2. n \in 0 .. MaxUpdates /\ updateMap[s] \in UpdateMap
    BY <1>0, Typing, Numbers
  <2>3. HasPrefix(updateMap[s], n)
    BY <1>0, <2>2, Numbers DEF HasPrefix, IInv, ServerInv, ServerPrefix, UpdateId
  <2> QED  BY <2>1, <2>2, <2>3, ApplyType
<1>4. new # Absent
  BY <1>3, DataAssumption DEF Content
<1>5. Written(s, n) = [disk[s] EXCEPT ![f] = new]
  BY DEF Written
<1>6. ASSUME CarriedOut(s) PROVE Written(s, n) = disk[s]
  <2>1. n = 0 /\ disk[s][f] \in Content
    BY <1>0, <1>2, <1>6 DEF CarriedOut
  <2>2. Opened(disk[s][f]) = disk[s][f]
    BY <1>6 DEF Opened, CarriedOut
  <2>3. new = disk[s][f]
    BY <2>1, <2>2, NothingWritten
  <2> HIDE DEF new
  <2> QED  BY <1>0, <1>2, <1>5, <2>3
<1> HIDE DEF new
<1>7. /\ Written(s, n) \in [File -> Content \cup {Absent}]
      /\ Written(s, n)[f] = new
      /\ \A g \in File : g # f => Written(s, n)[g] = disk[s][g]
  BY <1>0, <1>2, <1>3, <1>5
<1>8. ASSUME NEW g \in File, Written(s, n)[g] # disk[s][g]
      PROVE  op = "commit" /\ g = fileName
  BY <1>1, <1>2, <1>6, <1>7, <1>8
<1> QED  BY <1>1, <1>2, <1>4, <1>6, <1>7, <1>8 DEF new

\* What is in the channels of a server that reads a Commit.
LEMMA CommitBehind ==
  ASSUME IInv, NEW s, InOrder(s), Holds(s), Taken(toServer[s], toServer'[s]),
         toServer[s][1].type = "COMMIT"
  PROVE  /\ op = "commit" => Only(toServer[s], {"COMMIT"})
         /\ op \notin {"commit", "idle"} => ~Answered(s, AckType[op])
         /\ isFileOpen
<1>0. 1 \in 1 .. Len(toServer[s]) /\ op \in Op
  BY Typing DEF Taken
<1>1. ASSUME op = "commit"
      PROVE  Only(toServer[s], {"COMMIT"})
  <2>1. \A j \in 1 .. Len(toServer[s]) : toServer[s][j].type \in Follow(op)
    BY <1>0, <1>1, MsgTypes DEF InOrder
  <2>2. Follow(op) = {"COMMIT"}
    BY <1>1, MsgTypes DEF Follow
  <2> QED  BY <2>1, <2>2 DEF Only
<1>2. ASSUME op \notin {"commit", "idle"}, Answered(s, AckType[op])
      PROVE  FALSE
  <2>1. Only(toServer[s], Follow(op))
    BY <1>2, AnsweredLast
  <2>2. "COMMIT" \in Follow(op)
    BY <1>0, <2>1 DEF Only
  <2> QED  BY <1>0, <1>2, <2>2, MsgTypes DEF Follow, Op
<1>3. isFileOpen
  BY <1>0 DEF Holds, Closing, Only
<1> QED  BY <1>1, <1>2, <1>3

\* A Commit writes all the updates there are, or nothing.
LEMMA ProcCommitKeeps ==
  ASSUME IInv, Dependable, NEW s \in serverIds, NEW i \in 1 .. Len(toServer[s]),
         Channels(s), up[s] => Holds(s), ProcCommitMessage(s, i),
         UNCHANGED clientVars
  PROVE  /\ Channels(s)' /\ Holds(s)'
         /\ \A f \in File : disk'[s][f] # disk[s][f] =>
              op = "commit" /\ f = fileName
         /\ fp'[s] # Dangling
<1>a. s \in Server
  BY Typing
<1>b. up[s] /\ i = 1 /\ toServer[s][1].type = "COMMIT" /\ 1 \in 1 .. Len(toServer[s])
  BY DEF ProcCommitMessage, CommitOpenFails, CommitFlushFails, CommitDone,
         Receives, Deliverable, Dependable
<1>c. Holds(s) /\ InOrder(s) /\ nextUpdateId[s] \in 0 .. nextUpdateId[s]
  BY <1>a, <1>b, Numbers DEF Channels
<1>d. /\ fileFullname[s] \in File
      /\ op # "commit" => CarriedOut(s)
  BY <1>a, <1>b, <1>c, CommitWrites DEF Holds, Committing
<1>e. CommitDone(s, i)
  <2>1. fileFullname[s] # NoFile
    BY <1>d, DataAssumption
  <2> QED  BY <2>1
           DEF ProcCommitMessage, CommitOpenFails, CommitFlushFails, Dependable
<1> DEFINE ack == Ack("COMMITACK", 0)
           n == nextUpdateId[s]
<1>0. ack \in ServerMsg /\ ack.type = "COMMITACK" /\ ack.fileDesc = 0
  BY BuiltMessages DEF Ack
<1> HIDE DEF ack, n
<1>1. Taken(toServer[s], toServer'[s]) /\ Put(toClient[s], ack, toClient'[s])
  BY <1>a, <1>e, <1>0, Replied DEF CommitDone, ack, Dependable
<1>2. Channels(s)'
  BY <1>a, <1>0, <1>1, <1>b, ReplyChannels DEF Pair
<1>3. /\ disk'[s] = Written(s, n)
      /\ updateMap'[s] = NoUpdates /\ nextUpdateId'[s] = 0
      /\ fp'[s] = fileFullname[s] /\ fileFullname' = fileFullname
  BY <1>a, <1>e, Typing DEF CommitDone, SetFp, Reset, n
<1>4. /\ Written(s, n)[fileFullname[s]] =
           Apply(Opened(disk[s][fileFullname[s]]), updateMap[s], n)
      /\ Written(s, n)[fileFullname[s]] # Absent
      /\ CarriedOut(s) => Written(s, n) = disk[s]
      /\ \A f \in File : Written(s, n)[f] # disk[s][f] =>
           op = "commit" /\ f = fileName
  BY <1>a, <1>b, <1>c, CommitWrites DEF n, Holds, Committing
<1>5. Cached(NoUpdates) = {}
  BY NoUpdatesFacts
<1>6. Updates(s)'
  <2>1. UpdatesIn(toServer[s], updateMap[s])
    BY <1>c, UpdatesSaid DEF Holds
  <2>2. UpdatesIn(toServer'[s], NoUpdates)
    BY <1>1, <1>b, <2>1, UpdatesThrownOut DEF Clears
  <2> QED  BY <1>3, <2>2, UpdatesSaid
<1>7. Named(s)'
  BY <1>b, <1>c, <1>1, <1>3, NamedPassed DEF Holds
<1>8. /\ op = "commit" => Only(toServer[s], {"COMMIT"})
      /\ op \notin {"commit", "idle"} => ~Answered(s, AckType[op])
      /\ isFileOpen
  BY <1>b, <1>c, <1>1, CommitBehind
<1>9. Voting(s)'
  BY <1>0, <1>1, <1>8, AckTypes, AnsweredNow, ClientSame DEF Voting
<1>10. Closing(s)'
  BY <1>0, <1>1, <1>8, AckTypes, AnsweredNow, ClientSame DEF Closing
<1>11. CarriedOut(s)'
  BY <1>3, <1>4, <1>5, <1>d DEF CarriedOut, Cached
<1>12. Committing(s)'
  <2> SUFFICES ASSUME op = "commit" PROVE Committing(s)'
    BY ClientSame DEF Committing
  <2>1. fileFullname[s] = fileName
    BY <1>c DEF Holds, Committing
  <2>2. Only(toServer'[s], {"COMMIT"})
    BY <1>1, <1>8, TakenOnly
  <2>3. ASSUME fileName \notin inDoubt PROVE disk'[s][fileName] = After
    <3>1. CASE /\ updateMap[s] = clientUpdateMap /\ n = updateId
               /\ disk[s][fileName] = promised[fileName]
      BY <1>3, <1>4, <2>1, <3>1 DEF After
    <3>2. CASE CarriedOut(s) /\ disk[s][fileName] = After
      BY <1>3, <1>4, <3>2
    <3> QED  BY <1>c, <2>3, <3>1, <3>2 DEF Holds, Committing, n
  <2>4. Only(toServer'[s], {"VOTE", "COMMIT"})
    BY <2>2 DEF Only
  <2> QED  BY <1>3, <1>11, <2>1, <2>2, <2>3, <2>4, ClientSame DEF Committing
<1>13. CommitsLeft(s)'
  <2> SUFFICES ASSUME op # "commit", NEW k \in 1 .. Len(toServer'[s]),
                      toServer'[s][k].type = "COMMIT",
                      NEW j \in 1 .. k
               PROVE  toServer'[s][j].type = "COMMIT"
    BY <1>11, ClientSame DEF CommitsLeft
  <2>1. /\ k + 1 \in 1 .. Len(toServer[s]) /\ j + 1 \in 1 .. k + 1
        /\ toServer'[s][k] = toServer[s][k + 1]
        /\ toServer'[s][j] = toServer[s][j + 1]
    BY <1>1 DEF Taken
  <2> QED  BY <1>c, <2>1 DEF Holds, CommitsLeft
<1>14. OnDisk(s)'
  <2> SUFFICES ASSUME NEW f \in File \ inDoubt
               PROVE  \/ disk'[s][f] = promised[f]
                      \/ op = "commit" /\ f = fileName /\ disk'[s][f] = After
    BY ClientSame DEF OnDisk
  <2>1. CASE op = "commit" /\ f = fileName
    BY <1>12, <2>1, ClientSame, <1>3, <1>c, <1>0, <1>1 DEF Committing, Put, Answered
  <2>2. CASE ~(op = "commit" /\ f = fileName)
    <3>1. disk'[s][f] = disk[s][f]
      BY <1>3, <1>4, <2>2
    <3> QED  BY <1>c, <2>2, <3>1 DEF Holds, OnDisk
  <2> QED  BY <2>1, <2>2
<1>15. Holds(s)'
  BY <1>6, <1>7, <1>9, <1>10, <1>12, <1>13, <1>14 DEF Holds
<1> QED  BY <1>2, <1>3, <1>4, <1>15, <1>d, DataAssumption

\* An Abort empties the cache; a replica is in no commit phase then.
LEMMA ProcAbortKeeps ==
  ASSUME IInv, Dependable, NEW s \in serverIds, NEW i \in 1 .. Len(toServer[s]),
         Channels(s), up[s] => Holds(s), backup[s] = NoFile,
         ProcAbortMessage(s, i), UNCHANGED clientVars
  PROVE  Channels(s)' /\ Holds(s)' /\ UNCHANGED <<disk, fp, backup>>
<1>a. s \in Server
  BY Typing
<1>b. AbortWithoutBackup(s, i)
  BY DEF ProcAbortMessage, RollsBack, RollbackRemoveFails, RollbackReopenFails,
         RollbackFlushFails, RollbackDone
<1> DEFINE ack == Ack("ABORTACK", 0)
<1>0. ack \in ServerMsg /\ ack.type = "ABORTACK" /\ ack.fileDesc = 0
  BY BuiltMessages DEF Ack
<1> HIDE DEF ack
<1>1. /\ i = 1 /\ toServer[s][1].type = "ABORT" /\ up[s]
      /\ Taken(toServer[s], toServer'[s]) /\ Put(toClient[s], ack, toClient'[s])
  BY <1>a, <1>b, <1>0, Replied DEF AbortWithoutBackup, ack, Dependable
<1>2. Channels(s)'
  BY <1>a, <1>0, <1>1, ReplyChannels DEF Pair
<1>3. /\ UNCHANGED <<fileFullname, backup, fp, disk>>
      /\ updateMap'[s] = NoUpdates /\ nextUpdateId'[s] = 0
  BY <1>a, <1>b, Typing DEF AbortWithoutBackup, Reset
<1>4. Holds(s) /\ InOrder(s) /\ 1 \in 1 .. Len(toServer[s]) /\ op \in Op
  BY <1>1, Typing DEF Channels, Taken
<1>5. Updates(s)'
  <2>1. UpdatesIn(toServer[s], updateMap[s])
    BY <1>4, UpdatesSaid DEF Holds
  <2>2. UpdatesIn(toServer'[s], NoUpdates)
    BY <1>1, <2>1, UpdatesThrownOut DEF Clears
  <2> QED  BY <1>3, <2>2, UpdatesSaid
<1>6. Named(s)' /\ Closing(s)'
  BY <1>0, <1>1, <1>3, <1>4, NamedPassed, ClosingPassed, AnsweredNow DEF Holds
<1>7. Voting(s)'
  <2> SUFFICES ASSUME op = "vote", Answered(s, "VOTEACK") PROVE FALSE
    BY <1>0, <1>1, AnsweredNow, ClientSame DEF Voting
  <2>1. Only(toServer[s], Follow(op)) /\ Follow(op) = {"VOTE"}
    BY <1>4, AnsweredLast, AckTypes, MsgTypes DEF Follow
  <2> QED  BY <1>1, <1>4, <2>1 DEF Only
<1>8. Committing(s)'
  BY <1>1, <1>4, ClientSame DEF Holds, Committing, Only
<1>9. CommitsLeft(s)'
  BY <1>1, <1>4, CommitsPassed DEF Holds
<1>10. OnDisk(s)'
  BY <1>3, <1>4, ClientSame DEF Holds, OnDisk
<1> QED  BY <1>2, <1>3, <1>5, <1>6, <1>7, <1>8, <1>9, <1>10 DEF Holds

\* A Close is refused exactly when the client has staged updates.
LEMMA CloseSeesStaged ==
  ASSUME IInv, NEW s \in serverIds, InOrder(s), Holds(s),
         op \in {"close", "close2"},
         1 \in 1 .. Len(toServer[s]), toServer[s][1].type = "CLOSE"
  PROVE  Cached(updateMap[s]) = {} <=> updateId = 0
<1>1. Only(toServer[s], {"VOTE", "CLOSE", "INIT", "OPENFILE"})
  <2>1. \A j \in 1 .. Len(toServer[s]) : toServer[s][j].type \in Follow(op)
    BY MsgTypes DEF InOrder
  <2>2. Follow(op) = {"CLOSE"}
    BY MsgTypes DEF Follow
  <2> QED  BY <2>1, <2>2 DEF Only
<1>2. updateMap[s] = clientUpdateMap
  BY <1>1, Typing, AllCached DEF Holds
<1>3. Cached(clientUpdateMap) = 0 .. updateId - 1
  BY DEF IInv, ClientInv, ClientMapComplete
<1> QED  BY <1>2, <1>3, Numbers

\* procCloseMessage: with nothing cached the server gives the file back, and else
\* it refuses; the client has updates staged in just that case.
LEMMA ProcCloseKeeps ==
  ASSUME IInv, Dependable, NEW s \in serverIds, NEW i \in 1 .. Len(toServer[s]),
         Channels(s), up[s] => Holds(s), ProcCloseMessage(s, i),
         UNCHANGED clientVars
  PROVE  /\ Channels(s)' /\ Holds(s)' /\ UNCHANGED <<disk, backup>>
         /\ fp'[s] \in {fp[s], NoFile}
<1>a. s \in Server
  BY Typing
<1>b. CloseRefused(s, i) \/ CloseDone(s, i)
  BY DEF ProcCloseMessage, CloseFails, Dependable
<1>c. PICK desc \in {0, 1} :
        /\ Receives(s, i, "CLOSE") /\ Reply(s, i, Ack("CLOSEACK", desc))
        /\ desc = 1 => Cached(updateMap[s]) # {} /\ UNCHANGED fp
        /\ desc = 0 => Cached(updateMap[s]) = {} /\ SetFp(s, NoFile)
        /\ UNCHANGED <<fileFullname, updateMap, nextUpdateId, backup, disk>>
  BY <1>b DEF CloseRefused, CloseDone, serverVars, memoryVars
<1> DEFINE ack == Ack("CLOSEACK", desc)
<1>0. ack \in ServerMsg /\ ack.type = "CLOSEACK" /\ ack.fileDesc = desc
  BY BuiltMessages DEF Ack
<1>1. /\ i = 1 /\ toServer[s][1].type = "CLOSE" /\ up[s]
      /\ Taken(toServer[s], toServer'[s]) /\ Put(toClient[s], ack, toClient'[s])
  BY <1>a, <1>c, <1>0, Replied DEF Dependable
<1> HIDE DEF ack
<1>2. Holds(s) /\ InOrder(s) /\ 1 \in 1 .. Len(toServer[s]) /\ op \in Op
  BY <1>1, Typing DEF Channels, Taken
<1>3. ASSUME op \in {"close", "close2"}
      PROVE  desc = IF updateId > 0 THEN 1 ELSE 0
  <2>1. Cached(updateMap[s]) = {} <=> updateId = 0
    BY <1>1, <1>2, <1>3, CloseSeesStaged
  <2> QED  BY <1>c, <2>1, Numbers
<1>4. Channels(s)'
  BY <1>a, <1>0, <1>1, <1>3, ReplyChannels DEF Pair
<1>5. /\ UNCHANGED <<fileFullname, updateMap, nextUpdateId, backup, disk>>
      /\ fp'[s] = IF desc = 0 THEN NoFile ELSE fp[s]
  BY <1>a, <1>c, Typing DEF SetFp
<1>6. Updates(s)'
  BY <1>1, <1>2, <1>5, UpdatesSaid, UpdatesPassed DEF Holds, Clears
<1>7. Named(s)'
  BY <1>1, <1>2, <1>5, NamedPassed DEF Holds
<1>8. Closing(s)'
  <2>1. ASSUME op \in {"close", "close2"}, updateId = 0 PROVE fp'[s] = NoFile
    BY <1>3, <1>5, <2>1
  <2>2. ASSUME ~isFileOpen
        PROVE  fp'[s] = NoFile /\ Only(toServer'[s], {"INIT", "OPENFILE", "CLOSE"})
    BY <1>1, <1>2, <1>5, <2>2, TakenOnly DEF Holds, Closing
  <2> QED  BY <2>1, <2>2, ClientSame DEF Closing
<1>9. Holds(s)'
  BY <1>a, <1>0, <1>1, <1>2, <1>5, <1>6, <1>7, <1>8, PassedHolds, AnsweredNow
<1> QED  BY <1>4, <1>5, <1>9

-----------------------------------------------------------------------------
(* All steps of a server.                                                   *)

\* What belongs to server t does not change.
Untouched(t) ==
  /\ toServer'[t] = toServer[t] /\ toClient'[t] = toClient[t] /\ up'[t] = up[t]
  /\ fileFullname'[t] = fileFullname[t] /\ updateMap'[t] = updateMap[t]
  /\ nextUpdateId'[t] = nextUpdateId[t] /\ backup'[t] = backup[t]
  /\ fp'[t] = fp[t] /\ disk'[t] = disk[t]

\* A handler touches its own server only.
LEMMA HandleTouches ==
  ASSUME IInv, NEW s \in Server, NEW i \in 1 .. Len(toServer[s]), Handle(s, i),
         NEW t \in Server, t # s
  PROVE  Untouched(t) /\ UNCHANGED up
<1> USE Typing
<1>1. CASE ProcInitMessage(s, i)
  BY <1>1 DEF ProcInitMessage, Receives, Reply, Without, serverVars, memoryVars,
              Untouched
<1>2. CASE ProcOpenFileMessage(s, i)
  BY <1>2 DEF ProcOpenFileMessage, Receives, Reply, Without, Untouched
<1>3. CASE ProcWriteBlockMessage(s, i)
  <2>1. updateMap'[t] = updateMap[t]
    BY <1>3 DEF ProcWriteBlockMessage
  <2> QED  BY <1>3, <2>1 DEF ProcWriteBlockMessage, Receives, Consume, Without,
              Untouched
<1>4. CASE ProcVoteMessage(s, i)
  <2>1. PICK n \in nextUpdateId[s] .. MaxUpdates :
          /\ Receives(s, i, "VOTE")
          /\ nextUpdateId' = [nextUpdateId EXCEPT ![s] = n]
          /\ Reply(s, i, VoteAckMessage(n))
          /\ UNCHANGED <<fileFullname, updateMap, backup, fp, disk>>
    BY <1>4 DEF ProcVoteMessage
  <2> QED  BY <2>1 DEF Receives, Reply, Without, Untouched
<1>5. CASE ProcCommitMessage(s, i)
  <2>1. disk'[t] = disk[t]
    BY <1>5 DEF ProcCommitMessage, CommitOpenFails, CommitFlushFails, CommitDone
  <2>2. /\ updateMap'[t] = updateMap[t] /\ nextUpdateId'[t] = nextUpdateId[t]
        /\ fileFullname' = fileFullname
        /\ backup'[t] = backup[t] /\ fp'[t] = fp[t]
    BY <1>5 DEF ProcCommitMessage, CommitOpenFails, CommitFlushFails, CommitDone,
                Reset, ResetBackup, SetFp
  <2>3. /\ toServer'[t] = toServer[t] /\ toClient'[t] = toClient[t] /\ UNCHANGED up
    BY <1>5 DEF ProcCommitMessage, CommitOpenFails, CommitFlushFails, CommitDone,
                Receives, Reply, Without
  <2> QED  BY <2>1, <2>2, <2>3 DEF Untouched
<1>6. CASE ProcAbortMessage(s, i)
  <2>1. disk'[t] = disk[t]
    BY <1>6 DEF ProcAbortMessage, AbortWithoutBackup, RollbackRemoveFails,
                RollbackReopenFails, RollbackFlushFails, RollbackDone
  <2>2. /\ updateMap'[t] = updateMap[t] /\ nextUpdateId'[t] = nextUpdateId[t]
        /\ fileFullname' = fileFullname
        /\ backup'[t] = backup[t] /\ fp'[t] = fp[t]
    BY <1>6 DEF ProcAbortMessage, AbortWithoutBackup, RollbackRemoveFails,
                RollbackReopenFails, RollbackFlushFails, RollbackDone, RollsBack,
                Reset, ResetBackup, SetFp
  <2>3. /\ toServer'[t] = toServer[t] /\ toClient'[t] = toClient[t] /\ UNCHANGED up
    BY <1>6 DEF ProcAbortMessage, AbortWithoutBackup, RollbackRemoveFails,
                RollbackReopenFails, RollbackFlushFails, RollbackDone, RollsBack,
                Receives, Reply, Without
  <2> QED  BY <2>1, <2>2, <2>3 DEF Untouched
<1>7. CASE ProcCloseMessage(s, i)
  BY <1>7 DEF ProcCloseMessage, CloseRefused, CloseDone, CloseFails, Receives,
              Reply, Without, SetFp, serverVars, memoryVars, Untouched
<1> QED  BY <1>1, <1>2, <1>3, <1>4, <1>5, <1>6, <1>7 DEF Handle

\* Nor does the end of a process touch another.
LEMMA DeathTouches ==
  ASSUME IInv, NEW s \in Server, Dies(s),
         disk' = disk \/ \E new : disk' = [disk EXCEPT ![s] = new]
  PROVE  /\ up' = [up EXCEPT ![s] = FALSE]
         /\ toServer'[s] = <<>> /\ UNCHANGED toClient
         /\ fileFullname'[s] = NoFile /\ updateMap'[s] = NoUpdates
         /\ fp'[s] = NoFile /\ backup'[s] = NoFile
         /\ \A t \in Server : t # s => Untouched(t)
BY Typing DEF Dies, Reset, ResetBackup, SetFp, Untouched

\* How a server ends, and what it may have written by then.
LEMMA Deaths ==
  ASSUME NEW s \in Server, Crash(s) \/ CrashInCommit(s) \/ BadFclose(s)
  PROVE  /\ Dies(s)
         /\ \/ disk' = disk
            \/ /\ \E i \in Deliverable(toServer[s]) : toServer[s][i].type = "COMMIT"
               /\ \E n \in 0 .. nextUpdateId[s] :
                    disk' = [disk EXCEPT ![s] = Written(s, n)]
BY DEF Crash, CrashInCommit, BadFclose

\* Before any server is selected a server is asked for nothing but INIT.
LEMMA PristineKept ==
  ASSUME IInv, ReorderWindow = 1, NEW s \in Server, NEW i \in 1 .. Len(toServer[s]),
         Handle(s, i), Pristine(s)
  PROVE  ProcInitMessage(s, i) /\ Pristine(s)'
<1>1. toServer[s][i].type = "INIT"
  BY DEF Pristine, Only
<1>2. ProcInitMessage(s, i)
  BY <1>1 DEF Handle, ProcOpenFileMessage, ProcWriteBlockMessage, ProcVoteMessage,
     ProcCommitMessage, CommitOpenFails, CommitFlushFails, CommitDone,
     ProcAbortMessage, AbortWithoutBackup, RollbackRemoveFails,
     RollbackReopenFails, RollbackFlushFails, RollbackDone, RollsBack,
     ProcCloseMessage, CloseRefused, CloseDone, CloseFails, Receives
<1> DEFINE ack == Plain("INITACK")
<1>3. ack \in ServerMsg /\ ack.type = "INITACK"
  BY BuiltMessages DEF Plain
<1> HIDE DEF ack
<1>4. Taken(toServer[s], toServer'[s]) /\ Put(toClient[s], ack, toClient'[s])
  BY <1>2, <1>3, Replied DEF ProcInitMessage, ack
<1>5. Only(toServer'[s], {"INIT"}) /\ Only(toClient'[s], {"INITACK"})
  BY <1>3, <1>4, TakenOnly, PutOnly DEF Pristine
<1>6. Pristine(s)'
  BY <1>2, <1>5 DEF ProcInitMessage, Pristine, serverVars, memoryVars, Cached
<1> QED  BY <1>2, <1>6

\* The open file and the backup of a server.
LEMMA FilePointerKept ==
  ASSUME IInv, DiskFaults = FALSE, NEW s \in Server, NEW i \in 1 .. Len(toServer[s]),
         Handle(s, i), fp[s] # Dangling, backup[s] = NoFile
  PROVE  fp'[s] # Dangling /\ backup'[s] = NoFile
<1> USE Typing, DataAssumption
<1>1. CASE ProcInitMessage(s, i) \/ ProcOpenFileMessage(s, i)
  BY <1>1 DEF ProcInitMessage, ProcOpenFileMessage, serverVars, memoryVars
<1>2. CASE ProcWriteBlockMessage(s, i) \/ ProcVoteMessage(s, i)
  BY <1>2 DEF ProcWriteBlockMessage, ProcVoteMessage
<1>3. CASE ProcCommitMessage(s, i)
  <2>1. CommitOpenFails(s, i) \/ CommitDone(s, i)
    BY <1>3 DEF ProcCommitMessage, CommitFlushFails
  <2> QED  BY <2>1 DEF CommitOpenFails, CommitDone, SetFp, ResetBackup
<1>4. CASE ProcAbortMessage(s, i)
  <2>1. AbortWithoutBackup(s, i)
    BY <1>4 DEF ProcAbortMessage, RollsBack, RollbackRemoveFails,
       RollbackReopenFails, RollbackFlushFails, RollbackDone
  <2> QED  BY <2>1 DEF AbortWithoutBackup
<1>5. CASE ProcCloseMessage(s, i)
  <2>1. CloseRefused(s, i) \/ CloseDone(s, i)
    BY <1>5 DEF ProcCloseMessage, CloseFails
  <2> QED  BY <2>1 DEF CloseRefused, CloseDone, SetFp, serverVars, memoryVars
<1> QED  BY <1>1, <1>2, <1>3, <1>4, <1>5 DEF Handle

-----------------------------------------------------------------------------
(* The invariant and a step of a server.                                    *)

\* A selected server's file changes only while the client commits it.
DiskFollowsDecision ==
  \A t \in Replicas : \A f \in File :
    disk'[t][f] # disk[t][f] => op = "commit" /\ f = fileName

\* Whatever packet a selected server reads.
LEMMA HandleKeeps ==
  ASSUME IInv, Dependable, Reliable, NEW s \in serverIds,
         NEW i \in 1 .. Len(toServer[s]), Handle(s, i), UNCHANGED clientVars
  PROVE  /\ Channels(s)' /\ up[s] /\ Holds(s)'
         /\ \A f \in File : disk'[s][f] # disk[s][f] =>
              op = "commit" /\ f = fileName
<1>a. s \in Server
  BY Typing
<1>b. up[s]
  BY DEF Handle, ProcInitMessage, ProcOpenFileMessage, ProcWriteBlockMessage,
     ProcVoteMessage, ProcCommitMessage, CommitOpenFails, CommitFlushFails,
     CommitDone, ProcAbortMessage, AbortWithoutBackup, RollbackRemoveFails,
     RollbackReopenFails, RollbackFlushFails, RollbackDone, RollsBack,
     ProcCloseMessage, CloseRefused, CloseDone, CloseFails, Receives
<1>c. Channels(s) /\ Holds(s) /\ backup[s] = NoFile
  BY <1>a, <1>b DEF Reliable, Replicas, Bookkeeping
<1>1. CASE ProcInitMessage(s, i)
  <2>1. ReplicaKept(s)
    BY <1>1, <1>a, <1>c, ProcInitKeeps
  <2> QED  BY <1>1, <1>b, <1>c, <2>1 DEF ReplicaKept, ProcInitMessage, serverVars
<1>2. CASE ProcOpenFileMessage(s, i)
  <2>1. ReplicaKept(s)
    BY <1>2, <1>a, <1>c, ProcOpenFileKeeps
  <2> QED  BY <1>2, <1>b, <1>c, <2>1 DEF ReplicaKept, ProcOpenFileMessage
<1>3. CASE ProcWriteBlockMessage(s, i)
  <2>1. ReplicaKept(s)
    BY <1>3, <1>a, <1>c, ProcWriteBlockKeeps
  <2> QED  BY <1>3, <1>b, <1>c, <2>1 DEF ReplicaKept, ProcWriteBlockMessage
<1>4. CASE ProcVoteMessage(s, i)
  <2>1. Channels(s)' /\ Holds(s)'
    BY <1>4, <1>c, ProcVoteKeeps
  <2> QED  BY <1>4, <1>b, <2>1 DEF ProcVoteMessage
<1>5. CASE ProcCommitMessage(s, i)
  BY <1>5, <1>b, <1>c, ProcCommitKeeps
<1>6. CASE ProcAbortMessage(s, i)
  BY <1>6, <1>b, <1>c, ProcAbortKeeps
<1>7. CASE ProcCloseMessage(s, i)
  BY <1>7, <1>b, <1>c, ProcCloseKeeps
<1> QED  BY <1>1, <1>2, <1>3, <1>4, <1>5, <1>6, <1>7 DEF Handle

\* A handler keeps the invariant.
LEMMA HandleReliable ==
  ASSUME IInv, Dependable, Reliable, NEW s \in Server,
         NEW i \in 1 .. Len(toServer[s]), Handle(s, i), UNCHANGED clientVars
  PROVE  Reliable' /\ DiskFollowsDecision
<1>0. /\ \A t \in Server : t # s => Untouched(t)
      /\ serverIds' = serverIds /\ serverIds \subseteq Server
  BY HandleTouches, ClientSame, Typing
<1>u. UNCHANGED up
  BY DEF Handle, ProcInitMessage, ProcOpenFileMessage, ProcWriteBlockMessage,
     ProcVoteMessage, ProcCommitMessage, CommitOpenFails, CommitFlushFails,
     CommitDone, ProcAbortMessage, AbortWithoutBackup, RollbackRemoveFails,
     RollbackReopenFails, RollbackFlushFails, RollbackDone, RollsBack,
     ProcCloseMessage, CloseRefused, CloseDone, CloseFails, Receives
<1>1. \A t \in serverIds : Channels(t)'
  BY <1>0, HandleKeeps, ChannelsKept DEF Reliable, Untouched
<1>2. ASSUME NEW t \in Replicas' PROVE Holds(t)'
  <2>1. t \in Replicas /\ t \in serverIds
    BY <1>0, <1>u, <1>2 DEF Replicas
  <2>2. CASE t = s
    BY <2>1, <2>2, HandleKeeps
  <2>3. CASE t # s
    BY <1>0, <2>1, <2>3, HoldsKept DEF Reliable, Untouched
  <2> QED  BY <2>2, <2>3
<1>3. Bookkeeping'
  <2>1. \A t \in Server : fp'[t] # Dangling /\ backup'[t] = NoFile
    BY <1>0, FilePointerKept DEF Reliable, Bookkeeping, Untouched, Dependable
  <2> QED  BY <2>1
           DEF Reliable, Bookkeeping, IsFull, clientVars, callVars, fileVars,
               stagedVars, bookVars
<1>4. Fresh'
  <2> SUFFICES ASSUME clients = 0 \/ op = "init" PROVE Fresh'
    BY ClientSame DEF Fresh
  <2>1. \A t \in Server : Pristine(t)
    BY DEF Reliable, Fresh
  <2>2. ASSUME NEW t \in Server PROVE Pristine(t)'
    <3>1. CASE t = s
      BY <2>1, <3>1, PristineKept DEF Dependable
    <3>2. CASE t # s
      BY <1>0, <2>1, <3>2 DEF Pristine, Untouched, Only, Cached
    <3> QED  BY <3>1, <3>2
  <2> QED  BY <2>2, ClientSame DEF Reliable, Fresh
<1>5. DiskFollowsDecision
  BY <1>0, HandleKeeps DEF DiskFollowsDecision, Replicas, Untouched
<1> QED  BY <1>0, <1>1, <1>2, <1>3, <1>4, <1>5 DEF Reliable

\* The end of a server keeps it: what the server wrote of a commit before it
\* was killed is lost with it.
LEMMA DeathReliable ==
  ASSUME IInv, Dependable, Reliable, NEW s \in Server, UNCHANGED clientVars,
         Crash(s) \/ CrashInCommit(s) \/ BadFclose(s)
  PROVE  Reliable' /\ DiskFollowsDecision
<1>0. /\ Dies(s) /\ up[s]
      /\ \/ disk' = disk
         \/ /\ 1 \in 1 .. Len(toServer[s]) /\ toServer[s][1].type = "COMMIT"
            /\ \E n \in 0 .. nextUpdateId[s] :
                 disk' = [disk EXCEPT ![s] = Written(s, n)]
  <2>1. \A i \in Deliverable(toServer[s]) : i = 1 /\ 1 \in 1 .. Len(toServer[s])
    BY DEF Deliverable, Dependable
  <2> QED  BY <2>1, Deaths DEF Dies
<1>1. /\ up' = [up EXCEPT ![s] = FALSE]
      /\ toServer'[s] = <<>> /\ UNCHANGED toClient
      /\ fileFullname'[s] = NoFile /\ updateMap'[s] = NoUpdates
      /\ fp'[s] = NoFile /\ backup'[s] = NoFile
      /\ \A t \in Server : t # s => Untouched(t)
  BY <1>0, DeathTouches
<1>2. serverIds' = serverIds /\ serverIds \subseteq Server
  BY ClientSame, Typing
<1>3. \A t \in serverIds : Channels(t)'
  BY <1>1, <1>2, ChannelsKept, ChannelsOfTheDead DEF Reliable, Untouched
<1>4. ASSUME NEW t \in Replicas' PROVE Holds(t)'
  <2>1. t \in Replicas /\ t # s /\ t \in Server
    BY <1>1, <1>2, <1>4, Typing DEF Replicas
  <2> QED  BY <1>1, <2>1, HoldsKept DEF Reliable, Untouched
<1>5. Bookkeeping'
  <2>1. \A t \in Server : fp'[t] # Dangling /\ backup'[t] = NoFile
    BY <1>1, DataAssumption DEF Reliable, Bookkeeping, Untouched
  <2> QED  BY <2>1
           DEF Reliable, Bookkeeping, IsFull, clientVars, callVars, fileVars,
               stagedVars, bookVars
<1>6. Fresh'
  <2> SUFFICES ASSUME clients = 0 \/ op = "init" PROVE Fresh'
    BY ClientSame DEF Fresh
  <2>1. \A t \in Server : Pristine(t)
    BY DEF Reliable, Fresh
  <2>2. disk' = disk
    BY <1>0, <2>1 DEF Pristine, Only
  <2>3. Pristine(s)'
    BY <1>1, <2>1, <2>2, NoUpdatesFacts DEF Pristine, Only, Cached
  <2>4. \A t \in Server : Pristine(t)'
    BY <1>1, <2>1, <2>3 DEF Pristine, Untouched, Only, Cached
  <2> QED  BY <2>4, ClientSame DEF Reliable, Fresh
<1>7. DiskFollowsDecision
  <2>1. ASSUME s \in Replicas, NEW f \in File, disk'[s][f] # disk[s][f]
        PROVE  op = "commit" /\ f = fileName
    <3>1. PICK n \in 0 .. nextUpdateId[s] :
            disk' = [disk EXCEPT ![s] = Written(s, n)]
      BY <1>0, <2>1
    <3>2. disk'[s] = Written(s, n)
      BY <3>1, Typing
    <3>3. s \in serverIds /\ Holds(s)
          /\ 1 \in 1 .. Len(toServer[s]) /\ toServer[s][1].type = "COMMIT"
      BY <1>0, <2>1 DEF Reliable, Replicas
    <3> QED  BY <2>1, <3>2, <3>3, CommitWrites DEF Holds, Committing
  <2> QED  BY <1>1, <1>2, <2>1 DEF DiskFollowsDecision, Replicas, Untouched
<1> QED  BY <1>2, <1>3, <1>4, <1>5, <1>6, <1>7 DEF Reliable

\* Every step of a server keeps the invariant, and writes no file of a
\* replica unless the client has decided to commit it.
LEMMA ServerReliable ==
  ASSUME IInv, Dependable, Reliable, NEW s \in Server, ServerStep(s),
         UNCHANGED clientVars
  PROVE  Reliable' /\ DiskFollowsDecision
<1>1. CASE ServerReads(s)
  <2>1. PICK i \in 1 .. Len(toServer[s]) : Handle(s, i)
    BY <1>1 DEF ServerReads, DropClientPacket, Dependable
  <2> QED  BY <2>1, HandleReliable
<1>2. CASE Crash(s) \/ CrashInCommit(s) \/ BadFclose(s)
  BY <1>2, DeathReliable
<1> QED  BY <1>1, <1>2 DEF ServerStep
=============================================================================
