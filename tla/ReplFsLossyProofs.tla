-------------------------- MODULE ReplFsLossyProofs --------------------------
(***************************************************************************)
(* Where packets are lost but keep their order, no process fails and no    *)
(* execute runs out of time (Ordered), every step keeps Tolerant, so that  *)
(* replFs keeps its promises there, however often execute repeats a        *)
(* message or starts another round of votes.                               *)
(***************************************************************************)
EXTENDS ReplFsLossy, ReplFsReliableProofs

-----------------------------------------------------------------------------
(* The two queues of a server.                                              *)

\* Answers of type a come last in r, and where there is one, q holds only
\* messages of the types in B; so does what follows a message of type m.
Orderly(q, r, m, a, B) ==
  /\ \A k \in 1 .. Len(r) : r[k].type = a =>
       (\A j \in k .. Len(r) : r[j].type = a) /\ Only(q, B)
  /\ \A k \in 1 .. Len(q) : q[k].type = m =>
       \A j \in k .. Len(q) : q[j].type \in B

\* more is q with messages of M at the end.
Added(q, more, M) ==
  /\ Len(q) \in Nat /\ Len(more) \in Nat /\ Len(q) <= Len(more)
  /\ \A k \in 1 .. Len(q) : more[k] = q[k]
  /\ \A k \in Len(q) + 1 .. Len(more) : more[k] \in M

\* rest is r, or r without its head.
LeftOf(r, rest) == rest = r \/ Taken(r, rest)

\* One message put at the end is added.
LEMMA PutAdds ==
  ASSUME NEW q, NEW m, NEW more, Put(q, m, more)
  PROVE  Added(q, more, {m})
BY DEF Put, Added

\* What is true of a queue and of what is added to it.
LEMMA AddedPackets ==
  ASSUME NEW q, NEW more, NEW M, Added(q, more, M)
  PROVE  /\ \A k \in 1 .. Len(more) :
              \/ more[k] \in M
              \/ k \in 1 .. Len(q) /\ more[k] = q[k]
         /\ \A T : Only(q, T) /\ (\A m \in M : m.type \in T) => Only(more, T)
<1>1. ASSUME NEW k \in 1 .. Len(more)
      PROVE  \/ more[k] \in M
             \/ k \in 1 .. Len(q) /\ more[k] = q[k]
  <2>1. k \in 1 .. Len(q) \/ k \in Len(q) + 1 .. Len(more)
    BY DEF Added
  <2> QED  BY <2>1 DEF Added
<1> QED  BY <1>1 DEF Only

\* What is left of the answers were answers before.
LEMMA LeftPackets ==
  ASSUME NEW r, NEW rest, LeftOf(r, rest)
  PROVE  /\ \A k \in 1 .. Len(rest) : \E j \in 1 .. Len(r) : rest[k] = r[j]
         /\ \A T : Only(r, T) => Only(rest, T)
<1>1. ASSUME NEW k \in 1 .. Len(rest)
      PROVE  \E j \in 1 .. Len(r) : rest[k] = r[j]
  <2>1. CASE rest = r
    BY <2>1
  <2>2. CASE Taken(r, rest)
    <3>1. k + 1 \in 1 .. Len(r) /\ rest[k] = r[k + 1]
      BY <2>2 DEF Taken
    <3> QED  BY <3>1
  <2> QED  BY <2>1, <2>2 DEF LeftOf
<1> QED  BY <1>1 DEF Only

\* A message is read and answered.
LEMMA OrderlyReplied ==
  ASSUME NEW q, NEW rest, NEW r, NEW ack, NEW more, NEW m, NEW a, NEW B,
         Orderly(q, r, m, a, B), Taken(q, rest), Put(r, ack, more),
         q[1].type = m <=> ack.type = a, q[1].type \in B => q[1].type = m
  PROVE  Orderly(rest, more, m, a, B)
<1>1. ASSUME Only(q, B) PROVE Only(rest, B) /\ ack.type = a
  BY <1>1, TakenOnly
<1>2. ASSUME NEW k \in 1 .. Len(more), more[k].type = a
      PROVE  (\A j \in k .. Len(more) : more[j].type = a) /\ Only(rest, B)
  <2>1. CASE k \in 1 .. Len(r)
    <3>1. r[k].type = a
      BY <1>2, <2>1 DEF Put
    <3>2. (\A j \in k .. Len(r) : r[j].type = a) /\ Only(q, B)
      BY <2>1, <3>1 DEF Orderly
    <3> QED  BY <1>1, <2>1, <3>2 DEF Put
  <2>2. CASE k = Len(r) + 1
    <3>1. more[k] = ack /\ k .. Len(more) = {k}
      BY <2>2 DEF Put
    <3>2. q[1].type = m /\ 1 \in 1 .. Len(q)
      BY <1>2, <3>1 DEF Taken
    <3>3. Only(q, B)
      BY <3>2 DEF Orderly, Only
    <3> QED  BY <1>1, <1>2, <3>1, <3>3
  <2> QED  BY <2>1, <2>2 DEF Put
<1>3. ASSUME NEW k \in 1 .. Len(rest), rest[k].type = m, NEW j \in k .. Len(rest)
      PROVE  rest[j].type \in B
  <2>1. k + 1 \in 1 .. Len(q) /\ j + 1 \in k + 1 .. Len(q)
        /\ rest[k] = q[k + 1] /\ rest[j] = q[j + 1]
    BY DEF Taken
  <2> QED  BY <1>3, <2>1 DEF Orderly
<1> QED  BY <1>2, <1>3 DEF Orderly

\* A message is read, or lost, and not answered.
LEMMA OrderlyConsumed ==
  ASSUME NEW q, NEW rest, NEW r, NEW m, NEW a, NEW B,
         Orderly(q, r, m, a, B), Taken(q, rest)
  PROVE  Orderly(rest, r, m, a, B)
<1>1. ASSUME NEW k \in 1 .. Len(rest), rest[k].type = m, NEW j \in k .. Len(rest)
      PROVE  rest[j].type \in B
  <2>1. k + 1 \in 1 .. Len(q) /\ j + 1 \in k + 1 .. Len(q)
        /\ rest[k] = q[k + 1] /\ rest[j] = q[j + 1]
    BY DEF Taken
  <2> QED  BY <1>1, <2>1 DEF Orderly
<1> QED  BY <1>1, TakenOnly DEF Orderly

\* The client sends more of the operation, and may read an answer.
LEMMA OrderlyAdded ==
  ASSUME NEW q, NEW more, NEW r, NEW rest, NEW m, NEW a, NEW B, NEW M,
         Orderly(q, r, m, a, B), Added(q, more, M), LeftOf(r, rest),
         \A p \in M : p.type \in B
  PROVE  Orderly(more, rest, m, a, B)
<1>1. Only(q, B) => Only(more, B)
  BY AddedPackets
<1>2. ASSUME NEW k \in 1 .. Len(rest), rest[k].type = a
      PROVE  (\A j \in k .. Len(rest) : rest[j].type = a) /\ Only(q, B)
  <2>1. CASE rest = r
    BY <1>2, <2>1 DEF Orderly
  <2>2. CASE Taken(r, rest)
    <3>1. k + 1 \in 1 .. Len(r) /\ r[k + 1].type = a
      BY <1>2, <2>2 DEF Taken
    <3>2. (\A j \in k + 1 .. Len(r) : r[j].type = a) /\ Only(q, B)
      BY <3>1 DEF Orderly
    <3>3. \A j \in k .. Len(rest) :
            j + 1 \in k + 1 .. Len(r) /\ rest[j] = r[j + 1]
      BY <2>2 DEF Taken
    <3> QED  BY <3>2, <3>3
  <2> QED  BY <2>1, <2>2 DEF LeftOf
<1>3. ASSUME NEW k \in 1 .. Len(more), more[k].type = m, NEW j \in k .. Len(more)
      PROVE  more[j].type \in B
  <2>1. CASE j \in Len(q) + 1 .. Len(more)
    BY <2>1 DEF Added
  <2>2. CASE j \in 1 .. Len(q)
    <3>1. k \in 1 .. Len(q) /\ more[k] = q[k] /\ more[j] = q[j] /\ j \in k .. Len(q)
      BY <2>2 DEF Added
    <3> QED  BY <1>3, <3>1 DEF Orderly
  <2> QED  BY <2>1, <2>2 DEF Added
<1> QED  BY <1>1, <1>2, <1>3 DEF Orderly

\* The first message of an operation none is known of yet.
LEMMA OrderlyStarts ==
  ASSUME NEW q, NEW more, NEW r, NEW m, NEW a, NEW B, NEW p,
         Put(q, p, more), p.type \in B,
         \A k \in 1 .. Len(r) : r[k].type # a,
         \A k \in 1 .. Len(q) : q[k].type # m
  PROVE  Orderly(more, r, m, a, B)
<1>1. ASSUME NEW k \in 1 .. Len(more), more[k].type = m, NEW j \in k .. Len(more)
      PROVE  more[j].type \in B
  <2>1. k = Len(q) + 1 /\ j = k
    BY <1>1 DEF Put
  <2> QED  BY <2>1 DEF Put
<1> QED  BY <1>1 DEF Orderly

\* All packets are of the operation.
LEMMA OrderlyAlike ==
  ASSUME NEW q, NEW r, NEW m, NEW a, NEW B, Only(q, B), Only(r, {a})
  PROVE  Orderly(q, r, m, a, B)
<1>1. ASSUME NEW k \in 1 .. Len(r), NEW j \in k .. Len(r)
      PROVE  r[j].type = a
  BY DEF Only
<1>2. ASSUME NEW k \in 1 .. Len(q), NEW j \in k .. Len(q)
      PROVE  q[j].type \in B
  BY DEF Only
<1> QED  BY <1>1, <1>2 DEF Orderly

-----------------------------------------------------------------------------
(* The channels of the server that reads a packet.                          *)

\* A message that is answered and may come after the first one of operation o
\* is a message of o.
LEMMA BehindPairs ==
  ASSUME NEW m, NEW a, Pair(m, a), NEW o \in Op, o # "idle"
  PROVE  m \in Behind(o) => m = MsgType[o]
BY MsgTypes DEF Pair, Op, Behind

\* What the channels of a server are like within an operation.
LEMMA SequencedSaid ==
  ASSUME NEW s, op # "idle"
  PROVE  Sequenced(s) <=>
           /\ Orderly(toServer[s], toClient[s], MsgType[op], AckType[op], Behind(op))
           /\ op # "close2" /\ s \in recvServerId => CaughtUp(s, op)
           /\ op = "close2" => CloseLeaves(s)
BY DEF Sequenced, Orderly

\* The same after a step.
LEMMA SequencedNextSaid ==
  ASSUME NEW s, op' # "idle"
  PROVE  Sequenced(s)' <=>
           /\ Orderly(toServer'[s], toClient'[s], MsgType[op'], AckType[op'], Behind(op'))
           /\ op' # "close2" /\ s \in recvServerId' =>
                /\ Only(toClient'[s], {AckType[op']})
                /\ Only(toServer'[s], Behind(op'))
           /\ op' = "close2" => CloseLeaves(s)'
BY DEF Sequenced, Orderly, CaughtUp

\* Reading a message and answering it keeps both channels in order.
LEMMA ReplySequenced ==
  ASSUME IInv, NEW s \in Server, Sequenced(s), UNCHANGED clientVars,
         NEW ack, Pair(toServer[s][1].type, ack.type),
         Taken(toServer[s], toServer'[s]), Put(toClient[s], ack, toClient'[s])
  PROVE  Sequenced(s)'
<1>0. op' = op /\ recvServerId' = recvServerId /\ op \in Op
  BY Typing DEF clientVars, callVars
<1> SUFFICES ASSUME op # "idle" PROVE Sequenced(s)'
  BY <1>0 DEF Sequenced
<1>1. /\ toServer[s][1].type = MsgType[op] <=> ack.type = AckType[op]
      /\ toServer[s][1].type \in Behind(op) => toServer[s][1].type = MsgType[op]
  BY <1>0, Pairs, BehindPairs
<1>2. Orderly(toServer[s], toClient[s], MsgType[op], AckType[op], Behind(op))
  BY SequencedSaid
<1>3. Orderly(toServer'[s], toClient'[s], MsgType[op], AckType[op], Behind(op))
  BY <1>1, <1>2, OrderlyReplied
<1>4. ASSUME CaughtUp(s, op) PROVE CaughtUp(s, op)'
  BY <1>0, <1>1, <1>4, TakenOnly, PutOnly DEF CaughtUp
<1>5. ASSUME CloseLeaves(s) PROVE CloseLeaves(s)'
  <2>1. toServer[s][1].type \in {"COMMIT", "CLOSE"}
        /\ Only(toServer'[s], {"COMMIT", "CLOSE"})
    BY <1>5, TakenOnly DEF CloseLeaves
  <2>2. ack.type \in {"COMMITACK", "CLOSEACK"}
    BY <2>1 DEF Pair
  <2> QED  BY <1>5, <2>1, <2>2, PutOnly DEF CloseLeaves
<1> QED  BY <1>0, <1>3, <1>4, <1>5, SequencedSaid, SequencedNextSaid DEF CaughtUp

\* The same when nothing is answered.
LEMMA ConsumeSequenced ==
  ASSUME IInv, NEW s \in Server, Sequenced(s), UNCHANGED clientVars,
         Taken(toServer[s], toServer'[s]), toClient'[s] = toClient[s]
  PROVE  Sequenced(s)'
<1>0. op' = op /\ recvServerId' = recvServerId
  BY DEF clientVars, callVars
<1> SUFFICES ASSUME op # "idle" PROVE Sequenced(s)'
  BY <1>0 DEF Sequenced
<1>1. Orderly(toServer[s], toClient[s], MsgType[op], AckType[op], Behind(op))
  BY SequencedSaid
<1>2. Orderly(toServer'[s], toClient'[s], MsgType[op], AckType[op], Behind(op))
  BY <1>1, OrderlyConsumed
<1>3. CaughtUp(s, op) => CaughtUp(s, op)'
  BY <1>0, TakenOnly DEF CaughtUp
<1>4. CloseLeaves(s) => CloseLeaves(s)'
  BY TakenOnly DEF CloseLeaves
<1> QED  BY <1>0, <1>2, <1>3, <1>4, SequencedSaid, SequencedNextSaid DEF CaughtUp

\* A message is read and answered; the answer reports no error.
LEMMA ReplyLossyChannels ==
  ASSUME IInv, NEW s \in Server, LossyChannels(s), UNCHANGED clientVars,
         NEW ack, Pair(toServer[s][1].type, ack.type),
         Taken(toServer[s], toServer'[s]), Put(toClient[s], ack, toClient'[s]),
         ack.type # "INITACK" => ack.fileDesc >= 0,
         op = "close" /\ updateId = 0 /\ ack.type = "CLOSEACK" => ack.fileDesc = 0
  PROVE  LossyChannels(s)'
<1>0. op' = op /\ updateId' = updateId /\ isFileOpen' = isFileOpen
  BY DEF clientVars, callVars, fileVars, stagedVars
<1>q. \A k \in 1 .. Len(toServer'[s]) :
        \E j \in 1 .. Len(toServer[s]) : toServer'[s][k] = toServer[s][j]
  BY LeftPackets DEF LeftOf
<1>p. \A k \in 1 .. Len(toClient'[s]) :
        \/ k \in 1 .. Len(toClient[s]) /\ toClient'[s][k] = toClient[s][k]
        \/ toClient'[s][k] = ack
  BY DEF Put
<1>1. Sequenced(s)'
  BY ReplySequenced DEF LossyChannels
<1>2. Resting(s)'
  <2> SUFFICES ASSUME op = "idle" PROVE Resting(s)'
    BY <1>0 DEF Resting
  <2>1. CASE ~isFileOpen /\ CloseLeaves(s)
    <3>1. toServer[s][1].type \in {"COMMIT", "CLOSE"}
          /\ Only(toServer'[s], {"COMMIT", "CLOSE"})
      BY <2>1, TakenOnly DEF CloseLeaves
    <3>2. ack.type \in {"COMMITACK", "CLOSEACK"}
      BY <3>1 DEF Pair
    <3>3. CloseLeaves(s)'
      BY <2>1, <3>1, <3>2, PutOnly DEF CloseLeaves
    <3> QED  BY <1>0, <2>1, <3>3 DEF Resting
  <2>2. CASE \E o \in {"init", "open", "commit"} :
               /\ Only(toClient[s], {AckType[o]})
               /\ Only(toServer[s], {MsgType[o], "WRITEBLOCK"})
    <3>1. PICK o \in {"init", "open", "commit"} :
               /\ Only(toClient[s], {AckType[o]})
               /\ Only(toServer[s], {MsgType[o], "WRITEBLOCK"})
      BY <2>2
    <3>2. toServer[s][1].type \in {MsgType[o], "WRITEBLOCK"}
          /\ Only(toServer'[s], {MsgType[o], "WRITEBLOCK"})
      BY <3>1, TakenOnly
    <3>3. ack.type = AckType[o]
      BY <3>2, Pairs DEF Op
    <3>4. Only(toClient'[s], {AckType[o]})
      BY <3>1, <3>3, PutOnly
    <3> QED  BY <1>0, <3>2, <3>4 DEF Resting
  <2> QED  BY <2>1, <2>2 DEF LossyChannels, Resting
<1>3. NoOldVotes(s)'
  <2> SUFFICES ASSUME op \notin {"vote", "commit"} PROVE NoOldVotes(s)'
    BY <1>0 DEF NoOldVotes
  <2>1. toServer[s][1].type # "VOTE"
        /\ \A k \in 1 .. Len(toServer'[s]) : toServer'[s][k].type # "VOTE"
    BY <1>q DEF LossyChannels, NoOldVotes, Taken
  <2>2. ack.type # "VOTEACK"
    BY <2>1 DEF Pair
  <2>3. \A k \in 1 .. Len(toClient'[s]) : toClient'[s][k].type # "VOTEACK"
    BY <1>p, <2>2 DEF LossyChannels, NoOldVotes
  <2> QED  BY <2>1, <2>3 DEF NoOldVotes
<1>4. NoErrors(s)'
  <2>1. \A k \in 1 .. Len(toServer'[s]) : toServer'[s][k].type # "ABORT"
    BY <1>q DEF LossyChannels, NoErrors
  <2>2. ASSUME NEW k \in 1 .. Len(toClient'[s])
        PROVE  /\ toClient'[s][k].type # "INITACK" => toClient'[s][k].fileDesc >= 0
               /\ op = "close" /\ updateId = 0 /\ toClient'[s][k].type = "CLOSEACK" =>
                    toClient'[s][k].fileDesc = 0
    BY <1>p DEF LossyChannels, NoErrors
  <2> QED  BY <1>0, <2>1, <2>2 DEF NoErrors
<1> QED  BY <1>1, <1>2, <1>3, <1>4 DEF LossyChannels

\* A message is read and not answered, or lost.
LEMMA ConsumeLossyChannels ==
  ASSUME IInv, NEW s \in Server, LossyChannels(s), UNCHANGED clientVars,
         Taken(toServer[s], toServer'[s]), toClient'[s] = toClient[s]
  PROVE  LossyChannels(s)'
<1>0. op' = op /\ updateId' = updateId /\ isFileOpen' = isFileOpen
  BY DEF clientVars, callVars, fileVars, stagedVars
<1>q. \A k \in 1 .. Len(toServer'[s]) :
        \E j \in 1 .. Len(toServer[s]) : toServer'[s][k] = toServer[s][j]
  BY LeftPackets DEF LeftOf
<1>1. Sequenced(s)'
  BY ConsumeSequenced DEF LossyChannels
<1>2. Resting(s)'
  <2>1. CloseLeaves(s) => CloseLeaves(s)'
    BY TakenOnly DEF CloseLeaves
  <2>2. \A T : Only(toServer[s], T) => Only(toServer'[s], T)
    BY TakenOnly
  <2> QED  BY <1>0, <2>1, <2>2 DEF LossyChannels, Resting
<1>3. NoOldVotes(s)'
  BY <1>0, <1>q DEF LossyChannels, NoOldVotes
<1>4. NoErrors(s)'
  BY <1>0, <1>q DEF LossyChannels, NoErrors
<1> QED  BY <1>1, <1>2, <1>3, <1>4 DEF LossyChannels

\* The channels of a server that takes no step.
LEMMA LossyChannelsKept ==
  ASSUME NEW s, LossyChannels(s), UNCHANGED clientVars,
         toServer'[s] = toServer[s], toClient'[s] = toClient[s]
  PROVE  LossyChannels(s)'
<1>0. UNCHANGED <<op, updateId, isFileOpen, recvServerId>>
  BY DEF clientVars, callVars, fileVars, stagedVars
<1>1. Sequenced(s)'
  BY <1>0 DEF LossyChannels, Sequenced, CaughtUp, CloseLeaves
<1>2. Resting(s)' /\ NoOldVotes(s)' /\ NoErrors(s)'
  BY <1>0 DEF LossyChannels, Resting, NoOldVotes, NoErrors, CloseLeaves
<1> QED  BY <1>1, <1>2 DEF LossyChannels

-----------------------------------------------------------------------------
(* What the server that reads a packet holds.                               *)

\* The answers not yet read are those from before and perhaps ack.
AnswersAnd(s, ack) ==
  \A k \in 1 .. Len(toClient'[s]) :
    \/ toClient'[s][k] = ack
    \/ \E j \in 1 .. Len(toClient[s]) : toClient'[s][k] = toClient[s][j]

\* One put at the end, or none.
LEMMA AnswersPut ==
  ASSUME NEW s, NEW ack,
         \/ Put(toClient[s], ack, toClient'[s])
         \/ toClient'[s] = toClient[s]
  PROVE  AnswersAnd(s, ack)
<1>1. CASE Put(toClient[s], ack, toClient'[s])
  <2>1. \A k \in 1 .. Len(toClient'[s]) :
          \/ k \in 1 .. Len(toClient[s]) /\ toClient'[s][k] = toClient[s][k]
          \/ toClient'[s][k] = ack
    BY <1>1 DEF Put
  <2> QED  BY <2>1 DEF AnswersAnd
<1>2. CASE toClient'[s] = toClient[s]
  BY <1>2 DEF AnswersAnd
<1> QED  BY <1>1, <1>2

\* A packet that is no Commit, or is lost: the updates of the transaction stay
\* the only ones, and what the client believes of the server stays true.
LEMMA LossyPassed ==
  ASSUME IInv, NEW s \in Server, LossyHolds(s), UNCHANGED clientVars,
         Taken(toServer[s], toServer'[s]), NEW ack, AnswersAnd(s, ack),
         \/ toServer[s][1].type # "COMMIT"
         \/ /\ UNCHANGED <<fileFullname, updateMap, nextUpdateId>>
            /\ toClient' = toClient,
         \/ fileFullname'[s] = fileFullname[s]
         \/ fileFullname'[s] \in File /\ toServer[s][1].type = "OPENFILE",
         ack.type = "OPENFILEACK" => fileFullname'[s] \in File,
         ack.type # "COMMITACK",
         nextUpdateId'[s] \in Nat, nextUpdateId[s] <= nextUpdateId'[s],
         ack.type = "VOTEACK" => ack.updateId <= nextUpdateId'[s],
         OnlyMine(s)',
         updateMap[s] = clientUpdateMap /\ nextUpdateId[s] = updateId =>
           updateMap'[s] = updateMap[s] /\ nextUpdateId'[s] = nextUpdateId[s],
         disk'[s] = disk[s], fp'[s] = fp[s] \/ fp'[s] = NoFile,
         op = "close" /\ updateId = 0 /\ ack.type = "CLOSEACK" => fp'[s] = NoFile
  PROVE  LossyHolds(s)'
<1>0. UNCHANGED <<op, recvServerId, isFileOpen, fileName, clientUpdateMap,
                  updateId, promised, After>>
      /\ recvServerUpdateId' = recvServerUpdateId
  BY ClientSame DEF clientVars, stagedVars
<1>1. Opens(s)'
  <2>1. fileFullname[s] \in File => fileFullname'[s] \in File
    OBVIOUS
  <2> QED  BY <1>0, <2>1 DEF LossyHolds, Opens, AnswersAnd
<1>2. Votes(s)'
  <2> SUFFICES ASSUME op = "vote" PROVE Votes(s)'
    BY <1>0 DEF Votes
  <2>1. recvServerUpdateId[s] \in Int /\ nextUpdateId[s] \in Nat
    BY Typing, Numbers
  <2>2. recvServerUpdateId[s] <= nextUpdateId'[s]
    BY <2>1 DEF LossyHolds, Votes
  <2>3. ASSUME NEW k \in 1 .. Len(toClient'[s]), toClient'[s][k].type = "VOTEACK"
        PROVE  toClient'[s][k].updateId <= nextUpdateId'[s]
    <3>1. CASE toClient'[s][k] = ack
      BY <2>3, <3>1
    <3>2. CASE \E j \in 1 .. Len(toClient[s]) : toClient'[s][k] = toClient[s][j]
      <4>1. PICK j \in 1 .. Len(toClient[s]) : toClient'[s][k] = toClient[s][j]
        BY <3>2
      <4>2. toClient[s][j].updateId <= nextUpdateId[s]
        BY <2>3, <4>1 DEF LossyHolds, Votes
      <4>3. toClient[s][j].updateId \in Int
        <5>1. toClient[s][j] \in ServerMsg
          BY Typing, ElementOfSeq
        <5> QED  BY <2>3, <4>1, <5>1, VoteAckFields, Numbers
      <4> QED  BY <2>1, <4>1, <4>2, <4>3
    <3> QED  BY <3>1, <3>2 DEF AnswersAnd
  <2> QED  BY <1>0, <2>2, <2>3 DEF Votes
<1>3. \A a : a \in {"COMMITACK", "CLOSEACK"} /\ Answered(s, a)' =>
        Answered(s, a) \/ ack.type = a
  BY <1>0 DEF AnswersAnd, Answered
<1>4. Decided(s)'
  <2> SUFFICES ASSUME op = "commit" PROVE Decided(s)'
    BY <1>0 DEF Decided
  <2>1. toServer[s][1].type \in {"VOTE", "WRITEBLOCK", "COMMIT"}
        /\ Only(toServer'[s], {"VOTE", "WRITEBLOCK", "COMMIT"})
    BY TakenOnly DEF LossyHolds, Decided
  <2>2. fileFullname'[s] = fileName
    BY <2>1 DEF LossyHolds, Decided
  <2>3. CASE /\ updateMap[s] = clientUpdateMap /\ nextUpdateId[s] = updateId
             /\ ~Answered(s, "COMMITACK")
             /\ disk[s] = promised
    BY <1>0, <1>3, <2>1, <2>2, <2>3 DEF Decided
  <2>4. CASE /\ CarriedOut(s)
             /\ Only(toServer[s], {"COMMIT"})
             /\ disk[s][fileName] = After
    <3>1. toServer[s][1].type = "COMMIT" /\ Only(toServer'[s], {"COMMIT"})
      BY <2>4, TakenOnly
    <3>2. CarriedOut(s)'
      BY <2>4, <3>1 DEF CarriedOut, Cached
    <3> QED  BY <1>0, <2>1, <2>2, <2>4, <3>1, <3>2 DEF Decided
  <2> QED  BY <2>3, <2>4 DEF LossyHolds, Decided
<1>5. CommitsLeft(s)'
  <2>1. CASE toServer[s][1].type # "COMMIT"
    BY <2>1, CommitsPassed DEF LossyHolds
  <2>2. CASE UNCHANGED <<fileFullname, updateMap, nextUpdateId>>
    <3> SUFFICES ASSUME op # "commit", NEW k \in 1 .. Len(toServer'[s]),
                        toServer'[s][k].type = "COMMIT"
                 PROVE  /\ \A j \in 1 .. k : toServer'[s][j].type = "COMMIT"
                        /\ CarriedOut(s)'
      BY <1>0 DEF CommitsLeft
    <3>1. k + 1 \in 1 .. Len(toServer[s]) /\ toServer'[s][k] = toServer[s][k + 1]
      BY DEF Taken
    <3>2. /\ \A j \in 1 .. k + 1 : toServer[s][j].type = "COMMIT"
          /\ CarriedOut(s)
      BY <3>1 DEF LossyHolds, CommitsLeft
    <3>3. ASSUME NEW j \in 1 .. k PROVE toServer'[s][j].type = "COMMIT"
      <4>0. k \in Nat /\ k <= Len(toServer'[s]) /\ j \in 1 .. Len(toServer'[s])
        BY DEF Taken
      <4>1. j + 1 \in 1 .. k + 1 /\ toServer'[s][j] = toServer[s][j + 1]
        BY <4>0 DEF Taken
      <4>2. toServer[s][j + 1].type = "COMMIT"
        BY <3>2, <4>1
      <4> QED  BY <4>1, <4>2
    <3> QED  BY <2>2, <3>2, <3>3 DEF CarriedOut, Cached
  <2> QED  BY <2>1, <2>2
<1>6. AsPromised(s)'
  BY <1>0 DEF LossyHolds, AsPromised
<1>7. LetsGo(s)'
  BY <1>0, <1>3 DEF LossyHolds, LetsGo
<1> QED  BY <1>1, <1>2, <1>4, <1>5, <1>6, <1>7 DEF LossyHolds

\* The cache stays as it is.
LEMMA OnlyMinePassed ==
  ASSUME NEW s, OnlyMine(s), UNCHANGED clientVars,
         Taken(toServer[s], toServer'[s]), updateMap'[s] = updateMap[s]
  PROVE  OnlyMine(s)'
<1>1. UNCHANGED <<updateId, clientUpdateMap>>
  BY ClientSame
<1>2. \A k \in 1 .. Len(toServer'[s]) :
        \E j \in 1 .. Len(toServer[s]) : toServer'[s][k] = toServer[s][j]
  BY LeftPackets DEF LeftOf
<1> QED  BY <1>1, <1>2 DEF OnlyMine, Mine, Cached

\* A server that takes no step holds what it held.
LEMMA LossyHoldsKept ==
  ASSUME NEW s, LossyHolds(s), UNCHANGED clientVars,
         toServer'[s] = toServer[s], toClient'[s] = toClient[s],
         fileFullname'[s] = fileFullname[s], updateMap'[s] = updateMap[s],
         nextUpdateId'[s] = nextUpdateId[s], fp'[s] = fp[s], disk'[s] = disk[s]
  PROVE  LossyHolds(s)'
<1>0. UNCHANGED <<op, recvServerId, isFileOpen, fileName, clientUpdateMap,
                  updateId, promised, After>>
      /\ recvServerUpdateId' = recvServerUpdateId
  BY ClientSame DEF clientVars, stagedVars
<1>1. OnlyMine(s)' /\ Opens(s)' /\ Votes(s)'
  BY <1>0 DEF LossyHolds, OnlyMine, Opens, Votes, Mine, Cached
<1>2. CarriedOut(s)' <=> CarriedOut(s)
  BY DEF CarriedOut, Cached
<1>3. \A a : Answered(s, a)' <=> Answered(s, a)
  BY <1>0 DEF Answered
<1>4. Decided(s)' /\ CommitsLeft(s)' /\ AsPromised(s)' /\ LetsGo(s)'
  BY <1>0, <1>2, <1>3
     DEF LossyHolds, Decided, CommitsLeft, AsPromised, LetsGo
<1> QED  BY <1>1, <1>4 DEF LossyHolds

-----------------------------------------------------------------------------
(* The handlers of a server.                                                *)

\* What Tolerant says of a server is still true of it.
LossyKept(s) == LossyChannels(s)' /\ LossyHolds(s)'

\* procInitMessage changes nothing but the channels.
LEMMA ProcInitLossy ==
  ASSUME IInv, Ordered, NEW s \in Server, NEW i \in 1 .. Len(toServer[s]),
         LossyChannels(s), LossyHolds(s), ProcInitMessage(s, i),
         UNCHANGED clientVars
  PROVE  LossyKept(s)
<1> DEFINE ack == Plain("INITACK")
<1>0. ack \in ServerMsg /\ ack.type = "INITACK"
  BY BuiltMessages DEF Plain
<1> HIDE DEF ack
<1>1. /\ toServer[s][1].type = "INIT"
      /\ Taken(toServer[s], toServer'[s]) /\ Put(toClient[s], ack, toClient'[s])
  BY <1>0, Replied DEF ProcInitMessage, ack, Ordered
<1>2. LossyChannels(s)'
  BY <1>0, <1>1, ReplyLossyChannels DEF Pair
<1>3. UNCHANGED <<fileFullname, updateMap, nextUpdateId, fp, disk>>
  BY DEF ProcInitMessage, serverVars, memoryVars
<1>4. OnlyMine(s)' /\ AnswersAnd(s, ack)
  BY <1>1, <1>3, OnlyMinePassed, AnswersPut DEF LossyHolds
<1>5. LossyHolds(s)'
  BY <1>0, <1>1, <1>3, <1>4, Numbers, LossyPassed
<1> QED  BY <1>2, <1>5 DEF LossyKept

\* procOpenFileMessage takes a name.
LEMMA ProcOpenFileLossy ==
  ASSUME IInv, Ordered, NEW s \in Server, NEW i \in 1 .. Len(toServer[s]),
         LossyChannels(s), LossyHolds(s), ProcOpenFileMessage(s, i),
         UNCHANGED clientVars
  PROVE  LossyKept(s)
<1> DEFINE ack == Ack("OPENFILEACK", 0)
<1>0. ack \in ServerMsg /\ ack.type = "OPENFILEACK" /\ ack.fileDesc = 0
  BY BuiltMessages DEF Ack
<1> HIDE DEF ack
<1>1. /\ i = 1 /\ toServer[s][1].type = "OPENFILE"
      /\ Taken(toServer[s], toServer'[s]) /\ Put(toClient[s], ack, toClient'[s])
  BY <1>0, Replied DEF ProcOpenFileMessage, ack, Ordered
<1>2. LossyChannels(s)'
  BY <1>0, <1>1, ReplyLossyChannels DEF Pair
<1>3. UNCHANGED <<updateMap, nextUpdateId, fp, disk>>
      /\ fileFullname'[s] \in File
  <2>1. toServer[s][i] \in ClientMsg
    BY ReceivedType DEF IInv, ServerInv
  <2> QED  BY <1>1, <2>1, OpenFileFields, Typing DEF ProcOpenFileMessage
<1>4. OnlyMine(s)' /\ AnswersAnd(s, ack)
  BY <1>1, <1>3, OnlyMinePassed, AnswersPut DEF LossyHolds
<1>5. LossyHolds(s)'
  BY <1>0, <1>1, <1>3, <1>4, Numbers, LossyPassed
<1> QED  BY <1>2, <1>5 DEF LossyKept

\* procWriteBlockMessage: the block is the client's own under that id, whether
\* it was sent for the first time or again.
LEMMA ProcWriteBlockLossy ==
  ASSUME IInv, Ordered, NEW s \in Server, NEW i \in 1 .. Len(toServer[s]),
         LossyChannels(s), LossyHolds(s), ProcWriteBlockMessage(s, i),
         UNCHANGED clientVars
  PROVE  LossyKept(s)
<1> DEFINE m == toServer[s][1]
           none == Plain("INITACK")
<1>1. /\ i = 1 /\ m.type = "WRITEBLOCK" /\ 1 \in 1 .. Len(toServer[s])
      /\ Taken(toServer[s], toServer'[s]) /\ UNCHANGED toClient
  BY Consumed DEF ProcWriteBlockMessage, Ordered, Taken
<1>2. LossyChannels(s)'
  BY <1>1, ConsumeLossyChannels
<1>3. UNCHANGED <<fileFullname, nextUpdateId, fp, disk>>
  BY DEF ProcWriteBlockMessage
<1>4. m.updateId \in UpdateId /\ m.update \in Update
  BY <1>1, ReceivedType, WriteBlockFields DEF IInv, ServerInv
<1>5. updateMap[s] \in UpdateMap /\ updateMap \in [Server -> UpdateMap]
  BY Typing
<1>6. updateMap'[s] = IF updateMap[s][m.updateId] = NoUpdate
                        THEN [updateMap[s] EXCEPT ![m.updateId] = m.update]
                        ELSE updateMap[s]
  BY <1>1, <1>5 DEF ProcWriteBlockMessage
<1>7. Mine(m.updateId, m.update) /\ UNCHANGED <<updateId, clientUpdateMap>>
  BY <1>1, ClientSame DEF LossyHolds, OnlyMine
<1>8. OnlyMine(s)'
  <2>1. \A k \in 1 .. Len(toServer'[s]) :
          \E j \in 1 .. Len(toServer[s]) : toServer'[s][k] = toServer[s][j]
    BY <1>1, LeftPackets DEF LeftOf
  <2>2. ASSUME NEW k \in 1 .. Len(toServer'[s]),
               toServer'[s][k].type = "WRITEBLOCK"
        PROVE  Mine(toServer'[s][k].updateId, toServer'[s][k].update)
    BY <2>1, <2>2 DEF LossyHolds, OnlyMine
  <2>3. ASSUME NEW id \in UpdateId, updateMap'[s][id] # NoUpdate
        PROVE  Mine(id, updateMap'[s][id])
    <3>1. CASE updateMap'[s][id] = updateMap[s][id]
      BY <2>3, <3>1 DEF LossyHolds, OnlyMine, Cached
    <3>2. CASE updateMap'[s][id] # updateMap[s][id]
      <4>1. id = m.updateId /\ updateMap'[s][id] = m.update
        BY <1>4, <1>5, <1>6, <3>2 DEF UpdateMap
      <4> QED  BY <1>7, <4>1
    <3> QED  BY <3>1, <3>2
  <2> QED  BY <1>7, <2>2, <2>3 DEF OnlyMine, Mine, Cached
<1>9. ASSUME updateMap[s] = clientUpdateMap PROVE updateMap'[s] = updateMap[s]
  <2>1. m.updateId \in Cached(clientUpdateMap)
    BY <1>4, <1>7, Numbers DEF IInv, ClientInv, ClientMapComplete, Mine, UpdateId
  <2> QED  BY <1>6, <1>9, <2>1 DEF Cached
<1>10. none.type = "INITACK" /\ AnswersAnd(s, none)
  BY <1>1, AnswersPut DEF Plain
<1> HIDE DEF m, none
<1>11. LossyHolds(s)'
  <2>1. toServer[s][1].type = "WRITEBLOCK"
    BY <1>1 DEF m
  <2> QED  BY <1>1, <1>3, <1>8, <1>9, <1>10, <2>1, Numbers, LossyPassed
<1> QED  BY <1>2, <1>11 DEF LossyKept

\* procVoteMessage: the server votes for what it has counted, and in the commit
\* phase for everything.
LEMMA ProcVoteLossy ==
  ASSUME IInv, Ordered, NEW s \in Server, NEW i \in 1 .. Len(toServer[s]),
         LossyChannels(s), LossyHolds(s), ProcVoteMessage(s, i),
         UNCHANGED clientVars
  PROVE  LossyKept(s)
<1>b. PICK n \in nextUpdateId[s] .. MaxUpdates :
        /\ Receives(s, i, "VOTE")
        /\ ScanStopsAt(s, n)
        /\ nextUpdateId' = [nextUpdateId EXCEPT ![s] = n]
        /\ Reply(s, i, VoteAckMessage(n))
        /\ UNCHANGED <<fileFullname, updateMap, backup, fp, disk>>
  BY DEF ProcVoteMessage
<1> DEFINE ack == VoteAckMessage(n)
<1>0. ack \in ServerMsg /\ ack.type = "VOTEACK" /\ ack.fileDesc = 0
      /\ ack.updateId = n /\ n \in Nat
  <2>1. n \in 0 .. MaxUpdates /\ n \in Nat
    BY Numbers
  <2> QED  BY <2>1, BuiltMessages DEF VoteAckMessage
<1>1. /\ i = 1 /\ toServer[s][1].type = "VOTE"
      /\ Taken(toServer[s], toServer'[s]) /\ Put(toClient[s], ack, toClient'[s])
  BY <1>b, <1>0, Replied DEF Ordered
<1> HIDE DEF ack
<1>2. LossyChannels(s)'
  BY <1>0, <1>1, ReplyLossyChannels DEF Pair
<1>3. nextUpdateId'[s] = n /\ UNCHANGED <<fileFullname, updateMap, fp, disk>>
      /\ nextUpdateId[s] <= n
  BY <1>b, Typing, Numbers
<1>4. OnlyMine(s)' /\ AnswersAnd(s, ack)
  BY <1>1, <1>3, OnlyMinePassed, AnswersPut DEF LossyHolds
<1>5. updateMap[s] = clientUpdateMap /\ nextUpdateId[s] = updateId =>
        nextUpdateId'[s] = nextUpdateId[s]
  BY <1>b, <1>3, AllCounted
<1>6. n <= nextUpdateId'[s]
  BY <1>0, <1>3
<1>7. LossyHolds(s)'
  BY <1>0, <1>1, <1>3, <1>4, <1>5, <1>6, LossyPassed
<1> QED  BY <1>2, <1>7 DEF LossyKept

\* procCloseMessage: where the client has staged nothing, nothing is cached.
LEMMA ProcCloseLossy ==
  ASSUME IInv, Ordered, NEW s \in Server, NEW i \in 1 .. Len(toServer[s]),
         LossyChannels(s), LossyHolds(s), ProcCloseMessage(s, i),
         UNCHANGED clientVars
  PROVE  LossyKept(s)
<1>b. CloseRefused(s, i) \/ CloseDone(s, i)
  BY DEF ProcCloseMessage, CloseFails, Ordered
<1>c. PICK desc \in {0, 1} :
        /\ Receives(s, i, "CLOSE") /\ Reply(s, i, Ack("CLOSEACK", desc))
        /\ desc = 1 => Cached(updateMap[s]) # {} /\ UNCHANGED fp
        /\ desc = 0 => Cached(updateMap[s]) = {} /\ SetFp(s, NoFile)
        /\ UNCHANGED <<fileFullname, updateMap, nextUpdateId, backup, disk>>
  BY <1>b DEF CloseRefused, CloseDone, serverVars, memoryVars
<1> DEFINE ack == Ack("CLOSEACK", desc)
<1>0. ack \in ServerMsg /\ ack.type = "CLOSEACK" /\ ack.fileDesc = desc
  BY BuiltMessages DEF Ack
<1>1. /\ i = 1 /\ toServer[s][1].type = "CLOSE"
      /\ Taken(toServer[s], toServer'[s]) /\ Put(toClient[s], ack, toClient'[s])
  BY <1>c, <1>0, Replied DEF Ordered
<1> HIDE DEF ack
<1>2. updateId = 0 => desc = 0
  <2>1. ASSUME updateId = 0 PROVE Cached(updateMap[s]) = {}
    <3>1. \A id \in UpdateId : ~(id < 0)
      BY Numbers DEF UpdateId
    <3> QED  BY <2>1, <3>1 DEF LossyHolds, OnlyMine, Mine, Cached
  <2> QED  BY <1>c, <2>1
<1>3. LossyChannels(s)'
  <2>1. ack.fileDesc >= 0 /\ (updateId = 0 => ack.fileDesc = 0)
    BY <1>0, <1>2
  <2> QED  BY <1>0, <1>1, <2>1, ReplyLossyChannels DEF Pair
<1>4. /\ UNCHANGED <<fileFullname, updateMap, nextUpdateId, backup, disk>>
      /\ fp'[s] = IF desc = 0 THEN NoFile ELSE fp[s]
  BY <1>c, Typing DEF SetFp
<1>5. OnlyMine(s)' /\ AnswersAnd(s, ack)
  BY <1>1, <1>4, OnlyMinePassed, AnswersPut DEF LossyHolds
<1>6. LossyHolds(s)'
  BY <1>0, <1>1, <1>2, <1>4, <1>5, Numbers, LossyPassed
<1> QED  BY <1>3, <1>6 DEF LossyKept

\* A packet is lost on its way to the server.
LEMMA DropLossy ==
  ASSUME IInv, Ordered, NEW s \in Server, NEW i \in 1 .. Len(toServer[s]),
         LossyChannels(s), LossyHolds(s), DropClientPacket(s, i),
         UNCHANGED clientVars
  PROVE  /\ LossyKept(s) /\ UNCHANGED serverVars /\ UNCHANGED toClient
         /\ Taken(toServer[s], toServer'[s])
         /\ \A t \in Server : t # s => toServer'[t] = toServer[t]
<1> DEFINE none == Plain("INITACK")
<1>1. /\ Taken(toServer[s], toServer'[s]) /\ UNCHANGED toClient
      /\ \A t \in Server : t # s => toServer'[t] = toServer[t]
  <2>1. Receives(s, i, toServer[s][i].type) /\ Consume(s, i)
    BY DEF DropClientPacket, Receives
  <2> QED  BY <2>1, Consumed DEF Ordered
<1>2. LossyChannels(s)'
  BY <1>1, ConsumeLossyChannels
<1>3. UNCHANGED serverVars
      /\ UNCHANGED <<fileFullname, updateMap, nextUpdateId, fp, disk>>
  BY DEF DropClientPacket, serverVars, memoryVars
<1>4. none.type = "INITACK" /\ OnlyMine(s)' /\ AnswersAnd(s, none)
  BY <1>1, <1>3, OnlyMinePassed, AnswersPut DEF LossyHolds, Plain
<1> HIDE DEF none
<1>5. LossyHolds(s)'
  BY <1>1, <1>3, <1>4, Numbers, LossyPassed
<1> QED  BY <1>1, <1>2, <1>3, <1>5 DEF LossyKept

\* procCommitMessage: within the commit phase it writes all the updates there
\* are, or finds them written; outside it there is nothing to write.
LEMMA ProcCommitLossy ==
  ASSUME IInv, Ordered, NEW s \in Server, NEW i \in 1 .. Len(toServer[s]),
         LossyChannels(s), LossyHolds(s), ProcCommitMessage(s, i),
         UNCHANGED clientVars
  PROVE  /\ LossyKept(s)
         /\ \A f \in File : disk'[s][f] # disk[s][f] =>
              op = "commit" /\ f = fileName
<1>b. i = 1 /\ toServer[s][1].type = "COMMIT" /\ 1 \in 1 .. Len(toServer[s])
  BY DEF ProcCommitMessage, CommitOpenFails, CommitFlushFails, CommitDone,
         Receives, Deliverable, Ordered
<1>c. /\ nextUpdateId[s] \in 0 .. nextUpdateId[s]
      /\ CommitsLeft(s)
      /\ op = "commit" => fileFullname[s] = fileName
  BY Numbers DEF LossyHolds, Decided
<1>d. fileFullname[s] \in File /\ (op # "commit" => CarriedOut(s))
  BY <1>b, <1>c, CommitWrites
<1>e. CommitDone(s, i)
  <2>1. fileFullname[s] # NoFile
    BY <1>d, DataAssumption
  <2> QED  BY <2>1
           DEF ProcCommitMessage, CommitOpenFails, CommitFlushFails, Ordered
<1> DEFINE ack == Ack("COMMITACK", 0)
           n == nextUpdateId[s]
<1>0. ack \in ServerMsg /\ ack.type = "COMMITACK" /\ ack.fileDesc = 0
  BY BuiltMessages DEF Ack
<1> HIDE DEF ack, n
<1>1. Taken(toServer[s], toServer'[s]) /\ Put(toClient[s], ack, toClient'[s])
  BY <1>e, <1>0, Replied DEF CommitDone, ack, Ordered
<1>2. LossyChannels(s)'
  BY <1>0, <1>1, <1>b, ReplyLossyChannels DEF Pair
<1>3. /\ disk'[s] = Written(s, n)
      /\ updateMap'[s] = NoUpdates /\ nextUpdateId'[s] = 0
      /\ fileFullname' = fileFullname
  BY <1>e, Typing DEF CommitDone, Reset, n
<1>4. /\ Written(s, n) \in [File -> Content \cup {Absent}]
      /\ Written(s, n)[fileFullname[s]] =
           Apply(Opened(disk[s][fileFullname[s]]), updateMap[s], n)
      /\ Written(s, n)[fileFullname[s]] # Absent
      /\ CarriedOut(s) => Written(s, n) = disk[s]
      /\ \A f \in File : Written(s, n)[f] # disk[s][f] =>
           op = "commit" /\ f = fileName
  BY <1>b, <1>c, CommitWrites DEF n
<1>5. UNCHANGED <<op, recvServerId, isFileOpen, fileName, clientUpdateMap,
                  updateId, promised, After>>
      /\ recvServerUpdateId' = recvServerUpdateId
  BY ClientSame DEF clientVars, stagedVars
<1>6. CarriedOut(s)'
  BY <1>3, <1>4, <1>d, NoUpdatesFacts DEF CarriedOut, Cached
<1>7. AnswersAnd(s, ack)
  BY <1>1, AnswersPut
<1>8. OnlyMine(s)'
  <2>1. \A k \in 1 .. Len(toServer'[s]) :
          \E j \in 1 .. Len(toServer[s]) : toServer'[s][k] = toServer[s][j]
    BY <1>1, LeftPackets DEF LeftOf
  <2> QED  BY <1>3, <1>5, <2>1, NoUpdatesFacts DEF LossyHolds, OnlyMine, Mine
<1>9. Opens(s)'
  BY <1>0, <1>3, <1>5, <1>7 DEF LossyHolds, Opens, AnswersAnd
<1>10. Votes(s)'
  <2> SUFFICES ASSUME op = "vote" PROVE Votes(s)'
    BY <1>5 DEF Votes
  <2>1. nextUpdateId'[s] = nextUpdateId[s]
    BY <1>3, <1>d DEF CarriedOut
  <2> QED  BY <1>0, <1>5, <1>7, <2>1 DEF LossyHolds, Votes, AnswersAnd
<1>11. Decided(s)'
  <2> SUFFICES ASSUME op = "commit" PROVE Decided(s)'
    BY <1>5 DEF Decided
  <2>1. fileFullname[s] = fileName
    BY <1>c
  <2>2. Only(toServer[s], {"COMMIT"})
    <3>1. \A j \in 1 .. Len(toServer[s]) : toServer[s][j].type \in Behind("commit")
      BY <1>b, MsgTypes DEF LossyChannels, Sequenced
    <3> QED  BY <3>1, MsgTypes DEF Behind, Only
  <2>3. Only(toServer'[s], {"COMMIT"})
    BY <1>1, <2>2, TakenOnly
  <2>4. Only(toServer'[s], {"VOTE", "WRITEBLOCK", "COMMIT"})
    BY <2>3 DEF Only
  <2>5. disk'[s][fileName] = After
    <3>1. CASE /\ updateMap[s] = clientUpdateMap /\ n = updateId
               /\ disk[s] = promised
      BY <1>3, <1>4, <2>1, <3>1 DEF After
    <3>2. CASE CarriedOut(s) /\ disk[s][fileName] = After
      BY <1>3, <1>4, <3>2
    <3> QED  BY <3>1, <3>2 DEF LossyHolds, Decided, n
  <2> QED  BY <1>3, <1>5, <1>6, <2>1, <2>3, <2>4, <2>5 DEF Decided
<1>12. CommitsLeft(s)'
  <2> SUFFICES ASSUME op # "commit", NEW k \in 1 .. Len(toServer'[s]),
                      toServer'[s][k].type = "COMMIT",
                      NEW j \in 1 .. k
               PROVE  toServer'[s][j].type = "COMMIT"
    BY <1>5, <1>6 DEF CommitsLeft
  <2>1. /\ k + 1 \in 1 .. Len(toServer[s]) /\ j + 1 \in 1 .. k + 1
        /\ toServer'[s][k] = toServer[s][k + 1]
        /\ toServer'[s][j] = toServer[s][j + 1]
    BY <1>1 DEF Taken
  <2> QED  BY <1>c, <2>1 DEF CommitsLeft
<1>13. AsPromised(s)'
  BY <1>3, <1>4, <1>5, <1>d DEF LossyHolds, AsPromised
<1>14. LetsGo(s)'
  <2> SUFFICES ASSUME op = "close", Answered(s, "CLOSEACK")'
               PROVE  FALSE
    BY <1>5 DEF LetsGo
  <2>1. Answered(s, "CLOSEACK")
    BY <1>0, <1>1, AnsweredNow
  <2>2. Only(toServer[s], Behind("close"))
    BY <2>1, AckTypes DEF LossyChannels, Sequenced, CaughtUp, Answered
  <2>3. toServer[s][1].type = "CLOSE"
    BY <1>b, <2>2, MsgTypes DEF Behind, Only
  <2> QED  BY <1>b, <2>3
<1>15. LossyHolds(s)'
  BY <1>8, <1>9, <1>10, <1>11, <1>12, <1>13, <1>14 DEF LossyHolds
<1> QED  BY <1>2, <1>3, <1>4, <1>15 DEF LossyKept

\* Whatever packet a server reads.
LEMMA HandleLossy ==
  ASSUME IInv, Ordered, NEW s \in Server, NEW i \in 1 .. Len(toServer[s]),
         LossyChannels(s), LossyHolds(s), Handle(s, i), UNCHANGED clientVars
  PROVE  /\ LossyKept(s)
         /\ \A f \in File : disk'[s][f] # disk[s][f] =>
              op = "commit" /\ f = fileName
<1>1. CASE ProcInitMessage(s, i)
  BY <1>1, ProcInitLossy DEF ProcInitMessage, serverVars
<1>2. CASE ProcOpenFileMessage(s, i)
  BY <1>2, ProcOpenFileLossy DEF ProcOpenFileMessage
<1>3. CASE ProcWriteBlockMessage(s, i)
  BY <1>3, ProcWriteBlockLossy DEF ProcWriteBlockMessage
<1>4. CASE ProcVoteMessage(s, i)
  BY <1>4, ProcVoteLossy DEF ProcVoteMessage
<1>5. CASE ProcCommitMessage(s, i)
  BY <1>5, ProcCommitLossy
<1>6. CASE ProcAbortMessage(s, i)
  <2>1. toServer[s][i].type = "ABORT"
    BY <1>6 DEF ProcAbortMessage, AbortWithoutBackup, RollbackRemoveFails,
                RollbackReopenFails, RollbackFlushFails, RollbackDone, RollsBack,
                Receives
  <2> QED  BY <2>1 DEF LossyChannels, NoErrors
<1>7. CASE ProcCloseMessage(s, i)
  <2>1. UNCHANGED disk
    BY <1>7 DEF ProcCloseMessage, CloseRefused, CloseDone, CloseFails, serverVars
  <2> QED  BY <1>7, <2>1, ProcCloseLossy
<1> QED  BY <1>1, <1>2, <1>3, <1>4, <1>5, <1>6, <1>7 DEF Handle

\* A handler keeps the invariant.
LEMMA HandleTolerant ==
  ASSUME IInv, Ordered, Tolerant, NEW s \in Server,
         NEW i \in 1 .. Len(toServer[s]), Handle(s, i), UNCHANGED clientVars
  PROVE  Tolerant' /\ DiskFollowsDecision
<1>0. /\ \A t \in Server : t # s => Untouched(t)
      /\ serverIds' = serverIds /\ serverIds \subseteq Server
  BY HandleTouches, ClientSame, Typing
<1>u. UNCHANGED up
  BY DEF Handle, ProcInitMessage, ProcOpenFileMessage, ProcWriteBlockMessage,
     ProcVoteMessage, ProcCommitMessage, CommitOpenFails, CommitFlushFails,
     CommitDone, ProcAbortMessage, AbortWithoutBackup, RollbackRemoveFails,
     RollbackReopenFails, RollbackFlushFails, RollbackDone, RollsBack,
     ProcCloseMessage, CloseRefused, CloseDone, CloseFails, Receives
<1>1. LossyKept(s)
      /\ \A f \in File : disk'[s][f] # disk[s][f] => op = "commit" /\ f = fileName
  BY HandleLossy DEF Tolerant
<1>2. ASSUME NEW t \in Server PROVE LossyChannels(t)' /\ LossyHolds(t)'
  <2>1. CASE t = s
    BY <1>1, <2>1 DEF LossyKept
  <2>2. CASE t # s
    BY <1>0, <2>2, LossyChannelsKept, LossyHoldsKept DEF Tolerant, Untouched
  <2> QED  BY <2>1, <2>2
<1>3. LossyBooks'
  <2>1. \A t \in Server : fp'[t] # Dangling /\ backup'[t] = NoFile
    BY <1>0, FilePointerKept DEF Tolerant, LossyBooks, Untouched, Ordered
  <2> QED  BY <1>u, <2>1
           DEF Tolerant, LossyBooks, clientVars, callVars, fileVars,
               stagedVars, bookVars, promiseVars
<1>4. Fresh'
  <2> SUFFICES ASSUME clients = 0 \/ op = "init" PROVE Fresh'
    BY ClientSame DEF Fresh
  <2>1. \A t \in Server : Pristine(t)
    BY DEF Tolerant, Fresh
  <2>2. ASSUME NEW t \in Server PROVE Pristine(t)'
    <3>1. CASE t = s
      BY <2>1, <3>1, PristineKept DEF Ordered
    <3>2. CASE t # s
      BY <1>0, <2>1, <3>2 DEF Pristine, Untouched, Only, Cached
    <3> QED  BY <3>1, <3>2
  <2> QED  BY <2>2, ClientSame DEF Tolerant, Fresh
<1>5. DiskFollowsDecision
  BY <1>0, <1>1 DEF DiskFollowsDecision, Replicas, Untouched
<1> QED  BY <1>2, <1>3, <1>4, <1>5 DEF Tolerant

\* So does a packet that is lost on its way to a server.
LEMMA DropTolerant ==
  ASSUME IInv, Ordered, Tolerant, NEW s \in Server,
         NEW i \in 1 .. Len(toServer[s]), DropClientPacket(s, i),
         UNCHANGED clientVars
  PROVE  Tolerant' /\ DiskFollowsDecision
<1>1. /\ LossyKept(s) /\ UNCHANGED serverVars /\ UNCHANGED toClient
      /\ Taken(toServer[s], toServer'[s])
      /\ \A t \in Server : t # s => toServer'[t] = toServer[t]
  BY DropLossy DEF Tolerant
<1>2. UNCHANGED <<up, fileFullname, updateMap, nextUpdateId, backup, fp, disk>>
  BY <1>1 DEF DropClientPacket, serverVars, memoryVars
<1>3. ASSUME NEW t \in Server PROVE LossyChannels(t)' /\ LossyHolds(t)'
  <2>1. CASE t = s
    BY <1>1, <2>1 DEF LossyKept
  <2>2. CASE t # s
    BY <1>1, <1>2, <2>2, LossyChannelsKept, LossyHoldsKept DEF Tolerant
  <2> QED  BY <2>1, <2>2
<1>4. LossyBooks'
  BY <1>2 DEF Tolerant, LossyBooks, clientVars, callVars, fileVars,
              stagedVars, bookVars, promiseVars
<1>5. Fresh'
  <2> SUFFICES ASSUME clients = 0 \/ op = "init" PROVE Fresh'
    BY ClientSame DEF Fresh
  <2>1. \A t \in Server : Pristine(t)
    BY DEF Tolerant, Fresh
  <2>2. ASSUME NEW t \in Server PROVE Pristine(t)'
    <3>1. Only(toServer'[t], {"INIT"})
      <4>1. CASE t = s
        BY <1>1, <2>1, <4>1, TakenOnly DEF Pristine
      <4>2. CASE t # s
        BY <1>1, <2>1, <4>2 DEF Pristine
      <4> QED  BY <4>1, <4>2
    <3> QED  BY <1>1, <1>2, <2>1, <3>1 DEF Pristine, Cached
  <2> QED  BY <2>2, ClientSame DEF Tolerant, Fresh
<1>6. DiskFollowsDecision
  BY <1>2 DEF DiskFollowsDecision
<1> QED  BY <1>3, <1>4, <1>5, <1>6 DEF Tolerant

\* Every step of a server keeps the invariant, and writes no file the client
\* has not decided to commit; no server dies.
LEMMA ServerTolerant ==
  ASSUME IInv, Ordered, Tolerant, NEW s \in Server, ServerStep(s),
         UNCHANGED clientVars
  PROVE  Tolerant' /\ DiskFollowsDecision
<1>1. CASE ServerReads(s)
  <2>1. PICK i \in 1 .. Len(toServer[s]) : Handle(s, i) \/ DropClientPacket(s, i)
    BY <1>1 DEF ServerReads
  <2> QED  BY <2>1, HandleTolerant, DropTolerant
<1>2. ~Crash(s) /\ ~CrashInCommit(s)
  BY DEF Crash, CrashInCommit, Ordered
<1>3. ~BadFclose(s)
  BY DEF BadFclose, Tolerant, LossyBooks
<1> QED  BY <1>1, <1>2, <1>3 DEF ServerStep

-----------------------------------------------------------------------------
(* The channels and the client's steps.                                     *)

\* Nothing is sent.
LEMMA AddedNothing ==
  ASSUME NEW q, Len(q) \in Nat, NEW M
  PROVE  Added(q, q, M)
BY DEF Added

\* What this section calls left and what the earlier one does.
LEMMA LeftSaid ==
  ASSUME NEW t, Left(t)
  PROVE  LeftOf(toClient[t], toClient'[t])
BY DEF Left, LeftOf

\* What an operation may send does not confuse anybody about another one.
LEMMA BehindTypes ==
  ASSUME NEW o \in Op \ {"idle"}, NEW type \in Behind(o)
  PROVE  /\ o \notin {"vote", "commit"} => type # "VOTE"
         /\ o # "abort" => type # "ABORT"
         /\ o # "commit" => type # "COMMIT"
         /\ o = "commit" => type = "COMMIT"
         /\ o \in {"close", "close2"} => type = "CLOSE"
BY MsgTypes DEF Behind, Op

\* Within an operation: more of it is sent, or an answer is read.
LEMMA GoesOnChannels ==
  ASSUME NEW t, LossyChannels(t), op \in Op \ {"idle", "abort"},
         UNCHANGED <<op, isFileOpen, updateId>>,
         NEW M, Added(toServer[t], toServer'[t], M),
         \A p \in M : p.type \in Behind(op), Left(t),
         t \in recvServerId' =>
           \/ t \in recvServerId
           \/ 1 \in 1 .. Len(toClient[t]) /\ toClient[t][1].type = AckType[op]
  PROVE  LossyChannels(t)'
<1>1. LeftOf(toClient[t], toClient'[t])
  BY LeftSaid
<1>2. \A T : Only(toClient[t], T) => Only(toClient'[t], T)
  BY LeftAnswers
<1>3. \A T : Only(toServer[t], T) /\ (\A p \in M : p.type \in T) =>
        Only(toServer'[t], T)
  BY AddedPackets
<1>4. Sequenced(t)'
  <2>1. Orderly(toServer[t], toClient[t], MsgType[op], AckType[op], Behind(op))
    BY SequencedSaid DEF LossyChannels
  <2>2. Orderly(toServer'[t], toClient'[t], MsgType[op], AckType[op], Behind(op))
    BY <1>1, <2>1, OrderlyAdded
  <2>3. ASSUME op # "close2", t \in recvServerId' PROVE CaughtUp(t, op)
    <3>1. CASE t \in recvServerId
      BY <2>3, <3>1, SequencedSaid DEF LossyChannels
    <3>2. CASE 1 \in 1 .. Len(toClient[t]) /\ toClient[t][1].type = AckType[op]
      BY <2>1, <3>2 DEF Orderly, CaughtUp, Only
    <3> QED  BY <2>3, <3>1, <3>2
  <2>4. ASSUME CaughtUp(t, op)
        PROVE  Only(toClient'[t], {AckType[op]}) /\ Only(toServer'[t], Behind(op))
    BY <1>2, <1>3, <2>4 DEF CaughtUp
  <2>5. ASSUME op = "close2" PROVE CloseLeaves(t)'
    <3>1. CloseLeaves(t)
      BY <2>5, SequencedSaid DEF LossyChannels
    <3>2. \A p \in M : p.type \in {"COMMIT", "CLOSE"}
      BY <2>5, BehindTypes
    <3> QED  BY <1>2, <1>3, <3>1, <3>2 DEF CloseLeaves
  <2> QED  BY <2>2, <2>3, <2>4, <2>5, SequencedNextSaid
<1>5. Resting(t)'
  BY DEF Resting
<1>6. \A k \in 1 .. Len(toServer'[t]) :
        \/ toServer'[t][k] \in M
        \/ k \in 1 .. Len(toServer[t]) /\ toServer'[t][k] = toServer[t][k]
  BY AddedPackets
<1>7. \A k \in 1 .. Len(toClient'[t]) :
        \E j \in 1 .. Len(toClient[t]) : toClient'[t][k] = toClient[t][j]
  BY LeftAnswers
<1>8. \A p \in M : /\ op \notin {"vote", "commit"} => p.type # "VOTE"
                   /\ p.type # "ABORT"
  BY BehindTypes
<1>9. NoOldVotes(t)'
  BY <1>6, <1>7, <1>8 DEF LossyChannels, NoOldVotes
<1>10. NoErrors(t)'
  BY <1>6, <1>7, <1>8 DEF LossyChannels, NoErrors
<1> QED  BY <1>4, <1>5, <1>9, <1>10 DEF LossyChannels

\* An operation begins: no packet of an earlier one can be taken for one of
\* its own, or all there is is of an earlier call of the same function.
LEMMA StartsChannels ==
  ASSUME NEW t, NoErrors(t), NEW o \in {"open", "vote", "commit", "close", "close2"},
         op' = o, o # "close2" => recvServerId' = {}, Left(t),
         NEW m, Put(toServer[t], m, toServer'[t]), m.type = MsgType[o],
         \/ Clean(t, o)
         \/ o # "close" /\ CaughtUp(t, o),
         o = "close2" => CloseLeaves(t),
         o \notin {"vote", "commit"} =>
           /\ \A k \in 1 .. Len(toServer[t]) : toServer[t][k].type # "VOTE"
           /\ \A k \in 1 .. Len(toClient[t]) : toClient[t][k].type # "VOTEACK"
  PROVE  LossyChannels(t)'
<1>1. \A k \in 1 .. Len(toClient'[t]) :
        \E j \in 1 .. Len(toClient[t]) : toClient'[t][k] = toClient[t][j]
  BY LeftAnswers
<1>2. \A k \in 1 .. Len(toServer'[t]) :
        \/ toServer'[t][k] = m
        \/ k \in 1 .. Len(toServer[t]) /\ toServer'[t][k] = toServer[t][k]
  BY GotPackets DEF Got
<1>3. /\ m.type \in Behind(o) /\ m.type # "ABORT"
      /\ o \notin {"vote", "commit"} => m.type # "VOTE"
      /\ o = "close2" => m.type = "CLOSE"
  BY MsgTypes DEF Behind
<1>4. Sequenced(t)'
  <2>1. Orderly(toServer'[t], toClient'[t], MsgType[o], AckType[o], Behind(o))
    <3>1. CASE Clean(t, o)
      <4>1. \A k \in 1 .. Len(toClient'[t]) : toClient'[t][k].type # AckType[o]
        BY <1>1, <3>1 DEF Clean
      <4>2. \A k \in 1 .. Len(toServer[t]) : toServer[t][k].type # MsgType[o]
        BY <3>1 DEF Clean
      <4> QED  BY <1>3, <4>1, <4>2, OrderlyStarts
    <3>2. CASE CaughtUp(t, o)
      <4>1. Only(toClient'[t], {AckType[o]})
        BY <3>2, LeftAnswers DEF CaughtUp
      <4>2. Only(toServer'[t], Behind(o))
        BY <1>3, <3>2, PutOnly DEF CaughtUp
      <4> QED  BY <4>1, <4>2, OrderlyAlike
    <3> QED  BY <3>1, <3>2
  <2>2. ASSUME o = "close2" PROVE CloseLeaves(t)'
    <3>1. Only(toClient'[t], {"COMMITACK", "CLOSEACK"})
      BY <2>2, LeftAnswers DEF CloseLeaves
    <3>2. Only(toServer'[t], {"COMMIT", "CLOSE"})
      BY <1>3, <2>2, PutOnly DEF CloseLeaves
    <3> QED  BY <3>1, <3>2 DEF CloseLeaves
  <2> QED  BY <2>1, <2>2, SequencedNextSaid
<1>5. Resting(t)'
  BY DEF Resting
<1>6. NoOldVotes(t)'
  BY <1>1, <1>2, <1>3 DEF NoOldVotes
<1>7. NoErrors(t)'
  <2>1. \A k \in 1 .. Len(toServer'[t]) : toServer'[t][k].type # "ABORT"
    BY <1>2, <1>3 DEF NoErrors
  <2>2. ASSUME NEW k \in 1 .. Len(toClient'[t])
        PROVE  /\ toClient'[t][k].type # "INITACK" => toClient'[t][k].fileDesc >= 0
               /\ o = "close" => toClient'[t][k].type # "CLOSEACK"
    BY <1>1, AckTypes DEF NoErrors, Clean
  <2> QED  BY <2>1, <2>2 DEF NoErrors
<1> QED  BY <1>4, <1>5, <1>6, <1>7 DEF LossyChannels

\* The call is over.
LEMMA EndsChannels ==
  ASSUME NEW t, NoErrors(t), op' = "idle", Left(t), toServer'[t] = toServer[t],
         \/ ~isFileOpen' /\ CloseLeaves(t)
         \/ \E o \in {"init", "open", "commit"} :
              /\ Only(toClient[t], {AckType[o]})
              /\ Only(toServer[t], {MsgType[o], "WRITEBLOCK"})
  PROVE  LossyChannels(t)'
<1>1. \A T : Only(toClient[t], T) => Only(toClient'[t], T)
  BY LeftAnswers
<1>2. Resting(t)'
  <2>1. CloseLeaves(t) => CloseLeaves(t)'
    BY <1>1 DEF CloseLeaves
  <2> QED  BY <1>1, <2>1 DEF Resting
<1>3. Sequenced(t)'
  BY DEF Sequenced
<1>4. NoOldVotes(t)'
  <2>1. \A T : Only(toServer[t], T) /\ "VOTE" \notin T =>
          \A k \in 1 .. Len(toServer'[t]) : toServer'[t][k].type # "VOTE"
    BY DEF Only
  <2>2. \A T : Only(toClient'[t], T) /\ "VOTEACK" \notin T =>
          \A k \in 1 .. Len(toClient'[t]) : toClient'[t][k].type # "VOTEACK"
    BY DEF Only
  <2>3. /\ \A k \in 1 .. Len(toServer'[t]) : toServer'[t][k].type # "VOTE"
        /\ \A k \in 1 .. Len(toClient'[t]) : toClient'[t][k].type # "VOTEACK"
    <3>1. CASE CloseLeaves(t)
      BY <1>1, <2>1, <2>2, <3>1 DEF CloseLeaves
    <3>2. ASSUME NEW o \in {"init", "open", "commit"},
                 Only(toClient[t], {AckType[o]}),
                 Only(toServer[t], {MsgType[o], "WRITEBLOCK"})
          PROVE  /\ Only(toClient'[t], {AckType[o]})
                 /\ "VOTEACK" \notin {AckType[o]}
                 /\ "VOTE" \notin {MsgType[o], "WRITEBLOCK"}
      BY <1>1, <3>2, AckTypes, MsgTypes
    <3> QED  BY <2>1, <2>2, <3>1, <3>2
  <2> QED  BY <2>3 DEF NoOldVotes
<1>5. NoErrors(t)'
  <2>1. \A k \in 1 .. Len(toClient'[t]) :
          \E j \in 1 .. Len(toClient[t]) : toClient'[t][k] = toClient[t][j]
    BY LeftAnswers
  <2> QED  BY <2>1 DEF NoErrors
<1> QED  BY <1>2, <1>3, <1>4, <1>5 DEF LossyChannels

\* What is left of an earlier call does not confuse the next one.
LEMMA RestingStarts ==
  ASSUME NEW t, LossyChannels(t), op = "idle", NEW o \in {"open", "vote", "close"},
         o = "close" => isFileOpen
  PROVE  /\ Clean(t, o) \/ (o = "open" /\ CaughtUp(t, o))
         /\ \A k \in 1 .. Len(toServer[t]) : toServer[t][k].type # "VOTE"
         /\ \A k \in 1 .. Len(toClient[t]) : toClient[t][k].type # "VOTEACK"
<1>1. /\ \A k \in 1 .. Len(toServer[t]) : toServer[t][k].type # "VOTE"
      /\ \A k \in 1 .. Len(toClient[t]) : toClient[t][k].type # "VOTEACK"
  BY DEF LossyChannels, NoOldVotes
<1>2. CASE ~isFileOpen /\ CloseLeaves(t)
  <2>1. o # "close"
    BY <1>2
  <2>2. Clean(t, o)
    BY <1>2, <2>1, AckTypes, MsgTypes DEF CloseLeaves, Clean, Only
  <2> QED  BY <1>1, <2>2
<1>3. ASSUME NEW o0 \in {"init", "open", "commit"},
             Only(toClient[t], {AckType[o0]}),
             Only(toServer[t], {MsgType[o0], "WRITEBLOCK"})
      PROVE  Clean(t, o) \/ (o = "open" /\ CaughtUp(t, o))
  <2>1. CASE o = o0
    <3>1. o = "open" /\ Behind(o) = {MsgType[o], "WRITEBLOCK"}
      BY <2>1, <1>3 DEF Behind
    <3> QED  BY <1>3, <2>1, <3>1 DEF CaughtUp
  <2>2. CASE o # o0
    <3>1. AckType[o] # AckType[o0] /\ MsgType[o] \notin {MsgType[o0], "WRITEBLOCK"}
      BY <2>2, AckTypes, MsgTypes
    <3>2. Clean(t, o)
      BY <1>3, <3>1 DEF Clean, Only
    <3> QED  BY <3>2
  <2> QED  BY <2>1, <2>2
<1> QED  BY <1>1, <1>2, <1>3 DEF LossyChannels, Resting

-----------------------------------------------------------------------------
(* What a server holds and the client's steps.                              *)

\* A Commit left over is still in front of whatever is sent after it.
LEMMA CommitsBehind ==
  ASSUME IInv, NEW t \in Server, CommitsLeft(t), op # "commit",
         NEW M, Added(toServer[t], toServer'[t], M),
         \A p \in M : p.type # "COMMIT", UNCHANGED serverVars
  PROVE  CommitsLeft(t)'
<1>0. UNCHANGED <<fileFullname, updateMap, nextUpdateId, disk>>
  BY DEF serverVars, memoryVars
<1> SUFFICES ASSUME NEW k \in 1 .. Len(toServer'[t]), toServer'[t][k].type = "COMMIT"
             PROVE  /\ \A j \in 1 .. k : toServer'[t][j].type = "COMMIT"
                    /\ CarriedOut(t)
  BY <1>0 DEF CommitsLeft, CarriedOut, Cached
<1>1. k \in 1 .. Len(toServer[t]) /\ toServer'[t][k] = toServer[t][k]
  BY AddedPackets
<1>2. \A j \in 1 .. k : j \in 1 .. Len(toServer[t]) /\ toServer'[t][j] = toServer[t][j]
  BY <1>1 DEF Added
<1> QED  BY <1>1, <1>2 DEF CommitsLeft

\* The updates stay the client's own, if those that are sent are.
LEMMA OnlyMineAdded ==
  ASSUME NEW t, OnlyMine(t), NEW M, Added(toServer[t], toServer'[t], M),
         UNCHANGED <<clientUpdateMap, updateId>>, UNCHANGED serverVars,
         \A p \in M : p.type = "WRITEBLOCK" => Mine(p.updateId, p.update)
  PROVE  OnlyMine(t)'
<1>0. UNCHANGED updateMap
  BY DEF serverVars, memoryVars
<1>1. ASSUME NEW k \in 1 .. Len(toServer'[t]), toServer'[t][k].type = "WRITEBLOCK"
      PROVE  Mine(toServer'[t][k].updateId, toServer'[t][k].update)
  BY <1>1, AddedPackets DEF OnlyMine
<1> QED  BY <1>0, <1>1 DEF OnlyMine, Mine, Cached

\* Within an operation: more of it is sent, or an answer is read.
LEMMA GoesOnHolds ==
  ASSUME IInv, NEW t \in Server, LossyHolds(t), op \in Op \ {"idle", "init", "abort"},
         op' = op, UNCHANGED transactionVars, UNCHANGED serverVars,
         NEW M, Added(toServer[t], toServer'[t], M),
         \A p \in M : /\ p.type \in Behind(op)
                      /\ p.type = "WRITEBLOCK" => Mine(p.updateId, p.update),
         Left(t),
         t \in recvServerId' =>
           \/ t \in recvServerId
           \/ 1 \in 1 .. Len(toClient[t]) /\ toClient[t][1].type = AckType[op],
         op = "vote" => recvServerUpdateId'[t] <= nextUpdateId[t]
  PROVE  LossyHolds(t)'
<1>0. /\ UNCHANGED <<isFileOpen, fileName, clientUpdateMap, updateId, promised, After>>
      /\ UNCHANGED <<fileFullname, updateMap, nextUpdateId, fp, disk>>
  BY DEF transactionVars, serverVars, memoryVars, After
<1>1. \A k \in 1 .. Len(toClient'[t]) :
        \E j \in 1 .. Len(toClient[t]) : toClient'[t][k] = toClient[t][j]
  BY LeftAnswers
<1>2. Answered(t, AckType[op])' => Answered(t, AckType[op])
  BY AnsweredLeft
<1>3. OnlyMine(t)'
  BY <1>0, OnlyMineAdded DEF LossyHolds
<1>4. Opens(t)'
  <2>1. isFileOpen \/ (op = "open" /\ t \in recvServerId') => fileFullname[t] \in File
    BY AckTypes DEF LossyHolds, Opens
  <2>2. ASSUME NEW k \in 1 .. Len(toClient'[t]), toClient'[t][k].type = "OPENFILEACK"
        PROVE  fileFullname[t] \in File
    BY <1>1, <2>2 DEF LossyHolds, Opens
  <2> QED  BY <1>0, <2>1, <2>2 DEF Opens
<1>5. Votes(t)'
  <2> SUFFICES ASSUME op = "vote" PROVE Votes(t)'
    BY DEF Votes
  <2>1. ASSUME NEW k \in 1 .. Len(toClient'[t]), toClient'[t][k].type = "VOTEACK"
        PROVE  toClient'[t][k].updateId <= nextUpdateId[t]
    BY <1>1, <2>1 DEF LossyHolds, Votes
  <2> QED  BY <1>0, <2>1 DEF Votes
<1>6. Decided(t)'
  <2> SUFFICES ASSUME op = "commit" PROVE Decided(t)'
    BY DEF Decided
  <2>1. \A p \in M : p.type = "COMMIT"
    BY BehindTypes
  <2>2. \A T : Only(toServer[t], T) /\ "COMMIT" \in T => Only(toServer'[t], T)
    BY <2>1, AddedPackets
  <2>3. /\ Only(toServer'[t], {"VOTE", "WRITEBLOCK", "COMMIT"})
        /\ Only(toServer[t], {"COMMIT"}) => Only(toServer'[t], {"COMMIT"})
    BY <2>2 DEF LossyHolds, Decided
  <2>4. Answered(t, "COMMITACK")' => Answered(t, "COMMITACK")
    BY <1>2, AckTypes
  <2> QED  BY <1>0, <2>3, <2>4 DEF LossyHolds, Decided, CarriedOut, Cached
<1>7. CommitsLeft(t)'
  <2>1. CASE op = "commit"
    BY <2>1 DEF CommitsLeft
  <2>2. CASE op # "commit"
    <3>1. \A p \in M : p.type # "COMMIT"
      BY <2>2, BehindTypes
    <3> QED  BY <2>2, <3>1, CommitsBehind DEF LossyHolds
  <2> QED  BY <2>1, <2>2
<1>8. AsPromised(t)'
  BY <1>0 DEF LossyHolds, AsPromised
<1>9. LetsGo(t)'
  <2>1. op = "close" => (Answered(t, "CLOSEACK")' => Answered(t, "CLOSEACK"))
    BY <1>2, AckTypes
  <2> QED  BY <1>0, <2>1 DEF LossyHolds, LetsGo
<1> QED  BY <1>3, <1>4, <1>5, <1>6, <1>7, <1>8, <1>9 DEF LossyHolds

\* Another operation begins: OpenFile, Vote or Close.
LEMMA StartsHolds ==
  ASSUME IInv, NEW t \in Server, LossyHolds(t), op # "commit",
         NEW o \in {"open", "vote", "close"}, op' = o, recvServerId' = {}, Left(t),
         o # "open" => Clean(t, o),
         UNCHANGED <<isFileOpen, clientUpdateMap, updateId, promised>>,
         UNCHANGED serverVars,
         o = "vote" => recvServerUpdateId'[t] = -1,
         NEW m, Put(toServer[t], m, toServer'[t]), m.type = MsgType[o]
  PROVE  LossyHolds(t)'
<1>0. UNCHANGED <<fileFullname, updateMap, nextUpdateId, fp, disk>>
  BY DEF serverVars, memoryVars
<1>1. \A k \in 1 .. Len(toClient'[t]) :
        \E j \in 1 .. Len(toClient[t]) : toClient'[t][k] = toClient[t][j]
  BY LeftAnswers
<1>2. Added(toServer[t], toServer'[t], {m})
  BY PutAdds
<1>3. m.type # "WRITEBLOCK" /\ m.type # "COMMIT"
  BY MsgTypes
<1>4. OnlyMine(t)'
  BY <1>0, <1>2, <1>3, OnlyMineAdded DEF LossyHolds
<1>5. Opens(t)'
  <2>1. ASSUME NEW k \in 1 .. Len(toClient'[t]), toClient'[t][k].type = "OPENFILEACK"
        PROVE  fileFullname[t] \in File
    BY <1>1, <2>1 DEF LossyHolds, Opens
  <2> QED  BY <1>0, <2>1 DEF LossyHolds, Opens
<1>6. Votes(t)'
  <2> SUFFICES ASSUME o = "vote" PROVE Votes(t)'
    BY DEF Votes
  <2>1. \A k \in 1 .. Len(toClient'[t]) : toClient'[t][k].type # "VOTEACK"
    BY <1>1, AckTypes DEF Clean
  <2> QED  BY <1>0, <2>1, Numbers DEF Votes
<1>7. CommitsLeft(t)'
  BY <1>2, <1>3, CommitsBehind DEF LossyHolds
<1>8. Decided(t)' /\ AsPromised(t)'
  BY <1>0 DEF LossyHolds, Decided, AsPromised
<1>9. LetsGo(t)'
  <2>1. o = "close" => \A k \in 1 .. Len(toClient'[t]) : toClient'[t][k].type # "CLOSEACK"
    BY <1>1, AckTypes DEF Clean
  <2> QED  BY <2>1 DEF LetsGo, Answered
<1> QED  BY <1>4, <1>5, <1>6, <1>7, <1>8, <1>9 DEF LossyHolds

\* A call returns that leaves the files as they are.
LEMMA EndsHolds ==
  ASSUME IInv, NEW t \in Server, LossyHolds(t), op # "commit", op' = "idle",
         toServer'[t] = toServer[t], Left(t),
         UNCHANGED <<clientUpdateMap, updateId, promised>>, UNCHANGED serverVars,
         isFileOpen' => fileFullname[t] \in File
  PROVE  LossyHolds(t)'
<1>0. UNCHANGED <<fileFullname, updateMap, nextUpdateId, fp, disk>>
  BY DEF serverVars, memoryVars
<1>1. \A k \in 1 .. Len(toClient'[t]) :
        \E j \in 1 .. Len(toClient[t]) : toClient'[t][k] = toClient[t][j]
  BY LeftAnswers
<1>2. OnlyMine(t)'
  BY <1>0 DEF LossyHolds, OnlyMine, Mine, Cached
<1>3. Opens(t)'
  <2>1. ASSUME NEW k \in 1 .. Len(toClient'[t]), toClient'[t][k].type = "OPENFILEACK"
        PROVE  fileFullname[t] \in File
    BY <1>1, <2>1 DEF LossyHolds, Opens
  <2> QED  BY <1>0, <2>1 DEF Opens
<1>4. Votes(t)' /\ Decided(t)' /\ LetsGo(t)'
  BY DEF Votes, Decided, LetsGo
<1>5. CommitsLeft(t)' /\ AsPromised(t)'
  BY <1>0 DEF LossyHolds, CommitsLeft, AsPromised, CarriedOut, Cached
<1> QED  BY <1>2, <1>3, <1>4, <1>5 DEF LossyHolds

\* Who has counted as many updates as the client has staged has the client's
\* updates and no other.
LEMMA CountedIsAll ==
  ASSUME IInv, NEW t \in Server, OnlyMine(t), updateId <= nextUpdateId[t]
  PROVE  updateMap[t] = clientUpdateMap /\ nextUpdateId[t] = updateId
<1>1. /\ updateMap[t] \in UpdateMap /\ clientUpdateMap \in UpdateMap
      /\ nextUpdateId[t] \in 0 .. MaxUpdates /\ updateId \in 0 .. MaxUpdates
      /\ MaxUpdates \in Nat
  BY Typing, Numbers
<1>2. \A id \in UpdateId : id < nextUpdateId[t] => updateMap[t][id] # NoUpdate
  BY DEF IInv, ServerInv, ServerPrefix, HasPrefix
<1>3. \A id \in UpdateId : updateMap[t][id] # NoUpdate =>
        id < updateId /\ updateMap[t][id] = clientUpdateMap[id]
  BY DEF OnlyMine, Mine, Cached
<1>4. \A id \in UpdateId : clientUpdateMap[id] # NoUpdate => id < updateId
  BY <1>1 DEF IInv, ClientInv, ClientMapComplete, Cached, UpdateId
<1>5. nextUpdateId[t] = updateId
  <2> SUFFICES ASSUME updateId < nextUpdateId[t] PROVE FALSE
    BY <1>1
  <2>1. updateId \in UpdateId
    BY <1>1 DEF UpdateId
  <2>2. updateId < updateId
    BY <1>2, <1>3, <2>1
  <2> QED  BY <1>1, <2>2
<1>6. \A id \in UpdateId : updateMap[t][id] = clientUpdateMap[id]
  <2> SUFFICES ASSUME NEW id \in UpdateId
               PROVE  updateMap[t][id] = clientUpdateMap[id]
    OBVIOUS
  <2>1. CASE id < updateId
    BY <1>2, <1>3, <1>5, <2>1
  <2>2. CASE ~(id < updateId)
    BY <1>3, <1>4, <2>2
  <2> QED  BY <2>1, <2>2
<1>7. updateMap[t] = [id \in UpdateId |-> updateMap[t][id]]
      /\ clientUpdateMap = [id \in UpdateId |-> clientUpdateMap[id]]
  BY <1>1 DEF UpdateMap
<1> QED  BY <1>5, <1>6, <1>7

\* All have voted for all the updates: whoever has, has them and the file.
LEMMA DecidesHolds ==
  ASSUME IInv, Ordered, NEW t \in Server, LossyHolds(t), op = "vote", op' = "commit",
         isFileOpen, CaughtUp(t, "vote"), updateId <= nextUpdateId[t],
         recvServerId' = {}, Left(t), UNCHANGED transactionVars, UNCHANGED serverVars,
         NEW m, Put(toServer[t], m, toServer'[t]), m.type = "COMMIT"
  PROVE  LossyHolds(t)'
<1>0. /\ UNCHANGED <<isFileOpen, fileName, clientUpdateMap, updateId, promised>>
      /\ UNCHANGED <<fileFullname, updateMap, nextUpdateId, fp, disk>>
  BY DEF transactionVars, serverVars, memoryVars
<1>1. /\ Only(toClient[t], {"VOTEACK"}) /\ Only(toServer[t], {"VOTE", "WRITEBLOCK"})
  BY AckTypes, MsgTypes DEF CaughtUp, Behind
<1>2. Only(toClient'[t], {"VOTEACK"})
  BY <1>1, LeftAnswers
<1>3. OnlyMine(t)'
  <2>1. Added(toServer[t], toServer'[t], {m})
    BY PutAdds
  <2> QED  BY <1>0, <2>1, OnlyMineAdded DEF LossyHolds
<1>4. Opens(t)'
  BY <1>0, <1>2 DEF LossyHolds, Opens, Only
<1>5. Votes(t)' /\ CommitsLeft(t)' /\ AsPromised(t)' /\ LetsGo(t)'
  BY DEF Votes, CommitsLeft, AsPromised, LetsGo
<1>6. Decided(t)'
  <2>1. fileFullname[t] = fileName
    <3>1. fileFullname[t] \in File /\ fileName \in File
      BY DEF LossyHolds, Opens, IInv, ClientInv, FileNamed
    <3> QED  BY <3>1 DEF Ordered
  <2>2. Only(toServer'[t], {"VOTE", "WRITEBLOCK", "COMMIT"})
    <3>1. Only(toServer[t], {"VOTE", "WRITEBLOCK", "COMMIT"})
      BY <1>1 DEF Only
    <3> QED  BY <3>1, PutOnly
  <2>3. updateMap[t] = clientUpdateMap /\ nextUpdateId[t] = updateId
    BY CountedIsAll DEF LossyHolds
  <2>4. ~Answered(t, "COMMITACK")'
    BY <1>2 DEF Answered, Only
  <2>5. disk[t] = promised
    BY DEF LossyHolds, AsPromised
  <2> QED  BY <1>0, <2>1, <2>2, <2>3, <2>4, <2>5 DEF Decided
<1> QED  BY <1>3, <1>4, <1>5, <1>6 DEF LossyHolds

\* A server that answered the Commit has the updates in the file, and none in
\* its cache.
LEMMA CommittedLossyHolds ==
  ASSUME IInv, Ordered, NEW t \in Server, LossyHolds(t), op = "commit",
         CaughtUp(t, "commit"), Answered(t, "COMMITACK"),
         ResetClient, promised' = [promised EXCEPT ![fileName] = After],
         UNCHANGED <<isFileOpen, fileName>>, UNCHANGED serverVars,
         Left(t), op' \in {"idle", "close2"},
         \/ toServer'[t] = toServer[t]
         \/ \E m : Put(toServer[t], m, toServer'[t]) /\ m.type = "CLOSE"
  PROVE  LossyHolds(t)'
<1>0. UNCHANGED <<fileFullname, updateMap, nextUpdateId, fp, disk>>
  BY DEF serverVars, memoryVars
<1>1. Only(toClient[t], {"COMMITACK"}) /\ Only(toServer[t], {"COMMIT"})
  BY AckTypes, MsgTypes DEF CaughtUp, Behind
<1>2. /\ CarriedOut(t) /\ fileFullname[t] = fileName /\ disk[t][fileName] = After
  BY DEF LossyHolds, Decided
<1>3. Only(toClient'[t], {"COMMITACK"})
  BY <1>1, LeftAnswers
<1>4. \A k \in 1 .. Len(toServer'[t]) :
        \/ toServer'[t][k].type = "CLOSE" /\ k = Len(toServer[t]) + 1
        \/ k \in 1 .. Len(toServer[t]) /\ toServer'[t][k] = toServer[t][k]
  BY DEF Put
<1>5. \A k \in 1 .. Len(toServer'[t]) : toServer'[t][k].type \in {"CLOSE", "COMMIT"}
  BY <1>1, <1>4 DEF Only
<1>6. OnlyMine(t)'
  BY <1>0, <1>2, <1>5 DEF OnlyMine, CarriedOut, Cached
<1>7. Opens(t)'
  BY <1>0, <1>2, <1>3 DEF Opens, CarriedOut, Only
<1>8. Votes(t)' /\ Decided(t)' /\ LetsGo(t)'
  BY DEF Votes, Decided, LetsGo
<1>9. CommitsLeft(t)'
  <2> SUFFICES ASSUME NEW k \in 1 .. Len(toServer'[t]),
                      toServer'[t][k].type = "COMMIT",
                      NEW j \in 1 .. k
               PROVE  toServer'[t][j].type = "COMMIT"
    BY <1>0, <1>2 DEF CommitsLeft, CarriedOut, Cached
  <2>1. k \in 1 .. Len(toServer[t]) /\ Len(toServer[t]) \in Nat
    BY <1>4, Numbers
  <2>2. j \in 1 .. Len(toServer[t]) /\ toServer'[t][j] = toServer[t][j]
    BY <2>1 DEF Put
  <2> QED  BY <1>1, <2>2 DEF Only
<1>10. AsPromised(t)'
  <2>1. promised \in [File -> Content \cup {Absent}]
        /\ disk[t] \in [File -> Content \cup {Absent}]
    BY Typing
  <2>2. \A f \in File : f = fileName
    <3>1. fileName \in File
      BY <1>2 DEF CarriedOut
    <3> QED  BY <3>1 DEF Ordered
  <2>3. \A f \in File : promised'[f] = disk[t][f]
    BY <1>2, <2>1, <2>2
  <2>4. promised' \in [File -> {promised'[f] : f \in File}]
        /\ disk[t] \in [File -> {disk[t][f] : f \in File}]
    BY <2>1
  <2>5. disk[t] = promised'
    BY <2>3, <2>4
  <2> QED  BY <1>0, <2>5 DEF AsPromised
<1> QED  BY <1>6, <1>7, <1>8, <1>9, <1>10 DEF LossyHolds

\* WriteBlock: one update more is the client's, and it is sent.
LEMMA WriteBlockLossyHolds ==
  ASSUME IInv, NEW t \in Server, LossyHolds(t), op = "idle", op' = "idle",
         NEW u \in Update, updateId < MaxUpdates,
         clientUpdateMap' = [clientUpdateMap EXCEPT ![updateId] = u],
         updateId' = updateId + 1,
         UNCHANGED <<isFileOpen, promised, toClient>>, UNCHANGED serverVars,
         Put(toServer[t], WriteBlockMessage(updateId, u), toServer'[t])
  PROVE  LossyHolds(t)'
<1> DEFINE m == WriteBlockMessage(updateId, u)
<1>0. /\ UNCHANGED <<fileFullname, updateMap, nextUpdateId, fp, disk>>
      /\ m.type = "WRITEBLOCK" /\ m.updateId = updateId /\ m.update = u
      /\ Put(toServer[t], m, toServer'[t])
  BY DEF serverVars, memoryVars, WriteBlockMessage
<1> HIDE DEF m
<1>1. \A k \in 1 .. Len(toServer'[t]) :
        \/ toServer'[t][k] = m
        \/ k \in 1 .. Len(toServer[t]) /\ toServer'[t][k] = toServer[t][k]
  BY <1>0, GotPackets DEF Got
<1>2. /\ updateId \in UpdateId /\ clientUpdateMap \in UpdateMap
  BY Typing, Numbers DEF UpdateId
<1>3. \A id \in UpdateId : id < updateId =>
        id < updateId' /\ clientUpdateMap'[id] = clientUpdateMap[id]
  BY <1>2 DEF UpdateId, UpdateMap
<1>4. OnlyMine(t)'
  <2>1. ASSUME NEW k \in 1 .. Len(toServer'[t]), toServer'[t][k].type = "WRITEBLOCK"
        PROVE  /\ toServer'[t][k].updateId < updateId'
               /\ toServer'[t][k].update = clientUpdateMap'[toServer'[t][k].updateId]
    <3>1. CASE toServer'[t][k] = m
      <4>1. updateId < updateId + 1
        BY Numbers
      <4>2. clientUpdateMap'[updateId] = u
        BY <1>2 DEF UpdateMap
      <4> QED  BY <1>0, <3>1, <4>1, <4>2
    <3>2. CASE k \in 1 .. Len(toServer[t]) /\ toServer'[t][k] = toServer[t][k]
      <4>1. toServer[t][k].updateId \in UpdateId
        BY <2>1, <3>2, IdsUnderWay
      <4>2. Mine(toServer[t][k].updateId, toServer[t][k].update)
        BY <2>1, <3>2 DEF LossyHolds, OnlyMine
      <4> QED  BY <1>3, <3>2, <4>1, <4>2 DEF Mine
    <3> QED  BY <1>1, <3>1, <3>2
  <2>2. ASSUME NEW id \in Cached(updateMap[t])
        PROVE  id < updateId' /\ updateMap[t][id] = clientUpdateMap'[id]
    BY <1>3 DEF LossyHolds, OnlyMine, Mine, Cached
  <2> QED  BY <1>0, <2>1, <2>2 DEF OnlyMine, Mine, Cached
<1>5. Opens(t)'
  BY <1>0 DEF LossyHolds, Opens
<1>6. Votes(t)' /\ Decided(t)' /\ LetsGo(t)'
  BY DEF Votes, Decided, LetsGo
<1>7. CommitsLeft(t)'
  <2>1. Added(toServer[t], toServer'[t], {m})
    BY <1>0, PutAdds
  <2> QED  BY <1>0, <2>1, CommitsBehind DEF LossyHolds
<1>8. AsPromised(t)'
  BY <1>0 DEF LossyHolds, AsPromised
<1> QED  BY <1>4, <1>5, <1>6, <1>7, <1>8 DEF LossyHolds

-----------------------------------------------------------------------------
(* The invariant and a step of the client: what the steps have in common.   *)

\* A set of servers is full when it is all of them.
LEMMA FullIsAll ==
  ASSUME IInv, Ordered
  PROVE  /\ \A S \in SUBSET Server : IsFull(S) <=> S = Server
         /\ Ready => serverIds = Server
<1>1. IsFiniteSet(Server) /\ Cardinality(Server) \in Nat
      /\ NumServers = Cardinality(Server)
  BY NetworkAssumption, FS_CardinalityType DEF Ordered
<1>2. ASSUME NEW S \in SUBSET Server
      PROVE  /\ Cardinality(S) \in Nat /\ Cardinality(S) <= Cardinality(Server)
             /\ Cardinality(S) = Cardinality(Server) => S = Server
  BY <1>1, FS_Subset, FS_CardinalityType
<1>3. serverIds \in SUBSET Server
  BY Typing
<1>4. Ready => Cardinality(serverIds) = Cardinality(Server)
  BY <1>1, <1>2, <1>3 DEF Ready
<1> QED  BY <1>1, <1>2, <1>3, <1>4 DEF IsFull

\* There are servers.
LEMMA SomeServer ==
  ASSUME Ordered
  PROVE  {} # Server
BY EmptyNotFull DEF Ordered, IsFull

\* No server is down, so that each gets what is sent.
LEMMA AllGet ==
  ASSUME LossyBooks, NEW m, Sent(m)
  PROVE  \A t \in Server : Put(toServer[t], m, toServer'[t])
BY DEF LossyBooks, Sent

\* The servers' part of the books.
LEMMA ServersAsBefore ==
  ASSUME LossyBooks, UNCHANGED serverVars, up' = up
  PROVE  \A s \in Server : up'[s] /\ fp'[s] # Dangling /\ backup'[s] = NoFile
BY DEF LossyBooks, serverVars, memoryVars

\* Before any server is selected there is nothing else to see to.
LEMMA FreshTolerant ==
  ASSUME IInv, Fresh', LossyBooks', op' = "init", promised' = promised,
         UNCHANGED serverVars
  PROVE  Tolerant'
<1> SUFFICES ASSUME NEW t \in Server PROVE LossyChannels(t)' /\ LossyHolds(t)'
  BY DEF Tolerant
<1>1. /\ Only(toServer'[t], {"INIT"}) /\ Only(toClient'[t], {"INITACK"})
      /\ Cached(updateMap'[t]) = {}
      /\ \A f \in File : disk'[t][f] = Absent
      /\ ~isFileOpen'
      /\ \A f \in File : promised'[f] = Absent
      /\ recvServerId' = {}
  BY DEF Fresh, Pristine, LossyBooks, Cached
<1>2. /\ \A k \in 1 .. Len(toServer'[t]) : toServer'[t][k].type = "INIT"
      /\ \A k \in 1 .. Len(toClient'[t]) : toClient'[t][k].type = "INITACK"
  BY <1>1 DEF Only
<1>3. LossyChannels(t)'
  <2>1. Sequenced(t)'
    <3>1. Behind("init") = {"INIT"}
      BY MsgTypes DEF Behind
    <3>2. Orderly(toServer'[t], toClient'[t], MsgType["init"], AckType["init"],
                  Behind("init"))
      BY <1>1, <3>1, OrderlyAlike, AckTypes
    <3> QED  BY <1>1, <3>2, SequencedNextSaid
  <2>2. Resting(t)' /\ NoOldVotes(t)' /\ NoErrors(t)'
    BY <1>2 DEF Resting, NoOldVotes, NoErrors
  <2> QED  BY <2>1, <2>2 DEF LossyChannels
<1>4. OnlyMine(t)'
  BY <1>1, <1>2 DEF OnlyMine, Cached
<1>5. Opens(t)' /\ Votes(t)' /\ Decided(t)' /\ LetsGo(t)' /\ CommitsLeft(t)'
  BY <1>1, <1>2 DEF Opens, Votes, Decided, LetsGo, CommitsLeft
<1>6. AsPromised(t)'
  <2>1. promised \in [File -> Content \cup {Absent}]
        /\ disk[t] \in [File -> Content \cup {Absent}] /\ disk' = disk
    BY Typing DEF serverVars
  <2>2. \A f \in File : disk[t][f] = promised[f]
    BY <1>1, <2>1
  <2>3. disk[t] = [f \in File |-> disk[t][f]] /\ promised = [f \in File |-> promised[f]]
    BY <2>1
  <2>4. disk[t] = promised
    BY <2>2, <2>3
  <2> QED  BY <2>1, <2>4 DEF AsPromised
<1> QED  BY <1>3, <1>4, <1>5, <1>6 DEF LossyHolds

\* An operation goes on: more of it is sent, or an answer is read.
LEMMA GoesOnTolerant ==
  ASSUME IInv, Ordered, Tolerant, op \notin {"idle", "init"}, op' = op,
         UNCHANGED transactionVars, UNCHANGED serverVars,
         UNCHANGED <<serverIds, clients, closeRecvServerId, up>>,
         NEW M,
         \A p \in M : /\ p.type \in Behind(op)
                      /\ p.type = "WRITEBLOCK" => Mine(p.updateId, p.update),
         \A t \in Server :
           /\ Added(toServer[t], toServer'[t], M) /\ Left(t)
           /\ t \in recvServerId' =>
                \/ t \in recvServerId
                \/ 1 \in 1 .. Len(toClient[t]) /\ toClient[t][1].type = AckType[op]
           /\ op = "vote" => recvServerUpdateId'[t] <= nextUpdateId[t],
         op # "vote" => recvServerId' # Server
  PROVE  Tolerant'
<1>1. op \in Op \ {"idle", "init", "abort"} /\ op \in Op \ {"idle", "abort"}
      /\ UNCHANGED <<isFileOpen, updateId, inDoubt>>
  BY Typing DEF Tolerant, LossyBooks, transactionVars
<1>2. ASSUME NEW t \in Server PROVE LossyChannels(t)'
  <2>1. LossyChannels(t)
    BY DEF Tolerant
  <2> QED  BY <1>1, <2>1, GoesOnChannels
<1>3. ASSUME NEW t \in Server PROVE LossyHolds(t)'
  <2>1. LossyHolds(t)
    BY DEF Tolerant
  <2> QED  BY <1>1, <2>1, GoesOnHolds
<1>4. LossyBooks'
  BY <1>1, ServersAsBefore DEF Tolerant, LossyBooks
<1>5. Fresh'
  BY <1>1 DEF Tolerant, LossyBooks, Fresh
<1> QED  BY <1>2, <1>3, <1>4, <1>5 DEF Tolerant

\* Another operation begins: OpenFile, Vote or Close.
LEMMA StartsTolerant ==
  ASSUME IInv, Ordered, Tolerant, op \in {"idle", "close"}, serverIds = Server,
         NEW o \in {"open", "vote", "close"}, op' = o, recvServerId' = {},
         closeRecvServerId' # Server, clients # 0,
         UNCHANGED <<serverIds, up, clients>>,
         UNCHANGED <<isFileOpen, clientUpdateMap, updateId, promised, inDoubt>>,
         UNCHANGED serverVars, o # "open" => isFileOpen,
         \A t \in Server :
           /\ Left(t)
           /\ Clean(t, o) \/ (o = "open" /\ CaughtUp(t, o))
           /\ \A k \in 1 .. Len(toServer[t]) : toServer[t][k].type # "VOTE"
           /\ \A k \in 1 .. Len(toClient[t]) : toClient[t][k].type # "VOTEACK"
           /\ o = "vote" => recvServerUpdateId'[t] = -1,
         NEW m, Sent(m), m.type = MsgType[o]
  PROVE  Tolerant'
<1>1. \A t \in Server : Put(toServer[t], m, toServer'[t])
  BY AllGet DEF Tolerant
<1>2. ASSUME NEW t \in Server PROVE LossyChannels(t)'
  <2>1. NoErrors(t)
    BY DEF Tolerant, LossyChannels
  <2> QED  BY <1>1, <2>1, StartsChannels
<1>3. ASSUME NEW t \in Server PROVE LossyHolds(t)'
  <2>1. LossyHolds(t) /\ op # "commit"
    BY DEF Tolerant
  <2> QED  BY <1>1, <2>1, StartsHolds
<1>4. LossyBooks'
  BY SomeServer, ServersAsBefore DEF Tolerant, LossyBooks
<1>5. Fresh'
  BY DEF Fresh
<1> QED  BY <1>2, <1>3, <1>4, <1>5 DEF Tolerant

\* A call returns, and no file was committed.
LEMMA EndsTolerant ==
  ASSUME IInv, Ordered, Tolerant, op \notin {"idle", "commit"}, op' = "idle",
         recvServerId' = {}, closeRecvServerId' = {},
         UNCHANGED <<serverIds, up, clients, toServer>>,
         UNCHANGED <<clientUpdateMap, updateId, promised, inDoubt>>,
         UNCHANGED serverVars,
         \A t \in Server :
           /\ Left(t)
           /\ isFileOpen' => fileFullname[t] \in File
           /\ \/ ~isFileOpen' /\ CloseLeaves(t)
              \/ \E o \in {"init", "open", "commit"} :
                   /\ Only(toClient[t], {AckType[o]})
                   /\ Only(toServer[t], {MsgType[o], "WRITEBLOCK"})
  PROVE  Tolerant'
<1>1. ASSUME NEW t \in Server PROVE LossyChannels(t)'
  <2>1. NoErrors(t) /\ toServer'[t] = toServer[t]
    BY DEF Tolerant, LossyChannels
  <2> QED  BY <2>1, EndsChannels
<1>2. ASSUME NEW t \in Server PROVE LossyHolds(t)'
  <2>1. LossyHolds(t) /\ toServer'[t] = toServer[t]
    BY DEF Tolerant
  <2> QED  BY <2>1, EndsHolds
<1>3. LossyBooks'
  BY SomeServer, ServersAsBefore DEF Tolerant, LossyBooks
<1>4. Fresh'
  BY DEF Fresh, Tolerant, LossyBooks
<1> QED  BY <1>1, <1>2, <1>3, <1>4 DEF Tolerant

\* When all have answered, each has read everything that was sent before.
LEMMA AllCaughtUp ==
  ASSUME IInv, Ordered, Tolerant, NEW s \in Server, op \notin {"idle", "close2"},
         1 \in 1 .. Len(toClient[s]), toClient[s][1].type = AckType[op],
         recvServerId \cup {s} = Server
  PROVE  \A t \in Server : CaughtUp(t, op) /\ Answered(t, AckType[op])
<1>1. CaughtUp(s, op) /\ Answered(s, AckType[op])
  BY DEF Tolerant, LossyChannels, Sequenced, CaughtUp, Only, Answered
<1>2. ASSUME NEW t \in recvServerId PROVE CaughtUp(t, op) /\ Answered(t, AckType[op])
  <2>1. t \in Server
    OBVIOUS
  <2> QED  BY <1>2, <2>1 DEF Tolerant, LossyChannels, Sequenced, Answered
<1> QED  BY <1>1, <1>2

-----------------------------------------------------------------------------
(* The calls, and what execute repeats.                                     *)

\* Calls but InitReplFs need a client with servers, and these are all.
LEMMA ReadyHasAll ==
  ASSUME IInv, Ordered, Tolerant, Ready
  PROVE  serverIds = Server /\ clients # 0
BY FullIsAll, SomeServer DEF Tolerant, LossyBooks

\* InitReplFs: the only client starts with servers nobody has used.
LEMMA InitReplFsTolerant ==
  ASSUME IInv, Ordered, Tolerant, InitReplFs, UNCHANGED serverVars
  PROVE  Tolerant'
<1>1. clients = 0
  BY Typing DEF InitReplFs, Ordered
<1> DEFINE m == Plain("INIT")
<1>2. m \in ClientMsg /\ m.type = "INIT"
  BY BuiltMessages DEF Plain
<1> HIDE DEF m
<1>3. Sent(m) /\ op' = "init" /\ recvServerId' = {}
  BY <1>2, EnterSends DEF InitReplFs, m
<1>4. /\ UNCHANGED <<isFileOpen, fileName, promised, inDoubt>>
      /\ UNCHANGED <<toClient, up, closeRecvServerId>>
      /\ serverIds' = {} /\ clients' = 1
  BY <1>1 DEF InitReplFs, fileVars, promiseVars
<1>5. Fresh'
  <2>1. Fresh /\ (\A t \in Server : Pristine(t))
    BY <1>1 DEF Tolerant, Fresh
  <2>2. ASSUME NEW t \in Server PROVE Pristine(t)'
    <3>1. Got(t, m) /\ Pristine(t)
      BY <1>3, <2>1 DEF Sent, Got
    <3>2. Only(toServer'[t], {"INIT"}) /\ Only(toClient'[t], {"INITACK"})
      BY <1>2, <1>4, <3>1, GotPackets DEF Pristine
    <3> QED  BY <3>1, <3>2 DEF Pristine, serverVars, memoryVars, Cached
  <2> QED  BY <1>1, <1>4, <2>1, <2>2 DEF Fresh
<1>6. LossyBooks'
  BY <1>3, <1>4, SomeServer, ServersAsBefore DEF Tolerant, LossyBooks
<1> QED  BY <1>3, <1>4, <1>5, <1>6, FreshTolerant

\* OpenFile.
LEMMA OpenFileTolerant ==
  ASSUME IInv, Ordered, Tolerant, NEW f \in File, OpenFile(f), UNCHANGED serverVars
  PROVE  Tolerant'
<1> DEFINE m == OpenFileMessage(f)
<1>1. m \in ClientMsg /\ m.type = MsgType["open"]
  BY BuiltMessages, MsgTypes DEF OpenFileMessage
<1> HIDE DEF m
<1>2. Sent(m) /\ op' = "open" /\ recvServerId' = {}
  BY <1>1, EnterSends DEF OpenFile, m
<1>3. /\ op = "idle" /\ clients # 0 /\ serverIds = Server
      /\ UNCHANGED <<toClient, up, serverIds, closeRecvServerId, isFileOpen, clients,
                     clientUpdateMap, updateId, promised, inDoubt>>
  BY ReadyHasAll DEF OpenFile, Called, stagedVars, promiseVars
<1>4. \A t \in Server :
        /\ Left(t)
        /\ Clean(t, "open") \/ CaughtUp(t, "open")
        /\ \A k \in 1 .. Len(toServer[t]) : toServer[t][k].type # "VOTE"
        /\ \A k \in 1 .. Len(toClient[t]) : toClient[t][k].type # "VOTEACK"
  BY <1>3, RestingStarts DEF Left, Tolerant
<1>5. closeRecvServerId' # Server
  BY <1>3 DEF Tolerant, LossyBooks
<1> QED  BY <1>1, <1>2, <1>3, <1>4, <1>5, StartsTolerant

\* Outside a commit nobody has a vote on record.
LEMMA NoneVoted ==
  ASSUME IInv, op \notin {"vote", "commit", "abort"}
  PROVE  \A t \in Server : recvServerUpdateId[t] = -1
BY DEF IInv, ClientInv, VoteBookkeeping, Voted

\* Commit and CloseFile.
LEMMA StartCallTolerant ==
  ASSUME IInv, Ordered, Tolerant, NEW name, NEW o \in {"vote", "close"},
         StartCall(name, o), UNCHANGED serverVars
  PROVE  Tolerant'
<1> DEFINE m == OpMessage(o)
<1>1. m \in ClientMsg /\ m.type = MsgType[o]
  BY OpMessageType, OpMessages DEF Op
<1> HIDE DEF m
<1>2. Sent(m) /\ op' = o /\ recvServerId' = {}
  BY <1>1, EnterSends DEF StartCall, m
<1>3. /\ op = "idle" /\ clients # 0 /\ serverIds = Server /\ isFileOpen
      /\ UNCHANGED <<toClient, up, serverIds, closeRecvServerId, isFileOpen, clients,
                     clientUpdateMap, updateId, recvServerUpdateId, promised, inDoubt>>
  BY ReadyHasAll DEF StartCall, Called, FdValid, fileVars, stagedVars, promiseVars
<1>4. \A t \in Server :
        /\ Left(t) /\ Clean(t, o)
        /\ \A k \in 1 .. Len(toServer[t]) : toServer[t][k].type # "VOTE"
        /\ \A k \in 1 .. Len(toClient[t]) : toClient[t][k].type # "VOTEACK"
  BY <1>3, RestingStarts DEF Left, Tolerant
<1>5. closeRecvServerId' # Server
  BY <1>3 DEF Tolerant, LossyBooks
<1>6. \A t \in Server : recvServerUpdateId'[t] = -1
  BY <1>3, NoneVoted
<1> QED  BY <1>1, <1>2, <1>3, <1>4, <1>5, <1>6, StartsTolerant

\* WriteBlock.
LEMMA WriteBlockTolerant ==
  ASSUME IInv, Ordered, Tolerant, NEW u \in Update, WriteBlock(u),
         UNCHANGED serverVars
  PROVE  Tolerant'
<1> DEFINE m == WriteBlockMessage(updateId, u)
<1>1. m \in ClientMsg /\ m.type = "WRITEBLOCK"
  <2>1. updateId \in UpdateId
    BY Numbers DEF WriteBlock, UpdateId
  <2> QED  BY <2>1, BuiltMessages DEF WriteBlockMessage
<1>2. \A t \in Server : Put(toServer[t], m, toServer'[t])
  BY <1>1, MulticastSends, AllGet DEF WriteBlock, Tolerant
<1> HIDE DEF m
<1>3. /\ op = "idle" /\ op' = "idle" /\ clients # 0 /\ isFileOpen
      /\ UNCHANGED <<toClient, up, serverIds, recvServerId, closeRecvServerId,
                     isFileOpen, fileName, clients, promised, inDoubt>>
      /\ updateId < MaxUpdates /\ updateId' = updateId + 1
      /\ clientUpdateMap' = [clientUpdateMap EXCEPT ![updateId] = u]
  BY ReadyHasAll DEF WriteBlock, Called, FdValid, callVars, fileVars, promiseVars
<1>4. ASSUME NEW t \in Server PROVE LossyChannels(t)'
  <2>1. LossyChannels(t) /\ Got(t, m) /\ toClient'[t] = toClient[t]
    BY <1>2, <1>3 DEF Tolerant, Got
  <2>2. Resting(t)'
    <3>1. PICK o \in {"init", "open", "commit"} :
            /\ Only(toClient[t], {AckType[o]})
            /\ Only(toServer[t], {MsgType[o], "WRITEBLOCK"})
      BY <1>3, <2>1 DEF LossyChannels, Resting
    <3>2. Only(toServer'[t], {MsgType[o], "WRITEBLOCK"})
      BY <1>1, <2>1, <3>1, GotPackets
    <3> QED  BY <2>1, <3>1, <3>2 DEF Resting
  <2>3. \A k \in 1 .. Len(toServer'[t]) :
          \/ toServer'[t][k] = m
          \/ k \in 1 .. Len(toServer[t]) /\ toServer'[t][k] = toServer[t][k]
    BY <2>1, GotPackets
  <2>4. NoOldVotes(t)' /\ NoErrors(t)'
    BY <1>1, <1>3, <2>1, <2>3 DEF LossyChannels, NoOldVotes, NoErrors
  <2>5. Sequenced(t)'
    BY <1>3 DEF Sequenced
  <2> QED  BY <2>2, <2>4, <2>5 DEF LossyChannels
<1>5. ASSUME NEW t \in Server PROVE LossyHolds(t)'
  <2>1. LossyHolds(t)
    BY DEF Tolerant
  <2>2. Put(toServer[t], WriteBlockMessage(updateId, u), toServer'[t])
    BY <1>2 DEF m
  <2> QED  BY <1>3, <2>1, <2>2, WriteBlockLossyHolds
<1>6. LossyBooks'
  BY <1>3, ServersAsBefore DEF Tolerant, LossyBooks
<1>7. Fresh'
  BY <1>3 DEF Fresh
<1> QED  BY <1>4, <1>5, <1>6, <1>7 DEF Tolerant

\* A step of the client in InitReplFs.
LEMMA InitGoesOnTolerant ==
  ASSUME IInv, Tolerant, op = "init", op' = "init",
         UNCHANGED transactionVars, UNCHANGED serverVars,
         UNCHANGED <<recvServerId, closeRecvServerId, clients, up>>,
         \A t \in Server :
           /\ Left(t)
           /\ \/ toServer'[t] = toServer[t]
              \/ \E m : Got(t, m) /\ m.type = "INIT"
  PROVE  Tolerant'
<1>1. UNCHANGED <<isFileOpen, fileName, promised, inDoubt>>
  BY DEF transactionVars
<1>2. Fresh'
  <2>1. Fresh /\ (\A t \in Server : Pristine(t))
    BY DEF Tolerant, Fresh
  <2>2. ASSUME NEW t \in Server PROVE Pristine(t)'
    <3>1. Pristine(t)
      BY <2>1
    <3>2. Only(toServer'[t], {"INIT"}) /\ Only(toClient'[t], {"INITACK"})
      BY <3>1, GotPackets, LeftAnswers DEF Pristine
    <3> QED  BY <3>1, <3>2 DEF Pristine, serverVars, memoryVars, Cached
  <2> QED  BY <1>1, <2>1, <2>2 DEF Fresh
<1>3. LossyBooks'
  BY <1>1, ServersAsBefore DEF Tolerant, LossyBooks
<1> QED  BY <1>1, <1>2, <1>3, FreshTolerant

\* The message of the operation goes out again.
LEMMA ResendTolerant ==
  ASSUME IInv, Ordered, Tolerant, Resend, UNCHANGED serverVars
  PROVE  Tolerant'
<1> DEFINE m == OpMessage(op)
<1>0. op \in Op \ {"idle", "abort"}
  BY Typing DEF Resend, Tolerant, LossyBooks
<1>1. m \in ClientMsg /\ m.type = MsgType[op]
  BY <1>0, OpMessageType, OpMessages DEF IInv, ClientInv, FileNamed
<1>2. \A t \in Server : Put(toServer[t], m, toServer'[t])
  BY <1>1, MulticastSends, AllGet DEF Resend, Tolerant
<1> HIDE DEF m
<1>3. /\ UNCHANGED <<toClient, up>> /\ UNCHANGED transactionVars
      /\ UNCHANGED <<op, recvServerId, serverIds, closeRecvServerId, clients,
                     recvServerUpdateId>>
  BY DEF Resend, clientVars, callVars, fileVars, stagedVars, bookVars,
         promiseVars, transactionVars
<1>4. \A t \in Server : Left(t)
  BY <1>3 DEF Left
<1>5. CASE op = "init"
  <2>1. m.type = "INIT"
    BY <1>1, <1>5, MsgTypes
  <2> QED  BY <1>2, <1>3, <1>4, <1>5, <2>1, InitGoesOnTolerant DEF Got
<1>6. CASE op # "init"
  <2>1. m.type \in Behind(op) /\ m.type # "WRITEBLOCK"
    BY <1>0, <1>1, MsgTypes DEF Behind, Op
  <2>2. \A t \in Server : Added(toServer[t], toServer'[t], {m})
    BY <1>2, PutAdds
  <2>3. op = "vote" => \A t \in Server : recvServerUpdateId'[t] <= nextUpdateId[t]
    BY <1>3 DEF Tolerant, LossyHolds, Votes
  <2>4. op # "vote" => recvServerId' # Server
    BY <1>3 DEF Tolerant, LossyBooks
  <2>5. \A p \in {m} : p.type \in Behind(op)
                       /\ (p.type = "WRITEBLOCK" => Mine(p.updateId, p.update))
    BY <2>1
  <2> QED  BY <1>0, <1>3, <1>4, <1>6, <2>2, <2>3, <2>4, <2>5, GoesOnTolerant
<1> QED  BY <1>5, <1>6

\* An answer is read and the client goes on waiting.
LEMMA WaitsTolerant ==
  ASSUME IInv, Ordered, Tolerant, NEW s \in Server, ReadsHead(s),
         op \notin {"idle", "init"}, op' = op, toServer' = toServer,
         UNCHANGED transactionVars, UNCHANGED serverVars,
         UNCHANGED <<serverIds, closeRecvServerId, clients>>,
         \/ recvServerId' = recvServerId
         \/ /\ recvServerId' = recvServerId \cup {s}
            /\ toClient[s][1].type = AckType[op],
         op = "vote" => \A t \in Server : recvServerUpdateId'[t] <= nextUpdateId[t],
         op # "vote" => recvServerId' # Server
  PROVE  Tolerant'
<1>1. \A t \in Server :
        /\ Added(toServer[t], toServer'[t], {})
        /\ Left(t)
        /\ t \in recvServerId' =>
             \/ t \in recvServerId
             \/ 1 \in 1 .. Len(toClient[t]) /\ toClient[t][1].type = AckType[op]
  BY Numbers, AddedNothing DEF ReadsHead, Left
<1>2. up' = up
  BY DEF ReadsHead
<1> QED  BY <1>1, <1>2, GoesOnTolerant

\* An answer is skipped, or lost.
LEMMA IgnoreAckTolerant ==
  ASSUME IInv, Ordered, Tolerant, NEW s \in Server,
         NEW i \in 1 .. Len(toClient[s]), IgnoreAck(s, i), UNCHANGED serverVars
  PROVE  Tolerant'
<1>1. i = 1 /\ ReadsHead(s) /\ op # "idle"
  BY ReadsHeads DEF IgnoreAck, Ordered
<1>2. /\ UNCHANGED <<op, recvServerId, serverIds, closeRecvServerId, clients,
                     recvServerUpdateId, toServer>>
      /\ UNCHANGED transactionVars
  BY DEF IgnoreAck, clientVars, callVars, fileVars, stagedVars, bookVars,
         promiseVars, transactionVars
<1>3. CASE op = "init"
  <2>1. up' = up /\ \A t \in Server : Left(t)
    BY <1>1 DEF ReadsHead, Left
  <2> QED  BY <1>2, <1>3, <2>1, InitGoesOnTolerant
<1>4. CASE op # "init"
  <2>1. op = "vote" => \A t \in Server : recvServerUpdateId'[t] <= nextUpdateId[t]
    BY <1>2 DEF Tolerant, LossyHolds, Votes
  <2>2. op # "vote" => recvServerId' # Server
    BY <1>2 DEF Tolerant, LossyBooks
  <2> QED  BY <1>1, <1>2, <1>4, <2>1, <2>2, WaitsTolerant
<1> QED  BY <1>3, <1>4

\* A server answers InitReplFs.
LEMMA ProcInitAckTolerant ==
  ASSUME IInv, Ordered, Tolerant, NEW s \in Server,
         NEW i \in 1 .. Len(toClient[s]), ProcInitAckMessage(s, i),
         UNCHANGED serverVars
  PROVE  Tolerant'
<1>1. i = 1 /\ ReadsHead(s)
  BY ReadsHeads DEF ProcInitAckMessage, ReadsAck, Ordered
<1>2. /\ op = "init" /\ op' = "init" /\ recvServerId' = recvServerId
      /\ UNCHANGED <<toServer, closeRecvServerId, clients>>
      /\ UNCHANGED transactionVars
  BY DEF ProcInitAckMessage, ReadsAck, KeepWaiting, fileVars, stagedVars,
     promiseVars, bookVars, transactionVars
<1>3. up' = up /\ \A t \in Server : Left(t)
  BY <1>1 DEF ReadsHead, Left
<1> QED  BY <1>2, <1>3, InitGoesOnTolerant

-----------------------------------------------------------------------------
(* Answers.                                                                 *)

\* What a read answer says, and who is left.
LEMMA AckRead ==
  ASSUME IInv, Ordered, Tolerant, NEW s \in Server,
         NEW i \in 1 .. Len(toClient[s]), NEW ops, ReadsAck(s, i, ops),
         "idle" \notin ops, "init" \notin ops
  PROVE  /\ i = 1 /\ ReadsHead(s) /\ op \in ops /\ op \notin {"idle", "init"}
         /\ UNCHANGED <<up, clients>>
         /\ 1 \in 1 .. Len(toClient[s]) /\ toClient[s][1].type = AckType[op]
         /\ toClient[s][1] \in ServerMsg
         /\ \A t \in Server : Left(t)
         /\ serverIds = Server /\ Accepted(s) = recvServerId \cup {s}
         /\ Accepted(s) \in SUBSET Server
<1>1. i = 1 /\ ReadsHead(s) /\ op \in ops /\ toClient[s][1].type = AckType[op]
  BY ReadsHeads DEF ReadsAck, Ordered
<1>2. \A t \in Server : Left(t)
  BY <1>1 DEF ReadsHead, Left
<1>3. serverIds = Server
  BY <1>1 DEF Tolerant, LossyBooks
<1>4. toClient[s][1] \in ServerMsg
  <2>1. toClient[s] \in Seq(ServerMsg)
    BY Typing
  <2> QED  BY <1>1, <2>1, ElementOfSeq
<1>5. Accepted(s) = recvServerId \cup {s} /\ Accepted(s) \in SUBSET Server
  BY <1>3, Typing DEF Accepted
<1> QED  BY <1>1, <1>2, <1>3, <1>4, <1>5 DEF ReadsAck, bookVars, ReadsHead

\* None of the answers is an error.
LEMMA NoneRefused ==
  ASSUME IInv, Ordered, Tolerant, NEW s \in Server,
         NEW i \in 1 .. Len(toClient[s]), NEW ops, ReadsAck(s, i, ops),
         "idle" \notin ops, "init" \notin ops
  PROVE  /\ ~(toClient[s][i].fileDesc < 0)
         /\ op = "close" /\ updateId = 0 => toClient[s][i].fileDesc = 0
<1>1. /\ i = 1 /\ toClient[s][1].type = AckType[op] /\ toClient[s][1] \in ServerMsg
      /\ op \notin {"idle", "init"} /\ 1 \in 1 .. Len(toClient[s])
  BY AckRead
<1>2. toClient[s][1].type # "INITACK"
  BY <1>1, AckTypes, Typing DEF Op
<1>3. toClient[s][1].fileDesc \in {-1, 0, 1}
  BY <1>1, <1>2 DEF ServerMsg
<1>4. toClient[s][1].fileDesc >= 0
  BY <1>1, <1>2 DEF Tolerant, LossyChannels, NoErrors
<1>5. op = "close" /\ updateId = 0 => toClient[s][1].fileDesc = 0
  BY <1>1, AckTypes DEF Tolerant, LossyChannels, NoErrors
<1> QED  BY <1>1, <1>3, <1>4, <1>5

\* An answer is counted, and more are awaited.
LEMMA KeepWaitingTolerant ==
  ASSUME IInv, Ordered, Tolerant, NEW s \in Server, ReadsHead(s),
         op \notin {"idle", "init", "vote"}, toClient[s][1].type = AckType[op],
         NEW recv, recv = recvServerId \cup {s}, recv # Server,
         KeepWaiting(recv), UNCHANGED serverVars, UNCHANGED <<clients, serverIds>>
  PROVE  Tolerant'
<1>1. /\ UNCHANGED <<op, toServer, closeRecvServerId>>
      /\ UNCHANGED transactionVars /\ recvServerId' = recv
  BY DEF KeepWaiting, fileVars, stagedVars, promiseVars, transactionVars
<1> QED  BY <1>1, WaitsTolerant

\* All servers have opened the file.
LEMMA OpenedTolerant ==
  ASSUME IInv, Ordered, Tolerant, op = "open", OpenSucceeds,
         UNCHANGED <<serverIds, up, clients>>, UNCHANGED serverVars,
         \A t \in Server :
           Left(t) /\ CaughtUp(t, "open") /\ Answered(t, "OPENFILEACK")
  PROVE  Tolerant'
<1>1. /\ op' = "idle" /\ recvServerId' = {} /\ closeRecvServerId' = {}
      /\ UNCHANGED <<toServer, clientUpdateMap, updateId, promised, inDoubt>>
  BY DEF OpenSucceeds, ReturnToApp, stagedVars, promiseVars
<1>2. \A t \in Server : fileFullname[t] \in File
  BY DEF Tolerant, LossyHolds, Opens, Answered
<1>3. \A t \in Server :
        /\ Only(toClient[t], {AckType["open"]})
        /\ Only(toServer[t], {MsgType["open"], "WRITEBLOCK"})
  BY DEF CaughtUp, Behind
<1> QED  BY <1>1, <1>2, <1>3, EndsTolerant

\* A close is over: all have answered, or the second try is refused.
LEMMA ClosedTolerant ==
  ASSUME IInv, Ordered, Tolerant, op \in {"close", "close2"}, CloseSucceeds,
         UNCHANGED <<serverIds, up, clients>>, UNCHANGED serverVars,
         \A t \in Server : Left(t) /\ (op = "close" => CaughtUp(t, op))
  PROVE  Tolerant'
<1>1. /\ op' = "idle" /\ recvServerId' = {} /\ closeRecvServerId' = {} /\ ~isFileOpen'
      /\ UNCHANGED <<toServer, clientUpdateMap, updateId, promised, inDoubt>>
  BY DEF CloseSucceeds, ReturnToApp, stagedVars, promiseVars
<1>2. ASSUME NEW t \in Server PROVE CloseLeaves(t)
  <2>1. CASE op = "close"
    <3>1. AckType[op] = "CLOSEACK" /\ Behind(op) = {"CLOSE"}
      BY <2>1, AckTypes, MsgTypes DEF Behind
    <3> QED  BY <2>1, <3>1 DEF CaughtUp, CloseLeaves, Only
  <2>2. CASE op = "close2"
    BY <2>2 DEF Tolerant, LossyChannels, Sequenced
  <2> QED  BY <2>1, <2>2
<1> QED  BY <1>1, <1>2, EndsTolerant

\* All servers have all the staged updates: Commit goes out.
LEMMA DecidesTolerant ==
  ASSUME IInv, Ordered, Tolerant, op = "vote",
         Enter("commit", {}, <<>>, Plain("COMMIT")),
         UNCHANGED <<serverIds, up, clients, closeRecvServerId>>,
         UNCHANGED transactionVars, UNCHANGED serverVars,
         \A t \in Server :
           Left(t) /\ CaughtUp(t, "vote") /\ updateId <= nextUpdateId[t]
  PROVE  Tolerant'
<1> DEFINE m == Plain("COMMIT")
<1>1. m \in ClientMsg /\ m.type = "COMMIT" /\ m.type = MsgType["commit"]
  BY BuiltMessages, MsgTypes DEF Plain
<1>2. Sent(m) /\ op' = "commit" /\ recvServerId' = {}
  BY <1>1, EnterSends
<1> HIDE DEF m
<1>3. \A t \in Server : Put(toServer[t], m, toServer'[t])
  BY <1>2, AllGet DEF Tolerant
<1>4. isFileOpen /\ UNCHANGED <<isFileOpen, inDoubt>>
  BY DEF Tolerant, LossyBooks, transactionVars
<1>5. ASSUME NEW t \in Server PROVE LossyChannels(t)'
  <2>1. NoErrors(t)
    BY DEF Tolerant, LossyChannels
  <2>2. Clean(t, "commit")
    BY AckTypes, MsgTypes DEF CaughtUp, Behind, Clean, Only
  <2> QED  BY <1>1, <1>2, <1>3, <2>1, <2>2, StartsChannels
<1>6. ASSUME NEW t \in Server PROVE LossyHolds(t)'
  <2>1. LossyHolds(t)
    BY DEF Tolerant
  <2> QED  BY <1>1, <1>2, <1>3, <1>4, <2>1, DecidesHolds
<1>7. LossyBooks'
  BY <1>2, <1>4, SomeServer, ServersAsBefore DEF Tolerant, LossyBooks
<1>8. Fresh'
  BY <1>2 DEF Tolerant, LossyBooks, Fresh
<1> QED  BY <1>5, <1>6, <1>7, <1>8 DEF Tolerant

\* All servers have carried the Commit out.
LEMMA CommittedTolerant ==
  ASSUME IInv, Ordered, Tolerant, op = "commit", CommitSucceeds,
         UNCHANGED <<serverIds, up, clients>>, UNCHANGED serverVars,
         \A t \in Server :
           Left(t) /\ CaughtUp(t, "commit") /\ Answered(t, "COMMITACK")
  PROVE  Tolerant'
<1> DEFINE m == Plain("CLOSE")
<1>1. m \in ClientMsg /\ m.type = "CLOSE" /\ m.type = MsgType["close2"]
  BY BuiltMessages, MsgTypes DEF Plain
<1>2. ResetClient /\ UNCHANGED <<isFileOpen, fileName, inDoubt>>
  BY DEF CommitSucceeds, fileVars
<1>3. promised' = [promised EXCEPT ![fileName] = After]
  BY DEF CommitSucceeds, After
<1>4. \/ /\ op' = "idle" /\ toServer' = toServer
         /\ recvServerId' = {} /\ closeRecvServerId' = {}
      \/ /\ op' = "close2" /\ Sent(m)
         /\ recvServerId' = closeRecvServerId
         /\ closeRecvServerId' = closeRecvServerId
  <2>1. \/ ReturnToApp /\ UNCHANGED toServer
        \/ /\ Enter("close2", closeRecvServerId, <<>>, m)
           /\ closeRecvServerId' = closeRecvServerId
    BY DEF CommitSucceeds
  <2> QED  BY <1>1, <2>1, EnterSends DEF ReturnToApp
<1> HIDE DEF m
<1>5. \A t \in Server :
        \/ op' = "idle" /\ toServer'[t] = toServer[t]
        \/ op' = "close2" /\ Put(toServer[t], m, toServer'[t])
  BY <1>4, AllGet DEF Tolerant
<1>6. ASSUME NEW t \in Server PROVE LossyChannels(t)'
  <2>1. NoErrors(t) /\ Left(t)
    BY DEF Tolerant, LossyChannels
  <2>2. Only(toClient[t], {"COMMITACK"}) /\ Only(toServer[t], {"COMMIT"})
    BY AckTypes, MsgTypes DEF CaughtUp, Behind
  <2>3. CASE op' = "idle" /\ toServer'[t] = toServer[t]
    <3>1. /\ Only(toClient[t], {AckType["commit"]})
          /\ Only(toServer[t], {MsgType["commit"], "WRITEBLOCK"})
      BY <2>2, AckTypes, MsgTypes DEF Only
    <3> QED  BY <2>1, <2>3, <3>1, EndsChannels
  <2>4. CASE op' = "close2" /\ Put(toServer[t], m, toServer'[t])
    <3>1. Clean(t, "close2") /\ CloseLeaves(t)
      BY <2>2, AckTypes, MsgTypes DEF Clean, CloseLeaves, Only
    <3>2. /\ \A k \in 1 .. Len(toServer[t]) : toServer[t][k].type # "VOTE"
          /\ \A k \in 1 .. Len(toClient[t]) : toClient[t][k].type # "VOTEACK"
      BY <2>2 DEF Only
    <3> QED  BY <1>1, <2>1, <2>4, <3>1, <3>2, StartsChannels
  <2> QED  BY <1>5, <2>3, <2>4
<1>7. ASSUME NEW t \in Server PROVE LossyHolds(t)'
  <2>1. LossyHolds(t) /\ op' \in {"idle", "close2"}
    BY <1>4 DEF Tolerant
  <2>2. \/ toServer'[t] = toServer[t]
        \/ \E p : Put(toServer[t], p, toServer'[t]) /\ p.type = "CLOSE"
    BY <1>1, <1>5
  <2> QED  BY <1>2, <1>3, <2>1, <2>2, CommittedLossyHolds
<1>8. LossyBooks'
  BY <1>2, <1>4, SomeServer, ServersAsBefore DEF Tolerant, LossyBooks
<1>9. Fresh'
  BY <1>4 DEF Tolerant, LossyBooks, Fresh
<1> QED  BY <1>6, <1>7, <1>8, <1>9 DEF Tolerant

\* The answers to OpenFile and Commit; Abort is not called.
LEMMA ProcAckTolerant ==
  ASSUME IInv, Ordered, Tolerant, NEW s \in Server,
         NEW i \in 1 .. Len(toClient[s]), ProcAckMessage(s, i),
         UNCHANGED serverVars
  PROVE  Tolerant'
<1>1. ReadsAck(s, i, {"open", "commit", "abort"}) /\ UNCHANGED serverIds
  BY DEF ProcAckMessage
<1>2. /\ i = 1 /\ ReadsHead(s) /\ op \in {"open", "commit"}
      /\ UNCHANGED <<up, clients>>
      /\ 1 \in 1 .. Len(toClient[s]) /\ toClient[s][1].type = AckType[op]
      /\ \A t \in Server : Left(t)
      /\ Accepted(s) = recvServerId \cup {s} /\ Accepted(s) \in SUBSET Server
  BY <1>1, AckRead DEF Tolerant, LossyBooks
<1>3. AfterAck(Accepted(s))
  <2>1. ~(toClient[s][i].fileDesc < 0)
    BY <1>1, NoneRefused
  <2> QED  BY <2>1 DEF ProcAckMessage
<1>4. CASE Accepted(s) # Server
  <2>1. KeepWaiting(Accepted(s))
    BY <1>2, <1>3, <1>4, FullIsAll DEF AfterAck
  <2> QED  BY <1>1, <1>2, <1>4, <2>1, KeepWaitingTolerant
<1>5. CASE Accepted(s) = Server
  <2>1. ExecuteOk
    BY <1>2, <1>3, <1>5, FullIsAll DEF AfterAck
  <2>2. \A t \in Server : CaughtUp(t, op) /\ Answered(t, AckType[op])
    BY <1>2, <1>5, AllCaughtUp
  <2>3. CASE op = "open"
    <3>1. OpenSucceeds
      BY <2>1, <2>3 DEF ExecuteOk
    <3>2. \A t \in Server :
            Left(t) /\ CaughtUp(t, "open") /\ Answered(t, "OPENFILEACK")
      BY <1>2, <2>2, <2>3, AckTypes
    <3> QED  BY <1>1, <1>2, <2>3, <3>1, <3>2, OpenedTolerant
  <2>4. CASE op = "commit"
    <3>1. CommitSucceeds
      BY <2>1, <2>4 DEF ExecuteOk
    <3>2. \A t \in Server :
            Left(t) /\ CaughtUp(t, "commit") /\ Answered(t, "COMMITACK")
      BY <1>2, <2>2, <2>4, AckTypes
    <3> QED  BY <1>1, <1>2, <2>4, <3>1, <3>2, CommittedTolerant
  <2> QED  BY <1>2, <2>3, <2>4
<1> QED  BY <1>4, <1>5

\* CloseFile is refused for cached updates, and runs Commit then.
LEMMA CloseCommitsTolerant ==
  ASSUME IInv, Ordered, Tolerant, op = "close", CloseCommits,
         UNCHANGED <<serverIds, up, clients>>, UNCHANGED serverVars,
         \A t \in Server : Left(t)
  PROVE  Tolerant'
<1> DEFINE m == Plain("VOTE")
<1>1. m \in ClientMsg /\ m.type = MsgType["vote"]
  BY BuiltMessages, MsgTypes DEF Plain
<1>2. Sent(m) /\ op' = "vote" /\ recvServerId' = {}
  BY <1>1, EnterSends DEF CloseCommits
<1> HIDE DEF m
<1>3. /\ isFileOpen /\ clients # 0 /\ serverIds = Server
      /\ closeRecvServerId' # Server
      /\ UNCHANGED <<isFileOpen, clientUpdateMap, updateId,
                     recvServerUpdateId, promised, inDoubt>>
  BY DEF Tolerant, LossyBooks, CloseCommits, fileVars, stagedVars, promiseVars
<1>4. \A t \in Server :
        /\ Left(t) /\ Clean(t, "vote")
        /\ \A k \in 1 .. Len(toServer[t]) : toServer[t][k].type # "VOTE"
        /\ \A k \in 1 .. Len(toClient[t]) : toClient[t][k].type # "VOTEACK"
  BY AckTypes, MsgTypes DEF Tolerant, LossyChannels, NoOldVotes, Clean
<1>5. \A t \in Server : recvServerUpdateId'[t] = -1
  BY <1>3, NoneVoted
<1> QED  BY <1>1, <1>2, <1>3, <1>4, <1>5, StartsTolerant

\* The answers to CloseFile.
LEMMA ProcCloseAckTolerant ==
  ASSUME IInv, Ordered, Tolerant, NEW s \in Server,
         NEW i \in 1 .. Len(toClient[s]), ProcCloseAckMessage(s, i),
         UNCHANGED serverVars
  PROVE  Tolerant'
<1>1. ReadsAck(s, i, {"close", "close2"}) /\ UNCHANGED serverIds
  BY DEF ProcCloseAckMessage
<1>2. /\ i = 1 /\ ReadsHead(s) /\ op \in {"close", "close2"}
      /\ UNCHANGED <<up, clients>>
      /\ 1 \in 1 .. Len(toClient[s]) /\ toClient[s][1].type = AckType[op]
      /\ \A t \in Server : Left(t)
      /\ serverIds = Server
      /\ Accepted(s) = recvServerId \cup {s} /\ Accepted(s) \in SUBSET Server
  BY <1>1, AckRead
<1>3. ~(toClient[s][i].fileDesc < 0)
  BY <1>1, NoneRefused
<1>4. \/ op = "close" /\ CloseCommits
      \/ op = "close2" /\ CloseSucceeds
      \/ AfterAck(Accepted(s))
  BY <1>2, <1>3 DEF ProcCloseAckMessage
<1>5. CASE op = "close" /\ CloseCommits
  BY <1>1, <1>2, <1>5, CloseCommitsTolerant
<1>6. CASE op = "close2" /\ CloseSucceeds
  BY <1>1, <1>2, <1>6, ClosedTolerant
<1>7. CASE AfterAck(Accepted(s))
  <2>1. CASE Accepted(s) # Server
    <3>1. KeepWaiting(Accepted(s))
      BY <1>2, <1>7, <2>1, FullIsAll DEF AfterAck
    <3> QED  BY <1>1, <1>2, <2>1, <3>1, KeepWaitingTolerant
  <2>2. CASE Accepted(s) = Server
    <3>1. CloseSucceeds
      BY <1>2, <1>7, <2>2, FullIsAll DEF AfterAck, ExecuteOk
    <3>2. op = "close" => \A t \in Server : CaughtUp(t, op)
      BY <1>2, <2>2, AllCaughtUp
    <3> QED  BY <1>1, <1>2, <3>1, <3>2, ClosedTolerant
  <2> QED  BY <2>1, <2>2
<1> QED  BY <1>4, <1>5, <1>6, <1>7

\* Several messages put at the end are added.
LEMMA ConcatAdds ==
  ASSUME NEW q \in Seq(ClientMsg), NEW msgs \in Seq(ClientMsg)
  PROVE  Added(q, q \o msgs, {msgs[k] : k \in 1 .. Len(msgs)})
<1> DEFINE more == q \o msgs
<1>1. Len(q) \in Nat /\ Len(msgs) \in Nat /\ Len(more) \in Nat
  BY ConcatProperties, LenProperties
<1>2. /\ Len(more) = Len(q) + Len(msgs)
      /\ \A k \in 1 .. Len(q) + Len(msgs) :
           more[k] = IF k <= Len(q) THEN q[k] ELSE msgs[k - Len(q)]
  BY ConcatProperties
<1> HIDE DEF more
<1>3. \A k \in 1 .. Len(q) : more[k] = q[k]
  BY <1>1, <1>2
<1>4. ASSUME NEW k \in Len(q) + 1 .. Len(more)
      PROVE  \E j \in 1 .. Len(msgs) : more[k] = msgs[j]
  <2>1. k - Len(q) \in 1 .. Len(msgs) /\ more[k] = msgs[k - Len(q)]
    BY <1>1, <1>2
  <2> QED  BY <2>1
<1>5. Len(q) <= Len(more)
  BY <1>1, <1>2
<1> QED  BY <1>1, <1>3, <1>4, <1>5 DEF Added, more

\* Another round of votes: staged updates go out again, then Vote.
LEMMA NewRound ==
  ASSUME IInv, NEW smallest \in 0 .. MaxUpdates,
         NEW msgs, msgs = Append(Retransmission(smallest), Plain("VOTE"))
  PROVE  /\ msgs \in Seq(ClientMsg)
         /\ \A k \in 1 .. Len(msgs) :
              /\ msgs[k].type \in Behind("vote")
              /\ msgs[k].type = "WRITEBLOCK" => Mine(msgs[k].updateId, msgs[k].update)
<1> DEFINE again == Retransmission(smallest)
<1>1. again \in Seq(ClientMsg)
  BY RetransmissionType DEF IInv
<1>2. Plain("VOTE") \in ClientMsg /\ Plain("VOTE").type = "VOTE"
  BY BuiltMessages DEF Plain
<1>3. /\ msgs \in Seq(ClientMsg) /\ Len(msgs) = Len(again) + 1
      /\ \A k \in 1 .. Len(again) : msgs[k] = again[k]
      /\ msgs[Len(again) + 1] = Plain("VOTE")
  BY <1>1, <1>2, AppendProperties
<1>4. Len(again) \in Nat /\ DOMAIN again = 1 .. Len(again)
  BY <1>1, LenProperties
<1>5. ASSUME NEW k \in 1 .. Len(again)
      PROVE  /\ again[k].type = "WRITEBLOCK"
             /\ Mine(again[k].updateId, again[k].update)
  <2>1. k \in 1 .. updateId - smallest
    BY <1>4 DEF Retransmission
  <2>2. again[k] = WriteBlockMessage(smallest + k - 1, clientUpdateMap[smallest + k - 1])
    BY <2>1 DEF Retransmission
  <2>3. smallest + k - 1 < updateId
    BY <2>1, Numbers
  <2> QED  BY <2>2, <2>3 DEF WriteBlockMessage, Mine
<1> HIDE DEF again
<1>6. Behind("vote") = {"VOTE", "WRITEBLOCK"}
  BY MsgTypes DEF Behind
<1>7. ASSUME NEW k \in 1 .. Len(msgs)
      PROVE  /\ msgs[k].type \in Behind("vote")
             /\ msgs[k].type = "WRITEBLOCK" => Mine(msgs[k].updateId, msgs[k].update)
  <2>1. k \in 1 .. Len(again) \/ k = Len(again) + 1
    BY <1>3, <1>4
  <2> QED  BY <1>2, <1>3, <1>5, <1>6, <2>1
<1> QED  BY <1>3, <1>7

\* The answers to Vote: the client waits for more, goes on to Commit, or
\* sends what the server that is farthest behind has not got.
LEMMA ProcVoteAckTolerant ==
  ASSUME IInv, Ordered, Tolerant, NEW s \in Server,
         NEW i \in 1 .. Len(toClient[s]), ProcVoteAckMessage(s, i),
         UNCHANGED serverVars
  PROVE  Tolerant'
<1>1. ReadsAck(s, i, {"vote"}) /\ UNCHANGED serverIds
  BY DEF ProcVoteAckMessage
<1>2. /\ i = 1 /\ ReadsHead(s) /\ op = "vote"
      /\ UNCHANGED <<up, clients>>
      /\ 1 \in 1 .. Len(toClient[s]) /\ toClient[s][1].type = AckType[op]
      /\ toClient[s][1].type = "VOTEACK" /\ toClient[s][1] \in ServerMsg
      /\ \A t \in Server : Left(t)
      /\ serverIds = Server
      /\ Accepted(s) = recvServerId \cup {s} /\ Accepted(s) \in SUBSET Server
  BY <1>1, AckRead, AckTypes
<1> DEFINE id == toClient[s][1].updateId
           ids == [recvServerUpdateId EXCEPT ![s] = id]
           recv == Accepted(s)
<1>3. CountVote(s, id)
  BY <1>2 DEF ProcVoteAckMessage
<1>4. id \in 0 .. MaxUpdates /\ id <= nextUpdateId[s]
  <2>1. id \in 0 .. MaxUpdates
    BY <1>2, VoteAckFields
  <2>2. id <= nextUpdateId[s]
    BY <1>2 DEF Tolerant, LossyHolds, Votes
  <2> QED  BY <2>1, <2>2
<1>5. \A t \in Server : ids[t] \in -1 .. MaxUpdates /\ ids[t] <= nextUpdateId[t]
  <2>1. recvServerUpdateId \in [Server -> -1 .. MaxUpdates]
    BY Typing
  <2>2. \A t \in Server : recvServerUpdateId[t] <= nextUpdateId[t]
    BY <1>2 DEF Tolerant, LossyHolds, Votes
  <2> QED  BY <1>4, <2>1, <2>2, Numbers
<1>6. \A t \in recv : ids[t] # -1
  <2>1. recvServerUpdateId \in [Server -> -1 .. MaxUpdates]
    BY Typing
  <2>2. \A t \in recvServerId : t \in Server /\ recvServerUpdateId[t] # -1
    BY <1>2 DEF IInv, ClientInv, VoteBookkeeping, Voted
  <2> QED  BY <1>2, <1>4, <2>1, <2>2, Numbers
<1>7. /\ recvServerUpdateId' = ids
      /\ UNCHANGED transactionVars /\ UNCHANGED closeRecvServerId
      /\ \/ recvServerId' = recv /\ UNCHANGED <<toServer, op>>
         \/ /\ recv = Server /\ SmallestIs(ids, updateId)
            /\ Enter("commit", {}, <<>>, Plain("COMMIT"))
         \/ \E smallest \in 0 .. MaxUpdates :
              Enter("vote", recv, Retransmission(smallest), Plain("VOTE"))
  BY <1>2, <1>3, FullIsAll DEF CountVote, transactionVars, fileVars, promiseVars
<1> HIDE DEF id, ids, recv
<1>8. CASE recvServerId' = recv /\ UNCHANGED <<toServer, op>>
  <2>1. recvServerId' = recvServerId \cup {s}
    BY <1>2, <1>8 DEF recv
  <2>2. \A t \in Server : recvServerUpdateId'[t] <= nextUpdateId[t]
    BY <1>5, <1>7
  <2> QED  BY <1>1, <1>2, <1>7, <1>8, <2>1, <2>2, WaitsTolerant
<1>9. CASE /\ recv = Server /\ SmallestIs(ids, updateId)
           /\ Enter("commit", {}, <<>>, Plain("COMMIT"))
  <2>1. \A t \in Server : updateId <= nextUpdateId[t]
    <3>1. \A t \in Server : updateId <= ids[t]
      BY <1>6, <1>9 DEF SmallestIs
    <3> QED  BY <1>5, <3>1, Numbers
  <2>2. \A t \in Server : CaughtUp(t, "vote")
    <3>1. recvServerId \cup {s} = Server /\ op \notin {"idle", "close2"}
      BY <1>2, <1>9 DEF recv
    <3> QED  BY <1>2, <3>1, AllCaughtUp
  <2> QED  BY <1>1, <1>2, <1>7, <1>9, <2>1, <2>2, DecidesTolerant
<1>10. CASE \E smallest \in 0 .. MaxUpdates :
              Enter("vote", recv, Retransmission(smallest), Plain("VOTE"))
  <2>1. PICK smallest \in 0 .. MaxUpdates :
          Enter("vote", recv, Retransmission(smallest), Plain("VOTE"))
    BY <1>10
  <2> DEFINE msgs == Append(Retransmission(smallest), Plain("VOTE"))
             M == {msgs[k] : k \in 1 .. Len(msgs)}
  <2>2. Multicast(msgs) /\ op' = "vote" /\ recvServerId' = recv
    BY <2>1 DEF Enter
  <2>3. /\ msgs \in Seq(ClientMsg)
        /\ \A k \in 1 .. Len(msgs) :
             /\ msgs[k].type \in Behind("vote")
             /\ msgs[k].type = "WRITEBLOCK" => Mine(msgs[k].updateId, msgs[k].update)
    BY NewRound
  <2> HIDE DEF msgs
  <2>4. \A p \in M : /\ p.type \in Behind(op)
                     /\ p.type = "WRITEBLOCK" => Mine(p.updateId, p.update)
    BY <1>2, <2>3
  <2>5. \A t \in Server : Added(toServer[t], toServer'[t], M)
    <3> SUFFICES ASSUME NEW t \in Server PROVE Added(toServer[t], toServer'[t], M)
      OBVIOUS
    <3>1. toServer[t] \in Seq(ClientMsg) /\ up[t]
      BY Typing DEF Tolerant, LossyBooks
    <3>2. toServer'[t] = toServer[t] \o msgs
      BY <2>2, <3>1 DEF Multicast
    <3>3. Added(toServer[t], toServer[t] \o msgs, M)
      BY <2>3, <3>1, ConcatAdds
    <3> QED  BY <3>2, <3>3
  <2> HIDE DEF M
  <2>6. \A t \in Server :
          /\ Added(toServer[t], toServer'[t], M) /\ Left(t)
          /\ t \in recvServerId' =>
               \/ t \in recvServerId
               \/ 1 \in 1 .. Len(toClient[t]) /\ toClient[t][1].type = AckType[op]
          /\ op = "vote" => recvServerUpdateId'[t] <= nextUpdateId[t]
    BY <1>2, <1>5, <1>7, <2>2, <2>5 DEF recv
  <2>7. op' = op /\ op \notin {"idle", "init"}
    BY <1>2, <2>2
  <2> QED  BY <1>1, <1>2, <1>7, <2>4, <2>6, <2>7, GoesOnTolerant
<1> QED  BY <1>7, <1>8, <1>9, <1>10

-----------------------------------------------------------------------------
(* The invariant of the whole.                                              *)

\* Only InitReplFs runs until time is up, and it ends well.
LEMMA TimeoutTolerant ==
  ASSUME IInv, Ordered, Tolerant, Timeout, UNCHANGED serverVars
  PROVE  Tolerant'
<1>1. op = "init" /\ UNCHANGED <<toClient, up, serverIds, clients>>
  BY DEF Timeout, MayTimeOut, Ordered, Tolerant, LossyBooks, bookVars
<1>2. InitEnds
  BY <1>1 DEF Timeout, ExecuteOk, ExecuteError
<1>3. /\ op' = "idle" /\ recvServerId' = {} /\ closeRecvServerId' = {}
      /\ UNCHANGED <<toServer, isFileOpen, clientUpdateMap, updateId,
                     promised, inDoubt>>
  BY <1>2 DEF InitEnds, ReturnToApp, fileVars, stagedVars, promiseVars
<1>4. ~isFileOpen /\ \A t \in Server : Pristine(t)
  BY <1>1 DEF Tolerant, Fresh
<1>5. \A t \in Server :
        /\ Left(t)
        /\ Only(toClient[t], {AckType["init"]})
        /\ Only(toServer[t], {MsgType["init"], "WRITEBLOCK"})
  BY <1>1, <1>4, AckTypes, MsgTypes DEF Left, Pristine, Only
<1>6. op \notin {"idle", "commit"} /\ ~isFileOpen'
  BY <1>1, <1>3, <1>4
<1> QED  BY <1>1, <1>3, <1>5, <1>6, EndsTolerant

\* The one client does not die: another would have to follow it.
LEMMA NoCrashTolerant ==
  ASSUME IInv, Ordered, Tolerant
  PROVE  ~ClientCrash
<1> SUFFICES ASSUME ClientCrash PROVE FALSE
  OBVIOUS
<1>1. clients = 0
  BY Typing DEF ClientCrash, Ordered
<1>2. op = "idle" /\ serverIds = {}
  BY <1>1 DEF Tolerant, LossyBooks
<1> QED  BY <1>2 DEF ClientCrash

\* Every step of the client keeps the invariant.
LEMMA ClientTolerant ==
  ASSUME IInv, Ordered, Tolerant, ClientStep, UNCHANGED serverVars
  PROVE  Tolerant'
<1>1. CASE CallStep
  <2>1. ~Abort
    BY DEF Abort, StartCall, Ordered
  <2>2. ASSUME Commit \/ CloseFile PROVE Tolerant'
    BY <2>2, StartCallTolerant DEF Commit, CloseFile
  <2> QED  BY <1>1, <2>1, <2>2, InitReplFsTolerant, OpenFileTolerant, WriteBlockTolerant
           DEF CallStep
<1>2. ASSUME NEW s \in Server, ReadStep(s) PROVE Tolerant'
  <2>1. PICK i \in 1 .. Len(toClient[s]) : HandleAck(s, i) \/ IgnoreAck(s, i)
    BY <1>2 DEF ReadStep
  <2> QED  BY <2>1, ProcInitAckTolerant, ProcAckTolerant, ProcCloseAckTolerant,
              ProcVoteAckTolerant, IgnoreAckTolerant DEF HandleAck
<1>3. ~ClientCrash
  BY NoCrashTolerant
<1> QED  BY <1>1, <1>2, <1>3, ResendTolerant, TimeoutTolerant DEF ClientStep

\* The program starts in the invariant.
LEMMA InitIsTolerant ==
  ASSUME Ordered, Init
  PROVE  Tolerant
<1>1. IInv
  BY InitSafe
<1>2. /\ op = "idle" /\ ~isFileOpen /\ fileName = NoFile /\ clients = 0
      /\ serverIds = {} /\ recvServerId = {} /\ closeRecvServerId = {}
      /\ inDoubt = {} /\ promised = [f \in File |-> Absent]
  BY DEF Init, ClientInit
<1>3. \A s \in Server :
        /\ toServer[s] = <<>> /\ toClient[s] = <<>> /\ up[s]
        /\ fileFullname[s] = NoFile /\ updateMap[s] = NoUpdates
        /\ fp[s] = NoFile /\ backup[s] = NoFile
        /\ disk[s] = [f \in File |-> Absent]
  BY DEF Init, NetInit, ServerInit
<1>4. Cached(NoUpdates) = {} /\ NoFile # Dangling
  BY NoUpdatesFacts, DataAssumption
<1>5. \A T : Only(<<>>, T)
  BY DEF Only
<1>6. LossyBooks
  BY <1>2, <1>3, <1>4, SomeServer DEF LossyBooks
<1>7. Fresh
  BY <1>2, <1>3, <1>4, <1>5 DEF Fresh, Pristine, Cached
<1>8. ASSUME NEW s \in Server PROVE LossyChannels(s) /\ LossyHolds(s)
  <2>1. /\ \A k \in 1 .. Len(toServer[s]) : FALSE
        /\ \A k \in 1 .. Len(toClient[s]) : FALSE
    BY <1>3
  <2>2. LossyChannels(s)
    BY <1>2, <2>1 DEF LossyChannels, Sequenced, Resting, NoOldVotes, NoErrors,
       CloseLeaves, Only
  <2>3. Cached(updateMap[s]) = {}
    BY <1>3, <1>4 DEF Cached
  <2>4. LossyHolds(s)
    BY <1>2, <1>3, <2>1, <2>3 DEF LossyHolds, OnlyMine, Opens, Votes, Decided,
       CommitsLeft, AsPromised, LetsGo
  <2> QED  BY <2>2, <2>4
<1> QED  BY <1>6, <1>7, <1>8 DEF Tolerant

\* Every step of replFs keeps the invariant, and writes no file the client has
\* not decided to commit.
LEMMA NextTolerant ==
  ASSUME IInv, Ordered, Tolerant, [Next]_vars
  PROVE  Tolerant' /\ DiskFollowsDecision
<1>1. ASSUME NEW s \in Server, ServerStep(s), UNCHANGED clientVars
      PROVE  Tolerant' /\ DiskFollowsDecision
  BY <1>1, ServerTolerant
<1>2. ASSUME UNCHANGED serverVars PROVE DiskFollowsDecision
  BY <1>2 DEF DiskFollowsDecision, serverVars
<1>3. CASE ClientStep /\ UNCHANGED serverVars
  BY <1>2, <1>3, ClientTolerant
<1>4. CASE UNCHANGED vars
  <2>1. UNCHANGED serverVars /\ UNCHANGED clientVars
        /\ UNCHANGED <<toServer, toClient, up>>
    BY <1>4 DEF vars, netVars
  <2>2. UNCHANGED <<fileFullname, updateMap, nextUpdateId, fp, disk, backup>>
    BY <2>1 DEF serverVars, memoryVars
  <2>3. /\ UNCHANGED <<op, recvServerId, closeRecvServerId, serverIds, clients>>
        /\ UNCHANGED <<isFileOpen, fileName, updateId, promised, inDoubt>>
    BY <2>1 DEF clientVars, callVars, fileVars, stagedVars, bookVars, promiseVars
  <2>4. ASSUME NEW t \in Server PROVE LossyChannels(t)' /\ LossyHolds(t)'
    BY <2>1, <2>2, LossyChannelsKept, LossyHoldsKept DEF Tolerant
  <2>5. LossyBooks'
    BY <2>1, <2>2, <2>3 DEF Tolerant, LossyBooks
  <2>6. Fresh'
    BY <2>1, <2>2, <2>3 DEF Tolerant, Fresh, Pristine, Only, Cached
  <2>7. Tolerant'
    BY <2>4, <2>5, <2>6 DEF Tolerant
  <2> QED  BY <1>2, <2>1, <2>7
<1> QED  BY <1>1, <1>3, <1>4 DEF Next

\* On a network that keeps the order of packets, whatever it loses, the
\* invariant holds throughout.
THEOREM TolerantAlways == Ordered => (Spec => []Tolerant)
<1> SUFFICES ASSUME Ordered PROVE Spec => []Tolerant
  OBVIOUS
<1>1. Init => Tolerant
  BY InitIsTolerant
<1>2. IInv /\ Tolerant /\ [Next]_vars => Tolerant'
  BY NextTolerant
<1> QED  BY <1>1, <1>2, Invariance, PTL DEF Spec

-----------------------------------------------------------------------------
(* What a team that runs replFs on such a network may rely on.              *)

\* When Commit decides, every replica has all the staged updates cached or in
\* the file, whichever of the messages that brought them were lost.  (A round
\* of votes that runs out of time ends otherwise: Ordered excludes it.)
THEOREM AllPreparedDespiteLoss == Ordered => (Spec => []AllPrepared)
<1> SUFFICES ASSUME Ordered PROVE Spec => []AllPrepared
  OBVIOUS
<1>1. IInv /\ Tolerant => AllPrepared
  <2> SUFFICES ASSUME IInv, Tolerant, op = "commit", NEW s \in Replicas
               PROVE  Prepared(s) \/ Committed(s)
    BY DEF AllPrepared
  <2>1. s \in Server
    BY Typing DEF Replicas
  <2>2. Decided(s)
    BY <2>1 DEF Tolerant, LossyHolds
  <2> QED  BY <2>2 DEF Decided, CarriedOut, Prepared, Committed
<1> QED  BY <1>1, Invariance, TolerantAlways, PTL

\* When Commit is sent, every replica has the application's file open.
THEOREM SameFileDespiteLoss == Ordered => (Spec => []SameFileEverywhere)
<1> SUFFICES ASSUME Ordered PROVE Spec => []SameFileEverywhere
  OBVIOUS
<1>1. IInv /\ Tolerant => SameFileEverywhere
  <2>1. ASSUME IInv PROVE Replicas \subseteq Server
    BY <2>1, Typing DEF Replicas
  <2> QED  BY <2>1 DEF Tolerant, LossyHolds, Decided, SameFileEverywhere
<1> QED  BY <1>1, Invariance, TolerantAlways, PTL

\* A vote the client has counted is still true: what the server counted then
\* it still has, and it is the client's.
THEOREM VotesHonestDespiteLoss == Ordered => (Spec => []VotesAreHonest)
<1> SUFFICES ASSUME Ordered PROVE Spec => []VotesAreHonest
  OBVIOUS
<1>1. IInv /\ Tolerant => VotesAreHonest
  <2> SUFFICES ASSUME IInv, Tolerant, op = "vote", NEW s \in Replicas,
                      NEW i \in UpdateId, i < recvServerUpdateId[s]
               PROVE  i < nextUpdateId[s] /\ updateMap[s][i] = clientUpdateMap[i]
    BY DEF VotesAreHonest
  <2>1. s \in Server
    BY Typing DEF Replicas
  <2>2. recvServerUpdateId[s] \in Int /\ nextUpdateId[s] \in Nat /\ i \in Nat
    BY <2>1, Typing, Numbers DEF UpdateId
  <2>3. recvServerUpdateId[s] <= nextUpdateId[s]
    BY <2>1 DEF Tolerant, LossyHolds, Votes
  <2>4. i < nextUpdateId[s]
    BY <2>2, <2>3
  <2>5. i \in Cached(updateMap[s])
    BY <2>1, <2>4 DEF IInv, ServerInv, ServerPrefix, HasPrefix, Cached
  <2>6. updateMap[s][i] = clientUpdateMap[i]
    BY <2>1, <2>5 DEF Tolerant, LossyHolds, OnlyMine, Mine
  <2> QED  BY <2>4, <2>6
<1> QED  BY <1>1, Invariance, TolerantAlways, PTL

\* A replica has exactly the updates whose commit succeeded on its disk, or
\* is ahead of a commit under way.
THEOREM PromiseDespiteLoss == Ordered => (Spec => []ReplicasMatchPromise)
<1> SUFFICES ASSUME Ordered PROVE Spec => []ReplicasMatchPromise
  OBVIOUS
<1>1. IInv /\ Tolerant => ReplicasMatchPromise
  <2> SUFFICES ASSUME IInv, Tolerant, NEW s \in Replicas, NEW f \in File
               PROVE  \/ disk[s][f] = promised[f]
                      \/ op = "commit" /\ f = fileName /\ disk[s][f] = After
    BY DEF ReplicasMatchPromise
  <2>1. s \in Server
    BY Typing DEF Replicas
  <2>2. CASE op # "commit"
    BY <2>1, <2>2 DEF Tolerant, LossyHolds, AsPromised
  <2>3. CASE op = "commit"
    <3>1. fileName \in File
      BY <2>3 DEF IInv, ClientInv, FileNamed
    <3>2. f = fileName
      BY <3>1 DEF Ordered
    <3>3. disk[s] = promised \/ disk[s][fileName] = After
      BY <2>1, <2>3 DEF Tolerant, LossyHolds, Decided
    <3> QED  BY <2>3, <3>2, <3>3
  <2> QED  BY <2>2, <2>3
<1> QED  BY <1>1, Invariance, TolerantAlways, PTL

\* No replica writes a file before the client has decided to commit it, and
\* none does after the call has returned.
THEOREM DecisionDespiteLoss == Ordered => (Spec => DecisionFirst)
<1> SUFFICES ASSUME Ordered PROVE Spec => DecisionFirst
  OBVIOUS
<1>1. IInv /\ Tolerant /\ [Next]_vars => [DiskFollowsDecision]_vars
  BY NextTolerant
<1>2. [DiskFollowsDecision]_vars <=>
        [\A s \in Replicas : \A f \in File :
           disk'[s][f] # disk[s][f] => op = "commit" /\ f = fileName]_vars
  BY DEF DiskFollowsDecision
<1> QED  BY <1>1, <1>2, Invariance, TolerantAlways, PTL DEF Spec, DecisionFirst
=============================================================================
