------------------------ MODULE ReplFsReliableProofs ------------------------
(***************************************************************************)
(* On a dependable network every step of the client keeps Reliable, so     *)
(* that replFs keeps its promises there, for any number of servers killed  *)
(* at any moment, any number of calls, files and packets under way.        *)
(***************************************************************************)
EXTENDS ReplFsReliableServerProofs

-----------------------------------------------------------------------------
(* What a client step does to the channels.                                 *)

\* Every running server gets packet m.
Sent(m) ==
  \A t \in Server :
    \/ up[t] /\ Put(toServer[t], m, toServer'[t])
    \/ ~up[t] /\ toServer'[t] = toServer[t]

\* Server t gets packet m, if it runs.
Got(t, m) == toServer'[t] = toServer[t] \/ Put(toServer[t], m, toServer'[t])

\* The client may have read one of the answers of t.
Left(t) == toClient'[t] = toClient[t] \/ Taken(toClient[t], toClient'[t])

\* The client reads the first answer of s.
ReadsHead(s) ==
  /\ 1 \in 1 .. Len(toClient[s])
  /\ Taken(toClient[s], toClient'[s])
  /\ \A t \in Server : t # s => toClient'[t] = toClient[t]
  /\ UNCHANGED up

\* A multicast of one packet.
LEMMA MulticastSends ==
  ASSUME IInv, NEW m \in ClientMsg, Multicast(<<m>>)
  PROVE  Sent(m)
<1> SUFFICES ASSUME NEW t \in Server
             PROVE  \/ up[t] /\ Put(toServer[t], m, toServer'[t])
                    \/ ~up[t] /\ toServer'[t] = toServer[t]
  BY DEF Sent
<1>1. toServer'[t] = IF up[t] THEN toServer[t] \o <<m>> ELSE toServer[t]
  BY DEF Multicast
<1>2. Put(toServer[t], m, toServer[t] \o <<m>>)
  <2>1. toServer[t] \in Seq(ClientMsg)
    BY Typing
  <2> QED  BY <2>1, EndPut
<1>3. up[t] \in BOOLEAN
  BY Typing
<1> QED  BY <1>1, <1>2, <1>3

\* A new execute(o) begins with its message.
LEMMA EnterSends ==
  ASSUME IInv, NEW o, NEW recv, NEW m \in ClientMsg, Enter(o, recv, <<>>, m)
  PROVE  Sent(m) /\ op' = o /\ recvServerId' = recv
<1>1. Append(<<>>, m) = <<m>>
  OBVIOUS
<1> QED  BY <1>1, MulticastSends DEF Enter

\* The client reads the packets of a server one by one.
LEMMA ReadsHeads ==
  ASSUME IInv, ReorderWindow = 1, NEW s \in Server, NEW i \in 1 .. Len(toClient[s]),
         Reads(s, i)
  PROVE  i = 1 /\ ReadsHead(s) /\ op # "idle"
<1>1. i = 1 /\ op # "idle" /\ UNCHANGED up
  BY DEF Reads, Deliverable
<1>2. toClient'[s] = RemoveAt(toClient[s], 1)
      /\ \A t \in Server : t # s => toClient'[t] = toClient[t]
  BY <1>1, Typing DEF Reads, Without
<1>3. Taken(toClient[s], RemoveAt(toClient[s], 1))
  <2>1. toClient[s] \in Seq(ServerMsg)
    BY Typing
  <2> QED  BY <1>1, <2>1, HeadTaken
<1> QED  BY <1>1, <1>2, <1>3 DEF ReadsHead

\* What is said of all answers is still true of those left.
LEMMA LeftAnswers ==
  ASSUME NEW t, Left(t)
  PROVE  /\ \A k \in 1 .. Len(toClient'[t]) :
              \E j \in 1 .. Len(toClient[t]) : toClient'[t][k] = toClient[t][j]
         /\ \A T : Only(toClient[t], T) => Only(toClient'[t], T)
<1>1. ASSUME NEW k \in 1 .. Len(toClient'[t])
      PROVE  \E j \in 1 .. Len(toClient[t]) : toClient'[t][k] = toClient[t][j]
  <2>1. CASE toClient'[t] = toClient[t]
    BY <2>1
  <2>2. CASE Taken(toClient[t], toClient'[t])
    <3>1. k + 1 \in 1 .. Len(toClient[t])
          /\ toClient'[t][k] = toClient[t][k + 1]
      BY <2>2 DEF Taken
    <3> QED  BY <3>1
  <2> QED  BY <2>1, <2>2 DEF Left
<1> QED  BY <1>1 DEF Only

\* The packets of a server that got m are those it had, and m.
LEMMA GotPackets ==
  ASSUME NEW t, NEW m, Got(t, m)
  PROVE  /\ \A k \in 1 .. Len(toServer'[t]) :
              \/ toServer'[t][k] = m
              \/ k \in 1 .. Len(toServer[t]) /\ toServer'[t][k] = toServer[t][k]
         /\ \A T : Only(toServer[t], T) /\ m.type \in T => Only(toServer'[t], T)
<1>1. \A k \in 1 .. Len(toServer'[t]) :
        \/ toServer'[t][k] = m
        \/ k \in 1 .. Len(toServer[t]) /\ toServer'[t][k] = toServer[t][k]
  BY DEF Got, Put
<1> QED  BY <1>1 DEF Only

-----------------------------------------------------------------------------
(* The channels of a selected server.                                       *)

\* Waiting: an answer is read, and counted if it is one to the operation.
LEMMA WaitChannels ==
  ASSUME NEW t, Channels(t), op # "idle", UNCHANGED <<op, isFileOpen, updateId>>,
         toServer'[t] = toServer[t], Left(t),
         t \in recvServerId' =>
           \/ t \in recvServerId
           \/ 1 \in 1 .. Len(toClient[t]) /\ toClient[t][1].type = AckType[op]
  PROVE  Channels(t)'
<1>1. t \in recvServerId' => Settled(t, op)
  <2>1. ASSUME 1 \in 1 .. Len(toClient[t]), toClient[t][1].type = AckType[op]
        PROVE  Settled(t, op)
    BY <2>1 DEF Channels, InOrder, Settled, Only
  <2> QED  BY <2>1 DEF Channels, InOrder
<1>2. Settled(t, op) => Settled(t, op)'
  BY LeftAnswers DEF Settled, Only, Follow
<1>3. ASSUME NEW k \in 1 .. Len(toClient'[t]), toClient'[t][k].type = AckType[op]
      PROVE  /\ \A j \in k .. Len(toClient'[t]) : toClient'[t][j].type = AckType[op]
             /\ Only(toServer'[t], Follow(op))
  <2>1. CASE toClient'[t] = toClient[t]
    BY <1>3, <2>1 DEF Channels, InOrder
  <2>2. CASE Taken(toClient[t], toClient'[t])
    <3>1. k + 1 \in 1 .. Len(toClient[t])
          /\ toClient[t][k + 1].type = AckType[op]
      BY <1>3, <2>2 DEF Taken
    <3>2. (\A j \in k + 1 .. Len(toClient[t]) : toClient[t][j].type = AckType[op])
          /\ Only(toServer[t], Follow(op))
      BY <3>1 DEF Channels, InOrder
    <3>3. \A j \in k .. Len(toClient'[t]) :
            j + 1 \in k + 1 .. Len(toClient[t])
            /\ toClient'[t][j] = toClient[t][j + 1]
      BY <2>2 DEF Taken
    <3> QED  BY <3>2, <3>3
  <2> QED  BY <2>1, <2>2 DEF Left
<1>4. InOrder(t)'
  BY <1>1, <1>2, <1>3 DEF Channels, InOrder, Follow
<1>5. Quiet(t)'
  BY DEF Quiet
<1>6. \A k \in 1 .. Len(toClient'[t]) :
        \E j \in 1 .. Len(toClient[t]) : toClient'[t][k] = toClient[t][j]
  BY LeftAnswers
<1>7. NoOldVotes(t)'
  BY <1>6 DEF Channels, NoOldVotes
<1>8. Answers(t)'
  BY <1>6 DEF Channels, Answers
<1> QED  BY <1>4, <1>5, <1>7, <1>8 DEF Channels

\* The message of the operation is sent once more.
LEMMA ResendChannels ==
  ASSUME NEW t, Channels(t), op \in Op, op # "idle",
         UNCHANGED <<op, isFileOpen, updateId, recvServerId>>,
         toClient'[t] = toClient[t], NEW m, m.type = MsgType[op], Got(t, m)
  PROVE  Channels(t)'
<1>0. m.type \in Follow(op) /\ (m.type = "VOTE" => op = "vote")
  BY MsgTypes DEF Follow, Op
<1>1. Only(toServer[t], Follow(op)) => Only(toServer'[t], Follow(op))
  BY <1>0, GotPackets
<1>2. ASSUME NEW k \in 1 .. Len(toServer'[t]), toServer'[t][k].type = MsgType[op],
             NEW j \in k .. Len(toServer'[t])
      PROVE  toServer'[t][j].type \in Follow(op)
  <2>1. CASE toServer'[t][j] = m
    BY <1>0, <2>1
  <2>2. CASE j \in 1 .. Len(toServer[t]) /\ toServer'[t][j] = toServer[t][j]
    <3>1. CASE toServer'[t] = toServer[t]
      BY <1>2, <3>1 DEF Channels, InOrder
    <3>2. CASE Put(toServer[t], m, toServer'[t])
      <4>1. k \in 1 .. Len(toServer[t]) /\ toServer'[t][k] = toServer[t][k]
        BY <2>2, <3>2 DEF Put
      <4> QED  BY <1>2, <2>2, <4>1 DEF Channels, InOrder
    <3> QED  BY <3>1, <3>2 DEF Got
  <2>3. j \in 1 .. Len(toServer'[t])
    BY DEF Got, Put
  <2> QED  BY <2>1, <2>2, <2>3, GotPackets
<1>3. InOrder(t)'
  BY <1>1, <1>2 DEF Channels, InOrder, Settled, Follow
<1>4. Quiet(t)'
  BY DEF Quiet
<1>5. NoOldVotes(t)' /\ Answers(t)'
  BY <1>0, GotPackets DEF Channels, NoOldVotes, Answers
<1> QED  BY <1>3, <1>4, <1>5 DEF Channels

\* No packet of operation o is under way to or from t.
Clean(t, o) ==
  /\ \A k \in 1 .. Len(toClient[t]) : toClient[t][k].type # AckType[o]
  /\ \A k \in 1 .. Len(toServer[t]) : toServer[t][k].type # MsgType[o]

\* Nothing but packets of o, or blocks, is.
Alike(t, o) ==
  o \in {"open", "abort"} /\ Only(toClient[t], {AckType[o]})
  /\ Only(toServer[t], Follow(o))

\* A new operation begins; no answer or message of an earlier one can be
\* taken for one of its own, or it does no harm.
LEMMA StartChannels ==
  ASSUME NEW t, Answers(t), NEW o \in Op \ {"idle", "init"},
         op' = o, recvServerId' = {},
         Clean(t, o) \/ Alike(t, o), Left(t),
         NEW m, m.type = MsgType[o], Got(t, m),
         o \notin {"vote", "commit"} =>
           /\ \A k \in 1 .. Len(toServer[t]) : toServer[t][k].type # "VOTE"
           /\ \A k \in 1 .. Len(toClient[t]) : toClient[t][k].type # "VOTEACK"
  PROVE  Channels(t)'
<1>0. m.type \in Follow(o) /\ (m.type = "VOTE" => o = "vote")
  BY MsgTypes DEF Follow, Op
<1>n. NoOldVotes(t)'
  <2>1. ASSUME o \notin {"vote", "commit"}
        PROVE  /\ \A k \in 1 .. Len(toServer'[t]) : toServer'[t][k].type # "VOTE"
               /\ \A k \in 1 .. Len(toClient'[t]) : toClient'[t][k].type # "VOTEACK"
    <3>1. \A k \in 1 .. Len(toServer'[t]) : toServer'[t][k].type # "VOTE"
      BY <1>0, <2>1, GotPackets
    <3>2. \A k \in 1 .. Len(toClient'[t]) : toClient'[t][k].type # "VOTEACK"
      BY <2>1, LeftAnswers
    <3> QED  BY <3>1, <3>2
  <2> QED  BY <2>1 DEF NoOldVotes
<1>q. Quiet(t)'
  BY DEF Quiet
<1>1. CASE Clean(t, o)
  <2>1. \A k \in 1 .. Len(toClient'[t]) : toClient'[t][k].type # AckType[o]
    BY <1>1, LeftAnswers DEF Clean
  <2>2. ASSUME NEW k \in 1 .. Len(toServer'[t]), toServer'[t][k].type = MsgType[o],
               NEW j \in k .. Len(toServer'[t])
        PROVE  toServer'[t][j].type \in Follow(o)
    <3>1. Put(toServer[t], m, toServer'[t])
      BY <1>1, <2>2 DEF Clean, Got
    <3>2. k = Len(toServer[t]) + 1 /\ j = k
      BY <1>1, <2>2, <3>1 DEF Clean, Put
    <3> QED  BY <1>0, <3>1, <3>2 DEF Put
  <2>3. InOrder(t)'
    BY <2>1, <2>2 DEF InOrder, Follow
  <2>4. Answers(t)'
    BY <2>1, LeftAnswers, AckTypes DEF Answers
  <2> QED  BY <1>n, <1>q, <2>3, <2>4 DEF Channels
<1>2. CASE Alike(t, o)
  <2>1. Only(toServer'[t], Follow(o)) /\ Only(toClient'[t], {AckType[o]})
    BY <1>0, <1>2, GotPackets, LeftAnswers DEF Alike
  <2>2. InOrder(t)'
    <3>1. \A k \in 1 .. Len(toClient'[t]) : toClient'[t][k].type = AckType[o]
      BY <2>1 DEF Only
    <3>2. \A k \in 1 .. Len(toServer'[t]) : toServer'[t][k].type \in Follow(o)
      BY <2>1 DEF Only
    <3>3. \A k \in 1 .. Len(toServer'[t]) : \A j \in k .. Len(toServer'[t]) :
            j \in 1 .. Len(toServer'[t])
      OBVIOUS
    <3>4. \A k \in 1 .. Len(toClient'[t]) : \A j \in k .. Len(toClient'[t]) :
            j \in 1 .. Len(toClient'[t])
      OBVIOUS
    <3> QED  BY <2>1, <3>1, <3>2, <3>3, <3>4 DEF InOrder, Follow, Only
  <2>3. Answers(t)'
    BY <1>2, LeftAnswers, AckTypes DEF Answers, Alike
  <2> QED  BY <1>n, <1>q, <2>2, <2>3 DEF Channels
<1> QED  BY <1>1, <1>2

\* The call is over: what is under way is left over from one operation.
LEMMA RestChannels ==
  ASSUME NEW t, Answers(t), op' = "idle", Left(t),
         NEW o \in {"init", "open", "commit", "abort", "close"},
         o = "close" => ~isFileOpen',
         Only(toClient'[t], {AckType[o]}),
         Only(toServer'[t], {MsgType[o], "WRITEBLOCK"})
  PROVE  Channels(t)'
<1>1. Quiet(t)' /\ InOrder(t)'
  BY DEF Quiet, InOrder
<1>2. NoOldVotes(t)'
  BY AckTypes, MsgTypes DEF NoOldVotes, Only
<1>3. Answers(t)'
  BY LeftAnswers DEF Answers
<1> QED  BY <1>1, <1>2, <1>3 DEF Channels

-----------------------------------------------------------------------------
(* What a replica holds, seen by a step of the client: Updates.             *)

\* A packet a server has not read carries an id the map has.
LEMMA IdsUnderWay ==
  ASSUME IInv, NEW t \in Server, NEW k \in 1 .. Len(toServer[t]),
         toServer[t][k].type = "WRITEBLOCK"
  PROVE  toServer[t][k].updateId \in UpdateId
<1>1. toServer[t] \in Seq(ClientMsg)
  BY Typing
<1>2. toServer[t][k] \in ClientMsg
  BY <1>1, ElementOfSeq
<1> QED  BY <1>2, WriteBlockFields

\* Staged after the step.
StagedNext(id, u) == id < Target' /\ u = clientUpdateMap'[id]

\* Updates(t)' said of a queue and a cache.
UpdatesNext(q, map) ==
  /\ \A k \in 1 .. Len(q) :
       q[k].type = "WRITEBLOCK" /\ NoneAfter(q, k, Clears) =>
         StagedNext(q[k].updateId, q[k].update)
  /\ NoneAfter(q, 0, Clears) => \A id \in Cached(map) : StagedNext(id, map[id])
  /\ \A id \in UpdateId : id < Target' =>
       \/ NoneAfter(q, 0, Clears) /\ id \in Cached(map)
       \/ \E k \in 1 .. Len(q) :
            q[k].type = "WRITEBLOCK" /\ q[k].updateId = id /\ NoneAfter(q, k, Clears)

\* It says the same.
LEMMA UpdatesNextSaid ==
  \A t : Updates(t)' <=> UpdatesNext(toServer'[t], updateMap'[t])
BY DEF Updates, UpdatesNext, Staged, StagedNext, NoneAfter, Cached, Clears

\* Neither the channel nor the updates staged change.
LEMMA UpdatesSame ==
  ASSUME IInv, NEW t \in Server, Updates(t), Target' = Target,
         \A id \in UpdateId : id < Target => clientUpdateMap'[id] = clientUpdateMap[id],
         toServer'[t] = toServer[t], updateMap' = updateMap
  PROVE  Updates(t)'
<1>1. \A id \in UpdateId : \A u : Staged(id, u) => StagedNext(id, u)
  BY DEF Staged, StagedNext
<1>2. \A k \in 1 .. Len(toServer[t]) :
        toServer[t][k].type = "WRITEBLOCK" => toServer[t][k].updateId \in UpdateId
  BY IdsUnderWay
<1>3. \A id \in Cached(updateMap[t]) : id \in UpdateId
  BY DEF Cached
<1>4. UpdatesNext(toServer[t], updateMap[t])
  BY <1>1, <1>2, <1>3 DEF Updates, UpdatesNext
<1> QED  BY <1>4, UpdatesNextSaid

\* A message is sent that brings no update and throws none out.
LEMMA UpdatesPut ==
  ASSUME NEW t, Updates(t), UNCHANGED <<clientUpdateMap, updateMap>>,
         Target' = Target, NEW m, Put(toServer[t], m, toServer'[t]),
         m.type \notin Clears, m.type # "WRITEBLOCK"
  PROVE  Updates(t)'
<1> DEFINE Q == toServer[t]
           Qn == toServer'[t]
<1>1. \A id, u : StagedNext(id, u) <=> Staged(id, u)
  BY DEF Staged, StagedNext
<1>2. /\ Len(Q) \in Nat /\ Len(Qn) = Len(Q) + 1
      /\ \A k \in 1 .. Len(Q) : Qn[k] = Q[k]
      /\ Qn[Len(Q) + 1] = m
  BY DEF Put
<1>3. \A k \in 0 .. Len(Q) : NoneAfter(Qn, k, Clears) <=> NoneAfter(Q, k, Clears)
  BY PutNone
<1> HIDE DEF Q, Qn
<1>4. ASSUME NEW k \in 1 .. Len(Qn), Qn[k].type = "WRITEBLOCK",
             NoneAfter(Qn, k, Clears)
      PROVE  Staged(Qn[k].updateId, Qn[k].update)
  <2>1. k \in 1 .. Len(Q) /\ k \in 0 .. Len(Q)
    BY <1>2, <1>4
  <2> QED  BY <1>2, <1>3, <1>4, <2>1 DEF Updates, Q
<1>5. NoneAfter(Qn, 0, Clears) <=> NoneAfter(Q, 0, Clears)
  BY <1>2, <1>3
<1>6. ASSUME NEW id \in UpdateId, id < Target
      PROVE  \/ NoneAfter(Qn, 0, Clears) /\ id \in Cached(updateMap[t])
             \/ \E k \in 1 .. Len(Qn) : Qn[k].type = "WRITEBLOCK"
                  /\ Qn[k].updateId = id /\ NoneAfter(Qn, k, Clears)
  <2>1. \/ NoneAfter(Q, 0, Clears) /\ id \in Cached(updateMap[t])
        \/ \E k \in 1 .. Len(Q) : Q[k].type = "WRITEBLOCK"
             /\ Q[k].updateId = id /\ NoneAfter(Q, k, Clears)
    BY <1>6 DEF Updates, Q
  <2>2. ASSUME NEW k \in 1 .. Len(Q), Q[k].type = "WRITEBLOCK",
               Q[k].updateId = id, NoneAfter(Q, k, Clears)
        PROVE  \E j \in 1 .. Len(Qn) : Qn[j].type = "WRITEBLOCK"
                 /\ Qn[j].updateId = id /\ NoneAfter(Qn, j, Clears)
    <3>1. k \in 1 .. Len(Qn) /\ k \in 0 .. Len(Q) /\ Qn[k] = Q[k]
      BY <1>2
    <3> QED  BY <1>3, <2>2, <3>1
  <2> QED  BY <1>5, <2>1, <2>2
<1>7. NoneAfter(Qn, 0, Clears) =>
        \A id \in Cached(updateMap[t]) : Staged(id, updateMap[t][id])
  BY <1>5 DEF Updates, Q
<1>8. UpdatesNext(Qn, updateMap[t])
  BY <1>1, <1>4, <1>6, <1>7 DEF UpdatesNext
<1> QED  BY <1>8, UpdatesNextSaid DEF Qn

\* A Commit or an Abort throws out all that was staged.
LEMMA UpdatesCleared ==
  ASSUME IInv, NEW t, Target' = 0, NEW m, Put(toServer[t], m, toServer'[t]),
         m.type \in Clears
  PROVE  Updates(t)'
<1> DEFINE Qn == toServer'[t]
<1>1. \A k \in 0 .. Len(toServer[t]) : ~NoneAfter(Qn, k, Clears)
  BY PutNone
<1>2. ~NoneAfter(Qn, 0, Clears)
  BY <1>1 DEF Put
<1>3. \A k \in 1 .. Len(Qn) :
        ~(Qn[k].type = "WRITEBLOCK" /\ NoneAfter(Qn, k, Clears))
  <2> SUFFICES ASSUME NEW k \in 1 .. Len(Qn), Qn[k].type = "WRITEBLOCK",
                      NoneAfter(Qn, k, Clears)
               PROVE  FALSE
    OBVIOUS
  <2>1. CASE k \in 0 .. Len(toServer[t])
    BY <1>1, <2>1
  <2>2. CASE k = Len(toServer[t]) + 1
    BY <2>2 DEF Put, Clears
  <2> QED  BY <2>1, <2>2 DEF Put
<1>4. \A id \in UpdateId : ~(id < Target')
  BY Numbers DEF UpdateId
<1>5. UpdatesNext(Qn, updateMap'[t])
  BY <1>2, <1>3, <1>4 DEF UpdatesNext
<1> QED  BY <1>5, UpdatesNextSaid

\* Nothing is cached, under way, or staged.
LEMMA UpdatesNone ==
  ASSUME IInv, NEW t, Target' = 0, updateMap' = updateMap,
         Cached(updateMap[t]) = {},
         \A k \in 1 .. Len(toServer'[t]) : toServer'[t][k].type # "WRITEBLOCK"
  PROVE  Updates(t)'
<1>1. \A id \in UpdateId : ~(id < Target')
  BY Numbers DEF UpdateId
<1>2. UpdatesNext(toServer'[t], updateMap[t])
  BY <1>1 DEF UpdatesNext
<1> QED  BY <1>2, UpdatesNextSaid

\* WriteBlock: the new update is staged and on its way.
LEMMA UpdatesWritten ==
  ASSUME IInv, NEW t \in Server, Updates(t), op = "idle", op' = "idle",
         updateMap' = updateMap, updateId < MaxUpdates, NEW u \in Update,
         clientUpdateMap' = [clientUpdateMap EXCEPT ![updateId] = u],
         updateId' = updateId + 1,
         Put(toServer[t], WriteBlockMessage(updateId, u), toServer'[t])
  PROVE  Updates(t)'
<1> DEFINE Q == toServer[t]
           Qn == toServer'[t]
           m == WriteBlockMessage(updateId, u)
<1>0. m.type = "WRITEBLOCK" /\ m.updateId = updateId /\ m.update = u
      /\ m.type \notin Clears
  BY DEF WriteBlockMessage, Clears
<1>1. Target = updateId /\ Target' = updateId + 1 /\ updateId \in Nat
      /\ updateId \in UpdateId
  BY Numbers DEF Target, UpdateId
<1>2. clientUpdateMap'[updateId] = u
      /\ \A id \in UpdateId : id # updateId => clientUpdateMap'[id] = clientUpdateMap[id]
  BY <1>1, Typing DEF UpdateMap
<1>3. /\ Len(Q) \in Nat /\ Len(Qn) = Len(Q) + 1
      /\ \A k \in 1 .. Len(Q) : Qn[k] = Q[k]
      /\ Qn[Len(Q) + 1] = m
  BY DEF Put
<1>4. /\ \A k \in 0 .. Len(Q) : NoneAfter(Qn, k, Clears) <=> NoneAfter(Q, k, Clears)
      /\ NoneAfter(Qn, Len(Qn), Clears)
  BY <1>0, PutNone
<1>5. \A k \in 1 .. Len(Q) : Q[k].type = "WRITEBLOCK" => Q[k].updateId \in UpdateId
  BY IdsUnderWay
<1> HIDE DEF Q, Qn, m
<1>6. \A id \in UpdateId : \A v : Staged(id, v) => StagedNext(id, v)
  <2> SUFFICES ASSUME NEW id \in UpdateId, NEW v, Staged(id, v)
               PROVE  id < updateId + 1 /\ v = clientUpdateMap'[id]
    BY <1>1 DEF StagedNext
  <2>1. id < updateId /\ id \in Nat /\ v = clientUpdateMap[id]
    BY <1>1, Numbers DEF Staged, UpdateId
  <2> QED  BY <1>1, <1>2, <2>1
<1>7. StagedNext(updateId, u)
  BY <1>1, <1>2 DEF StagedNext
<1>8. ASSUME NEW k \in 1 .. Len(Qn), Qn[k].type = "WRITEBLOCK",
             NoneAfter(Qn, k, Clears)
      PROVE  StagedNext(Qn[k].updateId, Qn[k].update)
  <2>1. CASE k \in 1 .. Len(Q)
    <3>1. k \in 0 .. Len(Q) /\ Qn[k] = Q[k]
      BY <1>3, <2>1
    <3>2. Staged(Q[k].updateId, Q[k].update)
      BY <1>4, <1>8, <2>1, <3>1 DEF Updates, Q
    <3> QED  BY <1>5, <1>6, <1>8, <2>1, <3>1, <3>2
  <2>2. CASE k = Len(Q) + 1
    BY <1>0, <1>3, <1>7, <2>2
  <2> QED  BY <1>3, <2>1, <2>2
<1>9. NoneAfter(Qn, 0, Clears) <=> NoneAfter(Q, 0, Clears)
  BY <1>3, <1>4
<1>10. NoneAfter(Qn, 0, Clears) =>
         \A id \in Cached(updateMap[t]) : StagedNext(id, updateMap[t][id])
  BY <1>6, <1>9 DEF Updates, Q, Cached
<1>11. ASSUME NEW id \in UpdateId, id < Target'
       PROVE  \/ NoneAfter(Qn, 0, Clears) /\ id \in Cached(updateMap[t])
              \/ \E k \in 1 .. Len(Qn) : Qn[k].type = "WRITEBLOCK"
                   /\ Qn[k].updateId = id /\ NoneAfter(Qn, k, Clears)
  <2>1. CASE id = updateId
    <3>1. Len(Qn) \in 1 .. Len(Qn) /\ Qn[Len(Qn)] = m
      BY <1>3
    <3> QED  BY <1>0, <1>4, <2>1, <3>1
  <2>2. CASE id # updateId
    <3>1. id < Target
      BY <1>1, <1>11, <2>2, Numbers DEF UpdateId
    <3>2. \/ NoneAfter(Q, 0, Clears) /\ id \in Cached(updateMap[t])
          \/ \E k \in 1 .. Len(Q) : Q[k].type = "WRITEBLOCK"
               /\ Q[k].updateId = id /\ NoneAfter(Q, k, Clears)
      BY <3>1 DEF Updates, Q
    <3>3. ASSUME NEW k \in 1 .. Len(Q), Q[k].type = "WRITEBLOCK",
                 Q[k].updateId = id, NoneAfter(Q, k, Clears)
          PROVE  \E j \in 1 .. Len(Qn) : Qn[j].type = "WRITEBLOCK"
                   /\ Qn[j].updateId = id /\ NoneAfter(Qn, j, Clears)
      <4>1. k \in 1 .. Len(Qn) /\ k \in 0 .. Len(Q) /\ Qn[k] = Q[k]
        BY <1>3
      <4> QED  BY <1>4, <3>3, <4>1
    <3> QED  BY <1>9, <3>2, <3>3
  <2> QED  BY <2>1, <2>2
<1>12. UpdatesNext(Qn, updateMap[t])
  BY <1>8, <1>10, <1>11 DEF UpdatesNext
<1> QED  BY <1>12, UpdatesNextSaid DEF Qn

-----------------------------------------------------------------------------
(* What a replica holds: names, and whole operations.                       *)

\* No other file is opened.
LEMMA NamedSame ==
  ASSUME NEW t, Named(t), fileName' = fileName, fileFullname' = fileFullname,
         toServer'[t] = toServer[t]
  PROVE  Named(t)'
BY DEF Named, NoneAfter

\* A message is sent that names no file.
LEMMA NamedPut ==
  ASSUME NEW t, Named(t), fileName' = fileName, fileFullname' = fileFullname,
         NEW m, Put(toServer[t], m, toServer'[t]), m.type # "OPENFILE"
  PROVE  Named(t)'
<1> DEFINE Q == toServer[t]
           Qn == toServer'[t]
<1>1. \A k \in 0 .. Len(Q) :
        NoneAfter(Qn, k, {"OPENFILE"}) <=> NoneAfter(Q, k, {"OPENFILE"})
  BY PutNone
<1>2. NoneAfter(Qn, 0, {"OPENFILE"}) => fileFullname[t] = fileName
  BY <1>1 DEF Named, Put
<1>3. ASSUME NEW k \in 1 .. Len(Qn), Qn[k].type = "OPENFILE",
             NoneAfter(Qn, k, {"OPENFILE"})
      PROVE  Qn[k].filename = fileName
  <2>1. k \in 1 .. Len(Q) /\ k \in 0 .. Len(Q) /\ Qn[k] = Q[k]
    BY <1>3 DEF Put
  <2> QED  BY <1>1, <1>3, <2>1 DEF Named
<1> QED  BY <1>2, <1>3 DEF Named, NoneAfter

\* OpenFile is the last word on the name.
LEMMA NamedOpened ==
  ASSUME NEW t, NEW m, Put(toServer[t], m, toServer'[t]),
         m.type = "OPENFILE", m.filename = fileName'
  PROVE  Named(t)'
<1> DEFINE Qn == toServer'[t]
<1>1. \A k \in 0 .. Len(toServer[t]) : ~NoneAfter(Qn, k, {"OPENFILE"})
  BY PutNone
<1>2. ~NoneAfter(Qn, 0, {"OPENFILE"})
  BY <1>1 DEF Put
<1>3. ASSUME NEW k \in 1 .. Len(Qn), Qn[k].type = "OPENFILE",
             NoneAfter(Qn, k, {"OPENFILE"})
      PROVE  Qn[k].filename = fileName'
  <2>1. k = Len(toServer[t]) + 1
    BY <1>1, <1>3 DEF Put
  <2> QED  BY <2>1 DEF Put
<1> QED  BY <1>2, <1>3 DEF Named, NoneAfter

\* Counting an answer makes no new one.
LEMMA AnsweredLeft ==
  ASSUME NEW t, Left(t),
         t \in recvServerId' =>
           \/ t \in recvServerId
           \/ 1 \in 1 .. Len(toClient[t]) /\ toClient[t][1].type = AckType[op]
  PROVE  \A a : a = AckType[op] => (Answered(t, a)' => Answered(t, a))
<1>1. \A k \in 1 .. Len(toClient'[t]) :
        \E j \in 1 .. Len(toClient[t]) : toClient'[t][k] = toClient[t][j]
  BY LeftAnswers
<1> QED  BY <1>1 DEF Answered

\* What the open file and the client's variables of a transaction say.
transactionVars ==
  <<isFileOpen, fileName, clientUpdateMap, updateId, promised, inDoubt>>

\* Waiting changes nothing a replica holds.
LEMMA WaitHolds ==
  ASSUME IInv, NEW t \in Server, Holds(t), op # "idle", op' = op,
         UNCHANGED transactionVars, UNCHANGED serverVars,
         toServer'[t] = toServer[t],
         \A a : a = AckType[op] => (Answered(t, a)' => Answered(t, a))
  PROVE  Holds(t)'
<1>0. /\ UNCHANGED <<isFileOpen, fileName, clientUpdateMap, updateId, promised,
                     inDoubt, After>>
      /\ Target' = Target
      /\ UNCHANGED <<fileFullname, updateMap, nextUpdateId, fp, disk>>
  BY DEF transactionVars, serverVars, memoryVars, After, Target
<1>1. Updates(t)'
  BY <1>0, UpdatesSame DEF Holds
<1>2. Named(t)'
  BY <1>0, NamedSame DEF Holds
<1>3. Voting(t)' /\ Closing(t)'
  BY <1>0, AckTypes DEF Holds, Voting, Closing, Only
<1>4. Committing(t)'
  BY <1>0, AckTypes DEF Holds, Committing, Only, CarriedOut, Cached
<1>5. CommitsLeft(t)' /\ OnDisk(t)'
  BY <1>0 DEF Holds, CommitsLeft, OnDisk, CarriedOut, Cached
<1> QED  BY <1>1, <1>2, <1>3, <1>4, <1>5 DEF Holds

\* A repeated message finds a replica prepared for it.
LEMMA ResendHolds ==
  ASSUME IInv, Bookkeeping, NEW t \in Server, Holds(t), op \in Op, op # "idle",
         op' = op, UNCHANGED transactionVars, UNCHANGED serverVars,
         UNCHANGED recvServerId, toClient'[t] = toClient[t],
         NEW m, Put(toServer[t], m, toServer'[t]), m.type = MsgType[op],
         op = "open" => m.filename = fileName
  PROVE  Holds(t)'
<1>0. /\ UNCHANGED <<isFileOpen, fileName, clientUpdateMap, updateId, promised,
                     inDoubt, After>>
      /\ Target' = Target
      /\ UNCHANGED <<fileFullname, updateMap, nextUpdateId, fp, disk>>
  BY DEF transactionVars, serverVars, memoryVars, After, Target
<1>a. \A a : Answered(t, a)' <=> Answered(t, a)
  BY DEF Answered
<1>g. Got(t, m)
  BY DEF Got
<1>1. Updates(t)'
  <2>1. CASE op \in {"commit", "abort"}
    BY <1>0, <2>1, MsgTypes, UpdatesCleared DEF Target, Clears
  <2>2. CASE op \notin {"commit", "abort"}
    <3>1. m.type \notin Clears /\ m.type # "WRITEBLOCK"
      BY <2>2, MsgTypes DEF Clears, Op
    <3> QED  BY <1>0, <3>1, UpdatesPut DEF Holds
  <2> QED  BY <2>1, <2>2
<1>2. Named(t)'
  <2>1. CASE op = "open"
    BY <1>0, <2>1, MsgTypes, NamedOpened
  <2>2. CASE op # "open"
    <3>1. m.type # "OPENFILE"
      BY <2>2, MsgTypes DEF Op
    <3> QED  BY <1>0, <3>1, NamedPut DEF Holds
  <2> QED  BY <2>1, <2>2
<1>3. Voting(t)'
  BY <1>0, <1>a DEF Holds, Voting
<1>4. Committing(t)'
  <2> SUFFICES ASSUME op = "commit" PROVE Committing(t)'
    BY DEF Committing
  <2>1. m.type = "COMMIT"
    BY MsgTypes
  <2>2. Only(toServer[t], {"VOTE", "COMMIT"}) => Only(toServer'[t], {"VOTE", "COMMIT"})
    BY <1>g, <2>1, GotPackets
  <2>3. Only(toServer[t], {"COMMIT"}) => Only(toServer'[t], {"COMMIT"})
    BY <1>g, <2>1, GotPackets
  <2> QED  BY <1>0, <1>a, <2>2, <2>3 DEF Holds, Committing, CarriedOut, Cached
<1>5. CommitsLeft(t)'
  <2> SUFFICES ASSUME op # "commit", NEW k \in 1 .. Len(toServer'[t]),
                      toServer'[t][k].type = "COMMIT"
               PROVE  /\ \A j \in 1 .. k : toServer'[t][j].type = "COMMIT"
                      /\ CarriedOut(t)
    BY <1>0 DEF CommitsLeft, CarriedOut, Cached
  <2>1. m.type # "COMMIT"
    BY MsgTypes DEF Op
  <2>2. k \in 1 .. Len(toServer[t])
        /\ \A j \in 1 .. k : j \in 1 .. Len(toServer[t])
                             /\ toServer'[t][j] = toServer[t][j]
    BY <2>1 DEF Put
  <2> QED  BY <2>2 DEF Holds, CommitsLeft
<1>6. OnDisk(t)'
  BY <1>0 DEF Holds, OnDisk
<1>7. Closing(t)'
  <2>1. ~isFileOpen => m.type \in {"INIT", "OPENFILE", "CLOSE"}
    BY MsgTypes DEF Bookkeeping, Op
  <2>2. ~isFileOpen => Only(toServer'[t], {"INIT", "OPENFILE", "CLOSE"})
    BY <1>g, <2>1, GotPackets DEF Holds, Closing
  <2> QED  BY <1>0, <1>a, <2>2 DEF Holds, Closing
<1> QED  BY <1>1, <1>2, <1>3, <1>4, <1>5, <1>6, <1>7 DEF Holds

\* Another operation begins: OpenFile, Vote, Abort or Close.
LEMMA StartHolds ==
  ASSUME IInv, NEW t \in Server, Holds(t), op \notin {"commit", "abort"},
         NEW o \in {"open", "vote", "abort", "close"}, op' = o,
         recvServerId' = {}, Left(t),
         o \in {"vote", "close"} => Clean(t, o),
         UNCHANGED <<isFileOpen, clientUpdateMap, updateId, promised, inDoubt>>,
         UNCHANGED serverVars, o # "open" => fileName' = fileName /\ isFileOpen,
         NEW m, Put(toServer[t], m, toServer'[t]), m.type = MsgType[o],
         o = "open" => m.filename = fileName'
  PROVE  Holds(t)'
<1>0. UNCHANGED <<fileFullname, updateMap, nextUpdateId, fp, disk>>
  BY DEF serverVars, memoryVars
<1>g. Got(t, m)
  BY DEF Got
<1>a. o \in {"vote", "close"} => ~Answered(t, AckType[o])'
  <2>1. ASSUME o \in {"vote", "close"} PROVE ~Answered(t, AckType[o])'
    BY <2>1, LeftAnswers DEF Answered, Clean
  <2> QED  BY <2>1
<1>1. Updates(t)'
  <2>1. CASE o = "abort"
    BY <2>1, MsgTypes, UpdatesCleared DEF Target, Clears
  <2>2. CASE o # "abort"
    <3>1. m.type \notin Clears /\ m.type # "WRITEBLOCK" /\ Target' = Target
      BY <2>2, MsgTypes DEF Clears, Target
    <3> QED  BY <1>0, <3>1, UpdatesPut DEF Holds
  <2> QED  BY <2>1, <2>2
<1>2. Named(t)'
  <2>1. CASE o = "open"
    BY <2>1, MsgTypes, NamedOpened
  <2>2. CASE o # "open"
    <3>1. m.type # "OPENFILE"
      BY <2>2, MsgTypes
    <3> QED  BY <1>0, <2>2, <3>1, NamedPut DEF Holds
  <2> QED  BY <2>1, <2>2
<1>3. Voting(t)'
  BY <1>a, AckTypes DEF Voting
<1>4. Committing(t)'
  BY DEF Committing
<1>5. CommitsLeft(t)'
  <2> SUFFICES ASSUME NEW k \in 1 .. Len(toServer'[t]),
                      toServer'[t][k].type = "COMMIT"
               PROVE  /\ \A j \in 1 .. k : toServer'[t][j].type = "COMMIT"
                      /\ CarriedOut(t)
    BY <1>0 DEF CommitsLeft, CarriedOut, Cached
  <2>1. m.type # "COMMIT"
    BY MsgTypes
  <2>2. k \in 1 .. Len(toServer[t])
        /\ \A j \in 1 .. k : j \in 1 .. Len(toServer[t])
                             /\ toServer'[t][j] = toServer[t][j]
    BY <2>1 DEF Put
  <2> QED  BY <2>2 DEF Holds, CommitsLeft
<1>6. OnDisk(t)'
  BY <1>0 DEF Holds, OnDisk
<1>7. Closing(t)'
  <2>1. ~isFileOpen => m.type \in {"INIT", "OPENFILE", "CLOSE"}
    BY MsgTypes
  <2>2. ~isFileOpen => Only(toServer'[t], {"INIT", "OPENFILE", "CLOSE"})
    BY <1>g, <2>1, GotPackets DEF Holds, Closing
  <2> QED  BY <1>0, <1>a, <2>2, AckTypes DEF Holds, Closing
<1> QED  BY <1>1, <1>2, <1>3, <1>4, <1>5, <1>6, <1>7 DEF Holds

\* All have voted: whoever has, has the updates, the file and no Commit yet.
LEMMA VotedHolds ==
  ASSUME IInv, Bookkeeping, NEW t \in Server, Holds(t), op = "vote", op' = "commit",
         Settled(t, "vote"), Answered(t, "VOTEACK"), recvServerId' = {}, Left(t),
         UNCHANGED transactionVars, UNCHANGED serverVars,
         NEW m, Put(toServer[t], m, toServer'[t]), m.type = "COMMIT"
  PROVE  Holds(t)'
<1>0. /\ UNCHANGED <<isFileOpen, fileName, clientUpdateMap, updateId, promised,
                     inDoubt, After>>
      /\ UNCHANGED <<fileFullname, updateMap, nextUpdateId, fp, disk>>
  BY DEF transactionVars, serverVars, memoryVars, After
<1>g. Got(t, m)
  BY DEF Got
<1>s. Only(toClient[t], {"VOTEACK"}) /\ Only(toServer[t], {"VOTE"})
  BY AckTypes, MsgTypes DEF Settled, Follow
<1>1. Updates(t)'
  BY UpdatesCleared DEF Target, Clears
<1>2. Named(t)'
  BY <1>0, NamedPut DEF Holds
<1>3. Voting(t)'
  BY DEF Voting
<1>4. Committing(t)'
  <2>1. fileFullname[t] = fileName
    <3>1. NoneAfter(toServer[t], 0, {"OPENFILE"})
      BY <1>s DEF NoneAfter, Only
    <3> QED  BY <3>1 DEF Holds, Named
  <2>2. Only(toServer'[t], {"VOTE", "COMMIT"})
    <3>1. Only(toServer[t], {"VOTE", "COMMIT"})
      BY <1>s DEF Only
    <3> QED  BY <1>g, <3>1, GotPackets
  <2>3. updateMap[t] = clientUpdateMap
    <3>1. Only(toServer[t], {"VOTE", "CLOSE", "INIT", "OPENFILE"})
      BY <1>s DEF Only
    <3> QED  BY <3>1, AllCached DEF Holds
  <2>4. nextUpdateId[t] = updateId
    BY DEF Holds, Voting
  <2>5. ~Answered(t, "COMMITACK")'
    BY <1>s, LeftAnswers DEF Answered, Only
  <2>6. fileName \notin inDoubt => disk[t][fileName] = promised[fileName]
    <3>1. fileName \in File
      BY DEF IInv, ClientInv, FileNamed
    <3> QED  BY <3>1 DEF Holds, OnDisk
  <2> QED  BY <1>0, <2>1, <2>2, <2>3, <2>4, <2>5, <2>6 DEF Committing
<1>5. CommitsLeft(t)'
  BY DEF CommitsLeft
<1>6. OnDisk(t)'
  BY <1>0 DEF Holds, OnDisk
<1>7. Closing(t)'
  BY <1>0 DEF Closing, Bookkeeping
<1> QED  BY <1>1, <1>2, <1>3, <1>4, <1>5, <1>6, <1>7 DEF Holds

\* A commit phase that ends without success leaves its file in doubt and is
\* followed by an Abort; nothing is under way any more.
LEMMA CommitFailsHolds ==
  ASSUME IInv, Bookkeeping, NEW t \in Server, Holds(t), op = "commit", op' = "abort",
         toServer[t] = <<>>,
         UNCHANGED <<isFileOpen, fileName, clientUpdateMap, updateId, promised>>,
         inDoubt' = inDoubt \cup {fileName}, UNCHANGED serverVars,
         NEW m, Put(toServer[t], m, toServer'[t]), m.type = "ABORT"
  PROVE  Holds(t)'
<1>0. /\ UNCHANGED <<fileFullname, updateMap, nextUpdateId, fp, disk>>
  BY DEF serverVars, memoryVars
<1>g. /\ Got(t, m)
      /\ \A k \in 1 .. Len(toServer'[t]) : toServer'[t][k] = m
  BY DEF Got, Put
<1>1. Updates(t)'
  BY UpdatesCleared DEF Target, Clears
<1>2. Named(t)'
  BY <1>0, NamedPut DEF Holds
<1>3. Voting(t)' /\ Committing(t)'
  BY DEF Voting, Committing
<1>4. CommitsLeft(t)'
  BY <1>g DEF CommitsLeft
<1>5. OnDisk(t)'
  BY <1>0 DEF Holds, OnDisk
<1>6. Closing(t)'
  BY <1>0 DEF Closing, Bookkeeping
<1> QED  BY <1>1, <1>2, <1>3, <1>4, <1>5, <1>6 DEF Holds

\* A replica that answered the Commit has the updates in the file, and none
\* in its cache.
LEMMA CommittedHolds ==
  ASSUME IInv, Bookkeeping, NEW t \in Server, Holds(t), op = "commit",
         Settled(t, "commit"), Answered(t, "COMMITACK"),
         ResetClient, promised' = [promised EXCEPT ![fileName] = After],
         UNCHANGED <<isFileOpen, fileName, inDoubt>>, UNCHANGED serverVars,
         recvServerId' = {}, Left(t),
         \/ op' = "idle" /\ toServer'[t] = toServer[t]
         \/ op' = "close2" /\ \E m : Put(toServer[t], m, toServer'[t]) /\ m.type = "CLOSE"
  PROVE  Holds(t)'
<1>0. /\ UNCHANGED <<fileFullname, updateMap, nextUpdateId, fp, disk>>
      /\ updateId' = 0 /\ op' \in {"idle", "close2"} /\ isFileOpen
  BY DEF serverVars, memoryVars, ResetClient, Bookkeeping
<1>s. Only(toClient[t], {"COMMITACK"}) /\ Only(toServer[t], {"COMMIT"})
  BY AckTypes, MsgTypes DEF Settled, Follow
<1>c. /\ CarriedOut(t) /\ fileFullname[t] = fileName
      /\ fileName \notin inDoubt => disk[t][fileName] = After
  BY DEF Holds, Committing
<1>q. \A k \in 1 .. Len(toServer'[t]) :
        \/ toServer'[t][k].type = "CLOSE" /\ k = Len(toServer'[t])
        \/ k \in 1 .. Len(toServer[t]) /\ toServer'[t][k] = toServer[t][k]
  BY DEF Put
<1>t. \A k \in 1 .. Len(toServer'[t]) : toServer'[t][k].type \in {"CLOSE", "COMMIT"}
  BY <1>s, <1>q DEF Only
<1>1. Updates(t)'
  <2>1. Target' = 0
    BY <1>0 DEF Target
  <2>2. \A k \in 1 .. Len(toServer'[t]) : toServer'[t][k].type # "WRITEBLOCK"
    BY <1>t
  <2> QED  BY <1>0, <1>c, <2>1, <2>2, UpdatesNone DEF CarriedOut
<1>2. Named(t)'
  BY <1>0, <1>c, <1>t DEF Named
<1>3. Voting(t)' /\ Committing(t)'
  BY <1>0 DEF Voting, Committing
<1>4. CommitsLeft(t)'
  <2> SUFFICES ASSUME NEW k \in 1 .. Len(toServer'[t]),
                      toServer'[t][k].type = "COMMIT",
                      NEW j \in 1 .. k
               PROVE  toServer'[t][j].type = "COMMIT"
    BY <1>0, <1>c DEF CommitsLeft, CarriedOut, Cached
  <2>1. k \in 1 .. Len(toServer[t])
    BY <1>q
  <2>2. Len(toServer[t]) \in Nat
    BY Numbers
  <2>3. j \in 1 .. Len(toServer[t]) /\ toServer'[t][j] = toServer[t][j]
    BY <2>1, <2>2 DEF Put
  <2> QED  BY <1>s, <2>3 DEF Only
<1>5. OnDisk(t)'
  <2>1. \A f \in File : promised'[f] = IF f = fileName THEN After ELSE promised[f]
    BY Typing
  <2> QED  BY <1>0, <1>c, <2>1 DEF Holds, OnDisk
<1>6. Closing(t)'
  <2>1. ~Answered(t, "CLOSEACK")'
    BY <1>s, LeftAnswers DEF Answered, Only
  <2> QED  BY <1>0, <2>1 DEF Closing
<1> QED  BY <1>1, <1>2, <1>3, <1>4, <1>5, <1>6 DEF Holds

\* A call returns that leaves the files as they are.
LEMMA EndHolds ==
  ASSUME IInv, NEW t \in Server, Holds(t), op # "commit", op' = "idle",
         toServer'[t] = toServer[t], Target' = Target,
         \A id \in UpdateId : id < Target => clientUpdateMap'[id] = clientUpdateMap[id],
         UNCHANGED <<fileName, promised, inDoubt>>, UNCHANGED serverVars,
         \/ isFileOpen'
         \/ isFileOpen' = isFileOpen
         \/ fp[t] = NoFile /\ Only(toServer[t], {"INIT", "OPENFILE", "CLOSE"})
  PROVE  Holds(t)'
<1>0. UNCHANGED <<fileFullname, updateMap, nextUpdateId, fp, disk>>
  BY DEF serverVars, memoryVars
<1>1. Updates(t)'
  BY <1>0, UpdatesSame DEF Holds
<1>2. Named(t)'
  BY <1>0, NamedSame DEF Holds
<1>3. Voting(t)' /\ Committing(t)'
  BY DEF Voting, Committing
<1>4. CommitsLeft(t)' /\ OnDisk(t)'
  BY <1>0 DEF Holds, CommitsLeft, OnDisk, CarriedOut, Cached
<1>5. Closing(t)'
  BY <1>0 DEF Holds, Closing, Only
<1> QED  BY <1>1, <1>2, <1>3, <1>4, <1>5 DEF Holds

\* WriteBlock.
LEMMA WriteBlockHolds ==
  ASSUME IInv, NEW t \in Server, Holds(t), op = "idle", op' = "idle",
         updateId < MaxUpdates, NEW u \in Update, isFileOpen,
         clientUpdateMap' = [clientUpdateMap EXCEPT ![updateId] = u],
         updateId' = updateId + 1,
         UNCHANGED <<isFileOpen, fileName, promised, inDoubt>>, UNCHANGED serverVars,
         Put(toServer[t], WriteBlockMessage(updateId, u), toServer'[t])
  PROVE  Holds(t)'
<1> DEFINE m == WriteBlockMessage(updateId, u)
<1>0. UNCHANGED <<fileFullname, updateMap, nextUpdateId, fp, disk>>
      /\ m.type = "WRITEBLOCK"
  BY DEF serverVars, memoryVars, WriteBlockMessage
<1>1. Updates(t)'
  BY <1>0, UpdatesWritten DEF Holds
<1> HIDE DEF m
<1>2. Put(toServer[t], m, toServer'[t])
  BY DEF m
<1>3. Named(t)'
  BY <1>0, <1>2, NamedPut DEF Holds
<1>4. Voting(t)' /\ Committing(t)'
  BY DEF Voting, Committing
<1>5. CommitsLeft(t)'
  <2> SUFFICES ASSUME NEW k \in 1 .. Len(toServer'[t]),
                      toServer'[t][k].type = "COMMIT"
               PROVE  /\ \A j \in 1 .. k : toServer'[t][j].type = "COMMIT"
                      /\ CarriedOut(t)
    BY <1>0 DEF CommitsLeft, CarriedOut, Cached
  <2>1. k \in 1 .. Len(toServer[t])
        /\ \A j \in 1 .. k : j \in 1 .. Len(toServer[t])
                             /\ toServer'[t][j] = toServer[t][j]
    BY <1>0, <1>2 DEF Put
  <2> QED  BY <2>1 DEF Holds, CommitsLeft
<1>6. OnDisk(t)' /\ Closing(t)'
  BY <1>0 DEF Holds, OnDisk, Closing
<1> QED  BY <1>1, <1>3, <1>4, <1>5, <1>6 DEF Holds

\* A server nobody has used yet is as good as a replica of nothing.
LEMMA PristineHolds ==
  ASSUME IInv, NEW t \in Server, Fresh', Bookkeeping', op' = "init",
         UNCHANGED serverVars
  PROVE  Channels(t)' /\ Holds(t)'
<1>1. /\ Only(toServer'[t], {"INIT"}) /\ Only(toClient'[t], {"INITACK"})
      /\ fileFullname'[t] = NoFile /\ fp'[t] = NoFile
      /\ Cached(updateMap'[t]) = {}
      /\ \A f \in File : disk'[t][f] = Absent
      /\ ~isFileOpen' /\ fileName' = NoFile
      /\ \A f \in File : promised'[f] = Absent
      /\ updateId' = 0 /\ recvServerId' = {}
  BY DEF Fresh, Pristine, Bookkeeping, Cached
<1>2. /\ \A k \in 1 .. Len(toServer'[t]) : toServer'[t][k].type = "INIT"
      /\ \A k \in 1 .. Len(toClient'[t]) : toClient'[t][k].type = "INITACK"
  BY <1>1 DEF Only
<1>3. Channels(t)'
  <2>1. InOrder(t)'
    <3>1. Follow("init") = {"INIT"}
      BY MsgTypes DEF Follow
    <3>2. AckType["init"] = "INITACK" /\ MsgType["init"] = "INIT"
      BY AckTypes, MsgTypes
    <3>3. Only(toServer'[t], {"INIT"}) /\ t \notin recvServerId'
      BY <1>1
    <3>4. \A k \in 1 .. Len(toClient'[t]) : \A j \in k .. Len(toClient'[t]) :
            toClient'[t][j].type = "INITACK"
      BY <1>2
    <3>5. \A k \in 1 .. Len(toServer'[t]) : \A j \in k .. Len(toServer'[t]) :
            toServer'[t][j].type = "INIT"
      BY <1>2
    <3> QED  BY <3>1, <3>2, <3>3, <3>4, <3>5 DEF InOrder, Follow, Only
  <2>2. Quiet(t)' /\ NoOldVotes(t)' /\ Answers(t)'
    BY <1>2 DEF Quiet, NoOldVotes, Answers
  <2> QED  BY <2>1, <2>2 DEF Channels
<1>4. Updates(t)'
  <2>1. Target' = 0 /\ updateMap' = updateMap /\ Cached(updateMap[t]) = {}
    BY <1>1 DEF Target, serverVars, memoryVars, Cached
  <2> QED  BY <1>2, <2>1, UpdatesNone
<1>5. Named(t)' /\ Voting(t)' /\ Committing(t)'
  BY <1>1, <1>2 DEF Named, Voting, Committing
<1>6. CommitsLeft(t)' /\ OnDisk(t)' /\ Closing(t)'
  BY <1>1, <1>2 DEF CommitsLeft, OnDisk, Closing, Only
<1> QED  BY <1>3, <1>4, <1>5, <1>6 DEF Holds

-----------------------------------------------------------------------------
(* The invariant and a step of the client: what the steps have in common.   *)

\* The messages of the operations.
LEMMA OpMessages ==
  /\ OpMessage("open").filename = fileName
  /\ \A o \in Op \ {"idle"} : OpMessage(o).type = MsgType[o]
<1>1. OpMessage("init") = Plain("INIT") /\ OpMessage("vote") = Plain("VOTE")
      /\ OpMessage("commit") = Plain("COMMIT") /\ OpMessage("abort") = Plain("ABORT")
      /\ OpMessage("close") = Plain("CLOSE") /\ OpMessage("close2") = Plain("CLOSE")
      /\ OpMessage("open") = OpenFileMessage(fileName)
  BY DEF OpMessage
<1>2. \A t : Plain(t).type = t
  BY DEF Plain
<1>3. OpenFileMessage(fileName).type = "OPENFILE"
      /\ OpenFileMessage(fileName).filename = fileName
  BY DEF OpenFileMessage
<1> QED  BY <1>1, <1>2, <1>3, MsgTypes DEF Op

\* Nobody waits for no answers.
LEMMA EmptyNotFull ==
  ~IsFull({}) /\ ~ (0 >= NumServers)
BY FS_EmptySet, ClientAssumption DEF IsFull

\* As long as not all have answered, fewer than numServers have.
LEMMA TooFew ==
  ASSUME IInv, ~IsFull(recvServerId)
  PROVE  Cardinality(recvServerId) < NumServers
<1>1. IsFiniteSet(serverIds) /\ recvServerId \subseteq serverIds
      /\ Cardinality(serverIds) <= NumServers
  <2>1. IsFiniteSet(Server) /\ serverIds \subseteq Server
    BY NetworkAssumption, Typing
  <2> QED  BY <2>1, FS_Subset DEF IInv, ClientInv, SelectionHolds
<1>2. /\ Cardinality(recvServerId) <= Cardinality(serverIds)
      /\ Cardinality(recvServerId) \in Nat /\ Cardinality(serverIds) \in Nat
  BY <1>1, FS_Subset, FS_CardinalityType
<1>3. NumServers \in Nat
  <2>1. Cardinality(Server) \in Nat
    BY NetworkAssumption, FS_CardinalityType
  <2> QED  BY <2>1, ClientAssumption
<1> QED  BY <1>1, <1>2, <1>3 DEF IsFull

\* When all have answered, those are the selected servers, and each of them
\* has read everything that was sent before.
LEMMA AllSettled ==
  ASSUME IInv, Reliable, NEW s \in serverIds, op # "idle",
         1 \in 1 .. Len(toClient[s]), toClient[s][1].type = AckType[op],
         IsFull(recvServerId \cup {s})
  PROVE  /\ recvServerId \cup {s} = serverIds
         /\ \A t \in serverIds : Settled(t, op) /\ Answered(t, AckType[op])
<1>1. recvServerId \cup {s} = serverIds
  <2> DEFINE recv == recvServerId \cup {s}
  <2>1. IsFiniteSet(serverIds) /\ recv \subseteq serverIds
        /\ Cardinality(serverIds) <= NumServers
    <3>1. IsFiniteSet(Server) /\ serverIds \subseteq Server
          /\ recvServerId \subseteq serverIds
      BY NetworkAssumption, Typing
    <3> QED  BY <3>1, FS_Subset DEF IInv, ClientInv, SelectionHolds
  <2>2. Cardinality(recv) = NumServers
    BY DEF IsFull
  <2> HIDE DEF recv
  <2>3. /\ Cardinality(recv) <= Cardinality(serverIds)
        /\ Cardinality(recv) \in Nat /\ Cardinality(serverIds) \in Nat
        /\ Cardinality(serverIds) = Cardinality(recv) => serverIds = recv
    BY <2>1, FS_Subset, FS_CardinalityType
  <2>4. Cardinality(serverIds) = Cardinality(recv)
    BY <2>1, <2>2, <2>3
  <2> QED  BY <2>3, <2>4 DEF recv
<1>2. Settled(s, op) /\ Answered(s, AckType[op])
  BY DEF Reliable, Channels, InOrder, Settled, Only, Answered
<1>3. ASSUME NEW t \in serverIds, t \in recvServerId
      PROVE  Settled(t, op) /\ Answered(t, AckType[op])
  BY <1>3 DEF Reliable, Channels, InOrder, Answered
<1> QED  BY <1>1, <1>2, <1>3

\* Whoever is a replica after a step of the client runs already.
LEMMA SameReplicas ==
  ASSUME IInv, up' = up
  PROVE  \A t \in Replicas' : t \in serverIds' /\ up[t]
BY DEF Replicas

\* Before any server is selected there is nothing else to see to.
LEMMA InitReliable ==
  ASSUME IInv, Fresh', Bookkeeping', op' = "init", serverIds' \subseteq Server,
         UNCHANGED serverVars
  PROVE  Reliable'
<1>1. \A t \in serverIds' : Channels(t)' /\ Holds(t)'
  BY PristineHolds
<1> QED  BY <1>1 DEF Reliable, Replicas

\* The servers' part of Bookkeeping.
LEMMA PointersSame ==
  ASSUME Bookkeeping, UNCHANGED serverVars
  PROVE  \A s \in Server : fp'[s] # Dangling /\ backup'[s] = NoFile
BY DEF Bookkeeping, serverVars, memoryVars

\* An answer is read and the client goes on waiting.
LEMMA WaitReliable ==
  ASSUME IInv, Reliable, NEW s \in Server, ReadsHead(s),
         op \notin {"idle", "init"}, op' = op, toServer' = toServer,
         UNCHANGED transactionVars, UNCHANGED serverVars,
         UNCHANGED <<serverIds, closeRecvServerId, clients>>,
         \/ recvServerId' = recvServerId
         \/ /\ s \in serverIds /\ recvServerId' = recvServerId \cup {s}
            /\ toClient[s][1].type = AckType[op]
            /\ ~IsFull(recvServerId')
            /\ op = "close" => updateId = 0,
         op = "vote" =>
           \A t \in serverIds : recvServerUpdateId'[t] \in {-1, updateId}
  PROVE  Reliable'
<1>0. UNCHANGED <<isFileOpen, updateId>>
  BY DEF transactionVars
<1>1. \A t \in serverIds :
        /\ Left(t)
        /\ t \in recvServerId' =>
             \/ t \in recvServerId
             \/ 1 \in 1 .. Len(toClient[t]) /\ toClient[t][1].type = AckType[op]
  BY Typing DEF ReadsHead, Left
<1>2. \A t \in serverIds : Channels(t)'
  <2> SUFFICES ASSUME NEW t \in serverIds PROVE Channels(t)'
    OBVIOUS
  <2>1. Channels(t) /\ toServer'[t] = toServer[t]
    BY DEF Reliable
  <2> QED  BY <1>0, <1>1, <2>1, WaitChannels
<1>3. ASSUME NEW t \in Replicas' PROVE Holds(t)'
  <2>1. t \in serverIds /\ t \in Server /\ Holds(t)
    BY <1>3, Typing, SameReplicas DEF Reliable, Replicas, ReadsHead
  <2>2. \A a : a = AckType[op] => (Answered(t, a)' => Answered(t, a))
    BY <1>1, <2>1, AnsweredLeft
  <2> QED  BY <2>1, <2>2, WaitHolds
<1>4. Bookkeeping'
  BY <1>0, PointersSame DEF Reliable, Bookkeeping
<1>5. Fresh'
  BY DEF Reliable, Bookkeeping, Fresh
<1> QED  BY <1>2, <1>3, <1>4, <1>5 DEF Reliable

\* An operation is started anew, or after another but a commit.
LEMMA StartReliable ==
  ASSUME IInv, Reliable, op \notin {"commit", "abort"}, clients # 0,
         NEW o \in {"open", "vote", "abort", "close"}, op' = o,
         recvServerId' = {}, closeRecvServerId' = {},
         UNCHANGED <<serverIds, up, clients>>,
         UNCHANGED <<isFileOpen, clientUpdateMap, updateId, promised, inDoubt>>,
         UNCHANGED serverVars, o # "open" => fileName' = fileName /\ isFileOpen,
         \A t \in serverIds :
           /\ Left(t) /\ (Clean(t, o) \/ Alike(t, o))
           /\ o \notin {"vote", "commit"} =>
                /\ \A k \in 1 .. Len(toServer[t]) : toServer[t][k].type # "VOTE"
                /\ \A k \in 1 .. Len(toClient[t]) : toClient[t][k].type # "VOTEACK",
         NEW m, Sent(m), m.type = MsgType[o], o = "open" => m.filename = fileName',
         o = "vote" => \A t \in serverIds : recvServerUpdateId'[t] \in {-1, updateId}
  PROVE  Reliable'
<1>1. \A t \in serverIds : Channels(t)'
  <2> SUFFICES ASSUME NEW t \in serverIds PROVE Channels(t)'
    OBVIOUS
  <2>1. Answers(t) /\ Got(t, m) /\ o \in Op \ {"idle", "init"}
    BY Typing DEF Reliable, Channels, Sent, Got, Op
  <2> QED  BY <2>1, StartChannels
<1>2. ASSUME NEW t \in Replicas' PROVE Holds(t)'
  <2>1. t \in serverIds /\ t \in Server /\ Holds(t) /\ up[t]
    BY <1>2, Typing, SameReplicas DEF Reliable, Replicas
  <2>2. Put(toServer[t], m, toServer'[t]) /\ Left(t)
        /\ (o \in {"vote", "close"} => Clean(t, o))
    BY <2>1 DEF Sent, Alike
  <2> QED  BY <2>1, <2>2, StartHolds
<1>3. Bookkeeping'
  BY EmptyNotFull, PointersSame DEF Reliable, Bookkeeping
<1>4. Fresh'
  BY DEF Fresh
<1> QED  BY <1>1, <1>2, <1>3, <1>4 DEF Reliable

\* A call returns, and no file was committed.
LEMMA EndReliable ==
  ASSUME IInv, Reliable, op \notin {"idle", "commit"}, op' = "idle",
         recvServerId' = {}, closeRecvServerId' = {},
         UNCHANGED <<serverIds, up, clients, toServer>>,
         Target' = Target,
         \A id \in UpdateId : id < Target => clientUpdateMap'[id] = clientUpdateMap[id],
         UNCHANGED <<fileName, promised, inDoubt>>, UNCHANGED serverVars,
         ~isFileOpen' => updateId' = 0,
         \/ isFileOpen'
         \/ isFileOpen' = isFileOpen
         \/ \A t \in Replicas : fp[t] = NoFile,
         NEW o \in {"init", "open", "commit", "abort", "close"},
         o = "close" => ~isFileOpen',
         \A t \in serverIds :
           /\ Left(t) /\ Only(toClient[t], {AckType[o]})
           /\ \/ isFileOpen' \/ isFileOpen' = isFileOpen
              \/ Only(toServer[t], {"CLOSE"})
           /\ Only(toServer[t], {MsgType[o], "WRITEBLOCK"})
  PROVE  Reliable'
<1>1. \A t \in serverIds : Channels(t)'
  <2> SUFFICES ASSUME NEW t \in serverIds PROVE Channels(t)'
    OBVIOUS
  <2>1. Answers(t)
    BY DEF Reliable, Channels
  <2>2. Only(toClient'[t], {AckType[o]}) /\ Only(toServer'[t], {MsgType[o], "WRITEBLOCK"})
    BY LeftAnswers
  <2> QED  BY <2>1, <2>2, RestChannels
<1>2. ASSUME NEW t \in Replicas' PROVE Holds(t)'
  <2>1. t \in serverIds /\ t \in Server /\ Holds(t) /\ t \in Replicas
    BY <1>2, Typing, SameReplicas DEF Reliable, Replicas
  <2>2. \/ isFileOpen'
        \/ isFileOpen' = isFileOpen
        \/ fp[t] = NoFile /\ Only(toServer[t], {"INIT", "OPENFILE", "CLOSE"})
    BY <2>1 DEF Only
  <2> QED  BY <2>1, <2>2, EndHolds
<1>3. Bookkeeping'
  BY EmptyNotFull, PointersSame DEF Reliable, Bookkeeping
<1>4. Fresh'
  BY DEF Fresh, Reliable, Bookkeeping
<1> QED  BY <1>1, <1>2, <1>3, <1>4 DEF Reliable

-----------------------------------------------------------------------------
(* Calls.                                                                   *)

\* Calls but InitReplFs need a client with servers.
LEMMA ReadyStarted ==
  ASSUME Reliable, Ready
  PROVE  clients # 0
BY EmptyNotFull, FS_EmptySet DEF Reliable, Bookkeeping, Ready

\* What is left of an earlier call does not confuse the next one.
LEMMA QuietStarts ==
  ASSUME NEW t, Channels(t), op = "idle",
         NEW o \in {"open", "vote", "abort", "close"}, o = "close" => isFileOpen
  PROVE  /\ Clean(t, o) \/ Alike(t, o)
         /\ \A k \in 1 .. Len(toServer[t]) : toServer[t][k].type # "VOTE"
         /\ \A k \in 1 .. Len(toClient[t]) : toClient[t][k].type # "VOTEACK"
<1>1. PICK o0 \in {"init", "open", "commit", "abort", "close"} :
        /\ o0 = "close" => ~isFileOpen
        /\ Only(toClient[t], {AckType[o0]})
        /\ Only(toServer[t], {MsgType[o0], "WRITEBLOCK"})
  BY DEF Channels, Quiet
<1>2. CASE o = o0
  <2>1. o \in {"open", "abort"} /\ Follow(o) = {MsgType[o], "WRITEBLOCK"}
    BY <1>1, <1>2 DEF Follow
  <2>2. Alike(t, o)
    BY <1>1, <1>2, <2>1 DEF Alike
  <2> QED  BY <2>2 DEF Channels, NoOldVotes
<1>3. CASE o # o0
  <2>1. AckType[o] # AckType[o0] /\ MsgType[o] \notin {MsgType[o0], "WRITEBLOCK"}
    BY <1>3, AckTypes, MsgTypes
  <2>2. Clean(t, o)
    BY <1>1, <2>1 DEF Clean, Only
  <2> QED  BY <2>2 DEF Channels, NoOldVotes
<1> QED  BY <1>2, <1>3

\* InitReplFs: the only client starts with servers nobody has used.
LEMMA InitReplFsReliable ==
  ASSUME IInv, Dependable, Reliable, InitReplFs, UNCHANGED serverVars
  PROVE  Reliable'
<1>1. clients = 0
  BY Typing DEF InitReplFs, Dependable
<1> DEFINE m == Plain("INIT")
<1>2. m \in ClientMsg /\ m.type = "INIT"
  BY BuiltMessages DEF Plain
<1> HIDE DEF m
<1>3. Sent(m) /\ op' = "init" /\ recvServerId' = {}
  BY <1>2, EnterSends DEF InitReplFs, m
<1>4. /\ UNCHANGED <<isFileOpen, fileName, updateId, promised, inDoubt>>
      /\ toClient' = toClient /\ closeRecvServerId' = closeRecvServerId
      /\ serverIds' = {} /\ clients' = 1
  BY <1>1 DEF InitReplFs, fileVars, stagedVars, promiseVars
<1>5. Fresh'
  <2>1. Fresh /\ (\A t \in Server : Pristine(t))
    BY <1>1 DEF Reliable, Fresh
  <2>2. ASSUME NEW t \in Server PROVE Pristine(t)'
    <3>1. Got(t, m) /\ Pristine(t)
      BY <1>3, <2>1 DEF Sent, Got
    <3>2. Only(toServer'[t], {"INIT"}) /\ Only(toClient'[t], {"INITACK"})
      BY <1>2, <1>4, <3>1, GotPackets DEF Pristine
    <3> QED  BY <3>1, <3>2 DEF Pristine, serverVars, memoryVars, Cached
  <2> QED  BY <1>1, <1>4, <2>1, <2>2 DEF Fresh
<1>6. Bookkeeping'
  BY <1>3, <1>4, EmptyNotFull, PointersSame DEF Reliable, Bookkeeping
<1> QED  BY <1>3, <1>4, <1>5, <1>6, InitReliable

\* OpenFile.
LEMMA OpenFileReliable ==
  ASSUME IInv, Dependable, Reliable, NEW f \in File, OpenFile(f),
         UNCHANGED serverVars
  PROVE  Reliable'
<1> DEFINE m == OpenFileMessage(f)
<1>1. m \in ClientMsg /\ m.type = MsgType["open"] /\ m.filename = fileName'
  BY BuiltMessages, MsgTypes DEF OpenFileMessage, OpenFile
<1> HIDE DEF m
<1>2. Sent(m) /\ op' = "open" /\ recvServerId' = {}
  BY <1>1, EnterSends DEF OpenFile, m
<1>3. /\ op = "idle" /\ clients # 0
      /\ UNCHANGED <<toClient, up, serverIds, closeRecvServerId, isFileOpen, clients,
                     clientUpdateMap, updateId, promised, inDoubt>>
  BY ReadyStarted DEF OpenFile, Called, stagedVars, promiseVars
<1>4. \A t \in serverIds :
        /\ Left(t) /\ (Clean(t, "open") \/ Alike(t, "open"))
        /\ \A k \in 1 .. Len(toServer[t]) : toServer[t][k].type # "VOTE"
        /\ \A k \in 1 .. Len(toClient[t]) : toClient[t][k].type # "VOTEACK"
  BY <1>3, QuietStarts DEF Left, Reliable
<1>5. closeRecvServerId' = {}
  BY <1>3 DEF Reliable, Bookkeeping
<1> QED  BY <1>1, <1>2, <1>3, <1>4, <1>5, StartReliable

\* Outside a commit nobody has a vote on record.
LEMMA NoVotesRecorded ==
  ASSUME IInv, op \notin {"vote", "commit", "abort"}
  PROVE  \A t \in serverIds : recvServerUpdateId[t] = -1
BY Typing DEF IInv, ClientInv, VoteBookkeeping, Voted

\* Commit, Abort and CloseFile.
LEMMA StartCallReliable ==
  ASSUME IInv, Dependable, Reliable, NEW name, NEW o \in {"vote", "abort", "close"},
         StartCall(name, o), UNCHANGED serverVars
  PROVE  Reliable'
<1> DEFINE m == OpMessage(o)
<1>1. m \in ClientMsg /\ m.type = MsgType[o]
  BY OpMessageType, OpMessages DEF Op
<1> HIDE DEF m
<1>2. Sent(m) /\ op' = o /\ recvServerId' = {}
  BY <1>1, EnterSends DEF StartCall, m
<1>3. /\ op = "idle" /\ clients # 0 /\ isFileOpen
      /\ UNCHANGED <<toClient, up, serverIds, closeRecvServerId, isFileOpen, fileName,
                     clients, clientUpdateMap, updateId, recvServerUpdateId,
                     promised, inDoubt>>
  BY ReadyStarted DEF StartCall, Called, FdValid, fileVars, stagedVars, promiseVars
<1>4. \A t \in serverIds :
        /\ Left(t) /\ (Clean(t, o) \/ Alike(t, o))
        /\ \A k \in 1 .. Len(toServer[t]) : toServer[t][k].type # "VOTE"
        /\ \A k \in 1 .. Len(toClient[t]) : toClient[t][k].type # "VOTEACK"
  BY <1>3, QuietStarts DEF Left, Reliable
<1>5. closeRecvServerId' = {}
  BY <1>3 DEF Reliable, Bookkeeping
<1>6. \A t \in serverIds : recvServerUpdateId'[t] \in {-1, updateId}
  BY <1>3, NoVotesRecorded
<1> QED  BY <1>1, <1>2, <1>3, <1>4, <1>5, <1>6, StartReliable

\* WriteBlock.
LEMMA WriteBlockReliable ==
  ASSUME IInv, Dependable, Reliable, NEW u \in Update, WriteBlock(u),
         UNCHANGED serverVars
  PROVE  Reliable'
<1> DEFINE m == WriteBlockMessage(updateId, u)
<1>1. m \in ClientMsg /\ m.type = "WRITEBLOCK"
  <2>1. updateId \in UpdateId
    BY Numbers DEF WriteBlock, UpdateId
  <2> QED  BY <2>1, BuiltMessages DEF WriteBlockMessage
<1>2. Sent(m)
  BY <1>1, MulticastSends DEF WriteBlock
<1> HIDE DEF m
<1>3. /\ op = "idle" /\ op' = "idle" /\ clients # 0 /\ isFileOpen
      /\ UNCHANGED <<toClient, up, serverIds, recvServerId, closeRecvServerId,
                     isFileOpen, fileName, clients, promised, inDoubt>>
      /\ updateId < MaxUpdates /\ updateId' = updateId + 1
      /\ clientUpdateMap' = [clientUpdateMap EXCEPT ![updateId] = u]
  BY ReadyStarted DEF WriteBlock, Called, FdValid, callVars, fileVars, promiseVars
<1>4. \A t \in serverIds : Channels(t)'
  <2> SUFFICES ASSUME NEW t \in serverIds PROVE Channels(t)'
    BY <1>3
  <2>1. Channels(t) /\ Got(t, m) /\ Left(t)
    BY <1>2, <1>3, Typing DEF Reliable, Sent, Got, Left
  <2>2. PICK o \in {"init", "open", "commit", "abort", "close"} :
          /\ o = "close" => ~isFileOpen
          /\ Only(toClient[t], {AckType[o]})
          /\ Only(toServer[t], {MsgType[o], "WRITEBLOCK"})
    BY <1>3, <2>1 DEF Channels, Quiet
  <2>3. Only(toServer'[t], {MsgType[o], "WRITEBLOCK"})
    BY <1>1, <2>1, <2>2, GotPackets
  <2> QED  BY <1>3, <2>1, <2>2, <2>3, RestChannels DEF Channels
<1>5. ASSUME NEW t \in Replicas' PROVE Holds(t)'
  <2>1. t \in serverIds /\ t \in Server /\ Holds(t) /\ up[t]
    BY <1>3, <1>5, Typing, SameReplicas DEF Reliable, Replicas
  <2>2. Put(toServer[t], WriteBlockMessage(updateId, u), toServer'[t])
    BY <1>2, <2>1 DEF Sent, m
  <2> QED  BY <1>3, <2>1, <2>2, WriteBlockHolds
<1>6. Bookkeeping' /\ Fresh'
  BY <1>3, PointersSame DEF Reliable, Bookkeeping, Fresh
<1> QED  BY <1>3, <1>4, <1>5, <1>6 DEF Reliable

-----------------------------------------------------------------------------
(* Answers.                                                                 *)

\* The message of the operation goes out again.
LEMMA ResendReliable ==
  ASSUME IInv, Dependable, Reliable, Resend, UNCHANGED serverVars
  PROVE  Reliable'
<1> DEFINE m == OpMessage(op)
<1>0. op \in Op \ {"idle"}
  BY Typing DEF Resend
<1>1. m \in ClientMsg /\ m.type = MsgType[op] /\ (op = "open" => m.filename = fileName)
  BY <1>0, OpMessageType, OpMessages DEF IInv, ClientInv, FileNamed
<1> HIDE DEF m
<1>2. Sent(m)
  BY <1>1, MulticastSends DEF Resend, m
<1>3. /\ UNCHANGED <<toClient, up>> /\ UNCHANGED transactionVars
      /\ UNCHANGED <<op, recvServerId, serverIds, closeRecvServerId, clients,
                     recvServerUpdateId>>
      /\ UNCHANGED <<isFileOpen, fileName, updateId, promised, inDoubt>>
  BY DEF Resend, clientVars, callVars, fileVars, stagedVars, bookVars,
         promiseVars, transactionVars
<1>4. \A t \in serverIds : Channels(t)'
  BY <1>0, <1>1, <1>2, <1>3, ResendChannels, Typing DEF Reliable, Sent, Got
<1>5. ASSUME NEW t \in Replicas' PROVE Holds(t)'
  <2>1. t \in serverIds /\ t \in Server /\ Holds(t) /\ up[t]
    BY <1>3, <1>5, Typing, SameReplicas DEF Reliable, Replicas
  <2>2. Put(toServer[t], m, toServer'[t]) /\ Bookkeeping
    BY <1>2, <2>1 DEF Sent, Reliable
  <2> QED  BY <1>0, <1>1, <1>3, <2>1, <2>2, ResendHolds
<1>6. Bookkeeping'
  BY <1>3, PointersSame DEF Reliable, Bookkeeping
<1>7. Fresh'
  <2> SUFFICES ASSUME op = "init" PROVE Fresh'
    BY <1>0, <1>3 DEF Fresh, Reliable, Bookkeeping
  <2>1. Fresh /\ (\A t \in Server : Pristine(t))
    BY DEF Reliable, Fresh
  <2>2. ASSUME NEW t \in Server PROVE Pristine(t)'
    <3>1. Got(t, m) /\ Pristine(t)
      BY <1>2, <2>1 DEF Sent, Got
    <3>2. m.type \in {"INIT"}
      BY <1>1, MsgTypes
    <3>3. Only(toServer'[t], {"INIT"}) /\ Only(toClient'[t], {"INITACK"})
      BY <1>3, <3>1, <3>2, GotPackets DEF Pristine
    <3> QED  BY <3>1, <3>3 DEF Pristine, serverVars, memoryVars, Cached
  <2> QED  BY <1>3, <2>1, <2>2 DEF Fresh
<1> QED  BY <1>3, <1>4, <1>5, <1>6, <1>7 DEF Reliable

\* An answer of an earlier operation is skipped.
LEMMA IgnoreAckReliable ==
  ASSUME IInv, Dependable, Reliable, NEW s \in Server,
         NEW i \in 1 .. Len(toClient[s]), IgnoreAck(s, i), UNCHANGED serverVars
  PROVE  Reliable'
<1>1. i = 1 /\ ReadsHead(s) /\ op # "idle"
  BY ReadsHeads DEF IgnoreAck, Dependable
<1>2. toClient[s][1].type # AckType[op]
  BY <1>1 DEF IgnoreAck, Dependable
<1>3. op # "init"
  <2>1. op = "init" => Only(toClient[s], {"INITACK"})
    BY DEF Reliable, Fresh, Pristine
  <2> QED  BY <1>1, <1>2, <2>1, AckTypes DEF Only, ReadsHead
<1>4. /\ UNCHANGED <<op, recvServerId, serverIds, closeRecvServerId, clients,
                     recvServerUpdateId, toServer>>
      /\ UNCHANGED transactionVars
  BY DEF IgnoreAck, clientVars, callVars, fileVars, stagedVars, bookVars,
         promiseVars, transactionVars
<1>5. op = "vote" => \A t \in serverIds : recvServerUpdateId'[t] \in {-1, updateId}
  BY <1>4 DEF Reliable, Bookkeeping
<1> QED  BY <1>1, <1>3, <1>4, <1>5, WaitReliable

\* A server answers InitReplFs.
LEMMA ProcInitAckReliable ==
  ASSUME IInv, Dependable, Reliable, NEW s \in Server,
         NEW i \in 1 .. Len(toClient[s]), ProcInitAckMessage(s, i),
         UNCHANGED serverVars
  PROVE  Reliable'
<1>1. i = 1 /\ ReadsHead(s)
  BY ReadsHeads DEF ProcInitAckMessage, ReadsAck, Dependable
<1>2. /\ op = "init" /\ op' = "init" /\ serverIds' \subseteq Server
      /\ recvServerId' = recvServerId
      /\ UNCHANGED <<toServer, closeRecvServerId, isFileOpen, fileName, updateId,
                     promised, inDoubt, clients>>
  BY Typing DEF ProcInitAckMessage, ReadsAck, KeepWaiting, fileVars, stagedVars,
     promiseVars, bookVars
<1>3. Fresh'
  <2>1. Fresh /\ (\A t \in Server : Pristine(t))
    BY <1>2 DEF Reliable, Fresh
  <2>2. ASSUME NEW t \in Server PROVE Pristine(t)'
    <3>1. Left(t) /\ Pristine(t)
      BY <1>1, <2>1 DEF ReadsHead, Left
    <3>2. Only(toServer'[t], {"INIT"}) /\ Only(toClient'[t], {"INITACK"})
      BY <1>2, <3>1, LeftAnswers DEF Pristine
    <3> QED  BY <3>1, <3>2 DEF Pristine, serverVars, memoryVars, Cached
  <2> QED  BY <1>2, <2>1, <2>2 DEF Fresh
<1>4. Bookkeeping'
  BY <1>2, PointersSame DEF Reliable, Bookkeeping
<1> QED  BY <1>2, <1>3, <1>4, InitReliable

\* An answer is counted, or comes from a server that was not selected, and
\* more are awaited.
LEMMA KeepWaitingReliable ==
  ASSUME IInv, Reliable, NEW s \in Server, ReadsHead(s),
         op \notin {"idle", "init"}, NEW recv, KeepWaiting(recv),
         UNCHANGED serverVars, UNCHANGED bookVars, UNCHANGED serverIds,
         \/ recv = recvServerId
         \/ /\ s \in serverIds /\ recv = recvServerId \cup {s}
            /\ toClient[s][1].type = AckType[op]
            /\ ~IsFull(recv)
            /\ op = "close" => updateId = 0
  PROVE  Reliable'
<1>1. /\ UNCHANGED <<op, toServer, closeRecvServerId, clients, recvServerUpdateId>>
      /\ UNCHANGED transactionVars /\ recvServerId' = recv
  BY DEF KeepWaiting, fileVars, stagedVars, promiseVars, transactionVars, bookVars
<1>2. op = "vote" => \A t \in serverIds : recvServerUpdateId'[t] \in {-1, updateId}
  BY <1>1 DEF Reliable, Bookkeeping
<1> QED  BY <1>1, <1>2, WaitReliable

\* Nothing in what the client sends or reads makes old votes new.
LEMMA NoVotesLeft ==
  ASSUME Reliable, op \notin {"vote", "commit"}
  PROVE  \A t \in serverIds :
           /\ \A k \in 1 .. Len(toServer[t]) : toServer[t][k].type # "VOTE"
           /\ \A k \in 1 .. Len(toClient[t]) : toClient[t][k].type # "VOTEACK"
BY DEF Reliable, Channels, NoOldVotes

\* All servers have opened the file.
LEMMA OpenSucceedsReliable ==
  ASSUME IInv, Reliable, op = "open", OpenSucceeds,
         UNCHANGED <<serverIds, up, clients>>, UNCHANGED serverVars,
         \A t \in serverIds : Left(t) /\ Settled(t, "open")
  PROVE  Reliable'
<1>1. /\ op' = "idle" /\ recvServerId' = {} /\ closeRecvServerId' = {} /\ isFileOpen'
      /\ UNCHANGED <<toServer, fileName, clientUpdateMap, updateId, promised, inDoubt>>
  BY DEF OpenSucceeds, ReturnToApp, stagedVars, promiseVars
<1>2. Target' = Target
  BY <1>1 DEF Target
<1>3. \A t \in serverIds :
        /\ Only(toClient[t], {AckType["open"]})
        /\ Only(toServer[t], {MsgType["open"], "WRITEBLOCK"})
  BY DEF Settled, Follow
<1> QED  BY <1>1, <1>2, <1>3, EndReliable

\* All servers have forgotten the staged updates; so does the client.
LEMMA AbortEndsReliable ==
  ASSUME IInv, Reliable, op = "abort", AbortEnds,
         UNCHANGED <<serverIds, up, clients>>, UNCHANGED serverVars,
         \A t \in serverIds : Left(t) /\ Settled(t, "abort")
  PROVE  Reliable'
<1>1. /\ op' = "idle" /\ recvServerId' = {} /\ closeRecvServerId' = {}
      /\ UNCHANGED <<toServer, isFileOpen, fileName, promised, inDoubt>>
      /\ updateId' = 0
  BY DEF AbortEnds, ReturnToApp, fileVars, promiseVars, ResetClient
<1>2. Target' = Target /\ \A id \in UpdateId : ~(id < Target)
  BY <1>1 DEF Target, UpdateId
<1>3. \A t \in serverIds :
        /\ Only(toClient[t], {AckType["abort"]})
        /\ Only(toServer[t], {MsgType["abort"], "WRITEBLOCK"})
  BY DEF Settled, Follow
<1> QED  BY <1>1, <1>2, <1>3, EndReliable

\* All servers have closed the file.
LEMMA CloseSucceedsReliable ==
  ASSUME IInv, Reliable, op \in {"close", "close2"}, updateId = 0, CloseSucceeds,
         UNCHANGED <<serverIds, up, clients>>, UNCHANGED serverVars,
         \A t \in serverIds : Left(t) /\ Settled(t, op) /\ Answered(t, AckType[op])
  PROVE  Reliable'
<1>1. /\ op' = "idle" /\ recvServerId' = {} /\ closeRecvServerId' = {} /\ ~isFileOpen'
      /\ UNCHANGED <<toServer, fileName, clientUpdateMap, updateId, promised, inDoubt>>
  BY DEF CloseSucceeds, ReturnToApp, stagedVars, promiseVars
<1>2. Target' = Target
  BY <1>1 DEF Target
<1>3. ASSUME NEW t \in serverIds
      PROVE  /\ Only(toClient[t], {AckType["close"]})
             /\ Only(toServer[t], {MsgType["close"], "WRITEBLOCK"})
             /\ Only(toServer[t], {"CLOSE"})
  <2>1. AckType[op] = "CLOSEACK" /\ Follow(op) = {"CLOSE"}
    BY AckTypes, MsgTypes DEF Follow
  <2> QED  BY <2>1, AckTypes, MsgTypes DEF Settled, Only
<1>4. \A t \in Replicas : fp[t] = NoFile
  BY AckTypes DEF Reliable, Holds, Closing, Replicas
<1> QED  BY <1>1, <1>2, <1>3, <1>4, EndReliable

\* All servers have voted for all the staged updates: Commit goes out.
LEMMA VoteSucceedsReliable ==
  ASSUME IInv, Reliable, op = "vote", Enter("commit", {}, <<>>, Plain("COMMIT")),
         UNCHANGED <<serverIds, up, clients, closeRecvServerId>>,
         UNCHANGED transactionVars, UNCHANGED serverVars,
         \A t \in serverIds :
           Left(t) /\ Settled(t, "vote") /\ Answered(t, "VOTEACK")
  PROVE  Reliable'
<1> DEFINE m == Plain("COMMIT")
<1>1. m \in ClientMsg /\ m.type = "COMMIT" /\ m.type = MsgType["commit"]
  BY BuiltMessages, MsgTypes DEF Plain
<1>2. Sent(m) /\ op' = "commit" /\ recvServerId' = {}
  BY <1>1, EnterSends
<1> HIDE DEF m
<1>3. \A t \in serverIds : Channels(t)'
  <2> SUFFICES ASSUME NEW t \in serverIds PROVE Channels(t)'
    OBVIOUS
  <2>1. Answers(t) /\ Got(t, m) /\ Left(t)
    BY <1>2, Typing DEF Reliable, Channels, Sent, Got
  <2>2. Clean(t, "commit")
    BY AckTypes, MsgTypes DEF Settled, Follow, Clean, Only
  <2>3. "commit" \in Op \ {"idle", "init"}
    BY DEF Op
  <2> QED  BY <1>1, <1>2, <2>1, <2>2, <2>3, StartChannels
<1>4. ASSUME NEW t \in Replicas' PROVE Holds(t)'
  <2>1. t \in serverIds /\ t \in Server /\ Holds(t) /\ up[t] /\ Bookkeeping
    BY <1>4, Typing, SameReplicas DEF Reliable, Replicas
  <2>2. Put(toServer[t], m, toServer'[t])
    BY <1>2, <2>1 DEF Sent
  <2> QED  BY <1>1, <1>2, <2>1, <2>2, VotedHolds
<1>5. UNCHANGED <<isFileOpen, updateId>>
  BY DEF transactionVars
<1>6. Bookkeeping' /\ Fresh'
  BY <1>2, <1>5, EmptyNotFull, PointersSame DEF Reliable, Bookkeeping, Fresh
<1> QED  BY <1>3, <1>4, <1>6 DEF Reliable

\* All servers have carried the Commit out.
LEMMA CommitSucceedsReliable ==
  ASSUME IInv, Reliable, op = "commit", CommitSucceeds,
         UNCHANGED <<serverIds, up, clients>>, UNCHANGED serverVars,
         \A t \in serverIds :
           Left(t) /\ Settled(t, "commit") /\ Answered(t, "COMMITACK")
  PROVE  Reliable'
<1> DEFINE m == Plain("CLOSE")
<1>1. m \in ClientMsg /\ m.type = "CLOSE" /\ m.type = MsgType["close2"]
  BY BuiltMessages, MsgTypes DEF Plain
<1>2. /\ ResetClient /\ updateId' = 0
      /\ promised' = [promised EXCEPT ![fileName] = After]
      /\ UNCHANGED <<isFileOpen, fileName, inDoubt>>
      /\ recvServerId' = {} /\ closeRecvServerId' = {}
      /\ \/ op' = "idle" /\ toServer' = toServer
         \/ op' = "close2" /\ Sent(m)
  <2>1. closeRecvServerId = {}
    BY DEF Reliable, Bookkeeping
  <2>2. ResetClient /\ updateId' = 0 /\ UNCHANGED <<isFileOpen, fileName, inDoubt>>
    BY DEF CommitSucceeds, fileVars, ResetClient
  <2>3. promised' = [promised EXCEPT ![fileName] = After]
    BY DEF CommitSucceeds, After
  <2>4. \/ ReturnToApp /\ UNCHANGED toServer
        \/ /\ Enter("close2", closeRecvServerId, <<>>, m)
           /\ closeRecvServerId' = closeRecvServerId
    BY DEF CommitSucceeds
  <2>5. \/ /\ op' = "idle" /\ toServer' = toServer
           /\ recvServerId' = {} /\ closeRecvServerId' = {}
        \/ /\ op' = "close2" /\ Sent(m)
           /\ recvServerId' = {} /\ closeRecvServerId' = {}
    BY <1>1, <2>1, <2>4, EnterSends DEF ReturnToApp
  <2> QED  BY <2>2, <2>3, <2>5
<1> HIDE DEF m
<1>3. \A t \in serverIds : Channels(t)'
  <2> SUFFICES ASSUME NEW t \in serverIds PROVE Channels(t)'
    OBVIOUS
  <2>1. Answers(t) /\ Left(t) /\ (op' = "close2" => Got(t, m))
    BY <1>2, Typing DEF Reliable, Channels, Sent, Got
  <2>2. Only(toClient[t], {"COMMITACK"}) /\ Only(toServer[t], {"COMMIT"})
    BY AckTypes, MsgTypes DEF Settled, Follow
  <2>3. CASE op' = "idle"
    <3>1. /\ Only(toClient'[t], {AckType["commit"]})
          /\ Only(toServer'[t], {MsgType["commit"], "WRITEBLOCK"})
      BY <1>2, <2>1, <2>2, <2>3, LeftAnswers, AckTypes, MsgTypes DEF Only
    <3> QED  BY <2>1, <2>3, <3>1, RestChannels
  <2>4. CASE op' = "close2"
    <3>1. Clean(t, "close2")
      BY <2>2, AckTypes, MsgTypes DEF Clean, Only
    <3>2. /\ \A k \in 1 .. Len(toServer[t]) : toServer[t][k].type # "VOTE"
          /\ \A k \in 1 .. Len(toClient[t]) : toClient[t][k].type # "VOTEACK"
      BY <2>2 DEF Only
    <3>3. "close2" \in Op \ {"idle", "init"}
      BY DEF Op
    <3> QED  BY <1>1, <1>2, <2>1, <2>4, <3>1, <3>2, <3>3, StartChannels
  <2> QED  BY <1>2, <2>3, <2>4
<1>4. ASSUME NEW t \in Replicas' PROVE Holds(t)'
  <2>1. t \in serverIds /\ t \in Server /\ Holds(t) /\ up[t] /\ Bookkeeping
    BY <1>4, Typing, SameReplicas DEF Reliable, Replicas
  <2>2. \/ op' = "idle" /\ toServer'[t] = toServer[t]
        \/ op' = "close2" /\ \E p : Put(toServer[t], p, toServer'[t]) /\ p.type = "CLOSE"
    BY <1>1, <1>2, <2>1 DEF Sent
  <2> QED  BY <1>2, <2>1, <2>2, CommittedHolds
<1>5. Bookkeeping'
  <2>1. op' \in {"idle", "close2"} /\ isFileOpen
    BY <1>2 DEF Reliable, Bookkeeping
  <2> QED  BY <1>2, <2>1, EmptyNotFull, PointersSame DEF Reliable, Bookkeeping
<1>6. Fresh'
  BY <1>2 DEF Reliable, Bookkeeping, Fresh
<1> QED  BY <1>3, <1>4, <1>5, <1>6 DEF Reliable

\* What a read answer says, and who is left.
LEMMA AckFacts ==
  ASSUME IInv, Dependable, Reliable, NEW s \in Server,
         NEW i \in 1 .. Len(toClient[s]), NEW ops, ReadsAck(s, i, ops),
         "idle" \notin ops
  PROVE  /\ i = 1 /\ ReadsHead(s) /\ op \in ops /\ up' = up
         /\ toClient[s][1].type = AckType[op]
         /\ clients' = clients /\ UNCHANGED bookVars
         /\ \A t \in serverIds : Left(t)
         /\ s \in serverIds => Answers(s)
<1>1. i = 1 /\ ReadsHead(s) /\ op \in ops /\ toClient[s][1].type = AckType[op]
  BY ReadsHeads DEF ReadsAck, Dependable
<1>2. \A t \in serverIds : Left(t)
  BY <1>1, Typing DEF ReadsHead, Left
<1> QED  BY <1>1, <1>2 DEF ReadsAck, bookVars, Reliable, Channels, ReadsHead

\* None of the answers to OpenFile, Commit and Abort is an error.
LEMMA NoRefusal ==
  ASSUME IInv, Dependable, Reliable, NEW s \in serverIds,
         NEW i \in 1 .. Len(toClient[s]),
         ReadsAck(s, i, {"open", "commit", "abort"})
  PROVE  ~(toClient[s][i].fileDesc < 0)
<1>1. /\ s \in Server /\ i = 1 /\ ReadsHead(s) /\ op \in {"open", "commit", "abort"}
      /\ toClient[s][1].type = AckType[op] /\ Answers(s)
  BY AckFacts, Typing
<1>2. toClient[s] \in Seq(ServerMsg)
  BY <1>1, Typing
<1>3. toClient[s][1] \in ServerMsg
  BY <1>1, <1>2, ElementOfSeq
<1>4. toClient[s][1].fileDesc \in {-1, 0, 1}
  BY <1>1, <1>3, AckTypes DEF ServerMsg
<1>5. toClient[s][1].fileDesc >= 0
  BY <1>1, AckTypes DEF Answers
<1> QED  BY <1>1, <1>4, <1>5

\* The answers to OpenFile, Commit and Abort.
LEMMA ProcAckReliable ==
  ASSUME IInv, Dependable, Reliable, NEW s \in Server,
         NEW i \in 1 .. Len(toClient[s]), ProcAckMessage(s, i),
         UNCHANGED serverVars
  PROVE  Reliable'
<1>1. ReadsAck(s, i, {"open", "commit", "abort"}) /\ UNCHANGED serverIds
  BY DEF ProcAckMessage
<1>2. /\ i = 1 /\ ReadsHead(s) /\ op \in {"open", "commit", "abort"} /\ up' = up
      /\ toClient[s][1].type = AckType[op]
      /\ clients' = clients /\ UNCHANGED bookVars
      /\ \A t \in serverIds : Left(t)
      /\ s \in serverIds => Answers(s)
  BY <1>1, AckFacts
<1>4. AfterAck(Accepted(s))
  <2>1. ~(s \in serverIds /\ toClient[s][i].fileDesc < 0)
    BY <1>1, <1>2, NoRefusal
  <2> QED  BY <2>1 DEF ProcAckMessage
<1>5. CASE s \notin serverIds \/ ~IsFull(Accepted(s))
  <2>1. KeepWaiting(Accepted(s))
    BY <1>4, <1>5 DEF AfterAck, Accepted, Reliable, Bookkeeping
  <2>2. op \notin {"idle", "init", "close"}
    BY <1>2
  <2>3. \/ Accepted(s) = recvServerId
        \/ /\ s \in serverIds /\ Accepted(s) = recvServerId \cup {s}
           /\ ~IsFull(Accepted(s))
    BY <1>5 DEF Accepted
  <2> QED  BY <1>1, <1>2, <2>1, <2>2, <2>3, KeepWaitingReliable
<1>6. CASE s \in serverIds /\ IsFull(Accepted(s))
  <2>1. ExecuteOk
    BY <1>4, <1>6 DEF AfterAck
  <2>2. \A t \in serverIds :
          Left(t) /\ Settled(t, op) /\ Answered(t, AckType[op])
    <3>1. IsFull(recvServerId \cup {s}) /\ op # "idle" /\ 1 \in 1 .. Len(toClient[s])
      BY <1>2, <1>6 DEF Accepted
    <3> QED  BY <1>2, <1>6, <3>1, AllSettled
  <2>3. CASE op = "open"
    <3>1. OpenSucceeds
      BY <2>1, <2>3 DEF ExecuteOk
    <3> QED  BY <1>1, <1>2, <2>2, <2>3, <3>1, OpenSucceedsReliable
  <2>4. CASE op = "commit"
    <3>1. CommitSucceeds
      BY <2>1, <2>4 DEF ExecuteOk
    <3>2. \A t \in serverIds :
            Left(t) /\ Settled(t, "commit") /\ Answered(t, "COMMITACK")
      BY <2>2, <2>4, AckTypes
    <3> QED  BY <1>1, <1>2, <2>4, <3>1, <3>2, CommitSucceedsReliable
  <2>5. CASE op = "abort"
    <3>1. AbortEnds
      BY <2>1, <2>5 DEF ExecuteOk
    <3> QED  BY <1>1, <1>2, <2>2, <2>5, <3>1, AbortEndsReliable
  <2> QED  BY <1>2, <2>3, <2>4, <2>5
<1> QED  BY <1>5, <1>6

\* CloseFile is refused for staged updates, and runs Commit then.
LEMMA CloseCommitsReliable ==
  ASSUME IInv, Reliable, op = "close", updateId > 0, CloseCommits,
         UNCHANGED <<serverIds, up, clients>>, UNCHANGED serverVars,
         \A t \in serverIds : Left(t)
  PROVE  Reliable'
<1> DEFINE m == Plain("VOTE")
<1>1. m \in ClientMsg /\ m.type = MsgType["vote"]
  BY BuiltMessages, MsgTypes DEF Plain
<1>2. Sent(m) /\ op' = "vote" /\ recvServerId' = {}
  BY <1>1, EnterSends DEF CloseCommits
<1> HIDE DEF m
<1>3. /\ isFileOpen /\ clients # 0 /\ recvServerId = {}
      /\ closeRecvServerId' = {}
      /\ UNCHANGED <<isFileOpen, fileName, clientUpdateMap, updateId,
                     recvServerUpdateId, promised, inDoubt>>
  BY DEF Reliable, Bookkeeping, CloseCommits, fileVars, stagedVars, promiseVars
<1>4. \A t \in serverIds : Left(t) /\ Clean(t, "vote")
  BY NoVotesLeft, AckTypes, MsgTypes DEF Clean
<1>5. \A t \in serverIds : recvServerUpdateId'[t] \in {-1, updateId}
  BY <1>3, NoVotesRecorded
<1> QED  BY <1>1, <1>2, <1>3, <1>4, <1>5, StartReliable

\* The answers to CloseFile.
LEMMA ProcCloseAckReliable ==
  ASSUME IInv, Dependable, Reliable, NEW s \in Server,
         NEW i \in 1 .. Len(toClient[s]), ProcCloseAckMessage(s, i),
         UNCHANGED serverVars
  PROVE  Reliable'
<1> DEFINE desc == IF s \in serverIds THEN toClient[s][i].fileDesc ELSE 0
<1>1. ReadsAck(s, i, {"close", "close2"}) /\ UNCHANGED serverIds
  BY DEF ProcCloseAckMessage
<1>2. /\ i = 1 /\ ReadsHead(s) /\ op \in {"close", "close2"} /\ up' = up
      /\ toClient[s][1].type = AckType[op]
      /\ clients' = clients /\ UNCHANGED bookVars
      /\ \A t \in serverIds : Left(t)
      /\ s \in serverIds => Answers(s)
  BY <1>1, AckFacts
<1>3. s \in serverIds => desc = IF updateId > 0 THEN 1 ELSE 0
  BY <1>2, AckTypes DEF Answers, ReadsHead
<1>4. s \notin serverIds => desc = 0
  OBVIOUS
<1>5. \/ desc < 0 /\ ExecuteError
      \/ desc = 1 /\ op = "close" /\ CloseCommits
      \/ desc = 1 /\ op = "close2" /\ CloseSucceeds
      \/ desc = 0 /\ AfterAck(Accepted(s))
  BY DEF ProcCloseAckMessage
<1> HIDE DEF desc
<1>6. CASE s \in serverIds /\ updateId > 0
  <2>1. desc = 1 /\ op = "close"
    BY <1>2, <1>3, <1>6 DEF Reliable, Bookkeeping
  <2>2. CloseCommits
    BY <1>5, <2>1
  <2> QED  BY <1>1, <1>2, <1>6, <2>1, <2>2, CloseCommitsReliable
<1>7. CASE s \notin serverIds \/ updateId = 0
  <2>1. desc = 0
    BY <1>3, <1>4, <1>7
  <2>2. AfterAck(Accepted(s))
    BY <1>5, <2>1
  <2>3. CASE s \notin serverIds \/ ~IsFull(Accepted(s))
    <3>1. KeepWaiting(Accepted(s))
      BY <2>2, <2>3 DEF AfterAck, Accepted, Reliable, Bookkeeping
    <3>2. op \notin {"idle", "init"}
      BY <1>2
    <3>3. \/ Accepted(s) = recvServerId
          \/ /\ s \in serverIds /\ Accepted(s) = recvServerId \cup {s}
             /\ ~IsFull(Accepted(s)) /\ updateId = 0
      BY <1>7, <2>3 DEF Accepted
    <3> QED  BY <1>1, <1>2, <3>1, <3>2, <3>3, KeepWaitingReliable
  <2>4. CASE s \in serverIds /\ IsFull(Accepted(s))
    <3>1. CloseSucceeds
      BY <1>2, <2>2, <2>4 DEF AfterAck, ExecuteOk
    <3>2. \A t \in serverIds :
            Left(t) /\ Settled(t, op) /\ Answered(t, AckType[op])
      <4>1. IsFull(recvServerId \cup {s}) /\ op # "idle" /\ 1 \in 1 .. Len(toClient[s])
        BY <1>2, <2>4 DEF Accepted, ReadsHead
      <4> QED  BY <1>2, <2>4, <4>1, AllSettled
    <3> QED  BY <1>1, <1>2, <1>7, <2>4, <3>1, <3>2, CloseSucceedsReliable
  <2> QED  BY <2>3, <2>4
<1> QED  BY <1>6, <1>7, Numbers

\* The votes: the last one ends the phase, and no update is missing.
LEMMA ProcVoteAckReliable ==
  ASSUME IInv, Dependable, Reliable, NEW s \in Server,
         NEW i \in 1 .. Len(toClient[s]), ProcVoteAckMessage(s, i),
         UNCHANGED serverVars
  PROVE  /\ Reliable' /\ op = "vote"
         /\ op' = "vote" => turn' = turn
<1>1. ReadsAck(s, i, {"vote"}) /\ UNCHANGED serverIds
  BY DEF ProcVoteAckMessage
<1>2. /\ i = 1 /\ ReadsHead(s) /\ op = "vote" /\ up' = up
      /\ toClient[s][1].type = AckType[op]
      /\ clients' = clients /\ UNCHANGED bookVars
      /\ \A t \in serverIds : Left(t)
      /\ s \in serverIds => Answers(s)
  BY <1>1, AckFacts
<1>3. CASE s \notin serverIds
  <2>1. KeepWaiting(recvServerId)
    BY <1>3 DEF ProcVoteAckMessage, AfterAck, Reliable, Bookkeeping
  <2>2. op' = op /\ turn' = turn
    BY <2>1 DEF KeepWaiting
  <2> QED  BY <1>1, <1>2, <2>1, <2>2, KeepWaitingReliable
<1>4. CASE s \in serverIds
  <2> DEFINE id == toClient[s][i].updateId
             ids == [recvServerUpdateId EXCEPT ![s] = id]
             recv == Accepted(s)
  <2>1. id = updateId
    BY <1>2, <1>4, AckTypes DEF Answers, ReadsHead
  <2>2. CountVote(s, id)
    BY <1>4 DEF ProcVoteAckMessage
  <2>3. recv = recvServerId \cup {s}
    BY <1>4 DEF Accepted
  <2>4. /\ ids \in [Server -> Int]
        /\ \A t \in serverIds : ids[t] \in {-1, updateId}
        /\ \A t \in Server \ serverIds : ids[t] = -1
    <3>1. \A t \in Server : recvServerUpdateId[t] # -1 => t \in serverIds
      BY DEF IInv, ClientInv, SelectionHolds, Voted
    <3>2. \A t \in serverIds : recvServerUpdateId[t] \in {-1, updateId}
      BY <1>2 DEF Reliable, Bookkeeping
    <3>3. recvServerUpdateId \in [Server -> -1 .. MaxUpdates] /\ updateId \in Int
      BY Typing, Numbers
    <3> QED  BY <1>4, <2>1, <3>1, <3>2, <3>3, Numbers
  <2>5. /\ recvServerUpdateId' = ids
        /\ UNCHANGED transactionVars
        /\ closeRecvServerId' = closeRecvServerId
        /\ \/ /\ ~IsFull(recv)
              /\ recvServerId' = recv
              /\ UNCHANGED <<toServer, op, turn>>
           \/ IsFull(recv) /\ Enter("commit", {}, <<>>, Plain("COMMIT"))
           \/ \E smallest \in 0 .. MaxUpdates :
                SmallestIs(ids, smallest) /\ smallest # updateId
    BY <2>2 DEF CountVote, transactionVars, fileVars, promiseVars
  <2> HIDE DEF id, ids
  <2>6. CASE \E smallest \in 0 .. MaxUpdates :
               SmallestIs(ids, smallest) /\ smallest # updateId
    <3>1. PICK smallest \in 0 .. MaxUpdates :
            SmallestIs(ids, smallest) /\ smallest # updateId
      BY <2>6
    <3>2. PICK t \in Server : ids[t] = smallest
      BY <3>1 DEF SmallestIs
    <3>3. smallest # -1
      BY Numbers
    <3> QED  BY <2>4, <3>1, <3>2, <3>3
  <2>7. CASE ~IsFull(recv) /\ recvServerId' = recv /\ UNCHANGED <<toServer, op, turn>>
    <3>1. \A t \in serverIds : recvServerUpdateId'[t] \in {-1, updateId}
      BY <2>4, <2>5
    <3>2. Reliable'
      BY <1>1, <1>2, <1>4, <2>3, <2>5, <2>7, <3>1, WaitReliable
    <3> QED  BY <1>2, <2>7, <3>2
  <2>8. CASE IsFull(recv) /\ Enter("commit", {}, <<>>, Plain("COMMIT"))
    <3>1. \A t \in serverIds :
            Left(t) /\ Settled(t, "vote") /\ Answered(t, "VOTEACK")
      <4>1. IsFull(recvServerId \cup {s}) /\ op # "idle" /\ 1 \in 1 .. Len(toClient[s])
        BY <1>2, <2>3, <2>8 DEF ReadsHead
      <4>2. \A t \in serverIds : Settled(t, op) /\ Answered(t, AckType[op])
        BY <1>2, <1>4, <4>1, AllSettled
      <4> QED  BY <1>2, <4>2, AckTypes
    <3>2. Reliable'
      BY <1>1, <1>2, <2>5, <2>8, <3>1, VoteSucceedsReliable
    <3>3. op' = "commit"
      BY <2>8 DEF Enter
    <3> QED  BY <1>2, <3>2, <3>3
  <2> QED  BY <2>5, <2>6, <2>7, <2>8
<1> QED  BY <1>3, <1>4

\* With every selected server dead or answered, and nothing under way, the
\* operation fails; an Abort follows a failed vote or commit phase.
LEMMA TimeoutReliable ==
  ASSUME IInv, Dependable, Reliable, Timeout, UNCHANGED serverVars
  PROVE  /\ Reliable' /\ op \notin {"idle"}
         /\ op' # "vote"
<1>1. /\ op # "idle" /\ op \in Op
      /\ UNCHANGED <<toClient, up, serverIds, clients>>
      /\ ExecuteError
      /\ closeRecvServerId = {}
  BY Typing, TooFew DEF Timeout, Reliable, Bookkeeping, bookVars
<1>2. \A t \in serverIds : Left(t)
  BY <1>1 DEF Left
<1>3. CASE op = "init"
  <2>1. InitEnds
    BY <1>1, <1>3 DEF ExecuteError
  <2>2. /\ op' = "idle" /\ recvServerId' = {} /\ closeRecvServerId' = {}
        /\ UNCHANGED <<toServer, isFileOpen, fileName, clientUpdateMap, updateId,
                       promised, inDoubt>>
    BY <2>1 DEF InitEnds, ReturnToApp, fileVars, stagedVars, promiseVars
  <2>3. Target' = Target
    BY <1>3, <2>2 DEF Target
  <2>4. \A t \in serverIds :
          /\ Only(toClient[t], {AckType["init"]})
          /\ Only(toServer[t], {MsgType["init"], "WRITEBLOCK"})
    BY <1>3, Typing, AckTypes, MsgTypes DEF Reliable, Fresh, Pristine, Only
  <2>5. ~isFileOpen' => updateId' = 0
    BY <2>2 DEF Reliable, Bookkeeping
  <2> QED  BY <1>1, <1>2, <1>3, <2>2, <2>3, <2>4, <2>5, EndReliable
<1>4. CASE op # "init"
  <2>1. \A s \in Server : toServer[s] = <<>> /\ toClient[s] = <<>>
    BY <1>4 DEF Timeout, MayTimeOut, Dependable
  <2>2. \A t \in serverIds : \A T : Only(toServer[t], T) /\ Only(toClient[t], T)
    BY <2>1, Typing DEF Only
  <2>3. clients # 0
    BY <1>1 DEF Reliable, Bookkeeping
  <2>4. CASE op \in {"open", "close", "close2"}
    <3>1. /\ op' = "idle" /\ recvServerId' = {} /\ closeRecvServerId' = {}
          /\ UNCHANGED <<toServer, isFileOpen, fileName, clientUpdateMap, updateId,
                         promised, inDoubt>>
      BY <1>1, <2>4 DEF ExecuteError, OpenFails, CloseFileFails, ReturnToApp,
         fileVars, stagedVars, promiseVars
    <3>2. Target' = Target
      BY <2>4, <3>1 DEF Target
    <3>3. ~isFileOpen' => updateId' = 0
      BY <3>1 DEF Reliable, Bookkeeping
    <3>4. Reliable'
      BY <1>1, <1>2, <2>2, <2>4, <3>1, <3>2, <3>3, EndReliable
    <3> QED  BY <1>1, <3>1, <3>4
  <2>5. CASE op = "abort"
    <3>1. AbortEnds
      BY <1>1, <2>5 DEF ExecuteError
    <3>2. \A t \in serverIds : Settled(t, "abort")
      BY <2>2 DEF Settled
    <3>3. Reliable'
      BY <1>1, <1>2, <2>5, <3>1, <3>2, AbortEndsReliable
    <3> QED  BY <1>1, <3>1, <3>3 DEF AbortEnds, ReturnToApp
  <2> DEFINE m == Plain("ABORT")
  <2>6. m \in ClientMsg /\ m.type = "ABORT" /\ m.type = MsgType["abort"]
    BY BuiltMessages, MsgTypes DEF Plain
  <2>7. ASSUME op \in {"vote", "commit"}
        PROVE  /\ Sent(m) /\ op' = "abort" /\ recvServerId' = {}
               /\ closeRecvServerId' = {} /\ isFileOpen
               /\ UNCHANGED <<isFileOpen, fileName, clientUpdateMap, updateId,
                              promised>>
               /\ inDoubt' = IF op = "commit" THEN inDoubt \cup {fileName}
                                              ELSE inDoubt
    <3>1. /\ Enter("abort", {}, <<>>, m)
          /\ closeRecvServerId' = closeRecvServerId
          /\ UNCHANGED <<isFileOpen, fileName, clientUpdateMap, updateId, promised>>
          /\ inDoubt' = IF op = "commit" THEN inDoubt \cup {fileName} ELSE inDoubt
      BY <1>1, <2>7 DEF ExecuteError, VoteFails, CommitFails, fileVars, stagedVars,
         promiseVars
    <3> QED  BY <1>1, <2>6, <2>7, <3>1, EnterSends DEF Reliable, Bookkeeping
  <2> HIDE DEF m
  <2>8. \A t \in serverIds : Clean(t, "abort")
    BY <2>1, Typing DEF Clean
  <2>9. CASE op = "vote"
    <3>1. \A t \in serverIds :
            /\ \A k \in 1 .. Len(toServer[t]) : toServer[t][k].type # "VOTE"
            /\ \A k \in 1 .. Len(toClient[t]) : toClient[t][k].type # "VOTEACK"
      BY <2>1, Typing
    <3>2. Reliable'
      BY <1>1, <1>2, <2>3, <2>6, <2>7, <2>8, <2>9, <3>1, StartReliable
    <3> QED  BY <1>1, <2>7, <2>9, <3>2
  <2>10. CASE op = "commit"
    <3>1. \A t \in serverIds : Channels(t)'
      <4> SUFFICES ASSUME NEW t \in serverIds PROVE Channels(t)'
        BY <1>1
      <4>1. Answers(t) /\ Got(t, m) /\ Left(t) /\ Clean(t, "abort")
        BY <1>2, <2>7, <2>8, <2>10, Typing DEF Reliable, Channels, Sent, Got
      <4>2. /\ \A k \in 1 .. Len(toServer[t]) : toServer[t][k].type # "VOTE"
            /\ \A k \in 1 .. Len(toClient[t]) : toClient[t][k].type # "VOTEACK"
        BY <2>1, Typing
      <4>3. "abort" \in Op \ {"idle", "init"}
        BY DEF Op
      <4> QED  BY <2>6, <2>7, <2>10, <4>1, <4>2, <4>3, StartChannels
    <3>2. ASSUME NEW t \in Replicas' PROVE Holds(t)'
      <4>1. t \in serverIds /\ t \in Server /\ Holds(t) /\ up[t] /\ Bookkeeping
        BY <1>1, <3>2, Typing, SameReplicas DEF Reliable, Replicas
      <4>2. Put(toServer[t], m, toServer'[t]) /\ toServer[t] = <<>>
        BY <2>1, <2>7, <2>10, <4>1 DEF Sent
      <4> QED  BY <2>6, <2>7, <2>10, <4>1, <4>2, CommitFailsHolds
    <3>3. Bookkeeping'
      BY <1>1, <2>3, <2>7, <2>10, EmptyNotFull, PointersSame DEF Reliable, Bookkeeping
    <3>4. Fresh'
      BY <1>1, <2>3, <2>7, <2>10 DEF Fresh
    <3> QED  BY <1>1, <2>7, <2>10, <3>1, <3>2, <3>3, <3>4 DEF Reliable
  <2> QED  BY <1>1, <1>4, <2>4, <2>5, <2>9, <2>10 DEF Op
<1> QED  BY <1>1, <1>3, <1>4

-----------------------------------------------------------------------------
(* The invariant of the whole.                                              *)

\* A vote phase is not started again: it ends or goes on waiting.
NoNewRound == op = "vote" /\ op' = "vote" => turn' = turn

\* The one client does not die: another would have to follow it.
LEMMA NoCrash ==
  ASSUME IInv, Dependable, Reliable
  PROVE  ~ClientCrash
<1> SUFFICES ASSUME ClientCrash PROVE FALSE
  OBVIOUS
<1>1. clients = 0
  BY Typing DEF ClientCrash, Dependable
<1>2. op = "idle" /\ serverIds = {}
  BY <1>1 DEF Reliable, Bookkeeping
<1> QED  BY <1>2 DEF ClientCrash

\* Every step of the client keeps the invariant, and starts no second round
\* of votes.
LEMMA ClientReliable ==
  ASSUME IInv, Dependable, Reliable, ClientStep, UNCHANGED serverVars
  PROVE  Reliable' /\ NoNewRound
<1>1. CASE CallStep
  <2>1. CASE InitReplFs
    BY <2>1, InitReplFsReliable DEF NoNewRound, InitReplFs
  <2>2. ASSUME NEW f \in File, OpenFile(f) PROVE Reliable' /\ NoNewRound
    BY <2>2, OpenFileReliable DEF NoNewRound, OpenFile, Called
  <2>3. ASSUME NEW u \in Update, WriteBlock(u) PROVE Reliable' /\ NoNewRound
    BY <2>3, WriteBlockReliable DEF NoNewRound, WriteBlock, Called
  <2>4. ASSUME NEW name, NEW o \in {"vote", "abort", "close"}, StartCall(name, o)
        PROVE  Reliable' /\ NoNewRound
    BY <2>4, StartCallReliable DEF NoNewRound, StartCall, Called
  <2>5. CASE Commit \/ Abort \/ CloseFile
    BY <2>4, <2>5 DEF Commit, Abort, CloseFile
  <2> QED  BY <1>1, <2>1, <2>2, <2>3, <2>5 DEF CallStep
<1>2. ASSUME NEW s \in Server, ReadStep(s) PROVE Reliable' /\ NoNewRound
  <2>1. PICK i \in 1 .. Len(toClient[s]) : HandleAck(s, i) \/ IgnoreAck(s, i)
    BY <1>2 DEF ReadStep
  <2>2. CASE ProcInitAckMessage(s, i)
    BY <2>2, ProcInitAckReliable DEF NoNewRound, ProcInitAckMessage, ReadsAck
  <2>3. CASE ProcAckMessage(s, i)
    BY <2>3, ProcAckReliable DEF NoNewRound, ProcAckMessage, ReadsAck
  <2>4. CASE ProcCloseAckMessage(s, i)
    <3>1. op # "vote"
      BY <2>4 DEF ProcCloseAckMessage, ReadsAck
    <3> QED  BY <2>4, <3>1, ProcCloseAckReliable DEF NoNewRound
  <2>5. CASE ProcVoteAckMessage(s, i)
    BY <2>5, ProcVoteAckReliable DEF NoNewRound
  <2>6. CASE IgnoreAck(s, i)
    BY <2>6, IgnoreAckReliable DEF NoNewRound, IgnoreAck, clientVars, callVars
  <2> QED  BY <2>1, <2>2, <2>3, <2>4, <2>5, <2>6 DEF HandleAck
<1>3. CASE Resend
  BY <1>3, ResendReliable DEF NoNewRound, Resend, clientVars, callVars
<1>4. CASE Timeout
  BY <1>4, TimeoutReliable DEF NoNewRound
<1>5. ~ClientCrash
  BY NoCrash
<1> QED  BY <1>1, <1>2, <1>3, <1>4, <1>5 DEF ClientStep

\* The program starts in the invariant.
LEMMA InitIsReliable ==
  ASSUME Init
  PROVE  Reliable
<1>1. IInv
  BY InitSafe
<1>2. Bookkeeping
  <2>1. NoFile # Dangling
    BY DataAssumption
  <2> QED  BY <2>1, EmptyNotFull
           DEF Init, NetInit, ServerInit, ClientInit, Bookkeeping
<1>3. Fresh
  <2>1. Cached(NoUpdates) = {}
    BY NoUpdatesFacts
  <2> QED  BY <2>1
           DEF Init, NetInit, ServerInit, ClientInit, Fresh, Pristine, Only, Cached
<1>4. serverIds = {}
  BY DEF Init, ClientInit
<1> QED  BY <1>2, <1>3, <1>4 DEF Reliable, Replicas

\* Every step of replFs keeps the invariant, writes no file of a replica the
\* client has not decided to commit, and starts no second round of votes.
LEMMA NextReliable ==
  ASSUME IInv, Dependable, Reliable, [Next]_vars
  PROVE  Reliable' /\ DiskFollowsDecision /\ NoNewRound
<1>1. ASSUME NEW s \in Server, ServerStep(s), UNCHANGED clientVars
      PROVE  Reliable' /\ DiskFollowsDecision /\ NoNewRound
  BY <1>1, ServerReliable DEF NoNewRound, clientVars, callVars
<1>2. ASSUME UNCHANGED serverVars PROVE DiskFollowsDecision
  BY <1>2 DEF DiskFollowsDecision, serverVars
<1>3. CASE ClientStep /\ UNCHANGED serverVars
  BY <1>2, <1>3, ClientReliable
<1>4. CASE UNCHANGED vars
  <2>1. UNCHANGED serverVars /\ UNCHANGED clientVars
        /\ UNCHANGED <<toServer, toClient, up>>
    BY <1>4 DEF vars, netVars
  <2>2. UNCHANGED <<fileFullname, updateMap, nextUpdateId, fp, disk, backup>>
    BY <2>1 DEF serverVars, memoryVars
  <2>3. /\ UNCHANGED <<op, recvServerId, closeRecvServerId, serverIds, clients, turn>>
        /\ UNCHANGED <<isFileOpen, fileName, updateId, promised, inDoubt>>
        /\ UNCHANGED recvServerUpdateId
    BY <2>1 DEF clientVars, callVars, fileVars, stagedVars, bookVars, promiseVars
  <2>4. \A t \in serverIds' : Channels(t)'
    BY <2>1, <2>3, ChannelsKept DEF Reliable
  <2>5. \A t \in Replicas' : Holds(t)'
    <3>1. Replicas' = Replicas
      BY <2>1, <2>3 DEF Replicas
    <3>2. ASSUME NEW t \in Replicas PROVE Holds(t)'
      BY <2>1, <2>2, HoldsKept DEF Reliable
    <3> QED  BY <3>1, <3>2
  <2>6. Bookkeeping'
    BY <2>2, <2>3 DEF Reliable, Bookkeeping, IsFull
  <2>7. Fresh'
    BY <2>1, <2>2, <2>3 DEF Reliable, Fresh, Pristine, Only, Cached
  <2>8. Reliable'
    BY <2>4, <2>5, <2>6, <2>7 DEF Reliable
  <2> QED  BY <1>2, <2>1, <2>3, <2>8 DEF NoNewRound
<1> QED  BY <1>1, <1>3, <1>4 DEF Next

\* On a dependable network the invariant holds throughout.
THEOREM ReliableAlways == Dependable => (Spec => []Reliable)
<1> SUFFICES ASSUME Dependable PROVE Spec => []Reliable
  OBVIOUS
<1>1. Init => Reliable
  BY InitIsReliable
<1>2. IInv /\ Reliable /\ [Next]_vars => Reliable'
  BY NextReliable
<1> QED  BY <1>1, <1>2, Invariance, PTL DEF Spec

-----------------------------------------------------------------------------
(* What a team that runs replFs on a dependable network may rely on.        *)

\* When Commit decides, every replica still alive has all the staged updates
\* cached or in the file.
THEOREM AllPreparedHolds == Dependable => (Spec => []AllPrepared)
<1> SUFFICES ASSUME Dependable PROVE Spec => []AllPrepared
  OBVIOUS
<1>1. Reliable => AllPrepared
  <2> SUFFICES ASSUME Reliable, op = "commit", fileName \notin inDoubt,
                      NEW s \in Replicas
               PROVE  Prepared(s) \/ Committed(s)
    BY DEF AllPrepared
  <2>1. Committing(s)
    BY DEF Reliable, Holds
  <2> QED  BY <2>1 DEF Committing, CarriedOut, Prepared, Committed
<1> QED  BY <1>1, ReliableAlways, PTL

\* When Commit is sent, every replica still alive has the application's file
\* open.
THEOREM SameFileHolds == Dependable => (Spec => []SameFileEverywhere)
<1> SUFFICES ASSUME Dependable PROVE Spec => []SameFileEverywhere
  OBVIOUS
<1>1. Reliable => SameFileEverywhere
  BY DEF Reliable, Holds, Committing, SameFileEverywhere
<1> QED  BY <1>1, ReliableAlways, PTL

\* A replica has exactly the updates whose commit succeeded on its disk, or
\* is ahead of a commit under way.
THEOREM PromiseHolds == Dependable => (Spec => []ReplicasMatchPromise)
<1> SUFFICES ASSUME Dependable PROVE Spec => []ReplicasMatchPromise
  OBVIOUS
<1>1. Reliable => ReplicasMatchPromise
  BY DEF Reliable, Holds, OnDisk, ReplicasMatchPromise
<1> QED  BY <1>1, ReliableAlways, PTL

\* CloseFile returns success only when no staged update is left behind.
THEOREM ClosedIsCommitted == Dependable => (Spec => []ClosedMeansCommitted)
<1> SUFFICES ASSUME Dependable PROVE Spec => []ClosedMeansCommitted
  OBVIOUS
<1>1. Reliable => ClosedMeansCommitted
  BY DEF Reliable, Bookkeeping, ClosedMeansCommitted
<1> QED  BY <1>1, ReliableAlways, PTL

\* After a successful CloseFile a replica still alive has nothing cached, fp is
\* NULL, and nothing on its way to it changes that.
THEOREM ClosedLeavesNothingHolds == Dependable => (Spec => []ClosedLeavesNothing)
<1> SUFFICES ASSUME Dependable PROVE Spec => []ClosedLeavesNothing
  OBVIOUS
<1>1. IInv /\ Reliable => ClosedLeavesNothing
  <2> SUFFICES ASSUME IInv, Reliable, ~isFileOpen, op = "idle", NEW s \in Replicas
               PROVE  /\ fp[s] = NoFile
                      /\ Cached(updateMap[s]) = {}
                      /\ \A k \in 1 .. Len(toServer[s]) :
                           toServer[s][k].type \in {"INIT", "OPENFILE", "CLOSE"}
    BY DEF ClosedLeavesNothing
  <2>1. Updates(s) /\ Closing(s) /\ updateId = 0
    BY DEF Reliable, Bookkeeping, Holds
  <2>2. Only(toServer[s], {"INIT", "OPENFILE", "CLOSE"})
    BY <2>1 DEF Closing
  <2>3. NoneAfter(toServer[s], 0, Clears)
    BY <2>2 DEF Only, NoneAfter, Clears
  <2>4. \A id \in Cached(updateMap[s]) : id \in UpdateId /\ id < 0
    BY <2>1, <2>3 DEF Updates, Staged, Target, Cached
  <2>5. Cached(updateMap[s]) = {}
    BY <2>4 DEF UpdateId
  <2> QED  BY <2>1, <2>2, <2>5 DEF Closing, Only
<1> QED  BY <1>1, Invariance, ReliableAlways, PTL

\* A vote the client has counted is still true.
THEOREM VotesHonestHolds == Dependable => (Spec => []VotesAreHonest)
<1> SUFFICES ASSUME Dependable PROVE Spec => []VotesAreHonest
  OBVIOUS
<1>1. IInv /\ Reliable => VotesAreHonest
  <2> SUFFICES ASSUME IInv, Reliable, op = "vote", NEW s \in Replicas,
                      NEW i \in UpdateId, i < recvServerUpdateId[s]
               PROVE  i < nextUpdateId[s] /\ updateMap[s][i] = clientUpdateMap[i]
    BY DEF VotesAreHonest
  <2>1. s \in serverIds /\ s \in Server
    BY Typing DEF Replicas
  <2>2. recvServerUpdateId[s] # -1
    BY DEF UpdateId
  <2>3. recvServerUpdateId[s] = updateId /\ s \in recvServerId
    BY <2>1, <2>2 DEF Reliable, Bookkeeping, IInv, ClientInv, VoteBookkeeping, Voted
  <2>4. nextUpdateId[s] = updateId
    BY <2>3 DEF Reliable, Holds, Voting, Answered
  <2>5. Only(toServer[s], {"VOTE", "CLOSE", "INIT", "OPENFILE"})
    <3>1. Settled(s, "vote")
      BY <2>1, <2>3 DEF Reliable, Channels, InOrder
    <3> QED  BY <3>1, MsgTypes DEF Settled, Follow, Only
  <2>6. updateMap[s] = clientUpdateMap
    BY <2>1, <2>5, AllCached DEF Reliable, Holds
  <2> QED  BY <2>3, <2>4, <2>6
<1> QED  BY <1>1, Invariance, ReliableAlways, PTL

\* No replica writes a file before the client has decided to commit it, and
\* none does after the call has returned.
THEOREM DecisionComesFirst == Dependable => (Spec => DecisionFirst)
<1> SUFFICES ASSUME Dependable PROVE Spec => DecisionFirst
  OBVIOUS
<1>1. IInv /\ Reliable /\ [Next]_vars => [DiskFollowsDecision]_vars
  BY NextReliable
<1>2. [DiskFollowsDecision]_vars <=>
        [\A s \in Replicas : \A f \in File :
           disk'[s][f] # disk[s][f] => op = "commit" /\ f = fileName]_vars
  BY DEF DiskFollowsDecision
<1> QED  BY <1>1, <1>2, Invariance, ReliableAlways, PTL DEF Spec, DecisionFirst

\* One round of votes is enough for every commit.
THEOREM OneRoundHolds == Dependable => (Spec => OneRoundSuffices)
<1> SUFFICES ASSUME Dependable PROVE Spec => OneRoundSuffices
  OBVIOUS
<1>1. IInv /\ Reliable /\ [Next]_vars => [NoNewRound]_vars
  BY NextReliable
<1>2. [NoNewRound]_vars <=>
        [~ (op = "vote" /\ op' = "vote" /\ turn' # turn)]_vars
  BY DEF NoNewRound
<1> QED  BY <1>1, <1>2, Invariance, ReliableAlways, PTL DEF Spec, OneRoundSuffices

-----------------------------------------------------------------------------
(* Where every selected server runs.                                        *)

Healthy == Replicas = serverIds

\* An Abort starts with a failed phase of a commit or is what the application
\* calls.
LEMMA NoNewAbort ==
  ASSUME IInv, Dependable, Reliable, Healthy, inDoubt = {},
         op = "abort" => api = "Abort", Next
  PROVE  inDoubt' = {} /\ (op' = "abort" => api' = "Abort")
<1> DEFINE Goal == inDoubt' = {} /\ (op' = "abort" => api' = "Abort")
<1>1. ASSUME UNCHANGED clientVars PROVE Goal
  BY <1>1 DEF clientVars, callVars, promiseVars
<1>2. ASSUME CallStep PROVE Goal
  BY <1>2 DEF CallStep, InitReplFs, OpenFile, WriteBlock, Commit,
     Abort, CloseFile, StartCall, Enter, Called, callVars, promiseVars
<1>3. ASSUME ExecuteOk PROVE Goal
  BY <1>3 DEF ExecuteOk, InitEnds, OpenSucceeds, VoteSucceeds,
     CommitSucceeds, AbortEnds, CloseSucceeds, ReturnToApp, Enter, promiseVars
<1>4. ASSUME NEW recv, KeepWaiting(recv) PROVE Goal
  BY <1>4 DEF KeepWaiting, promiseVars
<1>5. ASSUME NEW s \in Server, NEW i \in 1 .. Len(toClient[s]), HandleAck(s, i)
      PROVE  Goal
  <2>1. CASE ProcInitAckMessage(s, i)
    BY <1>4, <2>1 DEF ProcInitAckMessage
  <2>2. CASE ProcAckMessage(s, i)
    <3>1. ReadsAck(s, i, {"open", "commit", "abort"})
      BY <2>2 DEF ProcAckMessage
    <3>2. i = 1 /\ ReadsHead(s) /\ op \in {"open", "commit", "abort"}
          /\ toClient[s][1].type = AckType[op] /\ (s \in serverIds => Answers(s))
      BY <3>1, AckFacts
    <3>3. ~(s \in serverIds /\ toClient[s][i].fileDesc < 0)
      BY <1>5, <3>1, <3>2, NoRefusal
    <3> QED  BY <1>3, <1>4, <2>2, <3>3 DEF ProcAckMessage, AfterAck
  <2>3. CASE ProcCloseAckMessage(s, i)
    BY <1>3, <1>4, <2>3
       DEF ProcCloseAckMessage, ReadsAck, AfterAck, ExecuteError, CloseFileFails,
           CloseCommits, CloseSucceeds, ReturnToApp, Enter, promiseVars
  <2>4. CASE ProcVoteAckMessage(s, i)
    BY <1>3, <1>4, <2>4
       DEF ProcVoteAckMessage, ReadsAck, AfterAck, CountVote, Enter, promiseVars
  <2> QED  BY <1>5, <2>1, <2>2, <2>3, <2>4 DEF HandleAck
<1>6. ASSUME Timeout PROVE Goal
  <2>1. \A s \in serverIds : up[s]
    BY DEF Healthy, Replicas
  <2>2. op = "init"
    BY <1>6, <2>1 DEF Timeout, MayTimeOut, Dependable
  <2> QED  BY <1>6, <2>2 DEF Timeout, ExecuteOk, ExecuteError, InitEnds, ReturnToApp,
              promiseVars
<1> HIDE DEF Goal
<1>7. ASSUME ClientStep, UNCHANGED serverVars PROVE Goal
  <2>1. ~ClientCrash
    BY NoCrash
  <2>2. ASSUME Resend PROVE Goal
    <3>1. UNCHANGED clientVars
      BY <2>2 DEF Resend, vars
    <3> QED  BY <1>1, <3>1
  <2>3. ASSUME NEW s \in Server, NEW i \in 1 .. Len(toClient[s]), IgnoreAck(s, i)
        PROVE  Goal
    <3>1. UNCHANGED clientVars
      BY <2>3 DEF IgnoreAck
    <3> QED  BY <1>1, <3>1
  <2> QED
    BY <1>2, <1>5, <1>6, <1>7, <2>1, <2>2, <2>3 DEF ClientStep, ReadStep
<1> QED  BY <1>1, <1>7 DEF Next, Goal

\* A dead server stays dead.
LEMMA UpOnlyFalls ==
  ASSUME IInv, Dependable, Reliable, Next
  PROVE  \A s \in Server : up'[s] => up[s]
<1>0. up \in [Server -> BOOLEAN]
  BY Typing
<1>1. ASSUME NEW t \in Server, ServerStep(t)
      PROVE  UNCHANGED up \/ up' = [up EXCEPT ![t] = FALSE]
  <2>1. ASSUME NEW i \in 1 .. Len(toServer[t]), Handle(t, i) PROVE UNCHANGED up
    BY <2>1 DEF Handle, ProcInitMessage, ProcOpenFileMessage, ProcWriteBlockMessage,
       ProcVoteMessage, ProcCommitMessage, CommitOpenFails, CommitFlushFails,
       CommitDone, ProcAbortMessage, AbortWithoutBackup, RollbackRemoveFails,
       RollbackReopenFails, RollbackFlushFails, RollbackDone, RollsBack,
       ProcCloseMessage, CloseRefused, CloseDone, CloseFails, Receives
  <2> QED
    BY <1>1, <2>1 DEF ServerStep, ServerReads, DropClientPacket, Crash, CrashInCommit,
       BadFclose, Dies
<1>2. ASSUME ClientStep PROVE UNCHANGED up
  <2>1. ASSUME NEW s \in Server, NEW i \in 1 .. Len(toClient[s]),
               HandleAck(s, i) \/ IgnoreAck(s, i)
        PROVE  UNCHANGED up
    BY <2>1 DEF HandleAck, IgnoreAck, ProcInitAckMessage, ProcAckMessage,
       ProcCloseAckMessage, ProcVoteAckMessage, ReadsAck, Reads
  <2> QED
    BY <1>2, <2>1 DEF ClientStep, CallStep, ReadStep, InitReplFs, OpenFile, WriteBlock,
       Commit, Abort, CloseFile, StartCall, Resend, Timeout, ClientCrash
<1> QED  BY <1>0, <1>1, <1>2 DEF Next

\* The servers selected after a step, if they all run, are those selected
\* before it, all running, or belong to a client that has opened no file.
LEMMA HealthyBefore ==
  ASSUME IInv, Dependable, Reliable, Next, Healthy'
  PROVE  Healthy \/ (inDoubt' = {} /\ op' # "abort")
<1>1. CASE serverIds' = serverIds
  <2>1. \A s \in Server : up'[s] => up[s]
    BY UpOnlyFalls
  <2>2. serverIds \subseteq Server
    BY Typing
  <2> QED  BY <1>1, <2>1, <2>2 DEF Healthy, Replicas
<1>2. CASE serverIds' # serverIds
  <2>1. ClientStep
    BY <1>2 DEF Next, clientVars
  <2>2. ~ClientCrash
    BY NoCrash
  <2>3. CASE InitReplFs
    <3>1. clients = 0
      BY <2>3, Typing DEF InitReplFs, Dependable
    <3> QED  BY <2>3, <3>1 DEF InitReplFs, Enter, promiseVars, Reliable, Fresh
  <2>4. ASSUME NEW s \in Server, NEW i \in 1 .. Len(toClient[s]),
               ProcInitAckMessage(s, i)
        PROVE  inDoubt' = {} /\ op' # "abort"
    BY <2>4 DEF ProcInitAckMessage, ReadsAck, KeepWaiting, promiseVars, Reliable, Fresh
  <2>5. ASSUME NEW s \in Server, NEW i \in 1 .. Len(toClient[s]), HandleAck(s, i),
               ~ProcInitAckMessage(s, i)
        PROVE  FALSE
    BY <1>2, <2>5 DEF HandleAck, ProcAckMessage, ProcCloseAckMessage, ProcVoteAckMessage
  <2>6. ASSUME NEW s \in Server, NEW i \in 1 .. Len(toClient[s]), IgnoreAck(s, i)
        PROVE  FALSE
    BY <1>2, <2>6 DEF IgnoreAck, clientVars
  <2>7. ASSUME CallStep PROVE InitReplFs
    BY <1>2, <2>7 DEF CallStep, OpenFile, WriteBlock, Commit, Abort, CloseFile, StartCall
  <2>8. ~Resend /\ ~Timeout
    BY <1>2 DEF Resend, Timeout, clientVars
  <2> QED
    BY <2>1, <2>2, <2>3, <2>4, <2>5, <2>6, <2>7, <2>8 DEF ClientStep, ReadStep
<1> QED  BY <1>1, <1>2

\* As long as every selected server runs no commit fails: only the application
\* aborts.
THEOREM HealthyHolds == Dependable => (Spec => []HealthyNeverAborts)
<1> SUFFICES ASSUME Dependable PROVE Spec => []HealthyNeverAborts
  OBVIOUS
<1>1. Init => HealthyNeverAborts
  BY DEF Init, ClientInit, HealthyNeverAborts
<1>2. IInv /\ Reliable /\ HealthyNeverAborts /\ [Next]_vars => HealthyNeverAborts'
  <2> SUFFICES ASSUME IInv, Reliable, HealthyNeverAborts, [Next]_vars, Healthy'
               PROVE  inDoubt' = {} /\ (op' = "abort" => api' = "Abort")
    BY DEF HealthyNeverAborts, Healthy
  <2>1. CASE UNCHANGED vars
    BY <2>1 DEF vars, netVars, clientVars, callVars, promiseVars, HealthyNeverAborts,
       Healthy, Replicas
  <2>2. CASE Next
    <3>1. Healthy \/ (inDoubt' = {} /\ op' # "abort")
      BY <2>2, HealthyBefore
    <3>2. CASE Healthy
      <4>1. inDoubt = {} /\ (op = "abort" => api = "Abort")
        BY <3>2 DEF HealthyNeverAborts, Healthy
      <4> QED  BY <2>2, <3>2, <4>1, NoNewAbort
    <3> QED  BY <3>1, <3>2
  <2> QED  BY <2>1, <2>2
<1> QED  BY <1>1, <1>2, Invariance, ReliableAlways, PTL DEF Spec
=============================================================================
