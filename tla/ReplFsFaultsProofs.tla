------------------------- MODULE ReplFsFaultsProofs -------------------------
(***************************************************************************)
(* Proof of the invariant of ReplFsFaults: until the application is told   *)
(* of a failed commit, the only thing a failing disk can do is to leave    *)
(* the file being committed half-way on a server that will say so.         *)
(***************************************************************************)
EXTENDS ReplFsFaults, ReplFsReliableProofs

-----------------------------------------------------------------------------
(* Channels.                                                                *)

\* Without the two phases of a commit the order of answers is not needed.
LEMMA ReplyFaulty ==
  ASSUME IInv, NEW s \in Server, FaultyChannels(s), UNCHANGED clientVars,
         NEW ack \in ServerMsg, Pair(toServer[s][1].type, ack.type),
         Taken(toServer[s], toServer'[s]), Put(toClient[s], ack, toClient'[s]),
         op = "vote" /\ ack.type = "VOTEACK" => ack.updateId = updateId
  PROVE  FaultyChannels(s)'
<1>0. UNCHANGED <<op, updateId>>
  BY DEF clientVars, callVars, stagedVars
<1>1. op \in {"vote", "commit"} => InOrder(s)'
  BY ReplyInOrder DEF FaultyChannels
<1>2. NoOldVotes(s)'
  <2> SUFFICES ASSUME op \notin {"vote", "commit"} PROVE NoOldVotes(s)'
    BY <1>0 DEF NoOldVotes
  <2>1. \A k \in 1 .. Len(toServer'[s]) : toServer'[s][k].type # "VOTE"
    BY DEF FaultyChannels, NoOldVotes, Taken
  <2>2. ack.type # "VOTEACK"
    BY DEF FaultyChannels, NoOldVotes, Taken, Pair
  <2>3. \A k \in 1 .. Len(toClient'[s]) : toClient'[s][k].type # "VOTEACK"
    BY <2>2 DEF FaultyChannels, NoOldVotes, Put
  <2> QED  BY <2>1, <2>3 DEF NoOldVotes
<1>3. VotesForAll(s)'
  <2> SUFFICES ASSUME op = "vote", NEW k \in 1 .. Len(toClient'[s]),
                      toClient'[s][k].type = "VOTEACK"
               PROVE  toClient'[s][k].updateId = updateId
    BY <1>0 DEF VotesForAll
  <2>1. CASE k = Len(toClient[s]) + 1
    BY <2>1 DEF Put
  <2>2. CASE k \in 1 .. Len(toClient[s])
    BY <2>2 DEF Put, FaultyChannels, VotesForAll
  <2> QED  BY <2>1, <2>2 DEF Put
<1> QED  BY <1>0, <1>1, <1>2, <1>3 DEF FaultyChannels

\* The same when the server answers nothing.
LEMMA ConsumeFaulty ==
  ASSUME IInv, NEW s \in Server, FaultyChannels(s), UNCHANGED clientVars,
         Taken(toServer[s], toServer'[s]), UNCHANGED toClient
  PROVE  FaultyChannels(s)'
<1>0. UNCHANGED <<op, updateId>>
  BY DEF clientVars, callVars, stagedVars
<1>1. op \in {"vote", "commit"} => InOrder(s)'
  BY ConsumeInOrder DEF FaultyChannels
<1>2. NoOldVotes(s)' /\ VotesForAll(s)'
  BY <1>0 DEF FaultyChannels, NoOldVotes, VotesForAll, Taken
<1> QED  BY <1>0, <1>1, <1>2 DEF FaultyChannels

\* The channels of a server that takes no step.
LEMMA FaultyKept ==
  ASSUME NEW s, FaultyChannels(s), UNCHANGED clientVars,
         toServer'[s] = toServer[s], toClient'[s] = toClient[s]
  PROVE  FaultyChannels(s)'
<1>0. UNCHANGED <<op, updateId, recvServerId>>
  BY DEF clientVars, callVars, stagedVars
<1> QED  BY <1>0 DEF FaultyChannels, InOrder, NoOldVotes, VotesForAll, Settled, Only

\* What a server that dies leaves of its channels.
LEMMA FaultyOfTheDead ==
  ASSUME NEW s, FaultyChannels(s), UNCHANGED clientVars,
         toServer'[s] = <<>>, toClient'[s] = toClient[s]
  PROVE  FaultyChannels(s)'
<1>0. UNCHANGED <<op, updateId, recvServerId>>
  BY DEF clientVars, callVars, stagedVars
<1>1. \A T : Only(toServer'[s], T)
  BY DEF Only
<1>2. op \in {"vote", "commit"} => InOrder(s)'
  BY <1>0, <1>1 DEF FaultyChannels, InOrder, Settled, Only
<1>3. NoOldVotes(s)' /\ VotesForAll(s)'
  BY <1>0 DEF FaultyChannels, NoOldVotes, VotesForAll
<1> QED  BY <1>0, <1>2, <1>3 DEF FaultyChannels

-----------------------------------------------------------------------------
(* A replica whose commits have not failed.                                 *)

\* A server that takes no step.
LEMMA IntactKept ==
  ASSUME NEW s, Intact(s), UNCHANGED clientVars, Untouched(s)
  PROVE  Intact(s)'
<1>1. Updates(s)'
  BY UpdatesSaid DEF Intact, Untouched
<1>2. Named(s)'
  BY ClientSame DEF Intact, Named, NoneAfter, Untouched
<1>3. Voting(s)'
  BY ClientSame DEF Intact, Voting, Answered, Untouched
<1>4. Committing(s)'
  BY ClientSame DEF Intact, Committing, Answered, Only, CarriedOut, Cached, Untouched
<1>5. CommitsLeft(s)' /\ OnDisk(s)'
  BY ClientSame DEF Intact, CommitsLeft, OnDisk, CarriedOut, Cached, Untouched
<1> QED  BY <1>1, <1>2, <1>3, <1>4, <1>5 DEF Intact, Untouched

\* A packet that is not part of a commit phase, read by a handler that leaves
\* file and count alone.
LEMMA PassedIntact ==
  ASSUME IInv, NEW s \in Server, Intact(s), UNCHANGED clientVars,
         Taken(toServer[s], toServer'[s]),
         toServer[s][1].type \notin {"VOTE", "COMMIT", "ABORT"},
         Updates(s)', Named(s)',
         nextUpdateId'[s] = nextUpdateId[s], disk'[s] = disk[s],
         backup'[s] = backup[s],
         Answered(s, "VOTEACK")' => Answered(s, "VOTEACK")
  PROVE  Intact(s)'
<1>1. op # "commit" /\ op' = op
  <2>1. toServer[s][1].type \notin {"VOTE", "COMMIT"} /\ 1 \in 1 .. Len(toServer[s])
    BY DEF Taken
  <2> QED  BY <2>1, ClientSame DEF Intact, Committing, Only
<1>2. Voting(s)'
  BY ClientSame DEF Intact, Voting
<1>3. Committing(s)'
  BY <1>1 DEF Committing
<1>4. CommitsLeft(s)'
  BY CommitsPassed DEF Intact
<1>5. OnDisk(s)'
  BY ClientSame DEF Intact, OnDisk
<1> QED  BY <1>2, <1>3, <1>4, <1>5 DEF Intact

-----------------------------------------------------------------------------
(* The handlers.                                                            *)

\* A first error among the answers stays the first when more are sent.
LEMMA FailingStays ==
  ASSUME NEW s, Failing(s), UNCHANGED clientVars,
         \/ toClient'[s] = toClient[s]
         \/ \E ack : Put(toClient[s], ack, toClient'[s])
  PROVE  Failing(s)'
<1>0. recvServerId' = recvServerId
  BY ClientSame
<1>1. CASE toClient'[s] = toClient[s]
  BY <1>0, <1>1 DEF Failing
<1>2. CASE \E ack : Put(toClient[s], ack, toClient'[s])
  <2>1. PICK ack : Put(toClient[s], ack, toClient'[s])
    BY <1>2
  <2>2. PICK k \in 1 .. Len(toClient[s]) :
          /\ toClient[s][k].type = "COMMITACK" /\ toClient[s][k].fileDesc < 0
          /\ \A j \in 1 .. k - 1 : toClient[s][j].type # "COMMITACK"
    BY DEF Failing
  <2>3. k \in 1 .. Len(toClient'[s]) /\ toClient'[s][k] = toClient[s][k]
    BY <2>1 DEF Put
  <2>4. ASSUME NEW j \in 1 .. k - 1 PROVE toClient'[s][j].type # "COMMITACK"
    <3>1. j \in 1 .. Len(toClient[s])
      BY <2>1 DEF Put
    <3>2. toClient'[s][j] = toClient[s][j]
      BY <2>1, <3>1 DEF Put
    <3> QED  BY <2>2, <3>2
  <2>5. \E m \in 1 .. Len(toClient'[s]) :
          /\ toClient'[s][m].type = "COMMITACK" /\ toClient'[s][m].fileDesc < 0
          /\ \A j \in 1 .. m - 1 : toClient'[s][j].type # "COMMITACK"
    BY <2>2, <2>3, <2>4
  <2> QED  BY <1>0, <2>5 DEF Failing
<1> QED  BY <1>1, <1>2

\* procInitMessage.
LEMMA InitIntact ==
  ASSUME IInv, Prompt, NEW s \in Server, NEW i \in 1 .. Len(toServer[s]),
         FaultyChannels(s), ProcInitMessage(s, i), UNCHANGED clientVars
  PROVE  FaultyChannels(s)' /\ (Intact(s) => Intact(s)')
<1> DEFINE ack == Plain("INITACK")
<1>0. ack \in ServerMsg /\ ack.type = "INITACK"
  BY BuiltMessages DEF Plain
<1> HIDE DEF ack
<1>1. /\ toServer[s][1].type = "INIT"
      /\ Taken(toServer[s], toServer'[s]) /\ Put(toClient[s], ack, toClient'[s])
  BY <1>0, Replied DEF ProcInitMessage, ack, Prompt
<1>2. FaultyChannels(s)'
  BY <1>0, <1>1, ReplyFaulty DEF Pair
<1>3. ASSUME Intact(s) PROVE Intact(s)'
  <2>1. UNCHANGED <<fileFullname, updateMap, nextUpdateId, backup, fp, disk>>
    BY DEF ProcInitMessage, serverVars, memoryVars
  <2>2. Updates(s)'
    BY <1>1, <1>3, <2>1, UpdatesSaid, UpdatesPassed DEF Intact, Clears
  <2>3. Named(s)'
    BY <1>1, <1>3, <2>1, NamedPassed DEF Intact
  <2> QED  BY <1>0, <1>1, <1>3, <2>1, <2>2, <2>3, PassedIntact, AnsweredNow
<1> QED  BY <1>2, <1>3

\* procOpenFileMessage.
LEMMA OpenFileIntact ==
  ASSUME IInv, Prompt, NEW s \in Server, NEW i \in 1 .. Len(toServer[s]),
         FaultyChannels(s), ProcOpenFileMessage(s, i), UNCHANGED clientVars
  PROVE  FaultyChannels(s)' /\ (Intact(s) => Intact(s)')
<1> DEFINE ack == Ack("OPENFILEACK", 0)
<1>0. ack \in ServerMsg /\ ack.type = "OPENFILEACK"
  BY BuiltMessages DEF Ack
<1> HIDE DEF ack
<1>1. /\ i = 1 /\ toServer[s][1].type = "OPENFILE"
      /\ Taken(toServer[s], toServer'[s]) /\ Put(toClient[s], ack, toClient'[s])
  BY <1>0, Replied DEF ProcOpenFileMessage, ack, Prompt
<1>2. FaultyChannels(s)'
  BY <1>0, <1>1, ReplyFaulty DEF Pair
<1>3. ASSUME Intact(s) PROVE Intact(s)'
  <2>1. UNCHANGED <<updateMap, nextUpdateId, backup, fp, disk>>
        /\ fileFullname'[s] = toServer[s][1].filename
    BY <1>1, Typing DEF ProcOpenFileMessage
  <2>2. Updates(s)'
    BY <1>1, <1>3, <2>1, UpdatesSaid, UpdatesPassed DEF Intact, Clears
  <2>3. Named(s)'
    BY <1>1, <1>3, <2>1, NamedNow DEF Intact
  <2> QED  BY <1>0, <1>1, <1>3, <2>1, <2>2, <2>3, PassedIntact, AnsweredNow
<1> QED  BY <1>2, <1>3

\* procWriteBlockMessage.
LEMMA WriteBlockIntact ==
  ASSUME IInv, Prompt, NEW s \in Server, NEW i \in 1 .. Len(toServer[s]),
         FaultyChannels(s), ProcWriteBlockMessage(s, i), UNCHANGED clientVars
  PROVE  FaultyChannels(s)' /\ (Intact(s) => Intact(s)')
<1>1. /\ i = 1 /\ toServer[s][1].type = "WRITEBLOCK"
      /\ Taken(toServer[s], toServer'[s]) /\ UNCHANGED toClient
  BY Consumed DEF ProcWriteBlockMessage, Prompt
<1>2. FaultyChannels(s)'
  BY <1>1, ConsumeFaulty
<1>3. ASSUME Intact(s) PROVE Intact(s)'
  <2> DEFINE m == toServer[s][1]
  <2>1. UNCHANGED <<fileFullname, nextUpdateId, backup, fp, disk>>
    BY DEF ProcWriteBlockMessage
  <2>2. m.updateId \in UpdateId /\ m.update \in Update
    BY <1>1, ReceivedType, WriteBlockFields DEF IInv, ServerInv
  <2>3. updateMap[s] \in UpdateMap /\ updateMap \in [Server -> UpdateMap]
    BY Typing
  <2>4. updateMap'[s] = IF updateMap[s][m.updateId] = NoUpdate
                          THEN [updateMap[s] EXCEPT ![m.updateId] = m.update]
                          ELSE updateMap[s]
    BY <1>1, <2>3 DEF ProcWriteBlockMessage
  <2>5. UpdatesIn(toServer[s], updateMap[s])
    BY <1>3, UpdatesSaid DEF Intact
  <2>6. UpdatesIn(toServer'[s],
                  IF updateMap[s][m.updateId] = NoUpdate
                    THEN [updateMap[s] EXCEPT ![m.updateId] = m.update]
                    ELSE updateMap[s])
    BY <1>1, <2>2, <2>3, <2>5, UpdatesInserted
  <2>7. Updates(s)'
    BY <2>4, <2>6, UpdatesSaid
  <2>8. \A a : Answered(s, a)' => Answered(s, a)
    BY <1>1, ClientSame DEF Answered
  <2>9. Named(s)'
    BY <1>1, <1>3, <2>1, NamedPassed DEF Intact
  <2> QED  BY <1>1, <1>3, <2>1, <2>7, <2>8, <2>9, PassedIntact
<1> QED  BY <1>2, <1>3

\* procCloseMessage: whatever it answers, only the open file is touched.
LEMMA CloseIntact ==
  ASSUME IInv, Prompt, NEW s \in Server, NEW i \in 1 .. Len(toServer[s]),
         FaultyChannels(s), ProcCloseMessage(s, i), UNCHANGED clientVars
  PROVE  FaultyChannels(s)' /\ (Intact(s) => Intact(s)')
<1>a. PICK desc \in {-1, 0, 1} : Receives(s, i, "CLOSE") /\ Reply(s, i, Ack("CLOSEACK", desc))
  BY DEF ProcCloseMessage, CloseRefused, CloseDone, CloseFails
<1> DEFINE ack == Ack("CLOSEACK", desc)
<1>0. ack \in ServerMsg /\ ack.type = "CLOSEACK"
  BY <1>a, BuiltMessages DEF Ack
<1> HIDE DEF ack
<1>1. /\ i = 1 /\ toServer[s][1].type = "CLOSE"
      /\ Taken(toServer[s], toServer'[s]) /\ Put(toClient[s], ack, toClient'[s])
  BY <1>a, <1>0, Replied DEF ack, Prompt
<1>2. FaultyChannels(s)'
  BY <1>0, <1>1, ReplyFaulty DEF Pair
<1>3. ASSUME Intact(s) PROVE Intact(s)'
  <2>1. UNCHANGED <<fileFullname, updateMap, nextUpdateId, backup, disk>>
    BY DEF ProcCloseMessage, CloseRefused, CloseDone, CloseFails, serverVars, memoryVars
  <2>2. Updates(s)'
    BY <1>1, <1>3, <2>1, UpdatesSaid, UpdatesPassed DEF Intact, Clears
  <2>3. Named(s)'
    BY <1>1, <1>3, <2>1, NamedPassed DEF Intact
  <2> QED  BY <1>0, <1>1, <1>3, <2>1, <2>2, <2>3, PassedIntact, AnsweredNow
<1> QED  BY <1>2, <1>3

\* A server half-way through a failed commit stays so, whatever it reads of
\* the rest of the commit phase.
LEMMA HalfwayKept ==
  ASSUME NEW s, Halfway(s), UNCHANGED clientVars,
         toServer'[s] = toServer[s] \/ Taken(toServer[s], toServer'[s]),
         \/ toClient'[s] = toClient[s]
         \/ \E ack : Put(toClient[s], ack, toClient'[s]),
         fileFullname'[s] = fileFullname[s],
         \A f \in File : f # fileName => disk'[s][f] = disk[s][f]
  PROVE  Halfway(s)'
<1>1. Failing(s)'
  BY FailingStays DEF Halfway
<1>2. Only(toServer'[s], {"VOTE", "COMMIT"})
  BY TakenOnly DEF Halfway
<1> QED  BY <1>1, <1>2, ClientSame DEF Halfway

\* A Commit phase has no other packets under way than its own.
LEMMA HeadInCommit ==
  ASSUME NEW s, Intact(s) \/ Halfway(s), op = "commit", 1 \in 1 .. Len(toServer[s])
  PROVE  /\ toServer[s][1].type \in {"VOTE", "COMMIT"}
         /\ fileFullname[s] = fileName
BY DEF Intact, Halfway, Committing, Only

\* A vote read in the vote phase counts every staged update.
LEMMA VoteCountsStaged ==
  ASSUME IInv, NEW s \in Server, InOrder(s), Updates(s), op = "vote",
         toServer[s][1].type = "VOTE", 1 \in 1 .. Len(toServer[s]),
         NEW n \in nextUpdateId[s] .. MaxUpdates, ScanStopsAt(s, n)
  PROVE  n = updateId
<1>1. Only(toServer[s], {"VOTE", "CLOSE", "INIT", "OPENFILE"})
  <2>1. \A j \in 1 .. Len(toServer[s]) : toServer[s][j].type \in Follow(op)
    BY MsgTypes DEF InOrder
  <2>2. Follow(op) = {"VOTE"}
    BY MsgTypes DEF Follow
  <2> QED  BY <2>1, <2>2 DEF Only
<1> QED  BY <1>1, AllCached, AllCounted

\* procVoteMessage.
LEMMA VoteIntact ==
  ASSUME IInv, Prompt, NEW s \in Server, NEW i \in 1 .. Len(toServer[s]),
         FaultyChannels(s), Intact(s) \/ Halfway(s), ProcVoteMessage(s, i),
         UNCHANGED clientVars
  PROVE  FaultyChannels(s)' /\ (Intact(s)' \/ Halfway(s)')
<1>b. PICK n \in nextUpdateId[s] .. MaxUpdates :
        /\ Receives(s, i, "VOTE")
        /\ ScanStopsAt(s, n)
        /\ nextUpdateId' = [nextUpdateId EXCEPT ![s] = n]
        /\ Reply(s, i, VoteAckMessage(n))
        /\ UNCHANGED <<fileFullname, updateMap, backup, fp, disk>>
  BY DEF ProcVoteMessage
<1> DEFINE ack == VoteAckMessage(n)
<1>0. ack \in ServerMsg /\ ack.type = "VOTEACK" /\ ack.updateId = n
  <2>1. n \in 0 .. MaxUpdates
    BY Numbers
  <2> QED  BY <2>1, BuiltMessages DEF VoteAckMessage
<1>1. /\ i = 1 /\ toServer[s][1].type = "VOTE" /\ up[s]
      /\ Taken(toServer[s], toServer'[s]) /\ Put(toClient[s], ack, toClient'[s])
  BY <1>b, <1>0, Replied DEF Prompt
<1> HIDE DEF ack
<1>2. 1 \in 1 .. Len(toServer[s])
  BY <1>1 DEF Taken
<1>3. op = "vote" => n = updateId
  <2> SUFFICES ASSUME op = "vote" PROVE n = updateId
    OBVIOUS
  <2>1. InOrder(s) /\ Updates(s)
    BY DEF FaultyChannels, Intact, Halfway
  <2> QED  BY <1>b, <1>1, <1>2, <2>1, VoteCountsStaged
<1>4. FaultyChannels(s)'
  BY <1>0, <1>1, <1>3, ReplyFaulty DEF Pair
<1>5. nextUpdateId'[s] = n
      /\ UNCHANGED <<fileFullname, updateMap, backup, fp, disk>>
  BY <1>b, Typing
<1>6. CASE Halfway(s)
  <2>1. Halfway(s)'
    BY <1>1, <1>5, <1>6, HalfwayKept
  <2> QED  BY <1>4, <2>1
<1>7. CASE Intact(s)
  <2>1. Updates(s)'
    BY <1>1, <1>7, <1>5, UpdatesSaid, UpdatesPassed DEF Intact, Clears
  <2>2. Named(s)'
    BY <1>1, <1>7, <1>5, NamedPassed DEF Intact
  <2>3. Voting(s)'
    BY <1>3, <1>5, ClientSame DEF Voting
  <2>4. Committing(s)'
    <3> SUFFICES ASSUME op = "commit" PROVE Committing(s)'
      BY ClientSame DEF Committing
    <3>1. /\ fileFullname[s] = fileName
          /\ Only(toServer[s], {"VOTE", "COMMIT"})
          /\ updateMap[s] = clientUpdateMap /\ nextUpdateId[s] = updateId
          /\ ~Answered(s, "COMMITACK")
          /\ fileName \notin inDoubt => disk[s][fileName] = promised[fileName]
      BY <1>1, <1>2, <1>7 DEF Intact, Committing, Only
    <3>2. n = updateId
      BY <1>b, <3>1, AllCounted
    <3>3. Only(toServer'[s], {"VOTE", "COMMIT"})
      BY <1>1, <3>1, TakenOnly
    <3>4. ~Answered(s, "COMMITACK")'
      BY <1>0, <1>1, <3>1, AnsweredNow
    <3> QED  BY <1>5, <3>1, <3>2, <3>3, <3>4, ClientSame DEF Committing
  <2>5. CommitsLeft(s)'
    BY <1>1, <1>7, CommitsPassed DEF Intact
  <2>6. OnDisk(s)'
    BY <1>7, <1>5, ClientSame DEF Intact, OnDisk
  <2> QED  BY <1>4, <1>5, <1>7, <2>1, <2>2, <2>3, <2>4, <2>5, <2>6 DEF Intact
<1> QED  BY <1>6, <1>7

\* procAbortMessage finds no backup to restore.
LEMMA AbortIntact ==
  ASSUME IInv, Prompt, NEW s \in Server, NEW i \in 1 .. Len(toServer[s]),
         FaultyChannels(s), Intact(s) \/ Halfway(s), ProcAbortMessage(s, i),
         UNCHANGED clientVars
  PROVE  FaultyChannels(s)' /\ Intact(s)'
<1>a. Receives(s, i, "ABORT")
  BY DEF ProcAbortMessage, AbortWithoutBackup, RollsBack, RollbackRemoveFails,
         RollbackReopenFails, RollbackFlushFails, RollbackDone
<1>b. i = 1 /\ toServer[s][1].type = "ABORT" /\ 1 \in 1 .. Len(toServer[s])
  BY <1>a DEF Receives, Deliverable, Prompt
<1>c. op # "commit" /\ Intact(s) /\ backup[s] = NoFile
  BY <1>b, HeadInCommit DEF Halfway, Intact
<1>d. AbortWithoutBackup(s, i)
  BY <1>c DEF ProcAbortMessage, RollsBack, RollbackRemoveFails, RollbackReopenFails,
         RollbackFlushFails, RollbackDone
<1> DEFINE ack == Ack("ABORTACK", 0)
<1>0. ack \in ServerMsg /\ ack.type = "ABORTACK"
  BY BuiltMessages DEF Ack
<1> HIDE DEF ack
<1>1. Taken(toServer[s], toServer'[s]) /\ Put(toClient[s], ack, toClient'[s])
  BY <1>d, <1>0, Replied DEF AbortWithoutBackup, ack, Prompt
<1>2. FaultyChannels(s)'
  BY <1>b, <1>0, <1>1, ReplyFaulty DEF Pair
<1>3. /\ UNCHANGED <<fileFullname, backup, fp, disk>>
      /\ updateMap'[s] = NoUpdates /\ nextUpdateId'[s] = 0
  BY <1>d, Typing DEF AbortWithoutBackup, Reset
<1>5. Updates(s)'
  <2>1. UpdatesIn(toServer[s], updateMap[s])
    BY <1>c, UpdatesSaid DEF Intact
  <2>2. UpdatesIn(toServer'[s], NoUpdates)
    BY <1>b, <1>1, <2>1, UpdatesThrownOut DEF Clears
  <2> QED  BY <1>3, <2>2, UpdatesSaid
<1>6. Named(s)'
  BY <1>b, <1>1, <1>3, <1>c, NamedPassed DEF Intact
<1>7. Voting(s)'
  <2> SUFFICES ASSUME op = "vote", Answered(s, "VOTEACK") PROVE FALSE
    BY <1>0, <1>1, AnsweredNow, ClientSame DEF Voting
  <2>1. InOrder(s)
    BY DEF FaultyChannels
  <2>2. Only(toServer[s], Follow(op)) /\ Follow(op) = {"VOTE"}
    BY <2>1, AnsweredLast, AckTypes, MsgTypes DEF Follow
  <2> QED  BY <1>b, <2>2 DEF Only
<1>8. Committing(s)'
  BY <1>c, ClientSame DEF Committing
<1>9. CommitsLeft(s)'
  BY <1>b, <1>1, <1>c, CommitsPassed DEF Intact
<1>10. OnDisk(s)'
  BY <1>3, <1>c, ClientSame DEF Intact, OnDisk
<1> QED  BY <1>2, <1>3, <1>c, <1>5, <1>6, <1>7, <1>8, <1>9, <1>10 DEF Intact

-----------------------------------------------------------------------------
(* procCommitMessage.                                                       *)

\* Whatever becomes of it, it is answered, and no file is touched but the one
\* being committed.
LEMMA CommitTouches ==
  ASSUME IInv, Prompt, NEW s \in Server, NEW i \in 1 .. Len(toServer[s]),
         FaultyChannels(s), Intact(s) \/ Halfway(s), ProcCommitMessage(s, i),
         UNCHANGED clientVars
  PROVE  /\ FaultyChannels(s)'
         /\ toServer[s][1].type = "COMMIT" /\ 1 \in 1 .. Len(toServer[s])
         /\ Taken(toServer[s], toServer'[s])
         /\ UNCHANGED fileFullname
         /\ \A f \in File : disk'[s][f] # disk[s][f] => op = "commit" /\ f = fileName
<1>a. PICK desc \in {-1, 0, 1} : Receives(s, i, "COMMIT") /\ Reply(s, i, Ack("COMMITACK", desc))
  BY DEF ProcCommitMessage, CommitOpenFails, CommitFlushFails, CommitDone
<1> DEFINE ack == Ack("COMMITACK", desc)
<1>0. ack \in ServerMsg /\ ack.type = "COMMITACK"
  BY <1>a, BuiltMessages DEF Ack
<1> HIDE DEF ack
<1>1. /\ i = 1 /\ toServer[s][1].type = "COMMIT"
      /\ Taken(toServer[s], toServer'[s]) /\ Put(toClient[s], ack, toClient'[s])
  BY <1>a, <1>0, Replied DEF ack, Prompt
<1>2. FaultyChannels(s)'
  BY <1>0, <1>1, ReplyFaulty DEF Pair
<1>3. 1 \in 1 .. Len(toServer[s])
  BY <1>1 DEF Taken
<1>4. UNCHANGED fileFullname
  BY DEF ProcCommitMessage, CommitOpenFails, CommitFlushFails, CommitDone
<1>5. disk' = disk \/ \E n \in 0 .. nextUpdateId[s] :
                        disk' = [disk EXCEPT ![s] = Written(s, n)]
  BY Numbers DEF ProcCommitMessage, CommitOpenFails, CommitFlushFails, CommitDone
<1>6. ASSUME NEW f \in File, disk'[s][f] # disk[s][f]
      PROVE  op = "commit" /\ f = fileName
  <2>1. PICK n \in 0 .. nextUpdateId[s] : disk' = [disk EXCEPT ![s] = Written(s, n)]
    BY <1>5, <1>6
  <2>2. disk'[s] = Written(s, n)
    BY <2>1, Typing
  <2>3. CommitsLeft(s) /\ (op = "commit" => fileFullname[s] = fileName)
    BY DEF Intact, Halfway, Committing, CommitsLeft
  <2> QED  BY <1>1, <1>3, <1>6, <2>2, <2>3, CommitWrites
<1> QED  BY <1>1, <1>2, <1>3, <1>4, <1>6

\* What is in the channels of a server that reads a Commit.
LEMMA CommitBehindIntact ==
  ASSUME IInv, NEW s, FaultyChannels(s), Intact(s),
         1 \in 1 .. Len(toServer[s]), toServer[s][1].type = "COMMIT"
  PROVE  /\ op = "commit" => Only(toServer[s], {"COMMIT"})
         /\ op = "vote" => ~Answered(s, "VOTEACK")
<1>1. ASSUME op = "commit"
      PROVE  Only(toServer[s], {"COMMIT"})
  <2>1. \A j \in 1 .. Len(toServer[s]) : toServer[s][j].type \in Follow(op)
    BY <1>1, MsgTypes DEF FaultyChannels, InOrder
  <2>2. Follow(op) = {"COMMIT"}
    BY <1>1, MsgTypes DEF Follow
  <2> QED  BY <2>1, <2>2 DEF Only
<1>2. ASSUME op = "vote", Answered(s, "VOTEACK")
      PROVE  FALSE
  <2>1. Only(toServer[s], Follow(op))
    BY <1>2, AnsweredLast, AckTypes DEF FaultyChannels
  <2>2. "COMMIT" \in Follow(op)
    BY <2>1 DEF Only
  <2> QED  BY <1>2, <2>2, MsgTypes DEF Follow
<1> QED  BY <1>1, <1>2

\* A Commit that succeeds writes all the updates there are, or nothing.
LEMMA CommitDoneIntact ==
  ASSUME IInv, Prompt, NEW s \in Server, NEW i \in 1 .. Len(toServer[s]),
         FaultyChannels(s), Intact(s), CommitDone(s, i), UNCHANGED clientVars
  PROVE  Intact(s)'
<1>b. /\ toServer[s][1].type = "COMMIT" /\ 1 \in 1 .. Len(toServer[s])
      /\ Taken(toServer[s], toServer'[s])
  BY CommitTouches DEF ProcCommitMessage
<1>c. nextUpdateId[s] \in 0 .. nextUpdateId[s]
  BY Numbers
<1> DEFINE ack == Ack("COMMITACK", 0)
           n == nextUpdateId[s]
<1>0. ack \in ServerMsg /\ ack.type = "COMMITACK"
  BY BuiltMessages DEF Ack
<1> HIDE DEF ack, n
<1>1. Put(toClient[s], ack, toClient'[s])
  BY <1>0, Replied DEF CommitDone, ack, Prompt
<1>3. /\ disk'[s] = Written(s, n)
      /\ updateMap'[s] = NoUpdates /\ nextUpdateId'[s] = 0
      /\ fileFullname' = fileFullname /\ backup'[s] = NoFile
  BY Typing DEF CommitDone, ResetBackup, Reset, n
<1>4. /\ fileFullname[s] \in File
      /\ op # "commit" => CarriedOut(s)
      /\ Written(s, n)[fileFullname[s]] =
           Apply(Opened(disk[s][fileFullname[s]]), updateMap[s], n)
      /\ Written(s, n)[fileFullname[s]] # Absent
      /\ CarriedOut(s) => Written(s, n) = disk[s]
      /\ \A f \in File : Written(s, n)[f] # disk[s][f] =>
           op = "commit" /\ f = fileName
  BY <1>b, <1>c, CommitWrites DEF n, Intact, Committing
<1>5. Cached(NoUpdates) = {}
  BY NoUpdatesFacts
<1>6. Updates(s)'
  <2>1. UpdatesIn(toServer[s], updateMap[s])
    BY UpdatesSaid DEF Intact
  <2>2. UpdatesIn(toServer'[s], NoUpdates)
    BY <1>b, <2>1, UpdatesThrownOut DEF Clears
  <2> QED  BY <1>3, <2>2, UpdatesSaid
<1>7. Named(s)'
  BY <1>b, <1>3, NamedPassed DEF Intact
<1>8. /\ op = "commit" => Only(toServer[s], {"COMMIT"})
      /\ op = "vote" => ~Answered(s, "VOTEACK")
  BY <1>b, CommitBehindIntact
<1>9. Voting(s)'
  BY <1>0, <1>1, <1>8, AnsweredNow, ClientSame DEF Voting
<1>11. CarriedOut(s)'
  BY <1>3, <1>4, <1>5 DEF CarriedOut, Cached
<1>12. Committing(s)'
  <2> SUFFICES ASSUME op = "commit" PROVE Committing(s)'
    BY ClientSame DEF Committing
  <2>1. fileFullname[s] = fileName
    BY DEF Intact, Committing
  <2>2. Only(toServer'[s], {"COMMIT"})
    BY <1>b, <1>8, TakenOnly
  <2>3. ASSUME fileName \notin inDoubt PROVE disk'[s][fileName] = After
    <3>1. CASE /\ updateMap[s] = clientUpdateMap /\ n = updateId
               /\ disk[s][fileName] = promised[fileName]
      BY <1>3, <1>4, <2>1, <3>1 DEF After
    <3>2. CASE CarriedOut(s) /\ disk[s][fileName] = After
      BY <1>3, <1>4, <3>2
    <3> QED  BY <2>3, <3>1, <3>2 DEF Intact, Committing, n
  <2>4. Only(toServer'[s], {"VOTE", "COMMIT"})
    BY <2>2 DEF Only
  <2> QED  BY <1>3, <1>11, <2>1, <2>2, <2>3, <2>4, ClientSame DEF Committing
<1>13. CommitsLeft(s)'
  <2> SUFFICES ASSUME op # "commit", NEW k \in 1 .. Len(toServer'[s]),
                      toServer'[s][k].type = "COMMIT",
                      NEW j \in 1 .. k
               PROVE  toServer'[s][j].type = "COMMIT"
    BY <1>11, ClientSame DEF CommitsLeft
  <2>1. /\ k + 1 \in 1 .. Len(toServer[s]) /\ j + 1 \in 1 .. k + 1
        /\ toServer'[s][k] = toServer[s][k + 1]
        /\ toServer'[s][j] = toServer[s][j + 1]
    BY <1>b DEF Taken
  <2> QED  BY <2>1 DEF Intact, CommitsLeft
<1>14. OnDisk(s)'
  <2> SUFFICES ASSUME NEW f \in File \ inDoubt
               PROVE  \/ disk'[s][f] = promised[f]
                      \/ op = "commit" /\ f = fileName /\ disk'[s][f] = After
    BY ClientSame DEF OnDisk
  <2>1. CASE op = "commit" /\ f = fileName
    BY <1>12, <2>1, ClientSame, <1>3, <1>0, <1>1 DEF Committing, Put, Answered
  <2>2. CASE ~(op = "commit" /\ f = fileName)
    <3>1. disk'[s][f] = disk[s][f]
      BY <1>3, <1>4, <2>2
    <3> QED  BY <2>2, <3>1 DEF Intact, OnDisk
  <2> QED  BY <2>1, <2>2
<1> QED  BY <1>3, <1>6, <1>7, <1>9, <1>12, <1>13, <1>14 DEF Intact

\* A Commit that fails where there is nothing left to write does no harm.
LEMMA CommitFailsCarriedOut ==
  ASSUME IInv, Prompt, NEW s \in Server, NEW i \in 1 .. Len(toServer[s]),
         FaultyChannels(s), Intact(s), CarriedOut(s),
         CommitOpenFails(s, i) \/ CommitFlushFails(s, i), UNCHANGED clientVars
  PROVE  Intact(s)'
<1>a. CommitOpenFails(s, i)
  BY DEF CommitFlushFails, CarriedOut
<1>b. /\ toServer[s][1].type = "COMMIT" /\ 1 \in 1 .. Len(toServer[s])
      /\ Taken(toServer[s], toServer'[s])
  BY CommitTouches DEF ProcCommitMessage
<1> DEFINE ack == Ack("COMMITACK", -1)
<1>0. ack \in ServerMsg /\ ack.type = "COMMITACK"
  BY BuiltMessages DEF Ack
<1> HIDE DEF ack
<1>1. Put(toClient[s], ack, toClient'[s])
  BY <1>a, <1>0, Replied DEF CommitOpenFails, ack, Prompt
<1>3. UNCHANGED <<fileFullname, updateMap, nextUpdateId, backup, disk>>
  BY <1>a DEF CommitOpenFails
<1>5. Cached(NoUpdates) = {} /\ Cached(updateMap[s]) = {}
  BY NoUpdatesFacts DEF CarriedOut
<1>6. Updates(s)'
  <2>1. UpdatesIn(toServer[s], updateMap[s])
    BY UpdatesSaid DEF Intact
  <2>2. UpdatesIn(toServer'[s], NoUpdates)
    BY <1>b, <2>1, UpdatesThrownOut DEF Clears
  <2>3. UpdatesIn(toServer'[s], updateMap[s])
    BY <1>5, <2>2 DEF UpdatesIn
  <2> QED  BY <1>3, <2>3, UpdatesSaid
<1>7. Named(s)'
  BY <1>b, <1>3, NamedPassed DEF Intact
<1>8. /\ op = "commit" => Only(toServer[s], {"COMMIT"})
      /\ op = "vote" => ~Answered(s, "VOTEACK")
  BY <1>b, CommitBehindIntact
<1>9. Voting(s)'
  BY <1>0, <1>1, <1>8, AnsweredNow, ClientSame DEF Voting
<1>11. CarriedOut(s)'
  BY <1>3 DEF CarriedOut, Cached
<1>12. Committing(s)'
  <2> SUFFICES ASSUME op = "commit" PROVE Committing(s)'
    BY ClientSame DEF Committing
  <2>1. Only(toServer'[s], {"COMMIT"})
    BY <1>b, <1>8, TakenOnly
  <2>2. Only(toServer'[s], {"VOTE", "COMMIT"})
    BY <2>1 DEF Only
  <2>3. /\ fileFullname[s] = fileName
        /\ fileName \notin inDoubt => disk[s][fileName] \in {promised[fileName], After}
    BY DEF Intact, Committing
  <2>4. fileName \notin inDoubt => disk[s][fileName] = After
    <3> SUFFICES ASSUME fileName \notin inDoubt PROVE disk[s][fileName] = After
      OBVIOUS
    <3>1. CASE /\ updateMap[s] = clientUpdateMap /\ nextUpdateId[s] = updateId
               /\ disk[s][fileName] = promised[fileName]
      <4>1. updateId = 0 /\ disk[s][fileName] # Absent /\ fileName \in File
        BY <2>3, <3>1 DEF CarriedOut
      <4>2. disk[s][fileName] \in Content
        BY <4>1, Typing
      <4>3. Apply(disk[s][fileName], clientUpdateMap, 0) = disk[s][fileName]
        BY <4>2, NothingWritten
      <4>4. After = Apply(Opened(disk[s][fileName]), clientUpdateMap, 0)
        BY <3>1, <4>1 DEF After
      <4>5. Opened(disk[s][fileName]) = disk[s][fileName]
        BY <4>1 DEF Opened
      <4> QED  BY <4>3, <4>4, <4>5
    <3>2. CASE disk[s][fileName] = After
      BY <3>2
    <3> QED  BY <3>1, <3>2 DEF Intact, Committing
  <2> QED  BY <1>3, <1>11, <2>1, <2>2, <2>3, <2>4, ClientSame DEF Committing
<1>13. CommitsLeft(s)'
  <2> SUFFICES ASSUME op # "commit", NEW k \in 1 .. Len(toServer'[s]),
                      toServer'[s][k].type = "COMMIT",
                      NEW j \in 1 .. k
               PROVE  toServer'[s][j].type = "COMMIT"
    BY <1>11, ClientSame DEF CommitsLeft
  <2>a. /\ Len(toServer[s]) \in Nat
        /\ Len(toServer'[s]) = Len(toServer[s]) - 1
        /\ \A m \in 1 .. Len(toServer'[s]) : toServer'[s][m] = toServer[s][m + 1]
    BY <1>b DEF Taken
  <2>b. j \in 1 .. Len(toServer'[s])
    BY <2>a
  <2>1. /\ k + 1 \in 1 .. Len(toServer[s]) /\ j + 1 \in 1 .. k + 1
        /\ toServer'[s][k] = toServer[s][k + 1]
        /\ toServer'[s][j] = toServer[s][j + 1]
    BY <2>a, <2>b
  <2> QED  BY <2>1 DEF Intact, CommitsLeft
<1>14. OnDisk(s)'
  BY <1>3, ClientSame DEF Intact, OnDisk
<1> QED  BY <1>3, <1>6, <1>7, <1>9, <1>12, <1>13, <1>14 DEF Intact

\* A Commit that fails where there is something to write leaves the server
\* half-way, with the error as its first answer.
LEMMA CommitFailsPrepared ==
  ASSUME IInv, Prompt, NEW s \in Server, NEW i \in 1 .. Len(toServer[s]),
         FaultyChannels(s), Intact(s), ~CarriedOut(s), inDoubt = {},
         CommitOpenFails(s, i) \/ CommitFlushFails(s, i), UNCHANGED clientVars
  PROVE  Halfway(s)'
<1>b. /\ toServer[s][1].type = "COMMIT" /\ 1 \in 1 .. Len(toServer[s])
      /\ Taken(toServer[s], toServer'[s]) /\ UNCHANGED fileFullname
      /\ \A f \in File : disk'[s][f] # disk[s][f] => op = "commit" /\ f = fileName
  BY CommitTouches DEF ProcCommitMessage
<1>c. op = "commit"
  <2>1. 1 \in 1 .. 1 /\ 1 \in 1 .. Len(toServer[s])
    BY <1>b
  <2> QED  BY <1>b, <2>1 DEF Intact, CommitsLeft
<1>d. /\ fileFullname[s] = fileName /\ Only(toServer[s], {"VOTE", "COMMIT"})
      /\ ~Answered(s, "COMMITACK")
  BY <1>c DEF Intact, Committing
<1> DEFINE ack == Ack("COMMITACK", -1)
<1>0. ack \in ServerMsg /\ ack.type = "COMMITACK" /\ ack.fileDesc = -1
  BY BuiltMessages DEF Ack
<1>1. Put(toClient[s], ack, toClient'[s])
  BY <1>0, Replied DEF CommitOpenFails, CommitFlushFails, Prompt
<1> HIDE DEF ack
<1>2. Failing(s)'
  <2> DEFINE k == Len(toClient[s]) + 1
  <2>1. /\ k \in 1 .. Len(toClient'[s]) /\ toClient'[s][k] = ack
        /\ \A j \in 1 .. k - 1 : toClient'[s][j] = toClient[s][j]
                                 /\ j \in 1 .. Len(toClient[s])
    BY <1>1 DEF Put
  <2>2. \A j \in 1 .. k - 1 : toClient'[s][j].type # "COMMITACK"
    BY <1>d, <2>1 DEF Answered
  <2>3. toClient'[s][k].type = "COMMITACK" /\ toClient'[s][k].fileDesc < 0
    BY <1>0, <2>1
  <2>4. s \notin recvServerId'
    BY <1>d, ClientSame DEF Answered
  <2> HIDE DEF k
  <2> QED  BY <2>1, <2>2, <2>3, <2>4 DEF Failing
<1>3. Only(toServer'[s], {"VOTE", "COMMIT"})
  BY <1>b, <1>d, TakenOnly
<1>4. ASSUME NEW f \in File, f # fileName PROVE disk'[s][f] = promised[f]
  BY <1>b, <1>4 DEF Intact, OnDisk
<1> QED  BY <1>b, <1>c, <1>d, <1>2, <1>3, <1>4, ClientSame DEF Halfway

\* procCommitMessage.
LEMMA CommitIntact ==
  ASSUME IInv, Prompt, inDoubt = {}, NEW s \in Server,
         NEW i \in 1 .. Len(toServer[s]),
         FaultyChannels(s), Intact(s) \/ Halfway(s), ProcCommitMessage(s, i),
         UNCHANGED clientVars
  PROVE  FaultyChannels(s)' /\ (Intact(s)' \/ Halfway(s)')
<1>1. /\ FaultyChannels(s)'
      /\ Taken(toServer[s], toServer'[s]) /\ UNCHANGED fileFullname
      /\ \A f \in File : disk'[s][f] # disk[s][f] => op = "commit" /\ f = fileName
  BY CommitTouches
<1>2. CASE Halfway(s)
  <2>1. PICK desc \in {-1, 0, 1} :
          Receives(s, i, "COMMIT") /\ Reply(s, i, Ack("COMMITACK", desc))
    BY DEF ProcCommitMessage, CommitOpenFails, CommitFlushFails, CommitDone
  <2>2. Ack("COMMITACK", desc) \in ServerMsg
    BY <2>1, BuiltMessages DEF Ack
  <2>3. Put(toClient[s], Ack("COMMITACK", desc), toClient'[s])
    BY <2>1, <2>2, Replied DEF Prompt
  <2>4. Halfway(s)'
    BY <1>1, <1>2, <2>3, HalfwayKept
  <2> QED  BY <1>1, <2>4
<1>3. CASE Intact(s)
  BY <1>1, <1>3, CommitDoneIntact, CommitFailsCarriedOut, CommitFailsPrepared
     DEF ProcCommitMessage
<1> QED  BY <1>2, <1>3

-----------------------------------------------------------------------------
(* Every step of a server.                                                  *)

\* What Untold says until the application is told of a failed commit.
Unhurt ==
  /\ FaultyBooks
  /\ Fresh
  /\ \A s \in serverIds : FaultyChannels(s)
  /\ \A s \in Replicas : Intact(s) \/ Halfway(s)

\* Whatever packet a selected server reads.
LEMMA HandleIntact ==
  ASSUME IInv, Prompt, inDoubt = {}, Unhurt, NEW s \in serverIds,
         NEW i \in 1 .. Len(toServer[s]), Handle(s, i), UNCHANGED clientVars
  PROVE  FaultyChannels(s)' /\ up[s] /\ (Intact(s)' \/ Halfway(s)')
<1>a. s \in Server
  BY Typing
<1>b. /\ up[s] /\ 1 \in 1 .. Len(toServer[s])
      /\ \E type : Receives(s, i, type) /\ toServer[s][1].type = type
  <2>1. \E type : Receives(s, i, type)
    BY DEF Handle, ProcInitMessage, ProcOpenFileMessage, ProcWriteBlockMessage,
       ProcVoteMessage, ProcCommitMessage, CommitOpenFails, CommitFlushFails,
       CommitDone, ProcAbortMessage, AbortWithoutBackup, RollbackRemoveFails,
       RollbackReopenFails, RollbackFlushFails, RollbackDone, RollsBack,
       ProcCloseMessage, CloseRefused, CloseDone, CloseFails
  <2>2. PICK type : Receives(s, i, type)
    BY <2>1
  <2>3. i = 1 /\ toServer[s][1].type = type /\ up[s]
    BY <2>2 DEF Receives, Deliverable, Prompt
  <2> QED  BY <2>2, <2>3
<1>c. FaultyChannels(s) /\ (Intact(s) \/ Halfway(s))
  BY <1>b DEF Unhurt, Replicas
<1>d. ASSUME ProcInitMessage(s, i) \/ ProcOpenFileMessage(s, i)
               \/ ProcWriteBlockMessage(s, i) \/ ProcCloseMessage(s, i)
      PROVE  Intact(s)
  <2>1. PICK type \in {"INIT", "OPENFILE", "WRITEBLOCK", "CLOSE"} : Receives(s, i, type)
    BY <1>d DEF ProcInitMessage, ProcOpenFileMessage, ProcWriteBlockMessage,
       ProcCloseMessage, CloseRefused, CloseDone, CloseFails
  <2>2. toServer[s][1].type = type
    BY <2>1 DEF Receives, Deliverable, Prompt
  <2>3. op # "commit"
    BY <1>b, <1>c, <2>2, HeadInCommit
  <2> QED  BY <1>c, <2>3 DEF Halfway
<1>1. CASE ProcInitMessage(s, i)
  BY <1>1, <1>a, <1>b, <1>c, <1>d, InitIntact
<1>2. CASE ProcOpenFileMessage(s, i)
  BY <1>2, <1>a, <1>b, <1>c, <1>d, OpenFileIntact
<1>3. CASE ProcWriteBlockMessage(s, i)
  BY <1>3, <1>a, <1>b, <1>c, <1>d, WriteBlockIntact
<1>4. CASE ProcVoteMessage(s, i)
  BY <1>4, <1>a, <1>b, <1>c, VoteIntact
<1>5. CASE ProcCommitMessage(s, i)
  BY <1>5, <1>a, <1>b, <1>c, CommitIntact
<1>6. CASE ProcAbortMessage(s, i)
  BY <1>6, <1>a, <1>b, <1>c, AbortIntact
<1>7. CASE ProcCloseMessage(s, i)
  BY <1>7, <1>a, <1>b, <1>c, <1>d, CloseIntact
<1> QED  BY <1>1, <1>2, <1>3, <1>4, <1>5, <1>6, <1>7 DEF Handle

\* A replica that takes no step.
LEMMA ReplicaUntouched ==
  ASSUME NEW t, Intact(t) \/ Halfway(t), UNCHANGED clientVars, Untouched(t)
  PROVE  Intact(t)' \/ Halfway(t)'
BY IntactKept, HalfwayKept DEF Untouched

\* Every server, before one is selected.
LEMMA HandlePristine ==
  ASSUME IInv, Prompt, Unhurt, NEW s \in Server,
         NEW i \in 1 .. Len(toServer[s]), Handle(s, i), UNCHANGED clientVars,
         clients = 0 \/ op = "init"
  PROVE  \A t \in Server : Pristine(t)' /\ backup'[t] = NoFile
<1>1. \A t \in Server : Pristine(t) /\ backup[t] = NoFile
  BY DEF Unhurt, Fresh, FaultyBooks
<1>2. \A t \in Server : t # s => Untouched(t)
  BY HandleTouches
<1>3. ASSUME NEW t \in Server PROVE Pristine(t)' /\ backup'[t] = NoFile
  <2>1. CASE t = s
    <3>1. ProcInitMessage(s, i) /\ Pristine(s)'
      BY <1>1, PristineKept DEF Prompt
    <3>2. backup' = backup
      BY <3>1 DEF ProcInitMessage, serverVars, memoryVars
    <3> QED  BY <1>1, <2>1, <3>1, <3>2
  <2>2. CASE t # s
    BY <1>1, <1>2, <2>2 DEF Pristine, Untouched, Only, Cached
  <2> QED  BY <2>1, <2>2
<1> QED  BY <1>3

\* A handler keeps the invariant.
LEMMA HandleUnhurt ==
  ASSUME IInv, Prompt, inDoubt = {}, Unhurt, NEW s \in Server,
         NEW i \in 1 .. Len(toServer[s]), Handle(s, i), UNCHANGED clientVars
  PROVE  Unhurt'
<1>0. /\ \A t \in Server : t # s => Untouched(t)
      /\ serverIds' = serverIds /\ serverIds \subseteq Server
  BY HandleTouches, ClientSame, Typing
<1>u. UNCHANGED up
  BY DEF Handle, ProcInitMessage, ProcOpenFileMessage, ProcWriteBlockMessage,
     ProcVoteMessage, ProcCommitMessage, CommitOpenFails, CommitFlushFails,
     CommitDone, ProcAbortMessage, AbortWithoutBackup, RollbackRemoveFails,
     RollbackReopenFails, RollbackFlushFails, RollbackDone, RollsBack,
     ProcCloseMessage, CloseRefused, CloseDone, CloseFails, Receives
<1>1. \A t \in serverIds : FaultyChannels(t)'
  BY <1>0, HandleIntact, FaultyKept DEF Unhurt, Untouched
<1>2. ASSUME NEW t \in Replicas' PROVE Intact(t)' \/ Halfway(t)'
  <2>1. t \in Replicas /\ t \in serverIds
    BY <1>0, <1>u, <1>2 DEF Replicas
  <2>2. CASE t = s
    BY <2>1, <2>2, HandleIntact
  <2>3. CASE t # s
    BY <1>0, <2>1, <2>3, ReplicaUntouched DEF Unhurt
  <2> QED  BY <2>2, <2>3
<1>3. clients = 0 \/ op = "init" => \A t \in Server : Pristine(t)' /\ backup'[t] = NoFile
  BY HandlePristine
<1>4. FaultyBooks'
  <2>1. UNCHANGED <<op, recvServerId, closeRecvServerId, serverIds,
                    recvServerUpdateId, updateId, clients>>
    BY DEF clientVars, callVars, stagedVars, bookVars
  <2> QED  BY <1>3, <2>1 DEF Unhurt, FaultyBooks, IsFull
<1>5. Fresh'
  BY <1>3, ClientSame DEF Unhurt, Fresh
<1> QED  BY <1>0, <1>1, <1>2, <1>4, <1>5 DEF Unhurt

\* The end of a server keeps it: what the server wrote of a commit before it
\* was killed is lost with it.
LEMMA DeathUnhurt ==
  ASSUME IInv, Prompt, Unhurt, NEW s \in Server, UNCHANGED clientVars,
         Crash(s) \/ CrashInCommit(s) \/ BadFclose(s)
  PROVE  Unhurt'
<1>0. /\ Dies(s) /\ up[s]
      /\ \/ disk' = disk
         \/ /\ 1 \in 1 .. Len(toServer[s]) /\ toServer[s][1].type = "COMMIT"
            /\ \E n \in 0 .. nextUpdateId[s] :
                 disk' = [disk EXCEPT ![s] = Written(s, n)]
  <2>1. \A i \in Deliverable(toServer[s]) : i = 1 /\ 1 \in 1 .. Len(toServer[s])
    BY DEF Deliverable, Prompt
  <2> QED  BY <2>1, Deaths DEF Dies
<1>1. /\ up' = [up EXCEPT ![s] = FALSE]
      /\ toServer'[s] = <<>> /\ UNCHANGED toClient
      /\ fileFullname'[s] = NoFile /\ updateMap'[s] = NoUpdates
      /\ fp'[s] = NoFile /\ backup'[s] = NoFile
      /\ \A t \in Server : t # s => Untouched(t)
  BY <1>0, DeathTouches
<1>2. serverIds' = serverIds /\ serverIds \subseteq Server
  BY ClientSame, Typing
<1>3. \A t \in serverIds : FaultyChannels(t)'
  BY <1>1, <1>2, FaultyKept, FaultyOfTheDead DEF Unhurt, Untouched
<1>4. ASSUME NEW t \in Replicas' PROVE Intact(t)' \/ Halfway(t)'
  <2>1. t \in Replicas /\ t # s /\ t \in Server
    BY <1>1, <1>2, <1>4, Typing DEF Replicas
  <2> QED  BY <1>1, <2>1, ReplicaUntouched DEF Unhurt
<1>5. FaultyBooks'
  <2>1. UNCHANGED <<op, recvServerId, closeRecvServerId, serverIds,
                    recvServerUpdateId, updateId, clients>>
    BY DEF clientVars, callVars, stagedVars, bookVars
  <2>2. ASSUME clients = 0 \/ op = "init", NEW t \in Server PROVE backup'[t] = NoFile
    BY <1>1, <2>2 DEF Unhurt, FaultyBooks, Untouched
  <2> QED  BY <2>1, <2>2 DEF Unhurt, FaultyBooks, IsFull
<1>6. Fresh'
  <2> SUFFICES ASSUME clients = 0 \/ op = "init" PROVE Fresh'
    BY ClientSame DEF Fresh
  <2>1. \A t \in Server : Pristine(t)
    BY DEF Unhurt, Fresh
  <2>2. disk' = disk
    BY <1>0, <2>1 DEF Pristine, Only
  <2>3. Pristine(s)'
    BY <1>1, <2>1, <2>2, NoUpdatesFacts DEF Pristine, Only, Cached
  <2>4. \A t \in Server : Pristine(t)'
    BY <1>1, <2>1, <2>3 DEF Pristine, Untouched, Only, Cached
  <2> QED  BY <2>4, ClientSame DEF Unhurt, Fresh
<1> QED  BY <1>2, <1>3, <1>4, <1>5, <1>6 DEF Unhurt

\* Every step of a server keeps the invariant.
LEMMA ServerUnhurt ==
  ASSUME IInv, Prompt, inDoubt = {}, Unhurt, NEW s \in Server, ServerStep(s),
         UNCHANGED clientVars
  PROVE  Unhurt'
<1>1. CASE ServerReads(s)
  <2>1. PICK i \in 1 .. Len(toServer[s]) : Handle(s, i)
    BY <1>1 DEF ServerReads, DropClientPacket, Prompt
  <2> QED  BY <2>1, HandleUnhurt
<1>2. CASE Crash(s) \/ CrashInCommit(s) \/ BadFclose(s)
  BY <1>2, DeathUnhurt
<1> QED  BY <1>1, <1>2 DEF ServerStep

-----------------------------------------------------------------------------
(* The channels, and a step of the client.                                  *)

\* Waiting: an answer is read, and counted if it is one to the operation.
LEMMA WaitFaulty ==
  ASSUME NEW t, FaultyChannels(t), op # "idle", UNCHANGED <<op, updateId>>,
         toServer'[t] = toServer[t], Left(t),
         t \in recvServerId' =>
           \/ t \in recvServerId
           \/ 1 \in 1 .. Len(toClient[t]) /\ toClient[t][1].type = AckType[op]
  PROVE  FaultyChannels(t)'
<1>1. ASSUME op \in {"vote", "commit"} PROVE InOrder(t)'
  <2>0. InOrder(t)
    BY <1>1 DEF FaultyChannels
  <2>1. t \in recvServerId' => Settled(t, op)
    <3>1. ASSUME 1 \in 1 .. Len(toClient[t]), toClient[t][1].type = AckType[op]
          PROVE  Settled(t, op)
      BY <2>0, <3>1 DEF InOrder, Settled, Only
    <3> QED  BY <2>0, <3>1 DEF InOrder
  <2>2. Settled(t, op) => Settled(t, op)'
    BY LeftAnswers DEF Settled, Only, Follow
  <2>3. ASSUME NEW k \in 1 .. Len(toClient'[t]), toClient'[t][k].type = AckType[op]
        PROVE  /\ \A j \in k .. Len(toClient'[t]) : toClient'[t][j].type = AckType[op]
               /\ Only(toServer'[t], Follow(op))
    <3>1. CASE toClient'[t] = toClient[t]
      BY <2>0, <2>3, <3>1 DEF InOrder
    <3>2. CASE Taken(toClient[t], toClient'[t])
      <4>1. k + 1 \in 1 .. Len(toClient[t])
            /\ toClient[t][k + 1].type = AckType[op]
        BY <2>3, <3>2 DEF Taken
      <4>2. (\A j \in k + 1 .. Len(toClient[t]) : toClient[t][j].type = AckType[op])
            /\ Only(toServer[t], Follow(op))
        BY <2>0, <4>1 DEF InOrder
      <4>3. \A j \in k .. Len(toClient'[t]) :
              j + 1 \in k + 1 .. Len(toClient[t])
              /\ toClient'[t][j] = toClient[t][j + 1]
        BY <3>2 DEF Taken
      <4> QED  BY <4>2, <4>3
    <3> QED  BY <3>1, <3>2 DEF Left
  <2> QED  BY <2>0, <2>1, <2>2, <2>3 DEF InOrder, Follow
<1>2. \A k \in 1 .. Len(toClient'[t]) :
        \E j \in 1 .. Len(toClient[t]) : toClient'[t][k] = toClient[t][j]
  BY LeftAnswers
<1>3. NoOldVotes(t)'
  BY <1>2 DEF FaultyChannels, NoOldVotes
<1>4. VotesForAll(t)'
  BY <1>2 DEF FaultyChannels, VotesForAll
<1> QED  BY <1>1, <1>3, <1>4 DEF FaultyChannels

\* The message of the operation is sent once more.
LEMMA ResendFaulty ==
  ASSUME NEW t, FaultyChannels(t), op \in Op, op # "idle",
         UNCHANGED <<op, updateId, recvServerId>>,
         toClient'[t] = toClient[t], NEW m, m.type = MsgType[op], Got(t, m)
  PROVE  FaultyChannels(t)'
<1>0. m.type \in Follow(op) /\ (m.type = "VOTE" => op = "vote")
  BY MsgTypes DEF Follow, Op
<1>1. ASSUME op \in {"vote", "commit"} PROVE InOrder(t)'
  <2>0. InOrder(t)
    BY <1>1 DEF FaultyChannels
  <2>1. Only(toServer[t], Follow(op)) => Only(toServer'[t], Follow(op))
    BY <1>0, GotPackets
  <2>2. ASSUME NEW k \in 1 .. Len(toServer'[t]), toServer'[t][k].type = MsgType[op],
               NEW j \in k .. Len(toServer'[t])
        PROVE  toServer'[t][j].type \in Follow(op)
    <3>1. CASE toServer'[t][j] = m
      BY <1>0, <3>1
    <3>2. CASE j \in 1 .. Len(toServer[t]) /\ toServer'[t][j] = toServer[t][j]
      <4>1. CASE toServer'[t] = toServer[t]
        BY <2>0, <2>2, <4>1 DEF InOrder
      <4>2. CASE Put(toServer[t], m, toServer'[t])
        <5>1. k \in 1 .. Len(toServer[t]) /\ toServer'[t][k] = toServer[t][k]
          BY <3>2, <4>2 DEF Put
        <5> QED  BY <2>0, <2>2, <3>2, <5>1 DEF InOrder
      <4> QED  BY <4>1, <4>2 DEF Got
    <3>3. j \in 1 .. Len(toServer'[t])
      BY DEF Got, Put
    <3> QED  BY <3>1, <3>2, <3>3, GotPackets
  <2> QED  BY <2>0, <2>1, <2>2 DEF InOrder, Settled, Follow
<1>2. NoOldVotes(t)'
  BY <1>0, GotPackets DEF FaultyChannels, NoOldVotes
<1>3. VotesForAll(t)'
  BY DEF FaultyChannels, VotesForAll
<1> QED  BY <1>1, <1>2, <1>3 DEF FaultyChannels

\* A phase of a commit begins, and none of its packets is under way yet.
LEMMA StartFaulty ==
  ASSUME NEW t, NEW o \in {"vote", "commit"}, op' = o, recvServerId' = {},
         Clean(t, o), Left(t), NEW m, m.type = MsgType[o], Got(t, m)
  PROVE  FaultyChannels(t)'
<1>0. m.type \in Follow(o)
  BY DEF Follow
<1>1. \A k \in 1 .. Len(toClient'[t]) : toClient'[t][k].type # AckType[o]
  BY LeftAnswers DEF Clean
<1>2. ASSUME NEW k \in 1 .. Len(toServer'[t]), toServer'[t][k].type = MsgType[o],
             NEW j \in k .. Len(toServer'[t])
      PROVE  toServer'[t][j].type \in Follow(o)
  <2>1. Put(toServer[t], m, toServer'[t])
    BY <1>2 DEF Clean, Got
  <2>a. k \notin 1 .. Len(toServer[t])
    BY <1>2, <2>1 DEF Clean, Put
  <2>b. Len(toServer[t]) \in Nat /\ Len(toServer'[t]) = Len(toServer[t]) + 1
    BY <2>1 DEF Put
  <2>2. k = Len(toServer[t]) + 1 /\ j = k
    BY <2>a, <2>b
  <2> QED  BY <1>0, <2>1, <2>2 DEF Put
<1>3. InOrder(t)'
  BY <1>1, <1>2 DEF InOrder, Follow
<1>4. VotesForAll(t)'
  BY <1>1, AckTypes DEF VotesForAll
<1> QED  BY <1>3, <1>4 DEF FaultyChannels, NoOldVotes

\* Anywhere else there must be no votes.
LEMMA OtherFaulty ==
  ASSUME NEW t, op' \notin {"vote", "commit"}, Left(t),
         \/ toServer'[t] = toServer[t]
         \/ \E m : Got(t, m) /\ m.type # "VOTE",
         \A k \in 1 .. Len(toServer[t]) : toServer[t][k].type # "VOTE",
         \A k \in 1 .. Len(toClient[t]) : toClient[t][k].type # "VOTEACK"
  PROVE  FaultyChannels(t)'
<1>1. \A k \in 1 .. Len(toServer'[t]) : toServer'[t][k].type # "VOTE"
  BY GotPackets
<1>2. \A k \in 1 .. Len(toClient'[t]) : toClient'[t][k].type # "VOTEACK"
  BY LeftAnswers
<1> QED  BY <1>1, <1>2 DEF FaultyChannels, NoOldVotes, VotesForAll

-----------------------------------------------------------------------------
(* What a replica holds, and a step of the client.                          *)

\* Waiting changes nothing a replica holds.
LEMMA WaitIntact ==
  ASSUME IInv, NEW t \in Server, Intact(t), op # "idle", op' = op,
         UNCHANGED transactionVars, UNCHANGED serverVars,
         toServer'[t] = toServer[t],
         \A a : a = AckType[op] => (Answered(t, a)' => Answered(t, a))
  PROVE  Intact(t)'
<1>0. /\ UNCHANGED <<isFileOpen, fileName, clientUpdateMap, updateId, promised,
                     inDoubt, After>>
      /\ Target' = Target
      /\ UNCHANGED <<fileFullname, updateMap, nextUpdateId, backup, fp, disk>>
  BY DEF transactionVars, serverVars, memoryVars, After, Target
<1>1. Updates(t)'
  BY <1>0, UpdatesSame DEF Intact
<1>2. Named(t)'
  BY <1>0, NamedSame DEF Intact
<1>3. Voting(t)'
  BY <1>0, AckTypes DEF Intact, Voting, Only
<1>4. Committing(t)'
  BY <1>0, AckTypes DEF Intact, Committing, Only, CarriedOut, Cached
<1>5. CommitsLeft(t)' /\ OnDisk(t)' /\ backup'[t] = NoFile
  BY <1>0 DEF Intact, CommitsLeft, OnDisk, CarriedOut, Cached
<1> QED  BY <1>1, <1>2, <1>3, <1>4, <1>5 DEF Intact

\* The error of a server half-way is there until it is read.
LEMMA WaitHalfway ==
  ASSUME NEW t, Halfway(t), op' = op, UNCHANGED transactionVars,
         UNCHANGED serverVars, toServer'[t] = toServer[t], Left(t),
         t \in recvServerId' =>
           t \in recvServerId \/ toClient[t][1].type = "COMMITACK",
         toClient'[t] # toClient[t] /\ toClient[t][1].type = "COMMITACK" =>
           ~(toClient[t][1].fileDesc < 0),
         toClient'[t] = toClient[t] => (t \in recvServerId' => t \in recvServerId)
  PROVE  Halfway(t)'
<1>0. UNCHANGED <<fileName, promised, fileFullname, disk>>
  BY DEF transactionVars, serverVars, memoryVars
<1>1. PICK k \in 1 .. Len(toClient[t]) :
        /\ toClient[t][k].type = "COMMITACK" /\ toClient[t][k].fileDesc < 0
        /\ \A j \in 1 .. k - 1 : toClient[t][j].type # "COMMITACK"
  BY DEF Halfway, Failing
<1>2. Failing(t)'
  <2>1. CASE toClient'[t] = toClient[t]
    BY <2>1 DEF Halfway, Failing
  <2>2. CASE toClient'[t] # toClient[t]
    <3>0. Taken(toClient[t], toClient'[t])
      BY <2>2 DEF Left
    <3>1. k # 1
      BY <1>1, <2>2
    <3>2. toClient[t][1].type # "COMMITACK"
      BY <1>1, <3>0, <3>1
    <3>3. t \notin recvServerId'
      BY <3>2 DEF Halfway, Failing
    <3>4. /\ k - 1 \in 1 .. Len(toClient'[t])
          /\ toClient'[t][k - 1] = toClient[t][k]
      BY <3>0, <3>1 DEF Taken
    <3>5. ASSUME NEW j \in 1 .. (k - 1) - 1
          PROVE  toClient'[t][j].type # "COMMITACK"
      <4>1. j \in 1 .. Len(toClient'[t]) /\ j + 1 \in 1 .. k - 1
        BY <3>4, <3>0 DEF Taken
      <4>2. toClient'[t][j] = toClient[t][j + 1]
        BY <3>0, <4>1 DEF Taken
      <4> QED  BY <1>1, <4>1, <4>2
    <3>6. \E n \in 1 .. Len(toClient'[t]) :
            /\ toClient'[t][n].type = "COMMITACK" /\ toClient'[t][n].fileDesc < 0
            /\ \A j \in 1 .. n - 1 : toClient'[t][j].type # "COMMITACK"
      BY <1>1, <3>4, <3>5
    <3> QED  BY <3>3, <3>6 DEF Failing
  <2> QED  BY <2>1, <2>2
<1> QED  BY <1>0, <1>2 DEF Halfway

\* A repeated message finds a replica prepared for it.
LEMMA ResendIntact ==
  ASSUME IInv, NEW t \in Server, Intact(t), op \in Op, op # "idle",
         op' = op, UNCHANGED transactionVars, UNCHANGED serverVars,
         UNCHANGED recvServerId, toClient'[t] = toClient[t],
         NEW m, Put(toServer[t], m, toServer'[t]), m.type = MsgType[op],
         op = "open" => m.filename = fileName
  PROVE  Intact(t)'
<1>0. /\ UNCHANGED <<isFileOpen, fileName, clientUpdateMap, updateId, promised,
                     inDoubt, After>>
      /\ Target' = Target
      /\ UNCHANGED <<fileFullname, updateMap, nextUpdateId, backup, fp, disk>>
  BY DEF transactionVars, serverVars, memoryVars, After, Target
<1>a. \A a : Answered(t, a)' <=> Answered(t, a)
  BY DEF Answered
<1>g. Got(t, m)
  BY DEF Got
<1>1. Updates(t)'
  <2>1. CASE op \in {"commit", "abort"}
    BY <1>0, <2>1, MsgTypes, UpdatesCleared DEF Target, Clears
  <2>2. CASE op \notin {"commit", "abort"}
    <3>1. m.type \notin Clears /\ m.type # "WRITEBLOCK"
      BY <2>2, MsgTypes DEF Clears, Op
    <3> QED  BY <1>0, <3>1, UpdatesPut DEF Intact
  <2> QED  BY <2>1, <2>2
<1>2. Named(t)'
  <2>1. CASE op = "open"
    BY <1>0, <2>1, MsgTypes, NamedOpened
  <2>2. CASE op # "open"
    <3>1. m.type # "OPENFILE"
      BY <2>2, MsgTypes DEF Op
    <3> QED  BY <1>0, <3>1, NamedPut DEF Intact
  <2> QED  BY <2>1, <2>2
<1>3. Voting(t)'
  BY <1>0, <1>a DEF Intact, Voting
<1>4. Committing(t)'
  <2> SUFFICES ASSUME op = "commit" PROVE Committing(t)'
    BY DEF Committing
  <2>1. m.type = "COMMIT"
    BY MsgTypes
  <2>2. Only(toServer[t], {"VOTE", "COMMIT"}) => Only(toServer'[t], {"VOTE", "COMMIT"})
    BY <1>g, <2>1, GotPackets
  <2>3. Only(toServer[t], {"COMMIT"}) => Only(toServer'[t], {"COMMIT"})
    BY <1>g, <2>1, GotPackets
  <2> QED  BY <1>0, <1>a, <2>2, <2>3 DEF Intact, Committing, CarriedOut, Cached
<1>5. CommitsLeft(t)'
  <2> SUFFICES ASSUME op # "commit", NEW k \in 1 .. Len(toServer'[t]),
                      toServer'[t][k].type = "COMMIT"
               PROVE  /\ \A j \in 1 .. k : toServer'[t][j].type = "COMMIT"
                      /\ CarriedOut(t)
    BY <1>0 DEF CommitsLeft, CarriedOut, Cached
  <2>1. m.type # "COMMIT"
    BY MsgTypes DEF Op
  <2>2. k \in 1 .. Len(toServer[t])
        /\ \A j \in 1 .. k : j \in 1 .. Len(toServer[t])
                             /\ toServer'[t][j] = toServer[t][j]
    BY <2>1 DEF Put
  <2> QED  BY <2>2 DEF Intact, CommitsLeft
<1>6. OnDisk(t)' /\ backup'[t] = NoFile
  BY <1>0 DEF Intact, OnDisk
<1> QED  BY <1>1, <1>2, <1>3, <1>4, <1>5, <1>6 DEF Intact

\* Sending the Commit again does not undo a failure.
LEMMA ResendHalfway ==
  ASSUME NEW t, Halfway(t), op' = op, UNCHANGED transactionVars,
         UNCHANGED serverVars, UNCHANGED recvServerId, toClient'[t] = toClient[t],
         NEW m, Put(toServer[t], m, toServer'[t]), m.type = MsgType[op]
  PROVE  Halfway(t)'
<1>0. UNCHANGED <<fileName, promised, fileFullname, disk>>
  BY DEF transactionVars, serverVars, memoryVars
<1>1. Failing(t)'
  BY DEF Halfway, Failing
<1>2. Got(t, m) /\ m.type = "COMMIT"
  BY MsgTypes DEF Got, Halfway
<1>3. Only(toServer'[t], {"VOTE", "COMMIT"})
  BY <1>2, GotPackets DEF Halfway
<1> QED  BY <1>0, <1>1, <1>3 DEF Halfway

\* Another operation begins: OpenFile, Vote, Abort or Close.
LEMMA StartIntact ==
  ASSUME IInv, NEW t \in Server, Intact(t), op \notin {"commit", "abort"},
         NEW o \in {"open", "vote", "abort", "close"}, op' = o,
         recvServerId' = {}, Left(t), o = "vote" => Clean(t, o),
         UNCHANGED <<clientUpdateMap, updateId, promised, inDoubt>>,
         UNCHANGED serverVars, o # "open" => fileName' = fileName,
         NEW m, Put(toServer[t], m, toServer'[t]), m.type = MsgType[o],
         o = "open" => m.filename = fileName'
  PROVE  Intact(t)'
<1>0. UNCHANGED <<fileFullname, updateMap, nextUpdateId, backup, fp, disk>>
  BY DEF serverVars, memoryVars
<1>a. o = "vote" => ~Answered(t, AckType[o])'
  <2>1. ASSUME o = "vote" PROVE ~Answered(t, AckType[o])'
    BY <2>1, LeftAnswers DEF Answered, Clean
  <2> QED  BY <2>1
<1>1. Updates(t)'
  <2>1. CASE o = "abort"
    BY <2>1, MsgTypes, UpdatesCleared DEF Target, Clears
  <2>2. CASE o # "abort"
    <3>1. m.type \notin Clears /\ m.type # "WRITEBLOCK" /\ Target' = Target
      BY <2>2, MsgTypes DEF Clears, Target
    <3> QED  BY <1>0, <3>1, UpdatesPut DEF Intact
  <2> QED  BY <2>1, <2>2
<1>2. Named(t)'
  <2>1. CASE o = "open"
    BY <2>1, MsgTypes, NamedOpened
  <2>2. CASE o # "open"
    <3>1. m.type # "OPENFILE"
      BY <2>2, MsgTypes
    <3> QED  BY <1>0, <2>2, <3>1, NamedPut DEF Intact
  <2> QED  BY <2>1, <2>2
<1>3. Voting(t)'
  BY <1>a, AckTypes DEF Voting
<1>4. Committing(t)'
  BY DEF Committing
<1>5. CommitsLeft(t)'
  <2> SUFFICES ASSUME NEW k \in 1 .. Len(toServer'[t]),
                      toServer'[t][k].type = "COMMIT"
               PROVE  /\ \A j \in 1 .. k : toServer'[t][j].type = "COMMIT"
                      /\ CarriedOut(t)
    BY <1>0 DEF CommitsLeft, CarriedOut, Cached
  <2>1. m.type # "COMMIT"
    BY MsgTypes
  <2>2. k \in 1 .. Len(toServer[t])
        /\ \A j \in 1 .. k : j \in 1 .. Len(toServer[t])
                             /\ toServer'[t][j] = toServer[t][j]
    BY <2>1 DEF Put
  <2> QED  BY <2>2 DEF Intact, CommitsLeft
<1>6. OnDisk(t)' /\ backup'[t] = NoFile
  BY <1>0 DEF Intact, OnDisk
<1> QED  BY <1>1, <1>2, <1>3, <1>4, <1>5, <1>6 DEF Intact

\* All have voted: whoever has, has the updates, the file and no Commit yet.
LEMMA VotedIntact ==
  ASSUME IInv, NEW t \in Server, Intact(t), op = "vote", op' = "commit",
         Settled(t, "vote"), Answered(t, "VOTEACK"), recvServerId' = {}, Left(t),
         UNCHANGED transactionVars, UNCHANGED serverVars,
         NEW m, Put(toServer[t], m, toServer'[t]), m.type = "COMMIT"
  PROVE  Intact(t)'
<1>0. /\ UNCHANGED <<fileName, clientUpdateMap, updateId, promised, inDoubt, After>>
      /\ UNCHANGED <<fileFullname, updateMap, nextUpdateId, backup, fp, disk>>
  BY DEF transactionVars, serverVars, memoryVars, After
<1>g. Got(t, m)
  BY DEF Got
<1>s. Only(toClient[t], {"VOTEACK"}) /\ Only(toServer[t], {"VOTE"})
  BY AckTypes, MsgTypes DEF Settled, Follow
<1>1. Updates(t)'
  BY UpdatesCleared DEF Target, Clears
<1>2. Named(t)'
  BY <1>0, NamedPut DEF Intact
<1>3. Voting(t)'
  BY DEF Voting
<1>4. Committing(t)'
  <2>1. fileFullname[t] = fileName
    <3>1. NoneAfter(toServer[t], 0, {"OPENFILE"})
      BY <1>s DEF NoneAfter, Only
    <3> QED  BY <3>1 DEF Intact, Named
  <2>2. Only(toServer'[t], {"VOTE", "COMMIT"})
    <3>1. Only(toServer[t], {"VOTE", "COMMIT"})
      BY <1>s DEF Only
    <3> QED  BY <1>g, <3>1, GotPackets
  <2>3. updateMap[t] = clientUpdateMap
    <3>1. Only(toServer[t], {"VOTE", "CLOSE", "INIT", "OPENFILE"})
      BY <1>s DEF Only
    <3> QED  BY <3>1, AllCached DEF Intact
  <2>4. nextUpdateId[t] = updateId
    BY DEF Intact, Voting
  <2>5. ~Answered(t, "COMMITACK")'
    BY <1>s, LeftAnswers DEF Answered, Only
  <2>6. fileName \notin inDoubt => disk[t][fileName] = promised[fileName]
    <3>1. fileName \in File
      BY DEF IInv, ClientInv, FileNamed
    <3> QED  BY <3>1 DEF Intact, OnDisk
  <2> QED  BY <1>0, <2>1, <2>2, <2>3, <2>4, <2>5, <2>6 DEF Committing
<1>5. CommitsLeft(t)'
  BY DEF CommitsLeft
<1>6. OnDisk(t)' /\ backup'[t] = NoFile
  BY <1>0 DEF Intact, OnDisk
<1> QED  BY <1>1, <1>2, <1>3, <1>4, <1>5, <1>6 DEF Intact

\* A replica that answered the Commit has the updates in the file, and none
\* in its cache.
LEMMA CommittedIntact ==
  ASSUME IInv, NEW t \in Server, Intact(t), op = "commit",
         Settled(t, "commit"), Answered(t, "COMMITACK"),
         ResetClient, promised' = [promised EXCEPT ![fileName] = After],
         UNCHANGED <<fileName, inDoubt>>, UNCHANGED serverVars,
         \/ op' = "idle" /\ toServer'[t] = toServer[t]
         \/ op' = "close2" /\ \E m : Put(toServer[t], m, toServer'[t]) /\ m.type = "CLOSE"
  PROVE  Intact(t)'
<1>0. /\ UNCHANGED <<fileFullname, updateMap, nextUpdateId, backup, fp, disk>>
      /\ updateId' = 0 /\ op' \in {"idle", "close2"}
  BY DEF serverVars, memoryVars, ResetClient
<1>s. Only(toServer[t], {"COMMIT"})
  BY AckTypes, MsgTypes DEF Settled, Follow
<1>c. /\ CarriedOut(t) /\ fileFullname[t] = fileName
      /\ fileName \notin inDoubt => disk[t][fileName] = After
  BY DEF Intact, Committing
<1>q. \A k \in 1 .. Len(toServer'[t]) :
        \/ toServer'[t][k].type = "CLOSE" /\ k = Len(toServer'[t])
        \/ k \in 1 .. Len(toServer[t]) /\ toServer'[t][k] = toServer[t][k]
  BY DEF Put
<1>t. \A k \in 1 .. Len(toServer'[t]) : toServer'[t][k].type \in {"CLOSE", "COMMIT"}
  BY <1>s, <1>q DEF Only
<1>1. Updates(t)'
  <2>1. Target' = 0
    BY <1>0 DEF Target
  <2>2. \A k \in 1 .. Len(toServer'[t]) : toServer'[t][k].type # "WRITEBLOCK"
    BY <1>t
  <2> QED  BY <1>0, <1>c, <2>1, <2>2, UpdatesNone DEF CarriedOut
<1>2. Named(t)'
  BY <1>0, <1>c, <1>t DEF Named
<1>3. Voting(t)' /\ Committing(t)'
  BY <1>0 DEF Voting, Committing
<1>4. CommitsLeft(t)'
  <2> SUFFICES ASSUME NEW k \in 1 .. Len(toServer'[t]),
                      toServer'[t][k].type = "COMMIT",
                      NEW j \in 1 .. k
               PROVE  toServer'[t][j].type = "COMMIT"
    BY <1>0, <1>c DEF CommitsLeft, CarriedOut, Cached
  <2>1. k \in 1 .. Len(toServer[t])
    BY <1>q
  <2>2. Len(toServer[t]) \in Nat
    BY Numbers
  <2>3. j \in 1 .. Len(toServer[t]) /\ toServer'[t][j] = toServer[t][j]
    BY <2>1, <2>2 DEF Put
  <2> QED  BY <1>s, <2>3 DEF Only
<1>5. OnDisk(t)' /\ backup'[t] = NoFile
  <2>1. \A f \in File : promised'[f] = IF f = fileName THEN After ELSE promised[f]
    BY Typing
  <2> QED  BY <1>0, <1>c, <2>1 DEF Intact, OnDisk
<1> QED  BY <1>1, <1>2, <1>3, <1>4, <1>5 DEF Intact

\* A call returns that leaves the files as they are.
LEMMA EndIntact ==
  ASSUME IInv, NEW t \in Server, Intact(t), op # "commit", op' = "idle",
         toServer'[t] = toServer[t], Target' = Target,
         \A id \in UpdateId : id < Target => clientUpdateMap'[id] = clientUpdateMap[id],
         UNCHANGED <<fileName, promised, inDoubt>>, UNCHANGED serverVars
  PROVE  Intact(t)'
<1>0. UNCHANGED <<fileFullname, updateMap, nextUpdateId, backup, fp, disk>>
  BY DEF serverVars, memoryVars
<1>1. Updates(t)'
  BY <1>0, UpdatesSame DEF Intact
<1>2. Named(t)'
  BY <1>0, NamedSame DEF Intact
<1>3. Voting(t)' /\ Committing(t)'
  BY DEF Voting, Committing
<1>4. CommitsLeft(t)' /\ OnDisk(t)' /\ backup'[t] = NoFile
  BY <1>0 DEF Intact, CommitsLeft, OnDisk, CarriedOut, Cached
<1> QED  BY <1>1, <1>2, <1>3, <1>4 DEF Intact

\* WriteBlock.
LEMMA WrittenIntact ==
  ASSUME IInv, NEW t \in Server, Intact(t), op = "idle", op' = "idle",
         updateId < MaxUpdates, NEW u \in Update,
         clientUpdateMap' = [clientUpdateMap EXCEPT ![updateId] = u],
         updateId' = updateId + 1,
         UNCHANGED <<fileName, promised, inDoubt>>, UNCHANGED serverVars,
         Put(toServer[t], WriteBlockMessage(updateId, u), toServer'[t])
  PROVE  Intact(t)'
<1> DEFINE m == WriteBlockMessage(updateId, u)
<1>0. UNCHANGED <<fileFullname, updateMap, nextUpdateId, backup, fp, disk>>
      /\ m.type = "WRITEBLOCK"
  BY DEF serverVars, memoryVars, WriteBlockMessage
<1>1. Updates(t)'
  BY <1>0, UpdatesWritten DEF Intact
<1> HIDE DEF m
<1>2. Put(toServer[t], m, toServer'[t])
  BY DEF m
<1>3. Named(t)'
  BY <1>0, <1>2, NamedPut DEF Intact
<1>4. Voting(t)' /\ Committing(t)'
  BY DEF Voting, Committing
<1>5. CommitsLeft(t)'
  <2> SUFFICES ASSUME NEW k \in 1 .. Len(toServer'[t]),
                      toServer'[t][k].type = "COMMIT"
               PROVE  /\ \A j \in 1 .. k : toServer'[t][j].type = "COMMIT"
                      /\ CarriedOut(t)
    BY <1>0 DEF CommitsLeft, CarriedOut, Cached
  <2>1. k \in 1 .. Len(toServer[t])
        /\ \A j \in 1 .. k : j \in 1 .. Len(toServer[t])
                             /\ toServer'[t][j] = toServer[t][j]
    BY <1>0, <1>2 DEF Put
  <2> QED  BY <2>1 DEF Intact, CommitsLeft
<1>6. OnDisk(t)' /\ backup'[t] = NoFile
  BY <1>0 DEF Intact, OnDisk
<1> QED  BY <1>1, <1>3, <1>4, <1>5, <1>6 DEF Intact

\* A server nobody has used yet is as good as a replica of nothing.
LEMMA PristineIntact ==
  ASSUME IInv, NEW t \in Server, Fresh', FaultyBooks', op' = "init",
         UNCHANGED serverVars
  PROVE  FaultyChannels(t)' /\ Intact(t)'
<1>1. /\ Only(toServer'[t], {"INIT"}) /\ Only(toClient'[t], {"INITACK"})
      /\ fileFullname'[t] = NoFile /\ backup'[t] = NoFile
      /\ Cached(updateMap'[t]) = {}
      /\ \A f \in File : disk'[t][f] = Absent
      /\ fileName' = NoFile
      /\ \A f \in File : promised'[f] = Absent
      /\ updateId' = 0
  BY DEF Fresh, Pristine, FaultyBooks, Cached
<1>2. /\ \A k \in 1 .. Len(toServer'[t]) : toServer'[t][k].type = "INIT"
      /\ \A k \in 1 .. Len(toClient'[t]) : toClient'[t][k].type = "INITACK"
  BY <1>1 DEF Only
<1>3. FaultyChannels(t)'
  BY <1>2 DEF FaultyChannels, NoOldVotes, VotesForAll
<1>4. Updates(t)'
  <2>1. Target' = 0 /\ updateMap' = updateMap /\ Cached(updateMap[t]) = {}
    BY <1>1 DEF Target, serverVars, memoryVars, Cached
  <2> QED  BY <1>2, <2>1, UpdatesNone
<1>5. Named(t)' /\ Voting(t)' /\ Committing(t)'
  BY <1>1, <1>2 DEF Named, Voting, Committing
<1>6. CommitsLeft(t)' /\ OnDisk(t)'
  BY <1>1, <1>2 DEF CommitsLeft, OnDisk, Only
<1> QED  BY <1>1, <1>3, <1>4, <1>5, <1>6 DEF Intact

-----------------------------------------------------------------------------
(* The invariant and a step of the client: what the steps have in common.   *)

\* When all have answered in a phase of a commit, those are the selected
\* servers, and each of them has read everything that was sent before.
LEMMA AllSettledUnhurt ==
  ASSUME IInv, Unhurt, NEW s \in serverIds, op \in {"vote", "commit"},
         1 \in 1 .. Len(toClient[s]), toClient[s][1].type = AckType[op],
         IsFull(recvServerId \cup {s})
  PROVE  /\ recvServerId \cup {s} = serverIds
         /\ \A t \in serverIds : Settled(t, op) /\ Answered(t, AckType[op])
<1>1. recvServerId \cup {s} = serverIds
  <2> DEFINE recv == recvServerId \cup {s}
  <2>1. IsFiniteSet(serverIds) /\ recv \subseteq serverIds
        /\ Cardinality(serverIds) <= NumServers
    <3>1. IsFiniteSet(Server) /\ serverIds \subseteq Server
          /\ recvServerId \subseteq serverIds
      BY NetworkAssumption, Typing
    <3> QED  BY <3>1, FS_Subset DEF IInv, ClientInv, SelectionHolds
  <2>2. Cardinality(recv) = NumServers
    BY DEF IsFull
  <2> HIDE DEF recv
  <2>3. /\ Cardinality(recv) <= Cardinality(serverIds)
        /\ Cardinality(recv) \in Nat /\ Cardinality(serverIds) \in Nat
        /\ Cardinality(serverIds) = Cardinality(recv) => serverIds = recv
    BY <2>1, FS_Subset, FS_CardinalityType
  <2>4. Cardinality(serverIds) = Cardinality(recv)
    BY <2>1, <2>2, <2>3
  <2> QED  BY <2>3, <2>4 DEF recv
<1>2. Settled(s, op) /\ Answered(s, AckType[op])
  BY DEF Unhurt, FaultyChannels, InOrder, Settled, Only, Answered
<1>3. ASSUME NEW t \in serverIds, t \in recvServerId
      PROVE  Settled(t, op) /\ Answered(t, AckType[op])
  BY <1>3 DEF Unhurt, FaultyChannels, InOrder, Answered
<1> QED  BY <1>1, <1>2, <1>3

\* An answer is read and the client goes on waiting.
LEMMA WaitUnhurt ==
  ASSUME IInv, Unhurt, NEW s \in Server, ReadsHead(s),
         op \notin {"idle", "init"}, op' = op, toServer' = toServer,
         UNCHANGED transactionVars, UNCHANGED serverVars,
         UNCHANGED <<serverIds, closeRecvServerId, clients>>,
         \/ recvServerId' = recvServerId
         \/ /\ s \in serverIds /\ recvServerId' = recvServerId \cup {s}
            /\ toClient[s][1].type = AckType[op]
            /\ ~IsFull(recvServerId'),
         op = "commit" /\ s \in serverIds /\ toClient[s][1].type = "COMMITACK" =>
           ~(toClient[s][1].fileDesc < 0),
         op = "vote" =>
           \A t \in serverIds : recvServerUpdateId'[t] \in {-1, updateId}
  PROVE  Unhurt'
<1>0. UNCHANGED <<isFileOpen, updateId>>
  BY DEF transactionVars
<1>1. \A t \in serverIds :
        /\ Left(t)
        /\ t \in recvServerId' =>
             \/ t \in recvServerId
             \/ 1 \in 1 .. Len(toClient[t]) /\ toClient[t][1].type = AckType[op]
  BY Typing DEF ReadsHead, Left
<1>2. \A t \in serverIds : FaultyChannels(t)'
  <2> SUFFICES ASSUME NEW t \in serverIds PROVE FaultyChannels(t)'
    OBVIOUS
  <2>1. FaultyChannels(t) /\ toServer'[t] = toServer[t]
    BY DEF Unhurt
  <2> QED  BY <1>0, <1>1, <2>1, WaitFaulty
<1>3. ASSUME NEW t \in Replicas' PROVE Intact(t)' \/ Halfway(t)'
  <2>1. t \in serverIds /\ t \in Server /\ (Intact(t) \/ Halfway(t))
    BY <1>3, Typing, SameReplicas DEF Unhurt, Replicas, ReadsHead
  <2>2. CASE Intact(t)
    <3>1. \A a : a = AckType[op] => (Answered(t, a)' => Answered(t, a))
      BY <1>1, <2>1, AnsweredLeft
    <3> QED  BY <2>1, <2>2, <3>1, WaitIntact
  <2>3. CASE Halfway(t)
    <3>1. op = "commit" /\ AckType[op] = "COMMITACK"
      BY <2>3, AckTypes DEF Halfway
    <3>2. toClient'[t] = toClient[t] => (t \in recvServerId' => t \in recvServerId)
      BY <2>1 DEF ReadsHead, Taken
    <3>3. toClient'[t] # toClient[t] => t = s
      BY <2>1 DEF ReadsHead
    <3> QED  BY <1>1, <2>1, <2>3, <3>1, <3>2, <3>3, WaitHalfway
  <2> QED  BY <2>1, <2>2, <2>3
<1>4. FaultyBooks'
  <2>1. backup' = backup
    BY DEF serverVars, memoryVars
  <2> QED  BY <1>0, <2>1 DEF Unhurt, FaultyBooks
<1>5. Fresh'
  BY DEF Unhurt, FaultyBooks, Fresh
<1> QED  BY <1>2, <1>3, <1>4, <1>5 DEF Unhurt

\* Outside the two phases of a commit there are no votes.
LEMMA NoVotesUnhurt ==
  ASSUME Unhurt, op \notin {"vote", "commit"}
  PROVE  \A t \in serverIds :
           /\ \A k \in 1 .. Len(toServer[t]) : toServer[t][k].type # "VOTE"
           /\ \A k \in 1 .. Len(toClient[t]) : toClient[t][k].type # "VOTEACK"
BY DEF Unhurt, FaultyChannels, NoOldVotes

\* Outside a commit phase no replica is half-way.
LEMMA IntactReplicas ==
  ASSUME IInv, Unhurt, op # "commit", up' = up, NEW t \in Replicas',
         serverIds' = serverIds
  PROVE  t \in serverIds /\ t \in Server /\ up[t] /\ Intact(t)
BY Typing, SameReplicas DEF Unhurt, Replicas, Halfway

\* An operation is started anew, or after another but a commit.
LEMMA StartUnhurt ==
  ASSUME IInv, Unhurt, op \notin {"commit", "abort"}, clients # 0,
         NEW o \in {"open", "vote", "abort", "close"}, op' = o,
         recvServerId' = {}, ~IsFull(closeRecvServerId'),
         UNCHANGED <<serverIds, up, clients>>,
         UNCHANGED <<clientUpdateMap, updateId, promised, inDoubt>>,
         UNCHANGED serverVars, o # "open" => fileName' = fileName,
         \A t \in serverIds :
           /\ Left(t)
           /\ \A k \in 1 .. Len(toServer[t]) : toServer[t][k].type # "VOTE"
           /\ \A k \in 1 .. Len(toClient[t]) : toClient[t][k].type # "VOTEACK",
         NEW m, Sent(m), m.type = MsgType[o], o = "open" => m.filename = fileName',
         o = "vote" => \A t \in serverIds : recvServerUpdateId'[t] \in {-1, updateId}
  PROVE  Unhurt'
<1>1. ASSUME NEW t \in serverIds PROVE FaultyChannels(t)'
  <2>1. Got(t, m) /\ Left(t)
    BY Typing DEF Sent, Got
  <2>2. CASE o = "vote"
    <3>1. Clean(t, "vote")
      BY AckTypes, MsgTypes DEF Clean
    <3> QED  BY <2>1, <2>2, <3>1, StartFaulty
  <2>3. CASE o # "vote"
    <3>1. m.type # "VOTE"
      BY <2>3, MsgTypes
    <3> QED  BY <2>1, <2>3, <3>1, OtherFaulty
  <2> QED  BY <2>2, <2>3
<1>2. ASSUME NEW t \in Replicas' PROVE Intact(t)'
  <2>1. t \in serverIds /\ t \in Server /\ up[t] /\ Intact(t)
    BY <1>2, IntactReplicas
  <2>2. Put(toServer[t], m, toServer'[t]) /\ Left(t)
    BY <2>1 DEF Sent
  <2>3. o = "vote" => Clean(t, o)
    BY <2>1, AckTypes, MsgTypes DEF Clean
  <2> QED  BY <2>1, <2>2, <2>3, StartIntact
<1>3. FaultyBooks'
  BY EmptyNotFull DEF FaultyBooks
<1>4. Fresh'
  BY DEF Fresh
<1> QED  BY <1>1, <1>2, <1>3, <1>4 DEF Unhurt

\* A call returns, and no file was committed.
LEMMA EndUnhurt ==
  ASSUME IInv, Unhurt, op \notin {"idle", "vote", "commit"}, op' = "idle",
         recvServerId' = {}, closeRecvServerId' = {},
         UNCHANGED <<serverIds, up, clients, toServer>>, Target' = Target,
         \A id \in UpdateId : id < Target => clientUpdateMap'[id] = clientUpdateMap[id],
         UNCHANGED <<fileName, promised, inDoubt>>, UNCHANGED serverVars,
         \A t \in serverIds : Left(t)
  PROVE  Unhurt'
<1>1. \A t \in serverIds : FaultyChannels(t)'
  BY NoVotesUnhurt, OtherFaulty
<1>2. ASSUME NEW t \in Replicas' PROVE Intact(t)'
  <2>1. t \in serverIds /\ t \in Server /\ up[t] /\ Intact(t)
    BY <1>2, IntactReplicas
  <2> QED  BY <2>1, EndIntact
<1>3. FaultyBooks' /\ Fresh'
  BY EmptyNotFull DEF Unhurt, FaultyBooks, Fresh
<1> QED  BY <1>1, <1>2, <1>3 DEF Unhurt

\* Before any server is selected there is nothing else to see to.
LEMMA InitUnhurt ==
  ASSUME IInv, Fresh', FaultyBooks', op' = "init", serverIds' \subseteq Server,
         UNCHANGED serverVars
  PROVE  Unhurt'
<1>1. \A t \in serverIds' : FaultyChannels(t)' /\ Intact(t)'
  BY PristineIntact
<1> QED  BY <1>1 DEF Unhurt, Replicas

-----------------------------------------------------------------------------
(* Calls.                                                                   *)

\* Calls but InitReplFs need a client with servers.
LEMMA ReadyUnhurt ==
  ASSUME Unhurt, Ready
  PROVE  clients # 0
BY EmptyNotFull, FS_EmptySet DEF Unhurt, FaultyBooks, Ready

\* InitReplFs: the only client starts with servers nobody has used.
LEMMA InitReplFsUnhurt ==
  ASSUME IInv, Prompt, Unhurt, InitReplFs, UNCHANGED serverVars
  PROVE  Unhurt'
<1>1. clients = 0
  BY Typing DEF InitReplFs, Prompt
<1> DEFINE m == Plain("INIT")
<1>2. m \in ClientMsg /\ m.type = "INIT"
  BY BuiltMessages DEF Plain
<1> HIDE DEF m
<1>3. Sent(m) /\ op' = "init" /\ recvServerId' = {}
  BY <1>2, EnterSends DEF InitReplFs, m
<1>4. /\ UNCHANGED <<isFileOpen, fileName, updateId, promised, inDoubt>>
      /\ toClient' = toClient /\ closeRecvServerId' = closeRecvServerId
      /\ serverIds' = {} /\ clients' = 1
  BY <1>1 DEF InitReplFs, fileVars, stagedVars, promiseVars
<1>5. Fresh'
  <2>1. Fresh /\ (\A t \in Server : Pristine(t))
    BY <1>1 DEF Unhurt, Fresh
  <2>2. ASSUME NEW t \in Server PROVE Pristine(t)'
    <3>1. Got(t, m) /\ Pristine(t)
      BY <1>3, <2>1 DEF Sent, Got
    <3>2. Only(toServer'[t], {"INIT"}) /\ Only(toClient'[t], {"INITACK"})
      BY <1>2, <1>4, <3>1, GotPackets DEF Pristine
    <3> QED  BY <3>1, <3>2 DEF Pristine, serverVars, memoryVars, Cached
  <2> QED  BY <1>1, <1>4, <2>1, <2>2 DEF Fresh
<1>6. FaultyBooks'
  <2>1. backup' = backup
    BY DEF serverVars, memoryVars
  <2> QED  BY <1>1, <1>3, <1>4, <2>1, EmptyNotFull DEF Unhurt, FaultyBooks
<1> QED  BY <1>3, <1>4, <1>5, <1>6, InitUnhurt

\* OpenFile.
LEMMA OpenFileUnhurt ==
  ASSUME IInv, Prompt, Unhurt, NEW f \in File, OpenFile(f), UNCHANGED serverVars
  PROVE  Unhurt'
<1> DEFINE m == OpenFileMessage(f)
<1>1. m \in ClientMsg /\ m.type = MsgType["open"] /\ m.filename = fileName'
  BY BuiltMessages, MsgTypes DEF OpenFileMessage, OpenFile
<1> HIDE DEF m
<1>2. Sent(m) /\ op' = "open" /\ recvServerId' = {}
  BY <1>1, EnterSends DEF OpenFile, m
<1>3. /\ op = "idle" /\ clients # 0
      /\ UNCHANGED <<toClient, up, serverIds, closeRecvServerId, clients,
                     clientUpdateMap, updateId, promised, inDoubt>>
  BY ReadyUnhurt DEF OpenFile, Called, stagedVars, promiseVars
<1>4. \A t \in serverIds :
        /\ Left(t)
        /\ \A k \in 1 .. Len(toServer[t]) : toServer[t][k].type # "VOTE"
        /\ \A k \in 1 .. Len(toClient[t]) : toClient[t][k].type # "VOTEACK"
  BY <1>3, NoVotesUnhurt DEF Left
<1>5. ~IsFull(closeRecvServerId')
  BY <1>3 DEF Unhurt, FaultyBooks
<1> QED  BY <1>1, <1>2, <1>3, <1>4, <1>5, StartUnhurt

\* Commit, Abort and CloseFile.
LEMMA StartCallUnhurt ==
  ASSUME IInv, Prompt, Unhurt, NEW name, NEW o \in {"vote", "abort", "close"},
         StartCall(name, o), UNCHANGED serverVars
  PROVE  Unhurt'
<1> DEFINE m == OpMessage(o)
<1>1. m \in ClientMsg /\ m.type = MsgType[o]
  BY OpMessageType, OpMessages DEF Op
<1> HIDE DEF m
<1>2. Sent(m) /\ op' = o /\ recvServerId' = {}
  BY <1>1, EnterSends DEF StartCall, m
<1>3. /\ op = "idle" /\ clients # 0
      /\ UNCHANGED <<toClient, up, serverIds, closeRecvServerId, fileName,
                     clients, clientUpdateMap, updateId, recvServerUpdateId,
                     promised, inDoubt>>
  BY ReadyUnhurt DEF StartCall, Called, FdValid, fileVars, stagedVars, promiseVars
<1>4. \A t \in serverIds :
        /\ Left(t)
        /\ \A k \in 1 .. Len(toServer[t]) : toServer[t][k].type # "VOTE"
        /\ \A k \in 1 .. Len(toClient[t]) : toClient[t][k].type # "VOTEACK"
  BY <1>3, NoVotesUnhurt DEF Left
<1>5. ~IsFull(closeRecvServerId')
  BY <1>3 DEF Unhurt, FaultyBooks
<1>6. \A t \in serverIds : recvServerUpdateId'[t] \in {-1, updateId}
  BY <1>3, NoVotesRecorded
<1> QED  BY <1>1, <1>2, <1>3, <1>4, <1>5, <1>6, StartUnhurt

\* WriteBlock.
LEMMA WriteBlockUnhurt ==
  ASSUME IInv, Prompt, Unhurt, NEW u \in Update, WriteBlock(u), UNCHANGED serverVars
  PROVE  Unhurt'
<1> DEFINE m == WriteBlockMessage(updateId, u)
<1>1. m \in ClientMsg /\ m.type = "WRITEBLOCK"
  <2>1. updateId \in UpdateId
    BY Numbers DEF WriteBlock, UpdateId
  <2> QED  BY <2>1, BuiltMessages DEF WriteBlockMessage
<1>2. Sent(m)
  BY <1>1, MulticastSends DEF WriteBlock
<1> HIDE DEF m
<1>3. /\ op = "idle" /\ op' = "idle" /\ clients # 0
      /\ UNCHANGED <<toClient, up, serverIds, recvServerId, closeRecvServerId,
                     fileName, clients, promised, inDoubt>>
      /\ updateId < MaxUpdates /\ updateId' = updateId + 1
      /\ clientUpdateMap' = [clientUpdateMap EXCEPT ![updateId] = u]
  BY ReadyUnhurt DEF WriteBlock, Called, FdValid, callVars, fileVars, promiseVars
<1>4. ASSUME NEW t \in serverIds PROVE FaultyChannels(t)'
  <2>1. Got(t, m) /\ Left(t)
    BY <1>2, <1>3, <1>4, Typing DEF Sent, Got, Left
  <2> QED  BY <1>1, <1>3, <1>4, <2>1, NoVotesUnhurt, OtherFaulty
<1>5. ASSUME NEW t \in Replicas' PROVE Intact(t)'
  <2>1. t \in serverIds /\ t \in Server /\ up[t] /\ Intact(t)
    BY <1>3, <1>5, IntactReplicas
  <2>2. Put(toServer[t], WriteBlockMessage(updateId, u), toServer'[t])
    BY <1>2, <2>1 DEF Sent, m
  <2> QED  BY <1>3, <2>1, <2>2, WrittenIntact
<1>6. FaultyBooks' /\ Fresh'
  BY <1>3 DEF Unhurt, FaultyBooks, Fresh
<1> QED  BY <1>3, <1>4, <1>5, <1>6 DEF Unhurt

-----------------------------------------------------------------------------
(* Answers.                                                                 *)

\* The message of the operation goes out again.
LEMMA ResendUnhurt ==
  ASSUME IInv, Prompt, Unhurt, Resend, UNCHANGED serverVars
  PROVE  Unhurt'
<1> DEFINE m == OpMessage(op)
<1>0. op \in Op \ {"idle"}
  BY Typing DEF Resend
<1>1. m \in ClientMsg /\ m.type = MsgType[op] /\ (op = "open" => m.filename = fileName)
  BY <1>0, OpMessageType, OpMessages DEF IInv, ClientInv, FileNamed
<1> HIDE DEF m
<1>2. Sent(m)
  BY <1>1, MulticastSends DEF Resend, m
<1>3. /\ UNCHANGED <<toClient, up>> /\ UNCHANGED transactionVars
      /\ UNCHANGED <<op, recvServerId, serverIds, closeRecvServerId, clients,
                     recvServerUpdateId>>
      /\ UNCHANGED <<isFileOpen, fileName, updateId, promised, inDoubt>>
  BY DEF Resend, clientVars, callVars, fileVars, stagedVars, bookVars,
         promiseVars, transactionVars
<1>4. ASSUME NEW t \in serverIds PROVE FaultyChannels(t)'
  <2>1. Got(t, m) /\ FaultyChannels(t)
    BY <1>2, <1>4, Typing DEF Unhurt, Sent, Got
  <2> QED  BY <1>0, <1>1, <1>3, <2>1, ResendFaulty
<1>5. ASSUME NEW t \in Replicas' PROVE Intact(t)' \/ Halfway(t)'
  <2>1. t \in serverIds /\ t \in Server /\ (Intact(t) \/ Halfway(t)) /\ up[t]
    BY <1>3, <1>5, Typing, SameReplicas DEF Unhurt, Replicas
  <2>2. Put(toServer[t], m, toServer'[t])
    BY <1>2, <2>1 DEF Sent
  <2> QED  BY <1>0, <1>1, <1>3, <2>1, <2>2, ResendIntact, ResendHalfway
<1>6. FaultyBooks'
  <2>1. backup' = backup
    BY DEF serverVars, memoryVars
  <2> QED  BY <1>3, <2>1 DEF Unhurt, FaultyBooks
<1>7. Fresh'
  <2> SUFFICES ASSUME op = "init" PROVE Fresh'
    BY <1>0, <1>3 DEF Fresh, Unhurt, FaultyBooks
  <2>1. Fresh /\ (\A t \in Server : Pristine(t))
    BY DEF Unhurt, Fresh
  <2>2. ASSUME NEW t \in Server PROVE Pristine(t)'
    <3>1. Got(t, m) /\ Pristine(t)
      BY <1>2, <2>1 DEF Sent, Got
    <3>2. m.type \in {"INIT"}
      BY <1>1, MsgTypes
    <3>3. Only(toServer'[t], {"INIT"}) /\ Only(toClient'[t], {"INITACK"})
      BY <1>3, <3>1, <3>2, GotPackets DEF Pristine
    <3> QED  BY <3>1, <3>3 DEF Pristine, serverVars, memoryVars, Cached
  <2> QED  BY <1>3, <2>1, <2>2 DEF Fresh
<1> QED  BY <1>3, <1>4, <1>5, <1>6, <1>7 DEF Unhurt

\* An answer of an earlier operation is skipped.
LEMMA IgnoreAckUnhurt ==
  ASSUME IInv, Prompt, Unhurt, NEW s \in Server,
         NEW i \in 1 .. Len(toClient[s]), IgnoreAck(s, i), UNCHANGED serverVars
  PROVE  Unhurt'
<1>1. i = 1 /\ ReadsHead(s) /\ op # "idle"
  BY ReadsHeads DEF IgnoreAck, Prompt
<1>2. toClient[s][1].type # AckType[op]
  BY <1>1 DEF IgnoreAck, Prompt
<1>3. op # "init"
  <2>1. op = "init" => Only(toClient[s], {"INITACK"})
    BY DEF Unhurt, Fresh, Pristine
  <2> QED  BY <1>1, <1>2, <2>1, AckTypes DEF Only, ReadsHead
<1>4. /\ UNCHANGED <<op, recvServerId, serverIds, closeRecvServerId, clients,
                     recvServerUpdateId, toServer>>
      /\ UNCHANGED transactionVars
  BY DEF IgnoreAck, clientVars, callVars, fileVars, stagedVars, bookVars,
         promiseVars, transactionVars
<1>5. op = "vote" => \A t \in serverIds : recvServerUpdateId'[t] \in {-1, updateId}
  BY <1>4 DEF Unhurt, FaultyBooks
<1> QED  BY <1>1, <1>2, <1>3, <1>4, <1>5, AckTypes, WaitUnhurt

\* A server answers InitReplFs.
LEMMA ProcInitAckUnhurt ==
  ASSUME IInv, Prompt, Unhurt, NEW s \in Server,
         NEW i \in 1 .. Len(toClient[s]), ProcInitAckMessage(s, i),
         UNCHANGED serverVars
  PROVE  Unhurt'
<1>1. i = 1 /\ ReadsHead(s)
  BY ReadsHeads DEF ProcInitAckMessage, ReadsAck, Prompt
<1>2. /\ op = "init" /\ op' = "init" /\ serverIds' \subseteq Server
      /\ recvServerId' = recvServerId
      /\ UNCHANGED <<toServer, closeRecvServerId, isFileOpen, fileName, updateId,
                     promised, inDoubt, clients>>
  BY Typing DEF ProcInitAckMessage, ReadsAck, KeepWaiting, fileVars, stagedVars,
     promiseVars, bookVars
<1>3. Fresh'
  <2>1. Fresh /\ (\A t \in Server : Pristine(t))
    BY <1>2 DEF Unhurt, Fresh
  <2>2. ASSUME NEW t \in Server PROVE Pristine(t)'
    <3>1. Left(t) /\ Pristine(t)
      BY <1>1, <2>1 DEF ReadsHead, Left
    <3>2. Only(toServer'[t], {"INIT"}) /\ Only(toClient'[t], {"INITACK"})
      BY <1>2, <3>1, LeftAnswers DEF Pristine
    <3> QED  BY <3>1, <3>2 DEF Pristine, serverVars, memoryVars, Cached
  <2> QED  BY <1>2, <2>1, <2>2 DEF Fresh
<1>4. FaultyBooks'
  <2>1. backup' = backup
    BY DEF serverVars, memoryVars
  <2> QED  BY <1>2, <2>1 DEF Unhurt, FaultyBooks
<1> QED  BY <1>2, <1>3, <1>4, InitUnhurt

\* An answer is counted, or comes from a server that was not selected, and
\* more are awaited.
LEMMA KeepWaitingUnhurt ==
  ASSUME IInv, Unhurt, NEW s \in Server, ReadsHead(s),
         op \notin {"idle", "init"}, NEW recv, KeepWaiting(recv),
         UNCHANGED serverVars, UNCHANGED bookVars, UNCHANGED serverIds,
         \/ recv = recvServerId
         \/ /\ s \in serverIds /\ recv = recvServerId \cup {s}
            /\ toClient[s][1].type = AckType[op]
            /\ ~IsFull(recv),
         op = "commit" /\ s \in serverIds /\ toClient[s][1].type = "COMMITACK" =>
           ~(toClient[s][1].fileDesc < 0)
  PROVE  Unhurt'
<1>1. /\ UNCHANGED <<op, toServer, closeRecvServerId, clients, recvServerUpdateId>>
      /\ UNCHANGED transactionVars /\ recvServerId' = recv
  BY DEF KeepWaiting, fileVars, stagedVars, promiseVars, transactionVars, bookVars
<1>2. op = "vote" => \A t \in serverIds : recvServerUpdateId'[t] \in {-1, updateId}
  BY <1>1 DEF Unhurt, FaultyBooks
<1> QED  BY <1>1, <1>2, WaitUnhurt

\* A call returns, with success or with an error.
LEMMA ReturnUnhurt ==
  ASSUME IInv, Unhurt, op \notin {"idle", "vote", "commit"},
         ExecuteOk \/ ExecuteError, UNCHANGED <<serverIds, up, clients>>,
         UNCHANGED serverVars, \A t \in serverIds : Left(t)
  PROVE  Unhurt'
<1>1. /\ op' = "idle" /\ recvServerId' = {} /\ closeRecvServerId' = {}
      /\ UNCHANGED <<toServer, fileName, promised, inDoubt>>
      /\ IF op = "abort" THEN updateId' = 0
                         ELSE UNCHANGED <<clientUpdateMap, updateId>>
  BY DEF ExecuteOk, ExecuteError, InitEnds, OpenSucceeds, OpenFails, AbortEnds,
     CloseSucceeds, CloseFileFails, ReturnToApp, ResetClient, fileVars, stagedVars,
     promiseVars
<1>2. Target' = Target
  BY <1>1 DEF Target
<1>3. \A id \in UpdateId : id < Target => clientUpdateMap'[id] = clientUpdateMap[id]
  <2>1. op = "abort" => \A id \in UpdateId : ~(id < Target)
    BY DEF Target, UpdateId
  <2> QED  BY <1>1, <2>1
<1> QED  BY <1>1, <1>2, <1>3, EndUnhurt

\* All servers have voted for all the staged updates: Commit goes out.
LEMMA VoteSucceedsUnhurt ==
  ASSUME IInv, Unhurt, op = "vote", Enter("commit", {}, <<>>, Plain("COMMIT")),
         UNCHANGED <<serverIds, up, clients, closeRecvServerId>>,
         UNCHANGED transactionVars, UNCHANGED serverVars,
         \A t \in serverIds :
           Left(t) /\ Settled(t, "vote") /\ Answered(t, "VOTEACK")
  PROVE  Unhurt'
<1> DEFINE m == Plain("COMMIT")
<1>1. m \in ClientMsg /\ m.type = "COMMIT" /\ m.type = MsgType["commit"]
  BY BuiltMessages, MsgTypes DEF Plain
<1>2. Sent(m) /\ op' = "commit" /\ recvServerId' = {}
  BY <1>1, EnterSends
<1> HIDE DEF m
<1>3. ASSUME NEW t \in serverIds PROVE FaultyChannels(t)'
  <2>1. Got(t, m) /\ Left(t)
    BY <1>2, Typing DEF Sent, Got
  <2>2. Clean(t, "commit")
    BY AckTypes, MsgTypes DEF Settled, Follow, Clean, Only
  <2> QED  BY <1>1, <1>2, <2>1, <2>2, StartFaulty
<1>4. ASSUME NEW t \in Replicas' PROVE Intact(t)'
  <2>1. t \in serverIds /\ t \in Server /\ up[t] /\ Intact(t)
    BY <1>4, IntactReplicas
  <2>2. Put(toServer[t], m, toServer'[t])
    BY <1>2, <2>1 DEF Sent
  <2> QED  BY <1>1, <1>2, <2>1, <2>2, VotedIntact
<1>5. FaultyBooks' /\ Fresh'
  BY <1>2, EmptyNotFull DEF Unhurt, FaultyBooks, Fresh
<1> QED  BY <1>3, <1>4, <1>5 DEF Unhurt

\* All servers have carried the Commit out.
LEMMA CommitSucceedsUnhurt ==
  ASSUME IInv, Unhurt, op = "commit", CommitSucceeds,
         UNCHANGED <<serverIds, up, clients>>, UNCHANGED serverVars,
         \A t \in serverIds :
           Left(t) /\ Settled(t, "commit") /\ Answered(t, "COMMITACK"),
         \A t \in Replicas : Intact(t)
  PROVE  Unhurt'
<1> DEFINE m == Plain("CLOSE")
<1>1. m \in ClientMsg /\ m.type = "CLOSE"
  BY BuiltMessages DEF Plain
<1>2. /\ ResetClient /\ promised' = [promised EXCEPT ![fileName] = After]
      /\ UNCHANGED <<fileName, inDoubt>>
      /\ \/ op' = "idle" /\ toServer' = toServer /\ recvServerId' = {}
         \/ op' = "close2" /\ Sent(m) /\ recvServerId' = closeRecvServerId
      /\ closeRecvServerId' \in {{}, closeRecvServerId}
  <2>1. ResetClient /\ UNCHANGED <<fileName, inDoubt>>
    BY DEF CommitSucceeds, fileVars
  <2>2. promised' = [promised EXCEPT ![fileName] = After]
    BY DEF CommitSucceeds, After
  <2>3. \/ ReturnToApp /\ UNCHANGED toServer
        \/ /\ Enter("close2", closeRecvServerId, <<>>, m)
           /\ closeRecvServerId' = closeRecvServerId
    BY DEF CommitSucceeds
  <2>4. \/ /\ op' = "idle" /\ toServer' = toServer
           /\ recvServerId' = {} /\ closeRecvServerId' = {}
        \/ /\ op' = "close2" /\ Sent(m) /\ recvServerId' = closeRecvServerId
           /\ closeRecvServerId' = closeRecvServerId
    BY <1>1, <2>3, EnterSends DEF ReturnToApp
  <2> QED  BY <2>1, <2>2, <2>4
<1> HIDE DEF m
<1>3. ASSUME NEW t \in serverIds PROVE FaultyChannels(t)'
  <2>1. toServer'[t] = toServer[t] \/ Got(t, m)
    BY <1>2, Typing DEF Sent, Got
  <2>2. Only(toClient[t], {"COMMITACK"}) /\ Only(toServer[t], {"COMMIT"})
    BY AckTypes, MsgTypes DEF Settled, Follow
  <2>3. /\ \A k \in 1 .. Len(toServer[t]) : toServer[t][k].type # "VOTE"
        /\ \A k \in 1 .. Len(toClient[t]) : toClient[t][k].type # "VOTEACK"
    BY <2>2 DEF Only
  <2> QED  BY <1>1, <1>2, <2>1, <2>3, OtherFaulty
<1>4. ASSUME NEW t \in Replicas' PROVE Intact(t)'
  <2>1. t \in serverIds /\ t \in Server /\ up[t] /\ Intact(t)
    BY <1>4, Typing, SameReplicas DEF Replicas
  <2>2. \/ op' = "idle" /\ toServer'[t] = toServer[t]
        \/ op' = "close2" /\ \E p : Put(toServer[t], p, toServer'[t]) /\ p.type = "CLOSE"
    BY <1>1, <1>2, <2>1 DEF Sent
  <2> QED  BY <1>2, <2>1, <2>2, CommittedIntact
<1>5. FaultyBooks' /\ Fresh'
  BY <1>2, EmptyNotFull DEF Unhurt, FaultyBooks, Fresh
<1> QED  BY <1>3, <1>4, <1>5 DEF Unhurt

\* What a read answer says, and who is left.
LEMMA PromptAck ==
  ASSUME IInv, Prompt, NEW s \in Server, NEW i \in 1 .. Len(toClient[s]),
         NEW ops, ReadsAck(s, i, ops)
  PROVE  /\ i = 1 /\ ReadsHead(s) /\ op \in ops /\ op # "idle" /\ up' = up
         /\ toClient[s][1].type = AckType[op]
         /\ clients' = clients /\ UNCHANGED bookVars
         /\ \A t \in serverIds : Left(t)
<1>1. /\ i = 1 /\ ReadsHead(s) /\ op \in ops /\ op # "idle"
      /\ toClient[s][1].type = AckType[op]
  BY ReadsHeads DEF ReadsAck, Prompt
<1>2. \A t \in serverIds : Left(t)
  BY <1>1, Typing DEF ReadsHead, Left
<1> QED  BY <1>1, <1>2 DEF ReadsAck, bookVars, ReadsHead

\* The last server has answered the Commit without an error, and so have the
\* others: no replica is half-way.
LEMMA AllCarriedOut ==
  ASSUME IInv, Unhurt, op = "commit", NEW s \in serverIds,
         1 \in 1 .. Len(toClient[s]), toClient[s][1].type = "COMMITACK",
         ~(toClient[s][1].fileDesc < 0),
         recvServerId \cup {s} = serverIds
  PROVE  \A t \in Replicas : Intact(t)
<1> SUFFICES ASSUME NEW t \in Replicas, Halfway(t) PROVE FALSE
  BY DEF Unhurt
<1>1. t \notin recvServerId /\ t \in serverIds
  BY DEF Halfway, Failing, Replicas
<1>2. t = s
  BY <1>1
<1>3. PICK k \in 1 .. Len(toClient[s]) :
        /\ toClient[s][k].type = "COMMITACK" /\ toClient[s][k].fileDesc < 0
        /\ \A j \in 1 .. k - 1 : toClient[s][j].type # "COMMITACK"
  BY <1>2 DEF Halfway, Failing
<1>4. k = 1
  BY <1>3
<1> QED  BY <1>3, <1>4

\* The answers to OpenFile, Commit and Abort.
LEMMA ProcAckUnhurt ==
  ASSUME IInv, Prompt, Unhurt, NEW s \in Server,
         NEW i \in 1 .. Len(toClient[s]), ProcAckMessage(s, i),
         UNCHANGED serverVars, inDoubt' = {}
  PROVE  Unhurt'
<1>1. ReadsAck(s, i, {"open", "commit", "abort"}) /\ UNCHANGED serverIds
  BY DEF ProcAckMessage
<1>2. /\ i = 1 /\ ReadsHead(s) /\ op \in {"open", "commit", "abort"} /\ up' = up
      /\ toClient[s][1].type = AckType[op] /\ 1 \in 1 .. Len(toClient[s])
      /\ clients' = clients /\ UNCHANGED bookVars
      /\ \A t \in serverIds : Left(t)
  BY <1>1, PromptAck DEF ReadsHead
<1>3. CASE s \in serverIds /\ toClient[s][i].fileDesc < 0
  <2>1. ExecuteError
    BY <1>3 DEF ProcAckMessage
  <2>2. op # "commit"
    BY <2>1 DEF ExecuteError, CommitFails
  <2> QED  BY <1>1, <1>2, <2>1, <2>2, ReturnUnhurt
<1>4. CASE ~(s \in serverIds /\ toClient[s][i].fileDesc < 0)
  <2>1. AfterAck(Accepted(s))
    BY <1>4 DEF ProcAckMessage
  <2>2. op = "commit" /\ s \in serverIds /\ toClient[s][1].type = "COMMITACK" =>
          ~(toClient[s][1].fileDesc < 0)
    BY <1>2, <1>4
  <2>3. CASE s \notin serverIds \/ ~IsFull(Accepted(s))
    <3>1. KeepWaiting(Accepted(s))
      BY <2>1, <2>3 DEF AfterAck, Accepted, Unhurt, FaultyBooks
    <3>2. op \notin {"idle", "init"}
      BY <1>2
    <3>3. \/ Accepted(s) = recvServerId
          \/ /\ s \in serverIds /\ Accepted(s) = recvServerId \cup {s}
             /\ ~IsFull(Accepted(s))
      BY <2>3 DEF Accepted
    <3> QED  BY <1>1, <1>2, <2>2, <3>1, <3>2, <3>3, KeepWaitingUnhurt
  <2>4. CASE s \in serverIds /\ IsFull(Accepted(s))
    <3>1. ExecuteOk
      BY <2>1, <2>4 DEF AfterAck
    <3>2. CASE op # "commit"
      BY <1>1, <1>2, <3>1, <3>2, ReturnUnhurt
    <3>3. CASE op = "commit"
      <4>1. CommitSucceeds
        BY <3>1, <3>3 DEF ExecuteOk
      <4>2. toClient[s][1].type = "COMMITACK" /\ AckType[op] = "COMMITACK"
        BY <1>2, <3>3, AckTypes
      <4>3. IsFull(recvServerId \cup {s})
        BY <2>4 DEF Accepted
      <4>4. /\ recvServerId \cup {s} = serverIds
            /\ \A t \in serverIds :
                 Left(t) /\ Settled(t, "commit") /\ Answered(t, "COMMITACK")
        BY <1>2, <2>4, <3>3, <4>2, <4>3, AllSettledUnhurt
      <4>5. \A t \in Replicas : Intact(t)
        BY <1>2, <2>2, <2>4, <3>3, <4>2, <4>4, AllCarriedOut
      <4> QED  BY <1>1, <1>2, <3>3, <4>1, <4>4, <4>5, CommitSucceedsUnhurt
    <3> QED  BY <3>2, <3>3
  <2> QED  BY <2>3, <2>4
<1> QED  BY <1>3, <1>4

\* CloseFile is refused for staged updates, and runs Commit then.
LEMMA CloseCommitsUnhurt ==
  ASSUME IInv, Unhurt, op = "close", CloseCommits,
         UNCHANGED <<serverIds, up, clients>>, UNCHANGED serverVars,
         \A t \in serverIds : Left(t)
  PROVE  Unhurt'
<1> DEFINE m == Plain("VOTE")
<1>1. m \in ClientMsg /\ m.type = MsgType["vote"]
  BY BuiltMessages, MsgTypes DEF Plain
<1>2. Sent(m) /\ op' = "vote" /\ recvServerId' = {}
  BY <1>1, EnterSends DEF CloseCommits
<1> HIDE DEF m
<1>3. /\ clients # 0 /\ ~IsFull(closeRecvServerId')
      /\ UNCHANGED <<fileName, clientUpdateMap, updateId, recvServerUpdateId,
                     promised, inDoubt>>
  BY DEF Unhurt, FaultyBooks, CloseCommits, fileVars, stagedVars, promiseVars
<1>4. \A t \in serverIds : recvServerUpdateId'[t] \in {-1, updateId}
  BY <1>3, NoVotesRecorded
<1> QED  BY <1>1, <1>2, <1>3, <1>4, NoVotesUnhurt, StartUnhurt

\* The answers to CloseFile.
LEMMA ProcCloseAckUnhurt ==
  ASSUME IInv, Prompt, Unhurt, NEW s \in Server,
         NEW i \in 1 .. Len(toClient[s]), ProcCloseAckMessage(s, i),
         UNCHANGED serverVars
  PROVE  Unhurt'
<1>1. ReadsAck(s, i, {"close", "close2"}) /\ UNCHANGED serverIds
  BY DEF ProcCloseAckMessage
<1>2. /\ i = 1 /\ ReadsHead(s) /\ op \in {"close", "close2"} /\ up' = up
      /\ toClient[s][1].type = AckType[op]
      /\ clients' = clients /\ UNCHANGED bookVars
      /\ \A t \in serverIds : Left(t)
  BY <1>1, PromptAck
<1>3. CASE ExecuteError
  BY <1>1, <1>2, <1>3, ReturnUnhurt
<1>4. CASE op = "close" /\ CloseCommits
  BY <1>1, <1>2, <1>4, CloseCommitsUnhurt
<1>5. CASE op = "close2" /\ CloseSucceeds
  <2>1. ExecuteOk
    BY <1>5 DEF ExecuteOk
  <2> QED  BY <1>1, <1>2, <2>1, ReturnUnhurt
<1>6. CASE AfterAck(Accepted(s))
  <2>1. CASE IsFull(Accepted(s)) /\ ExecuteOk
    BY <1>1, <1>2, <2>1, ReturnUnhurt
  <2>2. CASE ~IsFull(Accepted(s)) /\ KeepWaiting(Accepted(s))
    <3>1. op \notin {"idle", "init", "commit"}
      BY <1>2
    <3>2. \/ Accepted(s) = recvServerId
          \/ s \in serverIds /\ Accepted(s) = recvServerId \cup {s}
      BY DEF Accepted
    <3> QED  BY <1>1, <1>2, <2>2, <3>1, <3>2, KeepWaitingUnhurt
  <2> QED  BY <1>6, <2>1, <2>2 DEF AfterAck
<1> QED  BY <1>3, <1>4, <1>5, <1>6 DEF ProcCloseAckMessage

\* The votes: the last one ends the phase, and no update is missing.
LEMMA ProcVoteAckUnhurt ==
  ASSUME IInv, Prompt, Unhurt, NEW s \in Server,
         NEW i \in 1 .. Len(toClient[s]), ProcVoteAckMessage(s, i),
         UNCHANGED serverVars
  PROVE  Unhurt'
<1>1. ReadsAck(s, i, {"vote"}) /\ UNCHANGED serverIds
  BY DEF ProcVoteAckMessage
<1>2. /\ i = 1 /\ ReadsHead(s) /\ op = "vote" /\ up' = up
      /\ toClient[s][1].type = AckType[op] /\ 1 \in 1 .. Len(toClient[s])
      /\ clients' = clients /\ UNCHANGED bookVars
      /\ \A t \in serverIds : Left(t)
  BY <1>1, PromptAck DEF ReadsHead
<1>3. CASE s \notin serverIds
  <2>1. KeepWaiting(recvServerId)
    BY <1>3 DEF ProcVoteAckMessage, AfterAck, Unhurt, FaultyBooks
  <2> QED  BY <1>1, <1>2, <2>1, KeepWaitingUnhurt
<1>4. CASE s \in serverIds
  <2> DEFINE id == toClient[s][i].updateId
             ids == [recvServerUpdateId EXCEPT ![s] = id]
             recv == Accepted(s)
  <2>1. id = updateId
    BY <1>2, <1>4, AckTypes DEF Unhurt, FaultyChannels, VotesForAll
  <2>2. CountVote(s, id)
    BY <1>4 DEF ProcVoteAckMessage
  <2>3. recv = recvServerId \cup {s}
    BY <1>4 DEF Accepted
  <2>4. /\ ids \in [Server -> Int]
        /\ \A t \in serverIds : ids[t] \in {-1, updateId}
        /\ \A t \in Server \ serverIds : ids[t] = -1
    <3>1. \A t \in Server : recvServerUpdateId[t] # -1 => t \in serverIds
      BY DEF IInv, ClientInv, SelectionHolds, Voted
    <3>2. \A t \in serverIds : recvServerUpdateId[t] \in {-1, updateId}
      BY <1>2 DEF Unhurt, FaultyBooks
    <3>3. recvServerUpdateId \in [Server -> -1 .. MaxUpdates] /\ updateId \in Int
      BY Typing, Numbers
    <3> QED  BY <1>4, <2>1, <3>1, <3>2, <3>3, Numbers
  <2>5. /\ recvServerUpdateId' = ids
        /\ UNCHANGED transactionVars
        /\ closeRecvServerId' = closeRecvServerId
        /\ \/ /\ ~IsFull(recv)
              /\ recvServerId' = recv
              /\ UNCHANGED <<toServer, op, turn>>
           \/ IsFull(recv) /\ Enter("commit", {}, <<>>, Plain("COMMIT"))
           \/ \E smallest \in 0 .. MaxUpdates :
                SmallestIs(ids, smallest) /\ smallest # updateId
    BY <2>2 DEF CountVote, transactionVars, fileVars, promiseVars
  <2> HIDE DEF id, ids
  <2>6. CASE \E smallest \in 0 .. MaxUpdates :
               SmallestIs(ids, smallest) /\ smallest # updateId
    <3>1. PICK smallest \in 0 .. MaxUpdates :
            SmallestIs(ids, smallest) /\ smallest # updateId
      BY <2>6
    <3>2. PICK t \in Server : ids[t] = smallest
      BY <3>1 DEF SmallestIs
    <3>3. smallest # -1
      BY Numbers
    <3> QED  BY <2>4, <3>1, <3>2, <3>3
  <2>7. CASE ~IsFull(recv) /\ recvServerId' = recv /\ UNCHANGED <<toServer, op, turn>>
    <3>1. \A t \in serverIds : recvServerUpdateId'[t] \in {-1, updateId}
      BY <2>4, <2>5
    <3> QED  BY <1>1, <1>2, <1>4, <2>3, <2>5, <2>7, <3>1, WaitUnhurt
  <2>8. CASE IsFull(recv) /\ Enter("commit", {}, <<>>, Plain("COMMIT"))
    <3>1. IsFull(recvServerId \cup {s}) /\ op \in {"vote", "commit"}
      BY <1>2, <2>3, <2>8
    <3>2. \A t \in serverIds : Settled(t, op) /\ Answered(t, AckType[op])
      BY <1>2, <1>4, <3>1, AllSettledUnhurt
    <3>3. \A t \in serverIds :
            Left(t) /\ Settled(t, "vote") /\ Answered(t, "VOTEACK")
      BY <1>2, <3>2, AckTypes
    <3> QED  BY <1>1, <1>2, <2>5, <2>8, <3>3, VoteSucceedsUnhurt
  <2> QED  BY <2>5, <2>6, <2>7, <2>8
<1> QED  BY <1>3, <1>4

\* With every selected server dead or answered, and nothing under way, the
\* operation fails.
LEMMA TimeoutUnhurt ==
  ASSUME IInv, Prompt, Unhurt, Timeout, UNCHANGED serverVars, inDoubt' = {}
  PROVE  Unhurt'
<1>1. /\ op # "idle" /\ op \in Op
      /\ UNCHANGED <<toClient, up, serverIds, clients>>
      /\ ExecuteError
  BY Typing, TooFew DEF Timeout, Unhurt, FaultyBooks, bookVars
<1>2. \A t \in serverIds : Left(t)
  BY <1>1 DEF Left
<1>3. op # "commit"
  BY <1>1 DEF ExecuteError, CommitFails
<1>4. CASE op # "vote"
  BY <1>1, <1>2, <1>3, <1>4, ReturnUnhurt
<1>5. CASE op = "vote"
  <2>1. \A s \in Server : toServer[s] = <<>> /\ toClient[s] = <<>>
    BY <1>5 DEF Timeout, MayTimeOut, Prompt
  <2>2. \A t \in serverIds :
          /\ \A k \in 1 .. Len(toServer[t]) : toServer[t][k].type # "VOTE"
          /\ \A k \in 1 .. Len(toClient[t]) : toClient[t][k].type # "VOTEACK"
    BY <2>1, Typing
  <2> DEFINE m == Plain("ABORT")
  <2>3. m \in ClientMsg /\ m.type = MsgType["abort"]
    BY BuiltMessages, MsgTypes DEF Plain
  <2>4. /\ Enter("abort", {}, <<>>, m)
        /\ UNCHANGED <<closeRecvServerId, fileName, clientUpdateMap, updateId,
                       promised, inDoubt>>
    BY <1>1, <1>5 DEF ExecuteError, VoteFails, fileVars, stagedVars, promiseVars
  <2>5. Sent(m) /\ op' = "abort" /\ recvServerId' = {}
    BY <2>3, <2>4, EnterSends
  <2> HIDE DEF m
  <2>6. clients # 0 /\ ~IsFull(closeRecvServerId')
    BY <1>1, <2>4 DEF Unhurt, FaultyBooks
  <2> QED  BY <1>1, <1>2, <1>5, <2>2, <2>3, <2>4, <2>5, <2>6, StartUnhurt
<1> QED  BY <1>4, <1>5

-----------------------------------------------------------------------------
(* The invariant of the whole.                                              *)

\* The one client does not die: another would have to follow it.
LEMMA NoSecondClient ==
  ASSUME IInv, Prompt, Unhurt
  PROVE  ~ClientCrash
<1> SUFFICES ASSUME ClientCrash PROVE FALSE
  OBVIOUS
<1>1. clients = 0
  BY Typing DEF ClientCrash, Prompt
<1>2. op = "idle" /\ serverIds = {}
  BY <1>1 DEF Unhurt, FaultyBooks
<1> QED  BY <1>2 DEF ClientCrash

\* A step of the client that reports no failed commit keeps the invariant.
LEMMA ClientUnhurt ==
  ASSUME IInv, Prompt, Unhurt, ClientStep, UNCHANGED serverVars, inDoubt' = {}
  PROVE  Unhurt'
<1>1. CASE CallStep
  BY <1>1, InitReplFsUnhurt, OpenFileUnhurt, WriteBlockUnhurt, StartCallUnhurt
     DEF CallStep, Commit, Abort, CloseFile
<1>2. ASSUME NEW s \in Server, ReadStep(s) PROVE Unhurt'
  <2>1. PICK i \in 1 .. Len(toClient[s]) : HandleAck(s, i) \/ IgnoreAck(s, i)
    BY <1>2 DEF ReadStep
  <2> QED
    BY <2>1, ProcInitAckUnhurt, ProcAckUnhurt, ProcCloseAckUnhurt, ProcVoteAckUnhurt,
       IgnoreAckUnhurt DEF HandleAck
<1> QED  BY <1>1, <1>2, ResendUnhurt, TimeoutUnhurt, NoSecondClient DEF ClientStep

\* What is in doubt stays in doubt.
LEMMA DoubtStays ==
  ASSUME ClientStep
  PROVE  inDoubt \subseteq inDoubt'
<1>1. CASE CallStep
  BY <1>1 DEF CallStep, InitReplFs, OpenFile, WriteBlock, Commit, Abort, CloseFile,
     StartCall, promiseVars
<1>2. ASSUME ExecuteOk \/ ExecuteError PROVE inDoubt \subseteq inDoubt'
  BY <1>2 DEF ExecuteOk, ExecuteError, InitEnds, OpenSucceeds, OpenFails, VoteSucceeds,
     VoteFails, CommitSucceeds, CommitFails, AbortEnds, CloseSucceeds, CloseFileFails,
     promiseVars
<1>3. ASSUME NEW s \in Server, ReadStep(s) PROVE inDoubt \subseteq inDoubt'
  <2>1. PICK i \in 1 .. Len(toClient[s]) : HandleAck(s, i) \/ IgnoreAck(s, i)
    BY <1>3 DEF ReadStep
  <2>2. ASSUME NEW recv, AfterAck(recv) \/ KeepWaiting(recv)
        PROVE  inDoubt \subseteq inDoubt'
    BY <1>2, <2>2 DEF AfterAck, KeepWaiting, promiseVars
  <2>3. CASE IgnoreAck(s, i)
    BY <2>3 DEF IgnoreAck, clientVars, promiseVars
  <2>4. CASE ProcInitAckMessage(s, i) \/ ProcAckMessage(s, i)
    BY <1>2, <2>2, <2>4 DEF ProcInitAckMessage, ProcAckMessage
  <2>5. CASE ProcCloseAckMessage(s, i)
    BY <1>2, <2>2, <2>5 DEF ProcCloseAckMessage, CloseCommits, CloseSucceeds, promiseVars
  <2>6. CASE ProcVoteAckMessage(s, i)
    BY <2>2, <2>6 DEF ProcVoteAckMessage, CountVote, promiseVars
  <2> QED  BY <2>1, <2>3, <2>4, <2>5, <2>6 DEF HandleAck
<1> QED
  BY <1>1, <1>2, <1>3 DEF ClientStep, Resend, Timeout, ClientCrash, clientVars,
     promiseVars

\* The program starts in the invariant.
LEMMA InitIsUntold ==
  ASSUME Init
  PROVE  Untold
<1>1. FaultyBooks
  BY EmptyNotFull DEF Init, NetInit, ServerInit, ClientInit, FaultyBooks
<1>2. Fresh
  <2>1. Cached(NoUpdates) = {}
    BY NoUpdatesFacts
  <2> QED  BY <2>1
           DEF Init, NetInit, ServerInit, ClientInit, Fresh, Pristine, Only, Cached
<1>3. serverIds = {}
  BY DEF Init, ClientInit
<1> QED  BY <1>1, <1>2, <1>3 DEF Untold, Replicas

\* Every step of replFs keeps the invariant.
LEMMA NextUntold ==
  ASSUME IInv, Prompt, Untold, [Next]_vars
  PROVE  Untold'
<1> SUFFICES ASSUME inDoubt' = {} PROVE Unhurt'
  BY DEF Untold, Unhurt
<1>1. ASSUME inDoubt = {} PROVE Unhurt
  BY <1>1 DEF Untold, Unhurt
<1>2. ASSUME NEW s \in Server, ServerStep(s), UNCHANGED clientVars PROVE Unhurt'
  <2>1. inDoubt = {}
    BY <1>2 DEF clientVars, promiseVars
  <2> QED  BY <1>1, <1>2, <2>1, ServerUnhurt
<1>3. CASE ClientStep /\ UNCHANGED serverVars
  <2>1. inDoubt = {}
    BY <1>3, DoubtStays
  <2> QED  BY <1>1, <1>3, <2>1, ClientUnhurt
<1>4. CASE UNCHANGED vars
  <2>1. UNCHANGED clientVars /\ UNCHANGED <<toServer, toClient, up>>
        /\ UNCHANGED serverVars
    BY <1>4 DEF vars, netVars
  <2>2. UNCHANGED <<fileFullname, updateMap, nextUpdateId, fp, disk, backup>>
    BY <2>1 DEF serverVars, memoryVars
  <2>3. /\ UNCHANGED <<op, recvServerId, closeRecvServerId, serverIds, clients>>
        /\ UNCHANGED <<isFileOpen, fileName, updateId, promised, inDoubt>>
        /\ UNCHANGED recvServerUpdateId
    BY <2>1 DEF clientVars, callVars, fileVars, stagedVars, bookVars, promiseVars
  <2>4. Unhurt
    BY <1>1, <2>3
  <2>5. \A t \in serverIds' : FaultyChannels(t)'
    BY <2>1, <2>3, <2>4, FaultyKept DEF Unhurt
  <2>6. ASSUME NEW t \in Replicas' PROVE Intact(t)' \/ Halfway(t)'
    <3>1. Untouched(t) /\ (Intact(t) \/ Halfway(t))
      BY <2>1, <2>2, <2>3, <2>4, <2>6 DEF Unhurt, Replicas, Untouched
    <3> QED  BY <2>1, <3>1, ReplicaUntouched
  <2>7. FaultyBooks'
    BY <2>2, <2>3, <2>4 DEF Unhurt, FaultyBooks, IsFull
  <2>8. Fresh'
    BY <2>1, <2>2, <2>3, <2>4 DEF Unhurt, Fresh, Pristine, Only, Cached
  <2> QED  BY <2>5, <2>6, <2>7, <2>8 DEF Unhurt
<1> QED  BY <1>2, <1>3, <1>4 DEF Next

-----------------------------------------------------------------------------
(* The theorems.                                                            *)

\* Where packets arrive in order and in time, and any disk and any server may
\* fail, each live replica has made of its calls what a working one would
\* have, or has failed in the commit that is going on and said so, until the
\* application is told of a failed commit.  It is about the error paths of
\* procCommitMessage and procCloseMessage.
THEOREM UntoldAlways == Prompt => (Spec => []Untold)
<1> SUFFICES ASSUME Prompt PROVE Spec => []Untold
  OBVIOUS
<1>1. Init => Untold
  BY InitIsUntold
<1>2. IInv /\ Untold /\ [Next]_vars => Untold'
  BY NextUntold
<1> QED  BY <1>1, <1>2, Invariance, PTL DEF Spec

\* A failing disk damages no file the application does not hear about: until a
\* commit phase has ended in an error every live replica holds each file as the
\* successful commits left it, but the file whose Commit is under way.  It is
\* about an update that procCommitMessage writes half, or not at all, and what
\* the client makes of the COMMITACKs.
THEOREM DamageReported == Prompt => (Spec => []DamageIsReported)
<1> SUFFICES ASSUME Prompt PROVE Spec => []DamageIsReported
  OBVIOUS
<1>1. Untold => DamageIsReported
  <2> SUFFICES ASSUME Untold, inDoubt = {}, NEW s \in Replicas, NEW f \in File,
                      disk[s][f] # promised[f]
               PROVE  op = "commit" /\ f = fileName
    BY DEF DamageIsReported
  <2>1. Intact(s) \/ Halfway(s)
    BY DEF Untold
  <2> QED  BY <2>1 DEF Intact, OnDisk, Halfway
<1> QED  BY <1>1, UntoldAlways, PTL
=============================================================================
