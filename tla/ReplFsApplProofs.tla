-------------------------- MODULE ReplFsApplProofs --------------------------
(***************************************************************************)
(* The sample application, on a dependable network and on one that loses   *)
(* packets: what main() knows at each of its calls, and what every replica *)
(* holds when it is through.                                               *)
(***************************************************************************)
EXTENDS ReplFsAppl, ReplFsAbstractProofs

-----------------------------------------------------------------------------
(* The application is one of those the library is made for.                 *)

\* Every step of main() and of the library below it is a step of replFs.
LEMMA ApplStepIsStep ==
  ASSUME IInv, [ApplNext]_applVars
  PROVE  [Next]_vars
<1>1. ASSUME NEW s \in Server, ServerStep(s), UNCHANGED clientVars
      PROVE  Next
  BY <1>1 DEF Next
<1>2. ASSUME MainCalls
      PROVE  ClientStep
  <2>1. ASSUME WriteBlock(Line[updateId])
        PROVE  \E u \in Update : WriteBlock(u)
    <3>1. updateId \in 0 .. MaxUpdates /\ updateId < MaxUpdates
      BY <2>1 DEF WriteBlock, IInv, ClientInv, ClientTypeOK
    <3>2. Line[updateId] \in Update
      BY <3>1, ApplAssumption, DataAssumption DEF UpdateId
    <3> QED  BY <2>1, <3>2
  <2>2. ASSUME OpenFile(fileName0)
        PROVE  \E f \in File : OpenFile(f)
    BY <2>2, ApplAssumption
  <2> QED  BY <1>2, <2>1, <2>2 DEF MainCalls, ClientStep, CallStep
<1>3. ASSUME LibraryWorks
      PROVE  ClientStep
  BY <1>3 DEF LibraryWorks, ClientStep
<1>4. CASE UNCHANGED applVars
  BY <1>4 DEF applVars
<1> QED  BY <1>1, <1>2, <1>3, <1>4 DEF ApplNext, Next

\* Whatever is proved of replFs holds below the application.
THEOREM ApplRunsReplFs == ApplSpec => Spec
<1>1. ApplInit => Init /\ IInv
  BY InitSafe DEF ApplInit
<1>2. IInv /\ [ApplNext]_applVars => IInv' /\ [Next]_vars
  BY ApplStepIsStep, NextSafe
<1> QED  BY <1>1, <1>2, PTL DEF ApplSpec, Spec

-----------------------------------------------------------------------------
(* The library, as far as main() is concerned.                              *)

\* execute goes on.
Waits == UNCHANGED <<op, api, transactionVars>>

\* All servers voted, and the last one's vote was read.
VotesIn ==
  /\ op = "vote" /\ op' = "commit"
  /\ UNCHANGED <<api, transactionVars>>

\* An answer leaves execute waiting, or ends it.
LEMMA AfterAckEnds ==
  ASSUME NEW recv, AfterAck(recv)
  PROVE  Waits \/ ExecuteOk
BY DEF AfterAck, KeepWaiting, Waits, transactionVars, fileVars, stagedVars, promiseVars

\* What main() relies on: InitReplFs comes first and finds servers nobody has
\* used, and with nothing staged no server refuses to close.
Relied ==
  /\ clients = 0 => op = "idle"
  /\ Fresh
  /\ op = "close" /\ updateId = 0 =>
       \A s \in serverIds : \A k \in 1 .. Len(toClient[s]) :
         toClient[s][k].type = "CLOSEACK" => toClient[s][k].fileDesc = 0

\* It may, where nothing is lost ...
LEMMA ReliableIsRelied ==
  ASSUME Reliable
  PROVE  Relied
BY DEF Reliable, Bookkeeping, Channels, Answers, Relied

\* ... and where only the order is kept.
LEMMA TolerantIsRelied ==
  ASSUME IInv, Tolerant
  PROVE  Relied
<1>1. serverIds \subseteq Server
  BY DEF IInv, ClientInv, ClientTypeOK
<1> QED  BY <1>1 DEF Tolerant, LossyBooks, LossyChannels, NoErrors, Relied

\* A step of the library waits, ends an operation, or goes on from the vote to
\* the commit phase.
LEMMA LibrarySteps ==
  ASSUME Relied, op # "idle",
         (\E s \in Server : ReadStep(s)) \/ Resend \/ Timeout
  PROVE  \/ Waits \/ VotesIn \/ ExecuteOk \/ ExecuteError
         \/ op = "close" /\ updateId # 0
<1>1. CASE Resend
  BY <1>1 DEF Resend, Waits, transactionVars, clientVars, callVars, fileVars, stagedVars,
              promiseVars, bookVars
<1>2. CASE Timeout
  BY <1>2 DEF Timeout
<1>3. ASSUME NEW s \in Server, NEW i \in 1 .. Len(toClient[s]), IgnoreAck(s, i)
      PROVE  Waits
  BY <1>3 DEF IgnoreAck, Waits, transactionVars, clientVars, callVars, fileVars, stagedVars,
              promiseVars, bookVars
<1>4. ASSUME NEW s \in Server, NEW i \in 1 .. Len(toClient[s]), ProcInitAckMessage(s, i)
      PROVE  Waits
  BY <1>4 DEF ProcInitAckMessage, KeepWaiting, Waits, transactionVars, fileVars, stagedVars,
              promiseVars
<1>5. ASSUME NEW s \in Server, NEW i \in 1 .. Len(toClient[s]), ProcAckMessage(s, i)
      PROVE  Waits \/ ExecuteOk \/ ExecuteError
  BY <1>5, AfterAckEnds DEF ProcAckMessage
<1>6. ASSUME NEW s \in Server, NEW i \in 1 .. Len(toClient[s]), ProcCloseAckMessage(s, i)
      PROVE  \/ Waits \/ ExecuteOk \/ ExecuteError
             \/ op = "close" /\ updateId # 0
  <2> DEFINE desc == IF s \in serverIds THEN toClient[s][i].fileDesc ELSE 0
  <2>1. /\ ReadsAck(s, i, {"close", "close2"})
        /\ \/ desc < 0 /\ ExecuteError
           \/ desc = 1 /\ op = "close" /\ CloseCommits
           \/ desc = 1 /\ op = "close2" /\ CloseSucceeds
           \/ desc = 0 /\ AfterAck(Accepted(s))
    BY <1>6 DEF ProcCloseAckMessage
  <2>2. CASE desc = 1 /\ op = "close"
    <3>1. s \in serverIds /\ toClient[s][i].fileDesc = 1 /\ toClient[s][i].type = "CLOSEACK"
      BY <2>1, <2>2, AckTypes DEF ReadsAck
    <3> QED  BY <2>2, <3>1 DEF Relied
  <2>3. CASE op = "close2" /\ CloseSucceeds
    BY <2>3 DEF ExecuteOk
  <2> QED  BY <2>1, <2>2, <2>3, AfterAckEnds
<1>7. ASSUME NEW s \in Server, NEW i \in 1 .. Len(toClient[s]), ProcVoteAckMessage(s, i)
      PROVE  Waits \/ VotesIn \/ ExecuteOk
  <2>1. op = "vote"
    BY <1>7 DEF ProcVoteAckMessage, ReadsAck
  <2>2. ASSUME CountVote(s, toClient[s][i].updateId)
        PROVE  Waits \/ VotesIn
    BY <2>1, <2>2 DEF CountVote, Enter, Waits, VotesIn, transactionVars, fileVars, promiseVars
  <2> QED  BY <1>7, <2>2, AfterAckEnds DEF ProcVoteAckMessage
<1> QED  BY <1>1, <1>2, <1>3, <1>4, <1>5, <1>6, <1>7 DEF ReadStep, HandleAck

-----------------------------------------------------------------------------
(* main() stays on course.                                                  *)

\* Where main() goes after a call that succeeds.
LEMMA NextCalls ==
  /\ NextCall("InitReplFs") = "OpenFile" /\ NextCall("OpenFile") = "WriteBlock"
  /\ NextCall("Commit") = "CloseFile" /\ NextCall("CloseFile") = "NormalExit"
BY DEF NextCall

\* The file after a commit of all the lines to a new file.
LEMMA LinesCommitted ==
  ASSUME IInv, NoneCommitted, FollowsLines, updateId = MaxUpdates
  PROVE  Apply(Opened(promised[fileName0]), clientUpdateMap, updateId) = AllLines
<1>1. clientUpdateMap \in UpdateMap
  BY DEF IInv, ClientInv, ClientTypeOK
<1>2. \A i \in UpdateId : clientUpdateMap[i] = Line[i]
  BY DataAssumption DEF FollowsLines, UpdateId
<1>3. clientUpdateMap = Line
  BY <1>1, <1>2, ApplAssumption DEF UpdateMap
<1> QED  BY <1>3 DEF NoneCommitted, Opened, AllLines

\* A call made by main().
LEMMA CallOnCourse ==
  ASSUME IInv, OnCourse, MainCalls
  PROVE  OnCourse'
<1>1. CASE at = "InitReplFs" /\ InitReplFs /\ UNCHANGED at
  BY <1>1 DEF InitReplFs, Enter, stagedVars, OnCourse, Opening, Staging, Finishing
<1>2. CASE at = "OpenFile" /\ OpenFile(fileName0) /\ UNCHANGED at
  <2>1. /\ op' = "open" /\ fileName' = fileName0
        /\ UNCHANGED <<isFileOpen, updateId, promised, inDoubt>>
    BY <1>2 DEF OpenFile, Enter, stagedVars, promiseVars
  <2> QED  BY <1>2, <2>1 DEF OnCourse, Opening, Staging, Finishing, NoneCommitted
<1>3. CASE /\ at = "WriteBlock" /\ WriteBlock(Line[updateId])
           /\ at' = IF updateId' = MaxUpdates THEN "Commit" ELSE at
  <2>1. /\ updateId < MaxUpdates /\ updateId' = updateId + 1
        /\ clientUpdateMap' = [clientUpdateMap EXCEPT ![updateId] = Line[updateId]]
        /\ UNCHANGED <<op, isFileOpen, fileName, promised, inDoubt>>
    BY <1>3 DEF WriteBlock, callVars, fileVars, promiseVars
  <2>2. /\ updateId \in 0 .. MaxUpdates /\ MaxUpdates \in Nat
        /\ clientUpdateMap \in UpdateMap
    BY DataAssumption DEF IInv, ClientInv, ClientTypeOK
  <2>3. isFileOpen /\ fileName = fileName0 /\ op = "idle" /\ NoneCommitted /\ FollowsLines
    BY <1>3 DEF OnCourse, Staging
  <2>4. ASSUME NEW i \in UpdateId, i < updateId'
        PROVE  clientUpdateMap'[i] = Line[i]
    <3>1. i < updateId \/ i = updateId
      BY <2>1, <2>2, <2>4 DEF UpdateId
    <3> QED  BY <2>1, <2>2, <2>3, <3>1 DEF FollowsLines, UpdateMap
  <2>5. FollowsLines'
    BY <2>4 DEF FollowsLines
  <2>6. NoneCommitted'
    BY <2>1, <2>3 DEF NoneCommitted
  <2>7. updateId' # MaxUpdates => updateId' < MaxUpdates
    BY <2>1, <2>2
  <2> QED  BY <1>3, <2>1, <2>3, <2>5, <2>6, <2>7 DEF OnCourse, Opening, Staging, Finishing
<1>4. CASE at = "Commit" /\ Commit /\ UNCHANGED at
  <2>1. /\ op = "idle" /\ op' = "vote" /\ api' = "Commit"
        /\ UNCHANGED <<isFileOpen, fileName, clientUpdateMap, updateId, promised, inDoubt>>
    BY <1>4 DEF Commit, StartCall, Called, Enter, fileVars, stagedVars, promiseVars
  <2> QED
    BY <1>4, <2>1 DEF OnCourse, Opening, Staging, Finishing, NoneCommitted, FollowsLines
<1>5. CASE at = "CloseFile" /\ CloseFile /\ UNCHANGED at
  <2>1. op' = "close" /\ UNCHANGED <<updateId, promised, inDoubt>>
    BY <1>5 DEF CloseFile, StartCall, Enter, stagedVars, promiseVars
  <2> QED  BY <1>5, <2>1 DEF OnCourse, Opening, Staging, Finishing
<1> QED  BY <1>1, <1>2, <1>3, <1>4, <1>5 DEF MainCalls

\* What the call main() waits for does and returns.
LEMMA LibraryOnCourse ==
  ASSUME IInv, Relied, OnCourse, LibraryWorks
  PROVE  OnCourse'
<1>1. /\ op # "idle"
      /\ at' = IF op' # "idle" THEN at
               ELSE IF ReturnsOk THEN NextCall(at) ELSE "ErrorExit"
  BY DEF LibraryWorks
<1>2. \/ Waits \/ VotesIn \/ ExecuteOk \/ ExecuteError
      \/ op = "close" /\ updateId # 0
  BY LibrarySteps DEF LibraryWorks
<1>3. CASE Waits
  <2>1. at' = at /\ UNCHANGED <<op, api, transactionVars>>
    BY <1>1, <1>3 DEF Waits
  <2>2. at = "InitReplFs" => op = "init"
    BY <1>1 DEF OnCourse, Opening, Relied
  <2> QED
    BY <2>1, <2>2 DEF transactionVars, OnCourse, Opening, Staging, Finishing, NoneCommitted,
                      FollowsLines
<1>4. CASE at = "InitReplFs" /\ ~Waits
  <2>1. op = "init"
    BY <1>1, <1>4 DEF OnCourse, Opening, Relied
  <2>2. InitEnds
    BY <1>2, <1>4, <2>1 DEF VotesIn, ExecuteOk, ExecuteError
  <2>3. op' = "idle" /\ UNCHANGED <<isFileOpen, updateId, promised, inDoubt>>
    BY <2>2 DEF InitEnds, ReturnToApp, fileVars, stagedVars, promiseVars
  <2>4. /\ ~isFileOpen /\ inDoubt = {} /\ promised[fileName0] = Absent
        /\ updateId = 0
    BY <1>4, <2>1, ApplAssumption DEF Relied, Fresh, OnCourse, Opening
  <2>5. at' \in {"OpenFile", "ErrorExit"}
    BY <1>1, <1>4, <2>3, NextCalls
  <2> QED
    BY <2>3, <2>4, <2>5 DEF OnCourse, Opening, Staging, Finishing, NoneCommitted
<1>5. CASE at = "OpenFile" /\ ~Waits
  <2>1. op = "open" /\ ~isFileOpen /\ NoneCommitted /\ fileName = fileName0
    BY <1>1, <1>5 DEF OnCourse, Opening
  <2>2. updateId = 0 /\ 0 < MaxUpdates
    BY <1>5, DataAssumption DEF OnCourse, Opening
  <2>3. OpenSucceeds \/ OpenFails
    BY <1>2, <1>5, <2>1 DEF VotesIn, ExecuteOk, ExecuteError
  <2>4. op' = "idle" /\ UNCHANGED <<fileName, updateId, promised, inDoubt>>
    BY <2>3 DEF OpenSucceeds, OpenFails, ReturnToApp, fileVars, stagedVars, promiseVars
  <2>5. isFileOpen' => at' = "WriteBlock"
    BY <1>1, <1>5, <2>4, NextCalls DEF ReturnsOk
  <2>6. ~isFileOpen' => at' = "ErrorExit"
    BY <1>1, <1>5, <2>4 DEF ReturnsOk
  <2>7. FollowsLines'
    BY <2>2, <2>4 DEF FollowsLines, UpdateId
  <2> QED
    BY <2>1, <2>2, <2>3, <2>4, <2>5, <2>6, <2>7
    DEF OnCourse, Opening, Staging, Finishing, NoneCommitted, OpenSucceeds, OpenFails, fileVars
<1>6. CASE at = "Commit" /\ op = "vote" /\ ~Waits
  <2>1. VotesIn \/ VoteSucceeds \/ VoteFails
    BY <1>2, <1>6 DEF ExecuteOk, ExecuteError
  <2>2. op' \in {"commit", "abort"} /\ UNCHANGED <<api, transactionVars>>
    BY <2>1 DEF VotesIn, VoteSucceeds, VoteFails, Enter, transactionVars, fileVars,
                stagedVars, promiseVars
  <2> QED
    BY <1>1, <1>6, <2>2 DEF transactionVars, OnCourse, Opening, Staging, Finishing, NoneCommitted,
                            FollowsLines
<1>7. CASE at = "Commit" /\ op = "commit" /\ ~Waits
  <2>1. /\ api = "Commit" /\ isFileOpen /\ fileName = fileName0
        /\ NoneCommitted /\ FollowsLines /\ updateId = MaxUpdates
    BY <1>7 DEF OnCourse, Staging
  <2>2. CommitSucceeds \/ CommitFails
    BY <1>2, <1>7 DEF VotesIn, ExecuteOk, ExecuteError
  <2>3. CASE CommitFails
    <3>1. op' = "abort" /\ UNCHANGED <<isFileOpen, fileName>>
      BY <2>3 DEF CommitFails, Enter, fileVars
    <3> QED
      BY <1>1, <1>7, <2>1, <3>1 DEF OnCourse, Opening, Staging, Finishing
  <2>4. CASE CommitSucceeds
    <3>1. op' = "idle" /\ updateId' = 0 /\ inDoubt' = inDoubt
          /\ promised' = [promised EXCEPT ![fileName0] =
                            Apply(Opened(@), clientUpdateMap, updateId)]
      BY <2>1, <2>4 DEF CommitSucceeds, ReturnToApp, ResetClient
    <3>2. promised'[fileName0] = AllLines
      BY <2>1, <3>1, LinesCommitted, ApplAssumption DEF IInv, ClientInv, ClientTypeOK
    <3>3. at' = "CloseFile"
      BY <1>1, <1>7, <3>1, NextCalls DEF ReturnsOk
    <3> QED
      BY <2>1, <3>1, <3>2, <3>3 DEF OnCourse, Opening, Staging, Finishing, NoneCommitted
  <2> QED  BY <2>2, <2>3, <2>4
<1>8. CASE at = "Commit" /\ op = "abort" /\ ~Waits
  <2>1. AbortEnds
    BY <1>2, <1>8 DEF VotesIn, ExecuteOk, ExecuteError
  <2>2. op' = "idle"
    BY <2>1 DEF AbortEnds, ReturnToApp
  <2>3. at' = "ErrorExit"
    BY <1>1, <1>8, <2>2 DEF ReturnsOk
  <2> QED  BY <2>3 DEF OnCourse, Opening, Staging, Finishing
<1>9. CASE at = "CloseFile" /\ ~Waits
  <2>1. /\ op = "close" /\ updateId = 0
        /\ promised[fileName0] = AllLines /\ inDoubt = {}
    BY <1>1, <1>9 DEF OnCourse, Finishing
  <2>2. CloseSucceeds \/ CloseFileFails
    BY <1>2, <1>9, <2>1 DEF VotesIn, ExecuteOk, ExecuteError
  <2>3. op' = "idle" /\ UNCHANGED <<updateId, promised, inDoubt>>
    BY <2>2 DEF CloseSucceeds, CloseFileFails, ReturnToApp, stagedVars, promiseVars
  <2>4. at' = IF ~isFileOpen' THEN "NormalExit" ELSE "ErrorExit"
    BY <1>1, <1>9, <2>3, NextCalls DEF ReturnsOk
  <2> QED
    BY <2>1, <2>3, <2>4 DEF OnCourse, Opening, Staging, Finishing
<1>10. CASE at \notin {"InitReplFs", "OpenFile", "WriteBlock", "Commit", "CloseFile",
                       "NormalExit"}
  <2>1. at' = at \/ at' = "ErrorExit"
    BY <1>1, <1>10 DEF ReturnsOk
  <2> QED  BY <1>10, <2>1 DEF OnCourse, Opening, Staging, Finishing
<1> QED
  BY <1>1, <1>3, <1>4, <1>5, <1>6, <1>7, <1>8, <1>9, <1>10
  DEF OnCourse, Staging, Finishing

\* Every step of main(), of the library and of the servers keeps it.
LEMMA NextOnCourse ==
  ASSUME IInv, Relied, OnCourse, [ApplNext]_applVars
  PROVE  OnCourse'
<1>1. CASE UNCHANGED <<clientVars, at>>
  <2>1. UNCHANGED <<op, api, clients, isFileOpen, fileName, clientUpdateMap, updateId,
                    promised, inDoubt, at>>
    BY <1>1 DEF clientVars, callVars, fileVars, stagedVars, bookVars, promiseVars
  <2> QED
    BY <2>1 DEF OnCourse, Opening, Staging, Finishing, NoneCommitted, FollowsLines
<1>2. CASE UNCHANGED applVars
  BY <1>1, <1>2 DEF applVars, vars
<1> QED  BY <1>1, <1>2, CallOnCourse, LibraryOnCourse DEF ApplNext

\* At each of its calls main() stands where its author took it to be, whether
\* servers die or packets are lost: an operation of that call and no other
\* runs, the staged updates are its lines, and they are promised once, when
\* Commit has returned without error.
THEOREM CourseKept == Dependable \/ Ordered => (ApplSpec => []OnCourse)
<1> SUFFICES ASSUME Dependable \/ Ordered PROVE ApplSpec => []OnCourse
  OBVIOUS
<1>1. ApplInit => OnCourse
  BY DEF ApplInit, Init, ClientInit, OnCourse, Opening, Staging, Finishing
<1>2. IInv /\ Relied /\ OnCourse /\ [ApplNext]_applVars => OnCourse'
  BY NextOnCourse
<1>3. ApplSpec => []Relied
  <2>1. CASE Dependable
    <3>1. Reliable => Relied
      BY ReliableIsRelied
    <3> QED  BY <2>1, <3>1, ApplRunsReplFs, ReliableAlways, PTL
  <2>2. CASE Ordered
    <3>1. IInv /\ Tolerant => Relied
      BY TolerantIsRelied
    <3> QED  BY <2>2, <3>1, ApplRunsReplFs, Invariance, TolerantAlways, PTL
  <2> QED  BY <2>1, <2>2
<1> QED  BY <1>1, <1>2, <1>3, ApplRunsReplFs, Invariance, PTL DEF ApplSpec

\* "Writes to file complete" is the truth: when main() is through, every
\* replica still alive holds all the lines, whatever the number of lines and
\* servers, its fp is NULL and its cache empty.
THEOREM ApplWritesReachAll == Dependable => (ApplSpec => []WritesReachAll)
<1> SUFFICES ASSUME Dependable PROVE ApplSpec => []WritesReachAll
  OBVIOUS
<1>1. OnCourse /\ ReplicasMatchPromise /\ ClosedLeavesNothing => WritesReachAll
  <2> SUFFICES ASSUME OnCourse, ReplicasMatchPromise, ClosedLeavesNothing,
                      at = "NormalExit", NEW s \in Replicas
               PROVE  /\ disk[s][fileName0] = AllLines
                      /\ fp[s] = NoFile /\ Cached(updateMap[s]) = {}
    BY DEF WritesReachAll
  <2>1. op = "idle" /\ ~isFileOpen /\ promised[fileName0] = AllLines /\ inDoubt = {}
    BY DEF OnCourse, Finishing
  <2>2. disk[s][fileName0] = promised[fileName0]
    BY <2>1, ApplAssumption DEF ReplicasMatchPromise
  <2> QED  BY <2>1, <2>2 DEF ClosedLeavesNothing
<1> QED
  BY <1>1, CourseKept, ApplRunsReplFs, PromiseHolds, ClosedLeavesNothingHolds, PTL

-----------------------------------------------------------------------------
(* The end of main() where packets are lost.                                *)

\* When main() is through, the servers have let go of the file, and no packet
\* is under way that makes one take it again.
LetGo ==
  at = "NormalExit" =>
    \A s \in Server : fp[s] = NoFile /\ Only(toServer[s], {"CLOSE"})

\* A server that reads the last copies of a CLOSE does not take the file again.
LEMMA ServerStaysLetGo ==
  ASSUME IInv, Ordered, Tolerant, LetGo, NEW s \in Server, ServerStep(s), at' = at
  PROVE  LetGo'
<1> SUFFICES ASSUME at = "NormalExit", NEW t \in Server
             PROVE  fp'[t] = NoFile /\ Only(toServer'[t], {"CLOSE"})
  BY DEF LetGo, Only
<1>1. \A u \in Server : fp[u] = NoFile /\ Only(toServer[u], {"CLOSE"})
  BY DEF LetGo
<1>2. ServerReads(s)
  BY DEF ServerStep, Crash, CrashInCommit, BadFclose, Ordered, Tolerant, LossyBooks
<1>3. PICK i \in 1 .. Len(toServer[s]) : Handle(s, i) \/ DropClientPacket(s, i)
  BY <1>2 DEF ServerReads
<1>4. toServer[s][i].type = "CLOSE"
  BY <1>1 DEF Only
<1>5. CASE DropClientPacket(s, i)
  <2>1. Receives(s, i, toServer[s][i].type) /\ Consume(s, i) /\ UNCHANGED fp
    BY <1>5 DEF DropClientPacket, Receives, serverVars, memoryVars
  <2>2. /\ Taken(toServer[s], toServer'[s])
        /\ \A u \in Server : u # s => toServer'[u] = toServer[u]
    BY <2>1, Consumed DEF Ordered
  <2>3. Only(toServer'[t], {"CLOSE"})
    BY <1>1, <2>2, TakenOnly
  <2> QED  BY <1>1, <2>1, <2>3
<1>6. CASE Handle(s, i)
  <2>1. ProcCloseMessage(s, i)
    BY <1>4, <1>6
    DEF Handle, ProcInitMessage, ProcOpenFileMessage, ProcWriteBlockMessage, ProcVoteMessage,
        ProcCommitMessage, CommitOpenFails, CommitFlushFails, CommitDone, ProcAbortMessage,
        AbortWithoutBackup, RollbackRemoveFails, RollbackReopenFails, RollbackFlushFails,
        RollbackDone, RollsBack, Receives
  <2>2. CloseRefused(s, i) \/ CloseDone(s, i)
    BY <2>1 DEF ProcCloseMessage, CloseFails, Ordered
  <2>3. PICK desc \in {0, 1} :
          /\ Receives(s, i, "CLOSE") /\ Reply(s, i, Ack("CLOSEACK", desc))
          /\ UNCHANGED fp \/ SetFp(s, NoFile)
    BY <2>2 DEF CloseRefused, CloseDone, serverVars, memoryVars
  <2>4. Ack("CLOSEACK", desc) \in ServerMsg
    BY BuiltMessages DEF Ack
  <2>5. /\ Taken(toServer[s], toServer'[s])
        /\ \A u \in Server : u # s => toServer'[u] = toServer[u]
    BY <2>3, <2>4, Replied DEF Ordered
  <2>6. Only(toServer'[t], {"CLOSE"})
    BY <1>1, <2>5, TakenOnly
  <2>7. fp'[t] = NoFile
    BY <1>1, <2>3, Typing DEF SetFp
  <2> QED  BY <2>6, <2>7
<1> QED  BY <1>3, <1>5, <1>6

\* The close that main() waits for ends when all servers have answered it.
LEMMA CloseLetsGo ==
  ASSUME IInv, Ordered, Tolerant, op = "close", updateId = 0, op' = "idle", ~isFileOpen',
         (\E s \in Server : ReadStep(s)) \/ Resend \/ Timeout, UNCHANGED serverVars
  PROVE  \A t \in Server : fp'[t] = NoFile /\ Only(toServer'[t], {"CLOSE"})
<1>1. ~Resend
  BY DEF Resend, clientVars, callVars
<1>2. ~Timeout
  BY DEF Timeout, MayTimeOut, Ordered, Tolerant, LossyBooks
<1>s. PICK s \in Server : ReadStep(s)
  BY <1>1, <1>2
<1>3. PICK i \in 1 .. Len(toClient[s]) : HandleAck(s, i) \/ IgnoreAck(s, i)
  BY <1>s DEF ReadStep
<1>4. ProcCloseAckMessage(s, i)
  BY <1>3 DEF HandleAck, IgnoreAck, ProcInitAckMessage, ProcAckMessage, ProcVoteAckMessage,
              ReadsAck, clientVars, callVars
<1>5. ReadsAck(s, i, {"close", "close2"})
  BY <1>4 DEF ProcCloseAckMessage
<1>6. /\ toClient[s][i].fileDesc = 0
      /\ Accepted(s) = recvServerId \cup {s} /\ Accepted(s) \in SUBSET Server
      /\ 1 \in 1 .. Len(toClient[s]) /\ toClient[s][1].type = AckType[op]
  BY <1>5, AckRead, NoneRefused
<1>7. AfterAck(Accepted(s))
  BY <1>4, <1>6 DEF ProcCloseAckMessage
<1>8. IsFull(Accepted(s)) /\ CloseSucceeds
  BY <1>7 DEF AfterAck, KeepWaiting, ExecuteOk
<1>9. recvServerId \cup {s} = Server
  BY <1>6, <1>8, FullIsAll
<1>10. \A t \in Server : CaughtUp(t, "close") /\ Answered(t, "CLOSEACK")
  BY <1>6, <1>9, AllCaughtUp, AckTypes
<1>11. \A t \in Server : fp[t] = NoFile
  BY <1>10 DEF Tolerant, LossyHolds, LetsGo
<1>12. \A t \in Server : Only(toServer[t], {"CLOSE"})
  BY <1>10, MsgTypes DEF CaughtUp, Behind
<1> QED  BY <1>8, <1>11, <1>12 DEF CloseSucceeds, serverVars, memoryVars

\* Every step keeps it.
LEMMA NextLetsGo ==
  ASSUME IInv, Ordered, Tolerant, OnCourse, LetGo, [ApplNext]_applVars
  PROVE  LetGo'
<1>1. ASSUME NEW s \in Server, ServerStep(s), UNCHANGED <<clientVars, at>>
      PROVE  LetGo'
  BY <1>1, ServerStaysLetGo
<1>2. CASE MainCalls /\ UNCHANGED serverVars
  <2>1. at \in {"InitReplFs", "OpenFile", "WriteBlock", "Commit", "CloseFile"}
        /\ (at' = at \/ at' = "Commit")
    BY <1>2 DEF MainCalls
  <2> QED  BY <2>1 DEF LetGo
<1>3. CASE LibraryWorks /\ UNCHANGED serverVars
  <2> SUFFICES ASSUME at' = "NormalExit" PROVE LetGo'
    BY DEF LetGo
  <2>1. /\ op # "idle"
        /\ at' = IF op' # "idle" THEN at
                 ELSE IF ReturnsOk THEN NextCall(at) ELSE "ErrorExit"
    BY <1>3 DEF LibraryWorks
  <2>2. at # "NormalExit"
    BY <2>1 DEF OnCourse, Finishing
  <2>3. op' = "idle" /\ ReturnsOk /\ NextCall(at) = "NormalExit"
    BY <2>1, <2>2
  <2>4. at = "CloseFile" /\ ~isFileOpen'
    BY <2>3, NextCalls DEF ReturnsOk
  <2>5. op = "close" /\ updateId = 0
    BY <2>1, <2>4 DEF OnCourse, Finishing
  <2> QED  BY <1>3, <2>3, <2>4, <2>5, CloseLetsGo DEF LibraryWorks, LetGo, Only
<1>4. CASE UNCHANGED applVars
  BY <1>4 DEF applVars, vars, netVars, serverVars, memoryVars, LetGo, Only
<1>5. \/ \E s \in Server : ServerStep(s) /\ UNCHANGED <<clientVars, at>>
      \/ MainCalls /\ UNCHANGED serverVars
      \/ LibraryWorks /\ UNCHANGED serverVars
      \/ UNCHANGED applVars
  BY DEF ApplNext
<1> QED  BY <1>1, <1>2, <1>3, <1>4, <1>5

\* "Writes to file complete" is the truth where packets are lost, too, as long
\* as no execute runs out of time: every server then holds all the lines, has
\* set fp to NULL and nothing cached, however many rounds of votes it took to
\* bring the lines there.
THEOREM ApplWritesReachAllDespiteLoss == Ordered => (ApplSpec => []WritesReachAll)
<1> SUFFICES ASSUME Ordered PROVE ApplSpec => []WritesReachAll
  OBVIOUS
<1>1. ApplInit => LetGo
  BY DEF ApplInit, LetGo
<1>2. IInv /\ Tolerant /\ OnCourse /\ LetGo /\ [ApplNext]_applVars => LetGo'
  BY NextLetsGo
<1>3. IInv /\ Tolerant /\ OnCourse /\ LetGo => WritesReachAll
  <2> SUFFICES ASSUME IInv, Tolerant, OnCourse, LetGo, at = "NormalExit", NEW s \in Replicas
               PROVE  /\ disk[s][fileName0] = AllLines
                      /\ fp[s] = NoFile /\ Cached(updateMap[s]) = {}
    BY DEF WritesReachAll
  <2>1. s \in Server
    BY Typing DEF Replicas
  <2>2. op = "idle" /\ updateId = 0 /\ promised[fileName0] = AllLines
    BY DEF OnCourse, Finishing
  <2>3. disk[s] = promised
    BY <2>1, <2>2 DEF Tolerant, LossyHolds, AsPromised
  <2>4. \A id \in UpdateId : ~(id < 0)
    BY Numbers DEF UpdateId
  <2>5. Cached(updateMap[s]) = {}
    BY <2>1, <2>2, <2>4 DEF Tolerant, LossyHolds, OnlyMine, Mine, Cached
  <2> QED  BY <2>1, <2>2, <2>3, <2>5 DEF LetGo
<1>4. ApplSpec => []OnCourse
  BY CourseKept
<1> QED  BY <1>1, <1>2, <1>3, <1>4, ApplRunsReplFs, Invariance, TolerantAlways, PTL DEF ApplSpec

-----------------------------------------------------------------------------
(* To main() the library is AtomicFiles.                                    *)

\* main() is at one of its calls, or has ended; then the library is at rest.
AtKnown ==
  /\ at \in {"InitReplFs", "OpenFile", "WriteBlock", "Commit", "CloseFile", "NormalExit",
             "ErrorExit"}
  /\ at = "ErrorExit" => op = "idle"

LEMMA AtStaysKnown ==
  ASSUME AtKnown, [ApplNext]_applVars
  PROVE  AtKnown'
<1>1. CASE UNCHANGED <<clientVars, at>>
  <2>1. op' = op /\ at' = at
    BY <1>1 DEF clientVars, callVars
  <2> QED  BY <2>1 DEF AtKnown
<1>2. CASE MainCalls
  <2>1. at' = at \/ at' = "Commit"
    BY <1>2 DEF MainCalls
  <2>2. at # "ErrorExit"
    BY <1>2 DEF MainCalls
  <2> QED  BY <2>1, <2>2 DEF AtKnown
<1>3. CASE LibraryWorks
  <2>1. /\ op # "idle"
        /\ at' = IF op' # "idle" THEN at
                 ELSE IF ReturnsOk THEN NextCall(at) ELSE "ErrorExit"
    BY <1>3 DEF LibraryWorks
  <2>2. at # "ErrorExit"
    BY <2>1 DEF AtKnown
  <2>3. ReturnsOk => NextCall(at) \in {"OpenFile", "WriteBlock", "CloseFile", "NormalExit"}
    BY NextCalls DEF ReturnsOk
  <2> QED  BY <2>1, <2>2, <2>3 DEF AtKnown
<1>4. CASE UNCHANGED applVars
  BY <1>1, <1>4 DEF applVars, vars
<1> QED  BY <1>1, <1>2, <1>3, <1>4 DEF ApplNext

\* main() closes its file when all is committed, and so, whether servers die or
\* packets are lost, each replica goes from the old content of the file to the
\* new one in a single step, and only between main()'s call of Commit and the
\* return of it.
THEOREM ApplIsAtomic == Dependable \/ Ordered => (ApplSpec => FilesAreAtomic)
<1>1. ASSUME Dependable PROVE ApplSpec => FilesAreAtomic
  BY <1>1, ApplRunsReplFs, CommitsAreAtomic
<1>2. ASSUME Ordered PROVE ApplSpec => FilesAreAtomic
  <2>1. ApplInit => Atomic!Init /\ AtKnown
    BY InitIsAtomic DEF ApplInit, AtKnown
  <2>2. AtKnown /\ [ApplNext]_applVars => AtKnown'
    BY AtStaysKnown
  <2>3. Tolerant /\ OnCourse /\ AtKnown => ClosesEmpty
    BY DEF Tolerant, LossyBooks, OnCourse, Opening, Staging, Finishing, AtKnown, ClosesEmpty
  <2>4. IInv /\ Tolerant /\ ClosesEmpty /\ [Next]_vars
          => [Atomic!Next]_<<ReplicaFiles, Atomic!promiseState>>
    BY <1>2, NextIsAtomicDespiteLoss, StepsAreAtomic
  <2>5. ApplSpec => []OnCourse
    BY <1>2, CourseKept
  <2>6. Spec => []Tolerant
    BY <1>2, TolerantAlways
  <2> QED  BY <2>1, <2>2, <2>3, <2>4, <2>5, <2>6, ApplRunsReplFs, Invariance, PTL
           DEF ApplSpec, Spec, FilesAreAtomic, Atomic!Spec
<1> QED  BY <1>1, <1>2
=============================================================================
