------------------------ MODULE ReplFsAbstractProofs ------------------------
(***************************************************************************)
(* The refinements.  Every server of ReplFs implements Participant, for    *)
(* every group of servers, every channel and every set of files and        *)
(* blocks, as long as its disk works; and where the network is dependable, *)
(* or only loses packets, client, servers and network together implement   *)
(* AtomicFiles.                                                            *)
(***************************************************************************)
EXTENDS ReplFsAbstract, ReplFsLossyProofs

\* What the refinement mapping puts for pledge.
Pledges == [s \in Server |-> Pledge(s)]

\* Only a commit that fails half-way leaves a backup behind.
NoBackup == backup = [s \in Server |-> NoFile]

\* What the mapping of a step relies on.
RefInv == IInv /\ NoBackup

\* A step of the abstract specification, or none.
AbstractStep ==
  Participants!Next \/ UNCHANGED <<fileFullname, Pledges, nextUpdateId, disk>>

-----------------------------------------------------------------------------
(* How cache and file look through the mapping.                             *)

\* A pledge depends on the cache and on the count.
LEMMA PledgesKept ==
  ASSUME UNCHANGED <<updateMap, nextUpdateId>>
  PROVE  UNCHANGED Pledges
BY DEF Pledges, Pledge

\* A block put in the cache is not pledged before the next vote.
LEMMA CachedIsNotPledged ==
  ASSUME ServerInv, NEW s \in Server, NEW i \in 1 .. Len(toServer[s]),
         ProcWriteBlockMessage(s, i)
  PROVE  UNCHANGED Pledges
<1>1. UNCHANGED nextUpdateId
  BY DEF ProcWriteBlockMessage
<1>2. \A j \in UpdateId : \A t \in Server :
        j < nextUpdateId[t] => updateMap'[t][j] = updateMap[t][j]
  <2> DEFINE id == toServer[s][i].updateId
  <2>1. \/ UNCHANGED updateMap
        \/ /\ updateMap[s][id] = NoUpdate
           /\ updateMap' = [updateMap EXCEPT ![s][id] = toServer[s][i].update]
    BY DEF ProcWriteBlockMessage
  <2> SUFFICES ASSUME NEW j \in UpdateId, NEW t \in Server, j < nextUpdateId[t]
               PROVE  updateMap'[t][j] = updateMap[t][j]
    OBVIOUS
  <2> HIDE DEF id
  <2>2. updateMap[t][j] # NoUpdate /\ updateMap \in [Server -> UpdateMap]
    BY DEF ServerInv, ServerPrefix, HasPrefix, ServerTypeOK
  <2>3. updateMap[s] \in [UpdateId -> Update \cup {NoUpdate}]
    BY <2>2 DEF UpdateMap
  <2>4. ~(t = s /\ j = id) \/ UNCHANGED updateMap
    BY <2>1, <2>2
  <2> QED  BY <2>1, <2>2, <2>3, <2>4
<1> QED  BY <1>1, <1>2 DEF Pledges, Pledge

\* reset() empties the pledge of the server that calls it.
LEMMA ResetReleases ==
  ASSUME ServerTypeOK, NEW s \in Server, Reset(s)
  PROVE  Participants!Released(s)
<1>1. nextUpdateId' = [nextUpdateId EXCEPT ![s] = 0]
      /\ updateMap' = [updateMap EXCEPT ![s] = NoUpdates]
  BY DEF Reset
<1>2. ASSUME NEW t \in Server
      PROVE  Pledge(t)' = IF t = s THEN NoUpdates ELSE Pledge(t)
  <2>1. CASE t = s
    <3>1. nextUpdateId'[t] = 0
      BY <1>1, <2>1 DEF ServerTypeOK
    <3>2. \A i \in UpdateId : ~(i < 0)
      BY DataAssumption DEF UpdateId
    <3> QED  BY <2>1, <3>1, <3>2 DEF Pledge, NoUpdates
  <2>2. CASE t # s
    BY <1>1, <2>2 DEF Pledge, ServerTypeOK
  <2> QED  BY <2>1, <2>2
<1>3. Pledges' = [Pledges EXCEPT ![s] = NoUpdates]
  BY <1>2 DEF Pledges
<1> QED  BY <1>1, <1>3 DEF Participants!Released, Participants!NoUpdates,
            Participants!UpdateId, NoUpdates, UpdateId, Pledges

\* Writing pledged updates is writing cached ones.
LEMMA SameWrite ==
  ASSUME ServerInv, NEW s \in Server, NEW n \in 0 .. nextUpdateId[s],
         NEW content
  PROVE  Apply(content, Pledge(s), n) = Apply(content, updateMap[s], n)
<1>0. nextUpdateId[s] \in Nat
  BY DataAssumption DEF ServerInv, ServerTypeOK
<1>1. \A i \in UpdateId : i < n => Pledge(s)[i] = updateMap[s][i]
  BY <1>0, DataAssumption DEF Pledge, UpdateId
<1> DEFINE writers(map, c) == {i \in UpdateId : i < n /\ c \in map[i].block}
<1>2. ASSUME NEW c \in Cell
      PROVE  (IF writers(Pledge(s), c) = {} THEN content[c]
                ELSE Pledge(s)[Max(writers(Pledge(s), c))].data)
           = (IF writers(updateMap[s], c) = {} THEN content[c]
                ELSE updateMap[s][Max(writers(updateMap[s], c))].data)
  <2>1. writers(Pledge(s), c) = writers(updateMap[s], c)
    BY <1>1
  <2>2. CASE writers(updateMap[s], c) = {}
    BY <2>1, <2>2
  <2>3. CASE writers(updateMap[s], c) # {}
    <3>1. Max(writers(updateMap[s], c)) \in writers(updateMap[s], c)
      BY <2>3, MaxOfIds
    <3>2. Pledge(s)[Max(writers(updateMap[s], c))]
            = updateMap[s][Max(writers(updateMap[s], c))]
      BY <1>1, <3>1
    <3> QED  BY <2>1, <2>3, <3>2
  <2> QED  BY <2>2, <2>3
<1> QED  BY <1>2 DEF Apply

\* The first counted updates written to the file named, seen through the mapping.
LEMMA WritesPledged ==
  ASSUME ServerInv, NEW s \in Server, NEW n \in 0 .. nextUpdateId[s],
         fileFullname[s] # NoFile, disk' = [disk EXCEPT ![s] = Written(s, n)]
  PROVE  Participants!WritesFirst(s, n)
<1> DEFINE f == fileFullname[s]
           old == Opened(disk[s][f])
<1>1. Apply(old, Pledge(s), n) = Apply(old, updateMap[s], n)
  BY SameWrite
<1>2. Pledges[s] = Pledge(s)
  BY DEF Pledges
<1>3. disk' = [disk EXCEPT ![s] = [disk[s] EXCEPT ![f] = Apply(old, updateMap[s], n)]]
  BY DEF Written
<1>4. disk' = [disk EXCEPT ![s] = [disk[s] EXCEPT ![f] = Apply(old, Pledges[s], n)]]
  BY <1>1, <1>2, <1>3
<1> QED  BY <1>4 DEF Participants!WritesFirst, Participants!Apply, Apply,
            Participants!Opened, Opened, Participants!EmptyFile, EmptyFile,
            Participants!UpdateId, UpdateId, Participants!Max, Max, Pledges

-----------------------------------------------------------------------------
(* The steps.                                                               *)

\* A vote adds to the pledge the updates it finds, and takes none away.
LEMMA VotePledges ==
  ASSUME RefInv, NEW s \in Server, NEW i \in 1 .. Len(toServer[s]),
         ProcVoteMessage(s, i)
  PROVE  Participants!Next /\ NoBackup'
<1>1. PICK n \in nextUpdateId[s] .. MaxUpdates :
        /\ ScanStopsAt(s, n)
        /\ nextUpdateId' = [nextUpdateId EXCEPT ![s] = n]
        /\ UNCHANGED <<fileFullname, updateMap, backup, fp, disk>>
  BY DEF ProcVoteMessage
<1>2. /\ ServerInv /\ ServerTypeOK /\ ServerInv'
      /\ nextUpdateId[s] \in Nat /\ n \in 0 .. MaxUpdates
  BY ProcVoteSafe, DataAssumption DEF RefInv, IInv, ServerInv, ServerTypeOK
<1>3. nextUpdateId'[s] = n /\ UNCHANGED updateMap
  BY <1>1, <1>2 DEF ServerTypeOK
<1> DEFINE list == Pledge(s)'
<1>4. list \in UpdateMap
  BY <1>2 DEF Pledge, ServerInv, ServerTypeOK, UpdateMap
<1>5. \A j \in UpdateId : list[j] # NoUpdate <=> j < n
  <2> SUFFICES ASSUME NEW j \in UpdateId PROVE list[j] # NoUpdate <=> j < n
    OBVIOUS
  <2>1. j < n => updateMap[s][j] # NoUpdate
    BY <1>2, <1>3 DEF ServerInv, ServerPrefix, HasPrefix
  <2> QED  BY <1>3, <2>1 DEF Pledge
<1>6. \A j \in UpdateId : j < nextUpdateId[s] => list[j] = Pledges[s][j]
  BY <1>2, <1>3, DataAssumption DEF Pledge, Pledges, UpdateId
<1>7. Pledges' = [Pledges EXCEPT ![s] = list]
  <2>1. \A t \in Server : t # s => Pledge(t)' = Pledge(t)
    BY <1>1, <1>2 DEF Pledge, ServerTypeOK
  <2> QED  BY <2>1 DEF Pledges
<1> HIDE DEF list
<1>8. Participants!PledgeMore(s)
  BY <1>1, <1>4, <1>5, <1>6, <1>7
     DEF Participants!PledgeMore, Participants!UpdateMap, Participants!Update,
         Participants!UpdateId, UpdateMap, Update, UpdateId, Pledges
<1> QED  BY <1>1, <1>8 DEF Participants!Next, RefInv, NoBackup

\* Whatever a handler does with a packet, the specification allows.
LEMMA HandleRefines ==
  ASSUME RefInv, DiskFaults = FALSE, NEW s \in Server,
         NEW i \in 1 .. Len(toServer[s]), Handle(s, i)
  PROVE  AbstractStep /\ NoBackup'
<1> DEFINE Kept == UNCHANGED <<fileFullname, Pledges, nextUpdateId, disk>>
<1>0. ServerInv /\ ServerTypeOK /\ NetTypeOK /\ backup[s] = NoFile
  BY DEF RefInv, NoBackup, IInv, ServerInv
<1>1. CASE ProcInitMessage(s, i) \/ ProcCloseMessage(s, i) \/ CommitOpenFails(s, i)
  <2>1. UNCHANGED <<fileFullname, updateMap, nextUpdateId, backup, disk>>
    BY <1>1 DEF ProcInitMessage, ProcCloseMessage, CloseRefused, CloseDone,
       CloseFails, CommitOpenFails, serverVars, memoryVars
  <2> QED  BY <2>1, PledgesKept DEF AbstractStep, RefInv, NoBackup
<1>2. CASE ProcOpenFileMessage(s, i)
  <2>1. toServer[s][i].filename \in File
    BY <1>0, <1>2, ReceivedType, OpenFileFields DEF ProcOpenFileMessage, Receives
  <2>2. UNCHANGED <<Pledges, nextUpdateId, disk, backup>>
    BY <1>2, PledgesKept DEF ProcOpenFileMessage
  <2>3. Participants!Named(s)
    BY <1>2, <2>1, <2>2 DEF Participants!Named, ProcOpenFileMessage, Pledges
  <2> QED  BY <2>2, <2>3 DEF AbstractStep, Participants!Next, RefInv, NoBackup
<1>3. CASE ProcWriteBlockMessage(s, i)
  <2>1. UNCHANGED <<fileFullname, nextUpdateId, backup, disk>>
    BY <1>3 DEF ProcWriteBlockMessage
  <2> QED  BY <1>0, <1>3, <2>1, CachedIsNotPledged DEF AbstractStep, RefInv, NoBackup
<1>4. CASE ProcVoteMessage(s, i)
  BY <1>4, VotePledges DEF AbstractStep
<1>5. CASE CommitFlushFails(s, i)
  BY <1>5 DEF CommitFlushFails
<1>6. CASE CommitDone(s, i)
  <2>1. nextUpdateId[s] \in 0 .. nextUpdateId[s]
    BY <1>0, DataAssumption DEF ServerTypeOK
  <2>2. Participants!WritesFirst(s, nextUpdateId[s]) /\ Participants!Released(s)
    BY <1>0, <1>6, <2>1, WritesPledged, ResetReleases DEF CommitDone
  <2>3. Participants!CarryOut(s) /\ NoBackup'
    BY <1>6, <2>2 DEF Participants!CarryOut, CommitDone, ResetBackup, RefInv, NoBackup
  <2> QED  BY <2>3 DEF AbstractStep, Participants!Next
<1>7. CASE ProcAbortMessage(s, i)
  <2>1. AbortWithoutBackup(s, i)
    BY <1>0, <1>7 DEF ProcAbortMessage, RollsBack, RollbackRemoveFails,
       RollbackReopenFails, RollbackFlushFails, RollbackDone
  <2>2. Participants!GiveUp(s) /\ NoBackup'
    BY <1>0, <2>1, ResetReleases
       DEF Participants!GiveUp, AbortWithoutBackup, RefInv, NoBackup
  <2> QED  BY <2>2 DEF AbstractStep, Participants!Next
<1> QED  BY <1>1, <1>2, <1>3, <1>4, <1>5, <1>6, <1>7 DEF Handle, ProcCommitMessage

\* The end of the process, between two packets or half-way through a commit.
LEMMA DeathRefines ==
  ASSUME RefInv, NEW s \in Server, Dies(s),
         \/ UNCHANGED disk
         \/ /\ fileFullname[s] # NoFile
            /\ \E n \in 0 .. nextUpdateId[s] : disk' = [disk EXCEPT ![s] = Written(s, n)]
  PROVE  AbstractStep /\ NoBackup'
<1>1. ServerInv /\ ServerTypeOK
  BY DEF RefInv, IInv, ServerInv
<1>2. UNCHANGED disk \/ \E n \in 0 .. nextUpdateId[s] : Participants!WritesFirst(s, n)
  BY <1>1, WritesPledged
<1>3. Participants!Released(s)
  BY <1>1, ResetReleases DEF Dies
<1>4. Participants!Die(s) /\ NoBackup'
  BY <1>2, <1>3 DEF Participants!Die, Dies, ResetBackup, RefInv, NoBackup
<1> QED  BY <1>4 DEF AbstractStep, Participants!Next

\* Every step of the system is a step of one server's specification, or none.
LEMMA NextRefines ==
  ASSUME RefInv, DiskFaults = FALSE, [Next]_vars
  PROVE  AbstractStep /\ RefInv'
<1>1. IInv'
  BY NextSafe DEF RefInv
<1>2. ASSUME NEW s \in Server, ServerStep(s)
      PROVE  AbstractStep /\ NoBackup'
  <2>1. ASSUME NEW i \in 1 .. Len(toServer[s]), DropClientPacket(s, i)
        PROVE  AbstractStep /\ NoBackup'
    BY <2>1, PledgesKept
       DEF DropClientPacket, serverVars, memoryVars, AbstractStep, RefInv, NoBackup
  <2>2. CASE ServerReads(s)
    BY <2>1, <2>2, HandleRefines DEF ServerReads
  <2>3. CASE Crash(s) \/ CrashInCommit(s) \/ BadFclose(s)
    BY <2>3, DeathRefines DEF Crash, CrashInCommit, BadFclose
  <2> QED  BY <1>2, <2>2, <2>3 DEF ServerStep
<1>3. ASSUME UNCHANGED serverVars
      PROVE  AbstractStep /\ NoBackup'
  BY <1>3, PledgesKept DEF serverVars, memoryVars, AbstractStep, RefInv, NoBackup
<1> QED  BY <1>1, <1>2, <1>3 DEF Next, vars, RefInv

-----------------------------------------------------------------------------
\* A server whose disk works carries out exactly what it voted for, in the
\* file named last, or gives it up, whatever packets it gets and whenever
\* it is killed.
THEOREM PledgesAreKept ==
  ASSUME DiskFaults = FALSE
  PROVE  Spec => ServersKeepPledges
<1>1. Init => Participants!Init /\ RefInv
  <2> SUFFICES ASSUME Init PROVE Participants!Init /\ RefInv
    OBVIOUS
  <2>1. \A i \in UpdateId : ~(i < 0)
    BY DataAssumption DEF UpdateId
  <2>2. Pledges = [s \in Server |-> NoUpdates]
    BY <2>1 DEF Init, ServerInit, Pledges, Pledge, NoUpdates
  <2>3. RefInv
    BY InitSafe DEF RefInv, NoBackup, Init, ServerInit
  <2> QED  BY <2>2, <2>3 DEF Participants!Init, Participants!NoUpdates,
              Participants!UpdateId, NoUpdates, UpdateId, Pledges, Init, ServerInit
<1>2. RefInv /\ [Next]_vars
        => RefInv' /\ [Participants!Next]_(Participants!participantVars)
  BY NextRefines DEF AbstractStep, Participants!participantVars, Pledges
<1> QED  BY <1>1, <1>2, PTL DEF Spec, ServersKeepPledges, Participants!Spec

-----------------------------------------------------------------------------
(* The whole implements AtomicFiles: how staged updates look through the    *)
(* mapping.                                                                 *)

\* What the mapping puts for file, staged and phase.
FileName == IF isFileOpen THEN fileName ELSE NoFile
StagedUpdates == [i \in 1 .. updateId |-> clientUpdateMap[i - 1]]
Phase ==
  IF op = "commit" THEN "committing" ELSE IF op = "abort" THEN "aborting" ELSE "ready"

\* Content with update u written over it.
Over(content, u) == [c \in Cell |-> IF c \in u.block THEN u.data ELSE content[c]]

\* One more update is written over those before it.
LEMMA ApplyOneMore ==
  ASSUME NEW content, NEW map \in UpdateMap, NEW n \in UpdateId
  PROVE  Apply(content, map, n + 1) = Over(Apply(content, map, n), map[n])
<1> DEFINE writers(k, c) == {i \in UpdateId : i < k /\ c \in map[i].block}
<1> SUFFICES ASSUME NEW c \in Cell
             PROVE  (IF writers(n + 1, c) = {} THEN content[c]
                     ELSE map[Max(writers(n + 1, c))].data)
                    = IF c \in map[n].block THEN map[n].data
                      ELSE IF writers(n, c) = {} THEN content[c]
                           ELSE map[Max(writers(n, c))].data
  BY DEF Apply, Over
<1>1. CASE c \notin map[n].block
  <2>1. writers(n + 1, c) = writers(n, c)
    BY <1>1, DataAssumption DEF UpdateId
  <2> HIDE DEF writers
  <2> QED  BY <1>1, <2>1
<1>2. CASE c \in map[n].block
  <2>1. /\ n \in writers(n + 1, c)
        /\ \A i \in writers(n + 1, c) : i <= n /\ i \in Int
        /\ writers(n + 1, c) \in SUBSET UpdateId
    BY <1>2, DataAssumption DEF UpdateId
  <2> HIDE DEF writers
  <2>2. \E x \in writers(n + 1, c) : \A y \in writers(n + 1, c) : x >= y
    BY <2>1 DEF UpdateId
  <2>3. /\ Max(writers(n + 1, c)) \in writers(n + 1, c)
        /\ Max(writers(n + 1, c)) >= n
    BY <2>1, <2>2 DEF Max
  <2>4. Max(writers(n + 1, c)) = n
    BY <2>1, <2>3 DEF UpdateId
  <2> QED  BY <1>2, <2>1, <2>4
<1> QED  BY <1>1, <1>2

\* Writing the updates one after the other, as AtomicFiles does, and taking
\* the last writer of each place, as the servers' files show, is the same.
LEMMA StagedApplied ==
  ASSUME IInv, NEW content \in Content \cup {Absent}
  PROVE  Atomic!AfterStaged(content)
           = Apply(Opened(content), clientUpdateMap, updateId)
<1> DEFINE old == Opened(content)
           Writes(f) ==
             f = [n \in 0 .. Len(StagedUpdates) |->
                    IF n = 0 THEN old ELSE Over(f[n - 1], StagedUpdates[n])]
           g == [n \in 0 .. updateId |-> Apply(old, clientUpdateMap, n)]
           after == CHOOSE f : Writes(f)
<1>1. /\ updateId \in Nat /\ updateId <= MaxUpdates /\ old \in Content
      /\ clientUpdateMap \in UpdateMap /\ MaxUpdates \in Nat
  BY Typing, Numbers, OpenedType
<1>2. Len(StagedUpdates) = updateId
      /\ \A n \in 1 .. updateId : StagedUpdates[n] = clientUpdateMap[n - 1]
  BY <1>1 DEF StagedUpdates
<1>3. Atomic!AfterStaged(content) = after[Len(StagedUpdates)]
  BY DEF Atomic!AfterStaged, Atomic!Overwrite, Atomic!Opened, Atomic!EmptyFile,
     Opened, EmptyFile, StagedUpdates, Over
<1> HIDE DEF old
<1>4. Writes(g)
  <2>1. ASSUME NEW n \in 0 .. updateId
        PROVE  g[n] = IF n = 0 THEN old ELSE Over(g[n - 1], StagedUpdates[n])
    <3>1. CASE n = 0
      BY <1>1, <3>1, NothingWritten
    <3>2. CASE n # 0
      <4>1. n - 1 \in UpdateId /\ n - 1 \in 0 .. updateId /\ n \in 1 .. updateId
            /\ (n - 1) + 1 = n
        BY <1>1, <3>2 DEF UpdateId
      <4>2. Apply(old, clientUpdateMap, (n - 1) + 1)
              = Over(Apply(old, clientUpdateMap, n - 1), clientUpdateMap[n - 1])
        BY <1>1, <4>1, ApplyOneMore
      <4> QED  BY <1>2, <3>2, <4>1, <4>2
    <3> QED  BY <3>1, <3>2
  <2> QED  BY <1>2, <2>1
<1>5. ASSUME NEW f, Writes(f) PROVE \A n \in 0 .. updateId : f[n] = g[n]
  <2> DEFINE wrong == {n \in 0 .. updateId : f[n] # g[n]}
  <2> SUFFICES ASSUME wrong # {} PROVE FALSE
    OBVIOUS
  <2>1. PICK n \in wrong : \A k \in wrong : n <= k
    <3>1. wrong \in SUBSET Nat
      BY <1>1
    <3> HIDE DEF wrong
    <3> QED  BY <3>1, Smallest
  <2>2. n \in 0 .. updateId /\ f[n] # g[n]
    BY <2>1
  <2>3. /\ f[n] = IF n = 0 THEN old ELSE Over(f[n - 1], StagedUpdates[n])
        /\ g[n] = IF n = 0 THEN old ELSE Over(g[n - 1], StagedUpdates[n])
    <3>1. \A h : Writes(h) => h[n] = IF n = 0 THEN old
                                      ELSE Over(h[n - 1], StagedUpdates[n])
      BY <1>2, <2>2
    <3> HIDE DEF Writes, g
    <3> QED  BY <1>4, <1>5, <3>1
  <2>4. n # 0
    BY <2>2, <2>3
  <2>5. n - 1 \in 0 .. updateId /\ ~(n <= n - 1)
    BY <1>1, <2>2, <2>4
  <2>6. f[n - 1] = g[n - 1]
    BY <2>1, <2>5
  <2> QED  BY <2>2, <2>3, <2>6
<1>6. Writes(after)
  <2> HIDE DEF Writes, g
  <2> QED  BY <1>4
<1>7. after[updateId] = g[updateId]
  <2>1. updateId \in 0 .. updateId
    BY <1>1
  <2> HIDE DEF Writes, after, g
  <2> QED  BY <1>5, <1>6, <2>1
<1>8. g[updateId] = Apply(old, clientUpdateMap, updateId)
  BY <1>1
<1> HIDE DEF after, g
<1> QED  BY <1>2, <1>3, <1>7, <1>8 DEF old

-----------------------------------------------------------------------------
(* The whole implements AtomicFiles: the servers' steps.                    *)

\* What the client's part of the mapping puts.
clientImage == <<FileName, StagedUpdates, Phase, promised, inDoubt>>

\* A step of AtomicFiles, or none.
AtomicStep == Atomic!Next \/ UNCHANGED <<ReplicaFiles, clientImage>>

\* The same as the mapping has it.
LEMMA StepsAreAtomic ==
  ASSUME AtomicStep
  PROVE  [Atomic!Next]_<<ReplicaFiles, Atomic!promiseState>>
BY DEF AtomicStep, clientImage, Atomic!promiseState, FileName, StagedUpdates, Phase

\* A step of a server alone does not show in what the mapping takes from the client.
LEMMA ClientImageKept ==
  ASSUME UNCHANGED clientVars
  PROVE  UNCHANGED clientImage /\ Atomic!promiseState' = Atomic!promiseState
BY DEF clientImage, FileName, StagedUpdates, Phase, Atomic!promiseState, clientVars,
       callVars, fileVars, stagedVars, promiseVars

\* Only a handler of COMMIT changes a disk, when disks work.
LEMMA OnlyCommitWrites ==
  ASSUME DiskFaults = FALSE, NEW s \in Server, NEW i \in 1 .. Len(toServer[s]),
         Handle(s, i), backup[s] = NoFile, disk'[s] # disk[s]
  PROVE  CommitDone(s, i)
<1>1. ProcCommitMessage(s, i)
  BY DEF Handle, ProcInitMessage, ProcOpenFileMessage, ProcWriteBlockMessage,
     ProcVoteMessage, ProcAbortMessage, AbortWithoutBackup, RollbackRemoveFails,
     RollbackReopenFails, RollbackFlushFails, RollbackDone, RollsBack,
     ProcCloseMessage, CloseRefused, CloseDone, CloseFails, serverVars
<1> QED  BY <1>1 DEF ProcCommitMessage, CommitOpenFails, CommitFlushFails

\* A handler that changes the disk of a replica commits all staged updates to
\* it at once, if the server has them and the client has decided.
LEMMA WriteIsAtomic ==
  ASSUME IInv, DiskFaults = FALSE, NEW s \in Server,
         NEW i \in 1 .. Len(toServer[s]), Handle(s, i), UNCHANGED clientVars,
         backup[s] = NoFile,
         s \in Replicas /\ CommitDone(s, i) /\ disk'[s] # disk[s] =>
           /\ op = "commit" /\ isFileOpen /\ fileFullname[s] = fileName
           /\ updateMap[s] = clientUpdateMap /\ nextUpdateId[s] = updateId
  PROVE  AtomicStep
<1>0. /\ \A t \in Server : t # s => disk'[t] = disk[t] /\ up'[t] = up[t]
      /\ serverIds' = serverIds /\ serverIds \subseteq Server
  BY HandleTouches, ClientSame, Typing DEF Untouched
<1>u. UNCHANGED up
  BY DEF Handle, ProcInitMessage, ProcOpenFileMessage, ProcWriteBlockMessage,
     ProcVoteMessage, ProcCommitMessage, CommitOpenFails, CommitFlushFails,
     CommitDone, ProcAbortMessage, AbortWithoutBackup, RollbackRemoveFails,
     RollbackReopenFails, RollbackFlushFails, RollbackDone, RollsBack,
     ProcCloseMessage, CloseRefused, CloseDone, CloseFails, Receives
<1>r. Replicas' = Replicas /\ Replicas \subseteq Server
  BY <1>0, <1>u DEF Replicas
<1>1. CASE s \notin Replicas \/ disk'[s] = disk[s]
  <2>1. \A t \in Replicas : disk'[t] = disk[t]
    BY <1>0, <1>1, <1>r
  <2>2. ReplicaFiles' = ReplicaFiles
    BY <1>r, <2>1 DEF ReplicaFiles
  <2> QED  BY <2>2, ClientImageKept DEF AtomicStep
<1>2. CASE s \in Replicas /\ disk'[s] # disk[s]
  <2>1. CommitDone(s, i)
    BY <1>2, OnlyCommitWrites
  <2>2. /\ op = "commit" /\ isFileOpen /\ fileFullname[s] = fileName
        /\ updateMap[s] = clientUpdateMap /\ nextUpdateId[s] = updateId
    BY <1>2, <2>1
  <2>3. disk' = [disk EXCEPT ![s] = Written(s, nextUpdateId[s])]
    BY <2>1 DEF CommitDone
  <2>4. disk'[s] = Written(s, nextUpdateId[s])
    BY <2>3, Typing
  <2>6. fileName \in File
    BY <2>2 DEF IInv, ClientInv, FileNamed
  <2>7. Written(s, nextUpdateId[s]) =
          [disk[s] EXCEPT ![fileName] = Atomic!AfterStaged(@)]
    <3>1. disk[s][fileName] \in Content \cup {Absent}
      BY <2>6, Typing
    <3> QED  BY <2>2, <3>1, StagedApplied DEF Written
  <2>8. ReplicaFiles' = [ReplicaFiles EXCEPT ![s] =
                           [disk[s] EXCEPT ![fileName] = Atomic!AfterStaged(@)]]
    <3>1. ReplicaFiles' = [t \in Replicas |-> disk'[t]]
      BY <1>r DEF ReplicaFiles
    <3>2. \A t \in Replicas : disk'[t] = IF t = s THEN Written(s, nextUpdateId[s])
                                                  ELSE disk[t]
      BY <1>0, <1>r, <2>4
    <3> QED  BY <2>7, <3>1, <3>2 DEF ReplicaFiles
  <2>9. ReplicaFiles[s] = disk[s] /\ s \in DOMAIN ReplicaFiles
    BY <1>2 DEF ReplicaFiles
  <2>10. Atomic!Replace(s)
    BY <2>2, <2>8, <2>9, ClientImageKept DEF Atomic!Replace
  <2> QED  BY <2>9, <2>10 DEF AtomicStep, Atomic!Next
<1> QED  BY <1>1, <1>2

\* So it is on a dependable network.
LEMMA HandleIsAtomic ==
  ASSUME IInv, Dependable, Reliable, NEW s \in Server,
         NEW i \in 1 .. Len(toServer[s]), Handle(s, i), UNCHANGED clientVars
  PROVE  AtomicStep
<1>1. backup[s] = NoFile
  BY DEF Reliable, Bookkeeping
<1>2. ASSUME s \in Replicas, CommitDone(s, i), disk'[s] # disk[s]
      PROVE  /\ op = "commit" /\ isFileOpen /\ fileFullname[s] = fileName
             /\ updateMap[s] = clientUpdateMap /\ nextUpdateId[s] = updateId
  <2>1. /\ s \in serverIds /\ Holds(s) /\ nextUpdateId[s] \in 0 .. nextUpdateId[s]
        /\ 1 \in 1 .. Len(toServer[s]) /\ toServer[s][1].type = "COMMIT"
    BY <1>2, Numbers DEF CommitDone, Receives, Deliverable, Dependable, Reliable, Replicas
  <2>2. disk'[s] = Written(s, nextUpdateId[s])
    BY <1>2, Typing DEF CommitDone
  <2>3. ~CarriedOut(s) /\ op = "commit"
    BY <1>2, <2>1, <2>2, CommitWrites DEF Holds, Committing
  <2> QED  BY <2>1, <2>3 DEF Holds, Committing, Reliable, Bookkeeping
<1> QED  BY <1>1, <1>2, WriteIsAtomic DEF Dependable

\* And where packets are lost.
LEMMA HandleIsAtomicDespiteLoss ==
  ASSUME IInv, Ordered, Tolerant, NEW s \in Server,
         NEW i \in 1 .. Len(toServer[s]), Handle(s, i), UNCHANGED clientVars
  PROVE  AtomicStep
<1>1. backup[s] = NoFile /\ LossyChannels(s) /\ LossyHolds(s)
  BY DEF Tolerant, LossyBooks
<1>2. ASSUME CommitDone(s, i), disk'[s] # disk[s]
      PROVE  /\ op = "commit" /\ isFileOpen /\ fileFullname[s] = fileName
             /\ updateMap[s] = clientUpdateMap /\ nextUpdateId[s] = updateId
  <2>1. disk'[s] = Written(s, nextUpdateId[s])
    BY <1>2, Typing DEF CommitDone
  <2>2. /\ nextUpdateId[s] \in 0 .. nextUpdateId[s]
        /\ 1 \in 1 .. Len(toServer[s]) /\ toServer[s][1].type = "COMMIT"
    BY <1>2, Numbers DEF CommitDone, Receives, Deliverable, Ordered
  <2>3. ~CarriedOut(s) /\ op = "commit"
    BY <1>1, <1>2, <2>1, <2>2, CommitWrites DEF LossyHolds, Decided
  <2> QED  BY <1>1, <2>3 DEF LossyHolds, Decided, Tolerant, LossyBooks
<1> QED  BY <1>1, <1>2, WriteIsAtomic DEF Ordered

\* The end of a server removes its files from view, with all it had written
\* by then.
LEMMA DeathIsAtomic ==
  ASSUME IInv, Dependable, NEW s \in Server, UNCHANGED clientVars,
         Crash(s) \/ CrashInCommit(s) \/ BadFclose(s)
  PROVE  AtomicStep
<1>1. /\ up' = [up EXCEPT ![s] = FALSE]
      /\ \A t \in Server : t # s => disk'[t] = disk[t]
  <2>1. Dies(s) /\ (disk' = disk \/ \E new : disk' = [disk EXCEPT ![s] = new])
    BY Deaths
  <2> QED  BY <2>1, DeathTouches DEF Untouched
<1>2. Replicas' = Replicas \ {s} /\ Replicas \subseteq Server
  BY <1>1, ClientSame, Typing DEF Replicas
<1>3. ReplicaFiles' = [t \in Replicas \ {s} |-> ReplicaFiles[t]]
  <2>1. \A t \in Replicas \ {s} : disk'[t] = disk[t]
    BY <1>1, <1>2
  <2> QED  BY <1>2, <2>1 DEF ReplicaFiles
<1>4. CASE s \in Replicas
  <2>1. DOMAIN ReplicaFiles = Replicas
    BY DEF ReplicaFiles
  <2>2. Atomic!Leave(s)
    BY <1>3, <2>1, ClientImageKept DEF Atomic!Leave
  <2> QED  BY <1>4, <2>1, <2>2 DEF AtomicStep, Atomic!Next
<1>5. CASE s \notin Replicas
  <2>1. ReplicaFiles' = ReplicaFiles
    BY <1>3, <1>5 DEF ReplicaFiles
  <2> QED  BY <2>1, ClientImageKept DEF AtomicStep
<1> QED  BY <1>4, <1>5

-----------------------------------------------------------------------------
(* The whole implements AtomicFiles: the client's steps.                    *)

\* As long as nobody dies, joins or writes, the replicas stay as they are.
LEMMA ReplicasKept ==
  ASSUME UNCHANGED <<disk, up, serverIds>>
  PROVE  ReplicaFiles' = ReplicaFiles
BY DEF ReplicaFiles, Replicas

\* Nothing is staged when the count of updates is 0.
LEMMA NothingStaged ==
  /\ updateId = 0 => StagedUpdates = <<>>
  /\ updateId' = 0 => StagedUpdates' = <<>>
BY DEF StagedUpdates

\* No server is selected yet, and nothing staged or promised.
LEMMA InitIsAtomic == Init => Atomic!Init
<1> SUFFICES ASSUME Init PROVE Atomic!Init
  OBVIOUS
<1>1. serverIds = {} /\ updateId = 0 /\ ~isFileOpen /\ op = "idle"
      /\ promised = [f \in File |-> Absent] /\ inDoubt = {}
  BY DEF Init, ClientInit
<1>2. ReplicaFiles = <<>> /\ StagedUpdates = <<>>
  BY <1>1, NothingStaged DEF ReplicaFiles, Replicas
<1> QED  BY <1>1, <1>2 DEF Atomic!Init, StagedUpdates

\* One more update is staged.
LEMMA OneMoreStaged ==
  ASSUME IInv, NEW u, updateId' = updateId + 1, updateId < MaxUpdates,
         clientUpdateMap' = [clientUpdateMap EXCEPT ![updateId] = u]
  PROVE  StagedUpdates' = Append(StagedUpdates, u)
<1>1. updateId \in UpdateId /\ updateId \in Nat
  BY Numbers DEF UpdateId
<1>2. clientUpdateMap'[updateId] = u
      /\ \A i \in UpdateId : i # updateId => clientUpdateMap'[i] = clientUpdateMap[i]
  BY <1>1, Typing DEF UpdateMap
<1>3. \A i \in 1 .. updateId : i - 1 \in UpdateId /\ i - 1 # updateId
  BY <1>1, Numbers DEF UpdateId
<1>4. StagedUpdates' = [i \in 1 .. updateId + 1 |-> clientUpdateMap'[i - 1]]
  BY DEF StagedUpdates
<1>5. Append(StagedUpdates, u) =
        [i \in 1 .. updateId + 1 |-> IF i <= updateId THEN clientUpdateMap[i - 1] ELSE u]
  BY <1>1 DEF StagedUpdates
<1>6. ASSUME NEW i \in 1 .. updateId + 1
      PROVE  clientUpdateMap'[i - 1] =
               IF i <= updateId THEN clientUpdateMap[i - 1] ELSE u
  <2>1. CASE i <= updateId
    BY <1>1, <1>2, <1>3, <2>1
  <2>2. CASE ~(i <= updateId)
    <3>1. i - 1 = updateId
      BY <1>1, <2>2
    <3> QED  BY <1>2, <2>2, <3>1
  <2> QED  BY <2>1, <2>2
<1> QED  BY <1>4, <1>5, <1>6

\* What the mapping relies on at the client, whatever the network.
Regular ==
  /\ op \in {"vote", "commit"} => isFileOpen
  /\ clients = 0 => serverIds = {}
  /\ Fresh

\* What the mapping shows of a call: opening a file, staging an update and an
\* Abort the application asks for; the others are silent until they decide.
LEMMA CallIsAtomic ==
  ASSUME IInv, MaxClients = 1, Regular, CallStep, UNCHANGED serverVars
  PROVE  AtomicStep
<1>0. UNCHANGED <<disk, promised, inDoubt>> /\ op = "idle" /\ Phase = "ready"
  <2>1. op = "idle" /\ UNCHANGED promiseVars
    BY DEF CallStep, InitReplFs, OpenFile, WriteBlock, Commit, Abort, CloseFile,
           StartCall, Called
  <2> QED  BY <2>1 DEF serverVars, promiseVars, Phase
<1>1. CASE InitReplFs
  <2>1. serverIds = {} /\ serverIds' = {}
    BY <1>1, Typing DEF InitReplFs, Regular
  <2>2. ReplicaFiles' = ReplicaFiles
    <3>1. Replicas = {} /\ Replicas' = {}
      BY <2>1 DEF Replicas
    <3> QED  BY <3>1 DEF ReplicaFiles
  <2>3. UNCHANGED <<isFileOpen, fileName, updateId, clientUpdateMap>> /\ op' = "init"
    BY <1>1 DEF InitReplFs, Enter, fileVars, stagedVars
  <2>4. UNCHANGED clientImage
    BY <1>0, <2>3 DEF clientImage, FileName, StagedUpdates, Phase
  <2> QED  BY <2>2, <2>4 DEF AtomicStep
<1>2. ASSUME NEW f \in File, OpenFile(f) PROVE AtomicStep
  <2>1. /\ UNCHANGED <<up, serverIds, isFileOpen, updateId, clientUpdateMap>>
        /\ op' = "open" /\ fileName' = f
    BY <1>2 DEF OpenFile, Enter, stagedVars
  <2>2. ReplicaFiles' = ReplicaFiles /\ Phase' = Phase /\ StagedUpdates' = StagedUpdates
    BY <1>0, <2>1, ReplicasKept DEF Phase, StagedUpdates
  <2>3. CASE isFileOpen
    <3>1. FileName' = f
      BY <2>1, <2>3 DEF FileName
    <3>2. Atomic!OpenFile(f)
      BY <1>0, <2>2, <3>1 DEF Atomic!OpenFile, Phase, StagedUpdates, FileName
    <3> QED  BY <3>2 DEF AtomicStep, Atomic!Next
  <2>4. CASE ~isFileOpen
    <3>1. FileName' = FileName
      BY <2>1, <2>4 DEF FileName
    <3> QED  BY <1>0, <2>2, <3>1 DEF AtomicStep, clientImage
  <2> QED  BY <2>3, <2>4, Typing
<1>3. ASSUME NEW u \in Update, WriteBlock(u) PROVE AtomicStep
  <2>1. /\ UNCHANGED <<up, serverIds, op, isFileOpen, fileName>>
        /\ isFileOpen /\ updateId < MaxUpdates
        /\ clientUpdateMap' = [clientUpdateMap EXCEPT ![updateId] = u]
        /\ updateId' = updateId + 1
    BY <1>3 DEF WriteBlock, FdValid, callVars, fileVars
  <2>2. /\ ReplicaFiles' = ReplicaFiles /\ Phase' = Phase /\ FileName' = FileName
        /\ StagedUpdates' = Append(StagedUpdates, u)
    BY <1>0, <2>1, ReplicasKept, OneMoreStaged DEF Phase, FileName
  <2>3. FileName # NoFile
    BY <2>1, DataAssumption DEF FileName, IInv, ClientInv, FileNamed
  <2>4. Atomic!WriteBlock(u)
    BY <1>0, <2>2, <2>3 DEF Atomic!WriteBlock, Phase, StagedUpdates, FileName
  <2> QED  BY <2>4 DEF AtomicStep, Atomic!Next, Atomic!Update, Update
<1>4. ASSUME NEW name, NEW o \in {"vote", "abort", "close"}, StartCall(name, o)
      PROVE  AtomicStep
  <2>1. /\ UNCHANGED <<up, serverIds, isFileOpen, fileName, updateId, clientUpdateMap>>
        /\ op' = o
    BY <1>4 DEF StartCall, Enter, fileVars, stagedVars
  <2>2. /\ ReplicaFiles' = ReplicaFiles /\ FileName' = FileName
        /\ StagedUpdates' = StagedUpdates
    BY <1>0, <2>1, ReplicasKept DEF StagedUpdates, FileName
  <2>3. CASE o = "abort"
    <3>1. Phase' = "aborting"
      BY <2>1, <2>3 DEF Phase
    <3>2. Atomic!Abort
      BY <1>0, <2>2, <3>1 DEF Atomic!Abort, Phase, StagedUpdates, FileName
    <3> QED  BY <3>2 DEF AtomicStep, Atomic!Next
  <2>4. CASE o # "abort"
    <3>1. Phase' = Phase
      BY <1>0, <2>1, <2>4 DEF Phase
    <3> QED  BY <1>0, <2>2, <3>1 DEF AtomicStep, clientImage
  <2> QED  BY <2>3, <2>4
<1>5. CASE Commit \/ Abort \/ CloseFile
  BY <1>4, <1>5 DEF Commit, Abort, CloseFile
<1> QED  BY <1>1, <1>2, <1>3, <1>5 DEF CallStep

\* What goes on between two visible steps shows nothing.
LEMMA SilentIsAtomic ==
  ASSUME UNCHANGED transactionVars, UNCHANGED <<disk, up, serverIds>>,
         op' = op \/ {op, op'} \cap {"commit", "abort"} = {}
  PROVE  AtomicStep
<1>1. UNCHANGED <<isFileOpen, fileName, clientUpdateMap, updateId, promised, inDoubt>>
  BY DEF transactionVars
<1> QED  BY <1>1, ReplicasKept DEF AtomicStep, clientImage, FileName, StagedUpdates, Phase

\* Waiting is silent.
LEMMA WaitIsAtomic ==
  ASSUME NEW recv, KeepWaiting(recv), UNCHANGED <<disk, up, serverIds>>
  PROVE  AtomicStep
<1>1. UNCHANGED transactionVars /\ op' = op
  BY DEF KeepWaiting, transactionVars, fileVars, stagedVars, promiseVars
<1> QED  BY <1>1, SilentIsAtomic

\* The end of a vote phase is the decision.
LEMMA DecisionIsAtomic ==
  ASSUME IInv, Regular, op = "vote", op' = "commit", UNCHANGED transactionVars,
         UNCHANGED <<disk, up, serverIds>>
  PROVE  AtomicStep
<1>1. /\ Phase = "ready" /\ Phase' = "committing" /\ StagedUpdates' = StagedUpdates
      /\ UNCHANGED <<promised, inDoubt>> /\ FileName' = FileName
  BY DEF Phase, StagedUpdates, FileName, transactionVars
<1>2. FileName # NoFile
  BY DataAssumption DEF FileName, Regular, IInv, ClientInv, FileNamed
<1>3. Atomic!Decide
  BY <1>1, <1>2, ReplicasKept DEF Atomic!Decide, Phase, StagedUpdates, FileName
<1> QED  BY <1>3 DEF AtomicStep, Atomic!Next

\* The end of an Abort.
LEMMA AbortIsAtomic ==
  ASSUME op = "abort", AbortEnds, UNCHANGED <<disk, up, serverIds>>
  PROVE  AtomicStep
<1>1. updateId' = 0
  BY DEF AbortEnds, ResetClient
<1>2. /\ Phase = "aborting" /\ Phase' = "ready" /\ StagedUpdates' = <<>>
      /\ UNCHANGED <<promised, inDoubt>> /\ FileName' = FileName
  BY <1>1, NothingStaged
     DEF AbortEnds, ReturnToApp, Phase, FileName, fileVars, promiseVars
<1>3. Atomic!AbortEnds
  BY <1>2, ReplicasKept DEF Atomic!AbortEnds, Phase, StagedUpdates, FileName
<1> QED  BY <1>3 DEF AtomicStep, Atomic!Next

\* The end of an operation that succeeds; when a commit phase does, all
\* replicas have the updates, and when a close does nothing is staged.
LEMMA SuccessIsAtomic ==
  ASSUME IInv, Regular, ExecuteOk, UNCHANGED <<disk, up, serverIds>>,
         op \in {"close", "close2"} /\ CloseSucceeds => updateId = 0,
         op = "commit" /\ fileName \notin inDoubt =>
           \A s \in Replicas : disk[s][fileName] = After
  PROVE  AtomicStep
<1>0. ReplicaFiles' = ReplicaFiles
  BY ReplicasKept
<1>1. CASE op = "init" /\ InitEnds
  BY <1>0, <1>1 DEF InitEnds, ReturnToApp, AtomicStep, clientImage, FileName,
     StagedUpdates, Phase, fileVars, stagedVars, promiseVars
<1>2. CASE op = "open" /\ OpenSucceeds
  <2>1. /\ Phase = "ready" /\ Phase' = "ready" /\ StagedUpdates' = StagedUpdates
        /\ UNCHANGED <<promised, inDoubt, fileName>> /\ isFileOpen'
    BY <1>2 DEF OpenSucceeds, ReturnToApp, Phase, StagedUpdates, stagedVars, promiseVars
  <2>2. fileName \in File /\ FileName' = fileName
    BY <1>2, <2>1 DEF IInv, ClientInv, FileNamed, FileName
  <2>3. Atomic!OpenFile(fileName)
    BY <1>0, <2>1, <2>2 DEF Atomic!OpenFile, Phase, StagedUpdates, FileName
  <2> QED  BY <2>2, <2>3 DEF AtomicStep, Atomic!Next
<1>3. CASE op = "vote" /\ VoteSucceeds
  <2>1. op' = "commit" /\ UNCHANGED transactionVars
    BY <1>3 DEF VoteSucceeds, Enter, transactionVars, fileVars, stagedVars, promiseVars
  <2> QED  BY <1>3, <2>1, DecisionIsAtomic
<1>4. CASE op = "commit" /\ CommitSucceeds
  <2>1. /\ Phase = "committing" /\ Phase' = "ready" /\ StagedUpdates' = <<>>
        /\ UNCHANGED inDoubt /\ FileName' = FileName /\ FileName = fileName
        /\ fileName \in File
        /\ promised' = [promised EXCEPT ![fileName] =
                          Apply(Opened(@), clientUpdateMap, updateId)]
    <3>1. op' \in {"idle", "close2"} /\ isFileOpen /\ updateId' = 0
      BY <1>4 DEF CommitSucceeds, ReturnToApp, Enter, ResetClient, Regular
    <3> QED  BY <1>4, <3>1, NothingStaged
             DEF CommitSucceeds, Phase, FileName, fileVars, IInv, ClientInv, FileNamed
  <2>2. Atomic!AfterStaged(promised[fileName]) = After
    <3>1. promised[fileName] \in Content \cup {Absent}
      BY <2>1, Typing
    <3> QED  BY <3>1, StagedApplied DEF After
  <2>3. promised' = [promised EXCEPT ![fileName] =
                       Atomic!AfterStaged(promised[fileName])]
    BY <2>1, <2>2 DEF After
  <2>4. \/ fileName \in inDoubt
        \/ \A s \in DOMAIN ReplicaFiles :
             ReplicaFiles[s][fileName] = Atomic!AfterStaged(promised[fileName])
    BY <1>4, <2>2 DEF ReplicaFiles
  <2>5. Atomic!CommitSucceeds
    BY <1>0, <2>1, <2>3, <2>4 DEF Atomic!CommitSucceeds, Phase, StagedUpdates, FileName
  <2> QED  BY <2>5 DEF AtomicStep, Atomic!Next
<1>5. CASE op = "abort" /\ AbortEnds
  BY <1>5, AbortIsAtomic
<1>6. CASE op \in {"close", "close2"} /\ CloseSucceeds
  <2>1. /\ Phase = "ready" /\ Phase' = "ready" /\ UNCHANGED <<promised, inDoubt>>
        /\ FileName' = NoFile /\ ~isFileOpen' /\ UNCHANGED <<updateId, clientUpdateMap>>
    BY <1>6 DEF CloseSucceeds, ReturnToApp, Phase, FileName, stagedVars, promiseVars
  <2>2. StagedUpdates = <<>> /\ StagedUpdates' = <<>>
    BY <1>6, <2>1, NothingStaged
  <2>3. Atomic!CloseFile
    BY <1>0, <2>1, <2>2 DEF Atomic!CloseFile, Phase, StagedUpdates, FileName
  <2> QED  BY <2>3 DEF AtomicStep, Atomic!Next
<1> QED  BY <1>1, <1>2, <1>3, <1>4, <1>5, <1>6 DEF ExecuteOk

\* The end of an operation that fails: a failed vote turns into an Abort, a
\* failed commit phase leaves its file in doubt.
LEMMA FailureIsAtomic ==
  ASSUME IInv, Regular, ExecuteError, UNCHANGED <<disk, up, serverIds>>
  PROVE  AtomicStep
<1>0. ReplicaFiles' = ReplicaFiles
  BY ReplicasKept
<1>1. CASE \/ op = "init" /\ InitEnds
           \/ op = "open" /\ OpenFails
           \/ op \in {"close", "close2"} /\ CloseFileFails
  BY <1>0, <1>1 DEF InitEnds, OpenFails, CloseFileFails, ReturnToApp, AtomicStep,
     clientImage, FileName, StagedUpdates, Phase, fileVars, stagedVars, promiseVars
<1>2. CASE op = "vote" /\ VoteFails
  <2>1. /\ Phase = "ready" /\ Phase' = "aborting" /\ StagedUpdates' = StagedUpdates
        /\ UNCHANGED <<promised, inDoubt>> /\ FileName' = FileName
    BY <1>2 DEF VoteFails, Enter, Phase, StagedUpdates, FileName, fileVars,
       stagedVars, promiseVars
  <2>2. Atomic!Abort
    BY <1>0, <2>1 DEF Atomic!Abort, Phase, StagedUpdates, FileName
  <2> QED  BY <2>2 DEF AtomicStep, Atomic!Next
<1>3. CASE op = "commit" /\ CommitFails
  <2>1. /\ Phase = "committing" /\ Phase' = "aborting" /\ StagedUpdates' = StagedUpdates
        /\ UNCHANGED promised /\ FileName' = FileName /\ FileName = fileName
        /\ inDoubt' = inDoubt \cup {fileName}
    BY <1>3 DEF CommitFails, Enter, Phase, StagedUpdates, FileName, fileVars,
       stagedVars, Regular
  <2>2. Atomic!CommitFails
    BY <1>0, <2>1 DEF Atomic!CommitFails, Phase, StagedUpdates, FileName
  <2> QED  BY <2>2 DEF AtomicStep, Atomic!Next
<1>4. CASE op = "abort" /\ AbortEnds
  BY <1>4, AbortIsAtomic
<1> QED  BY <1>1, <1>2, <1>3, <1>4 DEF ExecuteError

\* A server that answers InitReplFs joins with the files of the others: none.
LEMMA InitAckIsAtomic ==
  ASSUME IInv, Regular, NEW s \in Server, NEW i \in 1 .. Len(toClient[s]),
         ProcInitAckMessage(s, i), UNCHANGED <<disk, up>>
  PROVE  AtomicStep
<1>1. /\ op = "init" /\ UNCHANGED transactionVars /\ op' = op
      /\ serverIds' = serverIds \/ serverIds' = serverIds \cup {s}
  BY DEF ProcInitAckMessage, ReadsAck, KeepWaiting, transactionVars, fileVars,
     stagedVars, promiseVars
<1>2. CASE serverIds' = serverIds
  BY <1>1, <1>2, SilentIsAtomic
<1>3. CASE serverIds' = serverIds \cup {s}
  <2>1. UNCHANGED clientImage /\ Phase = "ready"
    BY <1>1 DEF clientImage, FileName, StagedUpdates, Phase, transactionVars
  <2>2. CASE s \in Replicas \/ ~up[s]
    <3>1. Replicas' = Replicas
      BY <1>3, <2>2 DEF Replicas
    <3> QED  BY <2>1, <3>1 DEF AtomicStep, ReplicaFiles
  <2>3. CASE s \notin Replicas /\ up[s]
    <3>1. Replicas' = Replicas \cup {s}
      BY <1>3, <2>3 DEF Replicas
    <3>2. disk[s] = promised
      <4>1. \A f \in File : disk[s][f] = Absent /\ promised[f] = Absent
        BY <1>1 DEF Regular, Fresh, Pristine
      <4> QED  BY <4>1, Typing
    <3>3. ReplicaFiles' = [t \in Replicas \cup {s} |->
                             IF t = s THEN promised ELSE ReplicaFiles[t]]
      BY <3>1, <3>2 DEF ReplicaFiles
    <3>4. DOMAIN ReplicaFiles = Replicas
      BY DEF ReplicaFiles
    <3>5. Atomic!Join(s)
      BY <2>1, <2>3, <3>3, <3>4
         DEF Atomic!Join, Atomic!promiseState, clientImage, Phase, StagedUpdates, FileName
    <3> QED  BY <3>5 DEF AtomicStep, Atomic!Next
  <2> QED  BY <2>2, <2>3
<1> QED  BY <1>1, <1>2, <1>3

-----------------------------------------------------------------------------
(* The whole implements AtomicFiles on a dependable network.                *)

LEMMA ReliableIsRegular ==
  ASSUME Reliable
  PROVE  Regular
BY DEF Reliable, Bookkeeping, Regular

\* When the last replica has answered a Commit, all have the updates.
LEMMA AllHaveCommitted ==
  ASSUME IInv, Reliable, NEW s \in serverIds, op = "commit",
         fileName \notin inDoubt, 1 \in 1 .. Len(toClient[s]),
         toClient[s][1].type = AckType[op], IsFull(recvServerId \cup {s})
  PROVE  \A t \in Replicas : disk[t][fileName] = After
<1>1. \A t \in serverIds : Answered(t, "COMMITACK")
  BY AllSettled, AckTypes
<1> QED  BY <1>1 DEF Reliable, Holds, Committing, Replicas

\* An answer that ends no operation is silent.
LEMMA AckIsAtomic ==
  ASSUME IInv, Dependable, Reliable, Reliable', NEW s \in Server,
         NEW i \in 1 .. Len(toClient[s]), HandleAck(s, i), UNCHANGED serverVars
  PROVE  AtomicStep
<1>0. UNCHANGED <<disk, up>>
  BY DEF serverVars, HandleAck, ProcInitAckMessage, ProcAckMessage,
     ProcCloseAckMessage, ProcVoteAckMessage, ReadsAck, Reads
<1>r. Regular
  BY ReliableIsRegular
<1>c. op \in {"close", "close2"} /\ CloseSucceeds => updateId = 0
  BY DEF CloseSucceeds, stagedVars, Reliable, Bookkeeping
<1>1. CASE ProcInitAckMessage(s, i)
  BY <1>0, <1>r, <1>1, InitAckIsAtomic
<1>2. ASSUME UNCHANGED serverIds, NEW recv, AfterAck(recv),
             IsFull(recv) => s \in serverIds /\ recv = recvServerId \cup {s},
             1 \in 1 .. Len(toClient[s]), toClient[s][1].type = AckType[op]
      PROVE  AtomicStep
  <2>1. CASE IsFull(recv) /\ ExecuteOk
    BY <1>0, <1>r, <1>c, <1>2, <2>1, AllHaveCommitted, SuccessIsAtomic
  <2>2. CASE KeepWaiting(recv)
    BY <1>0, <1>2, <2>2, WaitIsAtomic
  <2> QED  BY <1>2, <2>1, <2>2 DEF AfterAck
<1>3. ~IsFull(recvServerId)
  BY DEF Reliable, Bookkeeping
<1>4. CASE ProcAckMessage(s, i)
  <2>1. ReadsAck(s, i, {"open", "commit", "abort"}) /\ UNCHANGED serverIds
    BY <1>4 DEF ProcAckMessage
  <2>2. ~(s \in serverIds /\ toClient[s][i].fileDesc < 0)
    BY <2>1, NoRefusal
  <2>3. AfterAck(Accepted(s))
    BY <1>4, <2>2 DEF ProcAckMessage
  <2>4. 1 \in 1 .. Len(toClient[s]) /\ toClient[s][1].type = AckType[op]
    BY <2>1, AckFacts DEF ReadsHead
  <2> QED  BY <1>2, <1>3, <2>1, <2>3, <2>4 DEF Accepted
<1>5. CASE ProcCloseAckMessage(s, i)
  <2>1. ReadsAck(s, i, {"close", "close2"}) /\ UNCHANGED serverIds
    BY <1>5 DEF ProcCloseAckMessage
  <2>2. /\ op \in {"close", "close2"} /\ 1 \in 1 .. Len(toClient[s])
        /\ toClient[s][1].type = AckType[op]
    BY <2>1, AckFacts DEF ReadsHead
  <2>3. CASE ExecuteError
    BY <1>0, <1>r, <2>1, <2>3, FailureIsAtomic
  <2>4. CASE op = "close" /\ CloseCommits
    <3>1. UNCHANGED transactionVars /\ op' = "vote"
      BY <2>4 DEF CloseCommits, Enter, transactionVars, fileVars, stagedVars, promiseVars
    <3> QED  BY <1>0, <2>1, <2>4, <3>1, SilentIsAtomic
  <2>5. CASE op = "close2" /\ CloseSucceeds
    <3>1. ExecuteOk
      BY <2>5 DEF ExecuteOk
    <3> QED  BY <1>0, <1>r, <1>c, <2>1, <2>5, <3>1, SuccessIsAtomic
  <2>6. CASE AfterAck(Accepted(s))
    BY <1>2, <1>3, <2>1, <2>2, <2>6 DEF Accepted
  <2> QED  BY <1>5, <2>3, <2>4, <2>5, <2>6 DEF ProcCloseAckMessage
<1>6. CASE ProcVoteAckMessage(s, i)
  <2>1. UNCHANGED serverIds /\ op = "vote"
    BY <1>6 DEF ProcVoteAckMessage, ReadsAck
  <2>2. CASE s \in serverIds /\ CountVote(s, toClient[s][i].updateId)
    <3>1. UNCHANGED transactionVars /\ op' \in {"vote", "commit"}
      BY <2>1, <2>2 DEF CountVote, Enter, transactionVars, fileVars, promiseVars
    <3> QED  BY <1>0, <1>r, <2>1, <3>1, DecisionIsAtomic, SilentIsAtomic
  <2>3. CASE AfterAck(recvServerId)
    <3>1. KeepWaiting(recvServerId)
      BY <1>3, <2>3 DEF AfterAck
    <3> QED  BY <1>0, <2>1, <3>1, WaitIsAtomic
  <2> QED  BY <1>6, <2>2, <2>3 DEF ProcVoteAckMessage
<1> QED  BY <1>1, <1>4, <1>5, <1>6 DEF HandleAck

\* Every step of the client is a step of AtomicFiles, or none.
LEMMA ClientIsAtomic ==
  ASSUME IInv, Dependable, Reliable, Reliable', ClientStep, UNCHANGED serverVars
  PROVE  AtomicStep
<1>1. CASE CallStep
  BY <1>1, CallIsAtomic, ReliableIsRegular DEF Dependable
<1>2. ASSUME NEW s \in Server, ReadStep(s) PROVE AtomicStep
  <2>1. PICK i \in 1 .. Len(toClient[s]) : HandleAck(s, i) \/ IgnoreAck(s, i)
    BY <1>2 DEF ReadStep
  <2>2. CASE IgnoreAck(s, i)
    <3>1. UNCHANGED transactionVars /\ UNCHANGED <<disk, up, serverIds, op>>
      BY <2>2 DEF IgnoreAck, Reads, serverVars, transactionVars, clientVars, callVars,
         fileVars, stagedVars, promiseVars
    <3> QED  BY <3>1, SilentIsAtomic
  <2> QED  BY <2>1, <2>2, AckIsAtomic
<1>3. CASE Resend
  <2>1. UNCHANGED transactionVars /\ UNCHANGED <<disk, up, serverIds, op>>
    BY <1>3 DEF Resend, serverVars, transactionVars, clientVars, callVars, fileVars,
       stagedVars, promiseVars
  <2> QED  BY <2>1, SilentIsAtomic
<1>4. CASE Timeout
  <2>1. ExecuteError /\ UNCHANGED <<disk, up, serverIds>>
    BY <1>4, TooFew DEF Timeout, Reliable, Bookkeeping, serverVars
  <2> QED  BY <2>1, FailureIsAtomic, ReliableIsRegular
<1>5. ~ClientCrash
  BY NoCrash
<1> QED  BY <1>1, <1>2, <1>3, <1>4, <1>5 DEF ClientStep

-----------------------------------------------------------------------------
\* On a dependable network client, servers and network together implement
\* AtomicFiles: to the application a commit is atomic, on any number of
\* servers killed at any moment, for any calls, files and packets under way.
THEOREM CommitsAreAtomic == Dependable => (Spec => FilesAreAtomic)
<1> SUFFICES ASSUME Dependable PROVE Spec => FilesAreAtomic
  OBVIOUS
<1>1. Init => Atomic!Init
  BY InitIsAtomic
<1>2. IInv /\ Reliable /\ Reliable' /\ [Next]_vars
        => [Atomic!Next]_<<ReplicaFiles, Atomic!promiseState>>
  <2> SUFFICES ASSUME IInv, Reliable, Reliable', [Next]_vars PROVE AtomicStep
    BY StepsAreAtomic
  <2>1. ASSUME NEW s \in Server, ServerStep(s), UNCHANGED clientVars
        PROVE  AtomicStep
    <3>1. CASE ServerReads(s)
      BY <2>1, <3>1, HandleIsAtomic DEF ServerReads, DropClientPacket, Dependable
    <3> QED  BY <2>1, <3>1, DeathIsAtomic DEF ServerStep
  <2>2. CASE ClientStep /\ UNCHANGED serverVars
    BY <2>2, ClientIsAtomic
  <2>3. CASE UNCHANGED vars
    <3>1. UNCHANGED clientVars /\ UNCHANGED <<disk, up, serverIds>>
      BY <2>3 DEF vars, netVars, serverVars, clientVars
    <3> QED  BY <3>1, ClientImageKept, ReplicasKept DEF AtomicStep
  <2> QED  BY <2>1, <2>2, <2>3 DEF Next
<1> QED  BY <1>1, <1>2, Invariance, ReliableAlways, PTL
         DEF Spec, FilesAreAtomic, Atomic!Spec

-----------------------------------------------------------------------------
(* The whole implements AtomicFiles where packets are lost.  A close then   *)
(* succeeds although updates are staged, if no server has got any of them:  *)
(* AtomicFiles is implemented as long as no such close is made.             *)

\* A file is closed with nothing staged only.
ClosesEmpty == op \in {"close", "close2"} => updateId = 0

LEMMA TolerantIsRegular ==
  ASSUME Tolerant
  PROVE  Regular
BY DEF Tolerant, LossyBooks, Regular

\* When the last server has answered a Commit, all have the updates.
LEMMA AllHaveCommittedDespiteLoss ==
  ASSUME IInv, Ordered, Tolerant, NEW s \in Server, op = "commit",
         1 \in 1 .. Len(toClient[s]), toClient[s][1].type = AckType[op],
         recvServerId \cup {s} = Server
  PROVE  \A t \in Replicas : disk[t][fileName] = After
<1>1. \A t \in Server : Answered(t, "COMMITACK")
  BY AllCaughtUp, AckTypes
<1>2. Replicas \subseteq Server
  BY Typing DEF Replicas
<1> QED  BY <1>1, <1>2 DEF Tolerant, LossyHolds, Decided

\* An answer ends an operation, or starts another round of votes, or is silent.
LEMMA AckIsAtomicDespiteLoss ==
  ASSUME IInv, Ordered, Tolerant, ClosesEmpty, NEW s \in Server,
         NEW i \in 1 .. Len(toClient[s]), HandleAck(s, i), UNCHANGED serverVars
  PROVE  AtomicStep
<1>0. UNCHANGED <<disk, up>> /\ Regular
  BY TolerantIsRegular DEF serverVars, HandleAck, ProcInitAckMessage, ProcAckMessage,
     ProcCloseAckMessage, ProcVoteAckMessage, ReadsAck, Reads
<1>1. CASE ProcInitAckMessage(s, i)
  BY <1>0, <1>1, InitAckIsAtomic
<1>2. ASSUME UNCHANGED serverIds, AfterAck(Accepted(s)),
             Accepted(s) = recvServerId \cup {s}, Accepted(s) \in SUBSET Server,
             1 \in 1 .. Len(toClient[s]), toClient[s][1].type = AckType[op]
      PROVE  AtomicStep
  <2>1. CASE IsFull(Accepted(s)) /\ ExecuteOk
    <3>1. recvServerId \cup {s} = Server
      BY <1>2, <2>1, FullIsAll
    <3>2. op = "commit" => \A t \in Replicas : disk[t][fileName] = After
      BY <1>2, <3>1, AllHaveCommittedDespiteLoss
    <3>3. op \in {"close", "close2"} /\ CloseSucceeds => updateId = 0
      BY DEF ClosesEmpty
    <3> QED  BY <1>0, <1>2, <2>1, <3>2, <3>3, SuccessIsAtomic
  <2>2. CASE KeepWaiting(Accepted(s))
    BY <1>0, <1>2, <2>2, WaitIsAtomic
  <2> QED  BY <1>2, <2>1, <2>2 DEF AfterAck
<1>3. ASSUME NEW ops, ReadsAck(s, i, ops), "idle" \notin ops, "init" \notin ops
      PROVE  /\ op \in ops /\ serverIds = Server
             /\ ~(toClient[s][i].fileDesc < 0)
             /\ Accepted(s) = recvServerId \cup {s} /\ Accepted(s) \in SUBSET Server
             /\ 1 \in 1 .. Len(toClient[s]) /\ toClient[s][1].type = AckType[op]
  BY <1>3, AckRead, NoneRefused
<1>4. CASE ProcAckMessage(s, i)
  <2>1. ReadsAck(s, i, {"open", "commit", "abort"}) /\ UNCHANGED serverIds
    BY <1>4 DEF ProcAckMessage
  <2>2. AfterAck(Accepted(s))
    BY <1>3, <1>4, <2>1 DEF ProcAckMessage
  <2> QED  BY <1>2, <1>3, <2>1, <2>2
<1>5. CASE ProcCloseAckMessage(s, i)
  <2>1. ReadsAck(s, i, {"close", "close2"}) /\ UNCHANGED serverIds
    BY <1>5 DEF ProcCloseAckMessage
  <2>2. \/ op = "close" /\ CloseCommits
        \/ op = "close2" /\ CloseSucceeds
        \/ AfterAck(Accepted(s))
    BY <1>3, <1>5, <2>1 DEF ProcCloseAckMessage
  <2>3. CASE op = "close" /\ CloseCommits
    <3>1. UNCHANGED transactionVars /\ op' = "vote"
      BY <2>3 DEF CloseCommits, Enter, transactionVars, fileVars, stagedVars, promiseVars
    <3> QED  BY <1>0, <2>1, <2>3, <3>1, SilentIsAtomic
  <2>4. CASE op = "close2" /\ CloseSucceeds
    BY <1>0, <2>1, <2>4, SuccessIsAtomic DEF ExecuteOk, ClosesEmpty
  <2>5. CASE AfterAck(Accepted(s))
    BY <1>2, <1>3, <2>1, <2>5
  <2> QED  BY <2>2, <2>3, <2>4, <2>5
<1>6. CASE ProcVoteAckMessage(s, i)
  <2>1. UNCHANGED serverIds /\ op = "vote" /\ ReadsAck(s, i, {"vote"})
    BY <1>6 DEF ProcVoteAckMessage, ReadsAck
  <2>2. CountVote(s, toClient[s][i].updateId)
    BY <1>3, <1>6, <2>1 DEF ProcVoteAckMessage
  <2>3. UNCHANGED transactionVars /\ op' \in {"vote", "commit"}
    BY <2>1, <2>2 DEF CountVote, Enter, transactionVars, fileVars, promiseVars
  <2> QED  BY <1>0, <2>1, <2>3, DecisionIsAtomic, SilentIsAtomic
<1> QED  BY <1>1, <1>4, <1>5, <1>6 DEF HandleAck

\* Every step is a step of AtomicFiles, or none; a lost packet is none.
LEMMA NextIsAtomicDespiteLoss ==
  ASSUME IInv, Ordered, Tolerant, ClosesEmpty, [Next]_vars
  PROVE  AtomicStep
<1>1. ASSUME NEW s \in Server, ServerStep(s), UNCHANGED clientVars
      PROVE  AtomicStep
  <2>1. ServerReads(s)
    BY <1>1 DEF ServerStep, Crash, CrashInCommit, BadFclose, Ordered, Tolerant, LossyBooks
  <2>2. PICK i \in 1 .. Len(toServer[s]) : Handle(s, i) \/ DropClientPacket(s, i)
    BY <2>1 DEF ServerReads
  <2>3. CASE DropClientPacket(s, i)
    <3>1. UNCHANGED <<disk, up, serverIds>>
      BY <1>1, <2>3 DEF DropClientPacket, serverVars, clientVars
    <3> QED  BY <1>1, <3>1, ClientImageKept, ReplicasKept DEF AtomicStep
  <2> QED  BY <1>1, <2>2, <2>3, HandleIsAtomicDespiteLoss
<1>2. ASSUME ClientStep, UNCHANGED serverVars
      PROVE  AtomicStep
  <2>0. Regular /\ MaxClients = 1
    BY TolerantIsRegular DEF Ordered
  <2>1. CASE CallStep
    BY <1>2, <2>0, <2>1, CallIsAtomic
  <2>2. ASSUME NEW s \in Server, ReadStep(s) PROVE AtomicStep
    <3>1. PICK i \in 1 .. Len(toClient[s]) : HandleAck(s, i) \/ IgnoreAck(s, i)
      BY <2>2 DEF ReadStep
    <3>2. CASE IgnoreAck(s, i)
      <4>1. UNCHANGED transactionVars /\ UNCHANGED <<disk, up, serverIds, op>>
        BY <1>2, <3>2 DEF IgnoreAck, Reads, serverVars, transactionVars, clientVars, callVars,
           fileVars, stagedVars, promiseVars
      <4> QED  BY <4>1, SilentIsAtomic
    <3> QED  BY <1>2, <3>1, <3>2, AckIsAtomicDespiteLoss
  <2>3. CASE Resend
    <3>1. UNCHANGED transactionVars /\ UNCHANGED <<disk, up, serverIds, op>>
      BY <1>2, <2>3 DEF Resend, serverVars, transactionVars, clientVars, callVars, fileVars,
         stagedVars, promiseVars
    <3> QED  BY <3>1, SilentIsAtomic
  <2>4. CASE Timeout
    <3>1. op = "init" /\ UNCHANGED <<disk, up, serverIds>>
      BY <1>2, <2>4 DEF Timeout, MayTimeOut, Ordered, Tolerant, LossyBooks, serverVars
    <3>2. InitEnds
      BY <2>4, <3>1 DEF Timeout, ExecuteOk, ExecuteError
    <3> QED  BY <2>0, <3>1, <3>2, FailureIsAtomic DEF ExecuteError
  <2>5. ~ClientCrash
    BY NoCrashTolerant
  <2> QED  BY <1>2, <2>1, <2>2, <2>3, <2>4, <2>5 DEF ClientStep
<1>3. CASE UNCHANGED vars
  <2>1. UNCHANGED clientVars /\ UNCHANGED <<disk, up, serverIds>>
    BY <1>3 DEF vars, netVars, serverVars, clientVars
  <2> QED  BY <2>1, ClientImageKept, ReplicasKept DEF AtomicStep
<1> QED  BY <1>1, <1>2, <1>3 DEF Next

\* An application that does not call CloseFile runs no close.
NeverCloses == op \notin {"close", "close2"} /\ api # "CloseFile"

LEMMA NeverClosesKept ==
  ASSUME IInv, Ordered, Tolerant, "CloseFile" \notin Calls, NeverCloses, [Next]_vars
  PROVE  NeverCloses'
<1>1. CASE UNCHANGED <<op, api>>
  BY <1>1 DEF NeverCloses
<1>2. ASSUME op' \notin {"close", "close2"}, api' \in {api, "none"} PROVE NeverCloses'
  BY <1>2 DEF NeverCloses
<1>3. CASE CallStep
  BY <1>3 DEF CallStep, InitReplFs, OpenFile, WriteBlock, Commit, Abort, CloseFile, StartCall,
              Enter, callVars, NeverCloses
<1>4. ASSUME ExecuteOk \/ ExecuteError PROVE NeverCloses'
  <2>1. op' \in {"idle", "commit", "abort"} /\ api' \in {api, "none"}
    BY <1>4 DEF ExecuteOk, ExecuteError, InitEnds, OpenSucceeds, OpenFails, VoteSucceeds,
       VoteFails, CommitSucceeds, CommitFails, AbortEnds, CloseSucceeds, CloseFileFails,
       ReturnToApp, Enter, NeverCloses
  <2> QED  BY <1>2, <2>1
<1>5. ASSUME NEW recv, AfterAck(recv) PROVE NeverCloses'
  <2>1. CASE KeepWaiting(recv)
    BY <1>1, <2>1 DEF KeepWaiting
  <2> QED  BY <1>4, <1>5, <2>1 DEF AfterAck
<1>6. ASSUME NEW s \in Server, NEW i \in 1 .. Len(toClient[s]), HandleAck(s, i)
      PROVE  NeverCloses'
  <2>1. CASE ProcInitAckMessage(s, i)
    BY <1>1, <2>1 DEF ProcInitAckMessage, KeepWaiting
  <2>2. CASE ProcAckMessage(s, i)
    BY <1>4, <1>5, <2>2 DEF ProcAckMessage
  <2>3. ~ProcCloseAckMessage(s, i)
    BY DEF ProcCloseAckMessage, ReadsAck, NeverCloses
  <2>4. CASE ProcVoteAckMessage(s, i)
    <3>1. ASSUME CountVote(s, toClient[s][i].updateId) PROVE NeverCloses'
      BY <2>4, <3>1 DEF CountVote, Enter, ProcVoteAckMessage, ReadsAck, NeverCloses
    <3> QED  BY <1>5, <2>4, <3>1 DEF ProcVoteAckMessage
  <2> QED  BY <1>6, <2>1, <2>2, <2>3, <2>4 DEF HandleAck
<1>7. ASSUME NEW s \in Server, ReadStep(s) PROVE NeverCloses'
  <2>1. PICK i \in 1 .. Len(toClient[s]) : HandleAck(s, i) \/ IgnoreAck(s, i)
    BY <1>7 DEF ReadStep
  <2> QED  BY <1>1, <1>6, <2>1 DEF IgnoreAck, clientVars, callVars
<1>8. CASE ClientStep
  <2>1. ~ClientCrash
    BY NoCrashTolerant
  <2>2. CASE Resend
    BY <1>1, <2>2 DEF Resend, clientVars, callVars
  <2>3. CASE Timeout
    BY <1>4, <2>3 DEF Timeout
  <2> QED  BY <1>3, <1>7, <1>8, <2>1, <2>2, <2>3 DEF ClientStep
<1>9. CASE UNCHANGED clientVars
  BY <1>1, <1>9 DEF clientVars, callVars
<1> QED  BY <1>8, <1>9 DEF Next, vars

\* Commits are atomic where packets are lost, too, as long as no execute runs
\* out of time, however many rounds of votes they take: each server goes from the old file
\* to the new one in one step, between the decision and the return of Commit.
THEOREM CommitsAreAtomicDespiteLoss ==
  Ordered /\ "CloseFile" \notin Calls => (Spec => FilesAreAtomic)
<1> SUFFICES ASSUME Ordered, "CloseFile" \notin Calls PROVE Spec => FilesAreAtomic
  OBVIOUS
<1>1. Init => Atomic!Init /\ NeverCloses
  BY InitIsAtomic DEF Init, ClientInit, NeverCloses
<1>2. IInv /\ Tolerant /\ NeverCloses /\ [Next]_vars => NeverCloses'
  BY NeverClosesKept
<1>3. IInv /\ Tolerant /\ NeverCloses /\ [Next]_vars
        => [Atomic!Next]_<<ReplicaFiles, Atomic!promiseState>>
  BY NextIsAtomicDespiteLoss, StepsAreAtomic DEF ClosesEmpty, NeverCloses
<1> QED  BY <1>1, <1>2, <1>3, Invariance, TolerantAlways, PTL
         DEF Spec, FilesAreAtomic, Atomic!Spec
=============================================================================
