------------------------------- MODULE ReplFs -------------------------------
(***************************************************************************)
(* replFs: one client and its servers over the multicast group, and the    *)
(* properties that make the replicated file system correct.                *)
(***************************************************************************)
EXTENDS ReplFsServer, ReplFsClient

vars == <<netVars, serverVars, clientVars>>

Init == NetInit /\ ServerInit /\ ClientInit

Next ==
  \/ \E s \in Server : ServerStep(s) /\ UNCHANGED clientVars
  \/ ClientStep /\ UNCHANGED serverVars

Spec == Init /\ [][Next]_vars

-----------------------------------------------------------------------------
(* Fairness.  The application owes nobody another call, and nobody owes a   *)
(* crash, a disk fault or a lost packet.                                    *)

\* Server s handles a packet of the given type.
Handles(s, type) ==
  /\ \E i \in 1 .. Len(toServer[s]) : Handle(s, i) /\ toServer[s][i].type = type
  /\ UNCHANGED clientVars

\* Server s gets the update with this id.
HandlesUpdate(s, id) ==
  /\ \E i \in 1 .. Len(toServer[s]) :
       ProcWriteBlockMessage(s, i) /\ toServer[s][i].updateId = id
  /\ UNCHANGED clientVars

\* The client gets an answer of s it waits for.
HandlesAck(s) ==
  /\ \E i \in 1 .. Len(toClient[s]) : HandleAck(s, i)
  /\ UNCHANGED serverVars

\* No packet that is sent over and over is lost every time: not the message
\* execute repeats, not an update sent again, not an answer.
NetworkFairness ==
  \A s \in Server :
    /\ SF_vars(op # "idle" /\ Handles(s, OpMessage(op).type))
    /\ \A id \in UpdateId : SF_vars(HandlesUpdate(s, id))
    /\ SF_vars(HandlesAck(s))

\* Each server's loop goes on, and so does the client's: it comes to the
\* packets of every server, and to its repeated sends.
LoopFairness ==
  /\ \A s \in Server : WF_vars(ServerReads(s) /\ UNCHANGED clientVars)
  /\ \A s \in Server : WF_vars(ReadStep(s) /\ UNCHANGED serverVars)
  /\ WF_vars(Resend /\ UNCHANGED serverVars)

\* An execute() that goes on and on, and may time out again and again, does; a
\* new round of votes starts the clock anew.
ClockFairness ==
  \A b \in {0, 1} :
    \/ []<>(op = "idle" \/ turn # b)
    \/ SF_vars(turn = b /\ Timeout /\ UNCHANGED serverVars)

\* Where no packet is lost, and where some are.
LosslessFairSpec == Spec /\ LoopFairness /\ ClockFairness
FairSpec == LosslessFairSpec /\ NetworkFairness

-----------------------------------------------------------------------------
(* Type invariant.                                                          *)

\* Every variable holds a value the program can hold.
TypeOK == NetTypeOK /\ ServerTypeOK /\ ClientTypeOK

-----------------------------------------------------------------------------
(* Two-phase commit.                                                        *)

\* The replicas the client relies on that are still alive.
Replicas == {s \in serverIds : up[s]}

\* The current file as it will be after the staged updates are committed.
After == Apply(Opened(promised[fileName]), clientUpdateMap, updateId)

Prepared(s) ==
  /\ fileFullname[s] = fileName
  /\ updateMap[s] = clientUpdateMap
  /\ nextUpdateId[s] = updateId

Committed(s) == Cached(updateMap[s]) = {} /\ disk[s][fileName] = After

\* A vote the client has counted is still true: the server holds the updates
\* it voted for, and they are the client's.  (A VoteAck names no transaction.)
VotesAreHonest ==
  op = "vote" =>
    \A s \in Replicas : \A i \in UpdateId :
      i < recvServerUpdateId[s] =>
        /\ i < nextUpdateId[s]
        /\ updateMap[s][i] = clientUpdateMap[i]

\* Once Commit leaves the vote phase, every live replica has all the staged
\* updates cached, or has them on disk already.
AllPrepared ==
  op = "commit" /\ fileName \notin inDoubt =>
    \A s \in Replicas : Prepared(s) \/ Committed(s)

\* When the client sends Commit, every live replica has the file open that
\* the application has open: OpenFile returned only after each server took
\* the new name.
SameFileEverywhere ==
  op = "commit" => \A s \in Replicas : fileFullname[s] = fileName

\* Every live replica holds exactly what the application was promised: the
\* updates of the transactions reported as committed, none of an aborted one,
\* none lost, none in another file.  During a commit phase a replica may be
\* ahead; a file whose commit phase ended in an error is in doubt.
ReplicasMatchPromise ==
  \A s \in Replicas : \A f \in File \ inDoubt :
    \/ disk[s][f] = promised[f]
    \/ op = "commit" /\ f = fileName /\ disk[s][f] = After

\* With failing disks a commit phase may leave a replica half-way.  Until the
\* application is told of a failed one (inDoubt), the damage is in the file
\* being committed, and every other file is as promised.
DamageIsReported ==
  inDoubt = {} =>
    \A s \in Replicas : \A f \in File :
      disk[s][f] # promised[f] => op = "commit" /\ f = fileName

\* No replica writes a file before the client has decided to commit it, and
\* none does after the call has returned.
DecisionFirst ==
  [][\A s \in Replicas : \A f \in File :
       disk'[s][f] # disk[s][f] => op = "commit" /\ f = fileName]_vars

\* Where no packet is lost nothing is sent again: one round of votes is
\* enough, for no answer of an earlier round or transaction is taken for a
\* missing update, and none is left out of a vote.
OneRoundSuffices ==
  [][~ (op = "vote" /\ op' = "vote" /\ turn' # turn)]_vars

\* Where packets arrive before execute's time is up, no Commit fails as long as
\* every selected server runs and disks work: no server refuses, and no answer
\* left over from another operation or transaction is taken for a refusal, so
\* the only aborts are those the application asked for.  (A loss that lasts
\* until time is up, LONG_TIMEOUT, does make Commit fail.)
HealthyNeverAborts ==
  Replicas = serverIds => inDoubt = {} /\ (op = "abort" => api = "Abort")

-----------------------------------------------------------------------------
(* Closing a file.                                                          *)

\* CloseFile returns success only when no staged update is left behind.
ClosedMeansCommitted == ~isFileOpen => updateId = 0

\* After a successful CloseFile no live replica has, and no packet on its way
\* to one brings, anything a later Commit would write: nothing is cached, fp is
\* NULL, and no repeated WriteBlock, Vote, Commit or Abort is still to come.
\* (It is not said that the process has no FILE open: procCommitMessage opens
\* one over fp without fclose, and fp is all the model keeps.)
ClosedLeavesNothing ==
  ~isFileOpen /\ op = "idle" =>
    \A s \in Replicas :
      /\ fp[s] = NoFile
      /\ Cached(updateMap[s]) = {}
      /\ \A k \in 1 .. Len(toServer[s]) :
           toServer[s][k].type \in {"INIT", "OPENFILE", "CLOSE"}

-----------------------------------------------------------------------------
(* Rolling back.                                                            *)

\* A rollback that is answered with success leaves the file as it was before
\* the commit phase that failed.
RollbackRestores ==
  [][\A s \in Server : \A i \in 1 .. Len(toServer[s]) :
       RollbackDone(s, i) =>
         disk'[s][fileFullname[s]] = promised[fileFullname[s]]]_vars

-----------------------------------------------------------------------------
(* Progress.                                                                *)

\* Every call returns to the application: no retransmission, no round of
\* votes and no refused close goes on for ever.  (So it is while the servers
\* answer before execute's time is up; a vote that comes later can keep Commit
\* busy for ever, with losses or without.)
CallReturns == op # "idle" ~> op = "idle"
=============================================================================
