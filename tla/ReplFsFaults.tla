---------------------------- MODULE ReplFsFaults ----------------------------
(***************************************************************************)
(* The inductive invariant of replFs where disks fail: packets arrive in   *)
(* order and in time, one client runs, but any fopen, fflush, remove or    *)
(* fclose of a server may fail and any server may be killed.  It speaks of *)
(* the time until a commit phase has ended in an error, which is when the  *)
(* application is told; what happens after that is for it to repair.       *)
(***************************************************************************)
EXTENDS ReplFsReliable

\* Packets arrive, in order, before time is up.
Prompt ==
  /\ Lossy = FALSE
  /\ ReorderWindow = 1
  /\ Timely = TRUE
  /\ MaxClients = 1

-----------------------------------------------------------------------------
(* The channels of a selected server.                                       *)

\* A vote under way is for all that is staged.
VotesForAll(s) ==
  op = "vote" =>
    \A k \in 1 .. Len(toClient[s]) : toClient[s][k].type = "VOTEACK" =>
      toClient[s][k].updateId = updateId

\* Answers are told apart in the two phases of a commit, and only there: a
\* close that fails on one server, or is refused after others have agreed,
\* leaves answers of the others behind, and the next close counts them.
FaultyChannels(s) ==
  /\ op \in {"vote", "commit"} => InOrder(s)
  /\ NoOldVotes(s)
  /\ VotesForAll(s)

-----------------------------------------------------------------------------
(* What a live replica holds.                                               *)

\* The first answer of s to the Commit is an error, and the client has yet
\* to read it.
Failing(s) ==
  /\ s \notin recvServerId
  /\ \E k \in 1 .. Len(toClient[s]) :
       /\ toClient[s][k].type = "COMMITACK" /\ toClient[s][k].fileDesc < 0
       /\ \A j \in 1 .. k - 1 : toClient[s][j].type # "COMMITACK"

\* No commit has failed on s.
Intact(s) ==
  /\ Updates(s) /\ Named(s)
  /\ Voting(s) /\ Committing(s) /\ CommitsLeft(s) /\ OnDisk(s)
  /\ backup[s] = NoFile

\* A commit has failed on s: cache, backup and file are in any state, but the
\* damage is in the file being committed, and the client will hear of it.
Halfway(s) ==
  /\ op = "commit" /\ Failing(s)
  /\ fileFullname[s] = fileName
  /\ Only(toServer[s], {"VOTE", "COMMIT"})
  /\ \A f \in File : f # fileName => disk[s][f] = promised[f]

-----------------------------------------------------------------------------
FaultyBooks ==
  /\ op \in {"idle", "init"} => recvServerId = {}
  /\ ~IsFull(recvServerId) /\ ~IsFull(closeRecvServerId)
  /\ op = "vote" => \A s \in serverIds : recvServerUpdateId[s] \in {-1, updateId}
  /\ clients = 0 => op = "idle" /\ serverIds = {}
  /\ clients = 0 \/ op = "init" => updateId = 0 /\ \A s \in Server : backup[s] = NoFile

\* Until the application is told of a failed commit, each live replica has made
\* of its calls what a working one would have, or has failed in the commit that
\* is going on and has said so.  It is about the error paths of
\* procCommitMessage and procCloseMessage, and about what the client takes for
\* an answer to the present operation.
Untold ==
  inDoubt = {} =>
    /\ FaultyBooks
    /\ Fresh
    /\ \A s \in serverIds : FaultyChannels(s)
    /\ \A s \in Replicas : Intact(s) \/ Halfway(s)
=============================================================================
