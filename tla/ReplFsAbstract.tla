--------------------------- MODULE ReplFsAbstract ---------------------------
(***************************************************************************)
(* ReplFs implements two abstract specifications: each server is a         *)
(* Participant, on any network; client, servers and network together are   *)
(* AtomicFiles, under the conditions the runs state.                       *)
(***************************************************************************)
EXTENDS ReplFs

\* What a server is bound to: the updates its last vote counted.
Pledge(s) ==
  [i \in UpdateId |-> IF i < nextUpdateId[s] THEN updateMap[s][i] ELSE NoUpdate]

Participants == INSTANCE Participant
  WITH name <- fileFullname,
       pledge <- [s \in Server |-> Pledge(s)],
       count <- nextUpdateId,
       files <- disk

\* The files of the replicas, hidden for servers not selected or dead.
ReplicaFiles == [s \in Replicas |-> disk[s]]

Atomic == INSTANCE AtomicFiles
  WITH replica <- ReplicaFiles,
       file <- IF isFileOpen THEN fileName ELSE NoFile,
       staged <- [i \in 1 .. updateId |-> clientUpdateMap[i - 1]],
       phase <- IF op = "commit" THEN "committing"
                ELSE IF op = "abort" THEN "aborting" ELSE "ready",
       stable <- promised,
       doubt <- inDoubt

-----------------------------------------------------------------------------
\* A server writes a file only by carrying out the very updates it voted for,
\* all of them, in the file named last; between vote and outcome neither a
\* repeated, late or foreign packet nor the end of the client changes what
\* it is bound to.
ServersKeepPledges == Participants!Spec

\* To the application a commit is atomic: each replica goes from the old
\* content to the new one in a single step, between the decision and the end
\* of the call and never outside; success means every replica has done so;
\* what was aborted leaves no trace, and nothing is staged in a closed file.
FilesAreAtomic == Atomic!Spec
=============================================================================
