---------------------------- MODULE AtomicFiles ----------------------------
(***************************************************************************)
(* What an application may rely on, without messages, votes or rounds: a   *)
(* client stages updates, and a commit replaces the file on each replica   *)
(* in one step, on all of them before the call succeeds.  A commit that    *)
(* fails leaves its file in doubt and every other file as it was.          *)
(***************************************************************************)
EXTENDS ReplFsData, Sequences

CONSTANT Server

VARIABLES
  replica,  \* replica[s][f]: file f on server s, for each s relied on
  file,     \* the file the application has open
  staged,   \* the updates written since the last commit or abort
  phase,    \* "ready" for calls, "committing" or "aborting"
  stable,   \* stable[f]: f after the commits reported as successful
  doubt     \* files whose last commit failed half-way

promiseState == <<file, staged, phase, stable, doubt>>

Init ==
  /\ replica = <<>>
  /\ file = NoFile
  /\ staged = <<>>
  /\ phase = "ready"
  /\ stable = [f \in File |-> Absent]
  /\ doubt = {}

-----------------------------------------------------------------------------
\* One update written over a content: no notion of update ids.
Overwrite(content, update) ==
  [c \in Cell |-> IF c \in update.block THEN update.data ELSE content[c]]

\* All staged updates, in the order of the WriteBlock calls.
AfterStaged(content) ==
  LET after[n \in 0 .. Len(staged)] ==
        IF n = 0 THEN Opened(content) ELSE Overwrite(after[n - 1], staged[n])
  IN  after[Len(staged)]

\* A server is selected; its files are those the others have.
Join(s) ==
  /\ s \notin DOMAIN replica
  /\ phase = "ready"
  /\ replica' = [t \in DOMAIN replica \cup {s} |->
                   IF t = s THEN stable ELSE replica[t]]
  /\ UNCHANGED promiseState

\* A server dies.
Leave(s) ==
  /\ replica' = [t \in DOMAIN replica \ {s} |-> replica[t]]
  /\ UNCHANGED promiseState

\* Staged updates follow the application to the file it opens.
OpenFile(f) ==
  /\ phase = "ready"
  /\ file' = f
  /\ UNCHANGED <<replica, staged, phase, stable, doubt>>

WriteBlock(u) ==
  /\ phase = "ready"
  /\ file # NoFile
  /\ staged' = Append(staged, u)
  /\ UNCHANGED <<replica, file, phase, stable, doubt>>

\* The point of no return of a commit.
Decide ==
  /\ phase = "ready"
  /\ file # NoFile
  /\ phase' = "committing"
  /\ UNCHANGED <<replica, file, staged, stable, doubt>>

\* A replica takes all the staged updates, in one step.
Replace(s) ==
  /\ phase = "committing"
  /\ replica' = [replica EXCEPT ![s][file] = AfterStaged(@)]
  /\ UNCHANGED promiseState

CommitSucceeds ==
  LET after == AfterStaged(stable[file])
  IN  /\ phase = "committing"
      /\ file \in doubt \/ \A s \in DOMAIN replica : replica[s][file] = after
      /\ stable' = [stable EXCEPT ![file] = after]
      /\ staged' = <<>>
      /\ phase' = "ready"
      /\ UNCHANGED <<replica, file, doubt>>

\* Some replicas have the updates, and the application is told of an error.
CommitFails ==
  /\ phase = "committing"
  /\ doubt' = doubt \cup {file}
  /\ phase' = "aborting"
  /\ UNCHANGED <<replica, file, staged, stable>>

\* The application aborts, or the vote of a commit failed.
Abort ==
  /\ phase = "ready"
  /\ phase' = "aborting"
  /\ UNCHANGED <<replica, file, staged, stable, doubt>>

AbortEnds ==
  /\ phase = "aborting"
  /\ staged' = <<>>
  /\ phase' = "ready"
  /\ UNCHANGED <<replica, file, stable, doubt>>

\* A file is closed only when nothing is staged.
CloseFile ==
  /\ phase = "ready"
  /\ staged = <<>>
  /\ file' = NoFile
  /\ UNCHANGED <<replica, staged, phase, stable, doubt>>

-----------------------------------------------------------------------------
Next ==
  \/ \E s \in Server : Join(s) \/ (s \in DOMAIN replica /\ (Leave(s) \/ Replace(s)))
  \/ \E f \in File : OpenFile(f)
  \/ \E u \in Update : WriteBlock(u)
  \/ Decide \/ CommitSucceeds \/ CommitFails
  \/ Abort \/ AbortEnds
  \/ CloseFile

Spec == Init /\ [][Next]_<<replica, promiseState>>
=============================================================================
