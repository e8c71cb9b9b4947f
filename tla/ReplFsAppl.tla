----------------------------- MODULE ReplFsAppl -----------------------------
(***************************************************************************)
(* The sample application (appl.c) on top of the whole system: it opens a  *)
(* file, writes it line by line, commits, closes, and ends with ErrorExit  *)
(* as soon as a call fails.                                                *)
(***************************************************************************)
EXTENDS ReplFs

CONSTANTS
  fileName0,  \* the file it writes
  Line        \* Line[n]: the update of round n of its loop, n < MaxUpdates

ASSUME ApplAssumption ==
  /\ fileName0 \in File
  /\ Line \in [UpdateId -> Update]
  /\ MaxCalls >= MaxUpdates + 3
  /\ MaxClients = 1

VARIABLE at  \* the call main() makes or waits for, or the way it ended

applVars == <<vars, at>>

ApplInit == Init /\ at = "InitReplFs"

-----------------------------------------------------------------------------
\* The call main() makes from here; each is made once, but for the loop.
MainCalls ==
  \/ at = "InitReplFs" /\ InitReplFs /\ UNCHANGED at
  \/ at = "OpenFile" /\ OpenFile(fileName0) /\ UNCHANGED at
  \/ /\ at = "WriteBlock"
     /\ WriteBlock(Line[updateId])
     /\ at' = IF updateId' = MaxUpdates THEN "Commit" ELSE at
  \/ at = "Commit" /\ Commit /\ UNCHANGED at
  \/ at = "CloseFile" /\ CloseFile /\ UNCHANGED at

\* What the call that returns in this step tells main(): did it succeed?
ReturnsOk ==
  \/ at = "InitReplFs" /\ Ready'
  \/ at = "OpenFile" /\ isFileOpen'
  \/ at = "Commit" /\ op = "commit"
  \/ at = "CloseFile" /\ ~isFileOpen'

NextCall(call) ==
  CASE call = "InitReplFs" -> "OpenFile"
    [] call = "OpenFile" -> "WriteBlock"
    [] call = "Commit" -> "CloseFile"
    [] call = "CloseFile" -> "NormalExit"

\* The library works on the call main() waits for.
LibraryWorks ==
  /\ op # "idle"
  /\ (\E s \in Server : ReadStep(s)) \/ Resend \/ Timeout
  /\ at' = IF op' # "idle" THEN at
           ELSE IF ReturnsOk THEN NextCall(at) ELSE "ErrorExit"

ApplNext ==
  \/ \E s \in Server : ServerStep(s) /\ UNCHANGED <<clientVars, at>>
  \/ (MainCalls \/ LibraryWorks) /\ UNCHANGED serverVars

ApplSpec == ApplInit /\ [][ApplNext]_applVars

\* main() does not stop between two calls.
ApplFairSpec ==
  /\ ApplSpec
  /\ NetworkFairness /\ LoopFairness /\ ClockFairness
  /\ WF_applVars(MainCalls /\ UNCHANGED serverVars)

-----------------------------------------------------------------------------
\* The file main() means to write.
AllLines == Apply(EmptyFile, Line, MaxUpdates)

-----------------------------------------------------------------------------
(* What main() knows.                                                       *)

\* Nothing is committed yet.
NoneCommitted == promised[fileName0] = Absent /\ inDoubt = {}

\* The staged updates are the first lines.
FollowsLines ==
  \A i \in UpdateId : i < updateId => clientUpdateMap[i] = Line[i]

Opening ==
  /\ at \in {"InitReplFs", "OpenFile"} => updateId = 0
  /\ at = "InitReplFs" => op = "init" \/ clients = 0
  /\ at = "OpenFile" =>
       /\ op \in {"idle", "open"} /\ ~isFileOpen /\ NoneCommitted
       /\ op = "open" => fileName = fileName0

Staging ==
  /\ at = "WriteBlock" => op = "idle" /\ updateId < MaxUpdates
  /\ at = "Commit" =>
       /\ op \in {"idle", "vote", "commit", "abort"}
       /\ op \in {"vote", "commit"} => api = "Commit"
       /\ op # "abort" => updateId = MaxUpdates
  /\ at \in {"WriteBlock", "Commit"} =>
       /\ isFileOpen /\ fileName = fileName0
       /\ op # "abort" => NoneCommitted /\ FollowsLines

Finishing ==
  /\ at \in {"CloseFile", "NormalExit"} =>
       /\ op \in {"idle", "close"} /\ updateId = 0
       /\ promised[fileName0] = AllLines /\ inDoubt = {}
  /\ at = "NormalExit" => op = "idle" /\ ~isFileOpen

\* Each call of main() finds what the one before it should have left, and what
\* was promised is what main() wrote, from the first line to the last message:
\* the return values main() looks at tell it the truth.
OnCourse == Opening /\ Staging /\ Finishing

-----------------------------------------------------------------------------
(* What main() achieves.                                                    *)

\* "Writes to file complete": every replica then holds all the lines, has set
\* fp to NULL and keeps nothing cached, whichever packets were lost and
\* however many rounds of votes it took.  (Under Timely: a second round of
\* votes that runs out of time lets Commit go on without the lines.)
WritesReachAll ==
  at = "NormalExit" =>
    \A s \in Replicas :
      /\ disk[s][fileName0] = AllLines
      /\ fp[s] = NoFile /\ Cached(updateMap[s]) = {}

\* With its servers up, main() gets through over a network that loses
\* packets, and does so without an error.  (Under Timely: a call whose packets
\* keep getting lost until time is up ends in ErrorExit.)
ApplSucceeds == <>(at = "NormalExit")
=============================================================================
