---------------------------- MODULE Participant ----------------------------
(***************************************************************************)
(* What a server promises whoever talks to it: it pledges itself to a      *)
(* growing list of updates; it then writes the whole list to the file it   *)
(* was named last, in one go, or gives the list up.  Nothing else changes  *)
(* a file.                                                                 *)
(***************************************************************************)
EXTENDS ReplFsData

CONSTANT Server

VARIABLES
  name,    \* the file the next list goes to
  pledge,  \* pledge[s]: the updates s is bound to, by their ids
  count,   \* how many they are
  files    \* files[s][f]: the content of f on s

participantVars == <<name, pledge, count, files>>

Init ==
  /\ name = [s \in Server |-> NoFile]
  /\ pledge = [s \in Server |-> NoUpdates]
  /\ count = [s \in Server |-> 0]
  /\ files = [s \in Server |-> [f \in File |-> Absent]]

-----------------------------------------------------------------------------
Named(s) ==
  /\ \E f \in File : name' = [name EXCEPT ![s] = f]
  /\ UNCHANGED <<pledge, count, files>>

\* More updates join the list; those on it stay.
PledgeMore(s) ==
  /\ \E n \in count[s] .. MaxUpdates, list \in UpdateMap :
       /\ \A i \in UpdateId : (i < count[s] => list[i] = pledge[s][i])
                           /\ (list[i] # NoUpdate <=> i < n)
       /\ count' = [count EXCEPT ![s] = n]
       /\ pledge' = [pledge EXCEPT ![s] = list]
  /\ UNCHANGED <<name, files>>

\* The list is empty again.
Released(s) ==
  /\ pledge' = [pledge EXCEPT ![s] = NoUpdates]
  /\ count' = [count EXCEPT ![s] = 0]

\* The first n updates of the list are written to the file named.
WritesFirst(s, n) ==
  /\ name[s] # NoFile
  /\ files' = [files EXCEPT
                 ![s][name[s]] = Apply(Opened(@), pledge[s], n)]

CarryOut(s) ==
  /\ WritesFirst(s, count[s])
  /\ Released(s)
  /\ UNCHANGED name

GiveUp(s) ==
  /\ Released(s)
  /\ UNCHANGED <<name, files>>

\* Killed, possibly half-way through writing.
Die(s) ==
  /\ \/ UNCHANGED files
     \/ \E n \in 0 .. count[s] : WritesFirst(s, n)
  /\ Released(s)
  /\ name' = [name EXCEPT ![s] = NoFile]

-----------------------------------------------------------------------------
Next ==
  \E s \in Server :
    Named(s) \/ PledgeMore(s) \/ CarryOut(s) \/ GiveUp(s) \/ Die(s)

Spec == Init /\ [][Next]_participantVars
=============================================================================
