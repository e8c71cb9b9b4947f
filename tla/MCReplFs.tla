------------------------------ MODULE MCReplFs ------------------------------
(***************************************************************************)
(* Small instances of ReplFs for TLC.                                      *)
(***************************************************************************)
EXTENDS ReplFsAbstract, ReplFsLossy, ReplFsFaults, TLC

CONSTANTS c1, c2

\* Extents: the whole file, or overlapping ones.
WholeFile == {Cell}
Overlapping == {{c1}, {c1, c2}}

\* The API functions the application uses.
CommitOnly == {"WriteBlock", "Commit"}
NoClose == {"WriteBlock", "Commit", "Abort"}
AllCalls == {"WriteBlock", "Commit", "Abort", "CloseFile"}

Servers == Permutations(Server)
=============================================================================
