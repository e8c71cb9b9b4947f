---------------------------- MODULE MCReplFsAppl ----------------------------
(***************************************************************************)
(* A small instance of ReplFsAppl for TLC.                                 *)
(***************************************************************************)
EXTENDS ReplFsAppl

CONSTANTS c1, c2, d1, d2

\* One line after the other.
Blocks == {{c1}, {c2}}
Lines == [i \in UpdateId |->
            IF i = 0 THEN [block |-> {c1}, data |-> d1]
                     ELSE [block |-> {c2}, data |-> d2]]

ApplCalls == {"WriteBlock", "Commit", "CloseFile"}
=============================================================================
