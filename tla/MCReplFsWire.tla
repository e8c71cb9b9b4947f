---------------------------- MODULE MCReplFsWire ----------------------------
(***************************************************************************)
(* A small instance of ReplFs whose packets TLC looks into.                *)
(***************************************************************************)
EXTENDS MCReplFs, ReplFsWire

CONSTANTS f1, f2, d1

\* A number of four different bytes: 1, 2, 3, 4.
FileIds == {16909060}
Names == (f1 :> <<102, 49>>) @@ (f2 :> <<>>)
Extents == [b \in Block |-> [byteOffset |-> 66051, blockSize |-> 3]]
Bytes == (d1 :> [k \in 1 .. MaxBlockLength |-> k % 256])
=============================================================================
