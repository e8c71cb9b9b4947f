----------------------------- MODULE ReplFsData -----------------------------
(***************************************************************************)
(* What replFs stores: staged updates, and the contents of replicated      *)
(* files.  An update is the byteOffset/blockSize/buffer triple of the      *)
(* source; its extent (byteOffset, blockSize) is abstracted to the set of  *)
(* cells it covers, its buffer to one data value.                          *)
(***************************************************************************)
EXTENDS Integers, FiniteSets, FiniteSetsExt

CONSTANTS
  File,        \* names an application opens
  Cell,        \* the places of a file an update can cover
  FirstCell,   \* the cell at offset 0; a cell is no smaller than a pointer
  Block,       \* the extents written, each a set of cells
  Data,        \* the buffers written
  MaxUpdates,  \* bound: most WriteBlock calls staged in one transaction
  NoUpdate,    \* a map has no entry under this update id
  NoFile,      \* the empty file name, and a FILE* that is NULL
  Dangling,    \* a FILE* kept after fclose failed on it
  Absent,      \* no such file in the mount directory
  Hole,        \* a cell nothing was written to
  Zero         \* a cell overwritten with zero bytes nobody asked for

ASSUME DataAssumption ==
  /\ MaxUpdates \in Nat \ {0}
  /\ FirstCell \in Cell
  /\ Block \subseteq SUBSET Cell
  /\ NoFile \notin File /\ Dangling \notin File /\ NoFile # Dangling
  /\ NoUpdate \notin [block : Block, data : Data]
  /\ Absent \notin [Cell -> Data \cup {Hole, Zero}]

-----------------------------------------------------------------------------
(* The std::map<uint32_t, Update> both sides keep, as a total function.     *)

UpdateId == 0 .. MaxUpdates - 1
Update == [block : Block, data : Data]
UpdateMap == [UpdateId -> Update \cup {NoUpdate}]

NoUpdates == [i \in UpdateId |-> NoUpdate]
Cached(map) == {i \in UpdateId : map[i] # NoUpdate}

\* The map has every id below n: find(i) never yields end() for i < n.
HasPrefix(map, n) == \A i \in UpdateId : i < n => map[i] # NoUpdate

-----------------------------------------------------------------------------
(* File contents.                                                           *)

Content == [Cell -> Data \cup {Hole, Zero}]
EmptyFile == [c \in Cell |-> Hole]

\* fileSize > 0: something was written to the file.
NonEmpty(content) == content # EmptyFile

\* fopen "w+b" when the name is absent creates an empty file, "r+b" keeps it.
Opened(content) == IF content = Absent THEN EmptyFile ELSE content

\* Mutant: the first update to cover a cell decides.
ApplyFirstWins(content, map, n) ==
  [c \in Cell |->
     LET writers == {i \in UpdateId : i < n /\ c \in map[i].block}
     IN  IF writers = {} THEN content[c] ELSE map[Min(writers)].data]

\* Updates 0 .. n-1 written one after the other: the last one covering a
\* cell decides what the cell holds.
Apply(content, map, n) ==
  [c \in Cell |->
     LET writers == {i \in UpdateId : i < n /\ c \in map[i].block}
     IN  IF writers = {} THEN content[c] ELSE map[Max(writers)].data]

\* What fread leaves in the zeroed backup buffer when the stream stands at
\* SEEK_END: nothing, so the buffer is zeros throughout.
ReadAtEnd(content) == [c \in Cell |-> Zero]

\* A new file with the first sizeof(char *) bytes of a buffer in it.
PointerSizeOf(saved) == [EmptyFile EXCEPT ![FirstCell] = saved[FirstCell]]
=============================================================================
