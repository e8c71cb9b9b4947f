---------------------------- MODULE ReplFsServer ----------------------------
(***************************************************************************)
(* replFsServer (serverInstance.cpp): a single-threaded loop that reads a  *)
(* packet, runs its handler to the end and reads the next.  One action is  *)
(* one handler run, or the process being killed.  A killed server never    *)
(* comes back: main refuses a mount directory that already exists.         *)
(***************************************************************************)
EXTENDS ReplFsNetwork

CONSTANTS
  DiskFaults,  \* may fopen, fflush, remove and fclose fail?
  Crashable    \* servers that may be killed

ASSUME ServerAssumption ==
  /\ DiskFaults \in BOOLEAN
  /\ Crashable \subseteq Server

VARIABLES
  fileFullname,  \* the name the last OpenFile message gave
  updateMap,     \* updates cached since the last reset
  nextUpdateId,  \* ids below this were found in the cache by a vote
  backup,        \* NULL (NoFile) or what Commit saved of the file
  fp,            \* the FILE*, by the name it was opened under
  disk           \* disk[s][f]: content of f in the mount directory of s

memoryVars == <<fileFullname, updateMap, nextUpdateId, backup, fp>>
serverVars == <<memoryVars, disk>>

ServerInit ==
  /\ fileFullname = [s \in Server |-> NoFile]
  /\ updateMap = [s \in Server |-> NoUpdates]
  /\ nextUpdateId = [s \in Server |-> 0]
  /\ backup = [s \in Server |-> NoFile]
  /\ fp = [s \in Server |-> NoFile]
  /\ disk = [s \in Server |-> [f \in File |-> Absent]]

ServerTypeOK ==
  /\ fileFullname \in [Server -> File \cup {NoFile}]
  /\ updateMap \in [Server -> UpdateMap]
  /\ nextUpdateId \in [Server -> 0 .. MaxUpdates]
  /\ backup \in [Server -> Content \cup {NoFile}]
  /\ fp \in [Server -> File \cup {NoFile, Dangling}]
  /\ disk \in [Server -> [File -> Content \cup {Absent}]]

-----------------------------------------------------------------------------
\* execute(): server s, running, reads packet i, of the given type.
Receives(s, i, type) ==
  /\ up[s]
  /\ i \in Deliverable(toServer[s])
  /\ toServer[s][i].type = type
  /\ UNCHANGED up

\* execute(): the packet is lost on the way, or isDropPacket discards it.
DropClientPacket(s, i) ==
  /\ Lossy
  /\ up[s]
  /\ i \in Deliverable(toServer[s])
  /\ Consume(s, i)
  /\ UNCHANGED <<up, serverVars>>

\* Mutants: reset() forgets only one of the two.
ResetKeepsUpdates(s) ==
  /\ nextUpdateId' = [nextUpdateId EXCEPT ![s] = 0]
  /\ UNCHANGED updateMap

ResetKeepsCount(s) ==
  /\ updateMap' = [updateMap EXCEPT ![s] = NoUpdates]
  /\ UNCHANGED nextUpdateId

\* reset(): forget the cached updates.
Reset(s) ==
  /\ updateMap' = [updateMap EXCEPT ![s] = NoUpdates]
  /\ nextUpdateId' = [nextUpdateId EXCEPT ![s] = 0]

\* resetBackup().
ResetBackup(s) == backup' = [backup EXCEPT ![s] = NoFile]

SetFp(s, value) == fp' = [fp EXCEPT ![s] = value]

ProcInitMessage(s, i) ==
  /\ Receives(s, i, "INIT")
  /\ Reply(s, i, Plain("INITACK"))
  /\ UNCHANGED serverVars

\* Mutant: the name of the first file opened stays.
OpenKeepsFirstName(s, i) ==
  /\ Receives(s, i, "OPENFILE")
  /\ fileFullname' = IF fileFullname[s] = NoFile
                       THEN [fileFullname EXCEPT ![s] = toServer[s][i].filename]
                       ELSE fileFullname
  /\ Reply(s, i, Ack("OPENFILEACK", 0))
  /\ UNCHANGED <<updateMap, nextUpdateId, backup, fp, disk>>

\* Only the name is kept; the cached updates stay as they are.
ProcOpenFileMessage(s, i) ==
  /\ Receives(s, i, "OPENFILE")
  /\ fileFullname' = [fileFullname EXCEPT ![s] = toServer[s][i].filename]
  /\ Reply(s, i, Ack("OPENFILEACK", 0))
  /\ UNCHANGED <<updateMap, nextUpdateId, backup, fp, disk>>

\* Mutant: a later block replaces the one cached under its id.
LastBlockWins(s, i) ==
  /\ Receives(s, i, "WRITEBLOCK")
  /\ updateMap' = [updateMap EXCEPT
                     ![s][toServer[s][i].updateId] = toServer[s][i].update]
  /\ Consume(s, i)
  /\ UNCHANGED <<fileFullname, nextUpdateId, backup, fp, disk>>

\* The first block cached under an id stays until the next reset.
ProcWriteBlockMessage(s, i) ==
  LET id == toServer[s][i].updateId
  IN  /\ Receives(s, i, "WRITEBLOCK")
      /\ updateMap' = IF updateMap[s][id] = NoUpdate
                        THEN [updateMap EXCEPT ![s][id] = toServer[s][i].update]
                        ELSE updateMap
      /\ Consume(s, i)
      /\ UNCHANGED <<fileFullname, nextUpdateId, backup, fp, disk>>

\* Mutant: an id is counted only if the next one is there too.
ScanLooksAhead(s, n) ==
  /\ \A j \in nextUpdateId[s] + 1 .. n :
       j \in UpdateId /\ updateMap[s][j] # NoUpdate
  /\ n + 1 \in UpdateId => updateMap[s][n + 1] = NoUpdate

\* The scan stops at n: every id from where the last scan stopped up to n is
\* cached, and n is not.
ScanStopsAt(s, n) ==
  /\ \A j \in nextUpdateId[s] .. n - 1 : updateMap[s][j] # NoUpdate
  /\ n < MaxUpdates => updateMap[s][n] = NoUpdate

ProcVoteMessage(s, i) ==
  \E n \in nextUpdateId[s] .. MaxUpdates :
    /\ Receives(s, i, "VOTE")
    /\ ScanStopsAt(s, n)
    /\ nextUpdateId' = [nextUpdateId EXCEPT ![s] = n]
    /\ Reply(s, i, VoteAckMessage(n))
    /\ UNCHANGED <<fileFullname, updateMap, backup, fp, disk>>

-----------------------------------------------------------------------------
(* procCommitMessage.                                                       *)

\* Mutants: the loop stops one update short; fopen truncates the file.
WrittenButLast(s, n) ==
  [disk[s] EXCEPT ![fileFullname[s]] = Apply(Opened(@), updateMap[s], n - 1)]

WrittenToNewFile(s, n) ==
  [disk[s] EXCEPT ![fileFullname[s]] = Apply(EmptyFile, updateMap[s], n)]

\* The file of s after the first n cached updates are written to it.
Written(s, n) ==
  [disk[s] EXCEPT ![fileFullname[s]] = Apply(Opened(@), updateMap[s], n)]

\* What Commit leaves in backup: only a non-empty file is backed up.
BackupTaken(s) ==
  LET before == Opened(disk[s][fileFullname[s]])
  IN  IF NonEmpty(before) THEN ReadAtEnd(before) ELSE backup[s]

\* Mutant: the file is always opened as an existing one.
CommitNeedsFile(s, i) ==
  /\ Receives(s, i, "COMMIT")
  /\ fileFullname[s] # NoFile => disk[s][fileFullname[s]] = Absent
  /\ SetFp(s, NoFile)
  /\ Reply(s, i, Ack("COMMITACK", -1))
  /\ UNCHANGED <<fileFullname, updateMap, nextUpdateId, backup, disk>>

CommitOpenFails(s, i) ==
  /\ Receives(s, i, "COMMIT")
  /\ DiskFaults \/ fileFullname[s] = NoFile
  /\ SetFp(s, NoFile)
  /\ Reply(s, i, Ack("COMMITACK", -1))
  /\ UNCHANGED <<fileFullname, updateMap, nextUpdateId, backup, disk>>

\* Mutant: an update that cannot be flushed is passed over.
CommitIgnoresFlush(s, i) ==
  /\ Receives(s, i, "COMMIT")
  /\ DiskFaults
  /\ fileFullname[s] # NoFile
  /\ \E n \in 0 .. nextUpdateId[s] :
       disk' = [disk EXCEPT ![s] = Written(s, n)]
  /\ SetFp(s, fileFullname[s])
  /\ ResetBackup(s)
  /\ Reset(s)
  /\ Reply(s, i, Ack("COMMITACK", 0))
  /\ UNCHANGED fileFullname

\* fflush fails after some of the updates reached the file.
CommitFlushFails(s, i) ==
  /\ Receives(s, i, "COMMIT")
  /\ DiskFaults
  /\ fileFullname[s] # NoFile
  /\ nextUpdateId[s] > 0
  /\ \E n \in 0 .. nextUpdateId[s] :
       disk' = [disk EXCEPT ![s] = Written(s, n)]
  /\ backup' = [backup EXCEPT ![s] = BackupTaken(s)]
  /\ SetFp(s, fileFullname[s])
  /\ Reply(s, i, Ack("COMMITACK", -1))
  /\ UNCHANGED <<fileFullname, updateMap, nextUpdateId>>

\* The stream fp pointed to before is not closed; the model keeps no count of
\* the streams dropped here.
CommitDone(s, i) ==
  /\ Receives(s, i, "COMMIT")
  /\ fileFullname[s] # NoFile
  /\ disk' = [disk EXCEPT ![s] = Written(s, nextUpdateId[s])]
  /\ SetFp(s, fileFullname[s])
  /\ ResetBackup(s)
  /\ Reset(s)
  /\ Reply(s, i, Ack("COMMITACK", 0))
  /\ UNCHANGED fileFullname

ProcCommitMessage(s, i) ==
  CommitOpenFails(s, i) \/ CommitFlushFails(s, i) \/ CommitDone(s, i)

-----------------------------------------------------------------------------
(* procAbortMessage.                                                        *)

\* Mutant: the cached updates survive the abort.
AbortKeepsUpdates(s, i) ==
  /\ Receives(s, i, "ABORT")
  /\ backup[s] = NoFile
  /\ Reply(s, i, Ack("ABORTACK", 0))
  /\ UNCHANGED serverVars

AbortWithoutBackup(s, i) ==
  /\ Receives(s, i, "ABORT")
  /\ backup[s] = NoFile
  /\ Reset(s)
  /\ Reply(s, i, Ack("ABORTACK", 0))
  /\ UNCHANGED <<fileFullname, backup, fp, disk>>

\* A commit failed half-way and left its backup: every way through the
\* rollback ends with backup and cache reset.
RollsBack(s, i) ==
  /\ Receives(s, i, "ABORT")
  /\ backup[s] # NoFile
  /\ fp[s] # NoFile
  /\ ResetBackup(s)
  /\ Reset(s)
  /\ UNCHANGED fileFullname

RollbackRemoveFails(s, i) ==
  /\ RollsBack(s, i)
  /\ DiskFaults \/ disk[s][fileFullname[s]] = Absent
  /\ SetFp(s, NoFile)
  /\ Reply(s, i, Ack("ABORTACK", -1))
  /\ UNCHANGED disk

RollbackReopenFails(s, i) ==
  /\ RollsBack(s, i)
  /\ DiskFaults
  /\ disk[s][fileFullname[s]] # Absent
  /\ SetFp(s, NoFile)
  /\ disk' = [disk EXCEPT ![s][fileFullname[s]] = Absent]
  /\ Reply(s, i, Ack("ABORTACK", -1))

\* The code answers a failed flush with a CommitAck, not an AbortAck.
RollbackFlushFails(s, i) ==
  /\ RollsBack(s, i)
  /\ DiskFaults
  /\ disk[s][fileFullname[s]] # Absent
  /\ SetFp(s, fileFullname[s])
  /\ \E content \in {EmptyFile, PointerSizeOf(backup[s])} :
       disk' = [disk EXCEPT ![s][fileFullname[s]] = content]
  /\ Reply(s, i, Ack("COMMITACK", -1))

RollbackDone(s, i) ==
  /\ RollsBack(s, i)
  /\ disk[s][fileFullname[s]] # Absent
  /\ SetFp(s, fileFullname[s])
  /\ disk' = [disk EXCEPT ![s][fileFullname[s]] = PointerSizeOf(backup[s])]
  /\ Reply(s, i, Ack("ABORTACK", 0))

ProcAbortMessage(s, i) ==
  \/ AbortWithoutBackup(s, i)
  \/ RollbackRemoveFails(s, i)
  \/ RollbackReopenFails(s, i)
  \/ RollbackFlushFails(s, i)
  \/ RollbackDone(s, i)

-----------------------------------------------------------------------------
(* procCloseMessage.                                                        *)

CloseRefused(s, i) ==
  /\ Receives(s, i, "CLOSE")
  /\ Cached(updateMap[s]) # {}
  /\ Reply(s, i, Ack("CLOSEACK", 1))
  /\ UNCHANGED serverVars

\* Mutant: the updates counted by votes are looked at, not the cached ones.
CloseTrustsVotes(s, i) ==
  /\ Receives(s, i, "CLOSE")
  /\ nextUpdateId[s] = 0
  /\ SetFp(s, NoFile)
  /\ Reply(s, i, Ack("CLOSEACK", 0))
  /\ UNCHANGED <<fileFullname, updateMap, nextUpdateId, backup, disk>>

CloseDone(s, i) ==
  /\ Receives(s, i, "CLOSE")
  /\ Cached(updateMap[s]) = {}
  /\ SetFp(s, NoFile)
  /\ Reply(s, i, Ack("CLOSEACK", 0))
  /\ UNCHANGED <<fileFullname, updateMap, nextUpdateId, backup, disk>>

\* fclose fails; fp keeps pointing to the released FILE.
CloseFails(s, i) ==
  /\ Receives(s, i, "CLOSE")
  /\ DiskFaults
  /\ Cached(updateMap[s]) = {}
  /\ fp[s] # NoFile
  /\ SetFp(s, Dangling)
  /\ Reply(s, i, Ack("CLOSEACK", -1))
  /\ UNCHANGED <<fileFullname, updateMap, nextUpdateId, backup, disk>>

ProcCloseMessage(s, i) ==
  CloseRefused(s, i) \/ CloseDone(s, i) \/ CloseFails(s, i)

-----------------------------------------------------------------------------
(* The process ends.                                                        *)

\* The memory of s is gone; what it sent may still arrive.
Dies(s) ==
  /\ up[s]
  /\ up' = [up EXCEPT ![s] = FALSE]
  /\ toServer' = [toServer EXCEPT ![s] = <<>>]
  /\ fileFullname' = [fileFullname EXCEPT ![s] = NoFile]
  /\ Reset(s)
  /\ ResetBackup(s)
  /\ SetFp(s, NoFile)
  /\ UNCHANGED toClient

Crash(s) ==
  /\ s \in Crashable
  /\ Dies(s)
  /\ UNCHANGED disk

\* Killed while procCommitMessage writes: n of the updates were flushed.
CrashInCommit(s) ==
  /\ s \in Crashable
  /\ \E i \in Deliverable(toServer[s]) : toServer[s][i].type = "COMMIT"
  /\ fileFullname[s] # NoFile
  /\ \E n \in 0 .. nextUpdateId[s] :
       disk' = [disk EXCEPT ![s] = Written(s, n)]
  /\ Dies(s)

\* Undefined behaviour in the handlers may end the process: Abort passes a
\* NULL fp to fclose, or fp is passed to fclose a second time.
BadFclose(s) ==
  /\ \E i \in Deliverable(toServer[s]) :
       \/ /\ toServer[s][i].type = "ABORT"
          /\ backup[s] # NoFile
          /\ fp[s] \in {NoFile, Dangling}
       \/ /\ toServer[s][i].type = "CLOSE"
          /\ Cached(updateMap[s]) = {}
          /\ fp[s] = Dangling
  /\ Dies(s)
  /\ UNCHANGED disk

-----------------------------------------------------------------------------
Handle(s, i) ==
  \/ ProcInitMessage(s, i)
  \/ ProcOpenFileMessage(s, i)
  \/ ProcWriteBlockMessage(s, i)
  \/ ProcVoteMessage(s, i)
  \/ ProcCommitMessage(s, i)
  \/ ProcAbortMessage(s, i)
  \/ ProcCloseMessage(s, i)

ServerReads(s) ==
  \E i \in 1 .. Len(toServer[s]) : Handle(s, i) \/ DropClientPacket(s, i)

ServerStep(s) ==
  \/ ServerReads(s)
  \/ Crash(s)
  \/ CrashInCommit(s)
  \/ BadFclose(s)

-----------------------------------------------------------------------------
(* The cache and the count of a vote.                                       *)

\* procCommitMessage dereferences updateMap.find(i) for every i below
\* nextUpdateId without a test against end(): whatever WriteBlock, Vote,
\* Commit and Abort messages are lost, repeated, reordered or left over from
\* an earlier client, the entry is there.
ServerPrefix == \A s \in Server : HasPrefix(updateMap[s], nextUpdateId[s])

\* A vote is binding: a server keeps the very updates it counted, under the
\* same ids and whatever WriteBlock messages still come in, until it gives up
\* all of them at once.  (The message that makes it do so may be a Commit or
\* an Abort of another transaction: none of them carries an identity.)
VoteIsBinding ==
  [][\A s \in Server :
       \/ /\ nextUpdateId'[s] >= nextUpdateId[s]
          /\ \A i \in UpdateId : i < nextUpdateId[s] =>
               updateMap'[s][i] = updateMap[s][i]
       \/ nextUpdateId'[s] = 0 /\ Cached(updateMap'[s]) = {}]_serverVars
=============================================================================
