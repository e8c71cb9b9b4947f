--------------------------- MODULE ReplFsReliable ---------------------------
(***************************************************************************)
(* The inductive invariant of replFs where the network neither loses nor   *)
(* reorders packets, disks work and one client runs: what may be under way *)
(* between the client and a server at each point of a call, and what the   *)
(* server has made of the packets it has read.                             *)
(***************************************************************************)
EXTENDS ReplFs

\* Packets arrive, in order, before time is up; only processes fail.
Dependable ==
  /\ Lossy = FALSE
  /\ ReorderWindow = 1
  /\ DiskFaults = FALSE
  /\ Timely = TRUE
  /\ MaxClients = 1

-----------------------------------------------------------------------------
(* Queues.                                                                  *)

\* The type of OpMessage(o).
MsgType == [init |-> "INIT", open |-> "OPENFILE", vote |-> "VOTE",
            commit |-> "COMMIT", abort |-> "ABORT",
            close |-> "CLOSE", close2 |-> "CLOSE"]

Only(q, types) == \A k \in 1 .. Len(q) : q[k].type \in types

NoneAfter(q, k, types) == \A j \in k + 1 .. Len(q) : q[j].type \notin types

\* What a server may still have to read once operation o is answered.  After
\* OpenFile and Abort these may be the packets of an earlier call.
Follow(o) ==
  IF o \in {"open", "abort"} THEN {MsgType[o], "WRITEBLOCK"} ELSE {MsgType[o]}

Settled(s, o) == Only(toClient[s], {AckType[o]}) /\ Only(toServer[s], Follow(o))

-----------------------------------------------------------------------------
(* The channels of a selected server.                                       *)

\* Within an operation: its messages and its answers come last, and who
\* answers it has read all that was sent before.
InOrder(s) ==
  op # "idle" =>
    /\ \A k \in 1 .. Len(toClient[s]) : toClient[s][k].type = AckType[op] =>
         /\ \A j \in k .. Len(toClient[s]) : toClient[s][j].type = AckType[op]
         /\ Only(toServer[s], Follow(op))
    /\ \A k \in 1 .. Len(toServer[s]) : toServer[s][k].type = MsgType[op] =>
         \A j \in k .. Len(toServer[s]) : toServer[s][j].type \in Follow(op)
    /\ s \in recvServerId => Settled(s, op)

\* Between two calls: what is under way belongs to the last operation, or is
\* an update staged after it.
Quiet(s) ==
  op = "idle" =>
    \E o \in {"init", "open", "commit", "abort", "close"} :
      /\ o = "close" => ~isFileOpen
      /\ Only(toClient[s], {AckType[o]})
      /\ Only(toServer[s], {MsgType[o], "WRITEBLOCK"})

\* Votes are under way only in the two phases of a commit.
NoOldVotes(s) ==
  op \notin {"vote", "commit"} =>
    /\ \A k \in 1 .. Len(toServer[s]) : toServer[s][k].type # "VOTE"
    /\ \A k \in 1 .. Len(toClient[s]) : toClient[s][k].type # "VOTEACK"

\* No operation is refused but a close, and that for cached updates only.
Answers(s) ==
  \A k \in 1 .. Len(toClient[s]) :
    /\ toClient[s][k].type # "INITACK" => toClient[s][k].fileDesc >= 0
    /\ op \in {"close", "close2"} /\ toClient[s][k].type = "CLOSEACK" =>
         toClient[s][k].fileDesc = IF updateId > 0 THEN 1 ELSE 0
    /\ op = "vote" /\ toClient[s][k].type = "VOTEACK" =>
         toClient[s][k].updateId = updateId

Channels(s) == InOrder(s) /\ Quiet(s) /\ NoOldVotes(s) /\ Answers(s)

-----------------------------------------------------------------------------
(* What a live replica holds.                                               *)

Clears == {"COMMIT", "ABORT"}

\* The updates a server should have cached when it has read everything.
Target == IF op \in {"commit", "abort"} THEN 0 ELSE updateId

Staged(id, u) == id < Target /\ u = clientUpdateMap[id]

\* Each staged update is cached or on its way, and nothing else is, as far
\* as no Commit or Abort under way throws it out.
Updates(s) ==
  /\ \A k \in 1 .. Len(toServer[s]) :
       /\ toServer[s][k].type = "WRITEBLOCK"
       /\ NoneAfter(toServer[s], k, Clears)
       => Staged(toServer[s][k].updateId, toServer[s][k].update)
  /\ NoneAfter(toServer[s], 0, Clears) =>
       \A id \in Cached(updateMap[s]) : Staged(id, updateMap[s][id])
  /\ \A id \in UpdateId : id < Target =>
       \/ NoneAfter(toServer[s], 0, Clears) /\ id \in Cached(updateMap[s])
       \/ \E k \in 1 .. Len(toServer[s]) :
            /\ toServer[s][k].type = "WRITEBLOCK"
            /\ toServer[s][k].updateId = id
            /\ NoneAfter(toServer[s], k, Clears)

\* The file the application has open is the one named last.
Named(s) ==
  /\ NoneAfter(toServer[s], 0, {"OPENFILE"}) => fileFullname[s] = fileName
  /\ \A k \in 1 .. Len(toServer[s]) :
       /\ toServer[s][k].type = "OPENFILE"
       /\ NoneAfter(toServer[s], k, {"OPENFILE"})
       => toServer[s][k].filename = fileName

Answered(s, ack) ==
  s \in recvServerId \/ \E k \in 1 .. Len(toClient[s]) : toClient[s][k].type = ack

\* Who voted has counted every staged update.
Voting(s) ==
  op = "vote" /\ Answered(s, "VOTEACK") => nextUpdateId[s] = updateId

\* Nothing cached, and a file to write it to.
CarriedOut(s) ==
  /\ Cached(updateMap[s]) = {} /\ nextUpdateId[s] = 0
  /\ fileFullname[s] \in File
  /\ disk[s][fileFullname[s]] # Absent

\* In the commit phase a replica has all the updates in its cache, or has
\* them in the file.
Committing(s) ==
  op = "commit" =>
    /\ fileFullname[s] = fileName
    /\ Only(toServer[s], {"VOTE", "COMMIT"})
    /\ \/ /\ updateMap[s] = clientUpdateMap /\ nextUpdateId[s] = updateId
          /\ ~Answered(s, "COMMITACK")
          /\ fileName \notin inDoubt => disk[s][fileName] = promised[fileName]
       \/ /\ CarriedOut(s)
          /\ Only(toServer[s], {"COMMIT"})
          /\ fileName \notin inDoubt => disk[s][fileName] = After

\* A Commit left over from a finished commit phase finds nothing to write.
CommitsLeft(s) ==
  op # "commit" =>
    \A k \in 1 .. Len(toServer[s]) : toServer[s][k].type = "COMMIT" =>
      /\ \A j \in 1 .. k : toServer[s][j].type = "COMMIT"
      /\ CarriedOut(s)

OnDisk(s) ==
  \A f \in File \ inDoubt :
    \/ disk[s][f] = promised[f]
    \/ op = "commit" /\ f = fileName /\ disk[s][f] = After

\* Who closed the file holds it no more, and a closed file is not opened by
\* what is left in the channel.
Closing(s) ==
  /\ op \in {"close", "close2"} /\ updateId = 0 /\ Answered(s, "CLOSEACK") =>
       fp[s] = NoFile
  /\ ~isFileOpen =>
       fp[s] = NoFile /\ Only(toServer[s], {"INIT", "OPENFILE", "CLOSE"})

Holds(s) ==
  /\ Updates(s) /\ Named(s)
  /\ Voting(s) /\ Committing(s) /\ CommitsLeft(s) /\ OnDisk(s)
  /\ Closing(s)

-----------------------------------------------------------------------------
(* The client, and servers before any is selected.                          *)

Bookkeeping ==
  /\ op \in {"idle", "init"} => recvServerId = {}
  /\ ~IsFull(recvServerId)
  /\ closeRecvServerId = {}
  /\ op = "close2" => updateId = 0
  /\ op = "close" /\ updateId > 0 => recvServerId = {}
  /\ ~isFileOpen => updateId = 0
  /\ op \in {"vote", "commit", "abort", "close", "close2"} => isFileOpen
  /\ op = "vote" => \A s \in serverIds : recvServerUpdateId[s] \in {-1, updateId}
  /\ clients = 0 => op = "idle" /\ serverIds = {}
  /\ \A s \in Server : fp[s] # Dangling /\ backup[s] = NoFile

\* A server nobody has used yet.
Pristine(s) ==
  /\ Only(toServer[s], {"INIT"}) /\ Only(toClient[s], {"INITACK"})
  /\ fileFullname[s] = NoFile /\ fp[s] = NoFile
  /\ Cached(updateMap[s]) = {}
  /\ \A f \in File : disk[s][f] = Absent

Fresh ==
  clients = 0 \/ op = "init" =>
    /\ ~isFileOpen /\ fileName = NoFile /\ inDoubt = {}
    /\ \A f \in File : promised[f] = Absent
    /\ \A s \in Server : Pristine(s)

\* On a dependable network a selected server has, at every moment, either made
\* of the client's calls what the client believes of it or still has before it,
\* in order, the packets that make it so; and no answer under way can be taken
\* for one of another operation.  It is about every handler of both processes,
\* which repeat what they send and put no transaction into any packet.
Reliable ==
  /\ Bookkeeping
  /\ Fresh
  /\ \A s \in serverIds : Channels(s)
  /\ \A s \in Replicas : Holds(s)
=============================================================================
