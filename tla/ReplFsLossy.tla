----------------------------- MODULE ReplFsLossy -----------------------------
(***************************************************************************)
(* The inductive invariant of replFs where the network loses packets, but  *)
(* keeps their order, and no process fails: rounds of votes and            *)
(* retransmission bring every server to the updates the client has staged, *)
(* and only these are ever cached or under way.                            *)
(***************************************************************************)
EXTENDS ReplFsReliable

\* Packets may be lost, but are never reordered or late, and nothing fails;
\* execute repeats its message often enough for an answer to arrive in time.
\* The client insists on all servers, and the application uses one file and
\* never aborts: other servers' votes and late answers to another OpenFile or
\* Abort, which a loss makes possible, are taken for answers they are not.
Ordered ==
  /\ ReorderWindow = 1
  /\ DiskFaults = FALSE /\ Crashable = {}
  /\ Timely = TRUE
  /\ MaxClients = 1
  /\ NumServers = Cardinality(Server)
  /\ "Abort" \notin Calls
  /\ \E f \in File : File = {f}

-----------------------------------------------------------------------------
(* The channels of a server.                                                *)

\* What may be sent after the first message of operation o: a round of votes
\* brings updates, and after OpenFile the application may write before it
\* calls OpenFile again.
Behind(o) ==
  IF o \in {"open", "vote"} THEN {MsgType[o], "WRITEBLOCK"} ELSE {MsgType[o]}

\* The server has read all that was sent before operation o, and the client
\* all that the server answered to it.
CaughtUp(s, o) ==
  Only(toClient[s], {AckType[o]}) /\ Only(toServer[s], Behind(o))

\* What the retry of a close may leave unread: the first try's answers count
\* as answers to the second.
CloseLeaves(s) ==
  /\ Only(toServer[s], {"COMMIT", "CLOSE"})
  /\ Only(toClient[s], {"COMMITACK", "CLOSEACK"})

\* Messages and answers of the operation come last, and an answer tells that
\* all messages before it are read.
Sequenced(s) ==
  op # "idle" =>
    /\ \A k \in 1 .. Len(toClient[s]) : toClient[s][k].type = AckType[op] =>
         /\ \A j \in k .. Len(toClient[s]) : toClient[s][j].type = AckType[op]
         /\ Only(toServer[s], Behind(op))
    /\ \A k \in 1 .. Len(toServer[s]) : toServer[s][k].type = MsgType[op] =>
         \A j \in k .. Len(toServer[s]) : toServer[s][j].type \in Behind(op)
    /\ op # "close2" /\ s \in recvServerId => CaughtUp(s, op)
    /\ op = "close2" => CloseLeaves(s)

\* Between two calls what is unread is of one operation, and updates after it.
Resting(s) ==
  op = "idle" =>
    \/ ~isFileOpen /\ CloseLeaves(s)
    \/ \E o \in {"init", "open", "commit"} :
         /\ Only(toClient[s], {AckType[o]})
         /\ Only(toServer[s], {MsgType[o], "WRITEBLOCK"})

\* No ABORT is under way, and no handler reports an error; a close is refused
\* only with updates staged.
NoErrors(s) ==
  /\ \A k \in 1 .. Len(toServer[s]) : toServer[s][k].type # "ABORT"
  /\ \A k \in 1 .. Len(toClient[s]) :
       /\ toClient[s][k].type # "INITACK" => toClient[s][k].fileDesc >= 0
       /\ op = "close" /\ updateId = 0 /\ toClient[s][k].type = "CLOSEACK" =>
            toClient[s][k].fileDesc = 0

LossyChannels(s) == Sequenced(s) /\ Resting(s) /\ NoOldVotes(s) /\ NoErrors(s)

-----------------------------------------------------------------------------
(* What a server holds.                                                     *)

Mine(id, u) == id < updateId /\ u = clientUpdateMap[id]

\* No update is cached or under way but those the client has staged, some of
\* which may be missing.
OnlyMine(s) ==
  /\ \A k \in 1 .. Len(toServer[s]) : toServer[s][k].type = "WRITEBLOCK" =>
       Mine(toServer[s][k].updateId, toServer[s][k].update)
  /\ \A id \in Cached(updateMap[s]) : Mine(id, updateMap[s][id])

\* Who answered OpenFile knows the file.
Opens(s) ==
  /\ isFileOpen \/ (op = "open" /\ s \in recvServerId) =>
       fileFullname[s] \in File
  /\ \A k \in 1 .. Len(toClient[s]) : toClient[s][k].type = "OPENFILEACK" =>
       fileFullname[s] \in File

\* A server has at least the updates it voted for.
Votes(s) ==
  op = "vote" =>
    /\ recvServerUpdateId[s] <= nextUpdateId[s]
    /\ \A k \in 1 .. Len(toClient[s]) : toClient[s][k].type = "VOTEACK" =>
         toClient[s][k].updateId <= nextUpdateId[s]

\* In the commit phase a server has all the updates in its cache, or has them
\* in the file.
Decided(s) ==
  op = "commit" =>
    /\ fileFullname[s] = fileName
    /\ Only(toServer[s], {"VOTE", "WRITEBLOCK", "COMMIT"})
    /\ \/ /\ updateMap[s] = clientUpdateMap /\ nextUpdateId[s] = updateId
          /\ ~Answered(s, "COMMITACK")
          /\ disk[s] = promised
       \/ /\ CarriedOut(s)
          /\ Only(toServer[s], {"COMMIT"})
          /\ disk[s][fileName] = After

AsPromised(s) == op # "commit" => disk[s] = promised

\* Who answered the close of a file without updates staged has fp NULL.
LetsGo(s) ==
  op = "close" /\ updateId = 0 /\ Answered(s, "CLOSEACK") => fp[s] = NoFile

LossyHolds(s) ==
  /\ OnlyMine(s) /\ Opens(s) /\ Votes(s) /\ Decided(s)
  /\ CommitsLeft(s) /\ AsPromised(s) /\ LetsGo(s)

-----------------------------------------------------------------------------
(* The client.                                                              *)

LossyBooks ==
  /\ inDoubt = {} /\ op # "abort"
  /\ op \notin {"idle", "init"} => serverIds = Server
  /\ op \in {"idle", "init"} => recvServerId = {}
  /\ op # "vote" => recvServerId # Server
  /\ closeRecvServerId # Server
  /\ op \in {"vote", "commit", "close", "close2"} => isFileOpen
  /\ clients = 0 => op = "idle" /\ serverIds = {}
  /\ \A s \in Server : up[s] /\ fp[s] # Dangling /\ backup[s] = NoFile

\* Where packets are lost but keep their order, a server has cached, and the
\* network carries, only updates of the client's present transaction; what a
\* vote claims is so; and no answer the client accepts is one to an earlier
\* operation.  It is about every handler of both processes, run any number of
\* times on the messages execute repeats.
Tolerant ==
  /\ LossyBooks
  /\ Fresh
  /\ \A s \in Server : LossyChannels(s) /\ LossyHolds(s)
=============================================================================
