---------------------------- MODULE ReplFsClient ----------------------------
(***************************************************************************)
(* The client library (client.c, clientInstance.cpp).  An application      *)
(* calls one function at a time and waits for it.  Inside a call the       *)
(* client runs execute() for one operation after another; execute sends    *)
(* its message every SEND_MSG_INTERVAL and reads acknowledgements until    *)
(* all selected servers answered, one of them reports an error, or time is *)
(* up.  An action is a call up to its first wait, one packet read, one     *)
(* repeated send, or a timeout, each with all that happens up to the next  *)
(* wait.                                                                   *)
(***************************************************************************)
EXTENDS ReplFsNetwork

CONSTANTS
  NumServers,  \* numServers: how many servers the client insists on
  Timely,      \* assumed of hosts and network: execute times out only when a
               \* server it needs is dead, and then after all packets under
               \* way are handled
  Calls,       \* the API functions the application uses
  MaxCalls,    \* bound: API calls of a run
  MaxClients   \* bound: client processes, one after the other

ASSUME ClientAssumption ==
  /\ NumServers \in 1 .. Cardinality(Server)
  /\ Timely \in BOOLEAN
  /\ Calls \subseteq {"WriteBlock", "Commit", "Abort", "CloseFile"}
  /\ MaxCalls \in Nat
  /\ MaxClients \in Nat

VARIABLES
  op,                  \* what execute runs; "close2" is CloseFile's retry
  api,                 \* the function the application waits for
  serverIds,           \* the servers selected by InitReplFs
  recvServerId,        \* servers this execute has an answer from
  closeRecvServerId,   \* CloseFile's set while it runs Commit
  recvServerUpdateId,  \* the update id each server's vote asked for, or -1
  isFileOpen,
  nextFd,
  fd,                  \* the descriptor the application holds, -1 for none
  fileName,            \* the name passed to the last OpenFile
  clientUpdateMap,     \* updateMap of the client
  updateId,            \* updates staged since the last reset
  turn,                \* tells an execute of a vote from the one before it
  calls,               \* API calls made (bound)
  clients              \* client processes started (bound)

\* What the application was told.  These variables are not the program's.
VARIABLES
  promised,  \* promised[f]: f as the successful commits left it
  inDoubt    \* files a commit phase ended for without success

callVars == <<op, api, recvServerId, closeRecvServerId, turn>>
fileVars == <<isFileOpen, nextFd, fd, fileName>>
stagedVars == <<clientUpdateMap, updateId, recvServerUpdateId>>
bookVars == <<calls, clients>>
promiseVars == <<promised, inDoubt>>
clientVars == <<callVars, serverIds, fileVars, stagedVars, bookVars,
                promiseVars>>

NoIds == [s \in Server |-> -1]

ClientInit ==
  /\ op = "idle" /\ api = "none"
  /\ serverIds = {}
  /\ recvServerId = {} /\ closeRecvServerId = {}
  /\ recvServerUpdateId = NoIds
  /\ isFileOpen = FALSE
  /\ nextFd = 0 /\ fd = -1
  /\ fileName = NoFile
  /\ clientUpdateMap = NoUpdates
  /\ updateId = 0
  /\ turn = 0
  /\ calls = 0 /\ clients = 0
  /\ promised = [f \in File |-> Absent]
  /\ inDoubt = {}

Op == {"idle", "init", "open", "vote", "commit", "abort", "close", "close2"}
Api == {"none", "InitReplFs", "OpenFile", "Commit", "Abort", "CloseFile"}

ClientTypeOK ==
  /\ op \in Op /\ api \in Api
  /\ serverIds \subseteq Server
  /\ recvServerId \subseteq Server
  /\ closeRecvServerId \subseteq Server
  /\ recvServerUpdateId \in [Server -> -1 .. MaxUpdates]
  /\ isFileOpen \in BOOLEAN
  /\ nextFd \in Nat
  /\ fd \in Nat \cup {-1}
  /\ fileName \in File \cup {NoFile}
  /\ clientUpdateMap \in UpdateMap
  /\ updateId \in 0 .. MaxUpdates
  /\ turn \in {0, 1}
  /\ calls \in 0 .. MaxCalls
  /\ clients \in 0 .. MaxClients
  /\ promised \in [File -> Content \cup {Absent}]
  /\ inDoubt \subseteq File

-----------------------------------------------------------------------------
(* Entering and leaving execute().                                          *)

\* The acknowledgement isRecvMsgMatchCurrOp waits for.
AckType == [init |-> "INITACK", open |-> "OPENFILEACK", vote |-> "VOTEACK",
            commit |-> "COMMITACK", abort |-> "ABORTACK",
            close |-> "CLOSEACK", close2 |-> "CLOSEACK"]

\* The message execute sends for operation o.
OpMessage(o) ==
  CASE o = "init" -> Plain("INIT")
    [] o = "open" -> OpenFileMessage(fileName)
    [] o = "vote" -> Plain("VOTE")
    [] o = "commit" -> Plain("COMMIT")
    [] o = "abort" -> Plain("ABORT")
    [] o \in {"close", "close2"} -> Plain("CLOSE")

\* A new execute(o), with the answers in recv counted already; it begins by
\* sending, after the packets in before.
Enter(o, recv, before, msg) ==
  /\ op' = o
  /\ recvServerId' = recv
  /\ turn' = IF o = op THEN 1 - turn ELSE 0
  /\ Multicast(Append(before, msg))

\* The API function returns to the application.
ReturnToApp ==
  /\ op' = "idle" /\ api' = "none"
  /\ recvServerId' = {} /\ closeRecvServerId' = {}
  /\ turn' = 0

\* Mutants: reset forgets one thing less.
ResetKeepsVotes ==
  /\ clientUpdateMap' = NoUpdates
  /\ updateId' = 0
  /\ UNCHANGED recvServerUpdateId

ResetKeepsUpdateId ==
  /\ clientUpdateMap' = NoUpdates
  /\ recvServerUpdateId' = NoIds
  /\ UNCHANGED updateId

\* ClientInstance::reset.
ResetClient ==
  /\ clientUpdateMap' = NoUpdates
  /\ updateId' = 0
  /\ recvServerUpdateId' = NoIds

\* Mutant: one answer is enough.
IsNotEmpty(servers) == servers # {}

\* size() == numServers.
IsFull(servers) == Cardinality(servers) = NumServers

\* Mutant: every server's answer counts.
AcceptedFromAll(s) == recvServerId \cup {s}

\* recvServerId with the answer of s in; isRecvMsgInServerIds guards it.
Accepted(s) == IF s \in serverIds THEN recvServerId \cup {s} ELSE recvServerId

-----------------------------------------------------------------------------
(* API calls.                                                               *)

Called == op = "idle" /\ calls < MaxCalls /\ calls' = calls + 1

Ready == Cardinality(serverIds) >= NumServers

\* The checks WriteBlock, Commit, Abort and CloseFile share.
FdValid == fd >= 0 /\ fd = nextFd - 1 /\ isFileOpen /\ Ready

\* A new ClientInstance.  The application calls InitReplFs again only if it
\* failed.
InitReplFs ==
  /\ op = "idle" /\ ~Ready
  /\ clients < MaxClients
  /\ clients' = clients + 1
  /\ api' = "InitReplFs"
  /\ serverIds' = {}
  /\ Enter("init", {}, <<>>, Plain("INIT"))
  /\ UNCHANGED <<toClient, up, closeRecvServerId, fileVars, stagedVars, calls,
                 promiseVars>>

OpenFile(f) ==
  /\ Called /\ Ready
  /\ nextFd' = nextFd + 1
  /\ fileName' = f
  /\ api' = "OpenFile"
  /\ Enter("open", {}, <<>>, OpenFileMessage(f))
  /\ UNCHANGED <<toClient, up, serverIds, closeRecvServerId, isFileOpen, fd,
                 stagedVars, clients, promiseVars>>

\* The update is stored and sent once, without waiting for anything.
WriteBlock(u) ==
  /\ "WriteBlock" \in Calls
  /\ Called /\ FdValid
  /\ updateId < MaxUpdates
  /\ clientUpdateMap' = [clientUpdateMap EXCEPT ![updateId] = u]
  /\ updateId' = updateId + 1
  /\ Multicast(<<WriteBlockMessage(updateId, u)>>)
  /\ UNCHANGED <<toClient, up, serverIds, callVars, fileVars,
                 recvServerUpdateId, clients, promiseVars>>

StartCall(name, o) ==
  /\ name \in Calls
  /\ Called /\ FdValid
  /\ api' = name
  /\ Enter(o, {}, <<>>, OpMessage(o))
  /\ UNCHANGED <<toClient, up, serverIds, closeRecvServerId, fileVars,
                 stagedVars, clients, promiseVars>>

Commit == StartCall("Commit", "vote")
Abort == StartCall("Abort", "abort")
CloseFile == StartCall("CloseFile", "close")

-----------------------------------------------------------------------------
(* What follows when execute() returns.                                     *)

InitEnds ==
  /\ ReturnToApp
  /\ UNCHANGED <<toServer, fileVars, stagedVars, promiseVars>>

OpenSucceeds ==
  /\ isFileOpen' = TRUE
  /\ fd' = nextFd - 1
  /\ ReturnToApp
  /\ UNCHANGED <<toServer, nextFd, fileName, stagedVars, promiseVars>>

OpenFails ==
  /\ ReturnToApp
  /\ UNCHANGED <<toServer, fileVars, stagedVars, promiseVars>>

VoteSucceeds ==
  /\ Enter("commit", {}, <<>>, Plain("COMMIT"))
  /\ UNCHANGED <<api, closeRecvServerId, fileVars, stagedVars, promiseVars>>

\* Commit calls Abort, whose checks all hold, and reports the error after it.
VoteFails ==
  /\ Enter("abort", {}, <<>>, Plain("ABORT"))
  /\ UNCHANGED <<api, closeRecvServerId, fileVars, stagedVars, promiseVars>>

CommitSucceeds ==
  /\ ResetClient
  /\ promised' = [promised EXCEPT ![fileName] =
                    Apply(Opened(@), clientUpdateMap, updateId)]
  /\ \/ /\ api = "Commit"
        /\ ReturnToApp
        /\ UNCHANGED toServer
     \/ /\ api = "CloseFile"
        /\ Enter("close2", closeRecvServerId, <<>>, Plain("CLOSE"))
        /\ UNCHANGED <<api, closeRecvServerId>>
  /\ UNCHANGED <<fileVars, inDoubt>>

CommitFails ==
  /\ inDoubt' = inDoubt \cup {fileName}
  /\ Enter("abort", {}, <<>>, Plain("ABORT"))
  /\ UNCHANGED <<api, closeRecvServerId, fileVars, stagedVars, promised>>

AbortEnds ==
  /\ ResetClient
  /\ ReturnToApp
  /\ UNCHANGED <<toServer, fileVars, promiseVars>>

CloseSucceeds ==
  /\ isFileOpen' = FALSE
  /\ ReturnToApp
  /\ UNCHANGED <<toServer, nextFd, fd, fileName, stagedVars, promiseVars>>

CloseFileFails ==
  /\ ReturnToApp
  /\ UNCHANGED <<toServer, fileVars, stagedVars, promiseVars>>

\* A server has uncommitted updates: CloseFile runs Commit first.
CloseCommits ==
  /\ closeRecvServerId' = recvServerId
  /\ Enter("vote", {}, <<>>, Plain("VOTE"))
  /\ UNCHANGED <<api, fileVars, stagedVars, promiseVars>>

ExecuteOk ==
  \/ op = "init" /\ InitEnds
  \/ op = "open" /\ OpenSucceeds
  \/ op = "vote" /\ VoteSucceeds
  \/ op = "commit" /\ CommitSucceeds
  \/ op = "abort" /\ AbortEnds
  \/ op \in {"close", "close2"} /\ CloseSucceeds

ExecuteError ==
  \/ op = "init" /\ InitEnds
  \/ op = "open" /\ OpenFails
  \/ op = "vote" /\ VoteFails
  \/ op = "commit" /\ CommitFails
  \/ op = "abort" /\ AbortEnds
  \/ op \in {"close", "close2"} /\ CloseFileFails

\* execute goes on waiting, with the answers in recv.
KeepWaiting(recv) ==
  /\ recvServerId' = recv
  /\ UNCHANGED <<toServer, op, api, closeRecvServerId, turn, fileVars,
                 stagedVars, promiseVars>>

\* The end of a handler that returned 0: leave when every answer is in.
AfterAck(recv) ==
  \/ IsFull(recv) /\ ExecuteOk
  \/ ~IsFull(recv) /\ KeepWaiting(recv)

-----------------------------------------------------------------------------
(* Steps inside execute().                                                  *)

Resend ==
  /\ op # "idle"
  /\ InFlightUpTo(MaxInFlight - 1)
  /\ Multicast(<<OpMessage(op)>>)
  /\ UNCHANGED <<toClient, up, clientVars>>

\* The client reads packet i of server s.
Reads(s, i) ==
  /\ op # "idle"
  /\ i \in Deliverable(toClient[s])
  /\ toClient' = Without(toClient, s, i)
  /\ UNCHANGED up

ReadsAck(s, i, ops) ==
  /\ op \in ops
  /\ Reads(s, i)
  /\ toClient[s][i].type = AckType[op]
  /\ UNCHANGED bookVars

\* Not what this operation waits for, or lost, or dropped by isDropPacket.
IgnoreAck(s, i) ==
  /\ Reads(s, i)
  /\ Lossy \/ toClient[s][i].type # AckType[op]
  /\ UNCHANGED <<toServer, clientVars>>

\* The first numServers servers to answer are selected.
ProcInitAckMessage(s, i) ==
  /\ ReadsAck(s, i, {"init"})
  /\ serverIds' = IF Ready THEN serverIds ELSE serverIds \cup {s}
  /\ KeepWaiting(recvServerId)

\* Mutant: an error is counted like any other answer.
ProcAckIgnoresError(s, i) ==
  /\ ReadsAck(s, i, {"open", "commit", "abort"})
  /\ AfterAck(Accepted(s))
  /\ UNCHANGED serverIds

\* procOpenFileAckMessage, procCommitAckMessage and procAbortAckMessage.
ProcAckMessage(s, i) ==
  /\ ReadsAck(s, i, {"open", "commit", "abort"})
  /\ IF s \in serverIds /\ toClient[s][i].fileDesc < 0
       THEN ExecuteError
       ELSE AfterAck(Accepted(s))
  /\ UNCHANGED serverIds

\* A refused close (fileDesc 1) makes CloseFile commit the first time and
\* counts as success the second time.
ProcCloseAckMessage(s, i) ==
  LET desc == IF s \in serverIds THEN toClient[s][i].fileDesc ELSE 0
  IN  /\ ReadsAck(s, i, {"close", "close2"})
      /\ \/ desc < 0 /\ ExecuteError
         \/ desc = 1 /\ op = "close" /\ CloseCommits
         \/ desc = 1 /\ op = "close2" /\ CloseSucceeds
         \/ desc = 0 /\ AfterAck(Accepted(s))
      /\ UNCHANGED serverIds

\* Mutant: the update a server asked for is the one not sent again.
RetransmissionAfter(smallest) ==
  [k \in 1 .. updateId - smallest - 1 |->
     WriteBlockMessage(smallest + k, clientUpdateMap[smallest + k])]

\* The cached updates from id smallest on, then a new round of votes that
\* keeps the answers of this one.
Retransmission(smallest) ==
  [k \in 1 .. updateId - smallest |->
     WriteBlockMessage(smallest + k - 1, clientUpdateMap[smallest + k - 1])]

\* Mutant: the largest.
LargestIs(ids, n) ==
  /\ \E t \in Server : ids[t] = n
  /\ \A t \in Server : ids[t] <= n

\* The smallest of the update ids recorded in ids is n.
SmallestIs(ids, n) ==
  /\ \E t \in Server : ids[t] = n
  /\ \A t \in Server : ids[t] # -1 => n <= ids[t]

\* A selected server's vote is recorded; once all have voted the smallest
\* update id decides between going on and sending updates again.
CountVote(s, id) ==
  LET ids == [recvServerUpdateId EXCEPT ![s] = id]
      recv == Accepted(s)
  IN  /\ recvServerUpdateId' = ids
      /\ UNCHANGED <<clientUpdateMap, updateId, fileVars, promiseVars,
                     api, closeRecvServerId>>
      /\ \/ /\ ~IsFull(recv)
            /\ recvServerId' = recv
            /\ UNCHANGED <<toServer, op, turn>>
         \/ /\ IsFull(recv) /\ SmallestIs(ids, updateId)
            /\ Enter("commit", {}, <<>>, Plain("COMMIT"))
         \/ \E smallest \in 0 .. MaxUpdates :
              /\ IsFull(recv) /\ SmallestIs(ids, smallest)
              /\ smallest # updateId
              /\ InFlightUpTo(MaxInFlight)
              /\ Enter("vote", recv, Retransmission(smallest), Plain("VOTE"))

\* The vote of a server that was not selected is not counted, but the check
\* for a full recvServerId that follows is made all the same.
ProcVoteAckMessage(s, i) ==
  /\ ReadsAck(s, i, {"vote"})
  /\ \/ s \in serverIds /\ CountVote(s, toClient[s][i].updateId)
     \/ s \notin serverIds /\ AfterAck(recvServerId)
  /\ UNCHANGED serverIds

-----------------------------------------------------------------------------
(* Timeouts and the end of the client.                                      *)

\* Mutant: only InitReplFs looks at the clock.
OnlyInitTimesOut == op = "init"

\* execute looks at the clock alone: without Timely it may give up at any
\* point.  Timely is a condition on the environment, which the code does not
\* enforce: no loss and no delay keeps the answers of live servers from the
\* client for all of SHORT_TIMEOUT or LONG_TIMEOUT, 4 and 6 s.
\* execute(INIT_OP) always runs until time is up.
MayTimeOut ==
  Timely =>
    \/ op = "init" /\ Ready
    \/ /\ \E s \in Server : ~up[s] /\ (op # "init" => s \in serverIds)
       /\ \A s \in Server : toServer[s] = <<>> /\ toClient[s] = <<>>

\* Time is up: what counts is how many servers answered.
Timeout ==
  /\ op # "idle"
  /\ MayTimeOut
  /\ IF Cardinality(recvServerId) < NumServers THEN ExecuteError
                                               ELSE ExecuteOk
  /\ UNCHANGED <<toClient, up, serverIds, bookVars>>

\* The application dies; a new process starts over with InitReplFs.  Of the
\* answers under way, those not yet in the old socket reach the new one.
ClientCrash ==
  /\ serverIds # {} \/ op # "idle"
  /\ clients < MaxClients
  /\ ReturnToApp
  /\ ResetClient
  /\ serverIds' = {}
  /\ isFileOpen' = FALSE
  /\ nextFd' = 0 /\ fd' = -1
  /\ fileName' = NoFile
  /\ inDoubt' = IF op = "commit" THEN inDoubt \cup {fileName} ELSE inDoubt
  /\ \E lost \in SUBSET Server :
       toClient' = [s \in Server |-> IF s \in lost THEN <<>> ELSE toClient[s]]
  /\ UNCHANGED <<toServer, up, bookVars, promised>>

-----------------------------------------------------------------------------
HandleAck(s, i) ==
  \/ ProcInitAckMessage(s, i)
  \/ ProcAckMessage(s, i)
  \/ ProcCloseAckMessage(s, i)
  \/ ProcVoteAckMessage(s, i)

ReadStep(s) ==
  \E i \in 1 .. Len(toClient[s]) : HandleAck(s, i) \/ IgnoreAck(s, i)

CallStep ==
  \/ InitReplFs
  \/ \E f \in File : OpenFile(f)
  \/ \E u \in Update : WriteBlock(u)
  \/ Commit
  \/ Abort
  \/ CloseFile

ClientStep ==
  \/ CallStep
  \/ \E s \in Server : ReadStep(s)
  \/ Resend
  \/ Timeout
  \/ ClientCrash

-----------------------------------------------------------------------------
(* What the client keeps across the operations of a call.                   *)

\* procVoteAckMessage dereferences updateMap.find(i) for i below updateId,
\* without a test against end(), when it sends updates again, and insert
\* stores an update only under a free id: the client's map has exactly the
\* ids below updateId.
ClientMapComplete == Cached(clientUpdateMap) = 0 .. updateId - 1

\* The servers with a vote on record.
Voted == {s \in Server : recvServerUpdateId[s] # -1}

\* procVoteAckMessage takes the smallest update id over recvServerUpdateId,
\* which lives in the ClientInstance, once recvVoteServerId, a local variable
\* of Commit, is full: the two always speak of the same servers, and no vote
\* outlives the Commit it was cast in.
VoteBookkeeping ==
  /\ op = "vote" => Voted = recvServerId
  /\ op \notin {"vote", "commit", "abort"} => Voted = {}

\* The client counts answers of at most numServers servers, those that
\* answered InitReplFs first, whatever other servers the group has.
SelectionHolds ==
  /\ Cardinality(serverIds) <= NumServers
  /\ recvServerId \cup closeRecvServerId \cup Voted \subseteq serverIds
=============================================================================
