--------------------------- MODULE ReplFsNetwork ---------------------------
(***************************************************************************)
(* The UDP multicast group (external: the kernel and the wire) as the code *)
(* uses it.  A client packet goes to every server, an acknowledgement to   *)
(* the client; each host's undelivered packets are a sequence.  Packets    *)
(* are not addressed and carry no transaction id: the node id of the       *)
(* sender is the only thing a receiver looks at besides type and payload,  *)
(* so fileId and seqNum, which no handler reads, are left out.             *)
(***************************************************************************)
EXTENDS ReplFsData, Sequences, SequencesExt

CONSTANTS
  Server,         \* the running servers, selected by the client or not
  Lossy,          \* may isDropPacket, or the network, discard a packet?
  ReorderWindow,  \* a receiver gets one of its first ReorderWindow packets:
                  \* 1 is FIFO per pair of hosts
  MaxInFlight     \* bound: the client repeats a message only while fewer than
                  \* this many packets are under way to and from each
                  \* server, and a round of votes while no more than that

ASSUME NetworkAssumption ==
  /\ IsFiniteSet(Server)
  /\ Lossy \in BOOLEAN
  /\ ReorderWindow \in Nat \ {0}
  /\ MaxInFlight \in Nat

VARIABLES
  toServer,  \* toServer[s]: client packets server s has not read
  toClient,  \* toClient[s]: acknowledgements of s the client has not read
  up         \* up[s]: the process of server s runs

netVars == <<toServer, toClient, up>>

-----------------------------------------------------------------------------
(* Message types (network.h).                                               *)

ClientMsg ==
  [type : {"INIT", "VOTE", "COMMIT", "ABORT", "CLOSE"}]
    \cup [type : {"OPENFILE"}, filename : File]
    \cup [type : {"WRITEBLOCK"}, updateId : UpdateId, update : Update]

ServerMsg ==
  [type : {"INITACK"}]
    \cup [type : {"OPENFILEACK", "COMMITACK", "ABORTACK", "CLOSEACK"},
          fileDesc : {-1, 0, 1}]
    \cup [type : {"VOTEACK"}, fileDesc : {0}, updateId : 0 .. MaxUpdates]

Plain(t) == [type |-> t]
OpenFileMessage(f) == [type |-> "OPENFILE", filename |-> f]
WriteBlockMessage(id, u) ==
  [type |-> "WRITEBLOCK", updateId |-> id, update |-> u]
Ack(t, desc) == [type |-> t, fileDesc |-> desc]
\* Mutant: the vote counts one update too many.
VoteAckOneMore(id) ==
  [type |-> "VOTEACK", fileDesc |-> 0, updateId |-> id + 1]

VoteAckMessage(id) == [type |-> "VOTEACK", fileDesc |-> 0, updateId |-> id]

-----------------------------------------------------------------------------
(* Channels.                                                                *)

NetInit ==
  /\ toServer = [s \in Server |-> <<>>]
  /\ toClient = [s \in Server |-> <<>>]
  /\ up = [s \in Server |-> TRUE]

\* Positions from which a receiver may get its next packet.
Deliverable(channel) == {i \in 1 .. Len(channel) : i <= ReorderWindow}

Without(channels, s, i) == [channels EXCEPT ![s] = RemoveAt(@, i)]

\* Every running server gets a copy of each packet.
Multicast(msgs) ==
  toServer' = [s \in Server |->
                 IF up[s] THEN toServer[s] \o msgs ELSE toServer[s]]

\* At most n packets are under way to and from each running server.
InFlightUpTo(n) ==
  \A s \in Server : up[s] => Len(toServer[s]) + Len(toClient[s]) <= n

\* Server s reads packet i and answers it.
Reply(s, i, ack) ==
  /\ toServer' = Without(toServer, s, i)
  /\ toClient' = [toClient EXCEPT ![s] = Append(@, ack)]

\* Server s reads packet i and answers nothing.
Consume(s, i) ==
  /\ toServer' = Without(toServer, s, i)
  /\ UNCHANGED toClient

NetTypeOK ==
  /\ toServer \in [Server -> Seq(ClientMsg)]
  /\ toClient \in [Server -> Seq(ServerMsg)]
  /\ up \in [Server -> BOOLEAN]
=============================================================================
