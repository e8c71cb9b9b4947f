# replFs: verification project

replFs keeps one file replicated on several servers. An application links the
client library and calls `InitReplFs`, `OpenFile`, `WriteBlock`, `Commit`,
`Abort` and `CloseFile`; client and servers talk over one UDP multicast group.
Writes are staged on both sides and made permanent by a two-phase commit that is
also the retransmission protocol: a vote tells the client which update a server
misses first.

This directory holds TLA+ modules of that system and of what it promises, TLC
configurations that check them on small instances, and TLAPS proofs, for any number of
servers, files and packets, of what holds on any network, on one that loses and
reorders nothing, on one that loses packets but keeps their order and is never silent
until a call runs out of time, and where disks fail. File names in this text are relative to the repository.

## 1. Inventory

| Part | Code | State | Operations |
|---|---|---|---|
| client API | `client.c` | the `ClientInstance`; one call at a time | the six API functions; `Commit` loops over rounds of votes and calls `Abort`, `CloseFile` calls `Commit` and closes again |
| protocol engine | `clientInstance.cpp` | `serverIds`, `isFileOpen`, `nextFd`, `updateId`, `updateMap`, `recvServerUpdateId`; per call a set of servers that answered | `execute(op)` sends every 200 ms, reads acknowledgements, stops when `numServers` answered, on an error, or after 4 or 6 s |
| server | `serverInstance.cpp` | `fileFullname`, `updateMap`, `nextUpdateId`, `backup`, `fp`, the mount directory | one handler per message type, run to its end |
| messages | `network.h`, `network.cpp` | the socket | multicast send, receive, artificial loss |
| server start | `serverInstance.cpp` `main` | mount directory | refuses a directory that exists |
| sample application | `appl.c` | where `main` is | opens a file, writes it line by line, commits, closes; ends at the first error |
| tests | `devtest/` | - | fixed call sequences |

How they interact: every packet reaches every member of the group. A server
ignores acknowledgements and a client ignores other clients' packets by type. An
acknowledgement carries the server's node id and a result; *no packet carries a
transaction*, and although a file id and a sequence number are sent, no handler
reads them. The client repeats a message until all selected servers answered, so
every handler runs any number of times, and answers to the last copy arrive
during later operations.

What is hard here:

- **stale packets**: an answer or a repeated command of an earlier operation is
  taken for one of the present operation;
- **rounds of votes**: the set of servers that voted lives in `Commit`, the
  votes themselves in the `ClientInstance`; both outlive a round;
- **timeouts** against late answers, and the error path of `Commit`, which
  aborts although some servers may have committed;
- **partial failure**: a server that dies between two writes, a flush that fails,
  the rollback;
- **what the two sides keep**: the server caches the first block it gets under
  an update id and keeps it until it commits or aborts, whoever sent it.

What makes each part correct: for the server, that votes are honest and binding
and that a commit writes exactly the updates voted for; for the client, that it
counts only selected servers, each for the operation it is in, that no staged
update is lost, and that every call returns; for both together, that each
surviving replica holds exactly the transactions the application was told are
committed; for the sample application, that it ends, and that its file is then
on every replica. `PROJECT.json` lists the hazards one by one, at their lines.

## 2. Modules

| Module | Models | Remarks |
|---|---|---|
| `ReplFsData` | `Update`, the update maps, file contents | an extent is the set of cells it covers, a buffer is one value |
| `ReplFsNetwork` | packets and channels | a sequence of undelivered packets per server and direction |
| `ReplFsWire` | packets, byte by byte: `serialize`, the length sent, `deserialize` | functions of a message; nothing else depends on them |
| `ReplFsServer` | `serverInstance.cpp` | one action per handler and outcome, plus the end of the process |
| `ReplFsClient` | `client.c`, `clientInstance.cpp` | one action per call, packet read, repeated send, timeout |
| `ReplFs` | composition, fairness, system properties | `Next` interleaves server and client steps |
| `AtomicFiles` | what an application may rely on | abstract: no messages, votes or rounds; a commit replaces the file on each replica in one step |
| `Participant` | what a server promises whoever talks to it | abstract: a growing pledge, carried out in one go or given up |
| `ReplFsAbstract` | the refinement mappings | `Atomic`, `Participants`: INSTANCEs of the two |
| `ReplFsAppl` | `appl.c` on top of `ReplFs` | `main` as a sequence of calls, with its error exits |
| `ReplFsReliable` | what channels and replicas hold when the network is dependable | `Reliable`, an inductive invariant |
| `ReplFsLossy` | the same when packets are lost but keep their order | `Tolerant`, an inductive invariant |
| `ReplFsFaults` | the same when disks fail, until the application is told of it | `Untold`, an inductive invariant |
| `MCReplFs`, `MCReplFsWire`, `MCReplFsAppl` | small instances | definitions for the `.cfg` files |
| `ReplFsProofs`, `ReplFsReliableServerProofs`, `ReplFsReliableProofs`, `ReplFsLossyProofs`, `ReplFsFaultsProofs`, `ReplFsAbstractProofs`, `ReplFsApplProofs`, `ReplFsWireProofs` | theorems | section 5 |

Operators named `...` under a comment that begins with "Mutant" are wrong
variants of the definition that follows them, of the kind a slip in the code
would produce. They are used nowhere; they serve to see that a property fails
when the code is wrong.

### Grain

A server is single-threaded and reads its next packet only after a handler has
returned, so a handler is one step; the one thing that can come between its
writes is the end of the process (`CrashInCommit`). The client blocks in
`execute`, so a step is what happens from one wait to the next: reading the last
answer of a vote includes leaving `execute`, entering the commit phase and
sending the first COMMIT. Between API calls the application may do anything,
including waiting: the first packet of a call and the call are one step.

### State

`toServer[s]` and `toClient[s]` are what the code leaves in the sockets. `op` and
`api` stand for the program counter: which operation `execute` runs and for which
function; `close2` is the second `execute(CLOSE_OP)` of `CloseFile`, which goes
on with the set of the first (`closeRecvServerId` while `Commit` runs in
between). `recvServerUpdateId[s] = -1` means no entry. `fp` is the pointer, by the
name its stream was opened under, `NoFile` for NULL, `Dangling` after an `fclose` that
failed. `procCommitMessage` opens a stream over it without closing the one before
(`serverInstance.cpp:264-267`): those streams stay open in the process, and the models
keep no count of them. `disk` is the content of the mount directory.

`promised` and `inDoubt` are not the program's: they record what the application
was told. A commit that returns success promises its updates; a commit phase
that fails leaves the file in doubt, since no one knows which servers wrote it.

`turn` separates an `execute` of a vote from the one that follows it, so that
fairness of the clock can be stated for each.

### Abstract specifications

`AtomicFiles` is the library as its user sees it. Updates are staged, a commit is
decided, each replica takes all of them in one step, and the call succeeds when
all replicas have, or fails and leaves *that* file in doubt. Its own idea of
writing is independent of the code's: it folds one update after the other over
the content (`AfterStaged`), whereas `Apply` picks the last writer of each cell.
The mapping (`Atomic` in `ReplFsAbstract`) takes the files of the live selected
servers, the client's map as a sequence, `op` as the phase (only `commit` and
`abort` show; opening, voting and closing are stutters) and `promised`,
`inDoubt`. Updates staged when another file is opened follow to that file: that
is what the code does, on every replica alike.

`Participant` is one server against *any* client. A vote may only add to what the
server is bound to; a commit writes all of it to the file named last; an abort or
the end of the process gives it up. The mapping takes for the pledge the part of
the cache the last vote counted (`Pledge`), so a block that arrives after the
vote, repeated or foreign, is a stutter.

### Packets

The channels hold messages. `ReplFsWire` gives each the packet it travels as, in the
three parts the code has. `Serialize...` are the `serialize` functions, one per layout:
they copy members to their offsets, one `memcpy` after the other, into the array
`sendMessage` makes (`Packet`), which is as long as the caller says (`Length`).
`Deserialize...` are the `deserialize` functions with offsets of their own, on the
cleared receive buffer with the packet in it (`Received`), chosen by the type code.
Numbers are four bytes in network order (`Htonl`, `Ntohl`). A wrong offset on either
side, a member copied over another or a length too short give another message: so
`PacketsReadAsSent`, that everything under way is read as the message its sender
meant, is what entitles the other modules to put messages into the channels.

### The sample application

`ReplFsAppl` adds one variable, `at`, the call `main` makes or waits for. The
library's steps are those of `ReplFs`; a step that ends a call decides by its
result whether `main` goes on or ends with `ErrorExit`. The 128 lines of the loop
are `MaxUpdates` lines.

### What is abstracted

- Byte offsets, lengths and buffers: sets of cells and data values. Overlaps, the
  order of overlapping writes, holes and the zeros a rollback writes stay visible.
- Node ids are the servers themselves: two hosts that draw the same id are not
  modelled. `seqNum` and `fileId` are not read by any handler.
- The uninitialised pointer `WriteBlockMessage::deserialize` copies to
  (`network.h:240`): the models describe builds in which the copy arrives.
- Time: `execute` may time out whenever it waits if `Timely` is FALSE, as in the
  code, which looks at the clock alone. If it is TRUE, it times out only when a server
  it needs is dead and nothing is under way any more, and `InitReplFs` when enough
  servers were selected. That is an assumption about hosts and network, not a guard of
  the code: of the 20 to 30 repetitions an `execute` makes in its 4 or 6 seconds, one
  is answered in time. A network that loses everything for that long breaks it, and
  `vote_timeout` and `commit_hangs` show what may happen then.
- Open `FILE`s are not counted (see `fp` above), and argument checks against values the
  application controls (NULL, negative sizes) are left out.

### Undefined behaviour

`procAbortMessage` may pass NULL, or a stream already released, to `fclose`;
`procCloseMessage` may release a stream twice. The models allow both outcomes a
build can show: the handler goes on, or the process ends (`BadFclose`).

## 3. Runs

All runs use `MCReplFs`, but `disk_faults` uses `MCReplFsWire`, the same with packets,
and `appl` uses `MCReplFsAppl`. `CHECK_DEADLOCK FALSE` everywhere: the application may
stop calling, and the bound on calls makes it.

| Run | Servers/needed | Network | Faults | Shows |
|---|---|---|---|---|
| `commit_lossy` | 2/2 | loses, FIFO, timely | - | 2 updates of different data per transaction, several transactions: `AllPrepared`, `ReplicasMatchPromise`, `VotesAreHonest`, `DecisionFirst`, `FilesAreAtomic`, and `Tolerant`, from which section 5 proves all of these |
| `all_calls` | 2/2 | reliable, FIFO, timely | servers killed, also in mid-commit | all calls, 2 files, overlapping blocks: `AllPrepared`, `ReplicasMatchPromise` of the survivors, `SameFileEverywhere`, `DecisionFirst`, `OneRoundSuffices`, `HealthyNeverAborts`, `ClosedMeansCommitted`, `ClosedLeavesNothing`, `FilesAreAtomic`, and `Reliable`, from which section 5 proves all of these |
| `hostile` | 1/1 | loses, reorders, any timeout | client replaced | two data values: `TypeOK`, `ServerPrefix`, `ClientMapComplete`, `VoteBookkeeping`, `VoteIsBinding`, `ServersKeepPledges` |
| `disk_faults` | 2/2 | reliable, timely | any file operation fails | 2 files, all calls: `DamageIsReported`, `Untold`, from which section 5 proves it, and `PacketsReadAsSent` (here acknowledgements carry -1) |
| `appl` | 2/2 | loses, FIFO, timely | - | `main` of `appl.c` with two lines: `WritesReachAll`, `ApplSucceeds`, and `OnCourse`, from which section 5 proves the first; with it the library is `AtomicFiles` to `main` |
| `returns_crash` | 3/2 | reliable, FIFO, timely | one server killed | all calls: `CallReturns`, and `SelectionHolds` with a server more than the client asked for |

Where the code and what is said of it disagree, a run shows the disagreement. It
checks one property, which fails:

| Run | Property | What happens |
|---|---|---|
| `rollback` | `RollbackRestores` | the backup is read at the end of the file, and a pointer's size of it is written back |
| `close_loses` | `ClosedMeansCommitted` | every server missed the staged block; `CloseFile` succeeds and it stays staged |
| `vote_round` | `AllPrepared` | an unselected server's vote ends a second round, `recvVoteServerId` being full |
| `vote_timeout` | `AllPrepared` | a second round that runs out of time ends in success, for the same reason; both servers are selected and alive |
| `stale_abort_ack` | `ReplicasMatchPromise` | a late AbortAck hides a lost ABORT; the aborted block is committed later |
| `commit_hangs` | `CallReturns` | no packet is lost; a vote left over from a Commit that timed out is counted after its server was killed; rounds of votes go on for ever |

So the safety properties hold *under the conditions of the passing runs*, and
the violations show which condition each needs: an `execute` that waits for live servers
(`vote_timeout`, `commit_hangs`), no repeated answers from another operation
(`stale_abort_ack`), no servers beyond the selected ones (`vote_round`), nothing lost
(`close_loses`). The stale answer of `stale_abort_ack` has siblings no run is
spent on: give `MCStaleAbortAck.cfg` the property `SameFileEverywhere` and two
files, and a late OpenFileAck hides a lost OPENFILE; give it `ReorderWindow = 2`
and `DecisionFirst`, and a late copy of a COMMIT executes the next transaction.
Failing disks have one of their own, in which no packet is lost: after a commit
phase that failed on one server the Abort inside `Commit` ends at that server's
AbortAck of -1, a VoteAck of the other left unread is taken for a vote of the
next transaction, and COMMIT goes to a server that has not read the new block.
And a server never gives up a transaction whose client stopped asking, though
`document/report.pdf` (section 2.4.4) says it does after 4 seconds: `execute` has
no timer, so there is no such action in `ReplFsServer`.

### Bounds

| Bound | Where | Why it is enough |
|---|---|---|
| `MaxUpdates` | 1 or 2 staged updates | two make gaps, partial retransmission and overlap possible |
| `MaxCalls` | 3 to 6 calls | `OpenFile`, writes, `Commit` and the start of a second transaction, or of a second file; where rounds of votes matter at least 4, for a stale vote takes an earlier `Commit` |
| `MaxClients` | 1 or 2 client processes | leftovers of one dead client |
| `MaxInFlight` | 1 or 2 packets per server before the client repeats itself | one repetition more than needed is what makes stale answers and late commands; more of them only repeat that |
| `ReorderWindow` | 1 (FIFO) or 2 | a packet overtaken by the one behind it, any number of times |

The bound on packets under way also stops the growth of traffic that each
VoteAck of a round in progress causes (it starts a new round with a full
retransmission). `OneRoundSuffices` says that this growth does not begin by
itself: where nothing is lost, no round follows the first.

### Fairness

`LosslessFairSpec` is for networks that lose nothing; `FairSpec` adds what a lossy one
must do. `FairSpec` assumes of the **network** that a packet sent over and over is not
lost every time: strong fairness, per server, of the message `execute` repeats,
of each update id, and of an answer the client waits for. Loss is random
(`isDropPacket`), so this holds with probability one, and weak fairness would
not do: the packet comes and goes. Both assume of the **loops** weak fairness:
each server's `execute` reads what is in its socket, the client's comes to the packets of
each server, and the client sends every 200 ms. Of the **clock** they assume that an `execute` that goes on long enough
ends by its timeout, but, as in the code, a new round of votes starts the time
anew (`turn`). Nothing obliges the application to call, a disk to fail or a
process to die.

`ApplFairSpec` assumes the same, and that `main` does not stop between two calls:
it is straight-line code.

## 4. What the checks show

Prepared means cached and counted, on every live selected replica, and it is
stable: `AllPrepared` and `VotesAreHonest` relate the client's books with the
servers' caches across losses and retransmission, and `VoteIsBinding` says that
nothing but the end of the transaction takes a vote back. `ReplicasMatchPromise`
compares the disks with what the application was told after every step;
`DecisionFirst` says when a disk may change at all. `DamageIsReported` is what
remains of both when disks fail: a replica may be half-way in the commit under way, and
nowhere else, until the application is told of a failed one. Afterwards it is for the application to
repair, and the library gives it little to do so with: the Abort inside `Commit` may end
before a server has read its ABORT, and what is left over is then taken for part of the
next transaction.

`FilesAreAtomic` puts these together: every step of client, servers and network
is a step of `AtomicFiles` or none. It is stronger than the invariants in what it
says of single steps (a replica goes from the old content to the new one in one
step, between the decision and the end of the call, and an abort or a close
changes no file) and of staged updates (none disappears but by a commit or an
abort). Crashes are in it: a server that dies half-way through its writes leaves
the set of replicas. It holds under the conditions of `commit_lossy` and
`all_calls`, and section 5 proves it under both for instances of any size. The
application of `commit_lossy` does not call `CloseFile`, and that is needed: where
packets are lost a close can succeed with updates staged (`close_loses`), which
`AtomicFiles` does not allow. For an application that commits before it closes, like
the sample application, the theorem `ApplIsAtomic` has closes as well.
`ServersKeepPledges` needs no such condition: it is checked where packets are
lost and reordered and clients replaced, and proved in section 5.

`ApplSucceeds` says that the sample program gets through a network that loses
packets, without an error, and `WritesReachAll` that its last message tells the
truth; both as long as no call runs out of time. `CallReturns` is checked where servers
answer in time, one server may be killed and nothing is lost. Where an answer may come
after the timeout it is false, whether packets are lost or not (`commit_hangs`), and it
takes only a Commit that gave up on a slow server and one that is killed later.

## 5. What is proved

### On any network

For every set of servers, files, cells, blocks and data, every window, loss or
not, every bound, and every choice of `Timely`, `Calls`, `DiskFaults` and
`Crashable` (under the named assumptions of the modules, which only type the
constants), `ReplFsProofs`, `ReplFsAbstractProofs` and `ReplFsWireProofs` prove of
`Spec`:

| Theorem | Property |
|---|---|
| `TypeCorrect` | `TypeOK` |
| `ServerPrefixHolds` | `ServerPrefix`: the commit loop dereferences no `end()` |
| `ClientMapCompleteHolds` | `ClientMapComplete`: neither does the retransmission |
| `VoteBookkeepingHolds` | `VoteBookkeeping`: votes on record are of the servers counted |
| `SelectionAlwaysHolds` | `SelectionHolds`: at most `numServers`, all selected |
| `VotesBind` | `VoteIsBinding` (an action property) |
| `PledgesAreKept` | `ServersKeepPledges`: each server implements `Participant`, if `DiskFaults = FALSE` |
| `PacketsArrive` | `PacketsReadAsSent`: a packet is read as the message that was sent, for ids below 2^31, names and blocks of any length the API lets pass |

The argument: `IInv` is the conjunction of `ServerInv` (channel types, server
types, `ServerPrefix`) and `ClientInv` (channel types, client types, the three
client invariants, and two facts they need). Types alone are not inductive: the
content a commit writes has the type of a file only if every id it reads is in
the map (`ServerPrefix` on the server, `ClientMapComplete` for the promise), the
OPENFILE message and the file in doubt are well typed only because a file is
named inside a call (`FileNamed`), and `SelectionHolds` survives a new
`InitReplFs` only because no answers are kept between calls (`NoCloseAnswers`,
`VoteBookkeeping`).

- `ReplFsProofs`, first part: the largest of a non-empty set of update ids exists (by
  well-foundedness of < on the naturals, since `Max` is a CHOOSE); applying a
  complete prefix of updates yields a file; taking a packet out of a channel or
  adding some leaves a channel; message fields by message type.
- `ReplFsProofs`, second part: the server, one lemma per handler (`ServerStepSafe`, `StepBinding`);
  the client, one lemma per way an operation ends and per step inside
  it (`ClientStepSafe`). Each side's step leaves the other side's variables alone, so
  the two combine to `Invariance`.
- `ReplFsAbstractProofs`: the refinement of `Participant`. Its invariant is `IInv`
  and `NoBackup`: without disk faults no backup survives a commit, so the rollback
  never runs. Through the mapping a block put in the cache changes nothing
  (`CachedIsNotPledged`, from `ServerPrefix`), `reset()` empties the pledge
  (`ResetReleases`), and writing the cached updates below a count is writing the
  pledged ones (`SameWrite`); then one step per handler, one for the end of the
  process. With disk faults the theorem is false: a rollback writes a file.
- `ReplFsWireProofs`: `ntohl` undoes `htonl` on every `int` (`WordRoundTrip`). What one
  `memcpy` puts into a packet lies there (`BytesPut`, `IntPut`), and stays when a later one
  copies behind it (`BytesKeepInt`, `IntKeepsInt`: each use must show that the places do not
  overlap); what lies within the packet is read from the receive buffer (`BytesReceived`,
  `WordRead`). With that each class of messages is followed from its `serialize`, member by
  member, through the length it is sent with to its `deserialize` (`FileIdArrives`,
  `VoteAckArrives`, `OpenFileArrives`, `WriteBlockArrives`, ...), and by `TypeCorrect` there
  are no other messages.

### On a dependable network

`Dependable` (in `ReplFsReliable`) says that packets are neither lost nor reordered,
disks work, `execute` gives up only on servers that are dead, and one client runs:
the conditions of `all_calls`. Nothing else is bounded: any number of servers, more
than are needed included; any number of files, staged updates, overlapping blocks, calls
and packets under way; any server may be killed at any moment, also between two
writes of a commit. The theorems have the form `Dependable => (Spec => []P)`.

| Theorem | Property |
|---|---|
| `ReliableAlways` | `Reliable`, the inductive invariant of the others |
| `AllPreparedHolds` | `AllPrepared`: in the commit phase everyone has everything |
| `SameFileHolds` | `SameFileEverywhere` |
| `PromiseHolds` | `ReplicasMatchPromise`: the disks hold what the application was told |
| `VotesHonestHolds` | `VotesAreHonest` |
| `ClosedIsCommitted`, `ClosedLeavesNothingHolds` | `ClosedMeansCommitted`, `ClosedLeavesNothing` |
| `DecisionComesFirst` | `DecisionFirst` (an action property) |
| `OneRoundHolds` | `OneRoundSuffices` (an action property) |
| `HealthyHolds` | `HealthyNeverAborts`: while all selected servers run, only the application aborts |
| `CommitsAreAtomic` | `FilesAreAtomic`: the whole system implements `AtomicFiles` |
| `CourseKept` | `OnCourse`, of `ApplSpec`: each call of `main` finds what it should |
| `ApplWritesReachAll` | `WritesReachAll`, of `ApplSpec`: "Writes to file complete" is true |
| `ApplIsAtomic` | `FilesAreAtomic`, of `ApplSpec` |

None of the properties is inductive, because none speaks of what is still in the
channels. A copy of a COMMIT sent again before the last answer came in is handled
during a later call, and it is harmless only because the server that handles it has nothing
cached; that is so only because a block of the next transaction is behind it in the
channel; and so on. `Reliable` says what makes it so, in two parts:

- `Channels(s)`, of every selected server, dead ones too: within an operation its
  messages and answers come last in the channels, and a server that has answered has
  nothing older left to read (`InOrder`). Between calls what is under way is of one
  operation, followed by updates (`Quiet`). No vote outlives a commit (`NoOldVotes`).
  No answer is a refusal, but to a close with updates staged (`Answers`). So an
  answer the client accepts is one to the present operation, although nothing in it says so.
- `Holds(s)`, of the live ones: each staged update is cached or under way, behind
  any COMMIT or ABORT that would throw it out, and nothing else is (`Updates`). The
  last OPENFILE read or under way names the client's file (`Named`). Who has voted has counted
  all (`Voting`). In the commit phase a replica has everything in its cache and the
  old file, or nothing in its cache and the new one (`Committing`). Old COMMITs
  find nothing to write (`CommitsLeft`). Files not in doubt are as promised
  (`OnDisk`). Who closed has fp NULL (`Closing`).

`Bookkeeping` and `Fresh` add the client's side, and servers nobody has used.
TLC checked `Reliable` in `all_calls` before it was proved.

- `ReplFsReliableServerProofs`: queues first: what taking the head off or putting a packet
  behind does to each part of `Reliable`. Then one lemma per handler
  (`ProcVoteKeeps`, `ProcCommitKeeps`, ...), and the end of the process.
- `ReplFsReliableProofs`: the client. What sending does to a channel, for messages of the present
  operation and for the first of a new one; one lemma per way a call starts, an
  answer is read, an operation ends or times out; `NextReliable`; the theorems.
- `ReplFsAbstractProofs`: the refinement of `AtomicFiles`, with `Reliable` as its
  invariant. `StagedApplied` says that folding the staged updates one after the other gives the
  content `Apply` gives by the last writer of each cell; a counterexample
  would be a shortest one, and one update more changes both alike
  (`ApplyOneMore`). A COMMIT that
  writes is `AtomicFiles`' commit of that replica, any other handler is a stutter (`HandleIsAtomic`); a server
  that dies leaves the set of replicas (`DeathIsAtomic`); the last CommitAck is the
  success of the call, for by then all replicas have committed
  (`AllHaveCommitted`); and so on for each step of the client (`ClientIsAtomic`).

- `ReplFsApplProofs`: `ApplRunsReplFs` (every step of `main`, and of the library under
  it, is a step of `ReplFs`, on any network) hands all the theorems down to the application.
  `WritesReachAll` says nothing until the last step; `OnCourse` says how it comes about: at
  each call, which operations may run, which lines are staged (`FollowsLines`) and what
  is promised. The library may only wait, end an operation, or go on
  from the votes to the commit phase (`LibrarySteps`), because no close is refused
  with nothing staged. What this takes of `Reliable` is `Relied`; `Tolerant` has it as
  well, so `OnCourse` is proved once for both kinds of network. At the end
  `ReplicasMatchPromise` turns what is promised into what the replicas still alive hold.

### On a network that loses packets

`Ordered` (in `ReplFsLossy`) are the conditions of `commit_lossy`: any packet may be
lost at any time, those that arrive arrive in order, nothing fails and `execute` gives
up on nobody who may still answer (`Timely`: no loss lasts until time is up); one client, which needs every server there is,
uses one file and never calls `Abort`. None of these is a convenience: a loss makes answers
of an unselected server, or to an earlier `OpenFile` or `Abort`, pass for answers they
are not (`vote_round`, `stale_abort_ack`), and a second round of votes that runs out of
time passes for a success (`vote_timeout`). Nor do the theorems say that no `Commit` fails:
under `Timely` none can, and in the code a loss that lasts makes it fail. Any number of servers, updates, overlapping
blocks, calls, rounds of votes and packets. The theorems have the form
`Ordered => (Spec => []P)`.

| Theorem | Property |
|---|---|
| `TolerantAlways` | `Tolerant`, the inductive invariant of the others |
| `AllPreparedDespiteLoss` | `AllPrepared` |
| `SameFileDespiteLoss` | `SameFileEverywhere` |
| `VotesHonestDespiteLoss` | `VotesAreHonest` |
| `PromiseDespiteLoss` | `ReplicasMatchPromise` |
| `DecisionDespiteLoss` | `DecisionFirst` (an action property) |
| `CommitsAreAtomicDespiteLoss` | `FilesAreAtomic`: the whole system implements `AtomicFiles`, if `CloseFile` is not called |
| `CourseKept` | `OnCourse`, of `ApplSpec` |
| `ApplWritesReachAllDespiteLoss` | `WritesReachAll`, of `ApplSpec` |
| `ApplIsAtomic` | `FilesAreAtomic`, of `ApplSpec`, which does call `CloseFile` |

`Reliable` is false here: an update may be nowhere, a server that missed one votes for
less, and the client then sends again what it lacks, in the middle of the same `execute`.
`Tolerant` has weaker parts, which lossless steps need not restore:

- `LossyChannels(s)`: an answer to the present operation has no older message behind it
  (`Sequenced`); between calls what is unread is of one operation (`Resting`); no vote
  outlives a commit (`NoOldVotes`); no handler reports an error (`NoErrors`).
- `LossyHolds(s)`: what is cached or under way is the client's (`OnlyMine`), though some may be
  missing; a server has at least what it voted for (`Votes`); in the commit phase it has
  everything and the old file, or nothing and the new one (`Decided`); who answered a close
  with nothing staged has fp NULL (`LetsGo`).

Losing a packet makes each part easier, so the proof is in the rounds of votes. A
VoteAck that claims less than the rest starts a round with a full retransmission: `Added` says
what several packets at once do to a channel, `ConcatAdds` that the retransmission is of that
kind, `NewRound` that every server keeps its part of the invariant. When the last vote
is counted, `CountedIsAll` and `AllCaughtUp` give that everyone has every update
(`OnlyMine` bounds the cache from above, `Votes` from below), and with that the commit
phase begins (`Decided`). Old COMMITs and VOTEs still under way are then behind no
answer, and find an empty cache.

The refinement of `AtomicFiles` reuses the steps of the dependable network: what they
need of the client and of the replicas (`Regular`) both invariants imply. Only two are
different. A COMMIT writes because `Decided` says that the server has the whole
transaction (`WriteIsAtomic`), and a close that succeeds must find nothing staged
(`ClosesEmpty`): it does when nobody calls `CloseFile` (`NeverCloses`), and in the sample
application, where `OnCourse` says so. `WritesReachAll` needs one fact more than on
the dependable network, that no OPENFILE left over opens the file again (`LetGo`): the
server that answered the close has nothing but copies of it to read (`CloseLetsGo`).

### Where disks fail

`Prompt` (in `ReplFsFaults`) is `Dependable` without its condition on disks: any
`fopen`, `fflush`, `remove` or `fclose` of any server may fail at any time, after any
number of the writes of a commit, and any server may be killed, as on the dependable
network. Nothing is bounded here either.

| Theorem | Property |
|---|---|
| `UntoldAlways` | `Untold`, the inductive invariant |
| `DamageReported` | `DamageIsReported` |

`DamageIsReported` speaks of disks only and is far from inductive: a server whose flush
failed keeps its cache and takes the next copy of the COMMIT for a new one, one whose
fopen failed carries it out when asked again, and the client may count an answer meant
for another operation. `Untold` says that of each replica one of two things holds.
`Intact(s)`: it is as a working one would be, with no backup. `Halfway(s)`: it has failed
in the commit that is going on; then nothing is claimed of its cache, backup and file,
but every other file is as promised, only VOTE and COMMIT are left for it to read, and
its first unread COMMITACK is an error (`Failing`).

The last clause does the work. The client reads answers in order, so it cannot count an
`s` that is half-way: reading the error ends the commit phase and puts the file
in doubt, which is where the invariant stops, and as long as the error is unread `s` is
missing from `recvServerId`, so the phase does not end in success (`AllCarriedOut`). A server
half-way may write the file as often as it gets COMMIT, and nothing else (`CommitTouches`,
`FailingStays`). A server that fails while it has updates to write goes from prepared to
half-way (`CommitFailsPrepared`); one that has carried the commit out and fails at a copy of
it has answered without error before, and stays intact (`CommitFailsCarriedOut`).

`Reliable` asks more of channels than is true here: a close that fails on one server leaves
answers of the others behind, which the next close counts, so a call may end with packets of
two operations under way, and `closeRecvServerId` need not be empty. What is left is
enough (`FaultyChannels`): in the two phases of a commit answers come in order, outside
them there are no votes, and a vote that is under way is for all that is staged. For the
cache and the names of files the parts of `Reliable` are used as they are (`Updates`, `Named`,
`Committing`, `OnDisk`, ...), with the lemmas of `ReplFsReliableServerProofs`.
`ServerUnhurt` and `ClientUnhurt` are the steps; that a file in doubt stays in doubt
(`DoubtStays`) makes the condition of `Untold` hold before each step after which it holds.

### Only model-checked

- A second client (`hostile`, but for the theorems above), and an `execute` that gives up
  early, of which the runs show what goes wrong.
- What a server does once a commit has failed on it and the client has been told
  (`DamageIsReported` and `Untold` end there; the hazards say what can follow).
- All liveness (`CallReturns`, `ApplSucceeds`), which is out of the proof system's reach.

## 6. Not modelled

The test drivers (fixed call sequences), start-up (command line, socket options),
printing, the node id and sequence number in a header. A restart of a server: `main`
exits when the mount directory exists. Equal node ids, the uninitialised buffer
of `WriteBlockMessage`, limits on offsets and on the number of staged updates, a
clock that steps back: see the hazards. Disk faults together with lost packets:
the number of states is out of reach.

## 7. Plan

1. *Done*: data, network, server, client, composition, application; the abstract
   specifications and their mappings; messages as packets; the runs of section 3; the theorems of
   section 5.
2. *Done*: the properties of `all_calls`, the refinement of `AtomicFiles`, and what
   the sample application relies on, proved on a dependable network of any size.
3. *Done*: `Tolerant`, and from it the commit properties, the refinement of
   `AtomicFiles` and what the sample application relies on, on a network that loses packets;
   `Untold`, and from it `DamageIsReported`, where disks fail.
4. A count of the `FILE`s a server leaves open.
5. Retransmission as a function of the sets of updates each server misses,
   checked against what each server then holds.
