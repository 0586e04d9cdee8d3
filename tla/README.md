# Verification of the Multi-Paxos bank

TLA+ models of the Go program under `lab6` (a replicated bank over Multi-Paxos)
and of what it takes from `lab3`, model-checked with TLC and, for the parts
listed below, proved with TLAPS. The source is the reference: every definition
that models code is listed with its file and lines in `PROJECT.json` (`map`).

## The system

Three nodes run the same program (`lab6/start_application.go`). A node is a
handful of goroutines joined by channels:

| Component | Source | State it keeps | Operations |
|---|---|---|---|
| Acceptor | `multipaxos/acceptor.go` | `accepted_rounds`, `slots` | prepare, accept |
| Proposer | `multipaxos/proposer.go` | round, `adu`, `nextSlot`, promises, `acceptsOut`, `requestsIn`, `promise_slots`, `min_slot`, `sync_promise` | promise, client value, one more slot decided, ticker, leader change |
| Learner | `multipaxos/learner.go` | `learns`, keyed by node and slot | learn |
| Server | `network/server.go` | `adu`, `dcdValInList`, accounts, `curLeader`, connections | decided value, message from a peer, message of this node, client connection |
| Peer client | `network/client.go` | one connection per peer | broadcast, send, reconnect |
| Failure detector | `lab3/detector/fd.go` | `alive`, `suspected`, `delay` | heartbeat, timeout |
| Leader detector | `lab3/detector/ld.go` | `suspected`, `leaderID`, subscribers | suspect, restore, subscribe |
| Bank | `bank/bank.go` | one balance | process a transaction |
| Application | `application/app.go` | the leader it was told | print it |
| External clients | `external_client_application`, `benchmark_aplication`, `gui` | connection, `seqNum`, retry count | send, receive, redirect, reconnect |
| Web chat hub | `gorilla/websocket/examples/chat` | registered browsers, their channels | register, unregister, broadcast; per browser: read, write, ping |
| Websocket library | `gorilla/websocket/conn.go` | frame and message in progress, first error | write and read frames, answer control frames |
| Lab 3 program | `lab3/network/TCP.go`, `lab3/main` | connections, used ports, three channels | dial, accept, clean up, redial, send, read; not used by `lab6` |

How they interact. The leader detector publishes a leader to the proposer, which
tells the server and, when it is the leader itself, starts phase one. The server's
loop (`srvHandleThisNodeOutMsg`) takes what the node's own components produce,
delivers it to the node's own acceptor, proposer or learner and hands it to the
peer client, which sends it over one TCP connection per peer. What a peer sends
is delivered by a goroutine of its own per message. Decided values go from the
learner to the server over a channel of one place; the server applies them in
slot order and reports each to the proposer by `IncrementAllDecidedUpTo`, an
unbuffered channel. A client connects to any node; one that knows of another
leader sends its address and closes the connection. The result of a command is sent
by every node that takes itself for the leader, on the connection it has on record
for the client's address. The web chat is a client whose user is a browser behind a
websocket: what the browser sends goes to the hub, which sends it to all browsers,
and to the bank.

What is hard in it: messages that overtake each other or are lost; two nodes that
both take themselves for the leader, as the detectors are only eventually right;
a proposer that is deposed between two promises of one round; reports that are
merged over several elections; decided values in any order and decided more than
once; two counters (`adu`) of one fact; one server loop that waits for components
that wait for it; a client whose goroutines share its connection without a lock;
connection records that are removed under the name of a peer or an address, which
has another connection by then; and reads that lose part of what was sent. `PROJECT.json` has the list, at the lines (`hazards`).

What makes each part correct: an acceptor reports in a promise every vote that
could still be part of a majority; a proposer proposes only values that cannot
contradict a chosen one, in one round one value per slot, and never runs ahead of
the decided slots; a learner decides only what one round's majority voted for;
a server applies slots 1, 2, 3, ... once each, and all of them in the end; the
detectors settle on one correct leader; clients find that leader, take a result for
the command it answers, and no command is decided twice for them; the frames of two
writers do not break each other's messages; the hub neither loses nor repeats a
message of a browser that keeps up; the connection on record is one that is read.

## The modules

| Module | Models | Extends |
|---|---|---|
| `Messages` | `defs.go`, the network between the nodes | |
| `Acceptor` | the acceptors, and an arbitrary environment of them (`AcceptorSpec`) | `Messages` |
| `Proposer` | the proposers, one action per branch of the run loop | `Messages` |
| `MultiPaxos` | acceptors and proposers together | `Acceptor`, `Proposer` |
| `Learner` | the learners | `Messages` |
| `Server` | what a server does with decided values | `Learner` |
| `Replica` | learners and servers of nodes that the votes reach late | `Server` |
| `Cluster` | all of it wired as in `start_application.go` | `MultiPaxos`, `Server` |
| `InductionProofs` | induction over numbers, and functions defined by recursion over them | |
| `ServerProofs` | majorities grow and meet; learners and servers, whatever learns arrive | `Server`, `InductionProofs` |
| `ReplicaProofs` | the theorems of nodes that the votes reach late | `Replica`, `ServerProofs` |
| `ClusterProofs` | the acceptors among arbitrary proposers; types of the protocol, refinement of `AcceptorSpec`; majorities of promises, one value per round, safe proposals, agreement; the refinement of `MultiPaxos` by `Cluster`, and what holds of both together | `Cluster`, `ServerProofs` |
| `NodeProofs` | detectors and node loop: channels, leader, circular waits | `NodeLoop`, `InductionProofs` |
| `LabProofs` | the map of connections and the ports in use | `LabNetwork`, `InductionProofs` |
| `ClientProofs` | the client with the nodes: types, no command taken twice, whose result a result is, what balances come to | `ExtClient`, `InductionProofs` |
| `HubProofs` | the web chat: types, the order of frames, what browsers are told and what is heard of them | `Hub`, `InductionProofs` |
| `Detector` | failure and leader detector of one node | |
| `NodeLoop` | the goroutines of one node and the channels between them | `Detector` |
| `Bank` | an account | |
| `BankService` | the nodes as a client sees them | `Bank` |
| `ExtClient` | the client, in its four forms, with the nodes | `BankService` |
| `WebSocket` | the server end of websocket connections | |
| `Hub` | the hub and the goroutines of the browsers | `WebSocket` |
| `LabNetwork` | the network layer and main loop of a node of the lab 3 program | |
| `MCMultiPaxos`, `MCReplica`, `MCCluster`, `MCNode`, `MCClient`, `MCWeb`, `MCLab` | the instances | |

State and actions. Variables have the names of the fields they stand for, as
functions from nodes. An action is one iteration of a run loop: the message it
takes, the handler, and what it sends. `sendAccept` is part of each action that
ends in it.

*Network.* `net` is the set of messages on their way, as pairs of a node and a
message; a handler takes any of them, so messages overtake each other. A message
that no step takes is a lost one: nothing forces a step. Nothing in the program
repeats a message, so none is duplicated, but two equal copies on their way to one
node are one element of the set. `sent` is a history of all messages; properties
are stated over it. Actions read it through `net` only.

*Bounds in guards.* `MaxRound` stops `startPhaseOne`, `MaxSlot` stops `sendAccept`
and `IncrementAllDecidedUpTo`. Each node is brought each command of its `Request`
at most `MaxBrought` times, as nothing in the proposer keeps a client from sending a
command again (`sent_twice` shows one that does): twice in `three_leaders`, once in the
other runs. The theorems hold for any number. All other state is bounded by these. In the program the channels between the components of
a node have a million places; their order is not used by any handler, so that a
set stands for them.

*Leaders.* `Trust` gives a proposer any new leader of its node's `Trusted` set at
any time. With all nodes in the set this covers every behaviour of the two
detectors, wrong suspicions included; the theorems hold for every set, the runs
choose smaller ones.

*`irregular`.* A history variable of the proposers. It collects rounds in which a
proposer ended phase one a second time, or ended it with accepts that leave out
slots directly above `adu`. Both happen in this program (see the findings below)
and break agreement or order, so that the properties the protocol is meant to have
are stated for executions without them: `irregular = {} => ...`. Everything else
that is difficult, such as competing leaders, late promises of counted rounds,
merged reports, lost messages, and no-ops, happens in executions with
`irregular = {}`.

*Learner keys.* `string(i)` of a Go integer is the character with that code point;
`runeOf` models this with the collisions it has beyond the code points.

*Accounts.* A balance is a function of the sequence of applied values, so in the
models of the protocol the sequence stands for the accounts; `Bank` has them. The amount
of a transaction is any integer and its operation anything: the console and the GUI let
no negative amount through, but the web server passes on whatever the browser
sent (chat/extClient.go:95-101), and the bank refuses a negative deposit only
(bank.go:80-83), so that a withdrawal of a negative amount adds to the balance
(bank.go:87-88).

*The node loop.* `NodeLoop` turns the view around: what the protocol decides is left
open, and who waits for whom is kept. Each goroutine has a program counter that says
what it waits for, each channel its places. An iteration of the detector's `timeout`
is one step followed by its sends, one by one (`fdSends`), as each may block. Messages of
peers are brought by goroutines of their own, which may wait without holding up
anything and need no state. What the server loop itself delivers, a heartbeat, a promise,
a vote or a count, is a step of its own (`DeliverHeartbeat`, `DeliverPromise`,
`DeliverLearn`, `IncrementAllDecidedUpTo`), as each waits for a place or for its taker.
Time is the order of steps: a reply comes late as long
as `delay` is below `Latency`.

*The client.* `BankService` abstracts the protocol to one log of decided commands
(`Decide`), which `Cluster` justifies as far as it goes, and keeps what decides what a
client meets: `curLeader`, read twice by a redirect and written by another goroutine;
the record of one connection per client address, removed by whichever connection
ends; a decoder per message that reads ahead (`AfterDecode`); proposers that drop a
command when they do not lead and forget none when they stop leading. The dial of the
client and the accept of the node are one step, and so are the start of the node's
goroutine for it and the record. `lost` collects commands lost in a way the code
allows. In `ExtClient` the goroutines of the client (`reads`, `dial`, `sending`,
`main`) interleave over `host`, `conn` and `retries`. `kind` selects one of the four
programs, which differ in how they take results and input: the console and the GUI
compare and count the sequence number and then ask for input; the benchmark asks
first; the web program waits for no result before it sends the next command. Of the
calls that connect again after a redirect or an end of file, one of each is modelled
at a time. Several clients behind one address share its record and identity; one is
modelled. What is sent are the fields `usr...` as they are at that moment (`UsrFields`):
while the user types they are zero or half filled, so that a goroutine of a redirect may send
a command that nobody typed. The user answers every question within its range at once;
the web server stores the three numbers of a message in one step. `overrun` is a history variable: that a result was taken while a goroutine
had a command still to send, or could still be told to send it again (`StillToSend`).
It takes a second answer to an earlier command (`sent_twice`), and from then on the
goroutines send another command than they were started for; `TakenOnce` and
`AnswersOwnCommand` say what holds until then.

*Websocket.* Payloads are sequences of units. A frame is written in one step under
the lock of the connection, or torn when the deadline passes within it; a browser that
is slow may also make a control frame give up the lock. A frame of the browser is
chosen when it is read: any opcode, final or not. What the bank has to do with a
message is reduced to what holds up the goroutines: a result that comes at any later
time, a `readPump` that waits for ever to say that no node was reached, and the end of the
program: both goroutines index into the parts of the last message, of which a browser may
have sent too few (chat/extClient.go:96, 101, 190). `Leave` and `ReadPumpReturns` are the two
steps of `readPump`'s end, between which `writePump` may still write. A pong
only moves a deadline and is left out, as the deadline may pass at any time.

*Lab 3.* Of a message it matters whether a read brings it whole. `conns` is a set of
slots that are used again once a connection is done with. `LookFor` and `RemovePort`
are two steps, as in the code; the port that a reader gives back it removes in one.
`getClientAddr` looks through `UsedPorts` without the lock while it shifts, and may miss ports
that moved (`SurelyFound` are those it cannot miss). A write to a peer goes through, is lost,
or waits until the peer reads or the connection ends (`SendWaits`). `InitServer` may fail:
`ConnectTCP` then returns before it starts the goroutines that send and redial, its caller
only logs the error (main.go:110-112), and the node goes on without them. Of the detector the
two channels to the main loop are kept, each of which one side may block on: `hbChan`, which
only the main loop empties, and `hbIn`, which only the detector does.

## The runs

Three nodes in the runs of the protocol and of the client, so that two are a
majority. `MaxRound = 5` gives node 0
the round 3, node 1 the round 4 and node 2 the round 5; `MaxRound = 6` gives node 0
a second one.

| Run | Instance | Shows |
|---|---|---|
| `three_leaders` | 1 slot, 6 rounds; nodes 0, 1 and 2 all take themselves for the leader, node 0 leaves the lead and takes it back; the proposers of 0 and 1 have a command each, brought up to twice; each proposer reaches two acceptors, any two proposers have one in common (`Ring`) | `Agreement`, `AcceptsHaveMajority` |
| `gaps` | 3 slots, 3 commands, 5 rounds; nodes 1 and 2 both lead; acceptors 1 and 2; servers may count slots early, so that votes leave holes and prepares start above voted slots | `TypeOK`, `OneValuePerRound`, `ProposalsAreSafe` |
| `replica` | three histories of votes with regular rounds, the learns reach node 0 in any order | `TypeOK`, `DecisionsHaveMajority`, `AppliedInOrder`, `ChosenOnceAppliedOnce`, `DecisionsKept`, `EverythingApplied` |
| `cluster_replicas` | 2 slots, 5 rounds; node 2 leads, then 1 may, both brought commands; acceptors 1 and 2; nodes 0 and 2 learn and apply | `ClusterTypeOK`, `RegularDecisionsHaveMajority`, `CountsDecidedSlots`, `ProposesAfterApplied`, `ReplicasAgree`, `PromiseReportsVotes`, `ProposesAfterDecided`, `AcceptorSpec` (the acceptors refine the acceptors among arbitrary proposers), `ImplementsMultiPaxos` (the application refines the protocol) |
| `node` | node 0 of two, whose peer may crash; one place per channel; three requests, promises or votes; replies late until the delay is 2 | `TypeOK`, `LeaderReachesServer`, `StuckForGood`, `ServerLoopReturns`, `LeaderElected` |
| `client` | two commands, 3 as the largest integer: a deposit and a withdrawal that is not covered (console, GUI), deposits that overflow (benchmark), a withdrawal and a deposit of negative amounts (web server); 2 connections, 1 retry; two crashes or elections for the console, one for the others | `TypeOK`, `AnswersOwnCommand`, `TakenOnce`, `BalancesAreCovered`, `EveryCommandEnds` |
| `web` | one browser that sends two frames of up to two units and is slow; one that listens, is sent a ping and may leave (`Leaving`); buffers of one unit, a read limit of two, channels of one place | `TypeOK`, `FramesInOrder`, `DeliversBroadcasts`, `BroadcastsAreMessages`, `DisconnectedLeaves` |
| `lab` | one peer; 2 connections at a time, made and lost without limit; 2 ports; one place per channel; a budget of four, of which a heartbeat sent or a write that waits takes one and a message of the peer two | `EntriesAreRead`, `PortsAreReturned`, `NothingIsHeldUp`, `Reconnects` |

Why these bounds are enough for the interesting cases. A report of an older vote
can only mislead a proposer when three leaders vote in one slot with majorities
that overlap in one acceptor: `three_leaders` is the smallest such instance, and
a proposer that prefers the older report is caught there. Six rounds let node 0
start a second round with promises of the first on their way. A hole in the
reported slots needs three slots, and its no-op shifts the slots behind it:
`gaps`. In `cluster_replicas` learns of one slot come from two rounds. In `node` three
messages of the peer fill every channel of one place around each of the circular
waits, and the program with its eight, one and a million places has the same
cycles. In `client` a second connection is needed for a redirect, and more would repeat
it; two commands are needed for a result to come late, and a third one for a late
result to be taken for an answer to the second (`sent_twice`: three deposits, no crash). In `web` a message of two
units is cut into two frames by a buffer of one. In `lab` two connections are what a
peer that dials and is dialled makes; two torn or merged messages fill `UnmodRChan`,
four heartbeats to the node itself close the circle of `SChan` and `RChan`, and heartbeats of
the peer that of `hbIn` and `hbChan`. In `web` the two ways a connection is lost, a reader that
is late and a browser that goes, are one at each browser.

On two cores the largest runs take about three minutes: `node` (339,494 distinct states),
`lab` (956,675), `web` (1.65 million), `three_leaders` (1.66 million); `client` has 556,198.

`Proposing` and `Listener` name the nodes whose proposer and learner take part,
and `Reach` the acceptors that a proposer's messages reach. The messages for the
others are lost, which is a behaviour of the network; this keeps the instances
small and is varied between the runs. `CHECK_DEADLOCK FALSE` is set everywhere:
when all messages are handled or lost and no leader changes, the system rests.

In `three_leaders` (`OrderlySpec`) the servers count a slot only when a majority voted
for it, which keeps it small; `CountsDecidedSlots` shows for the composition that they
do, as long as they apply no slot twice. `gaps` has servers that count slots at any
time. In both, learners take no part (`UnheardSpec`), as nothing they do matters there.

Symmetry is used in `gaps`, over the two commands that are brought to node 1 only;
no property there names a command, and none is temporal.

*Fairness.* Goroutines are scheduled, so that each step of one that stays possible is
taken in the end (weak fairness); where several goroutines contend for a place in a
channel or a `select` has several cases ready, the one that is possible time and
again is taken in the end (strong fairness: Go serves the senders of a channel in
turn and chooses among ready cases at random). What depends on others is not fair:
crashes, elections, timeouts in the network, browsers.

* `EverythingApplied` (`replica`): the learner's loop, the server's loop and the
  rendezvous with the proposer go on, and no learn is lost. It is restricted to
  histories of at most two slots, in which no more than one decided value waits for another.
  With three it does not hold: a due value may stay behind another
  one, as only the first value of the waiting list is tried (server.go:219-222;
  README.md:539-540 has the server process every value that is due). That hazard is
  listed and no property covers it.
* `ServerLoopReturns`, `LeaderElected` (`node`): as above, and a peer that runs
  answers. There are four circular waits (`Stuck`); `StuckForGood` shows that nothing
  resolves them, and the other two that nothing else holds the loop up. In two of them the
  proposer is blocked on the one place of `SrvLdrIn` (proposer.go:145), which only the server
  loop empties, while that loop waits for the proposer: for the rendezvous of a count
  (server.go:216), or for a place in the full `promiseIn` (server.go:293, proposer.go:90). In the
  third the learner is blocked on `ChosenValOut` and the loop has a vote for it
  (server.go:303); in the fourth the detector is blocked on `HbOut`, or on a proposer that waits
  as above, and the loop has a heartbeat for it (server.go:270).
* `EveryCommandEnds` (`client`): one weak fairness condition on all goroutines of the
  client and the nodes is enough, as every step uses something up, and no infinite
  execution has infinitely many of them.
* `DisconnectedLeaves` (`web`): both goroutines of every browser go on; the ticker may
  never fire and a pong never be late.
* `NothingIsHeldUp`, `Reconnects` (`lab`): each goroutine goes on, and a peer that is
  dialled time and again is reached some time (strong fairness of `Dialled`). What
  they except is what the program does not recover from. The main loop may wait for ever
  (`Stuck`): for a place in `UnmodRChan`, which nobody empties; in `SChan`, when the sending
  goroutine waits for the main loop to empty `RChan`, for a peer that does not read, or was never
  started (`SenderWaits`); in `hbIn`, when the detector waits for it to empty `hbChan`.
  Reconnecting also ends when `InitServer` failed, when `Clean` waits for a byte of a peer
  that sends none (`CleanWaits`), and when no port can be dialled from: a reader that ends late
  deletes the entry and gives back the port of a later connection that is still open, and
  every dial then takes that port, the first free one, and fails (`PortTaken`). The hazards these
  are remain uncovered, and the list says so.

## What the code does not do

Each run below checks one statement of the documentation or of a comment, and TLC
finds it violated.

* `reopened_round` (`SameValueDecided`, README.md:240-241). Every leader change
  clears `sync_promise` (proposer.go:146), also one that deposes the node. The old
  round's `promiseCount` is still a majority, so the next late promise of that
  round ends phase one again: `nextSlot` goes back to `adu + 1` and a second value
  is proposed and chosen in a slot of the same round. The acceptors do not stop
  it: they take an accept of their own round for a duplicate (acceptor.go:155).
* `bound_slots` (`BoundSlotsProposed`, README.md:217-219). `min_slot` is the lowest
  slot of the first report ever and is not lowered later (proposer.go:309-313); a
  slot reported later with a lower number gets no accept. As the remaining accepts
  are sent all the same, an accept may go out for a slot above `adu + 1`, against
  the comment at proposer.go:231-232.
* `applied_twice` (`AppliedOnce`, README.md:517-518). A value decided again, after a
  later leader proposed its slot again, is applied again and counted as the next
  slot (server.go:191-215).
* `sent_twice` (`DecidedOnce`, README.md:671-672; a client should wait for the response
  to a request before it sends the next, README.md:580-581). The client takes any
  result for the one it waits for and asks for the next command (extClient.go:42-54).
  Two nodes may both answer one command, as each that takes itself for the leader does
  (server.go:208). When the second answer is taken while a goroutine of a redirect has
  the next command still to send, that goroutine sends what the user types after it,
  which the loop sends, too: one deposit is made twice.

One more disagreement is in the model but outside the bounds of the runs: from slot
55296 on, `string(slot)` is the same for neighbouring slots (learner.go:112, 124,
144), and a learner would report the value of one for the other. The theorems that need
distinct keys say so (`CodePoints`, below).

## The proofs

All theorems hold for every `N`, `Value`, `MaxRound`, `MaxSlot`, `Trusted`, `Request`,
`Proposing`, `Listener` and `Reach` that satisfy the assumptions named
where the constants are declared: `N` positive, the bounds naturals with
`MaxRound >= N` (so that the initial rounds are rounds), `Noop` no command, and the
sets within `Node` and `Value`. Those about `NodeLoop`, `LabNetwork`, `ExtClient` and `Hub` hold for all
constants that satisfy the assumptions there, whatever the capacities of the channels.
Every safety property of the passing runs is a theorem. Seven theorems about learners and servers have one more hypothesis, `CodePoints`, and the
properties about agreement are stated for executions without an irregular round; both are
explained where they come up.

*Acceptors* (`ClusterProofs`). `AcceptorSpec` has the acceptors take their steps
while anything else may happen: any prepare or accept appears, any message is
lost. `AcceptorInvariance` proves the invariant
`AcceptorTypeOK /\ SlotsHoldLastVote /\ VotesAnswerAccepts /\ ReportedVotesWereCast
/\ PromiseReportsVotes`. `PromiseReportsVotes` is not inductive alone: that a
promise covers votes cast *after* it needs that the acceptor's round is at least
that of its promises, and that it covers the earlier ones needs that the map
holds, per slot, a vote as late as every vote cast (`SlotsHoldLastVote`).

*Types and refinement* (`ClusterProofs`). `TypeInvariance` adds the proposers'
types to that invariant: each action of the proposer keeps the types and does
nothing to the messages but add prepares and accepts (`Proposes`), so that it is a
step of the acceptors' environment. `Types` is `Spec => []TypeOK`; `Refinement` is
`Spec => AcceptorSpec`, which carries the acceptors' theorems over to the protocol.
The arithmetic is in `BoundAccepts`: the accepts made of the reports are a
sequence within the slots, whatever `min_slot` and `adu` are.

*Majorities* (`ClusterProofs`). `MajorityBeforeAccept` is
`Spec => []AcceptsHaveMajority`, with irregular rounds or without. The inductive
invariant `CountInv` says that what a proposer counts are nodes that promised its
current round, each once (`Counting`), that the accepts in its queue are of that
round once phase one is done, and that a promise is on its way only to the
proposer it is for (`PromisesAddressed`).

*Agreement* (`ClusterProofs`). `OneValueEach`, `ProposalsSafe` and `Agrees`
prove `OneValuePerRound`, `ProposalsAreSafe` and `Agreement`. The inductive invariant is `SafetyInv == CountInv /\ (irregular =
{} => RegularInv)`; irregular rounds never stop being so, so that the second part need
only be kept by steps that make none.

The idea is to look at who may still speak against a value. `Against(s, k, v)` is
the set of acceptors that voted for another value than `v` in slot `s` and round `k`, or
whose round is at most `k`, so that they still may. As acceptors never vote
below their round and vote for what was proposed, these sets only get smaller
(`Fewer`), and `SafeAt(s, r, v)`, that none of them is a majority for a `k` below `r`,
stays true once it is. Every accept is sent with it (`AcceptsSafe`).
That it can be is shown where phase one ends (`PhaseOneSafe`), from the latest report
per slot: a majority against `v` in round `k` has an acceptor in common with the
majority of promises (`QuorumsMeet`), its promise reports its vote (`PromiseReportsVotes`),
and so the report held is of round `k` or later (`OpponentReported`).
`RegularInv` has what this needs of the proposers: the rounds of two proposers differ
(`RoundsOwned`); reports held are votes below the current round, one per slot
(`ReportsHeld`), and as late as those of every promise counted (`ReportsCounted`), also when
they come from earlier elections; in the queue the slots run on from `nextSlot`, each with
a safe value, and every slot behind the queue is free for a client's command
(`SafeQueue`); no accept was sent beyond `adu + 1`, nor in the current round from
`nextSlot` on (`AcceptsBehind`), so that one round gives a slot one value. The last two
are what a round that ends phase one twice, or leaves out slots, breaks. The hypothesis
`irregular = {}` is therefore no assumption on the environment: it excludes what the
findings `reopened_round` and `bound_slots` show this code to do, and no more is needed.

*Learners and servers* (`ServerProofs`, `ReplicaProofs`). `ServerInv` is kept by every
step of a learner or server, whatever learns arrive: a learner holds one learn per
key (`Learning`), and what is decided is exactly what is in the channel, waits or was
applied (`Serving`), from which `NothingLost` follows without any hypothesis on
rounds or keys. That a node which applied no slot twice applied 1, 2, 3, ...
(`InOrder`) rests on `srvAdu` being the number of values applied: `srvAdu + 1` is
applied, or a slot below again. `DecisionsHaveMajority` needs that
votes of one round and slot have one value, and that `string(int)` tells rounds and slots
apart (`CodePoints`): a learner counts learns by these keys (learner.go:98-124), and from
55296 on different numbers have the same one. `KeysAreDistinct` proves `CodePoints` for
all bounds below that. `LateAppliesOnce` (`ChosenOnceAppliedOnce`) needs two more
facts, `Spent`: the learns of a decided round that are held or on their way are
less than a majority, as the learner drops those it decided by and a node sends one
per slot and round; and `KeepsOnce`: no slot is twice in channel, waiting list and
accounts. `Replica` assumes of its histories of votes what `ClusterProofs`
shows of the protocol: slots from 1, one value per slot and round, and no two majorities
for different values.

*The application* (`ClusterProofs`). `ClusterRefinement` is
`ClusterSpec => ImplementsMultiPaxos`: the steps of learners and servers leave the
protocol's variables alone, and those in which they meet the proposer are steps of
`MultiPaxos`. With it `PromiseReportsVotes`, `AcceptsHaveMajority` and `Agreement` carry over. What holds of both together has the invariant
`ClusterInv == SafetyInv /\ ServerInv /\ Paced`; `Paced` says that the proposer's
`adu` is the server's, less one while the server is in the rendezvous that tells it
(`srvPc`). `ClusterTypes` and `ProposesBehindServer` follow with no hypothesis on keys;
`DecidesByMajority`, `CountsDecided`, `ProposesInTurn` and `SameAccounts` need
`CodePoints`. `SameAccounts` closes the circle: two nodes that applied no slot twice applied, in
each place, values of that slot that majorities voted for, and by agreement the same.

*Detectors and node loop* (`NodeProofs`). `NodeTypes`: no channel holds more than its
places, and suspects, leaders and messages are what they should be, also within the
loop of `timeout` over all nodes, which is a recursive function (`checked`). That such
a function has its type is proved by the least number for which it would not
(`LeastOne`, `IterationExists`, `IterationStays` of `InductionProofs`). `ReachesServer`: the leader the
proposer follows is the last in what the server knows, is sent, and is still to be
sent, by cases in `Reaches`. `StaysStuck` is an action property that needs no invariant: each of the
circular waits names goroutines whose next step waits for a place in a channel that only
another of them empties.

*Connections* (`LabProofs`). `EntriesRead` is `FairSpec => []EntriesAreRead` of
`LabNetwork`, for any number of peers, connections and ports and any `Cap` and
`Budget`. The invariant is inductive once the types of the two maps are added
(`EntryInv`): a connection that ends takes the entry of its peer with it, whichever
that is by then, and so no entry is left to a connection that is done with and is
then used for another peer (`MakesEntry`). Where the dialler is does not matter.
`PortsReturned` is `PortsAreReturned`: it needs that no port is listed twice, and where
the dialler is (`DiallerTypes`). Between `LookFor` and `RemovePort` the index may go stale,
by a reader that gives back a port in between, and a look through the ports without the lock
may choose one that is in use; that (`raced`) and the crash of an index
out of range are what `PortsAreReturned` excepts.
An index of 0 stays right, as only the dialler adds ports.

*The client* (`ClientProofs`). The invariant `Inv == Types /\ ConnOpen /\ Sole` is kept for
any number of nodes, connections, commands, crashes and elections. `Types` says more than
`TypeOK`: whatever is on its way belongs to a command that was typed, and in the console
and the GUI has that command's sequence number (`Typed`), so that a result with the number
the client expects is that of its last command (`ResultsAreTold`). The three calls of
`clConnToServer` share one retry counter, so that its bound counts the calls that are within
a dial (`DialTypes`). `NeverTakenTwice` needs `Sole`: the right to send the last command is in
one place at most (`OneSender`) - one goroutine that is to send, one that connects, or one
connection, with the command or with the redirect that answers it - and no command is in
two of the streams, queues and the log, nor the last one in any while it is to be sent
(`OnePlace`). A redirect hands that right on: the server that reads the command sends the redirect,
the reader that reads the redirect closes the connection and connects, and the new
connection gets the command. `ConnOpen`, that the connection of the client is open, as who
closes it also forgets it, has a command that is sent go where the right can come back from, and nowhere
else. Where a connection ends
otherwise the right is gone and the command with it. What breaks this is a result taken
while a command is still to be sent (`overrun`): then two goroutines send the command typed
next, which is the finding of `sent_twice`; without it the two theorems hold, for
all clients that wait for results and for the two that count them first.

`DepositsCoverBalances` is `BalancesAreCovered`: no balance is above what was paid in, by deposits
and by withdrawals of negative amounts, and one below 0 only when that is more than an int
holds - for any integers a browser may send, and any width of an int. That is
nothing an account knows of its own: the log may have the commands in another order than
they were typed, and it need not have all of them. The induction is therefore over the log, and the
bound of its first `j` balances is what those `j` commands pay in (`Parts`): as none of
them is decided twice, one more command adds what it pays in and no other
(`PartsWithOneMore`), and all of them together come to no more than what was typed
(`PartsAreBelow`). A sum that wraps around comes out lower, and only when more was paid in
than an int holds (`ProcessSound`). The invariant
has it as part of the type of a result (`Covered`), which stays true when the log grows
and more is typed: a command that is repeated in a log is repeated ever after
(`LogKeepsRepeats`). The hypothesis of no repetition is the property's own; `TakenOnce`
shows for the clients that wait for results that only the behaviour of `sent_twice` breaks it.

*The web chat* (`HubProofs`). The invariant `Inv == Types /\ Pumps /\ Written /\ Hears` holds
for any number of browsers, messages and results, whatever the capacities of
buffer and channels. `Pumps` says where a goroutine is that has nothing to do: a browser that
never connected is registered nowhere, and a `writePump` that waits in its `select` has
no message open (`Writers`).

`FramesInOrder` follows from `Orderly`: as long as no write failed, the writer is in the middle
of a message, with a continuation frame next, exactly when the last message on the wire
has no final frame yet (`Unfinished`). The reader may put a pong or a close message in between at any
time, as `Previous` looks for the last data frame only (`ControlOrdered`).
`DeliversBroadcasts` is a prefix, which is not inductive alone. `Delivering` splits what
the hub took since the browser registered (`Due`) into what is on the wire (`Shown`), what the
writer, the message it puts together and the channel hold (`Pending`), and a rest, which
is empty as long as the browser is registered: an unregistered one gets no more, but what is
in its channel still comes in order. Every step of the writer moves
units from one part to the next (`BeginStep`, `FlushFullStep`, `FinishMessageStep`), or fails, and then only
the prefix counts (`StopsDelivering`). `BroadcastsAreMessages` is the other direction:
`Hearing` says that the units of the frames of a browser are those the hub took and those of the
message being read (`partial`), in order; that a message begins at a text frame and ends at
a final one (`Marks`); and that what was read since the last broadcast is one message (`OneMessage`).
When reading ends, only what was heard counts (`HearsStop`).

These properties fold over sequences of sequences (`FlattenSeq`, a recursive function of the community
modules). What is needed of it is proved by the least position at which it
would fail: the type (`FlatType`), and that it turns concatenation into concatenation
(`FlatCat`). `DataOf`, `OfUsers` and `Heard`, which apply it to what each frame or
message contributes, then get one lemma each for an appended element.

Not proved and left to TLC: the liveness properties (`EverythingApplied`,
`ServerLoopReturns`, `LeaderElected`, `EveryCommandEnds`, `DisconnectedLeaves`,
`NothingIsHeldUp`, `Reconnects`), which rest on fairness and are out of the prover's reach.
The lemmas by induction are each for one function: the provers cannot instantiate the library's
induction theorems, so that they go by a least counterexample (`LeastOne`, `UpTo`).

## The plan

Done: the protocol (`Messages`, `Acceptor`, `Proposer`, `MultiPaxos`), the
replicas (`Learner`, `Server`, `Replica`), their composition (`Cluster`), the node loop
with the detector (`Detector`, `NodeLoop`), the client (`Bank`, `BankService`,
`ExtClient`), the web chat (`WebSocket`, `Hub`), the lab 3 program (`LabNetwork`), and the
proofs above. Next would be the set-up of the connections between the nodes of `lab6`
(`network/client.go`).

## Not modelled

* `String` methods, logging (`lab3/logging`) and printing; `application`, which prints
  the leader it is told; `Stop`, which no program calls before it ends.
* The connections between the nodes of `lab6` (`network/client.go`): the loss, the
  reordering and the read-ahead they cause are in the models, their set-up is not.
* In `lab6/gorilla/websocket`: handshakes and dialling, proxies, compression, masks,
  prepared messages, the direct writing of messages larger than twice the buffer, and
  the panic on concurrent writers, which the chat program does not cause. The chat
  program's client connects in the background and gives up there, too, unheard.
* In `lab3/network`: the connections of clients, which the program has no use for (the
  channels they are announced on are never read), `Broadcast` and `Multicast`, which
  it does not call, and `peer-to-peer.go`, an older copy that declares the same names
  as `TCP.go`. That the map of connections is read and changed without a common lock
  may end the program at any time (TCP.go:414); this is listed as a hazard only.
* An accept that no majority gets is not sent again by anybody (proposer.go:250): a
  liveness property of the protocol under message loss would not hold, and none is
  stated.
* The copy `multipaxos/1` of an older proposer.
