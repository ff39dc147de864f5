# Verification of inet-gpl

TLA+ models, TLC runs and TLAPS proofs for the program code of inet-gpl, the GPL
part of the INET framework: the models an OMNeT++ simulation is built from.
Everything here is translated from the C++ sources under `src/inetgpl`; INET,
OMNeT++ and the TCP stacks that are loaded as libraries are outside the
repository and are modelled only as far as the sources use them (marked external
in `PROJECT.json`).

## The system

| component | state it keeps | operations | hard behaviour |
|---|---|---|---|
| `HtbScheduler` (queueing/scheduler) | class tree, token buckets, modes, self and inner feeds, next-to-dequeue pointers, wait trees, deficits, next index, timer | push signal, pull, mode-change timer, packet removal | modes that change with time alone; cascades of feed changes up the tree; stale pointers; a timer against pushes and pulls at one time |
| `HtbQueue`, `HlsQueue` | one bounded queue per leaf, classifier, scheduler | push, pull, remove, drop | queues change behind the scheduler's back |
| `HlsScheduler` | class tree, quotas, fair shares, busy weights, round robin list, next index | push signal, pull, removal | leaves come and go in the middle of a round; a loop that ends only if quota suffices |
| `TcpNsc`, `TcpNscConnection`, queues (transportlayer/tcp_nsc) | connections, two maps to sockets of an external TCP stack, send and receive queues | application commands, segments, callbacks of the stack, timer | the stack sends while a handler runs; changes are guessed from polling; close against undelivered data |
| `HttpBrowser`, `HttpServer`, `HttpController` (applications/httptools) | sockets, pending replies, browsing session, register of sites | timers, socket callbacks, direct messages | TCP has no message boundaries; the browser closes or the connection breaks, with replies on the way; sessions go on meanwhile |
| `PacketDrillApp` (applications/packetdrill) | script queue and counter, descriptors, one renewed TCP socket, numbers captured from script and live packets | script timer, packets, socket callbacks, system calls | packets before, at or after the script's time; numbers of two frames that wrap differently; closes of descriptors that share a socket |
| PacketDrill library, parser | packets and expressions built from a script | construction, parsing | wildcards of the fields that are not to be compared |

Both schedulers sit between the queues of an interface and its transmitter. A
push into a leaf queue emits a signal, in whose handler the scheduler brings its
state up to date and chooses the next leaf (`nextIndex`); it then tells the
interface, which asks `schedulePacket()` and pulls when the transmitter is free.
`TcpNsc` lies between applications, IP and a foreign TCP stack without a clock or
addresses of its own: the module calls it, and it calls back to send. The HTTP
browser and the servers meet through the controller, which names a server, and
TCP. `PacketDrillApp` replaces the application and the network at once: it makes
the calls of a script on the stack under test, gives it packets and compares what
it sends.

All of it runs on the one thread of the simulator: interleaving happens between
handlers, and inside one only where control is given away (callbacks of the
stack) or where a handler consists of loops over shared structures, which are
then stepped.

### What makes each component correct

* **HTB**: feeds, active priorities, modes and wait trees agree after every step; a
  next pointer can be followed; no stored mode is older than the buckets it
  stands for; the timer is armed for the first change; the leaf chosen is one
  that may send, lowest lender first, then by priority; ceilings hold; no leaf
  starves; every search ends; no self check throws.
* **HLS**: quota is conserved; the busy flags, weights and the list agree; a busy
  leaf gets one share in a round; siblings are served in proportion to their
  weights; no leaf starves; the search ends.
* **TCP/NSC**: every connection is found by the stack's pair and by the
  simulation's; received data and the end of the stream are told once and in
  order; no assertion about the stack fails; a requested close ends.
* **HTTP**: whatever reached a server is answered, a connection whose client
  closed is closed by the server, the special list holds what the scenario put on it.
* **PacketDrill**: script events run once and in order, packets are compared in the
  order they came, a script completes only if every expectation was met; a call
  reaches the connection its descriptor stands for; an expectation matches
  exactly when the live packet is what the script means.

## Modules

| module | what it is |
|---|---|
| `HtbScheduler` | the scheduler, its leaf queues, the link and the clock |
| `HtbPolicy`, `HtbRefinement` | what a hierarchical token bucket promises, with no incremental state; the mapping and `ImplementsPolicy` |
| `HtbProofs` | theorems about `HtbScheduler`, the step simulation to `HtbPolicy` included |
| `HlsScheduler` | the scheduler, its leaf queues and the link |
| `HlsFairness` | an observer of two sibling leaves, for proportional service |
| `HlsProofs` | theorems about `HlsScheduler` and `HlsFairness` |
| `Sums` | the sum of a function over a finite set, by which quotas and weights are added up |
| `TcpNsc` | connections, the two maps, queues, and the stack as an environment |
| `TcpService`, `TcpRefinement` | what a transport layer promises to its applications; the mapping and `ImplementsService` |
| `TcpProofs` | theorems about `TcpNsc`, the step simulation included |
| `HttpController` | the register of sites and the choice of one |
| `HttpTools` | browser, servers and what TCP or direct messages carry between them; extends the controller |
| `HttpProofs` | theorems about both |
| `PacketDrillRunner`, `PacketDrillRunnerProofs` | the event loop: script events, captured packets, reads, polls, code blocks; theorems about it |
| `PacketDrillSockets`, `PacketDrillSocketsProofs` | the TCP calls of a script against the Tcp module; theorems about it |
| `PacketDrillFrames`, `PacketDrillFramesProofs` | TCP numbers, options and timestamps of a script against the live ones; theorems about it |
| `PacketDrillSctp`, `PacketDrillSctpProofs` | SCTP chunks: built, compared, injected; theorems about it |
| `MC...` | trees, scripts, sites and numbers for TLC |

Operators whose comment begins with "Mistake:" are the mutations of `PROJECT.json`:
a plausible bug in the operator that follows, under which a property must fail.
They are used nowhere in the specifications.

### HtbScheduler and the code

Time is discrete and relative to `simTime()`: `age[c]` is the time since the
`checkpointTime` of class c, capped at its `mbuffer` just as the code caps it
before every use; `nextEvent[c]` is the time left until `nextEventTime`. The unit
is the nanosecond of the token arithmetic. Costs of a packet at a rate are
constants, so that the code's division by the rate (in `double`, truncated on the
way back to `long long`) becomes some natural number for every packet length.

`pc` says where a handler is: `charge` (chargeClass, one step for each class from
leaf to root), `events` (doEvents, one step for each due class), `search` (the
loops over levels and priorities), `descend` (getLeaf, one step for each level of
the tree, and htbFindLeaf, one step for each leaf looked at), `schedule`
(scheduleClassModeChangeEvent). The environment moves while `pc = "idle"`.

The climbs of `activateClassPrios` and `deactivateClassPrios` are not stepped but
written as what they do to all classes of the `Chain` they visit. The code's
idiom for going round a `std::set` dereferences `end()`, which is undefined; in
the library it is built with, that reads the size of the set, never a class, and
the idiom takes the first element: `CyclicNext`.

Bounds: `MaxQueue` caps a queue (the code's `packetCapacity`), `age` is capped by
`MBuffer`, `nextEvent` by the debt, and `deficit` by the quantum and the longest
packet. Nothing else grows.

### HlsScheduler and the code

`fresh[c]` is `lastUpdatedRound == currentRound`, the only use of the counters.
The circular list with its marker is cut into `ahead` (from `currentPointer` to
the marker) and `behind` (from the marker to `currentPointer`). The recursions of
`hlsUpdateQuota` and `hlsSetIdle` are one step for each class, in the order in
which the code changes them (shares are taken from the top down, busy flags
cleared from the leaf up, the parent's first inside the recursion, which no one
observes). Removal moves `currentPointer` on and erases the leaf in one step.

Bounds: `MaxQueue`; quotas are bounded by the round size, which is bounded by the
weights and mtus.

### TcpNsc and the code

A connection and its socket in the stack have one number. `inetMap` and `nscMap` are the
two maps from pairs of addresses and ports to connections, `inetPair` and `nscPair` the
pairs a connection is registered under, and `pair` the one the stack has for its
socket. `ChangeAddresses` takes out what is registered under the old pair, whoever
it belongs to, as the code does. Remote addresses get the stack's numbers in the
order in which they are first seen (`nscAddr`). Bytes are counted, not named: those
given by the application, in the send queue (`sendQueue`), taken by the stack,
arrived and delivered (`got`); `told` are the indications to the application. The
stack is the environment: with a segment it may connect, bring data, end, reset or
fork a socket, on the timer it may take bytes and give sockets up, and it sends for
any socket it has (`SendToIP`). What the module learns of this it learns by polling
all connections after a segment (`handleIpInputMessage`): `Segment` does the whole
poll. An `ASSERT` that fails sets `error`.

### HTTP tools and the code

A connection (`conns`) has both ends and the two directions of its stream, in
pieces (a reply may be cut in two, several may arrive as one). `browser` has the
timer, the session and the requests that wait for their own time. Each callback
(`socketEstablished`, `socketDataArrived`, `socketPeerClosed`, `socketClosed`,
`socketFailure`) of either side is one action. Sites
either have a definition - lines of which a page is one - or generate pages with some
numbers of images and texts. Random values are choices; probabilities in the
controller are whole numbers out of `One`.

### PacketDrill and the code

Four modules look at `PacketDrillApp` from four sides; what one of them abstracts
away another one has.

* `PacketDrillRunner` keeps the class members of the event loop in the record `app`
  and writes each handler as an operator on it, so that the nesting of the code
  (a packet that completes an expectation runs the next event, which completes the
  next expectation from packets captured earlier) is function application. Time is
  relative to the script; a tick stands for any positive time. Payload is a number
  of bytes, a segment is its sequence number, size and FIN. Of the control messages
  only the bytes left (`TCP_CM_INQ`) are compared, as in the code.
* `PacketDrillSockets` has the socket member's state (`sock`), what Tcp knows of each
  connection (`tcp`), the app's own book-keeping (`app`), and the descriptors the
  script has open (`fds`). A call that throws in `TcpSocket` stops the behaviour with
  an error.
* `PacketDrillFrames` translates numbers. `dut` is the stack under test and the script's
  peer, in live numbers; the script means bytes by its own numbers; `app` has what
  the code captured to map one to the other. `last` records for the latest
  comparison or injection what the app did and what is true.
* `PacketDrillSctp` does the same for chunks: a chunk of a script is a record of its
  fields, some of which are wildcards, and all the combinations of right, wrong and
  wildcard fields are compared. Outbound and inbound streams are counted apart, and
  cut crosswise in an INIT_ACK.

Three of these modules have a constant `Habits`: names of what a script or a stack
may do and the app was not built for. The properties are stated, checked and
proved for `Habits = {}`; enabling one of them may let a property fail, and the comment
beside the constant says what it stands for:

* Sockets, where a call throws (`NoError`): `flush` (cookies are flushed while some are
  cached), `bare` (shutdown of a socket without a connection, close of one that was
  disconnected), `reconnect` (`connect()` after the peer closed, after the connection
  failed, on a listener, or before the accepted connection is ESTABLISHED),
  `relisten` (a second `listen()`, or one on a descriptor that was disconnected),
  `sendto` (`sendto()` after the peer closed or the connection failed), `disabled` (Fast
  Open connects while the client is disabled and no cookie seems to be needed);
  where a deferred SYN stays (`SendsRelease`): `sendmsg` (any `sendmsg()` or `sendfile()`
  while the SYN is deferred; `sendmsg(MSG_FASTOPEN)` that takes no data on an
  unconnected socket while a cookie is cached, or that connects where `reconnect` may
  not), `preamble` (cookie-less Fast Open from the start); where a connection is left
  without an owner (`OwnersClose`): `early` (the accepted socket is disconnected before
  the listener is closed), `leaves` (a new socket before the descriptors of the last
  are closed). `unread` (a new socket while data of the last is unread) violates
  none of the run's properties: the close of the new connection becomes a RST. Each
  of the others, enabled alone, makes TLC find the property named violated.
* Frames: `stragglers` (a segment of the last connection while bytes wait for stamps),
  `sackvalues` (an expectation with the wrong SACK blocks), `bare` (an expectation
  without options of a segment with some).
* Sctp: `anyflags`, `late`, `again`, `shutdown`, `heartbeat`, `ubit`, `answers`, `collide`, as the
  module says.

## Runs

| run | instance | shows |
|---|---|---|
| `htb_side` | a leaf below an inner class, one below the root; two priorities | timer and stored modes, selection and `isEmpty()`, bursts and ceilings; the scheduler implements `HtbPolicy` |
| `htb_fair` | two leaves, queues of two, two packet lengths, hysteresis, quanta that cover them | none of four checks of the code throws (see below), no starvation |
| `htb_remove` | three leaves, packets may vanish | types, feeds, wait trees; stale pointers stay usable; every search ends |
| `hls_trio` | three leaves at two depths, queues of two | one share a round, debt only at the root, two siblings share by weight while a third leaf comes and goes, no starvation |
| `hls_remove` | the same tree, two packet lengths, packets may vanish | quota, busy tree, the search ends |
| `tcp_two` | a listener and an opener or two of a kind, one byte each way, every fate of a socket | routing, assertions, nothing left undelivered, CLOSED comes; the module implements `TcpService` |
| `pd_run` | some 100 scripts of two to four events over TCP, UDP and SCTP | each event once and in order, comparison in order, completion only when met, bytes accounted for, stops for a reason |
| `pd_sock` | two sockets one after the other; calls and events in any order, but for the Habits above (a repeated `connect()` or `listen()` is one) | no throw, owners close, ports, deferred SYN |
| `pd_frames` | modulus 16, two frames that wrap at different points, two connections | comparison, injection and stamps are right; data of a Fast Open SYN is known |
| `pd_sctp` | modulus 16, TSNs that wrap, two DATA chunks and two requests, either role | comparison and injection of every chunk; requests stay apart |
| `http` | two sites, one of them defined by lines, a flash crowd, scripts, sockets and direct messages | special list, closes, answers |
| `http_pending` | the same | the finding below |

Why these bounds are enough to be of interest:

* Class trees: three levels are the fewest at which a climb can stop half-way; two
  leaves under one inner class the fewest for round robin, a third elsewhere for
  going on while they rest; the rates are chosen so that leaves reach every mode
  at every level's pace; weights do not divide quotas, so that remainders stay in
  inner classes. Queues of one packet already empty and fill around every pull;
  where a leaf should keep its turn for several packets the queue holds two.
  In `hls_remove` queues of one keep liveness checkable, but a leaf then never goes
  below zero by a removal: that case is covered by the proofs of `HlsProofs`, and
  that the search ends in it is not checked.
* `tcp_two`: two connections are the fewest of which one is forked and the other
  opened, takes over a pair or is polled for the other's segment; one byte tells
  data before the end of the stream from data after it.
* `pd_run`: the scripts are all pairs of the TCP events, and longer ones where what is
  deferred by one event meets the next (a read that blocks before a packet, code
  that follows an expectation, a poll with a window, an aggregate of two segments).
* `pd_sock`: a second socket is where state of the first one can be left over.
* `pd_frames`, `pd_sctp`: in a modulus of 16 the live numbers wrap after the first byte
  or chunk, the script's elsewhere; with three segments there is room for one that is
  sent again.
* `http`: two sites and a page of two references reach every callback; a later
  reference opens the second connection of a site.

`CHECK_DEADLOCK FALSE` is set where the system stops: a script ends, a browser's
session is over, the stack's bytes are used up.

Fairness. HTB and HLS: weakly fair handlers, since a handler runs to its end; for
HTB strongly fair `Tick` and `Timer`, since only finitely many events happen at one
simulation time and an event that is due is taken from the event queue; a strongly
fair `Pull`, since the interface is told of every change and pulls when it becomes
free. Pushes and removals are never required. TcpNsc: the timer is scheduled again
each time, so it is weakly fair; and the stack, which retransmits, takes the bytes
of a socket in the end or gives the socket up (`TimerServes`, strongly fair).
PacketDrill and HTTP have safety properties only: scripts and bounded sessions
simply end.

Abstract specifications. `HtbPolicy` has buckets, backlogs and a choice: it charges a
packet to all classes concerned in one step and recomputes the best leaf; the
scheduler with its stored modes, feeds, wait trees and timer implements it.
`TcpService` has, for each connection, what was given, taken, delivered and told, and
CLOSED; addresses, segments and the stack are gone. `HlsFairness` is an observer, the
difference in service two siblings received, weighted.

## Findings

`http_pending`: `HttpBrowser.h:49` calls `pending` the number of outstanding replies.
`socketDataArrived` (`HttpBrowser.cc:186-190`) takes all complete replies out of the
buffer and counts one: two replies in one arrival leave one outstanding for ever,
and a piece of a reply counts for a whole one.

Also met while modelling, without a run of their own:

* `HtbScheduler.cc:465`: `removePacket` does not recompute `nextIndex`, which keeps naming
  an empty queue (`HtbScheduler.h:147` says -1 if no class can send).
* `HtbScheduler.cc:661`: the configuration check accepts a quantum of one mtu, but the
  deficit is charged with the physical header as well; the scheduler throws at the
  second pull. `QuantumCovers` is the assumption under which it does not.
* `HtbScheduler.cc:949`: a packet sent at the time of initialization throws "already
  updated exactly now". The instances have `InitialAge` 1, and `NeverFails` assumes that
  it is positive.
* `HlsScheduler.cc:196,418`: when the head of the selected queue is removed, a leaf's quota
  becomes negative; the message says this can only happen at the root.
* `HlsScheduler.cc:471`: a packet of one mtu, with a header longer than all weights
  together, makes `hlsFindLeaf` loop for ever.
* `TcpNsc`: PEER_CLOSED is indicated again with later segments; a socket reset or timed
  out on the timer is noticed with the next segment only; a refused connection is
  never told; a disconnected listener is still polled, and still accepts (453); the address table only grows; a
  segment of more than 4076 bytes is cut; a CLOSE with unsent data on a connection
  that was reset gets no CLOSED; connections are never deleted
  (`TcpNscConnection.cc:180`, a FIXME). The model does all of these that its data can show.
* `PacketDrillApp`: flushing the metrics cache empties Tcp's cookies but not the app's
  mirror (`PacketDrillApp.cc:1143-1155`); only the number of SACK blocks is compared
  (4184-4194) where the comment (4108-4113) speaks of values; transmit timestamps are
  recorded before the segment's port is looked at (405, 437-455); `connect()` on a
  socket whose peer closed, whose connection failed, or that is accepted but not yet
  ESTABLISHED throws "connect() already called", which the code skips only in two
  states (2206-2217), `sendto()` does the same (2709-2717), and a second `listen()`
  throws in `listenOnce()` (1957); a socket opened while the last is open forgets the
  last one's connection (1758-1864); whether a SYN counts as deferred does not depend
  on whether the Fast Open client is enabled (2221, 2726); the flags of an
  expected ABORT or SHUTDOWN_COMPLETE lose their wildcard
  (`PacketDrill.cc:1079,1095`); arriving data moves the counter on with other waits
  pending (195-198, 1272); the end of a simulation ignores a read that still blocks;
  data of a SYN that end at sequence number 0 are taken for none (431, 827), since 0
  stands for that (`PacketDrillApp.h:240-241`).
* HTTP: a second status event for a site leaves the first one's entry on the list
  (`HttpController.cc:263-307`); the choice of a server does not end while none is active
  (445); the requests of a broken connection are not made again
  (`HttpBrowser.cc:238-276`).

## Proofs

Assumptions on constants are named in the module that declares them and evaluated
by TLC in every run.

`HtbProofs` proves for every tree, all rates, bursts, quanta and packet lengths,
any number of priorities and both settings of hysteresis and removal:

* `TypeCorrect`, `FeedsAlwaysConsistent`, `PointersAlwaysValid`,
  `WaitTreeAlwaysConsistent`: the invariants of the runs of the same names;
* `NeverWaitsTwice`: the "already waiting" check never fires;
* `QuantumSuffices`: with quanta that cover the longest packet and its header (the
  assumption `QuantumCovers`) the negative-deficit check never fires.

The inductive invariant `IInv` says more than the four properties. The consistency
of the feeds is kept by `Activated` and `Deactivated` only for a class whose own
membership is being changed; so it is stated as `Held(F, m, x)`, where x is a class
whose membership is in suspense, and every action is shown to take `Held` with
no class in suspense to itself through one with the class it changes. A search
holds a class it took from a pointer (`Cursor`), a charge one on the path to the
root (`Charging`); pointers may be stale, but `Reaches` says that whatever they
lead to lies below, so that the search ends at a leaf. Each action has a lemma of
its own; `NextKeeps` puts them together. The assumptions used are
`TreeAssumption` and `NumberAssumption`, which TLC evaluates in every run.

Its second part goes on from there, about time and choice:

* `ModesAlwaysFollow`, for all constants: no stored mode is stale at the end of a
  handler. `Timing` says that no class waits for longer than it owes (`InTime`), that a
  mode holds until then (`Solid`), and that the timer is armed for the first change;
* `SelectionAlwaysAgrees`, for all constants: the leaf selected is one that the
  buckets allow, at the lowest level and the first priority, and the interface is
  told of packets exactly when there is one to pull;
* `BucketsAlwaysRespected`, without removals: no bucket overflows below the lender
  either, because every class there borrows, and so owes at least what it has
  waited (`Borrowing` in `Selecting`); the leaf chosen is not red (`Chosen`), so that
  its ceiling is overdrawn by one packet at most;
* `NeverNotNext`, without removals: the pointer of the feed from which a leaf was
  selected names a member of that feed (`Pointing`), so a class that is alone in its
  self feed is the next one, as the code checks;
* `NeverFails`, without removals, with `QuantumCovers` and `InitialAge > 0`: none of the
  four checks that are modelled throws (the negative deficit, "not next", "already
  updated exactly now", "already waiting"); those at `HtbScheduler.cc:358`, `531` and
  `686` are taken for granted: the models have no outcome for them. No class is charged twice at one time because the
  link is busy until time passes (`Aged`).

It also proves `PolicyImplemented`, that `Spec` implies `ImplementsPolicy`, for
every tree and all numbers, without hysteresis (the policy has none), without
removals and with `QuantumCovers` (an error would stop the scheduler half-way through
a charge). The policy charges all classes of the path at the pull, the scheduler
one by one: `TokensBar`, `CTokensBar` and `AgeBar` are the buckets after the charges that are
still to come, and `Calm` says when there are none. Everything between is a stutter,
but for `Schedule`, which ends a handler with a choice that `SelectionAlwaysAgrees` shows
to be one of the policy's.

`HlsProofs` proves for every tree of classes, all weights, mtus
and packet lengths:

* with and without removals: `TypeCorrect`, `QuotaAlwaysConserved`,
  `TreeAlwaysConsistent`, `SharesTakenOnce`, `FreshAlwaysBelowFresh`, `NeverFails`;
* `SelectionAlwaysCorrect`, `EmptyAlwaysAgrees`: the properties themselves exempt
  removals (`CanRemove`). These and the types, `NeverFails` and
  `FreshAlwaysBelowFresh` are in no run, since the theorems say more;
* `DebtAtRootOnly`, under the assumption `~CanRemove`, which is needed (see above).

What a handler leaves behind is not inductive in the middle of it. `IInv` adds:
which leaf is idle but still listed (`Dropped`, `Members`), which class is on its
way to busy or idle (`Turning`, `BusyBelow`), that the busy classes are closed
upward (`BusyAbove`), when the list may be empty (`Ring`), who has had a share
(`Shares`), and that the busy leaves are those with packets (`Backlogged`). The
argument for the debt needs one more: an inner class that is up to date holds at
least its fair share times the weight of the busy children that have not been
updated in this round (`Solvent`). `hlsComputeFairShare` establishes it, since
`FairShare` rounds down; every share taken lowers both sides alike; a class that
becomes busy is up to date and owes its children nothing; a new round owes no
one. Sums are recursive along arbitrary choices; that they do not depend on them
is proved first, by taking a smallest counterexample.

Its second part proves `SharesAlwaysInProportion` of the observer `HlsFairness`: two
siblings that stay busy are served in proportion to their weights, up to one
quota. What differs in service is what one of them holds: `Even` says that the
lag, corrected by what each of the two holds or is still to get in this round
(`Held`), weighted, stays within a quota on either side. A round gives both the
same share for a weight, and service moves a leaf's quota into the lag; what is
left to show is that nobody ever holds more than there is. `Covered` bounds what the
root owes its busy children by its own quota and `Spare`, the quota that is not
given out because leaves are idle (a root in debt is in debt for no more), and
with `Solvent` it follows down the tree that a leaf's quota and the share it is due
never exceed `MostQuota` (`HeldWithin`). That the two are siblings and that packets
are not removed is the hypothesis `Siblings`, an assumption of the run's instance.

`TcpProofs` proves, for any number of connections, bytes, remote nodes and ports and
whatever the stack does:

* `CoreInvariant`: `CoreInv` is what a connection keeps by itself. `Types`; `AllFresh` (a
  connection that was not made has nothing); `Lives` (which of listener, offered,
  connecting, disconnected go together); `Accounts` (every byte the application gave
  is in the send queue or was taken, what was delivered is what arrived);
  `AllReported` (data before the end of the stream, the end once, errors when seen).
  `AlwaysDrained` follows, and `Implements`: each action is a step or a stutter of
  `TcpService`, action by action from `CoreInv`;
* `NeverFails` and `AlwaysRouted` need `RouteInv` besides: `AddrInv` (the numbers the stack
  knows are 1 to n without a gap, one for each address) and `Route` for each socket
  (while it may send, the stack's map finds it under its own pair, and its number
  stands for the address its segments come from). A segment changes the socket of
  its pair only, so the assertions about "the one that changed" hold.

`PacketDrillSocketsProofs` proves, for any number of sockets and `Habits = {}`:
`SocketsInvariant`, `NeverThrows`, `AlwaysOwned`, `PortsAlwaysOwn` and the action property
`SendsAlwaysRelease`. The invariant relates three parties: `Names` (which
descriptors the script may have and what the app calls them), `States` (the socket's
state against that of its connection in Tcp), `Mirror` (the Fast Open state the app
keeps for itself is Tcp's, a deferred SYN included), `Closed` and `Owned` (who ended a
connection, and that one without a descriptor is ended), `Ports`. Each call has a
lemma, and each callback.

`PacketDrillSctpProofs` proves, for every modulus, number of chunks and of requests
and `Habits = {}`: `ChunksAlwaysAgree` and `RequestsAlwaysApart`. `Inv` adds to the two
properties what the app has learnt of the association: the tags are the DUT's and
the script's (`Tagged`), the numbers captured from INIT or INIT_ACK are the DUT's
initial TSN and the script's name for it (`Known`), what is kept for later
comparisons is what was sent (`Kept`), and the maps of request numbers name each
request of the DUT once, below those of the peer (`Numbered`). The core is about
remainders: moving a number by the difference of the two initial TSNs maps the
script's numbers to the live ones and back, whichever of them wraps (`Moved`,
`OwnMoved`, `OwnNext`). For each type of chunk a lemma says that the app compares it as
the script means it (`Faithful`); `Inbound` says what an injected one becomes.
`NumberAssumption` keeps the script's own TSNs from wrapping round to 0, which the
code takes for a TSN that was left out; the live ones may wrap.

`HttpProofs` proves, for any sites, pages, scripts and events and any number of
connections, `AlwaysAnswered`, `NoneEverLeftOpen` and `SpecialsAlwaysCount`. A connection is
`Sound` if, unless it is broken, its replies that are on their way, whole or with
their last piece to come, answer the requests that follow those answered already,
in order, and what is still on its way to the server are the requests after these
(`Flow`). How many replies a piece of the stream ends is counted by `Marks`, which
exist for every sequence and agree on its beginnings, so that what the browser
makes of an arrival (`WholeReplies`), what is left after it (`CarriesRest`) and what the
server adds (`RepliesCarry`) need no induction of their own. `Closes` says who has
closed and that the browser's counter is not above the number of replies that are
outstanding, as long as no arrival brought several: with nothing under way the
counter would be positive and below 1. A page only adds connections and direct
requests (`Extends`), in each of the loops over replies, sites and references.
For the special list `ControllerInv` says that while no event repeats a status the
list has no site twice, that each site on it had an event (so that a new event puts
a new site on it), and that pspecial is the total over its sites (`AddsUp`: what some
function on sets of sites, that starts at zero and grows by the probability of each
new site, makes of them).

`PacketDrillRunnerProofs` proves all five properties of `PacketDrillRunner`, for any
scripts, any number of events and any latency and tolerance: `AlwaysEachEventRuns`,
`AlwaysComparedInOrder`, `AlwaysCompleteMeansMet`, `AlwaysStreamAccounted` and
`AlwaysStopsForAReason`. A handler is an operator on the record of the app, and so is
all it calls, down to the loops; what each of them keeps is a lemma about that
operator (`Keeps`, for a record that may also end in an error), and an action
follows from the lemma of its handler. `IInv` has three parts:

* what follows the script (`ScriptInv`). `Counted` relates the counter, the timer and
  the events that ran. `Asking` says that a code block waits exactly as long as
  its STATUS is on the way, so that something will end the wait. `OneAtATime` is what
  `CompleteMeansMet` needs: what was met, what is in the queue of expectations, a
  super-segment that is being met and the event about to run add up to the
  outbound events so far, unless the script slipped; and the same for code blocks. It
  holds only because a next event is scheduled with nothing left to wait for.
  `Over` says what is empty when the script is complete;
* what came in (`QueueInv`). In `Ordered` every captured segment is newer than all
  that were compared, so the loop that drains slices may compare the first it
  finds. `NoneHeldBack` says that none is captured while an expectation waits. For the
  bytes, only the head of the stream is read in part (`ReadInOrder`): the offset of a
  partial read belongs to a packet by name, and a read that could pass over it would
  count its bytes twice;
* why no event is scheduled (`Moving`).

The loops of the code are functions along a queue of any length; that they exist, and
what they keep from one packet to the next (`Takes`, `Reads`, `Drains`), is shown
before anything else. The script's own habits are hypotheses of the properties:
`slipped`, recorded when an event is scheduled with something left to wait for or
`read()` drops an expectation, and `ReadsOneWay`.

`PacketDrillFramesProofs` proves all three properties of `PacketDrillFrames` for `Habits = {}`,
any even modulus from 6 on (the code's is 2^32), any initial sequence numbers of the
DUT, of the script and of the peer, wherever they wrap, and any number of
connections, writes and segments whose bytes are less than half of the modulus:
`AlwaysFramesAgree`, `AlwaysStampsDue` and `AlwaysSynDataKnown`. What the app knows at any
time is in `Good`:

* `Frame`: from the comparison of the SYN on, the captured numbers are the DUT's and
  the script's, and those of the peer from its SYN on; a segment that waits to be
  compared is either the SYN, which brings its own numbers, or was sent after the
  SYN was compared (`Awaits`). Comparing and injecting then comes down to sums and
  differences modulo the modulus (`AddAndSub`, `Rebase`), of which only one multiple of
  it is left to find (`RemainderUnique`);
* `Clocks`: the live timestamp that echoes are replaced by is the DUT's last, and the
  script's timestamps that are known are those it compared;
* `Stamping`: the entries that wait are exactly the writes, in order, whose last byte
  is not out (or not acknowledged) yet (`Waiting`). A byte that is sent again is not in
  the list any more; since the list is ascending and what a segment carries ends
  where it ends, a sweep takes a prefix and leaves the rest in order (`Sweeps`,
  `Gathers`), and what it takes is `Due`. `SeqGE` and `SeqLess` agree with the order of the
  bytes as long as no two of them are half of the modulus apart.

For `SynDataKnown`, `SynData` says what each shadow holds in each state of the handshake.
Its theorem assumes `DataEndsNotAtZero`, since the code uses 0 for a SYN without data
(see "Also met").

Folds and loops over data of any length are taken by induction over the natural
numbers (`UpTo`, by a least counterexample); the library's theorem takes an operator
and cannot be used.

Only model-checked are the liveness properties (`NoStarvation`, `HandlersEnd`, `CloseEnds`):
fairness and ENABLED are out of the prover's reach. Every safety invariant and action
property of a run is stated by a theorem.

## Not modelled

* The XML loaders of class trees (`createAndAddNewClass`, `createAllClasses`): the models
  start from the loaded tree. That `linkDatarate` is read there before it is set is
  listed as a hazard without a property, like the error at simulation time 0. The
  classifiers: a push goes to any leaf.
* `TcpNsc`: the STATUS command (a dump), ICMP errors (discarded), loading of a stack and
  its variables. Buffers and tags of packets in the queues.
* HTTP: the bodies of the evil servers, the reading of site definitions and events from
  files, random distributions, logs and statistics; the browser's
  `socketPeerClosed`, which is for servers that close first (these only close
  after the browser).
* `PacketDrillApp`: the tcp_info snapshot, a conversion of some sixty fields (1487-1678);
  epoll (3431-3538) and getsockopt and SCTP socket options (2393-2658), which check a
  value against the script and keep nothing the models have; SCTP sends (2758-2873);
  the lifecycle operations (4803-4820), which throw. PacketDrill's expressions
  (`PacketDrill.cc`, 1331-2136) are evaluated before anything of the above happens.
* The grammar and the generated `parser.cc` and `lexer.cc`; NED wiring, Python and shell
  scripts, examples, fingerprint and packetdrill test suites, `3rdparty`.

The map covers about 30 % of the implementation's lines; generated code alone is
another 37 %.

## What is next

1. The loader of class trees with its checks and adjustments.
2. epoll and the socket options of PacketDrill; a composition of `PacketDrillRunner`
   with the calls of `PacketDrillSockets`.
