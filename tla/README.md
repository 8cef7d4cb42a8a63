# A TLA+ model of SpcMac

This directory specifies the medium access control of `src/spc-mac`, an ns-3 module in
which a station may send two packets to two stations at once by superposition coding
("SPC"): both packets go out in one transmission, with the transmit power split between
them. The modules are checked with TLC and, where stated, proved with TLAPS.

## 1. The system

ns-3 is a discrete event simulator: one thread runs the event with the smallest time, and
events of one time in the order in which they were scheduled. There are no threads and no
locks; what makes the code hard is that everything it waits for is an event of its own,
that several chains of events live at once, and that they share the fields of one `SpcMac`.

| Part | State | Operations | Talks to |
|---|---|---|---|
| `SpcMac` | two packet slots, `m_sendState`, `m_unicast`, contention window, retry counters, the instants the medium is reserved until, nine `EventId`s | `Enqueue`; the handlers of backoff, timeouts and delayed sends; `ReceiveOk`/`ReceiveError`; the listener's `Notify*` | queue, node table, PHY, device |
| `SpcMacQueue` | a list of packets and `m_size` | `Enqueue`, `Dequeue`, `Aggregation`, `Remove`, `Flush` | node table |
| `NodeInformationTable` | per address: path loss, traffic, bytes | `AddSize`, `UpdateTraffic`, `UpdatePassLoss`, getters | - |
| `PacketInfo` | protocol headers of one packet, a 16-bit size | `SetPacketInfo`, `CreatePacket`, `SetSize` | - |
| `SpcPhy` with `SpcPhyStateHelper` | end of transmission, reception and busy; `m_rxing`; the end-of-reception event | `StartSend`, `StartReceive`, `EndReceive`, `EndReceive2` | channel, interference helper, MAC |
| `SpcInterferenceHelper` | a time-ordered list of power changes | `Add`, `GetEnergyDuration`, `CalculateSnrPer(2)` | - |
| `SpcChannel` | the PHYs | `Send` schedules `Receive` at every other station | PHY |
| `SpcMacHeader`, `SpcMacTrailer`, `SpcPreamble` | fields | serialisation, the byte of received power | - |
| `SpcNetDevice` | callbacks, addresses | `Send`, `Receive` | node, MAC |
| `SpcSender`, `SpcReceiver`, `main` | sockets | one packet after each random interval | device |

An exchange. A packet enters the queue; `StartBackoffIfNeeded` moves one or two packets into
the slots and waits until the medium has been free for DIFS (`BackoffGrantStart`), then a
random number of slots (`StartBackoff`, `BackoffTimeout`). `SetState` decides: two packets
for two unicast destinations are superposed (RTS_SPC, two CTS_SPC one after the other,
DATA_SPC, two ACKs one after the other); otherwise one packet is sent, by RTS, CTS, DATA,
ACK if it is large and unicast, by DATA alone if not. A missing answer is a timeout; a lost
CTS repeats the RTS with a larger window up to `m_resendRtsMax` times and then drops both
packets; a lost ACK of superposed data switches to unicast (`m_unicast`); a lost ACK of
unicast data repeats the exchange up to `m_resendDataMax` times.

### What is hard here

* **Overlapping backoff chains.** `Enqueue` during the slots of a backoff starts a second
  chain, an ACK during one starts another, and when both ACKs of a superposed pair are lost
  both timeouts start one. `BackoffGrantStart` overwrites the `EventId` of a pending event.
  All chains share the slots, the state and the counters.
* **State read long after it was set.** `m_sendState` is set at each `StartBackoff` and
  `BackoffTimeout` and read, and asserted, by the handlers that run when an answer or a
  timeout comes.
* **Instants that coincide.** Every comparison is `<=` against `Now`, and delays are sums of
  the same constants: that a backoff ends in the instant of a timeout is no accident.
* **Others.** Stations transmit while this one waits; frames carry no sequence numbers; a
  CTS_SPC names only its sender.
* **Stalls.** Progress depends on somebody scheduling the next event.

PROJECT.json lists the hazards one by one, each with its line and the properties aimed at it.

### What makes each part correct

* *SpcMac*: a packet taken is never forgotten and in the end released; a timer is about a
  packet that is there; no exchange begins inside another; a promised answer is sent first;
  a pair is superposed once; no assertion fails; queued packets do not wait for nothing.
* *Queue*: first in, first out; `m_size` is the length; aggregation takes only packets of the
  same flow, and no byte is lost.
* *Node table*: one row per address, and its traffic is what was enqueued in the interval.
* *PHY*: never in two states, no reception ends that was given up.
* *Interference helper*: the list sums to the power of the signals on air; the energy duration
  is the time until that power falls below the threshold.
* *Codec*: what is written is read; the received power survives the byte it travels in, and
  never comes out greater than it was.
* *The network*: what `SpcSender` hands over is held by its station until it is acknowledged,
  sent unanswered or given up; it is acknowledged only if it was delivered, delivered a bounded
  number of times, and not at all after it is over. Stations leave each other's exchanges
  alone, and both receivers of superposed data have agreed to it.

## 2. Modules

| Module | Contents |
|---|---|
| `SpcMac` | the handlers of one station as operators on a record `m`, one operator per C++ method |
| `SpcMacNode` | one station in its environment: actions, `Spec`, `FairSpec`, properties |
| `MCSpcMac` | the workloads and frames the TLC runs use |
| `SpcMacHeader` | what a header carries, and the received power it reports |
| `PacketTransfer` | what a network promises to the applications, abstractly |
| `SpcNetwork` | several stations that run `SpcMac`'s handlers over `SpcChannel`; implements `PacketTransfer` |
| `MCSpcNetwork` | the stations, powers and packets its runs use |
| `PacketFlows` | what a queue of packets promises, abstractly |
| `SpcMacQueue` | the queue, the node table and the two `PacketInfo`s; implements `PacketFlows` |
| `MCSpcMacQueue` | the workload of its runs |
| `SpcPhy` | the receiver: PHY, state helper, interference helper, and what the MAC is told |
| `MCSpcPhy` | the module its runs instantiate |
| `SpcMac_proofs` | what each handler of a station keeps: types, the conditions of an idle station, no packet is forgotten |
| `SpcMacExchange_proofs` | the handlers again, in any environment: the promises a station has made, how long each of its waits still takes, the steps of one exchange |
| `SpcMacNode_proofs` | the theorems about a station in its environment |
| `SpcNetwork_proofs` | stations that hear one another: every station of every network behaves so, no packet goes astray; and the codec of the header |
| `FiniteSums` | lemmas on sums over finite sets, for the next two |
| `SpcMacQueue_proofs` | the queue's counter, the table's rows, the refinement of `PacketFlows`, the sizes of frames |
| `SpcPhy_proofs` | the parts of the receiver agree, and the list of power changes is the air |

### How state and actions correspond to the code

A handler that calls another is one step of the simulator, so a handler is an operator from
the record to the record, and a call chain is a composition: `ReceiveAck` ends in
`StartBackoffIfNeeded`, which ends in `BackoffGrantStart`, which may end in `StartBackoff`.
`SpcMacNode` has one action for each event the simulator may run (`Fire...`), and one for
each thing that comes from outside: a packet from the application (`Send`), an answer that
begins to arrive (`Arrive`), another station's frame (`Overheard`), energy that is not
received (`Busy`), and time (`Tick`).

* *Time* is discrete, with a slot as the unit, and relative: `m.end[c]` is the number of units
  from now to the instant the code keeps for cause `c` (`m_lastRxStart + m_lastRxDuration`,
  `m_waitTime`, ...), and `e.due` is the number of units to event `e`. An instant in the past
  saturates at `-Difs`, since the code only asks whether it is a DIFS old.
* *Events* carry their order among those of one instant (`after`), and whether the code's
  `EventId` still refers to them (`cur`): `IsExpired` and `Cancel` see only those. An event
  whose `EventId` was overwritten stays scheduled, as in ns-3.
* *Assertions* end the program (`failed`, then `Abort`), as in the builds of ns-3 that compile
  `NS_ASSERT`.
* *Uninitialised fields* (`m_unicast`, `m_sendState`, `m_tnn`) hold anything.
* *Floating point* decides three things, and each is a free choice: whether superposed
  sending is estimated no slower than two unicasts (`spc`), how many packets may be aggregated
  (`AggregateNums`), and whether a packet is decoded (`ok1`, `ok2`).
* *Other stations* answer as `ReceiveOk` makes them, or not at all; an answer is lost in the
  channel, missed because this station sends or receives, or garbled.

`SpcMacQueue` is a specification of its own: `SpcMac` takes, aggregates and releases packets
there whenever its slots allow, which is more often than `SpcMacNode` does.

* The list is only appended to at its end and never reordered, so it is the *set* of its
  packets, in the order of their numbers; `Cut` is the walk of `SpcMacQueue::Aggregation`.
* Path loss, traffic and bytes of a row are floating-point measures. The decisions ask only
  whether they are zero (`GetWaitTimeForBuffer`) or the -1 of an unknown address, so a row is
  the set of the measures that are not.
* `tnn` is what `m_tnn` holds when `Aggregate` reads it. It is assigned by a backoff with the
  smallest window only; a second chain can superpose a pair for which it was not, which is why
  `Unassigned` matters (an execution of `SpcMacNode` does this).
* `carried`, `gone`, `tnnSet` and `rounds` are history: what the code no longer knows.

`SpcPhy` looks below the MAC, at one receiver among signals that begin at any moment and a MAC
that sends at any moment; `SpcMacNode` has the same handlers as the MAC perceives them.

* `changes` is `m_niChanges`, in its order, each instant relative to now; `air` is what really
  is on air, which the code cannot see and the properties compare with.
* Power is a small integer. The code adds doubles, whose rounding the model does not have.
* `Judged` is the noise by which `CalculatePer` judges each unit of a signal's time; whether that
  noise destroys it is Shannon's bound in floating point, and left out. So `EndReceive` and
  `EndReceive2` are one action: whatever they decode, they change the same state.
* `mac` is the MAC's reception, transmission and busy instants and its own `m_rxing`.
* `missed` is history: signals given up in order to send, and signals that began in the very
  instant a reception ended. The code never looks at their energy again unless another begins.

`SpcMacHeader` has `Serialize`, `Deserialize` and `GetSize` as functions of the frame `SpcMac`
builds. A serialised header is the sequence of the fields written, each a value and not its
bytes, except where bits are shared (the frame control) or lost (the received power). Powers
are in tenths of dBW, so that the cut towards zero of `int dbm = 10.0 * log10 (rssi)` is a cut.

`SpcNetwork` composes `SpcMac`, `SpcMacHeader` and `SpcChannel`. `macs` maps each station to
the record of `SpcMac`; `Does` and `Sends` run a handler of one station and put a copy of what
it sends on its way to every other one.

* The propagation delay is below a slot (the code's is below a microsecond, its slot 9), so a
  copy arrives before time passes, but in any order among the other events of the instant.
* `info` are `packetInfo1` and `packetInfo2`, from which data is made; `owed` is the received
  power bound to a scheduled `SendCtsAfterRts` or `SendCtsSpcAfterRtsSpc` as an argument, in the
  order of scheduling, in which answers of one instant leave;
  `table` is the path loss column of `NodeInformationTable`. `Power` stands for `CalcRxPower`,
  which depends on distances that never change.
* A frame that nothing disturbs at its receiver is decoded, but `MaxLosses` times not; one that
  overlaps with another may be decoded or not. This is what Shannon's bound leaves open.
* The packets all differ, so that a delivery can be told from another; then nothing is
  aggregated, which `SpcMacNode` and `SpcMacQueue` cover.
* `got`, `confirmed`, `agreed` and `disturbed` are history. A failed `NS_ASSERT` ends the run,
  and time can always pass otherwise: that TLC finds no deadlock in `MCNetwork` shows that no
  assertion fails there.
* `m_sendState` and `m_unicast` begin as `FIRST` and false; `SpcMacNode` begins with any.

`Transfer` is the refinement of `PacketTransfer`: a packet is *fresh* until `Send`, *held* in a
slot or queue, *under* way once released but on air; `got` and `confirmed` are the histories.
`MaxCopies` is `ResendDataMax + 2`: superposed once, then once and `ResendDataMax` times more.

Simplifications. Propagation takes no time in `SpcMacNode`'s environment, while the station's
timers allow for `MaxProp`. `SetDuration` cuts the duration in a header to whole microseconds and
asserts that it is at most 0x7fff of them; with a slot as the unit that is not told apart. The
cut takes less than 1 us from a reservation that has 3.3 us of `m_maxPropagationDelay` to spare
(stations of the experiment are less than 1 us apart), and the longest duration, that of an
RTS_SPC, is below 130 us. `SpcMac` answers `GetEnergyDuration` from what a station knows of the
air: the signal that begins, the busy time, and its own reception, one that ends in the same
instant and before `EndReceive` included, for which the code answers 0. It leaves out the rest of a
reception given up for sending, which prolongs the busy time of the next signal in the code;
`SpcPhy` has both cases from the list of changes itself. `SetNav` always overwrites: its comparison is against time zero plus a
duration, and is true after the first hundred microseconds. All signals are above the clear
channel threshold. Packets handed upward change nothing in the MAC; what the node sends in
answer is another `Send`. Every packet of the core carries a UDP port.

Definitions marked *Variant* are slips one could make in the code at that place; a property
is worth its run only if some variant breaks it. PROJECT.json pairs each property with one.

## 3. Runs

The runs of `MCSpcMac` and `MCSpcNetwork` have SIFS 2, DIFS 3 and a propagation delay of 1 in the
timers, in the order the code has them (propagation < SIFS < DIFS): so an answer that comes is
over before its timer is due, as it is in the code, and a timer and the answer do not tie.
Frames take 1 or 2 units; an RTS and data are repeated at most once, and a queue holds 2.

| Run | Bounds | Properties | Shows |
|---|---|---|---|
| `MCExchange` | 3 packets, large, small and broadcast; window 3 to 9 | `TypeOK` `UnicastInitialised` `NoOrphanPacket` `AssertionsHold` `NoLaunchWhileWaiting` | exchanges, retries and overlapping chains keep packets and events together |
| `MCForeign` | 3 large packets, 1 frame or burst of another station; window 1 to 3 | `ExchangeMatchesPackets` `AssertionsHold` `NoLaunchBeforeReply` | timers and packets fit together when others transmit at any moment; a promised answer goes out first |
| `MCRelease` | 4 large packets; window 1 to 3; aggregation of 0 (all) or 1; fair | `ExchangeMatchesPackets` `SuperposedOnce` `HeldIsReleased` | the same with more packets queued behind a superposed pair; a pair is superposed once; every packet taken is in the end released |
| `MCNoFramesLeft` | 3 large packets | `NoFramesLeft`, violated | finding 1 |
| `MCRtsTimer` | 3 large packets | `RtsTimerExpired`, violated | finding 2 |
| `MCCtsSpc` | 3 large packets, 1 foreign CTS_SPC | `CtsSpcAnswersSpc`, violated | finding 3 |
| `MCQueue` | 4 packets of four kinds, a queue of 3, frames of 2 | `TypeOK` `CounterIsLength` `SizeIsSum` `PayloadFits` `RowForHeld` `KeepsFlows` | no packet is lost, doubled or overtaken in its flow; counter, sizes and rows agree with the packets |
| `MCOwnFlow` | the same | `AggregatesOwnFlow`, violated | finding 4 |
| `MCPhy` | 3 signals of power 1, 3 or 5, of 2 to 4 units, 2 transmissions | `TypeOK` `ReceptionAgrees` `ListIsAir` `JudgedByAir` `IdleIsQuiet` `MacAgrees` `BusyWhileEnergy` | the list of changes is the air, receptions are judged by it, and PHY and MAC agree on state and busy time |
| `MCPairHeader` | the same | `PairJudgedByAir`, violated | finding 5 |
| `MCNetwork` | 3 stations in a line, 4 packets, 1 loss; window 1 to 3 | `TypeOK` `NoOrphanPacket` `LearnedPower` `NothingAstray` `NoLaunchOutOfTurn` `KeepsPromises` `BothAgreed` `KeepsDestination` `NoLaunchInExchange` `AnswersReach` | each station launches in its turn, looks after its packets and brings them to nobody else; the network keeps its promises to the applications; an exchange that nothing disturbs is left alone and its answers arrive; a station that waits for a CTS means the station it asked, and learns its power |
| `MCSmallData` | the same stations, 2 packets, no loss | `AckedWasDelivered`, violated | finding 6 |

**Why the bounds are enough.** The first packet to arrive is taken alone, so three packets are
the fewest that fill both slots; a fourth is the fewest that leaves one in the queue to be
aggregated. In `MCExchange` an RTS and a CTS take 1 unit and the wait for
the ACK of unicast data 8 (2 + 1 for the data, 2 + 1 + 2 for the ACK), so that a backoff of up to 9 slots, begun
before the exchange, ends within the wait, at its end or after it.
One repetition exercises both branches of each limit. Destinations `a` and `b` differ, and are
the addressees that superposition needs; `x` is a station that sends to this one. For the
queue, four packets are a pair and one more of either flow, or three that fill it and one that
finds it full. The sizes are scaled: with `m_restrictionPacketNum` 2 and packets of one unit,
`SizeLimit` is 3 instead of 2^16, the smallest that two packets fit and three do not; the
kinds are data for `a` and `b`, ARP (no port) and broadcast. `Unassigned` holds 0, of which
`num - 1` is the largest `uint32_t`, and a number above the restriction. For the receiver, the
thresholds are 4 (reception, strictly above) and 2 (clear channel): 1 is heard only together
with another 1, 3 is heard and not received, 5 is received. Three signals are the fewest of
which one is received, one began before it and one begins during it; two transmissions of the
station can overlap, and each can give up a reception. For the network, the stations are at
-94.4 and -103.2 dBW of each other, all above the threshold of -126 dBW; the values are chosen so
that the cut of the byte shows. The packets of `n0` (one to all, which makes the next two be
taken as a pair, one to each other station) are offered first and that of `n1` at any time, so
that the pair's exchange meets another station's backoff at every point. One loss can hit any
frame of it; two only repeat the same branches and take five times as long.

**Ties.** `tied` records that a frame was launched, or asserted on, in the very instant that a
wait ends, before the event that ends it ran. Finding 2 is such an execution;
`ExchangeMatchesPackets`, `AssertionsHold` and `SuperposedOnce` speak of all the others.
`ExchangeMatchesPackets` is checked with large packets only: with small unicast ones it is
false, which is finding 6 seen from the sender.

`MCNetwork` has no ties: with its window of at most 3, no state of it has a `BackoffTimeout` and a
timeout of an exchange due in the same instant. `KeepsPromises` and `KeepsDestination` are
therefore checked outside ties only; with a window long enough for a tie they are not to be
expected to hold (section 4).

**Exceptions of `NoLaunchInExchange`.** It sets aside exchanges in which a frame was lost or
garbled (`disturbed`), because a station that decodes nothing reserves nothing, and three cases
in which the code does not defer: plain DATA sets no `m_waitTime` (`OwesAck`); a station whose
reception ends in this very instant does not yet know what it received (`Receiving`); and a
frame sent in this very instant may not have arrived yet. No comment says otherwise.

**Fairness.** `FairSpec` assumes that the simulator goes on: time passes when nothing is due,
what is due is run, and what is on air arrives. Nothing is assumed of the channel, which may
lose every answer, or of the application.

### Findings

1. *A stall.* `BackoffTimeout` says "Does not have any frames." and returns with packets in
   the queue and nothing scheduled. `StartBackoffIfNeeded` had returned at once because a grant
   was pending, expecting it to look at the queue; it led to a `BackoffTimeout` that only looks
   at the slots. The packets wait for the next `Enqueue`.
2. *An assertion of `SendRts`.* Two chains; one ends in the instant at which the other's CTS
   timer is due and runs first. It needs that coincidence.
3. *An assertion of `ReceiveOk`.* A CTS_SPC from the current destination to a third station is
   taken for an answer.
4. *Aggregation by a port of the past.* `PacketInfo` keeps its `m_destPort` when a packet
   without a UDP header is described, so that an ARP request held in a slot is aggregated with
   data of the flow the slot held before, where the comment in `StartBackoffIfNeeded` says that
   packets are aggregated by destination and port.
5. *The header of a superposed signal.* Its noise is that of the instant at which the signal
   began; interference that begins during the header is not counted, although the comment in
   `CalculateSnrPer2` says that all changes are accumulated, and for single packets they are.
6. *The acknowledgement nobody expects.* `SendUnicastDataNoAck` starts no timer, releases its
   packet and takes the next; `ReceiveOk` acknowledges every unicast DATA. The ACK then releases
   the packet taken next, which was not sent and counts as acknowledged. The 900-byte packets
   of the experiment are below the threshold.

## 4. Proofs

Eight theorems are about `SpcMacNode!Spec` for every value of the constants that satisfies
`TimeAssumption`, `ValueAssumption`, `NoPacketAssumption`, `NoFrameAssumption` and
`NodeAssumption`: any number of addresses, any positive times, windows, limits, queue size, any
number of packets and of foreign frames. (The times are positive in the code: SIFS is 16 us,
`m_maxPropagationDelay` is computed from a distance, and every frame has a preamble.) The only
assumption on the environment is that no other station sends this one a CTS it did not ask for,
and that is what the theorems about `SpcNetwork`, further below, prove of the other stations.
Every property of `SpcMacNode` that a passing run checks is proved, `HeldIsReleased` excepted.

* `TypeCorrect`: `TypeOK`. Not trivial in two points: the window and both retry counters stay
  within their limits, although every overlapping chain counts and resets them; and no event
  is scheduled in the past, which is what `BackoffGrantStart`'s comparison and
  `BackoffTimeout`'s subtraction are about.
* `UnicastAssigned`: `UnicastInitialised`. The invariant by itself is not inductive. The
  argument is that until `m_unicast` is assigned only the first slot has ever been filled, that
  a station with empty slots has no sender event pending and no CTS on its way, and that any
  handler that could fill the second slot is only reached after one that calls `InitSend` or a
  timeout. `Inv` states this as `Idle` and `Quiet` conditions; lemmas in the module say, handler
  by handler, what each leaves behind.
* `NoPacketForgotten`: `NoOrphanPacket`, from `OrphanInv == Inv /\ Alive(mac)`: every handler
  either leaves the slots empty or a sender event scheduled. Cancelling a timer is the only way
  to lose one, and each handler that cancels schedules.

* `RepliesFirst`: `NoLaunchBeforeReply`. A handler that promises a CTS, a CTS_SPC or the second
  of two ACKs also moves `m_waitTime` past it. The inductive part, `Deferring`, says that every
  such promise is due before `m_waitTime`; it holds because no handler brings `m_waitTime`
  forward, whichever chains overlap. Only `BackoffTimeout` launches, and only when the latest of
  all causes, `m_waitTime` among them, is over. Data inside an exchange is told from data that
  is a launch by its duration, which is not zero. The ACK of plain DATA is no such promise: it
  sets no `m_waitTime`.
* `WaitsFirst`: `NoLaunchWhileWaiting`. `BackoffTimeout` sends when the latest of the instants
  kept for each cause is past, and none of them is kept for the timers. `WaitInv` therefore
  relates the two clocks: each pending wait (a CTS or ACK timer, data a SIFS away, the end of a
  reception) is due no later than an instant `GetSendGrantStart` takes the maximum of
  (`Within`), two waits are of one exchange only (`Apart`), and an answer under way comes when
  its timer still runs (`CtsComing`). A handler that schedules a wait has set the instant in the
  same step; one that shortens an instant (`ReceiveOk` cancelling a timer) has ended the wait.
* `PairedOnce`: `SuperposedOnce`, by `OrderInv`: outside ties only one exchange waits at a time
  (`Alone`), and while a pair that went out superposed is held, either both ACK timers run or
  `m_unicast` is set (`Once`), so that `SetState` cannot choose SPC.
* `AssertionsAreMet`: `AssertionsHold`. On top of `OrderInv` it needs to know that each CTS_SPC
  under way meets the timer it was asked for with, the first when none was counted
  (`CtsOwed`), and that a packet's address is the one kept with it (`Supplied`). Its hypothesis
  `NoForeignCtsSpc` leaves out a CTS_SPC that a destination of this station sends to another:
  that is finding 3, in which an assertion fails.
* `ExchangesMatch`: `ExchangeMatchesPackets`. `MatchInv` says that every wait is about a packet
  that is held (`Fitting`) and every ACK under way meets the timer of its own packet
  (`AckOwed`). `OnlyLarge` leaves out unicast packets that are sent without an RTS, whose
  unexpected acknowledgement is finding 6, and `NoForeignAck` acknowledgements that nobody owes.

The last three speak of executions without ties, as the properties do (`tied`): in a tie,
`RtsTimerExpired` fails (finding 2). Each run that checks one of these properties satisfies the
hypotheses of its theorem.

Six are about `SpcMacQueue!Spec`, for any workload, queue size, restriction, any limit of
sizes and any content of the unassigned `m_tnn`, from `QueueAssumption` and `SizeAssumption`:
every property that `MCQueue` checks.

* `CounterCorrect`: `CounterIsLength`. `m_size` is decremented once per erased packet; that
  the two cuts of one `Aggregate` are disjoint follows from the pair's different destinations
  (`DisjointOK`), and that they lie in the queue makes the difference one of cardinalities.
* `RowsKnown`: `RowForHeld`, with the rows of queued packets as the inductive part (`RowsOK`):
  an address gets its row when its first packet is accepted, before any slot can hold it.
* `FlowsKept`: `Spec => KeepsFlows`. The invariant needed is that numbers are unique across
  queue, slots and released packets and never exceed the count (`NumbersOK`), and the key lemma
  `CutOldest`: what `Cut` leaves of a flow is younger than what it takes.
* `TypeCorrect`: `TypeOK`; `SizesAddUp`: `SizeIsSum`; `PayloadsFit`: `PayloadFits`. All three
  from `Frames`: a cut is disjoint from what its slot carries, so the sum over both is the
  sum of the sums, and it is the same in 16 bits whichever addition is cut; and in the first
  round a slot carries one packet and a cut of at most `num - 1`, no more than the restriction
  allows, each of at most the largest size.

Seven are about `SpcPhy!Spec`, from `PhyAssumption` and `NoneAssumption`, for any powers,
thresholds, durations, signals and transmissions: every property that `MCPhy` checks.

* `ReceptionConsistent`: `ReceptionAgrees`, which with the shapes of the records is inductive by
  itself. The argument turns on `StartSend`: it undoes a reception only if `GetState` answers RX,
  and that a station with `m_rxing` set is never in TX, so that the answer is RX, is part of the
  invariant.
* `ListAlwaysAir`: `ListIsAir`. The list is sorted (`List`), what is still to come only takes
  power away (`Bounded`), and at every instant from now on it sums to the air (`Balanced`, in
  `ListOK`). `AppendEvent` either folds what is over into `m_firstPower` or, during a reception,
  inserts the start too; neither changes the sum up to any instant but by the new signal's power
  while it lasts.
* `AlwaysJudgedByAir`: `JudgedByAir`. While a reception lasts nothing is folded, its own start
  remains the first change, and for each unit of time since then the list still tells what was
  on air (`HearingOK`). `CalculateNoiseInterferenceW` stops at the first change that could be
  the signal's own end; every change before it is of the past or of another signal.
* `AlwaysBusyWhileEnergy`: `BusyWhileEnergy`. `GetEnergyDuration` stops at the first change that
  finds too little. A change of this instant could be such without the air being quiet, if the
  changes of one instant stand in an unlucky order; `EventOK` says that none is while a signal
  is received (`Floor`), and otherwise the changes of the past are folded before it looks.
* `IdleAlwaysQuiet`: `IdleIsQuiet`, and `MacAlwaysAgrees`: `MacAgrees`. The busy instant never
  lies beyond the time the air is at or above the threshold (`BusyOK`), nor, of the signals
  not missed, before it (`QuietOK`). So a new busy instant is never earlier than the one
  before it, and to overwrite, as the MAC does, is the same as to keep the later (`MacOK`).
* `TypeCorrect`: `TypeOK`, from all of these.

The last six share the invariant `Consistent`, whose parts, with instants bounded, TLC finds true of `MCPhy` too. Sums over the list and over the signals on air are
`SumFunctionOnSet` of a function (`Deltas`, `Strength`, and `Sizes` in the queue). `FiniteSums`
proves from its definition, a fold over elements chosen in an unknown order, that it adds up
over disjoint sets and under images, is monotone and bounded: by a smallest counterexample
among the subsets of the set, which needs no operator as a parameter.

Three are about the codec of `SpcMacHeader`, for any addresses and times.

* `WrittenIsRead`: `Deserialize` gives back what `Serialize` was given, and the bytes written are
  those `GetSize` counts, whatever was left in the bit that only an ACK sets.
* `PowerIsNotOverstated`: for every level between -127 and 0 dBW the byte is in range, and what
  is read of it is below the level and at most 1 dB below. Writing adds 126 and reading takes
  away 127; the cut towards zero is what lies between.
* `PowerKeepsOrder`: levels a whole dB apart keep their order.

Five are about `SpcNetwork!Spec`, for any number of stations at any distances, any offers and
any losses, from the assumptions of `SpcMac`, `NetworkAssumption` and
`NoSignalAssumption`: `TypeCorrect` (`TypeOK`), `AlwaysLookedAfter` (`NoOrphanPacket`),
`LaunchesInTurn` (`NoLaunchOutOfTurn`), `NothingGoesAstray` (`NothingAstray`) and, from three
hypotheses of its own, `PowerIsLearned` (`LearnedPower`).

* The invariant `NetInv` says of each station what is proved of the one in `SpcMacNode`
  (`Behaves`): the same lemmas about the handlers serve both. They need to know which CTSs may
  come and when, so that a CTS finds the timer of its RTS running. There is nothing to assume
  here: `CtsIn` collects, from the state of the network, the instants at which a CTS would begin
  to reach a station - an RTS of its own on air or in reception elsewhere, a CTS that is scheduled
  there, a CTS on air.
* `OneMoves` shows that when one station takes a step, every other still behaves: no handler
  schedules or sends a CTS but for an RTS it has received, which was counted already. An RTS that
  begins adds one instant, for which its sender has just started the timer; `TicksMove` brings all
  of them nearer together; `SignalArrives` and `ReceptionMoves` hand an instant from the air to
  a station and from one of its events to the next; a lost or garbled frame takes one away.
* What goes on air is read as it was written (`CopiesAre`, from the lemma behind `WrittenIsRead`).
* The ACK of plain DATA is again no promise (`Promised`): it sets no `m_waitTime`.
* `NothingGoesAstray` adds `PlaceInv`. `NothingAstray` is not inductive: a released packet may
  still be in `packetInfo1`, its destination in `m_currentHdr1`, and a retry or a late CTS may
  send from both. `Labelled` says that the two are of one packet of the station's own, the one
  in the slot if there is one; `Truthful` that what a signal carries goes where its header
  says. The handlers come in one lemma each (`TimeoutsShift`, `BackoffTimeoutShifts`, `DataShifts`,
  `ReplyShifts`, `ReceptionShifts`, `EnqueueShifts`): packets are given up or taken from the head of
  the queue (`Shifts`), and data is addressed from the slot it is made of (`Addressed`).
  It holds with ties and with small packets, and in spite of findings 2, 3 and 6: what a confused
  exchange sends is still sent to the right station.
* `PowerIsLearned` adds `LevelInv`. The power a CTS tells was measured when the RTS was received,
  is kept as an argument of the scheduled answer, sent as a byte, and filed by a handler that
  does not learn whose it is: that of a CTS under `CurrentAddr`, that of a CTS_SPC under its
  sender. So `LevelInv` follows it all the way: what a slot is addressed to, and what an RTS
  asks, is a station that packets are for (`Where`, from `Labelled`); each power owed or on air
  is the level of every station that may use it (`Tells`, `Honest`); and whenever a CTS may come to
  a station from another one (`CtsFrom`: the RTS on air or in reception, the CTS scheduled, on air
  or in reception), that other one is its `CurrentAddr`. `PowerIsNotOverstated` does the rest.
  `CtsIsAwaited` derives from `NetInv` that who may get a CTS has the timer running and not due.
  The hypotheses are these.
  * `OneSource`, no two stations send to the same one. It is needed: a CTS_SPC overheard from a
    common destination (finding 3) brings the power of the other sender. In the experiment only
    node 0 is given destinations (spc-main.cc:196), and in `MCNetwork` it holds; `MCSpcNetwork` has
    TLC evaluate it, and `InRange` with it.
  * `InRange`, the levels lie between -127 and 0 dBW, as in `PowerIsNotOverstated`.
  * `KeepsDestination`, a station that waits for a CTS goes on meaning the station it asked. TLC
    finds it true in `MCNetwork`, and also with two losses, no repetitions of an RTS, a window
    from 0, and in the instance of `MCSmallData`. All of these have windows of at most 3; in
    `MCNetwork` no backoff ends in the instant in which an `AckTimeout` is due, so that the run
    supports it outside ties only. It is not proved: an `AckTimeout` that is due in
    the very instant in which another chain of backoff sends its RTS, or a stray ACK, would take
    another packet during the wait, and to exclude them takes the reasoning about ties that
    `ExchangesMatch` has for one station.

A failed assertion ends a run of `SpcNetwork`, as it ends the program; that one fails in some
networks is finding 3, and in none of `MCNetwork` is what TLC shows.

Nothing is proved of `PacketTransfer`: what it promises, it promises by its guards, and that the
network keeps it is shown by TLC for the instance of `MCNetwork` only (`KeepsPromises`); finding 6
is an instance that does not.

Left to TLC are `HeldIsReleased`, because liveness under fairness is out of the prover's reach,
and of `SpcNetwork` the action properties `KeepsPromises`, `BothAgreed`, `KeepsDestination`,
`NoLaunchInExchange` and `AnswersReach`; every invariant a passing run checks is proved. Three of
the five depend on who sends to whom and who hears whom, and are not to be expected of every
network: a CTS_SPC that answers another station (finding 3) can stand for the one missing in
`BothAgreed`; stations hidden from each other do not hear the reservations that
`NoLaunchInExchange` and `AnswersReach` rely on. `KeepsPromises` and `KeepsDestination` are the
ones to prove, the first for networks in which all packets are large (finding 6) and both outside
ties, as `ExchangesMatch` is: a frame launched in the instant in which an `AckTimeout` is due may
leave a wait for a packet that has been released. That a packet is held, sent and delivered only
after it was handed over, and by its own station, is `NothingGoesAstray`.

## 5. Plan

1. *(done)* `SpcMac`, `SpcMacNode`, their runs, and the theorems above.
2. *(done)* `SpcMacQueue` with `NodeInformationTable` and `PacketInfo`: the counter and the list, the
   aggregation of a flow, 16-bit sizes; refinement of `PacketFlows`.
3. *(done)* `SpcPhy` with `SpcPhyStateHelper` and `SpcInterferenceHelper`: the list of changes
   is the set of signals on air; `GetEnergyDuration` against its definition.
4. *(done)* `SpcMacHeader`: round trip, sizes, the byte of received power.
5. *(done)* `PacketTransfer`, what the applications are promised.
6. *(done)* `SpcNetwork`: stations that run `SpcMac`'s handlers over `SpcChannel`; duplicates after
   a lost ACK, reservations, the path loss learned; refinement of `PacketTransfer`.
7. *(done)* The proofs of `NoLaunchBeforeReply`, `NoLaunchWhileWaiting`, `SuperposedOnce`,
   `AssertionsHold` and `ExchangeMatchesPackets`.
8. *(done)* The proofs about sums: `SizeIsSum` and `PayloadFits` of the queue, the list of power
   changes and the busy times of `SpcPhy`.
9. *(done)* The proof that each station of `SpcNetwork`, among the others, behaves as is proved of
   the station of `SpcMacNode`: types, no packet forgotten, no launch out of turn; and on top of
   it, that nothing goes astray and that the power learned is the power there is.
10. *Left:* a proof of `KeepsDestination`, and that `SpcNetwork` implements `PacketTransfer`, outside
   ties and when all packets are large.
11. *Left:* a network with two stations that each have a pair, whose state space is beyond a run
   of minutes.

## 6. Not modelled

* The floating-point estimates: `CalculateTimeRate`, `CalculatePowerTimeRate` and
  `GetWaitTimeForBuffer` in `SpcMac`, the Shannon bound, SNR and packet error rate in
  `SpcInterferenceHelper`. What they decide is a free choice in the models.
* `SpcPreamble`: it carries rates, powers and lengths to those estimates.
* The checksum of `SpcMacTrailer`, which nothing reads, and the byte layout of the fields.
* `SpcRandomStream`: every draw is a free choice.
* The experiment's `main`: command line, placement of nodes and statistics. (Its `--stream` has
  no effect, since `currentStream = stream = 0` follows the parsing.)
* Logging, traces, attributes, accessors, reference counting and `DoDispose`.
* `SpcNetDevice::SendFrom`, which does nothing; `SpcMacQueue::PushFront`, `SpcMac::MakeSpc` and
  other methods that are declared and never defined; the methods of the queue nobody calls.
* The generated stubs under `helper`, `examples` and `test`.
