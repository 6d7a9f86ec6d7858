# Verification of iShelf

iShelf is a shelf that knows which medicine basket lies in which slot and lights
the slot to fetch from. Two firmwares work together:

* **iShelfController** (STM32F407, Keil RTX): one per shelf, connected to a
  server by TCP and to its slots by CAN;
* **iShelfUnit** (LPC11C24, no operating system): one per slot, with an RFID
  reader and two lights, CAN id `0x100 | dip switch`.

The repository has no tests. Its only document besides comments is the state
chart of a basket, `src/Docs/iShelf Unit State Chart.pdf`. This directory holds
TLA+ models of both firmwares and the bus between them, TLC runs and TLAPS proofs.

Contents: [1 The system](#1-the-system) ·
[2 Modules](#2-modules) · [3 Runs](#3-runs-and-what-they-show) · [4
Bounds](#4-bounds-and-why-they-are-enough) · [5 Fairness](#5-fairness) · [6
Proofs](#6-proofs) · [7 What the code does not
guarantee](#7-what-the-code-does-not-guarantee) · [8 Not modelled](#8-not-modelled) · [9
Plan](#9-plan)

## 1 The system

### Who runs

Controller (threads of equal priority, preempted round-robin, so an interleaving
is possible between any two statements):

| thread | work | code |
|---|---|---|
| main | network stack, `TcpClient::TcpProcessor`: commands of the server are handled here | `main.cpp`, `TcpClient.cpp` |
| UpdateWorker | polls the configuration port and `CanEx::Poll`: heartbeats, broadcasts and responses of the units are handled here | `main.cpp:70` |
| UpdateUnits | after two seconds one `SYNC_DATA` to every listed unit, then `InventoryRfid` every 100 ms | `main.cpp:81` |
| work threads | one per outstanding command to a unit (`CanDevice::WorkThread`), from the RTX task pool | `CanDevice.cpp:26` |
| timer | heartbeat to the server every 10 s | `main.cpp` |
| interrupts | CAN receive and transmit completion, UART | `CAN_STM32F40x.c`, `ConfigComm.cpp` |

Unit: the main loop (`main.cpp:445`), interrupted by the CAN interrupt
(`CanexReceived`, `CanexSyncTrigger`, `CAN_tx`) and a timer interrupt (heartbeats,
broadcast timer, scan timer), both of the same priority.

### Parts, their state, and what makes them correct

| part | state | operations | correct if | hard because |
|---|---|---|---|---|
| command exchange (`CanDevice`, `ShelfUnit::SetIndicator`, unit `CanexReceived`) | `busy`, `SyncTable`, work threads; unit: `responseTriggered`, `LED_CONTROL` | set / clear an indicator, request, response, time out, retry | a command is not dropped by a caller that waited for its turn; no thread takes an answer that is not its own; all ends | no lock; entries keyed by attribute, not by exchange; lost and late frames; a small pool |
| registration (`SyncAllLive`, `HeartbeatArrival`, unit `SYNC_LIVE`) | `unitList`; unit: `Connected`, `Registered` | boot broadcast, heartbeat, confirmation | every unit ends up known and confirmed | one frame that toggles serves for waking and for confirming; restarts; losses |
| card reporting (unit `UpdateRfid`, `ProcessRecievedEvent`, `UpdateUnits`) | unit: `MemBuffer`, `UIDlast`, `lostCount`, `Gotcha`, `ForceSync`; controller: card fields of `ShelfUnit` | scan, broadcast until `GOTCHA`, `SYNC_DATA` | the controller shows what lies on the reader, and the bus falls silent | `GOTCHA` names no broadcast; scans fail; restarts |
| inventory (`NetworkEngine`, `UnitManager`) | card fields and light of every unit, memory of every basket, connection | pass over the units, commands of the server | light and memory follow the state chart; a basket is found where it is | three threads, no lock; connection lost in the middle of a pass |
| CAN entries (`CanEx`, unit `canonchip.c`) | `rxTable`; unit: `tx_count`, `msgSignals`, message objects | cut, send, receive, put together | an entry arrives whole, never mixed with another | counters shared with interrupts; bus errors; full pools |
| host CAN driver (`Driver_CAN.c`, `CAN_STM32F40x.c`, HAL) | `wr_sem`, transmit and receive queue, HAL `State` and interrupt enables, mailboxes | push, pull, completion, errors | reception stays armed, State does not stay busy, the queue empties, frames leave once and in order | a semaphore released by polls; a handle changed by threads and by interrupts |
| server connection (`TcpClient`) | socket, send queue and semaphore, `ack`; parser state, receive buffers | queue, send, abort, reconnect; receive, parse | nobody waits for ever, no socket is lost, commands arrive whole both ways | three threads send and abort; a parser that does not know of connections; dropped pieces |
| configuration (`NetworkConfig`, `FRAM`, `ConfigComm`) | FRAM image, UART ring, parser | boot, set, acknowledge | what was acknowledged survives; nothing unwritten is used; every command is executed | power lost between and inside writes; a ring shared with an interrupt |
| BSON codec (`bson/`, `CommStructures.h`) | none | encode, decode, fill an object of a class | both ends read what the other meant | keys written digit by digit; decoder trusts what comes |
| RFID reader (`iso15693.c`, `trf796x.c`, unit `UpdateRfid`) | `irq_flag`, `i_reg`, `rx_error_flag`, receive buffer, `UID`, `cardData` | inventory, read of one and of many blocks | the entry of a unit is of one tag, and of the tag that lies there | waits on flags that two interrupts set; errors; tags exchanged between requests |

Interaction: server ⇄ `TcpClient` → `NetworkEngine` → `UnitManager` → `ShelfUnit`
→ `CanDevice` → `CanEx` → host driver ⇄ CAN ⇄ `canonchip.c` → unit `main.cpp` →
reader and lights. Answers go up through `CanEx::Poll` in the UpdateWorker thread
into the fields of `ShelfUnit`, which the UpdateUnits thread reads.

## 2 Modules

Each module keeps the names of the source. A shared variable of the code is a variable; a
handler is one action, split where another thread or an interrupt can observe or change
shared state between two of its statements. Counters that only bound the exploration are
marked `bound:` at their CONSTANTS; variables that the code does not have are marked
`history`. Operators headed `a mutated X` (in the first modules `mutant:`) are variants with
a plausible mistake; no specification uses them, each breaks one property of one run.

| module | part | composed with |
|---|---|---|
| `CanCommand` | command exchange, both ends and the bus | – |
| `Registration` | registration, both ends and the bus | – |
| `TagScan` | abstract: what one scan of the reader does to the entry | – |
| `CardSync` | card reporting of one unit, both ends and the bus, restarts | its scans are those of `TagScan`; registration as the steps `Wake`, `Register` |
| `StateChart` | abstract: the document's state chart and the memory | – |
| `Inventory` | inventory pass, commands of the server, card fields, lights | implements `StateChart` |
| `CanLink` | CAN entries from unit to controller | – |
| `HostCan` | CAN driver of the controller: threads, interrupt, chip | – |
| `TcpFlow` | commands to the server: threads, queue, socket, stack | – |
| `Bson` | the codec of the documents that commands carry | – |
| `CommandStream` | commands from the server: pieces, buffers, parser | – |
| `ServerMessages` | what the handler reads in a command and answers | extends `CommandStream`, uses `Bson` |
| `ConfigPort` | boot, FRAM, serial port and its commands | – |
| `TagReader` | the requests of a unit to its RFID reader | – |
| `ReaderScans` | `TagReader` with the history of a scan | extends `TagReader`, implements `TagScan` |
| `*_proofs` | theorems | extend their module; `Unit_proofs` extends `Registration` and `ReaderScans`, `Server_proofs` extends `TcpFlow` and `CommandStream` |
| `MC*` | instances for TLC | extend their module |

**CanCommand.** `Threads` are callers of `ShelfUnit::SetIndicator` ("set") and
`IndicatorOff` ("off"). `pc` walks through them and `CanDevice::WriteAttribute`:
the wait on `IsBusy()` (`spin`), the look-up of `SyncTable` (`check`), thread
creation (`create`), recording it (`record`) and starting it (`start`). A worker
sends, waits for `SYNC_TIME`, retries and gives up after `MaxTries`; erasing its
entry and clearing `busy` are two steps, as in `CanDevice.cpp:84-90`.
`ResponseRecievedEvent` is two steps as well (`FindWaiting`, `SignalWaiting`):
the thread it found may end in between. The unit has one response slot, guarded
by `responseTriggered`, which the main loop resets after it has sent. An answer may be on
its way for any time, longer than `SYNC_TIME` included. `applied` records which calls a unit
has executed. Three histories say where the code loses a race: `overtaken` (threads that
found the unit free and were outrun by another's command), `overlapped` (units with a
command begun while `busy` was up) and `doubtful` (units with a command begun while an
answer to an earlier one was on its way, or with an answer taken through an entry erased
meanwhile); the last two are forgotten when nothing is at work on the unit any more.

**Registration.** One counter per unit and direction stands for frames on their
way, as frames of a kind are alike. `Prompt` says whether a controller that polls
answers a heartbeat before the next one. `cleanBoot` records that the boot
broadcast met only units that were not announcing themselves and that no unit
(re)started after it: the code promises something only then (section 7).

**TagScan** is one scan as one step: no tag, the tag of the last scan, another one read
(plain or coded) or not read. Its parameter `field` is the set of tags it may find.

**CardSync.** A scan is one action, a step of `TagScan` with the tag that is on the reader
in `field` and the result of `UpdateRfid` (`Scan*`); the flags it leads to a second one
(`Commit`), broadcasting a third, clearing `syncTriggered` a fourth: interrupts come in
between. Contents of a tag are its identity and whether block 0 reads "DIHM". The timer
interrupt is `Tick`, the CAN interrupt `CanexSyncTrigger`. The controller side is two
threads with no lock. `rpc` is the polling thread in `ProcessRecievedEvent`: the GOTCHA, the
comparison, and the stores of type, state, id and `cardChanged` are steps. `ipc` is the
inventory thread in its visit of the unit: the wait on `processing`, then in `UpdateCard`
the reset of `cardChanged`, the test of `cardState` and the clearing of the id. `AskData`
passes over a unit that is not listed yet or busy. Three histories record what the code
cannot make good by itself: `crossed` (a GOTCHA may be for older data), `missed` (the unit
has neither been asked nor reported since the controller started) and `idLost` (the
inventory thread cleared the id of an arrival); each is over with the next report that
arrives.

**StateChart.** States Idle 空闲, Bound 绑定 and Fetch 取药 (together "Memory",
with the memory saying which), Unbound 未绑定, Error 错误, Cancel 取消 and
Timeout 超时 of the document; its transitions are the actions. It has no threads,
slots or lights.

**Inventory.** `InventoryRfid` is cut where it touches fields that other threads use (`pc` =
next, decide, arrival, lookup, ask, light, update, clear, left, forget, erase, report);
`ProcessRecievedEvent` of the polling thread is two steps, up to `latest` and from the id on
(`StoreState`, `StoreId`), with `processing` up in between. `UpdateCard` is the reset of
`cardChanged` with the test of `cardState`, and the clearing of the id (`EraseId`). The
merged statements lose nothing: the first half of a store that falls between the reset and
the test could as well come before both, the second half after both. Commands of the server
are one action each, with their loops over units and baskets inside. Everything may happen
at any step of a pass: moves, reports, commands, indicator tests, and a connection that is
lost, comes back, or both between two passes. Three histories record for which baskets and
connections the code may lose a race: `disturbed` (baskets reported or commanded in the
middle of being handled, or claimed again by a unit that gets its next one; all of them
after an indicator test), until they are handled anew; `hurried` (baskets moved on before
their arrival was handled, or back to a unit that has not missed them), until they are
placed again; and `slipped` (the connection came up in the middle of a pass, or between two
that both saw it up), until the next one. The properties are about all other baskets and
connections, and about what these do to them. `ChartState` is the refinement mapping: it
reads the state of a basket from the light of the unit that `FindUnit` returns.

**CanLink.** An entry is its content; a frame names its entry, its kind and its segment.
Broadcasts are cut by `CANTransmit`; `CANSend` is cut into the look at `STAT`, the probing
of message objects, and load and store of `msgSignals |= sync`, since interrupts change
`msgSignals` in between. The chip sends the pending object with the lowest number (`CAN_tx`
with its callback). `Heartbeat` is the timer interrupt, which calls `CANSend` too;
`HeartbeatHangs` is the case that it finds no free object. `CAN_error` resets the chip after
a bus error: the marks and the pending objects are gone, `tx_count` stays. The controller
takes frames from its receive pool one per `Poll` and puts them together in `rxTable`.
`clean` records that nothing went wrong since the link was last at rest.

**HostCan.** Whoever is inside `CAN_push` or `CAN1_Receive` holds the mutex of `CanEx`, so
there is one thread, `pc`, which sends or polls. `hcan` is the HAL handle with the interrupt
enables. `HAL_CAN_Transmit_IT` is cut into the choice of a mailbox (`Select`), the read of
State (`ReadState`) and the store of the new one (`Mark`), load and store of the enables for
errors and then for the transmit mailbox (`ReadIER`, `WriteIER`) and the request
(`Request`); the handler runs between any two, so a store may undo what it did. The five
error enables are set one after the other and never looked at apart; they are one here. The
handler is one action in the order of its code: a completed mailbox, a received frame,
errors. The chip sends requests in their order (TXFP), sets RQCP, receives into a FIFO of
three and goes to warning or bus-off. `alone` records that no send found a frame queued.

**TcpFlow.** Any thread may be inside `SendData` (`semaphore`, `alloc`) and inside
`AbortConnection` (`drain`, `drained`, `abort`, `release`, `null`): each statement
that touches what others touch is a step. Only the main thread runs
`TcpProcessor`, and only in its `net_main` the stack moves (`Opened`,
`Acknowledged`, `Lost`). A segment is the number of its command and its own. It is dropped
if the server has announced a shorter maximum (`DropSegment`). `clean`
records that no two commands overlapped, no segment was dropped and the connection began
with nothing queued, `alone` that no two threads aborted at once.

**CommandStream.** Bytes, since the parser is about bytes. TCP cuts what the
server sends anywhere (`DataEvent`); a piece that finds no buffer is gone
(`DataDropped`). `parser` holds the five static variables of `DataReciever` and is
not touched by a new connection. `NoRoom` is a length that `make_shared` cannot
serve or zero; the parser stops there (`broken`) as what follows is undefined.
`inStep` records that the parser was between two commands when the server last sent
something to a connection with nothing left to read, and that nothing was lost since.

**ServerMessages.** The one or two bytes of a payload after its code stand for a document:
`Meant` is the object the server encodes, `Received` what `Bson` hands the handler, `Answer`
the handler's answer and `AnswerRead` what the server decodes from it, with decimal keys.

**Bson.** Streams of symbols instead of bytes: a name, a number or a length is one
symbol, a length counts symbols. The encoder is `Serialize`, the decoder `Deserialize`
with the types it knows and those it passes over, zeros beyond the end of the stream
(`MemStream`) and the first of two elements of a name (`std::map::insert`).
`InstantiateObject` fills the members of a class from a table. `KeyChar` is the
arithmetic of array keys in `BsonDocument::SerializeSub`; `DecimalKeys` are those of the
format, by which the server writes and compares.

**ConfigPort.** `pc` goes through `FRAM::Init` and `NetworkConfig::Init`, then
through `ConfigComm::DataReceiver` and `CommandArrival`. Fields and values are
names; `mem` is the FRAM, `ram` what the controller runs with. `PowerFails` may hit
between or inside writes: of a write under way a prefix of the fields is done and the
next may be torn. The UART interrupt (`Receive`) comes between any two steps of the
reader; reading the count (`GetRxCount`) and storing the tail (`SetTail`) are two. When the
driver signals the full ring together with another event, the `switch` of the callback
matches neither and reception ends (`ReceiveUnmatched`, `rx_busy`).

**TagReader.** One wait of the main loop on `irq_flag` or `i_reg` is one `pc`; in
between the chip's interrupt and SysTick set them. The interrupt handler is one
action for each status it distinguishes. A byte string is the list of chunks it was
read from, each naming its tag, so a mixture is visible (`Garbage`). `UpdateRfid`
decides on the result of each request. `ChipWaits` says that the main loop has reached
its next wait before the chip has its next event, which is hundreds of microseconds away;
nothing in the code enforces it. `gaveUp` records that a read was given up.

**ReaderScans** adds two histories: the tags in the field since the scan began, and the
entry, `cardData` and the counter as the last scan left them. The refinement mapping shows
the latter to `TagScan`, so that a scan of many requests is seen as its last step.
`CardSync` knows the tag of one moment only, which is enough: to find a tag that has been
taken away since is to scan a little earlier, as in between nothing but a scan writes or
reads what it is about, and a scan may miss a tag that is there (`Fault`).

## 3 Runs and what they show

| run | properties | shows |
|---|---|---|
| `command_answers` | `SetNeverRefused`, `NoFalseAnswer` | two threads set and clear, two units, retries, answers of any delay: a SetIndicator that waited is refused only if another command slipped in or overlapped; a work thread told "answered" was answered for its own command, unless one was begun over another that was not over |
| `command_threads` | `TableSound`, `NoStrandedWorker`, `EveryCallReturns` | two unsynchronised callers, losses, late answers: the table names only live threads, the pool is not leaked, nobody waits for ever |
| `registration` | `NoOrphan`, `KnownIsRegistered`, `ConfirmStops`, `CleanBootFindsAll` | early and late units, losses, restarts of both ends: after a clean boot no unit is mute and unknown, and all are found |
| `card` | `AckedMeansSeen`, `EventuallySeen`, `EventuallyQuiet` | moves, misreads, losses, late acknowledgements, restarts, a unit busy or unknown at the SYNC_DATA pass, stores in the middle of UpdateCard: what a unit believes acknowledged is shown and the controller ends up showing what lies there, but for the three cases of section 7; the bus falls silent |
| `inventory_chart` | `OneLatest`, `RedMeansReported`, `FoundWhereItIs`, `FollowsChart` | two units, two baskets; moves, reports, commands, indicator tests and connections at any step of a pass: no basket has two lit units, a red one was named to the server over this connection, at rest each is found where it lies, every step is a step of the state chart; for baskets and connections that the histories do not except |
| `inventory_find` | `EventuallyFound` | the same with fair threads: baskets that lie still are found where they are in the end, and stay found, unless they were hurried |
| `can_link` | `NothingStale`, `Intact`, `WaitsForLast`, `EventuallyDelivered` | two message objects, a pool of two frames, changes, answers, heartbeats, bus errors, resets of the chip: entries arrive whole; the wait for the last entry is a wait for all of its frames; a broadcasting unit is heard |
| `host_can` | `ReceptionLives`, `BusyMeansPending`, `OnceInOrder`, `MutexFreed`, `QueueDrains` | sender or poller against the interrupt handler, a full queue, an error: reception stays armed, a busy State is left again, the mutex is let go, the queue empties, frames leave once and in order while the queue is empty at each send |
| `tcp_flow` | `NeverBlocks`, `WaitsForNoAck`, `StreamIsWhole`, `NoSocketLost`, `QueueEmpties` | three threads send and abort, the connection, the link or the endpoint changes at any moment: nobody waits for a block, the main thread waits for no acknowledgement, commands that do not overlap arrive whole, no socket is lost, the queue empties |
| `server_messages` | `WholeCommands`, `Understood`, `Recovers` | commands cut anywhere, a connection or a piece lost at any byte: without a loss every command is handled whole, once and in order, even one that contains a header; after a loss the parser finds its place again; the handler reads what the server meant, and an answer of 208 baskets reads, decoded, as what was answered, under distinct keys |
| `config_port` | `AckedSurvives`, `RunsConfigured`, `EveryCommandDone` | two power failures anywhere, two commands through a ring shorter than both: what was acknowledged survives, nothing unwritten is used after a complete first boot, commands are executed in order and all of them while the reader keeps up and reception goes on |
| `tag_reader` | `EntryOfOneTag`, `ScansAreSteps`, `EventuallyKnown` | three moves of tags at any moment of a request, two errors or late answers: the entry reported is of one tag; whatever happens between its requests, a scan does to the entry, `cardData` and the counter what one step of `TagScan` does, for a tag that was there meanwhile; a tag that lies still is known in the end |

No run checks a type invariant: `TypeOK` of `CanCommand`, `Registration`, `HostCan`,
`TcpFlow` and the types of `CardSync`, `ConfigPort` and `CommandStream` are proved (section 6).

Deadlock is checked in `command_*` and `registration`, where the step `Done` or
`Rest` says when stopping is right, and in `host_can`, `config_port` and `tag_reader`,
which poll, wait or scan for ever. The other runs allow it. In `card`, `inventory_*`
and `can_link` the environment is bounded, and a system with nothing to do stops.
`tcp_flow` can stop because the main thread can (section 7), `server_messages` because a
parser that took an impossible length does.

## 4 Bounds and why they are enough

* `command_answers`: 2 units, 2 callers, 2 task slots, 3 calls, 2 tries, 1 frame per
  direction. Two commands of different threads overlap on one unit while a third
  for another unit is outstanding, or the third meets the late answer to a retry. Frames
  are dropped by a full queue or a unit that is answering only; `command_threads` has losses on
  the bus, and the theorems all of it.
* `command_threads`: 1 unit, 2 callers, 2 slots, 3 calls, 1 try. The races are
  between callers on one entry; the third call meets what the first two left. More
  tries only repeat the same step, more units have disjoint entries.
* `registration`: an early and a late unit, 2 restarts of each side, 2 frames of a
  kind: a duplicate toggle needs two frames, a restart after a restart two restarts.
* `card`: a plain and a coded card, any 4 moves, bad scans and restarts; a queue of
  one frame, plus the GOTCHA or SYNC_DATA behind it. `RFID_TIME_COUNT` is 1 instead
  of the value of the code: a forgiven miss and one that is not are what differs. An arrival
  in the middle of UpdateCard's clearing, the shortest way to a lost id, needs three moves.
* `inventory_chart`: 2 units, 2 baskets, any 4 placements, removals, repeated reports, list
  commands, indicator tests and connections; losses of the connection and answers of the
  server are not bounded. A basket can leave a unit, come to the other and come back or be
  replaced there, or the connection come a second time with a basket lit. Symmetry of the
  baskets.
* `inventory_find`: the same with 3 events, as liveness takes longer to check and no
  symmetry. A basket can be placed, taken and placed elsewhere. The theorems cover more
  units, baskets, moves and commands.
* `can_link`: entries of 2 and 3 frames (9 bytes: a plain card; 17: a coded one),
  2 message objects instead of 29 and a pool of 2, so both run full; any 2 events
  (changes, answers, heartbeats, bus errors, resets).
* `host_can`: a transmit queue of 2, a receive queue of 1, 4 frames to send, 1 frame
  that arrives, 1 error. The queue runs full while a frame is in a mailbox; the
  receive queue runs full when the arrival finds it taken. `MaxTokens` is 2, since
  `wr_sem` is released by every idle poll and only zero or more matters.
* `tcp_flow`: 3 threads, 2 sockets (the old and the new one), 2 commands of up to 2
  segments, a queue of 2: shorter than both commands, so a thread waits for room in
  the middle of one. One event of the network or the configuration at any moment.
* `server_messages`: two payloads, a request of 208 baskets, the longest that works,
  and an acknowledgement that contains the bytes of a header; 2 buffers, bursts of 2
  commands, 1 loss. Every cut of the stream is tried. A length is small, too large for
  memory or zero; no payload in between is told apart.
  `Bson!Depth` = 12 bounds the elements of a document by 2^12; a stream of the run has
  fewer symbols.
* `config_port`: a block of 2 fields, 2 commands, 2 outages, a ring of 5 bytes, which
  is less than the two commands, so the ring wraps and can be overrun. Two outages:
  one in the first boot and one in a later write.
* `tag_reader`: 3 tags, 2 of them coded, 3 moves, 2 disturbances, 2 tries instead of
  10, one scan forgiven. The 109 bytes of the long answer are 3 chunks: what differs is
  a first, a middle and a last filling of the FIFO.

## 5 Fairness

* Threads of the controller: weak fairness for each; RTX runs threads of equal
  priority in turn (`RTE/CMSIS/RTX_Conf_CM.c`, round-robin enabled).
* Interrupts and the main loop of a unit: weak fairness; a main loop does not stop,
  interrupts come while enabled. `TagReader` has it for the chip (`Chip`), the timer
  and `UpdateRfid`; `ConfigPort` for boot, power returning, the interrupt and the reader.
* Bus: a frame that is repeated for ever is not lost every time (strong fairness of
  the *successful* delivery: `HeartbeatHeard`, `AnswerHeard`, `BroadcastHeard`,
  `Acknowledged`). A frame that is sent once has no such promise: a work thread
  therefore ends by giving up, and nothing here says that it succeeded.
* `CardSync`: the polling thread (`Receive`) and the inventory thread (`UpdateCard`) are
  fair each by itself; strong fairness of the frames that are repeated, as above: the main
  loop alternates between scanning and broadcasting.
* `Inventory`: the inventory thread and the polling thread in the middle of a store go on;
  strong fairness of the report of a unit whose basket has changed: it is repeated until it
  is heard (`CardSync`) and the polling thread is free again and again. Nothing is assumed
  of the connection or the server.
* `CanLink`: `SF(Broadcast)`, because a unit repeats its broadcast
  until it is acknowledged, and answers to commands come in between.
* `HostCan`: weak fairness of the thread, the handler and the chip; strong fairness of
  `Poll`, as the mutex is free again and again and waiters are served in turn.
* `TcpFlow`: weak fairness of each thread's next step, of `TcpProcessor` and of the
  link coming back; strong fairness of `Opened` and `Acknowledged`: the server answers
  one of the attempts that are repeated for ever.
* `CommandStream`: weak fairness of the main thread, the network, the server and the
  new connection.
* No fairness for people, the operator of the port, losses, restarts and errors.

## 6 Proofs

TLAPS checks these for all values of the constants that satisfy the named
assumptions of the modules. Each proof has one lemma that the invariant holds
initially, one per action (or group of actions) that it is kept, and a temporal step.

**CanCommand**: `TypeCorrect`, `TableIsSound`, `NobodyStranded` hold for any number of
units, callers and slots. `TableSound` is not inductive: a thread could be recorded after it
had ended. The invariant `IInv` adds who *owns* a created thread: exactly one caller between
`create` and `start` owns a thread in `init` (`OwnerOK`, `OwnerUnique`), so what is recorded
is alive and only its owner can start it. `SetIsNeverRefused` (`SetNeverRefused`) and
`AnswersAreTrue` (`NoFalseAnswer`) hold for any number of callers that set and clear,
retries, losses and delays, with no assumption on who calls or how fast a unit is.
`OneAtATime` says that a unit that is not `overlapped` has one command at a time and `busy`
up as long as it lasts, and `WaitIsOver` that a caller past its wait then finds no live
thread unless it was `overtaken`. A response names only the attribute, so what makes an
answer true is that nothing else can be meant: `ToldTheTruth` says, of a unit that is
neither `overlapped` nor `doubtful`, that whatever is on its way from it belongs to the
command whose thread waits, which the unit has executed.

**Registration** (in `Unit_proofs`): `TypeCorrect`, for every kind of loss; `NobodyOrphaned`,
`KnownRegistered`, `ConfirmationStops`, under
`Assumed == Prompt /\ "boot" \notin LossyFrames`. `NoOrphan` speaks of units with
nothing on its way; the invariant `Handshake` says what is on its way otherwise: an
unknown unit is silent with the boot frame on its way, or announces itself with at
most one heartbeat waiting (`Announcing`); a known one is at rest, or not confirmed
with exactly one frame on its way (`Confirming`).

**CardSync**: `AcknowledgedIsShown` (`AckedMeansSeen`), for any cards, scans, moves, losses,
delays, restarts and interleavings of the two threads of the controller, without
assumptions. A GOTCHA names no broadcast, and the flags of the unit are set and cleared by
interrupts between scans. The invariant says what every frame on its way means: unless a
scan has just found something the main loop has not yet taken up (`Fresh`) or an
acknowledgement is for older data (`crossed`), a broadcast on its way holds what `MemBuffer`
holds (`Sent`) and an acknowledgement on its way is for it (`Acked`); one that has come is
too, unless the controller has restarted and the SYNC_DATA that makes the unit report again
is still to come or passed it over (`Believed`). `View` says what the fields of the
ShelfUnit are at each step of the two threads that store and clear them.

**Inventory**: `OneUnitPerBasket` (`OneLatest`), `RedIsReported` (`RedMeansReported`),
`BasketsAreFound` (`FoundWhereItIs`) and the refinement `ChartIsFollowed` (`FollowsChart`),
for any number of units, baskets, moves, commands and connections and every interleaving of
the three threads; nothing is assumed beyond the types of the constants. What the threads do
to each other in the middle of a unit is in the invariants. `CardInv`: the fields of a unit
agree with what it reported last (`Agreed`); the unit being handled is as it was when the
pass looked at it, or the baskets concerned are `disturbed` (`Stage`); a unit that is being
stored claims its former basket meanwhile only if that one is disturbed (`Storing`); no two
units claim a basket that is not (`Single`), and what has left is cleared (`Cleared`). For
the red lights, `Asked`, `Named` and `Passed` say which baskets were named by the step at
hand, before, and so far in the pass after a reconnect, unless it `slipped`. For finding,
`Pending` says that no other unit is going to be the latest with a basket that was not
`hurried`, and `Kept` that its own unit is once it has reported it. For the refinement,
`Bright` says that the light looked up for a basket is still that of its memory when it is
lit. Then every step is a step of the chart: one that only lets units stop showing baskets
is a `Remove` (`Removal`), the end of handling an arrival is a `Place`, a command of the
server its namesake. `MemoryIsShown` then carries the rule of the chart (`MemoryRules`,
`RulesNext`) over to the controller: a basket it shows is in the state its memory names
exactly if it is remembered.

**CanLink**: `NothingIsStale` (`NothingStale`), `LastIsWaitedFor` (`WaitsForLast`) and
`EntriesAreWhole` (`Intact`), for any contents, message objects, pool, heartbeats and
losses. While `clean` holds (`Sound`): `tx_count` is the number of frames pending and still
to be put into objects (`Counted`), so that a unit that has seen it at zero has nothing
pending; a pending object is marked as used, even in the copy of the marks about to be
stored (`Marked`), so no object is taken twice. The chip sends its lowest object first and
so may exchange segments, but no frame is in or can get into an object below a first frame
(`FirstAhead`), and with a first frame go the segments of its entry and nothing else
(`Follow`). `Arriving` is what the reassembly needs: each segment that the unfinished entry
misses is in the pool with only segments of that entry before it, or comes when there is
nothing else in the pool; and the same behind each first frame in the pool. So an entry is
finished before the next first frame is polled.

**HostCan**: `DriverTypes`, `ReceptionStaysArmed` (`ReceptionLives`), `BusyEnds`
(`BusyMeansPending`) and `FramesKeepOrder` (`OnceInOrder`), for queues and token counts of
any size. The first properties hold between steps only because of what a sender in the
middle of `HAL_CAN_Transmit_IT` has done so far: `Inside` says, for each point of it, which
mailbox is reserved and which interrupts can come, and `ErrorsAreRequests` that the handler
is never entered for an error nobody signalled; a loaded copy of the enables that is about
to be stored undoes none of it. The handler is the hard case: it may run
between any two of those points. For the order (`OrderInv`), as long as no send found
frames in the queue, at most one frame is queued or in the hand of a sender, and it is
younger than all on the wire and in the mailboxes (`InHand`, `InQueue`); the chip
sends the mailboxes in the order of the requests (`InFlight`).

**TcpFlow** (in `Server_proofs`): `TypeCorrect`, `NobodyBlocks`, `SocketsAreKnown`,
`NoWaitForAck` and `WholeCommandsSent` (`StreamIsWhole`), for any threads, sockets and
capacity. The invariant `Accounts` counts: tokens of the semaphore, queued segments and
threads between taking a token and queueing (or between taking a segment and releasing) add
up to the capacity, so that a thread with a token finds a block. `Owned` says who refers to
a socket that is not free, `Outstanding` that a missing acknowledgement belongs to a socket
that lives or is about to be reported lost. `StreamInv` follows the segments through the
client: while commands do not overlap, what the connection has carried, the segment in the
hand of the main thread and the queue continue each other (`Linked`), and the one thread
that is in SendData continues the last of them (`Continues`).

**ConfigPort**: `AcknowledgedSurvives`, `NeverUnconfigured`, for any block, values,
ring and number of outages. The difficulty is that the reader executes what it finds
in the ring: `Behind` says where, in the first round of the ring, head and tail are,
so that the bytes between are those of commands the operator sent; `Written1` what a
write under way has done; `Acknowledged` and `Configured` carry the two
properties through an outage.

**TagReader** (in `Unit_proofs`): `EntriesAreOfOneTag` (`EntryOfOneTag`), for any tags,
moves, errors and tries, under `ChipWaits`. The entry is put together by up to three
requests, each of which ends up in the same `buf`, and `irq_flag` and `i_reg` do not say
which event they stand for. `InStep` says how far the chip can be at each wait, and `NotYet`
that no earlier event looks like the end of the answer, so that a wait ends for its own
event only. Then an answer under way is that of one tag that the request is for
(`Answering`), `buf` holds as much of it as has come (`Collected`), and what is decoded is
whole and, after the inventory, from the tag with `UID` (`Decodable`). `Reading` says what
the entry owes to each request while the others are still to come: between two reads it
may mix tags, with `gaveUp` set, and only the last read clears that.

**ReaderScans** (in `Unit_proofs`): `ScansAreSingleSteps` (`ScansAreSteps`: the requests
implement `TagScan`), under `ChipWaits`. `ScanInv` adds to `ReaderInv` what a scan has found
so far: every chunk since `rxtx_state` was set came from a tag in the field (`Gathered`),
so `UID` is one of those and not the one before; until another tag is found the entry is the
one the last scan left; then the only thing that can have changed `cardData` is block 0 of
`UID` (`Since`), which makes a read that was given up the same as one the previous tag
decided. The step that ends a scan is a step of `TagScan`, and every other one is unseen
(`ScanImplements`). With the argument of section 2 about the moment of a scan, what is
proved of `CardSync` stands on the requests to the chip.

**CommandStream** (in `Server_proofs`): `CommandsAreWhole` (`WholeCommands`), for any
commands of up to 255 bytes, pieces, buffers and losses. Nothing in the parser says where in
the stream of the server it is, and the stream is spread over the piece at hand, the mail and
the wire. The invariant `ReceiverInv` says that while the parser is in step there is a stream
`str` which is the commands laid end to end (`Laid`); the places where the pieces begin and
end cut it (`Cuts`), whatever these are; and the `n` bytes read so far are the commands
handled and a part of the next that the parser's five variables agree with (`Reached`, `At`).
Reading the byte after them goes on with that command (`ParserGoesOn`) or ends it
(`ParserEnds`), also when it is a byte of a header, since `At` fixes the state that reads it.
A loss ends the claim, and the first command sent with nothing left to read begins a new
stream. The sum at the end of a command is a recursive function over its bytes: that there is
such a function for every command (`SumsExist`) and what it is (`SumsAdd`) is proved by
`Induction`, over sets of numbers, from the well-foundedness of `<`. `ReceiverTypes` holds
the types.

Only model-checked: all liveness (the prover does not reach fairness), and `Understood` of
`ServerMessages`, for the decoder of `Bson` is made of recursive operators, which the prover
does not take.

## 7 What the code does not guarantee

Some properties hold only while something does not happen. Each such condition is
a constant or a history variable; here is what breaks without it.

* `overlapped` and `overtaken` in `CanCommand`: without them `SetNeverRefused` fails. "Wait for
  last command completed" (`ShelfUnit.cpp:49`) is a wait for `busy`, which belongs to no
  command in particular, and IndicatorOff does not wait (`ShelfUnit.cpp:70`). If one starts
  its write between the last two steps of a work thread (`CanDevice.cpp:84-90`), that thread
  clears the `busy` that the new write has set; the next SetIndicator finds the entry of the
  write and is dropped. Two that wait for the same command both go on when it is over, and one
  is dropped. An IndicatorOff issued while a write is outstanding is dropped, though
  `ledState` is cleared. This needs no fault, only the two threads that every controller has.
* `doubtful` in `CanCommand`: without it `NoFalseAnswer` fails. A response names the attribute,
  not the exchange (`CanDevice.cpp:143`): one that comes after its command timed out is
  taken for the answer to the next. And the entry found may be erased before the thread in it
  is signalled (`:147`).
* `cleanBoot` in `Registration`: "Start to find unit devices" (`main.cpp:135`) sends a
  SYNC_LIVE that *toggles* `Connected` of a unit (unit `main.cpp:333`). A controller
  that restarts while a unit announces itself turns it mute, and does not list it.
* `Prompt = FALSE` in `Registration`: a second heartbeat before the answer brings a
  second SYNC_LIVE, which wakes the confirmed unit again.
* `crossed` in `CardSync`: without it `AckedMeansSeen` fails. A GOTCHA for the previous
  broadcast acknowledges the new one (unit `main.cpp:327`).
* `missed` in `CardSync`: without it `AckedMeansSeen` and `EventuallySeen` fail. The
  SYNC_DATA pass, "Prevent missing status" (`main.cpp:81`), goes once, two seconds after the
  start, to the units that are listed and not busy with a command (`main.cpp:88`); another
  one that reported its card to the controller before the restart does not report it again.
* `idLost` in `CardSync`: without it both fail. `UpdateCard` tests `cardState` and clears the id
  with no lock (`ShelfUnit.cpp:22-24`); an arrival stored and acknowledged in between loses its
  id. WaitProcessing has been passed by then.
* `disturbed` in `Inventory`, for a report in the middle of handling: without it `OneLatest`
  fails. `UpdateCard` clears `cardChanged` for a broadcast that arrived after the id was copied
  (`ShelfUnit.cpp:21`), and a unit that gets its next basket claims the former one until the id
  is stored (`:92-97`).
* `disturbed`, for a command: without it `FollowsChart` fails. The request is sent before
  the light is set (`NetworkEngine.cpp:66`); if the network thread handles the answer in
  between, a bound basket ends up red (`UnitManager.cpp:101`). A command between the look-up
  of the memory and SetIndicator leaves the light of the old memory
  (`NetworkEngine.cpp:60-67`).
* `disturbed`, after an indicator test (`NetworkEngine.cpp:256`): the lights are those of
  the test until a basket is handled again.
* `hurried` in `Inventory`: without it `FoundWhereItIs` fails. A basket that goes from one unit
  to another faster than the pass comes round is seen at both, and `UpdateLatest` trusts the
  order in which the pass meets them (`UnitManager.cpp:14`, `NetworkEngine.cpp:58`). A basket
  that comes back to a unit that has not noticed it was gone is not reported, and `latest`
  stays false (`UnitManager.cpp:16`). The id of an arrival may be cleared as in `CardSync`.
* `slipped` in `Inventory`: without it `RedMeansReported` fails. `needReport` is cleared at the
  end of a pass that began before the reconnect (`NetworkEngine.cpp:89`); and a connection that
  is lost and comes back in the 100 ms between two passes is noticed by neither
  (`:40-41`, `TcpClient.cpp:293-299`). Red baskets then wait for a server that was not told.
  The light of a slot whose basket left during a race may stay on; no property covers it.
* `clean` in `CanLink`. A frame dropped in `CANSend` after a bus error was counted:
  `tx_count` never comes down and the next `CANTransmit` waits for ever (`canonchip.c:254`,
  `:336`). `CAN_error` (`:190`) resets the chip and `msgSignals` but not `tx_count`, so
  frames pending then have the same effect. A heartbeat was not counted but lowers
  `tx_count`: the wait "for last entry transmitted" ends while a frame of it is pending, and
  as the chip sends the lowest object first, the controller may put one entry together from
  two (`canonchip.c:184`, `:335`). A lost segment leaves an unfinished entry, which the next
  first frame does not replace (`CanEx.cpp:187-191`). A heartbeat that finds all objects
  taken hangs the unit. The unprotected `msgSignals |= sync` needs no condition: `can_link`
  includes it. It can leave a finished object marked as used, but the object being filled is
  freed by its own completion, so at least one always stays usable.
* `alone` in `HostCan`: with frames queued, `CAN_push` takes the oldest off the queue
  and transmits its own instead (`Driver_CAN.c:194`): one frame is lost, another
  overtakes. A polled frame that finds State busy is lost too. `wr_sem` is released
  by each idle poll (`CAN_STM32F40x.c:780`) and after a while limits nothing. While the bus
  is off `CAN_hw_wr` waits with the mutex held (`:353`) until it is back.
* `clean` in `TcpFlow`: segments of two commands that overlap interleave on the queue
  (`TcpClient.cpp:360`), and segments left from an aborted connection may open the next one.
  A thread that still empties the queue in AbortConnection while the next connection opens
  takes segments of a command of that one (`:337`); `NobodySends` counts it in. A segment
  longer than the server takes is dropped without a word (`:230`), the rest of its command
  is not.
* `alone` in `TcpFlow`: two threads that abort at once lose a socket; its later events
  set `ack` for the one that replaced it (`TcpClient.cpp:332`).
* `Stranded` in `TcpFlow`: if another thread aborts, or the endpoint is changed, while
  the main thread is in `TxProcessor`, the wait for `tcp_check_send`
  (`TcpClient.cpp:235`) never ends: only this thread could make the stack move.
* `broken` in `CommandStream`: the parser does not know of connections. One
  lost within the four bytes of a length makes the next header the rest of the length:
  `make_shared` is asked for megabytes. A length of zero writes outside its buffer. A
  piece that finds both receive buffers taken is dropped after the stack has
  acknowledged it, so the server never repeats it (`TcpClient.cpp:168`).
* Answers of 209 elements and more: an array key contains a NUL character
  (`BsonDocument.cpp:75` has no `% 10`), so the rest of the document is misread.
* What the server sends in documents is trusted: a member it leaves out, or sends as
  another type, is not set, and the numbers of `CommStructures.h` have no initial value
  (`:65`, `:78`); in an object a null element would be followed (`BsonDocument.cpp:187`).
  In the model such a number is `Garbage`.
* `cut` in `ConfigPort`: the identifier is written before the default values
  (`FRAM.cpp:84`). Power lost in between leaves an image that passes for valid
  with fields never written, or torn.
* `inStep` in `ConfigPort`: an operator who is a whole ring ahead of the reader loses
  commands; the ring has no check for being full (`ConfigComm.cpp:33`). The callback compares
  the event for equality (`:15`): if the driver signals two at once when the ring is full,
  reception is not started again until the next boot.
* `ChipWaits = FALSE` in `TagReader`: `EntryOfOneTag` fails. If the chip goes on before the
  main loop has reached its next wait, the event is taken for that of another wait.
* `gaveUp` in `TagReader`: one CRC error sets `rx_error_flag`, which no retry clears
  (`trf796x.c:388`): all ten tries fail, and `cardData` still holds block 0 of the
  previous tag. The entry then has the new UID with the *previous* tag's prescription
  (unit `main.cpp:177`, `:190`), and since `UIDlast` is that UID, it is not read again
  until the tag is removed. The model also relies on two things about time: the FIFO
  status read after nine bytes is not empty while the answer goes on (`trf796x.c:367`), and
  an answer is over before the wait loop's limit of 0xFFF0.

## 8 Not modelled

* **Host CAN driver**: `CAN_set`, clock, pin and filter set-up, and the HAL functions
  that nothing calls.
* **BSON**: GUIDs, members that are objects and the conversion of doubles to floats,
  which no class has, a null from the server; the bytes of numbers and lengths.
* **Reader**: the anticollision of sixteen slots (`FindTag` asks for one slot),
  the ISO 14443 readers, which the main loop does not call, the registers of the SSP.
* **ReadAttribute, RequestRawData**: nothing in `src/` calls them.
* **Entries of several frames from the controller to a unit**: nothing sends one.
* **Commands of 256 bytes and more from the server**: one length stands for all of them, as one
  that `make_shared` cannot serve. The code takes them as far as its heap reaches, so
  `Recovers` says less about them than it could.
* **Strings in the middle of a change**: `cardId` and `presId` are `std::string`, assigned
  and read by two threads with no lock. The modules take an assignment as one step, and
  `presId` with `cardId`.
* **An endpoint changed while `tcp_connect` takes its arguments.**
* **Lights, proximity sensor, debug output, clocks**: registers only, no state that
  another part depends on.
* **Ethernet PHY, RTX, HAL outside its CAN functions, delegates, ISRs' start-up code**:
  vendored.
* The data race on the `std::map` of units (inserted into by one thread, iterated
  by others) is below the level of the modules: `Inventory` takes the list as fixed.

## 9 Plan

Order by what the shelf is for: commands and registration first, then cards and
inventory, then the transports. All eleven steps are done.

1. `CanCommand`, its proofs. 2. `Registration`, its proofs. 3. `CardSync`, its proof.
4. `StateChart`, 5. `Inventory`, its proofs, as its implementation. 6. `CanLink`, its proofs.
7. `HostCan`, its proofs. 8. `TcpFlow`, `CommandStream`, their proofs, `Bson`, `ServerMessages`.
9. `ConfigPort`, its proofs. 10. `TagReader`, its proof.
11. `TagScan`, `ReaderScans` as its implementation, their proof.

Open: `CanLink` as the implementation of the frames that the other modules take as one
message each.
