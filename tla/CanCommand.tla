----------------------------- MODULE CanCommand -----------------------------
(***************************************************************************)
(* Indicator commands from the controller to the shelf units: ShelfUnit's  *)
(* SetIndicator / IndicatorOff, CanDevice's WriteAttribute, its work       *)
(* threads and its ResponseRecievedEvent on the controller; CanexReceived  *)
(* and the response slot of the main loop on the unit; the CAN bus between *)
(* them, which may lose a frame.                                           *)
(*                                                                         *)
(* Every write creates a thread that sends the request, waits for the      *)
(* response and retries.  SyncTable maps a device (there is one attribute, *)
(* the indicator) to the thread that waits for its response; `busy' tells  *)
(* SetIndicator when the last command is over.  No lock protects either.   *)
(***************************************************************************)
EXTENDS Naturals, Sequences

CONSTANTS
  Devices,     \* shelf units
  Threads,     \* controller threads that write indicators (TCP, inventory)
  Workers,     \* the RTX task slots left for work threads
  Values,      \* indicator bytes
  Dark,        \* the indicator byte 0
  None,        \* no thread / no frame
  MaxTries,    \* requests a work thread sends before it gives up
  Lossy,       \* may the bus lose a frame?
  MaxCalls,    \* bound: indicator calls of a behaviour
  QueueCap     \* bound: frames queued in one direction for one unit

ASSUME CommandAssumption ==
  /\ Dark \in Values
  /\ None \notin Workers /\ None \notin Devices /\ None \notin Values
  /\ MaxTries \in Nat \ {0}
  /\ Lossy \in BOOLEAN
  /\ MaxCalls \in Nat /\ QueueCap \in Nat \ {0}

VARIABLES
  pc,          \* where each controller thread is in SetIndicator/IndicatorOff
  call,        \* the call it makes: device, value, kind, created thread, number
  calls,       \* number of calls so far; numbers them
  led,         \* ShelfUnit::ledState: what the controller believes is shown
  busy,        \* CanDevice::busy
  SyncTable,   \* device -> work thread waiting for its response, or None
  wpc,         \* where each work thread is
  job,         \* the command of each work thread
  tries,       \* WorkThread's tryCount
  flag,        \* signal 0xff pending for the work thread
  requests,    \* frames travelling to each unit
  responses,   \* frames travelling from each unit, in the receive mail queue
  rx,          \* the table entry ResponseRecievedEvent has found, or None
  control,     \* LED_CONTROL of each unit
  triggered,   \* responseTriggered of each unit
  sending,     \* the unit's main loop is between CANEXResponse and the reset
  applied,     \* history: the calls whose request some unit has executed
  overtaken,   \* history: threads whose wait another's command has outrun
  overlapped,  \* history: units with a command begun while one was busy
  doubtful     \* history: units whose answers may be those of other commands

hostVars == <<pc, call, calls, led, busy, SyncTable>>
workVars == <<wpc, job, tries, flag>>
unitVars == <<control, triggered, sending, applied>>
history == <<overtaken, overlapped, doubtful>>
vars == <<hostVars, workVars, requests, responses, rx, unitVars, history>>

Calls == [dev: Devices, val: Values, kind: {"set", "off"},
          tid: Workers \cup {None}, num: 1..MaxCalls]
Jobs == [dev: Devices, val: Values, num: 1..MaxCalls]

Idle == "idle"

Init ==
  /\ pc = [t \in Threads |-> Idle]
  /\ call = [t \in Threads |-> None]
  /\ calls = 0
  /\ led = [d \in Devices |-> Dark]
  /\ busy = [d \in Devices |-> FALSE]
  /\ SyncTable = [d \in Devices |-> None]
  /\ wpc = [w \in Workers |-> "free"]
  /\ job = [w \in Workers |-> None]
  /\ tries = [w \in Workers |-> 0]
  /\ flag = [w \in Workers |-> FALSE]
  /\ requests = [d \in Devices |-> <<>>]
  /\ responses = [d \in Devices |-> <<>>]
  /\ rx = None
  /\ control = [d \in Devices |-> Dark]
  /\ triggered = [d \in Devices |-> FALSE]
  /\ sending = [d \in Devices |-> FALSE]
  /\ applied = {}
  /\ overtaken = {} /\ overlapped = {} /\ doubtful = {}

-----------------------------------------------------------------------------
(* The controller threads.                                                 *)

Goto(t, l) == pc' = [pc EXCEPT ![t] = l]

BeginCall(t, d, v, k, l) ==
  /\ pc[t] = Idle
  /\ calls < MaxCalls
  /\ calls' = calls + 1
  /\ call' = [call EXCEPT ![t] =
       [dev |-> d, val |-> v, kind |-> k, tid |-> None, num |-> calls + 1]]
  /\ led' = [led EXCEPT ![d] = v]
  /\ Goto(t, l)
  /\ UNCHANGED <<busy, SyncTable, workVars, requests, responses, rx, unitVars, history>>

SetIndicator(t, d, v) == BeginCall(t, d, v, "set", "spin")

IndicatorOff(t, d) == BeginCall(t, d, Dark, "off", "check")

\* mutant: the wait on IsBusy() is missing
LastCompletedNoWait(t) ==
  /\ pc[t] = "spin"
  /\ Goto(t, "check")
  /\ UNCHANGED <<call, calls, led, busy, SyncTable, workVars, requests,
                 responses, rx, unitVars, history>>

\* SetIndicator's loop on IsBusy() ends
LastCompleted(t) ==
  /\ pc[t] = "spin"
  /\ ~busy[call[t].dev]
  /\ Goto(t, "check")
  /\ UNCHANGED <<call, calls, led, busy, SyncTable, workVars, requests,
                 responses, rx, unitVars, history>>

\* WriteAttribute finds a command outstanding and returns without writing
Refuse(t) ==
  /\ pc[t] = "check"
  /\ SyncTable[call[t].dev] # None
  /\ Goto(t, Idle)
  /\ call' = [call EXCEPT ![t] = None]
  /\ overtaken' = overtaken \ {t}
  /\ UNCHANGED <<calls, led, busy, SyncTable, workVars, requests, responses, rx,
                 unitVars, overlapped, doubtful>>

\* something of an exchange with d is still on its way
InFlight(d) ==
  \/ requests[d] # <<>>
  \/ responses[d] # <<>>
  \/ triggered[d] /\ ~sending[d]
  \/ rx # None /\ rx.dev = d

\* History: a command of t goes on to d.  Other threads that have found d free are
\* overtaken; the command overlaps one that is busy, and may meet an earlier answer.
Begins(t, d) ==
  /\ overtaken' = (overtaken \ {t}) \cup
       {u \in Threads \ {t} : pc[u] = "check" /\ call[u].dev = d}
  /\ overlapped' = overlapped \cup {e \in {d} : busy[e]}
  /\ doubtful' = doubtful \cup {e \in {d} : InFlight(e)}

Claim(t) ==
  /\ pc[t] = "check"
  /\ SyncTable[call[t].dev] = None
  /\ busy' = [busy EXCEPT ![call[t].dev] = TRUE]
  /\ Begins(t, call[t].dev)
  /\ Goto(t, "create")
  /\ UNCHANGED <<call, calls, led, SyncTable, workVars, requests, responses,
                 rx, unitVars>>

\* osThreadCreate; while no task slot is free the loop with osDelay(100) waits
Create(t) ==
  /\ pc[t] = "create"
  /\ \E w \in Workers :
       /\ wpc[w] = "free"
       /\ wpc' = [wpc EXCEPT ![w] = "init"]
       /\ job' = [job EXCEPT ![w] = [dev |-> call[t].dev, val |-> call[t].val,
                                     num |-> call[t].num]]
       /\ tries' = [tries EXCEPT ![w] = MaxTries]
       /\ flag' = [flag EXCEPT ![w] = FALSE]
       /\ call' = [call EXCEPT ![t].tid = w]
  /\ Goto(t, "record")
  /\ UNCHANGED <<calls, led, busy, SyncTable, requests, responses, rx, unitVars, history>>

\* mutant: the thread is recorded but never started
RecordWithoutStart(t) ==
  /\ pc[t] = "record"
  /\ SyncTable' = [SyncTable EXCEPT ![call[t].dev] = call[t].tid]
  /\ call' = [call EXCEPT ![t] = None]
  /\ Goto(t, Idle)
  /\ UNCHANGED <<calls, led, busy, workVars, requests, responses, rx, unitVars, history>>

Record(t) ==
  /\ pc[t] = "record"
  /\ SyncTable' = [SyncTable EXCEPT ![call[t].dev] = call[t].tid]
  /\ Goto(t, "start")
  /\ UNCHANGED <<call, calls, led, busy, workVars, requests, responses, rx,
                 unitVars, history>>

\* osSignalSet(tid, 0x100)
Start(t) ==
  /\ pc[t] = "start"
  /\ wpc' = [wpc EXCEPT ![call[t].tid] = "request"]
  /\ call' = [call EXCEPT ![t] = None]
  /\ Goto(t, Idle)
  /\ UNCHANGED <<calls, led, busy, SyncTable, job, tries, flag, requests,
                 responses, rx, unitVars, history>>

-----------------------------------------------------------------------------
(* The bus.  A full queue drops the frame, and so may a lossy bus.         *)

Send(queue, d, m) ==
  \/ /\ Len(queue[d]) < QueueCap
     /\ queue' = [queue EXCEPT ![d] = Append(@, m)]
  \/ /\ Lossy \/ Len(queue[d]) >= QueueCap
     /\ queue' = queue

-----------------------------------------------------------------------------
(* The work threads.                                                       *)

Request(w) ==
  /\ wpc[w] = "request"
  /\ wpc' = [wpc EXCEPT ![w] = "await"]
  /\ Send(requests, job[w].dev, job[w])
  /\ UNCHANGED <<hostVars, job, tries, flag, responses, rx, unitVars, history>>

\* osSignalWait returns osEventSignal
Answered(w) ==
  /\ wpc[w] = "await"
  /\ flag[w]
  /\ flag' = [flag EXCEPT ![w] = FALSE]
  /\ tries' = [tries EXCEPT ![w] = @ - 1]
  /\ wpc' = [wpc EXCEPT ![w] = "erase"]
  /\ UNCHANGED <<hostVars, job, requests, responses, rx, unitVars, history>>

\* mutant: the loop does not look at tryCount
TimedOutForever(w) ==
  /\ wpc[w] = "await"
  /\ ~flag[w]
  /\ wpc' = [wpc EXCEPT ![w] = "request"]
  /\ UNCHANGED <<hostVars, job, tries, flag, requests, responses, rx, unitVars, history>>

\* SYNC_TIME passes, whether an answer is on its way or not; tryCount requests
\* are sent in all
TimedOut(w) ==
  /\ wpc[w] = "await"
  /\ ~flag[w]
  /\ tries' = [tries EXCEPT ![w] = @ - 1]
  /\ wpc' = [wpc EXCEPT ![w] = IF tries[w] > 1 THEN "request" ELSE "erase"]
  /\ UNCHANGED <<hostVars, job, flag, requests, responses, rx, unitVars, history>>

\* mutant: the thread leaves its entry in SyncTable
KeepEntry(w) ==
  /\ wpc[w] = "erase"
  /\ wpc' = [wpc EXCEPT ![w] = "release"]
  /\ UNCHANGED <<hostVars, job, tries, flag, requests, responses, rx, unitVars, history>>

EraseEntry(w) ==
  /\ wpc[w] = "erase"
  /\ SyncTable' = [SyncTable EXCEPT ![job[w].dev] = None]
  /\ wpc' = [wpc EXCEPT ![w] = "release"]
  /\ UNCHANGED <<pc, call, calls, led, busy, job, tries, flag, requests,
                 responses, rx, unitVars, history>>

\* a command for d has passed the check on SyncTable and is not over, other
\* than that of work thread w
Others(w, d) ==
  \/ \E x \in Workers \ {w} : wpc[x] # "free" /\ job[x].dev = d
  \/ \E t \in Threads : pc[t] = "create" /\ call[t].dev = d

\* busy = false, and the thread ends.  With nothing else at work on the unit its
\* history is forgotten.
Release(w) ==
  /\ wpc[w] = "release"
  /\ busy' = [busy EXCEPT ![job[w].dev] = FALSE]
  /\ wpc' = [wpc EXCEPT ![w] = "free"]
  /\ job' = [job EXCEPT ![w] = None]
  /\ flag' = [flag EXCEPT ![w] = FALSE]
  /\ tries' = [tries EXCEPT ![w] = 0]
  /\ LET resting == {d \in {job[w].dev} : ~Others(w, d)}
     IN  overlapped' = overlapped \ resting /\ doubtful' = doubtful \ resting
  /\ UNCHANGED <<pc, call, calls, led, SyncTable, requests, responses, rx,
                 unitVars, overtaken>>

-----------------------------------------------------------------------------
(* ResponseRecievedEvent, in the polling thread.  The entry it finds may   *)
(* be erased before it is read: the freed node then still holds the old    *)
(* thread id, or the id of a thread recorded since in the same storage.    *)

\* mutant: the entry is looked up by the attribute alone
FindByAttribute(d) ==
  /\ rx = None
  /\ responses[d] # <<>>
  /\ responses' = [responses EXCEPT ![d] = Tail(@)]
  /\ \E e \in Devices :
       rx' = IF SyncTable[e] = None THEN None
                                    ELSE [dev |-> e, tid |-> SyncTable[e]]
  /\ UNCHANGED <<hostVars, workVars, requests, unitVars, history>>

FindWaiting(d) ==
  /\ rx = None
  /\ responses[d] # <<>>
  /\ responses' = [responses EXCEPT ![d] = Tail(@)]
  /\ rx' = IF SyncTable[d] = None THEN None
                                  ELSE [dev |-> d, tid |-> SyncTable[d]]
  /\ UNCHANGED <<hostVars, workVars, requests, unitVars, history>>

EntryIds ==
  IF SyncTable[rx.dev] = rx.tid
  THEN {rx.tid}
  ELSE {rx.tid} \cup ({SyncTable[d] : d \in Devices} \ {None})

\* osSignalSet(it->second, 0xff); a slot that holds no thread ignores it
SignalWaiting ==
  /\ rx # None
  /\ \E w \in EntryIds :
       /\ flag' = [flag EXCEPT ![w] = wpc[w] # "free"]
       /\ doubtful' = doubtful \cup
            {job[x].dev : x \in {y \in {w} : wpc[y] # "free" /\ SyncTable[rx.dev] # rx.tid}}
  /\ rx' = None
  /\ UNCHANGED <<hostVars, wpc, job, tries, requests, responses, unitVars,
                 overtaken, overlapped>>

-----------------------------------------------------------------------------
(* The unit.                                                               *)

\* CanexReceived, in the CAN interrupt
CanexReceived(d) ==
  /\ requests[d] # <<>>
  /\ requests' = [requests EXCEPT ![d] = Tail(@)]
  /\ control' = [control EXCEPT ![d] = Head(requests[d]).val]
  /\ triggered' = [triggered EXCEPT ![d] = TRUE]
  /\ applied' = applied \cup {Head(requests[d]).num}
  /\ UNCHANGED <<hostVars, workVars, responses, rx, sending, history>>

\* main loop: CANEXResponse ...
SendResponse(d) ==
  /\ triggered[d] /\ ~sending[d]
  /\ sending' = [sending EXCEPT ![d] = TRUE]
  /\ Send(responses, d, "response")
  /\ UNCHANGED <<hostVars, workVars, requests, rx, control, triggered, applied, history>>

\* ... and only then responseTriggered = false
ResetTriggered(d) ==
  /\ sending[d]
  /\ sending' = [sending EXCEPT ![d] = FALSE]
  /\ triggered' = [triggered EXCEPT ![d] = FALSE]
  /\ UNCHANGED <<hostVars, workVars, requests, responses, rx, control, applied, history>>

-----------------------------------------------------------------------------
Continue(t) ==
  LastCompleted(t) \/ Refuse(t) \/ Claim(t) \/ Create(t) \/ Record(t) \/ Start(t)

Caller(t) ==
  \/ \E d \in Devices : IndicatorOff(t, d) \/ \E v \in Values : SetIndicator(t, d, v)
  \/ Continue(t)

WorkThread(w) ==
  Request(w) \/ Answered(w) \/ TimedOut(w) \/ EraseEntry(w) \/ Release(w)

Bus(d) == FindWaiting(d) \/ CanexReceived(d) \/ SendResponse(d) \/ ResetTriggered(d)

\* all calls made and served: the model, not the system, stops here
Done ==
  /\ calls = MaxCalls
  /\ \A t \in Threads : pc[t] = Idle
  /\ \A w \in Workers : wpc[w] = "free"
  /\ \A d \in Devices : ~InFlight(d) /\ ~sending[d]
  /\ UNCHANGED vars

Next ==
  \/ \E t \in Threads : Caller(t)
  \/ \E w \in Workers : WorkThread(w)
  \/ \E d \in Devices : Bus(d)
  \/ SignalWaiting
  \/ Done

Spec == Init /\ [][Next]_vars

\* Round-robin scheduling runs every thread, and both units and bus go on.
Fairness ==
  /\ \A t \in Threads : WF_vars(Continue(t))
  /\ \A w \in Workers : WF_vars(WorkThread(w))
  /\ \A d \in Devices : WF_vars(FindWaiting(d)) /\ WF_vars(CanexReceived(d))
                        /\ WF_vars(SendResponse(d)) /\ WF_vars(ResetTriggered(d))
  /\ WF_vars(SignalWaiting)

FairSpec == Spec /\ Fairness

-----------------------------------------------------------------------------
(* Properties.                                                             *)

\* Every variable stays in its type, whatever the calls and the losses.
TypeOK ==
  /\ pc \in [Threads -> {Idle, "spin", "check", "create", "record", "start"}]
  /\ call \in [Threads -> Calls \cup {None}]
  /\ calls \in 0..MaxCalls
  /\ led \in [Devices -> Values] /\ control \in [Devices -> Values]
  /\ busy \in [Devices -> BOOLEAN]
  /\ SyncTable \in [Devices -> Workers \cup {None}]
  /\ wpc \in [Workers -> {"free", "init", "request", "await", "erase", "release"}]
  /\ job \in [Workers -> Jobs \cup {None}]
  /\ tries \in [Workers -> 0..MaxTries]
  /\ flag \in [Workers -> BOOLEAN]
  /\ requests \in [Devices -> Seq(Jobs)]
  /\ responses \in [Devices -> Seq({"response"})]
  /\ rx \in [dev: Devices, tid: Workers] \cup {None}
  /\ triggered \in [Devices -> BOOLEAN] /\ sending \in [Devices -> BOOLEAN]
  /\ applied \subseteq 1..MaxCalls
  /\ overtaken \subseteq Threads
  /\ overlapped \subseteq Devices /\ doubtful \subseteq Devices

\* A thread id in SyncTable (CanDevice.cpp:137) names a live thread that works
\* for that very device and will still erase it: ResponseRecievedEvent, which
\* signals whatever it finds, never reads a table entry of an ended thread,
\* even when two controller threads write the same unit at once.
TableSound ==
  \A d \in Devices : SyncTable[d] # None =>
    /\ wpc[SyncTable[d]] \in {"init", "request", "await", "erase"}
    /\ job[SyncTable[d]].dev = d

\* A work thread that waits for its first signal (CanDevice.cpp:33, without a
\* timeout) is one a caller is about to record and start: no slot of the small
\* RTX task pool is ever lost to a thread nobody will start.
NoStrandedWorker ==
  \A w \in Workers : wpc[w] = "init" =>
    \E t \in Threads : pc[t] \in {"record", "start"} /\ call[t].tid = w

\* "Wait for last command completed" (ShelfUnit.cpp:49): SetIndicator, once its
\* wait on IsBusy() is over, is refused by WriteAttribute only if another thread's
\* command went on to the unit after the wait, or if the busy flag lies: a command
\* was begun, by an IndicatorOff or a thread that overtook the other, while the last
\* one was still busy, and that one's end has cleared the flag for both.
SetNeverRefused ==
  \A t \in Threads :
    /\ pc[t] = "check" /\ call[t].kind = "set"
    /\ SyncTable[call[t].dev] # None
    => t \in overtaken \/ call[t].dev \in overlapped

\* A work thread told that its response has come (CanDevice.cpp:63) wrote to a
\* unit that did execute that command: a late answer to a retry, or one of another
\* unit, never stands for it.  Until the unit is at rest again this ends when a
\* command is begun while the last is busy or an answer to an earlier one is on its
\* way, or when an answer goes through an entry erased meanwhile (CanDevice.cpp:147).
NoFalseAnswer ==
  \A w \in Workers : flag[w] =>
    job[w].num \in applied \/ job[w].dev \in overlapped \cup doubtful

\* Every call returns: the wait on IsBusy() and the wait for a task slot end, which
\* needs that work threads end, however many frames are lost (three tries, then the
\* thread gives up), and that the slot is free then (CanDevice.cpp:130, 89).
EveryCallReturns == \A t \in Threads : pc[t] # Idle ~> pc[t] = Idle
=============================================================================
