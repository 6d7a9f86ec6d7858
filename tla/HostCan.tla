------------------------------- MODULE HostCan -------------------------------
(***************************************************************************)
(* The CAN driver of the controller. The threads send (CAN_push) and poll  *)
(* (CAN1_Receive) under the mutex of CanEx, so at most one of them is      *)
(* inside; what interleaves with it is the chip and its one interrupt      *)
(* handler (TX, RX0 and SCE have the same priority and do not nest).       *)
(***************************************************************************)
EXTENDS Integers, Sequences, FiniteSets

CONSTANTS
  None,        \* nothing
  TxQueue,     \* frames the mail queue MBX_TX1 holds
  RxQueue,     \* frames the mail queue MBX_RX1 holds
  MaxTokens,   \* bound: tokens of wr_sem that are counted
  MaxFrames,   \* bound: frames the threads send
  MaxArrivals, \* bound: frames that come in
  MaxErrors    \* bound: errors on the bus and changes of its state

ASSUME HostCanAssumption ==
  /\ TxQueue \in Nat \ {0} /\ RxQueue \in Nat \ {0}
  /\ MaxTokens \in Nat \ {0}
  /\ MaxFrames \in Nat /\ MaxArrivals \in Nat /\ MaxErrors \in Nat
  /\ None \notin Int

VARIABLES
  hcan,      \* the handle and IER: State, ErrorCode, and the interrupts enabled
  pc, who,   \* the thread that holds the mutex: where it is, sending or polling
  cur,       \* the frame it has in hand
  box, seen, ier, \* locals of HAL_CAN_Transmit_IT: the mailbox, the State and the IER it read
  wr_sem,    \* tokens of the semaphore
  txq, rxq,  \* MBX_TX1, and how many frames wait in MBX_RX1
  flight,    \* chip: the mailboxes that are to be sent, in the order of the requests (TXFP)
  rqcp,      \* chip: mailboxes with RQCP set, request completed
  terr,      \* chip: mailboxes with TERR set, transmission error
  fifo,      \* chip: frames in receive FIFO 0
  erri, lec, \* chip: ERRI pending, and a last error code
  bus,       \* chip: error counters good, at the warning limit, or bus-off
  next, arrivals, errors, \* how many sends, arrivals and errors there were
  wire,      \* history: the frames that were sent on the bus
  alone      \* history: no send found a frame in the queue

locals == <<box, seen, ier>>
threadVars == <<pc, who, cur, locals>>
chipVars == <<flight, rqcp, terr, fifo, erri, lec, bus>>
boundVars == <<next, arrivals, errors>>
history == <<wire, alone>>
vars == <<hcan, threadVars, wr_sem, txq, rxq, chipVars, boundVars, history>>

Mailboxes == 0..2
Frame == 1..MaxFrames
FIFODepth == 3

States == {"READY", "BUSY_TX", "BUSY_RX", "BUSY_TX_RX"}
Handles == [state : States, err : BOOLEAN, txIE : BOOLEAN, rxIE : BOOLEAN, errIE : BOOLEAN]

Enables == [txIE : BOOLEAN, rxIE : BOOLEAN, errIE : BOOLEAN]
IER(h) == [txIE |-> h.txIE, rxIE |-> h.rxIE, errIE |-> h.errIE]

\* State is changed, the transmission not requested yet
Marked == {"enable errors", "errors", "enable transmit", "transmit", "request"}

Requests == [box : Mailboxes, frame : Frame]
Requested == {flight[i].box : i \in DOMAIN flight}
Empty == Mailboxes \ Requested            \* TME0 to TME2
PlaceOf(b) == CHOOSE i \in DOMAIN flight : flight[i].box = b
Without(s, i) == SubSeq(s, 1, i - 1) \o SubSeq(s, i + 1, Len(s))
Lowest(S) == CHOOSE b \in S : \A c \in S : b <= c

Released == IF wr_sem < MaxTokens THEN wr_sem + 1 ELSE wr_sem

Init ==
  /\ hcan = [state |-> "BUSY_RX", err |-> FALSE, txIE |-> FALSE, rxIE |-> TRUE, errIE |-> TRUE]
  /\ pc = "out" /\ who = "send" /\ cur = None
  /\ box = None /\ seen = None /\ ier = None
  /\ wr_sem = 1 /\ txq = <<>> /\ rxq = 0
  /\ flight = <<>> /\ rqcp = {} /\ terr = {} /\ fifo = 0
  /\ erri = FALSE /\ lec = FALSE /\ bus = "good"
  /\ next = 1 /\ arrivals = 0 /\ errors = 0
  /\ wire = <<>> /\ alone = TRUE

-----------------------------------------------------------------------------
(* The threads.                                                            *)

Goto(l) == pc' = l /\ UNCHANGED <<who, cur, locals>>
Leave == /\ pc' = "out" /\ who' = "send" /\ cur' = None
         /\ box' = None /\ seen' = None /\ ier' = None

\* CAN_hw_tx_empty takes a token and keeps it only when this holds
TxEmpty == wr_sem > 0 /\ hcan.state \in {"READY", "BUSY_RX"}

\* CanEx::Transmit or Sync gets the mutex and calls CAN_push
Send ==
  /\ pc = "out" /\ next <= MaxFrames
  /\ pc' = "push" /\ cur' = next /\ next' = next + 1
  /\ alone' = (alone /\ txq = <<>>)
  /\ UNCHANGED <<hcan, who, locals, wr_sem, txq, rxq, chipVars, arrivals, errors, wire>>

PushNow ==
  /\ pc = "push" /\ TxEmpty
  /\ wr_sem' = wr_sem - 1
  /\ Goto("write")
  /\ UNCHANGED <<hcan, txq, rxq, chipVars, boundVars, history>>

Enqueue ==
  /\ pc = "push" /\ ~TxEmpty /\ Len(txq) < TxQueue
  /\ txq' = Append(txq, cur)
  /\ Goto("again")
  /\ UNCHANGED <<hcan, wr_sem, rxq, chipVars, boundVars, history>>

\* a mutated Refused, osWaitForever for a timeout
RefusedWaits ==
  /\ pc = "push" /\ ~TxEmpty /\ Len(txq) = TxQueue
  /\ UNCHANGED vars

\* osMailAlloc times out: only the holder of the mutex takes frames from the queue
Refused ==
  /\ pc = "push" /\ ~TxEmpty /\ Len(txq) = TxQueue
  /\ Leave
  /\ UNCHANGED <<hcan, wr_sem, txq, rxq, chipVars, boundVars, history>>

\* the second check of CAN_push: the oldest frame leaves the queue, and msg is written
PushAgain ==
  /\ pc = "again" /\ TxEmpty
  /\ wr_sem' = wr_sem - 1
  /\ txq' = Tail(txq)
  /\ Goto("write")
  /\ UNCHANGED <<hcan, rxq, chipVars, boundVars, history>>

StayQueued ==
  /\ pc = "again" /\ ~TxEmpty
  /\ Leave
  /\ UNCHANGED <<hcan, wr_sem, txq, rxq, chipVars, boundVars, history>>

\* a mutated PollQueued, which writes only when CAN_hw_tx_empty lets it
PollWithToken ==
  /\ pc = "out" /\ txq # <<>>
  /\ who' = "poll"
  /\ IF TxEmpty
     THEN /\ wr_sem' = wr_sem - 1 /\ txq' = Tail(txq)
          /\ pc' = "write" /\ cur' = Head(txq)
     ELSE pc' = "pull" /\ UNCHANGED <<wr_sem, txq, cur>>
  /\ UNCHANGED <<hcan, locals, rxq, chipVars, boundVars, history>>

\* CanEx::Poll gets the mutex; CAN1_Receive writes one queued frame, or adds a token
PollQueued ==
  /\ pc = "out" /\ txq # <<>>
  /\ txq' = Tail(txq)
  /\ pc' = "write" /\ who' = "poll" /\ cur' = Head(txq)
  /\ UNCHANGED <<hcan, locals, wr_sem, rxq, chipVars, boundVars, history>>

PollIdle ==
  /\ pc = "out" /\ txq = <<>>
  /\ wr_sem' = Released
  /\ pc' = "pull" /\ who' = "poll"
  /\ UNCHANGED <<hcan, cur, locals, txq, rxq, chipVars, boundVars, history>>

CAN_pull ==
  /\ pc = "pull"
  /\ rxq' = IF rxq > 0 THEN rxq - 1 ELSE 0
  /\ Leave
  /\ UNCHANGED <<hcan, wr_sem, txq, chipVars, boundVars, history>>

-----------------------------------------------------------------------------
(* CAN_hw_wr and HAL_CAN_Transmit_IT. A step between two accesses to what  *)
(* the interrupt handler changes.                                          *)

Written == IF who = "poll" THEN pc' = "pull" /\ who' = who ELSE pc' = "out" /\ who' = "send"
Done == Written /\ cur' = None /\ box' = None /\ seen' = None /\ ier' = None

\* HAL_BUSY: CAN_hw_wr gives the frame up
WriteBusy ==
  /\ pc = "write" /\ hcan.state \notin {"READY", "BUSY_RX"}
  /\ Done
  /\ UNCHANGED <<hcan, wr_sem, txq, rxq, chipVars, boundVars, history>>

\* with no mailbox empty it is HAL_TIMEOUT, and CAN_hw_wr tries again in 5 ms: no step
Select ==
  /\ pc = "write" /\ hcan.state \in {"READY", "BUSY_RX"} /\ Empty # {}
  /\ box' = Lowest(Empty)
  /\ pc' = "read"
  /\ UNCHANGED <<hcan, who, cur, seen, ier, wr_sem, txq, rxq, chipVars, boundVars, history>>

\* State is read once more ...
ReadState ==
  /\ pc = "read"
  /\ pc' = "mark" /\ seen' = hcan.state
  /\ UNCHANGED <<hcan, who, cur, box, ier, wr_sem, txq, rxq, chipVars, boundVars, history>>

\* ... before it is changed
Mark ==
  /\ pc = "mark"
  /\ hcan' = [hcan EXCEPT !.state = IF seen = "BUSY_RX" THEN "BUSY_TX_RX" ELSE "BUSY_TX",
                          !.err = FALSE]
  /\ pc' = "enable errors" /\ seen' = None
  /\ UNCHANGED <<who, cur, box, ier, wr_sem, txq, rxq, chipVars, boundVars, history>>

\* __HAL_CAN_ENABLE_IT reads IER ...
ReadIER ==
  /\ \/ pc = "enable errors" /\ pc' = "errors"
     \/ pc = "enable transmit" /\ pc' = "transmit"
  /\ ier' = IER(hcan)
  /\ UNCHANGED <<hcan, who, cur, box, seen, wr_sem, txq, rxq, chipVars, boundVars, history>>

\* ... and writes it with one more bit, whatever the handler did to it: first those of
\* the errors, then the one of an empty mailbox
WriteIER ==
  /\ \/ /\ pc = "errors" /\ pc' = "enable transmit"
        /\ hcan' = [hcan EXCEPT !.txIE = ier.txIE, !.rxIE = ier.rxIE, !.errIE = TRUE]
     \/ /\ pc = "transmit" /\ pc' = "request"
        /\ hcan' = [hcan EXCEPT !.txIE = TRUE, !.rxIE = ier.rxIE, !.errIE = ier.errIE]
  /\ ier' = None
  /\ UNCHANGED <<who, cur, box, seen, wr_sem, txq, rxq, chipVars, boundVars, history>>

\* a mutated Request, TXFP disabled: the mailbox number decides
RequestByNumber ==
  /\ pc = "request"
  /\ flight' = SelectSeq(flight, LAMBDA r : r.box < box) \o <<[box |-> box, frame |-> cur]>>
               \o SelectSeq(flight, LAMBDA r : r.box > box)
  /\ rqcp' = rqcp \ {box} /\ terr' = terr \ {box}
  /\ Done
  /\ UNCHANGED <<hcan, wr_sem, txq, rxq, fifo, erri, lec, bus, boundVars, history>>

\* TXRQ; the chip clears the flags of the mailbox
Request ==
  /\ pc = "request"
  /\ flight' = Append(flight, [box |-> box, frame |-> cur])
  /\ rqcp' = rqcp \ {box} /\ terr' = terr \ {box}
  /\ Done
  /\ UNCHANGED <<hcan, wr_sem, txq, rxq, fifo, erri, lec, bus, boundVars, history>>

Thread == \/ PushNow \/ Enqueue \/ Refused \/ PushAgain \/ StayQueued \/ CAN_pull
          \/ WriteBusy \/ Select \/ ReadState \/ Mark \/ ReadIER \/ WriteIER \/ Request

-----------------------------------------------------------------------------
(* The interrupt handler.                                                  *)

\* a mutated CAN_Transmit_IT, blind to BUSY_TX_RX
CAN_Transmit_IT_Plain(h) ==
  [h EXCEPT !.txIE = FALSE,
            !.errIE = @ /\ h.state # "BUSY_TX",
            !.state = IF @ = "BUSY_TX" THEN "READY" ELSE @]

CAN_Transmit_IT(h) ==
  [h EXCEPT !.txIE = FALSE,
            !.errIE = @ /\ h.state # "BUSY_TX",
            !.state = IF @ = "BUSY_TX_RX" THEN "BUSY_RX" ELSE "READY"]

\* armed by CAN_hw_start, and again by every HAL_CAN_RxCpltCallback
HAL_CAN_Receive_IT(h) ==
  IF h.state \in {"READY", "BUSY_TX"}
  THEN [state |-> IF h.state = "BUSY_TX" THEN "BUSY_TX_RX" ELSE "BUSY_RX",
        err |-> FALSE, txIE |-> h.txIE, rxIE |-> TRUE, errIE |-> TRUE]
  ELSE h

\* a mutated CAN_Receive_IT, blind to BUSY_TX_RX
CAN_Receive_IT_Plain(h) ==
  HAL_CAN_Receive_IT([h EXCEPT !.rxIE = FALSE,
                               !.errIE = @ /\ h.state # "BUSY_RX",
                               !.state = IF @ = "BUSY_RX" THEN "READY" ELSE @])

\* the callback at its end included
CAN_Receive_IT(h) ==
  HAL_CAN_Receive_IT([h EXCEPT !.rxIE = FALSE,
                               !.errIE = @ /\ h.state # "BUSY_RX",
                               !.state = IF @ = "BUSY_TX_RX" THEN "BUSY_TX" ELSE "READY"])

TxPending(h) == h.txIE /\ rqcp # {}
RxPending(h) == h.rxIE /\ fifo > 0
ErrPending(h) == h.errIE /\ erri

\* HAL_CAN_ErrorCallback aborts the first mailbox in error; the writes to TSR
\* clear the flags of all of them
HAL_CAN_ErrorCallback(h) ==
  /\ IF terr = {}
     THEN hcan' = h /\ UNCHANGED <<flight, rqcp, terr, wr_sem>>
     ELSE /\ hcan' = [h EXCEPT !.txIE = FALSE]
          /\ flight' = Without(flight, PlaceOf(Lowest(terr)))
          /\ rqcp' = {} /\ terr' = {}
          /\ wr_sem' = Released
  /\ erri' = FALSE

HAL_CAN_IRQHandler ==
  /\ TxPending(hcan) \/ RxPending(hcan) \/ ErrPending(hcan)
  /\ LET t == IF TxPending(hcan) THEN CAN_Transmit_IT(hcan) ELSE hcan
         r == IF RxPending(t) THEN CAN_Receive_IT(t) ELSE t
         e == [r EXCEPT !.err = @ \/ (r.errIE /\ (lec \/ bus # "good"))]
     IN /\ fifo' = IF RxPending(t) THEN fifo - 1 ELSE fifo
        /\ rxq' = IF RxPending(t) /\ rxq < RxQueue THEN rxq + 1 ELSE rxq
        /\ lec' = (lec /\ ~r.errIE)
        /\ IF e.err
           THEN HAL_CAN_ErrorCallback([e EXCEPT !.state = "READY"])
           ELSE hcan' = e /\ UNCHANGED <<flight, rqcp, terr, wr_sem, erri>>
  /\ UNCHANGED <<threadVars, txq, bus, boundVars, history>>

-----------------------------------------------------------------------------
(* The chip and the bus.                                                   *)

Complete ==
  /\ bus # "off" /\ flight # <<>>
  /\ wire' = Append(wire, Head(flight).frame)
  /\ rqcp' = rqcp \cup {Head(flight).box} /\ terr' = terr \ {Head(flight).box}
  /\ flight' = Tail(flight)
  /\ UNCHANGED <<hcan, threadVars, wr_sem, txq, rxq, fifo, erri, lec, bus, boundVars, alone>>

\* a full FIFO is overwritten
Arrive ==
  /\ bus # "off" /\ arrivals < MaxArrivals
  /\ arrivals' = arrivals + 1
  /\ fifo' = IF fifo < FIFODepth THEN fifo + 1 ELSE fifo
  /\ UNCHANGED <<hcan, threadVars, wr_sem, txq, rxq, flight, rqcp, terr, erri, lec, bus,
                 next, errors, history>>

Fault ==
  /\ bus # "off" /\ errors < MaxErrors
  /\ errors' = errors + 1 /\ erri' = TRUE
  /\ UNCHANGED <<hcan, threadVars, wr_sem, txq, rxq, flight, rqcp, fifo, next, arrivals, history>>

TransmitError ==
  /\ Fault /\ flight # <<>>
  /\ terr' = terr \cup {Head(flight).box} /\ lec' = TRUE /\ UNCHANGED bus
ReceiveError == Fault /\ lec' = TRUE /\ UNCHANGED <<terr, bus>>
BusState == Fault /\ bus' \in {"good", "warn", "off"} \ {bus} /\ UNCHANGED <<terr, lec>>

Poll == PollQueued \/ PollIdle
Chip == Complete \/ Arrive \/ TransmitError \/ ReceiveError \/ BusState
Next == Send \/ Poll \/ Thread \/ HAL_CAN_IRQHandler \/ Chip

Spec == Init /\ [][Next]_vars

\* the threads run, interrupts are served, polling goes on, a live bus takes what is requested
Fairness == /\ WF_vars(Thread) /\ WF_vars(HAL_CAN_IRQHandler) /\ SF_vars(Poll)
            /\ WF_vars(Complete)
FairSpec == Spec /\ Fairness

-----------------------------------------------------------------------------
(* Properties.                                                             *)

TypeThread ==
  /\ hcan \in Handles
  /\ pc \in {"out", "push", "again", "write", "read", "mark", "pull"} \cup Marked
  /\ who \in {"send", "poll"}
  /\ cur \in Frame \cup {None}
  /\ box \in Mailboxes \cup {None} /\ seen \in States \cup {None}
  /\ ier \in Enables \cup {None}

TypeQueues ==
  /\ txq \in Seq(Frame) /\ Len(txq) <= TxQueue
  /\ flight \in Seq(Requests)
  /\ wire \in Seq(Frame)

TypeFlags ==
  /\ rqcp \subseteq Mailboxes /\ terr \subseteq Mailboxes
  /\ erri \in BOOLEAN /\ lec \in BOOLEAN /\ bus \in {"good", "warn", "off"}
  /\ alone \in BOOLEAN

TypeCounts ==
  /\ wr_sem \in 0..MaxTokens /\ rxq \in 0..RxQueue /\ fifo \in 0..FIFODepth
  /\ next \in 1..(MaxFrames + 1) /\ arrivals \in 0..MaxArrivals /\ errors \in 0..MaxErrors

\* The variables keep their types, and the queues their capacity.
TypeOK == TypeThread /\ TypeQueues /\ TypeFlags /\ TypeCounts

\* No interleaving of a sender with the handler, and no error, leaves reception
\* disarmed: HAL_CAN_Receive_IT of the callback never finds a State it refuses.
ReceptionLives == hcan.rxIE

\* A State that keeps senders out is left again: when nobody is inside, the completion
\* interrupt is enabled and a mailbox has completed or still will.
BusyMeansPending ==
  hcan.state \in {"BUSY_TX", "BUSY_TX_RX"} /\ pc \notin Marked
    => hcan.txIE /\ (rqcp # {} \/ flight # <<>>)

\* As long as no send found frames waiting in the queue, nothing is sent twice and
\* nothing overtakes, whatever was lost (CAN_push writes msg and drops the oldest otherwise).
OnceInOrder == alone => \A i, j \in DOMAIN wire : i < j => wire[i] < wire[j]

\* Unless the bus goes off, whoever holds the mutex lets it go.
MutexFreed == pc # "out" ~> (pc = "out" \/ bus = "off")

\* Unless the bus goes off, polling empties the transmit queue.
QueueDrains == txq # <<>> ~> (txq = <<>> \/ bus = "off")
=============================================================================
