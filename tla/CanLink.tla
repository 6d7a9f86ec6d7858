------------------------------- MODULE CanLink -------------------------------
(***************************************************************************)
(* From a shelf unit to the controller: CANTransmit cuts an entry into     *)
(* frames, CANSend puts each into a message object of the CAN chip, the    *)
(* interrupts of chip and timer change the same counters, and CanEx of the *)
(* controller puts the entry together again.                               *)
(***************************************************************************)
EXTENDS Integers, Sequences, FiniteSets

CONSTANTS
  Contents,    \* what a unit may have to broadcast
  Size,        \* the length of each, entrytype_len
  Slots,       \* the message objects used to send, from BEGIN_SEND_INDEX on
  None,        \* nothing
  MaxEvents,   \* bound: changes of the content, responses to commands, heartbeats
               \* and errors on the bus, taken together
  MailCap      \* frames the receive pool of the controller takes

ASSUME CanLinkAssumption ==
  /\ Size \in [Contents -> 5..255] /\ None \notin Contents
  /\ None \notin [kind : {"first", "segment", "single", "heartbeat"},
                  of : Contents \cup {None}, seg : Nat]
  /\ Slots \subseteq Nat /\ Slots # {} /\ IsFiniteSet(Slots) /\ 0 \notin Slots
  /\ MaxEvents \in Nat
  /\ MailCap \in Nat \ {0}

VARIABLES
  content,               \* unit: syncEntry, what it broadcasts
  pc, todo, num, seen,   \* unit: CANTransmit and CANSend in the main loop
  tx_count,              \* unit: frames of the entry not sent yet, or so it counts
  msgSignals, msg_objs,  \* unit: objects in use, and the frames pending in the chip
  busError,              \* unit: an error code in STAT
  mailbox,               \* controller: frames received and not polled
  rxTable,               \* controller: the unfinished entry of the unit
  got,                   \* controller: the entry delivered last
  clean,                 \* history: since the link was last at rest no frame was dropped, no
                         \* pool full, no heartbeat sent, no object taken twice, no reset
  events                 \* how many of the events that MaxEvents bounds there were

mainVars == <<pc, todo, num, seen>>
chipVars == <<msgSignals, msg_objs, busError>>
hostVars == <<rxTable, got>>
vars == <<content, mainVars, tx_count, chipVars, mailbox, hostVars, clean, events>>

\* segments after the first frame, and the bytes in each
Segments(n) == (n + 2) \div 7
SegLen(n, i) == IF 4 + 7 * (i + 1) <= n THEN 7 ELSE n - 4 - 7 * i

Frame(kind, c, i) == [kind |-> kind, of |-> c, seg |-> i]
Beat == Frame("heartbeat", None, 0)
Answer == Frame("single", None, 0)

Frames(c) == <<Frame("first", c, 0)>> \o
             [k \in 1..Segments(Size[c]) |-> Frame("segment", c, k - 1)]

Begin == CHOOSE s \in Slots : \A t \in Slots : s <= t
Next1(s) == IF \E t \in Slots : t > s
            THEN CHOOSE t \in Slots : t > s /\ \A r \in Slots : r > s => t <= r
            ELSE Begin

Pending == {s \in Slots : msg_objs[s] # None}
AtRest == Pending = {} /\ mailbox = <<>> /\ rxTable = None

Init ==
  /\ content \in Contents
  /\ pc = "loop" /\ todo = <<>> /\ num = Begin /\ seen = {}
  /\ tx_count = 0
  /\ msgSignals = {} /\ msg_objs = [s \in Slots |-> None]
  /\ busError = FALSE
  /\ mailbox = <<>> /\ rxTable = None /\ got = None
  /\ clean = TRUE
  /\ events = 0

Event == events < MaxEvents /\ events' = events + 1

-----------------------------------------------------------------------------
(* The main loop of the unit.                                              *)

\* UpdateRfid found something else
Change(c) ==
  /\ pc = "loop" /\ c # content /\ content' = c
  /\ Event
  /\ UNCHANGED <<mainVars, tx_count, chipVars, mailbox, hostVars, clean>>

\* Mutant of CANTransmit: it does not wait.
CANTransmitAtOnce(frames) ==
  /\ pc = "loop"
  /\ pc' = "send"
  /\ todo' = frames
  /\ tx_count' = Len(frames)
  /\ clean' = (clean \/ AtRest)
  /\ UNCHANGED <<content, num, seen, chipVars, mailbox, hostVars>>

\* "Wait for last entry transmitted"
CANTransmit(frames) ==
  /\ pc = "loop" /\ tx_count <= 0
  /\ pc' = "send"
  /\ todo' = frames
  /\ tx_count' = Len(frames)
  /\ clean' = (clean \/ AtRest)
  /\ UNCHANGED <<content, num, seen, chipVars, mailbox, hostVars>>

Broadcast == CANTransmit(Frames(content)) /\ UNCHANGED events

Response ==
  /\ Event
  /\ CANTransmit(<<Answer>>)

Done(rest) == IF rest = <<>> THEN "loop" ELSE "send"

\* CANSend with an error on the bus: the frame is dropped
Drop ==
  /\ pc = "send" /\ busError
  /\ todo' = Tail(todo) /\ pc' = Done(Tail(todo))
  /\ clean' = FALSE
  /\ UNCHANGED <<content, num, seen, tx_count, chipVars, mailbox, hostVars, events>>

CANSend ==
  /\ pc = "send" /\ ~busError
  /\ pc' = "probe" /\ num' = Begin
  /\ UNCHANGED <<content, todo, seen, tx_count, chipVars, mailbox, hostVars, clean, events>>

\* the object is busy for 1000 turns: the next one
Probe ==
  /\ pc = "probe" /\ num \in msgSignals
  /\ num' = Next1(num)
  /\ UNCHANGED <<content, pc, todo, seen, tx_count, chipVars, mailbox, hostVars, clean, events>>

\* it is free: msgSignals |= sync is no atomic step, it is loaded ...
Load ==
  /\ pc = "probe" /\ num \notin msgSignals
  /\ pc' = "store" /\ seen' = msgSignals
  /\ UNCHANGED <<content, todo, num, tx_count, chipVars, mailbox, hostVars, clean, events>>

\* ... and stored, whatever interrupts did to it in between; the frame is given to
\* the chip
Store ==
  /\ pc = "store"
  /\ msgSignals' = seen \cup {num}
  /\ msg_objs' = [msg_objs EXCEPT ![num] = Head(todo)]
  /\ clean' = (clean /\ num \notin msgSignals)
  /\ todo' = Tail(todo) /\ pc' = Done(Tail(todo)) /\ num' = Begin /\ seen' = {}
  /\ UNCHANGED <<content, tx_count, busError, mailbox, hostVars, events>>

-----------------------------------------------------------------------------
(* Chip, timer and bus.                                                    *)

\* the timer interrupt: CANEXHeartbeat while not Connected
Heartbeat ==
  /\ pc # "hung" /\ Event
  /\ \/ busError /\ UNCHANGED <<msgSignals, msg_objs>>
     \/ /\ ~busError
        /\ \E s \in Slots \ msgSignals :
             /\ \A t \in Slots \ msgSignals : s <= t
             /\ msgSignals' = msgSignals \cup {s}
             /\ msg_objs' = [msg_objs EXCEPT ![s] = Beat]
  /\ clean' = FALSE
  /\ UNCHANGED <<content, mainVars, tx_count, busError, mailbox, hostVars>>

\* no object is free: the interrupt waits for CAN_tx, which as an interrupt of the
\* same priority waits for it
HeartbeatHangs ==
  /\ pc # "hung" /\ Event
  /\ ~busError /\ msgSignals = Slots
  /\ pc' = "hung" /\ clean' = FALSE
  /\ UNCHANGED <<content, todo, num, seen, tx_count, chipVars, mailbox, hostVars>>

\* only its sign is looked at: it is not counted below -1
Lower(n) == IF n < 0 THEN n ELSE n - 1

\* Mutant of CAN_tx: the frame is not counted.
CAN_txUncounted(s) ==
  /\ s \in Pending /\ \A t \in Pending : s <= t
  /\ IF Len(mailbox) < MailCap
     THEN mailbox' = Append(mailbox, msg_objs[s]) /\ clean' = clean
     ELSE mailbox' = mailbox /\ clean' = FALSE
  /\ msg_objs' = [msg_objs EXCEPT ![s] = None]
  /\ msgSignals' = IF pc = "hung" THEN msgSignals ELSE msgSignals \ {s}
  /\ busError' = FALSE
  /\ UNCHANGED <<content, mainVars, tx_count, hostVars, events>>

\* the pending frame of the lowest object is sent; the CAN_tx callback
CAN_tx(s) ==
  /\ s \in Pending /\ \A t \in Pending : s <= t
  /\ IF Len(mailbox) < MailCap
     THEN mailbox' = Append(mailbox, msg_objs[s]) /\ clean' = clean
     ELSE mailbox' = mailbox /\ clean' = FALSE
  /\ msg_objs' = [msg_objs EXCEPT ![s] = None]
  /\ IF pc = "hung" THEN UNCHANGED <<msgSignals, tx_count>>
     ELSE msgSignals' = msgSignals \ {s} /\ tx_count' = Lower(tx_count)
  /\ busError' = FALSE
  /\ UNCHANGED <<content, mainVars, hostVars, events>>

BusError ==
  /\ ~busError /\ Event
  /\ busError' = TRUE
  /\ UNCHANGED <<content, mainVars, tx_count, msgSignals, msg_objs, mailbox, hostVars, clean>>

\* the CAN_error callback, on a stuffing error while error passive: CANInit forgets the
\* objects in use and the frames pending, and tx_count still counts those
CAN_error ==
  /\ pc # "hung" /\ Event
  /\ msgSignals' = {} /\ msg_objs' = [s \in Slots |-> None]
  /\ busError' \in BOOLEAN
  /\ clean' = FALSE
  /\ UNCHANGED <<content, mainVars, tx_count, mailbox, hostVars>>

\* a frame of another node arrives in order
Recover ==
  /\ busError /\ busError' = FALSE
  /\ UNCHANGED <<content, mainVars, tx_count, msgSignals, msg_objs, mailbox, hostVars, clean,
                 events>>

-----------------------------------------------------------------------------
(* CanEx of the controller: one frame of the mailbox at each Poll.         *)

Poll ==
  /\ mailbox # <<>> /\ mailbox' = Tail(mailbox)
  /\ UNCHANGED <<content, mainVars, tx_count, chipVars, clean, events>>

\* heartbeats and short entries do not touch the table
PollShort ==
  /\ Poll /\ Head(mailbox).kind \in {"single", "heartbeat"}
  /\ UNCHANGED hostVars

Fresh(c) == [size |-> Size[c], head |-> c, parts |-> [i \in 0..Segments(Size[c]) - 1 |-> None]]

\* the first frame of a long entry: nothing if an unfinished one is there
PollFirst ==
  /\ Poll /\ Head(mailbox).kind = "first"
  /\ rxTable' = IF rxTable = None THEN Fresh(Head(mailbox).of) ELSE rxTable
  /\ UNCHANGED got

\* SetSegment: what does not fit is ignored
SetSegment(rx, f) ==
  IF 4 + 7 * f.seg + SegLen(Size[f.of], f.seg) > rx.size THEN rx
  ELSE [rx EXCEPT !.parts[f.seg] = f.of]

\* Mutant of IsComplete: the last segment is not looked at.
IsCompleteEarly(rx) ==
  \A i \in DOMAIN rx.parts : i + 1 \in DOMAIN rx.parts => rx.parts[i] # None

IsComplete(rx) == \A i \in DOMAIN rx.parts : rx.parts[i] # None

\* Mutant of PollSegment: a complete entry stays in the table.
PollSegmentKeeps ==
  /\ Poll /\ Head(mailbox).kind = "segment"
  /\ IF rxTable = None THEN UNCHANGED hostVars
     ELSE LET rx == SetSegment(rxTable, Head(mailbox)) IN
          /\ rxTable' = rx
          /\ got' = IF IsComplete(rx) THEN rx ELSE got

PollSegment ==
  /\ Poll /\ Head(mailbox).kind = "segment"
  /\ IF rxTable = None THEN UNCHANGED hostVars
     ELSE LET rx == SetSegment(rxTable, Head(mailbox)) IN
          IF IsComplete(rx) THEN got' = rx /\ rxTable' = None
                            ELSE rxTable' = rx /\ UNCHANGED got

-----------------------------------------------------------------------------
MainLoop == Broadcast \/ Response \/ Drop \/ CANSend \/ Probe \/ Load \/ Store

PollStep == PollShort \/ PollFirst \/ PollSegment

Next ==
  \/ MainLoop \/ PollStep
  \/ \E c \in Contents : Change(c)
  \/ \E s \in Slots : CAN_tx(s)
  \/ Heartbeat \/ HeartbeatHangs \/ BusError \/ CAN_error \/ Recover

Spec == Init /\ [][Next]_vars

\* the main loop runs and broadcasts until it is acknowledged, the chip sends,
\* the polling thread polls
Fairness ==
  /\ WF_vars(Drop \/ CANSend \/ Probe \/ Load \/ Store) /\ SF_vars(Broadcast)
  /\ WF_vars(\E s \in Slots : CAN_tx(s))
  /\ WF_vars(PollStep)

FairSpec == Spec /\ Fairness

-----------------------------------------------------------------------------
(* Properties.                                                             *)

Whole(c) == [size |-> Size[c], head |-> c, parts |-> [i \in 0..Segments(Size[c]) - 1 |-> c]]

\* What ProcessRecievedEvent is given is what the unit sent, all of one entry,
\* whatever order the chip sends the segments in, if nothing went wrong on the way.
Intact == [][got' # got /\ clean => got' \in {Whole(c) : c \in Contents}]_vars

\* "Wait for last entry transmitted" (canonchip.c:335): no frame of an earlier
\* entry is pending when the next one begins.
WaitsForLast == [][pc = "loop" /\ pc' = "send" /\ clean => Pending = {}]_vars

\* When a first frame is polled no unfinished entry is in the table, so that
\* ignoring the frame then (CanEx.cpp:187-191) loses nothing.
NothingStale ==
  clean /\ mailbox # <<>> /\ Head(mailbox).kind = "first" => rxTable = None

\* A unit that goes on broadcasting gets its content to the controller.
EventuallyDelivered == <>[](clean) => <>[](got = Whole(content))
=============================================================================
