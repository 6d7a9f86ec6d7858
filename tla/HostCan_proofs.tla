---------------------------- MODULE HostCan_proofs ----------------------------
(***************************************************************************)
(* For any sizes and bounds, no interleaving disarms reception or leaves   *)
(* the driver busy with no interrupt to come.  The invariant adds to the   *)
(* two what a sender has done when it is about to request a transmission,  *)
(* and that an error flag belongs to a mailbox that is requested.  As long *)
(* as no send finds frames in the queue, frames leave in their order.      *)
(***************************************************************************)
EXTENDS HostCan, SequenceTheorems, TLAPS

Busy == hcan.state \in {"BUSY_TX", "BUSY_TX_RX"}

\* a sender has its frame in hand
Holding == {"push", "again", "write", "read", "mark"} \cup Marked

\* what a sender has done so far
Inside ==
  /\ pc = "request" /\ Busy => hcan.txIE
  /\ pc \in Holding => cur \in Frame
  /\ pc \in {"read", "mark"} \cup Marked => box \in Mailboxes
  /\ pc \in {"errors", "transmit"} => ier \in Enables /\ ier.rxIE
  /\ pc = "again" => txq # <<>>

ErrorsAreRequests == terr \subseteq Requested

Inv == TypeOK /\ ReceptionLives /\ BusyMeansPending /\ Inside /\ ErrorsAreRequests

LEMMA LowestIsIn ==
  ASSUME NEW S \in SUBSET Mailboxes, S # {}
  PROVE  Lowest(S) \in S
<1>0. \A c \in S : c \in Int /\ (c = 0 \/ c = 1 \/ c = 2)
  BY DEF Mailboxes
<1>1. \E b \in S : \A c \in S : b <= c
  <2>1. CASE 0 \in S
    BY <1>0, <2>1
  <2>2. CASE 0 \notin S /\ 1 \in S
    BY <1>0, <2>2
  <2>3. CASE 0 \notin S /\ 1 \notin S
    BY <1>0, <2>3
  <2> QED
    BY <2>1, <2>2, <2>3
<1> QED
  BY <1>1 DEF Lowest

LEMMA WithoutIsSeq ==
  ASSUME NEW T, NEW s \in Seq(T), NEW i \in DOMAIN s
  PROVE  Without(s, i) \in Seq(T)
<1>1. i \in 1..Len(s) /\ Len(s) \in Nat
  OBVIOUS
<1>2. SubSeq(s, 1, i - 1) \in Seq(T)
  BY <1>1, \A k \in 1..(i - 1) : s[k] \in T, SubSeqProperties
<1>3. SubSeq(s, i + 1, Len(s)) \in Seq(T)
  BY <1>1, \A k \in (i + 1)..Len(s) : s[k] \in T, SubSeqProperties
<1> QED
  BY <1>2, <1>3, ConcatProperties DEF Without

LEMMA InvInit == Init => Inv
<1> SUFFICES ASSUME Init PROVE Inv
  OBVIOUS
<1> USE HostCanAssumption DEF Init
<1>1. TypeThread
  BY DEF TypeThread, Handles, States
<1>2. TypeQueues
  BY DEF TypeQueues
<1>3. TypeFlags
  BY DEF TypeFlags
<1>4. TypeCounts
  BY DEF TypeCounts, FIFODepth
<1> QED
  BY <1>1, <1>2, <1>3, <1>4
     DEF Inv, TypeOK, ReceptionLives, BusyMeansPending, Inside, Holding, Marked,
         ErrorsAreRequests, Busy

LEMMA TransmitIT ==
  ASSUME NEW h \in Handles
  PROVE  /\ CAN_Transmit_IT(h) \in Handles
         /\ CAN_Transmit_IT(h).rxIE = h.rxIE
         /\ CAN_Transmit_IT(h).state \notin {"BUSY_TX", "BUSY_TX_RX"}
BY DEF CAN_Transmit_IT, Handles, States

\* the State that CAN_Receive_IT leaves never makes HAL_CAN_Receive_IT refuse
LEMMA ReceiveIT ==
  ASSUME NEW h \in Handles
  PROVE  /\ CAN_Receive_IT(h) \in Handles
         /\ CAN_Receive_IT(h).rxIE
         /\ CAN_Receive_IT(h).txIE = h.txIE
         /\ CAN_Receive_IT(h).state \in {"BUSY_TX", "BUSY_TX_RX"} => h.state = "BUSY_TX_RX"
BY DEF CAN_Receive_IT, HAL_CAN_Receive_IT, Handles, States

\* what one run of the interrupt handler does
LEMMA Handler ==
  ASSUME TypeThread, TypeFlags, HAL_CAN_IRQHandler
  PROVE  /\ hcan' \in Handles
         /\ hcan.rxIE => hcan'.rxIE
         /\ hcan'.state \in {"BUSY_TX", "BUSY_TX_RX"} =>
              /\ hcan.state \in {"BUSY_TX", "BUSY_TX_RX"}
              /\ hcan'.txIE = hcan.txIE /\ rqcp' = rqcp /\ flight' = flight
<1> DEFINE t == IF TxPending(hcan) THEN CAN_Transmit_IT(hcan) ELSE hcan
           r == IF RxPending(t) THEN CAN_Receive_IT(t) ELSE t
           e == [r EXCEPT !.err = @ \/ (r.errIE /\ (lec \/ bus # "good"))]
           c == [e EXCEPT !.state = "READY"]
<1>1. /\ t \in Handles /\ t.rxIE = hcan.rxIE
      /\ t.state \in {"BUSY_TX", "BUSY_TX_RX"} => t = hcan
  BY TransmitIT DEF TypeThread
<1> HIDE DEF t
<1>2. /\ r \in Handles /\ (t.rxIE => r.rxIE) /\ r.txIE = t.txIE
      /\ r.state \in {"BUSY_TX", "BUSY_TX_RX"} => t.state \in {"BUSY_TX", "BUSY_TX_RX"}
  BY <1>1, ReceiveIT
<1> HIDE DEF r
<1>3. (r.err \/ (r.errIE /\ (lec \/ bus # "good"))) \in BOOLEAN
  OBVIOUS
<1>4. /\ e \in Handles /\ e.rxIE = r.rxIE /\ e.txIE = r.txIE /\ e.state = r.state
  BY <1>2, <1>3 DEF Handles, States
<1> HIDE DEF e
<1>5. c \in Handles /\ c.rxIE = e.rxIE /\ c.state = "READY"
  BY <1>4 DEF Handles, States
<1> HIDE DEF c
<1>6. IF e.err THEN HAL_CAN_ErrorCallback(c)
      ELSE hcan' = e /\ UNCHANGED <<flight, rqcp, terr, wr_sem, erri>>
  BY DEF HAL_CAN_IRQHandler, c, e, r, t
<1>7. CASE e.err
  <2>1. hcan' = c \/ hcan' = [c EXCEPT !.txIE = FALSE]
    BY <1>6, <1>7 DEF HAL_CAN_ErrorCallback
  <2>2. hcan' \in Handles /\ hcan'.rxIE = c.rxIE /\ hcan'.state = "READY"
    BY <2>1, <1>5 DEF Handles
  <2> QED
    BY <2>2, <1>1, <1>2, <1>4, <1>5
<1>8. CASE ~e.err
  <2>1. hcan' = e /\ rqcp' = rqcp /\ flight' = flight
    BY <1>6, <1>8
  <2> QED
    BY <2>1, <1>1, <1>2, <1>4
<1> QED
  BY <1>7, <1>8

LEMMA ThreadTypes ==
  ASSUME Inv, [Next]_vars
  PROVE  TypeThread'
<1> USE HostCanAssumption DEF Inv, TypeOK, TypeThread, Holding, Marked, Enables, IER, locals,
      threadVars, chipVars, boundVars, history, Goto, Leave, Done, Written, Fault
<1>1. CASE Send
  <2>1. cur' \in Frame
    BY <1>1 DEF Send, TypeCounts, Frame
  <2> QED
    BY <1>1, <2>1 DEF Send
<1>2. CASE PollQueued
  <2>1. cur' \in Frame
    BY <1>2 DEF PollQueued, TypeQueues
  <2> QED
    BY <1>2, <2>1 DEF PollQueued
<1>3. CASE PollIdle
  BY <1>3 DEF PollIdle
<1>4. CASE PushNow
  BY <1>4 DEF PushNow
<1>5. CASE Enqueue
  BY <1>5 DEF Enqueue
<1>6. CASE Refused
  BY <1>6 DEF Refused
<1>7. CASE PushAgain
  BY <1>7 DEF PushAgain
<1>8. CASE StayQueued
  BY <1>8 DEF StayQueued
<1>9. CASE CAN_pull
  BY <1>9 DEF CAN_pull
<1>10. CASE WriteBusy
  BY <1>10 DEF WriteBusy
<1>11. CASE Select
  <2>1. box' \in Mailboxes
    BY <1>11, LowestIsIn DEF Select, Empty
  <2> QED
    BY <1>11, <2>1 DEF Select
<1>12. CASE Mark
  <2>1. hcan' \in Handles
    BY <1>12 DEF Mark, Handles, States
  <2> QED
    BY <1>12, <2>1 DEF Mark
<1>13. CASE ReadState \/ ReadIER \/ WriteIER
  <2>1. CASE ReadState
    BY <2>1 DEF ReadState, Handles, States, Inside
  <2>2. CASE ReadIER
    BY <2>2 DEF ReadIER, Handles, States, Inside
  <2>3. CASE WriteIER
    <3>1. ier.txIE \in BOOLEAN /\ ier.rxIE \in BOOLEAN /\ ier.errIE \in BOOLEAN
      BY <2>3 DEF WriteIER, Inside
    <3>2. hcan' \in Handles
      BY <2>3, <3>1 DEF WriteIER, Handles
    <3> QED
      BY <2>3, <3>2 DEF WriteIER
  <2> QED
    BY <1>13, <2>1, <2>2, <2>3
<1>14. CASE Request
  BY <1>14 DEF Request
<1>15. CASE HAL_CAN_IRQHandler
  <2>1. hcan' \in Handles
    BY <1>15, Handler
  <2>2. UNCHANGED threadVars
    BY <1>15 DEF HAL_CAN_IRQHandler
  <2> QED
    BY <2>1, <2>2
<1>16. CASE Complete
  BY <1>16 DEF Complete
<1>17. CASE Arrive
  BY <1>17 DEF Arrive
<1>18. CASE TransmitError
  BY <1>18 DEF TransmitError
<1>19. CASE ReceiveError
  BY <1>19 DEF ReceiveError
<1>20. CASE BusState
  BY <1>20 DEF BusState
<1>21. CASE UNCHANGED vars
  BY <1>21 DEF vars, locals, threadVars, chipVars, boundVars, history
<1> QED
  BY <1>1, <1>2, <1>3, <1>4, <1>5, <1>6, <1>7, <1>8, <1>9, <1>10, <1>11,
     <1>12, <1>13, <1>14, <1>15, <1>16, <1>17, <1>18, <1>19, <1>20, <1>21
     DEF Next, Poll, Thread, Chip

LEMMA QueueTypes ==
  ASSUME Inv, [Next]_vars
  PROVE  TypeQueues'
<1> USE HostCanAssumption DEF Inv, TypeOK, TypeQueues, Holding, Marked, locals,
      threadVars, chipVars, boundVars, history, Goto, Leave, Done, Written, Fault
<1>1. CASE Send
  BY <1>1 DEF Send
<1>2. CASE PollQueued
  BY <1>2 DEF PollQueued
<1>3. CASE PollIdle
  BY <1>3 DEF PollIdle
<1>4. CASE PushNow
  BY <1>4 DEF PushNow
<1>5. CASE Enqueue
  <2>1. cur \in Frame
    BY <1>5 DEF Enqueue, Inside
  <2> QED
    BY <1>5, <2>1 DEF Enqueue
<1>6. CASE Refused
  BY <1>6 DEF Refused
<1>7. CASE PushAgain
  <2>1. txq # <<>>
    BY <1>7 DEF PushAgain, Inside
  <2> QED
    BY <1>7, <2>1 DEF PushAgain
<1>8. CASE StayQueued
  BY <1>8 DEF StayQueued
<1>9. CASE CAN_pull
  BY <1>9 DEF CAN_pull
<1>10. CASE WriteBusy
  BY <1>10 DEF WriteBusy
<1>11. CASE Select
  BY <1>11 DEF Select
<1>12. CASE Mark
  BY <1>12 DEF Mark
<1>13. CASE ReadState \/ ReadIER \/ WriteIER
  BY <1>13 DEF ReadState, ReadIER, WriteIER
<1>14. CASE Request
  <2>1. [box |-> box, frame |-> cur] \in Requests
    BY <1>14 DEF Request, Inside, Requests
  <2> QED
    BY <1>14, <2>1 DEF Request
<1>15. CASE HAL_CAN_IRQHandler
  <2>1. flight' = flight \/ (terr # {} /\ flight' = Without(flight, PlaceOf(Lowest(terr))))
    BY <1>15 DEF HAL_CAN_IRQHandler, HAL_CAN_ErrorCallback
  <2>2. flight' \in Seq(Requests)
    <3>1. CASE terr # {}
      <4>1. Lowest(terr) \in Requested
        BY <3>1, LowestIsIn DEF TypeFlags, ErrorsAreRequests
      <4>2. PlaceOf(Lowest(terr)) \in DOMAIN flight
        BY <4>1 DEF PlaceOf, Requested
      <4> QED
        BY <2>1, <4>2, WithoutIsSeq
    <3> QED
      BY <2>1, <3>1
  <2> QED
    BY <1>15, <2>2 DEF HAL_CAN_IRQHandler
<1>16. CASE Complete
  <2>1. Head(flight) \in Requests /\ Tail(flight) \in Seq(Requests)
    BY <1>16 DEF Complete
  <2>2. Head(flight).frame \in Frame
    BY <2>1 DEF Requests
  <2> QED
    BY <1>16, <2>1, <2>2 DEF Complete
<1>17. CASE Arrive
  BY <1>17 DEF Arrive
<1>18. CASE TransmitError
  BY <1>18 DEF TransmitError
<1>19. CASE ReceiveError
  BY <1>19 DEF ReceiveError
<1>20. CASE BusState
  BY <1>20 DEF BusState
<1>21. CASE UNCHANGED vars
  BY <1>21 DEF vars, locals, threadVars, chipVars, boundVars, history
<1> QED
  BY <1>1, <1>2, <1>3, <1>4, <1>5, <1>6, <1>7, <1>8, <1>9, <1>10, <1>11,
     <1>12, <1>13, <1>14, <1>15, <1>16, <1>17, <1>18, <1>19, <1>20, <1>21
     DEF Next, Poll, Thread, Chip

LEMMA FlagTypes ==
  ASSUME Inv, [Next]_vars
  PROVE  TypeFlags'
<1> USE HostCanAssumption DEF Inv, TypeOK, TypeFlags, locals,
      threadVars, chipVars, boundVars, history, Goto, Leave, Done, Written, Fault
<1>1. CASE Send
  BY <1>1 DEF Send
<1>2. CASE PollQueued
  BY <1>2 DEF PollQueued
<1>3. CASE PollIdle
  BY <1>3 DEF PollIdle
<1>4. CASE PushNow
  BY <1>4 DEF PushNow
<1>5. CASE Enqueue
  BY <1>5 DEF Enqueue
<1>6. CASE Refused
  BY <1>6 DEF Refused
<1>7. CASE PushAgain
  BY <1>7 DEF PushAgain
<1>8. CASE StayQueued
  BY <1>8 DEF StayQueued
<1>9. CASE CAN_pull
  BY <1>9 DEF CAN_pull
<1>10. CASE WriteBusy
  BY <1>10 DEF WriteBusy
<1>11. CASE Select
  BY <1>11 DEF Select
<1>12. CASE Mark
  BY <1>12 DEF Mark
<1>13. CASE ReadState \/ ReadIER \/ WriteIER
  BY <1>13 DEF ReadState, ReadIER, WriteIER
<1>14. CASE Request
  BY <1>14 DEF Request
<1>15. CASE HAL_CAN_IRQHandler
  BY <1>15 DEF HAL_CAN_IRQHandler, HAL_CAN_ErrorCallback
<1>16. CASE Complete
  <2>1. Head(flight) \in Requests
    BY <1>16 DEF Complete, TypeQueues
  <2>2. Head(flight).box \in Mailboxes
    BY <2>1 DEF Requests
  <2> QED
    BY <1>16, <2>2 DEF Complete
<1>17. CASE Arrive
  BY <1>17 DEF Arrive
<1>18. CASE TransmitError
  <2>1. Head(flight) \in Requests
    BY <1>18 DEF TransmitError, TypeQueues
  <2>2. Head(flight).box \in Mailboxes
    BY <2>1 DEF Requests
  <2> QED
    BY <1>18, <2>2 DEF TransmitError
<1>19. CASE ReceiveError
  BY <1>19 DEF ReceiveError
<1>20. CASE BusState
  BY <1>20 DEF BusState
<1>21. CASE UNCHANGED vars
  BY <1>21 DEF vars, locals, threadVars, chipVars, boundVars, history
<1> QED
  BY <1>1, <1>2, <1>3, <1>4, <1>5, <1>6, <1>7, <1>8, <1>9, <1>10, <1>11,
     <1>12, <1>13, <1>14, <1>15, <1>16, <1>17, <1>18, <1>19, <1>20, <1>21
     DEF Next, Poll, Thread, Chip

LEMMA CountTypes ==
  ASSUME Inv, [Next]_vars
  PROVE  TypeCounts'
<1> USE HostCanAssumption DEF Inv, TypeOK, TypeCounts, locals,
      threadVars, chipVars, boundVars, history, Goto, Leave, Done, Written, Fault, FIFODepth
<1>1. CASE Send
  BY <1>1 DEF Send
<1>2. CASE PollQueued
  BY <1>2 DEF PollQueued
<1>3. CASE PollIdle
  BY <1>3 DEF PollIdle, Released
<1>4. CASE PushNow
  BY <1>4 DEF PushNow, TxEmpty
<1>5. CASE Enqueue
  BY <1>5 DEF Enqueue
<1>6. CASE Refused
  BY <1>6 DEF Refused
<1>7. CASE PushAgain
  BY <1>7 DEF PushAgain, TxEmpty
<1>8. CASE StayQueued
  BY <1>8 DEF StayQueued
<1>9. CASE CAN_pull
  BY <1>9 DEF CAN_pull
<1>10. CASE WriteBusy
  BY <1>10 DEF WriteBusy
<1>11. CASE Select
  BY <1>11 DEF Select
<1>12. CASE Mark
  BY <1>12 DEF Mark
<1>13. CASE ReadState \/ ReadIER \/ WriteIER
  BY <1>13 DEF ReadState, ReadIER, WriteIER
<1>14. CASE Request
  BY <1>14 DEF Request
<1>15. CASE HAL_CAN_IRQHandler
  <2>1. wr_sem' \in {wr_sem, Released}
    BY <1>15 DEF HAL_CAN_IRQHandler, HAL_CAN_ErrorCallback
  <2>2. rxq' = rxq \/ (rxq < RxQueue /\ rxq' = rxq + 1)
    BY <1>15 DEF HAL_CAN_IRQHandler
  <2>3. fifo' = fifo \/ (fifo > 0 /\ fifo' = fifo - 1)
    BY <1>15 DEF HAL_CAN_IRQHandler, RxPending
  <2>4. UNCHANGED boundVars
    BY <1>15 DEF HAL_CAN_IRQHandler
  <2> QED
    BY <2>1, <2>2, <2>3, <2>4 DEF Released
<1>16. CASE Complete
  BY <1>16 DEF Complete
<1>17. CASE Arrive
  BY <1>17 DEF Arrive
<1>18. CASE TransmitError
  BY <1>18 DEF TransmitError
<1>19. CASE ReceiveError
  BY <1>19 DEF ReceiveError
<1>20. CASE BusState
  BY <1>20 DEF BusState
<1>21. CASE UNCHANGED vars
  BY <1>21 DEF vars, locals, threadVars, chipVars, boundVars, history
<1> QED
  BY <1>1, <1>2, <1>3, <1>4, <1>5, <1>6, <1>7, <1>8, <1>9, <1>10, <1>11,
     <1>12, <1>13, <1>14, <1>15, <1>16, <1>17, <1>18, <1>19, <1>20, <1>21
     DEF Next, Poll, Thread, Chip

LEMMA RestNext ==
  ASSUME Inv, [Next]_vars
  PROVE  (ReceptionLives /\ BusyMeansPending)'
<1> USE HostCanAssumption DEF Inv, TypeOK, ReceptionLives, BusyMeansPending, Inside, Holding,
      Marked, Enables, IER, locals,
      threadVars, chipVars, boundVars, history, Goto, Leave, Done, Written, Fault
<1>1. CASE Send
  BY <1>1 DEF Send
<1>2. CASE PollQueued
  BY <1>2 DEF PollQueued
<1>3. CASE PollIdle
  BY <1>3 DEF PollIdle
<1>4. CASE PushNow
  BY <1>4 DEF PushNow
<1>5. CASE Enqueue
  BY <1>5 DEF Enqueue
<1>6. CASE Refused
  BY <1>6 DEF Refused
<1>7. CASE PushAgain
  BY <1>7 DEF PushAgain
<1>8. CASE StayQueued
  BY <1>8 DEF StayQueued
<1>9. CASE CAN_pull
  BY <1>9 DEF CAN_pull
<1>10. CASE WriteBusy
  BY <1>10 DEF WriteBusy
<1>11. CASE Select
  BY <1>11 DEF Select
<1>12. CASE Mark
  BY <1>12 DEF Mark, TypeThread, Handles
<1>13. CASE ReadState \/ ReadIER \/ WriteIER
  BY <1>13 DEF ReadState, ReadIER, WriteIER, TypeThread, Handles
<1>14. CASE Request
  <2>1. flight' # <<>>
    BY <1>14 DEF Request, TypeQueues
  <2> QED
    BY <1>14, <2>1 DEF Request, Busy
<1>15. CASE HAL_CAN_IRQHandler
  <2>1. UNCHANGED threadVars
    BY <1>15 DEF HAL_CAN_IRQHandler
  <2> QED
    BY <1>15, <2>1, Handler
<1>16. CASE Complete
  BY <1>16 DEF Complete
<1>17. CASE Arrive
  BY <1>17 DEF Arrive
<1>18. CASE TransmitError
  BY <1>18 DEF TransmitError
<1>19. CASE ReceiveError
  BY <1>19 DEF ReceiveError
<1>20. CASE BusState
  BY <1>20 DEF BusState
<1>21. CASE UNCHANGED vars
  BY <1>21 DEF vars, locals, threadVars, chipVars, boundVars, history
<1> QED
  BY <1>1, <1>2, <1>3, <1>4, <1>5, <1>6, <1>7, <1>8, <1>9, <1>10, <1>11,
     <1>12, <1>13, <1>14, <1>15, <1>16, <1>17, <1>18, <1>19, <1>20, <1>21
     DEF Next, Poll, Thread, Chip

LEMMA InsideNext ==
  ASSUME Inv, [Next]_vars
  PROVE  Inside'
<1> USE HostCanAssumption DEF Inv, TypeOK, Inside, Holding, Marked, Enables, IER, locals,
      threadVars, chipVars, boundVars, history, Goto, Leave, Done, Written, Fault, Busy
<1>1. CASE Send
  BY <1>1 DEF Send, TypeCounts, Frame
<1>2. CASE PollQueued
  BY <1>2 DEF PollQueued, TypeQueues
<1>3. CASE PollIdle
  BY <1>3 DEF PollIdle
<1>4. CASE PushNow
  BY <1>4 DEF PushNow
<1>5. CASE Enqueue
  <2>1. txq' # <<>>
    BY <1>5 DEF Enqueue, TypeQueues
  <2> QED
    BY <1>5, <2>1 DEF Enqueue
<1>6. CASE Refused
  BY <1>6 DEF Refused
<1>7. CASE PushAgain
  BY <1>7 DEF PushAgain
<1>8. CASE StayQueued
  BY <1>8 DEF StayQueued
<1>9. CASE CAN_pull
  BY <1>9 DEF CAN_pull
<1>10. CASE WriteBusy
  BY <1>10 DEF WriteBusy
<1>11. CASE Select
  <2>1. box' \in Mailboxes
    BY <1>11, LowestIsIn DEF Select, Empty
  <2> QED
    BY <1>11, <2>1 DEF Select
<1>12. CASE Mark
  BY <1>12 DEF Mark
<1>13. CASE ReadState \/ ReadIER \/ WriteIER
  <2>1. CASE ReadState
    BY <2>1 DEF ReadState, TypeThread, Handles
  <2>2. CASE ReadIER
    <3>1. ier' \in Enables /\ ier'.rxIE
      BY <2>2 DEF ReadIER, TypeThread, Handles, ReceptionLives
    <3> QED
      BY <2>2, <3>1 DEF ReadIER
  <2>3. CASE WriteIER
    <3>1. pc' = "request" => hcan'.txIE
      BY <2>3 DEF WriteIER, TypeThread, Handles
    <3> QED
      BY <2>3, <3>1 DEF WriteIER
  <2> QED
    BY <1>13, <2>1, <2>2, <2>3
<1>14. CASE Request
  BY <1>14 DEF Request
<1>15. CASE HAL_CAN_IRQHandler
  <2>1. UNCHANGED <<threadVars, txq>>
    BY <1>15 DEF HAL_CAN_IRQHandler
  <2> QED
    BY <1>15, <2>1, Handler
<1>16. CASE Complete
  BY <1>16 DEF Complete
<1>17. CASE Arrive
  BY <1>17 DEF Arrive
<1>18. CASE TransmitError
  BY <1>18 DEF TransmitError
<1>19. CASE ReceiveError
  BY <1>19 DEF ReceiveError
<1>20. CASE BusState
  BY <1>20 DEF BusState
<1>21. CASE UNCHANGED vars
  BY <1>21 DEF vars, locals, threadVars, chipVars, boundVars, history
<1> QED
  BY <1>1, <1>2, <1>3, <1>4, <1>5, <1>6, <1>7, <1>8, <1>9, <1>10, <1>11,
     <1>12, <1>13, <1>14, <1>15, <1>16, <1>17, <1>18, <1>19, <1>20, <1>21
     DEF Next, Poll, Thread, Chip

LEMMA ErrorsNext ==
  ASSUME Inv, [Next]_vars
  PROVE  ErrorsAreRequests'
<1> USE HostCanAssumption DEF Inv, TypeOK, TypeQueues, ErrorsAreRequests, Requested, Holding, Marked,
      locals,
      threadVars, chipVars, boundVars, history, Goto, Leave, Done, Written, Fault
<1>1. CASE Send
  BY <1>1 DEF Send
<1>2. CASE PollQueued
  BY <1>2 DEF PollQueued
<1>3. CASE PollIdle
  BY <1>3 DEF PollIdle
<1>4. CASE PushNow
  BY <1>4 DEF PushNow
<1>5. CASE Enqueue
  BY <1>5 DEF Enqueue
<1>6. CASE Refused
  BY <1>6 DEF Refused
<1>7. CASE PushAgain
  BY <1>7 DEF PushAgain
<1>8. CASE StayQueued
  BY <1>8 DEF StayQueued
<1>9. CASE CAN_pull
  BY <1>9 DEF CAN_pull
<1>10. CASE WriteBusy
  BY <1>10 DEF WriteBusy
<1>11. CASE Select
  BY <1>11 DEF Select
<1>12. CASE Mark
  BY <1>12 DEF Mark
<1>13. CASE ReadState \/ ReadIER \/ WriteIER
  <2>1. CASE ReadState
    BY <2>1 DEF ReadState
  <2>2. CASE ReadIER
    BY <2>2 DEF ReadIER
  <2>3. CASE WriteIER
    BY <2>3 DEF WriteIER
  <2> QED
    BY <1>13, <2>1, <2>2, <2>3
<1>14. CASE Request
  BY <1>14 DEF Request
<1>15. CASE HAL_CAN_IRQHandler
  <2>1. terr' = {} \/ UNCHANGED <<terr, flight>>
    BY <1>15 DEF HAL_CAN_IRQHandler, HAL_CAN_ErrorCallback
  <2> QED
    BY <2>1
<1>16. CASE Complete
  <2>1. \A i \in DOMAIN flight : i # 1 => i - 1 \in DOMAIN flight' /\ flight'[i - 1] = flight[i]
    BY <1>16 DEF Complete
  <2>2. flight # <<>> /\ Head(flight) = flight[1] /\ terr' = terr \ {Head(flight).box}
    BY <1>16 DEF Complete
  <2> QED
    BY <2>1, <2>2
<1>17. CASE Arrive
  BY <1>17 DEF Arrive
<1>18. CASE TransmitError
  BY <1>18 DEF TransmitError
<1>19. CASE ReceiveError
  BY <1>19 DEF ReceiveError
<1>20. CASE BusState
  BY <1>20 DEF BusState
<1>21. CASE UNCHANGED vars
  BY <1>21 DEF vars, locals, threadVars, chipVars, boundVars, history
<1> QED
  BY <1>1, <1>2, <1>3, <1>4, <1>5, <1>6, <1>7, <1>8, <1>9, <1>10, <1>11,
     <1>12, <1>13, <1>14, <1>15, <1>16, <1>17, <1>18, <1>19, <1>20, <1>21
     DEF Next, Poll, Thread, Chip

LEMMA InvNext == Inv /\ [Next]_vars => Inv'
BY ThreadTypes, QueueTypes, FlagTypes, CountTypes, RestNext, InsideNext, ErrorsNext DEF Inv, TypeOK

THEOREM Invariance == Spec => []Inv
BY InvInit, InvNext, PTL DEF Spec

\* The queues keep their capacity and all that the driver keeps its type, whatever the
\* sizes of the queues and the interleaving (Driver_CAN.c:164-198, CAN_STM32F40x.c:769-783).
THEOREM DriverTypes == Spec => []TypeOK
BY Invariance, PTL DEF Inv

\* Reception stays armed for ever: HAL_CAN_Receive_IT of the receive callback finds a State
\* it accepts, whatever the sender and the errors did (stm32f4xx_hal_can.c:886-948).
THEOREM ReceptionStaysArmed == Spec => []ReceptionLives
BY Invariance, PTL DEF Inv

\* A busy State with nobody inside has its completion interrupt enabled and to come
\* (stm32f4xx_hal_can.c:656-767, 1272-1315).
THEOREM BusyEnds == Spec => []BusyMeansPending
BY Invariance, PTL DEF Inv

-----------------------------------------------------------------------------
(* The order of the frames. A frame is on the wire, in a mailbox, in the   *)
(* hand of a sender or in the queue, and if no send found one in the queue *)
(* at most one is in one of the last two: younger than all before it.      *)

\* all that was sent or is requested is older than x
Younger(x) == /\ \A i \in DOMAIN wire : wire[i] < x
              /\ \A i \in DOMAIN flight : flight[i].frame < x

InFlight == /\ \A i, j \in DOMAIN flight : i < j => flight[i].frame < flight[j].frame
            /\ \A i \in DOMAIN wire, j \in DOMAIN flight : wire[i] < flight[j].frame

InHand == pc \in Holding => Younger(cur) /\ cur < next

InQueue == /\ txq # <<>> => /\ Len(txq) = 1 /\ pc \in {"out", "again"}
                            /\ Younger(txq[1]) /\ txq[1] < next
           /\ pc = "again" => txq # <<>> /\ txq[1] = cur

Ordered == /\ \A i, j \in DOMAIN wire : i < j => wire[i] < wire[j]
           /\ InFlight /\ Younger(next) /\ InHand /\ InQueue

OrderInv == alone => Ordered

LEMMA OrderInit == Init => OrderInv
BY DEF Init, OrderInv, Ordered, InFlight, InHand, InQueue, Younger, Holding, Marked

\* what is taken away from a sequence leaves the rest in its order
Thins(q, s) ==
  /\ \A i \in DOMAIN q : \E k \in DOMAIN s : q[i] = s[k]
  /\ \A i, j \in DOMAIN q : i < j => \E k, l \in DOMAIN s : k < l /\ q[i] = s[k] /\ q[j] = s[l]

LEMMA WithoutThins ==
  ASSUME NEW T, NEW s \in Seq(T), NEW i \in DOMAIN s
  PROVE  Thins(Without(s, i), s)
<1> DEFINE a == SubSeq(s, 1, i - 1)
           b == SubSeq(s, i + 1, Len(s))
           q == Without(s, i)
           place(k) == IF k < i THEN k ELSE k + 1
<1>1. i \in 1..Len(s) /\ Len(s) \in Nat
  OBVIOUS
<1>2. /\ a \in Seq(T) /\ Len(a) = i - 1
      /\ \A k \in 1..(i - 1) : a[k] = s[k]
  BY <1>1, \A k \in 1..(i - 1) : s[k] \in T, SubSeqProperties
<1>3. /\ b \in Seq(T) /\ Len(b) = Len(s) - i
      /\ \A k \in 1..(Len(s) - i) : b[k] = s[i + k]
  <2>1. /\ b \in Seq(T) /\ Len(b) = IF i + 1 <= Len(s) THEN Len(s) - (i + 1) + 1 ELSE 0
        /\ \A k \in 1..(Len(s) - (i + 1) + 1) : b[k] = s[(i + 1) + k - 1]
    BY <1>1, \A k \in (i + 1)..Len(s) : s[k] \in T, SubSeqProperties
  <2> HIDE DEF b
  <2>2. \A k \in 1..(Len(s) - i) : (i + 1) + k - 1 = i + k /\ k \in 1..(Len(s) - (i + 1) + 1)
    BY <1>1
  <2>3. \A k \in 1..(Len(s) - i) : b[k] = s[i + k]
    BY <2>1, <2>2
  <2> QED
    BY <2>1, <2>3, <1>1
<1> HIDE DEF a, b
<1>4. /\ q \in Seq(T) /\ Len(q) = Len(a) + Len(b)
      /\ \A k \in 1..(Len(a) + Len(b)) : q[k] = IF k <= Len(a) THEN a[k] ELSE b[k - Len(a)]
  BY <1>2, <1>3, ConcatProperties DEF Without, a, b
<1> HIDE DEF q
<1>5. DOMAIN q = 1..(Len(s) - 1)
  BY <1>1, <1>2, <1>3, <1>4
<1>6. ASSUME NEW k \in DOMAIN q PROVE place(k) \in DOMAIN s /\ q[k] = s[place(k)]
  <2>1. k \in 1..(Len(a) + Len(b)) /\ k \in 1..(Len(s) - 1)
    BY <1>1, <1>2, <1>3, <1>5
  <2>2. CASE k < i
    <3>1. k <= Len(a) /\ k \in 1..(i - 1)
      BY <2>1, <2>2, <1>1, <1>2
    <3> QED
      BY <2>1, <2>2, <3>1, <1>1, <1>2, <1>4
  <2>3. CASE ~(k < i)
    <3>1. ~(k <= Len(a)) /\ k - Len(a) \in 1..(Len(s) - i) /\ i + (k - Len(a)) = k + 1
      BY <2>1, <2>3, <1>1, <1>2
    <3>2. q[k] = b[k - Len(a)] /\ b[k - Len(a)] = s[k + 1]
      BY <2>1, <3>1, <1>3, <1>4
    <3> QED
      BY <2>1, <2>3, <3>2, <1>1
  <2> QED
    BY <2>2, <2>3
<1>7. \A j, k \in DOMAIN q : j < k => place(j) < place(k)
  BY <1>1, <1>5
<1> HIDE DEF place
<1>8. Thins(q, s)
  BY <1>6, <1>7 DEF Thins
<1> QED
  BY <1>8 DEF q

\* the handler takes at most a mailbox away
LEMMA HandlerThins ==
  ASSUME Inv, HAL_CAN_IRQHandler
  PROVE  Thins(flight', flight)
<1>1. CASE flight' = flight
  BY <1>1 DEF Thins
<1>2. CASE terr # {} /\ flight' = Without(flight, PlaceOf(Lowest(terr)))
  <2>1. flight \in Seq(Requests)
    BY DEF Inv, TypeOK, TypeQueues
  <2>2. Lowest(terr) \in terr /\ terr \subseteq Requested
    BY <1>2, LowestIsIn DEF Inv, TypeOK, TypeFlags, ErrorsAreRequests
  <2>3. PlaceOf(Lowest(terr)) \in DOMAIN flight
    BY <2>2 DEF PlaceOf, Requested
  <2> QED
    BY <1>2, <2>1, <2>3, WithoutThins
<1> QED
  BY <1>1, <1>2 DEF HAL_CAN_IRQHandler, HAL_CAN_ErrorCallback

\* fewer requests, and everything else as it was
LEMMA Thinned ==
  ASSUME OrderInv, Thins(flight', flight), UNCHANGED <<wire, next, txq, pc, cur, alone>>
  PROVE  OrderInv'
<1> SUFFICES ASSUME alone PROVE Ordered'
  BY DEF OrderInv
<1>1. Ordered
  BY DEF OrderInv
<1>2. ASSUME NEW x, Younger(x) PROVE Younger(x)'
  BY <1>2 DEF Younger, Thins
<1>3. InFlight'
  BY <1>1 DEF Ordered, InFlight, Thins
<1>4. Younger(next)' /\ InHand' /\ InQueue'
  <2>1. Younger(next)'
    BY <1>1, <1>2 DEF Ordered
  <2>2. InHand'
    BY <1>1, <1>2 DEF Ordered, InHand
  <2>3. InQueue'
    <3>1. txq # <<>> => Younger(txq[1])'
      BY <1>1, <1>2 DEF Ordered, InQueue
    <3> QED
      BY <1>1, <3>1 DEF Ordered, InQueue
  <2> QED
    BY <2>1, <2>2, <2>3
<1> QED
  BY <1>1, <1>3, <1>4 DEF Ordered

\* nothing is sent, requested or taken in hand
LEMMA Aside ==
  ASSUME OrderInv, UNCHANGED <<wire, flight, next, txq, alone>>,
         pc' \in Holding => pc \in Holding /\ cur' = cur,
         txq # <<>> => (pc \in {"out", "again"} => pc' \in {"out", "again"}),
         pc' # "again"
  PROVE  OrderInv'
<1>1. \A x : Younger(x)' <=> Younger(x)
  BY DEF Younger
<1>2. Younger(next)' <=> Younger(next)
  BY <1>1
<1>3. Younger(cur') <=> (Younger(cur))'
  BY DEF Younger
<1> QED
  BY <1>1, <1>2 DEF OrderInv, Ordered, InFlight, InHand, InQueue, Younger

LEMMA OrderNext == Inv /\ OrderInv /\ [Next]_vars => OrderInv'
<1> SUFFICES ASSUME Inv, OrderInv, [Next]_vars PROVE OrderInv'
  OBVIOUS
<1> USE HostCanAssumption DEF chipVars, boundVars, locals, threadVars, history, Goto, Leave, Done, Written
<1>0. /\ wire \in Seq(Frame) /\ flight \in Seq(Requests) /\ txq \in Seq(Frame) /\ next \in Nat
      /\ Frame \subseteq Nat /\ (pc \in Holding => cur \in Frame)
      /\ \A i \in DOMAIN flight : flight[i].frame \in Nat
  <2>1. /\ wire \in Seq(Frame) /\ flight \in Seq(Requests) /\ txq \in Seq(Frame) /\ next \in Nat
        /\ (pc \in Holding => cur \in Frame)
    BY DEF Inv, TypeOK, TypeQueues, TypeCounts, Inside
  <2>2. Frame \subseteq Nat
    BY DEF Frame
  <2>3. \A i \in DOMAIN flight : flight[i] \in Requests
    BY <2>1
  <2> QED
    BY <2>1, <2>2, <2>3 DEF Requests
<1>1. CASE Send
  <2> SUFFICES ASSUME alone' PROVE Ordered'
    BY DEF OrderInv
  <2>1. Ordered /\ txq = <<>> /\ cur' = next /\ next' = next + 1 /\ pc' = "push"
        /\ UNCHANGED <<txq, wire, flight>>
    BY <1>1 DEF Send, OrderInv
  <2>2. Younger(next) /\ InFlight
    BY <2>1 DEF Ordered
  <2>3. Younger(cur)' /\ InFlight'
    BY <2>1, <2>2 DEF Younger, InFlight
  <2>4. Younger(next)'
    <3>1. \A i \in DOMAIN wire : wire[i] \in Nat
      <4>1. \A i \in DOMAIN wire : wire[i] \in Frame
        BY <1>0
      <4> QED
        BY <4>1, <1>0
    <3> QED
      BY <2>1, <2>2, <1>0, <3>1 DEF Younger
  <2>5. InHand' /\ InQueue'
    BY <2>1, <2>3, <1>0 DEF InHand, InQueue
  <2> QED
    BY <2>1, <2>3, <2>4, <2>5 DEF Ordered
<1>2. CASE PushNow \/ WriteBusy \/ Select \/ ReadState \/ Mark \/ ReadIER \/ WriteIER
          \/ CAN_pull \/ PollIdle
  BY <1>2, Aside
  DEF PushNow, WriteBusy, Select, ReadState, Mark, ReadIER, WriteIER, CAN_pull, PollIdle,
      Holding, Marked
<1>3. CASE Refused \/ StayQueued
  BY <1>3, Aside DEF Refused, StayQueued, Holding, Marked
<1>4. CASE Enqueue
  <2> SUFFICES ASSUME alone' PROVE Ordered'
    BY DEF OrderInv
  <2>1. Ordered /\ pc = "push" /\ pc' = "again" /\ txq' = Append(txq, cur)
        /\ UNCHANGED <<wire, flight, next, cur>>
    BY <1>4 DEF Enqueue, OrderInv
  <2>2. txq = <<>> /\ Younger(cur) /\ cur < next /\ cur \in Frame
    BY <2>1, <1>0 DEF Ordered, InHand, InQueue, Holding, Marked
  <2>3. txq' # <<>> /\ Len(txq') = 1 /\ txq'[1] = cur
    BY <2>1, <2>2
  <2>4. Younger(cur)' /\ Younger(next)' /\ Younger(txq[1])' /\ InFlight'
    BY <2>1, <2>2, <2>3 DEF Ordered, Younger, InFlight
  <2> QED
    BY <2>1, <2>2, <2>3, <2>4 DEF Ordered, InHand, InQueue
<1>5. CASE PushAgain
  <2> SUFFICES ASSUME alone' PROVE Ordered'
    BY DEF OrderInv
  <2>1. Ordered /\ pc = "again" /\ pc' = "write" /\ txq' = Tail(txq)
        /\ UNCHANGED <<wire, flight, next, cur>>
    BY <1>5 DEF PushAgain, OrderInv
  <2>2. Len(txq) = 1 /\ Younger(cur) /\ cur < next
    BY <2>1 DEF Ordered, InHand, InQueue, Holding, Marked
  <2>3. txq' = <<>>
    BY <2>1, <2>2, <1>0
  <2>4. Younger(cur)' /\ Younger(next)' /\ InFlight'
    BY <2>1, <2>2 DEF Ordered, Younger, InFlight
  <2> QED
    BY <2>1, <2>2, <2>3, <2>4 DEF Ordered, InHand, InQueue
<1>6. CASE PollQueued
  <2> SUFFICES ASSUME alone' PROVE Ordered'
    BY DEF OrderInv
  <2>1. Ordered /\ txq # <<>> /\ pc' = "write" /\ cur' = Head(txq) /\ txq' = Tail(txq)
        /\ UNCHANGED <<wire, flight, next>>
    BY <1>6 DEF PollQueued, OrderInv
  <2>2. Len(txq) = 1 /\ Younger(txq[1]) /\ txq[1] < next /\ Head(txq) = txq[1]
    BY <2>1, <1>0 DEF Ordered, InQueue
  <2>3. txq' = <<>>
    BY <2>1, <2>2, <1>0
  <2>4. Younger(cur)' /\ Younger(next)' /\ InFlight'
    BY <2>1, <2>2 DEF Ordered, Younger, InFlight
  <2> QED
    BY <2>1, <2>2, <2>3, <2>4 DEF Ordered, InHand, InQueue
<1>7. CASE Request
  <2> SUFFICES ASSUME alone' PROVE Ordered'
    BY DEF OrderInv
  <2> DEFINE r == [box |-> box, frame |-> cur]
  <2>1. Ordered /\ pc = "request" /\ pc' \in {"pull", "out"} /\ flight' = Append(flight, r)
        /\ UNCHANGED <<wire, txq, next>>
    BY <1>7 DEF Request, OrderInv
  <2>2. txq = <<>> /\ Younger(cur) /\ cur < next /\ cur \in Nat
    BY <2>1, <1>0 DEF Ordered, InHand, InQueue, Holding, Marked
  <2>3. /\ Len(flight') = Len(flight) + 1 /\ Len(flight) \in Nat
        /\ \A i \in 1..Len(flight) : flight'[i].frame = flight[i].frame
        /\ flight'[Len(flight) + 1].frame = cur
        /\ DOMAIN flight = 1..Len(flight) /\ DOMAIN flight' = 1..(Len(flight) + 1)
    BY <2>1, <1>0
  <2>4. \A i \in DOMAIN flight' : i \in DOMAIN flight \/ i = Len(flight) + 1
    BY <2>3
  <2>5. InFlight'
    <3>1. ASSUME NEW i \in DOMAIN flight', NEW j \in DOMAIN flight', i < j
          PROVE  flight'[i].frame < flight'[j].frame
      <4>1. i \in DOMAIN flight
        BY <2>3, <3>1
      <4> QED
        BY <2>1, <2>2, <2>3, <2>4, <3>1, <4>1 DEF Ordered, InFlight, Younger
    <3>2. ASSUME NEW i \in DOMAIN wire, NEW j \in DOMAIN flight' PROVE wire[i] < flight'[j].frame
      BY <2>1, <2>2, <2>3, <2>4 DEF Ordered, InFlight, Younger
    <3> QED
      BY <2>1, <3>1, <3>2 DEF InFlight
  <2>6. Younger(next)'
    BY <2>1, <2>2, <2>3, <2>4 DEF Ordered, Younger
  <2>7. InHand' /\ InQueue'
    BY <2>1, <2>2 DEF InHand, InQueue, Holding, Marked
  <2> QED
    BY <2>1, <2>5, <2>6, <2>7 DEF Ordered
<1>8. CASE HAL_CAN_IRQHandler
  BY <1>8, HandlerThins, Thinned DEF HAL_CAN_IRQHandler
<1>9. CASE Complete
  <2> SUFFICES ASSUME alone' PROVE Ordered'
    BY DEF OrderInv
  <2>1. Ordered /\ flight # <<>> /\ wire' = Append(wire, Head(flight).frame) /\ flight' = Tail(flight)
        /\ UNCHANGED <<txq, next, pc, cur>>
    BY <1>9 DEF Complete, OrderInv
  <2>2. /\ Len(flight) \in Nat \ {0} /\ DOMAIN flight = 1..Len(flight)
        /\ Head(flight) = flight[1] /\ DOMAIN flight' = 1..(Len(flight) - 1)
        /\ \A i \in DOMAIN flight' : i + 1 \in DOMAIN flight /\ flight'[i] = flight[i + 1]
    BY <2>1, <1>0
  <2>3. /\ Len(wire) \in Nat /\ DOMAIN wire = 1..Len(wire) /\ DOMAIN wire' = 1..(Len(wire) + 1)
        /\ \A i \in DOMAIN wire : wire'[i] = wire[i]
        /\ wire'[Len(wire) + 1] = flight[1].frame
    <3> DEFINE f == flight[1].frame
    <3>1. wire' = Append(wire, f)
      BY <2>1, <2>2
    <3> HIDE DEF f
    <3>2. /\ DOMAIN wire' = 1..(Len(wire) + 1) /\ wire'[Len(wire) + 1] = f
          /\ \A i \in DOMAIN wire : wire'[i] = wire[i]
      BY <1>0, <3>1
    <3> QED
      BY <1>0, <3>2 DEF f
  <2>4. \A i \in DOMAIN wire' : i \in DOMAIN wire \/ i = Len(wire) + 1
    BY <2>3
  <2>5. 1 \in DOMAIN flight
    BY <2>2
  <2>6. \A i, j \in DOMAIN wire' : i < j => wire'[i] < wire'[j]
    <3>1. \A i, j \in DOMAIN wire' : i < j => i \in DOMAIN wire
      BY <2>3
    <3> QED
      BY <2>1, <2>3, <2>4, <2>5, <3>1 DEF Ordered, InFlight
  <2>7. InFlight'
    <3>1. \A i, j \in DOMAIN flight' : i < j => flight'[i].frame < flight'[j].frame
      BY <2>1, <2>2 DEF Ordered, InFlight
    <3>2. ASSUME NEW i \in DOMAIN wire', NEW j \in DOMAIN flight' PROVE wire'[i] < flight'[j].frame
      <4>1. j + 1 \in DOMAIN flight /\ flight'[j] = flight[j + 1] /\ 1 < j + 1
        BY <2>2
      <4> QED
        BY <2>1, <2>3, <2>4, <2>5, <4>1 DEF Ordered, InFlight
    <3> QED
      BY <3>1, <3>2 DEF InFlight
  <2>8. ASSUME NEW x, Younger(x)
        PROVE  /\ \A i \in DOMAIN wire' : wire'[i] < x
               /\ \A i \in DOMAIN flight' : flight'[i].frame < x
    BY <2>2, <2>3, <2>4, <2>5, <2>8 DEF Younger
  <2>9. Younger(next)' /\ InHand'
    BY <2>1, <2>8 DEF Ordered, InHand, Younger
  <2>10. InQueue'
    BY <2>1, <2>8 DEF Ordered, InQueue, Younger
  <2> QED
    BY <2>6, <2>7, <2>9, <2>10 DEF Ordered
<1>10. CASE Arrive \/ TransmitError \/ ReceiveError \/ BusState \/ UNCHANGED vars
  <2>1. UNCHANGED <<wire, flight, next, txq, pc, cur, alone>>
    BY <1>10 DEF Arrive, TransmitError, ReceiveError, BusState, Fault, vars
  <2>2. Thins(flight', flight)
    BY <2>1 DEF Thins
  <2> QED
    BY <2>1, <2>2, Thinned
<1> QED
  BY <1>1, <1>2, <1>3, <1>4, <1>5, <1>6, <1>7, <1>8, <1>9, <1>10 DEF Next, Poll, Thread, Chip

\* As long as no send found frames in the queue, nothing is sent twice and nothing
\* overtakes, whatever errors abort and whatever the handler interrupts
\* (Driver_CAN.c:170-198, HAL_CAN_ErrorCallback in CAN_STM32F40x.c).
THEOREM FramesKeepOrder == Spec => []OnceInOrder
<1>1. OrderInv => OnceInOrder
  BY DEF OrderInv, Ordered, OnceInOrder
<1> QED
  BY Invariance, OrderInit, OrderNext, <1>1, PTL DEF Spec

=============================================================================
