--------------------------- MODULE CardSync_proofs ---------------------------
(***************************************************************************)
(* What a unit believes acknowledged is shown by the controller, for any   *)
(* cards, any number of scans, moves, losses and restarts.                 *)
(***************************************************************************)
EXTENDS CardSync, TLAPS

Frames == [type : {0, 1, 2}, id : Cards \cup {NoCard}]

Types ==
  /\ tag \in Cards \cup {NoCard}
  /\ mem \in Frames /\ (mem.type = 0 => mem = Empty) /\ lostCount \in Nat
  /\ pc \in {"loop", "scanned", "sent"} /\ updated \in BOOLEAN
  /\ Registered \in BOOLEAN /\ Gotcha \in BOOLEAN /\ ForceSync \in BOOLEAN
  /\ up \in Seq(Frames) /\ down \in Seq({"gotcha", "ask"})
  /\ known \in BOOLEAN /\ missed \in BOOLEAN
  /\ lastCardType \in {0, 1, 2} /\ cardState \in {"none", "arrival", "left"}
  /\ rpc \in {"idle", "compare", "state", "id", "changed"} /\ held \in Frames

\* the scan has found something that the main loop has not yet taken up
Fresh == pc = "scanned" /\ updated

On(frame) == \E i \in DOMAIN down : down[i] = frame

\* a unit that is not registered is not known and has not reported yet
Order == (known => Registered) /\ (~Registered => Gotcha /\ missed)

\* the two fields of ShelfUnit that say whether there is a card agree, unless the
\* polling thread is between them
View ==
  CASE rpc = "state" -> lastCardType = held.type
    [] rpc = "id" -> lastCardType = held.type /\ held.type # 0 /\ cardState = "arrival"
    [] OTHER -> lastCardType = 0 <=> cardState # "arrival"

\* m is stored, or will be once the polling thread is through
Arrives(m) ==
  CASE rpc \in {"compare", "state", "id"} -> held = m
    [] OTHER -> Shown(m) \/ idLost

\* what is on its way to the controller is what MemBuffer holds
Sent == ~Fresh /\ ~crossed => \A i \in DOMAIN up : up[i] = mem

\* an acknowledgement on its way is for what MemBuffer holds
Acked == ~Fresh /\ ~crossed /\ On("gotcha") => Arrives(mem)

\* so is one that has come, unless the controller has forgotten and still asks
Believed ==
  ( /\ ~Fresh /\ ~crossed /\ ~missed
    /\ Gotcha /\ ~ForceSync /\ ~On("ask") ) => Arrives(mem)

IInv == Types /\ Order /\ View /\ Sent /\ Acked /\ Believed

-----------------------------------------------------------------------------
\* The invariant holds initially.
LEMMA InitIInv == Init => IInv
<1> SUFFICES ASSUME Init PROVE IInv
  OBVIOUS
<1>1. Types
  <2>1. Empty \in Frames
    BY DEF Frames, Empty, Reader!Empty
  <2>2. up \in Seq(Frames) /\ down \in Seq({"gotcha", "ask"})
    BY DEF Init
  <2> QED
    BY CardSyncAssumption, <2>1, <2>2 DEF Init, Types, Empty, Reader!ScanInit
<1>2. DOMAIN up = {} /\ DOMAIN down = {}
  BY DEF Init
<1>3. Sent /\ Acked /\ Believed
  BY <1>2 DEF Init, Sent, Acked, Believed, On
<1> QED
  BY <1>1, <1>3 DEF Init, IInv, Order, View

\* A queue after a frame came, and after one was taken.
LEMMA Queues ==
  ASSUME NEW S, NEW q \in Seq(S)
  PROVE  /\ \A m \in S : /\ Append(q, m) \in Seq(S)
                         /\ DOMAIN Append(q, m) = DOMAIN q \cup {Len(q) + 1}
                         /\ \A i \in DOMAIN q : Append(q, m)[i] = q[i]
                         /\ Append(q, m)[Len(q) + 1] = m
         /\ q # <<>> => /\ Tail(q) \in Seq(S) /\ Head(q) \in S
                        /\ 1 \in DOMAIN q /\ Head(q) = q[1]
                        /\ \A i \in DOMAIN Tail(q) : i + 1 \in DOMAIN q /\ Tail(q)[i] = q[i + 1]
  OBVIOUS

\* A step that changes nothing the invariant is about.
LEMMA Aside ==
  ASSUME IInv, tag' \in Cards \cup {NoCard},
         UNCHANGED <<mem, lostCount, updated, Registered, Gotcha, ForceSync, up, down, known,
                     asked, lastCardType, cardState, cardId, rpc, held, crossed, missed, idLost>>,
         pc' = pc \/ (pc = "loop" /\ pc' = "sent") \/ (pc = "sent" /\ pc' = "loop")
  PROVE  IInv'
  BY DEF IInv, Types, Order, View, Sent, Acked, Believed, Fresh, On, Arrives, Shown

\* A step that only goes on with what has been received keeps the rest of the invariant.
LEMMA Stored ==
  ASSUME IInv,
         UNCHANGED <<tag, mem, lostCount, pc, updated, Registered, Gotcha, ForceSync, up, down,
                     known, asked, crossed, missed>>,
         lastCardType' \in {0, 1, 2}, cardState' \in {"none", "arrival", "left"},
         rpc' \in {"idle", "compare", "state", "id", "changed"}, held' \in Frames,
         View', Arrives(mem) => Arrives(mem)'
  PROVE  IInv'
  BY DEF IInv, Types, Order, Sent, Acked, Believed, Fresh, On

\* A scan: what it changes, it reports.
LEMMA ScanKept == ASSUME IInv, UpdateRfid PROVE IInv'
<1> USE CardSyncAssumption DEF IInv
<1>1. /\ updated' \in BOOLEAN /\ lostCount' \in Nat
      /\ mem' \in Frames /\ (mem'.type = 0 => mem' = Empty)
  <2>1. Empty \in Frames /\ \A t \in {1, 2} : tag \in Cards => [type |-> t, id |-> tag] \in Frames
    BY DEF Frames, Empty, Reader!Empty
  <2>2. CASE ScanNone
    BY <2>1, <2>2 DEF ScanNone, Reader!NoneFound, Empty, Types
  <2>3. CASE ScanSame
    BY <2>3 DEF ScanSame, Reader!SameFound, Reader!Found, Types
  <2>4. CASE ScanNew
    BY <2>1, <2>4 DEF ScanNew, Reader!NewRead, Reader!Found, Empty, Reader!Empty, Types
  <2>5. CASE ScanUnread
    BY <2>1, <2>5 DEF ScanUnread, Reader!NewUnread, Reader!Found, Empty, Types
  <2> QED
    BY <2>2, <2>3, <2>4, <2>5 DEF UpdateRfid
<1>2. updated' \/ mem' = mem
  <2>1. CASE ScanNone
    <3>1. lostCount < RFID_TIME_COUNT => mem' = mem
      BY <2>1 DEF ScanNone, Reader!NoneFound
    <3>2. lostCount >= RFID_TIME_COUNT => mem' = Empty
      BY <2>1 DEF ScanNone, Reader!NoneFound, Empty, Types
    <3>3. lostCount >= RFID_TIME_COUNT /\ mem.type # 0 => updated'
      BY <2>1, Zenon DEF ScanNone
    <3> QED
      BY <3>1, <3>2, <3>3 DEF Types
  <2> QED
    BY <2>1 DEF UpdateRfid, ScanSame, ScanNew, ScanUnread, Reader!SameFound
<1>3. pc = "loop" /\ pc' = "scanned" /\ UNCHANGED <<tag, up, down, flagVars, hostVars, history>>
  BY DEF UpdateRfid
<1>4. Types' /\ Order' /\ View'
  BY <1>1, <1>3
  DEF Types, Order, View, flagVars, hostVars, viewVars, threadVars, history
<1>5. Sent' /\ Acked' /\ Believed'
  BY <1>2, <1>3 DEF Sent, Acked, Believed, Fresh, On, Arrives, Shown, flagVars, hostVars,
     viewVars, threadVars, history
<1> QED
  BY <1>4, <1>5

\* The main loop takes up what the scan found: what is still on its way crosses it.
LEMMA CommitKept == ASSUME IInv, Commit PROVE IInv'
<1> USE DEF IInv
<1>1. /\ UNCHANGED <<tag, mem, lostCount, Registered, up, down, known, asked, lastCardType,
                     cardState, cardId, rpc, held, idLost>>
      /\ pc' = "loop" /\ ~Fresh'
  BY DEF Commit, Fresh, scanVars, hostVars, viewVars, threadVars
<1>2. Types' /\ View'
  <2>1. /\ Gotcha' \in BOOLEAN /\ ForceSync' \in BOOLEAN /\ missed' \in BOOLEAN
        /\ updated' = FALSE
    BY Zenon DEF Commit, Types
  <2> QED
    BY <1>1, <2>1 DEF Types, View
<1>3. Order'
  BY <1>1 DEF Order, Commit, Types
<1>4. ~OnItsWay => DOMAIN up = {} /\ ~On("gotcha")
  BY DEF OnItsWay, On
<1>5. OnItsWay /\ ~crossed' => ~Fresh /\ ~crossed
  BY DEF Commit, Fresh, Types
<1>6. Arrives(mem)' <=> Arrives(mem)
  BY <1>1 DEF Arrives, Shown
<1>7. Sent' /\ Acked'
  BY <1>1, <1>4, <1>5, <1>6 DEF Sent, Acked, On
<1>8. Believed'
  <2>1. CASE Registered /\ (updated \/ ForceSync)
    BY <2>1 DEF Commit, Believed
  <2>2. CASE ~(Registered /\ (updated \/ ForceSync))
    <3>1. UNCHANGED <<ForceSync, Gotcha, missed>> /\ (~crossed' => ~crossed)
      BY <2>2 DEF Commit
    <3>2. CASE updated
      BY <1>1, <2>2, <3>1, <3>2 DEF Believed, Order, Types
    <3>3. CASE ~updated
      BY <1>1, <1>6, <3>1, <3>3 DEF Believed, Fresh, On
    <3> QED
      BY <3>2, <3>3
  <2> QED
    BY <2>1, <2>2
<1> QED
  BY <1>2, <1>3, <1>7, <1>8

\* A broadcast carries MemBuffer.
LEMMA BroadcastKept == ASSUME IInv, Broadcast PROVE IInv'
<1> USE DEF IInv
<1>1. /\ UNCHANGED <<tag, mem, lostCount, updated, flagVars, down, hostVars, history>>
      /\ pc = "loop" /\ pc' = "sent"
  BY DEF Broadcast, scanVars
<1>2. up' = Append(up, mem) \/ up' = up
  BY DEF Broadcast, Send
<1>3. up' \in Seq(Frames) /\ Sent'
  <2>1. CASE up' = up
    BY <1>1, <2>1 DEF Types, Sent, Fresh, history
  <2>2. CASE up' = Append(up, mem)
    <3>1. ~crossed => \A i \in DOMAIN up : up[i] = mem
      BY <1>1 DEF Sent, Fresh
    <3> QED
      BY <1>1, <2>2, <3>1, Queues DEF Types, Sent, history
  <2> QED
    BY <1>2, <2>1, <2>2
<1>4. Types'
  BY <1>1, <1>3 DEF Types, flagVars, hostVars, viewVars, threadVars, history
<1> QED
  BY <1>1, <1>3, <1>4
  DEF Order, View, Acked, Believed, Fresh, On, Arrives, Shown, flagVars, hostVars, viewVars,
      threadVars, history

\* A frame comes from the controller.
LEMMA TriggerKept == ASSUME IInv, CanexSyncTrigger PROVE IInv'
<1> USE DEF IInv
<1>1. /\ UNCHANGED <<tag, mem, lostCount, pc, updated, Registered, up, hostVars, history>>
      /\ down # <<>> /\ down' = Tail(down)
  BY DEF CanexSyncTrigger, scanVars, loopVars
<1>2. /\ down' \in Seq({"gotcha", "ask"}) /\ Head(down) \in {"gotcha", "ask"}
      /\ \A frame : On(frame)' => On(frame)
      /\ \A frame : On(frame) /\ Head(down) # frame => On(frame)'
      /\ On(Head(down))
  <2>1. down' \in Seq({"gotcha", "ask"}) /\ Head(down) \in {"gotcha", "ask"}
    BY <1>1, Queues DEF Types
  <2>2. /\ \A frame : On(frame)' => On(frame)
        /\ On(Head(down))
    BY <1>1, Queues DEF Types, On
  <2>3. \A frame : On(frame) /\ Head(down) # frame => On(frame)'
    <3>1. ASSUME NEW i \in DOMAIN down, i # 1
          PROVE  i - 1 \in DOMAIN down' /\ down'[i - 1] = down[i]
      BY <1>1, <3>1 DEF Types
    <3>2. Head(down) = down[1]
      BY <1>1 DEF Types
    <3> QED
      BY <3>1, <3>2 DEF On
  <2> QED
    BY <2>1, <2>2, <2>3
<1>3. /\ Head(down) = "gotcha" => Gotcha' = TRUE /\ ForceSync' = ForceSync
      /\ Head(down) = "ask" => Gotcha' = Gotcha /\ ForceSync' = TRUE
  BY DEF CanexSyncTrigger, Types
<1>4. Types' /\ Order' /\ View'
  <2>1. UNCHANGED <<known, asked, lastCardType, cardState, rpc, held, missed>>
    BY <1>1 DEF hostVars, viewVars, threadVars, history
  <2>2. Gotcha' \in BOOLEAN /\ ForceSync' \in BOOLEAN /\ (~Registered => Gotcha')
    <3>1. Gotcha \in BOOLEAN /\ ForceSync \in BOOLEAN /\ (~Registered => Gotcha)
      BY DEF Types, Order
    <3>2. CASE Head(down) = "gotcha"
      BY <1>3, <3>1, <3>2, Zenon
    <3>3. CASE Head(down) = "ask"
      BY <1>3, <3>1, <3>3, Zenon
    <3> QED
      BY <1>2, <3>2, <3>3
  <2> QED
    BY <1>1, <1>2, <2>1, <2>2 DEF Types, Order, View
<1>5. Arrives(mem)' <=> Arrives(mem)
  BY <1>1 DEF Arrives, Shown, hostVars, viewVars, threadVars, history
<1>6. Sent' /\ Acked'
  BY <1>1, <1>2, <1>5 DEF Sent, Acked, Fresh, history
<1>7. Believed'
  BY <1>1, <1>2, <1>3, <1>5 DEF Believed, Acked, Fresh, hostVars, history
<1> QED
  BY <1>4, <1>6, <1>7

\* The SYNC_DATA pass asks the unit, or misses it.
LEMMA AskKept == ASSUME IInv, AskData PROVE IInv'
<1> USE DEF IInv
<1>1. /\ UNCHANGED <<tag, mem, lostCount, pc, updated, flagVars, up, known, viewVars,
                     threadVars, crossed, idLost>>
      /\ asked' = TRUE
      /\ down' = down \/ down' = Append(down, "ask")
  BY DEF AskData, Send, unitVars, scanVars, loopVars
<1>2. ~known => down' = down
  BY DEF AskData
<1>3. (down' = down => missed' = missed) /\ missed' \in BOOLEAN
  BY Zenon DEF AskData, Types
<1>4. /\ down' \in Seq({"gotcha", "ask"})
      /\ down' = down \/ On("ask")'
      /\ On("gotcha")' => On("gotcha")
  <2>1. CASE down' = down
    BY <2>1 DEF Types, On
  <2>2. CASE down' = Append(down, "ask")
    BY <2>2, Queues DEF Types, On
  <2> QED
    BY <1>1, <2>1, <2>2
<1>5. Types' /\ View' /\ Sent'
  BY <1>1, <1>3, <1>4 DEF Types, View, Sent, Fresh, flagVars, viewVars, threadVars
<1>6. Order'
  BY <1>1, <1>2, <1>3 DEF Order, flagVars, Types
<1>7. Acked'
  BY <1>1, <1>4 DEF Acked, Fresh, Arrives, Shown, viewVars, threadVars
<1>8. Believed'
  BY <1>1, <1>3, <1>4 DEF Believed, Fresh, On, Arrives, Shown, flagVars, viewVars, threadVars
<1> QED
  BY <1>5, <1>6, <1>7, <1>8

\* A broadcast is taken from the bus, and acknowledged if the unit is known.
LEMMA ReceiveKept == ASSUME IInv, ProcessRecievedEvent PROVE IInv'
<1> USE DEF IInv
<1>1. /\ UNCHANGED <<tag, mem, lostCount, pc, updated, flagVars, known, asked, viewVars, missed,
                     idLost>>
      /\ up # <<>> /\ up' = Tail(up) /\ rpc = "idle"
      /\ ~crossed' => ~crossed \/ (known /\ \A i \in DOMAIN up : up[i] = mem)
  BY DEF ProcessRecievedEvent, unitVars, scanVars, loopVars
<1>2. up' \in Seq(Frames) /\ Sent'
  <2>1. ~Fresh /\ ~crossed' => \A i \in DOMAIN up : up[i] = mem
    BY <1>1 DEF Sent
  <2> QED
    BY <1>1, <2>1, Queues DEF Types, Sent, Fresh
<1>3. CASE ~known
  <2>1. UNCHANGED <<down, rpc, held>> /\ (~crossed' => ~crossed)
    BY <1>1, <1>3 DEF ProcessRecievedEvent
  <2>2. Types'
    BY <1>1, <1>2, <2>1 DEF Types, flagVars, viewVars
  <2> QED
    BY <1>1, <1>2, <2>1, <2>2
    DEF Order, View, Acked, Believed, Fresh, On, Arrives, Shown, flagVars, viewVars
<1>4. CASE known
  <2>1. rpc' = "compare" /\ held' = Head(up) /\ (down' = Append(down, "gotcha") \/ down' = down)
    BY <1>4 DEF ProcessRecievedEvent, Send
  <2>2. Head(up) \in Frames /\ (~Fresh /\ ~crossed' => Head(up) = mem)
    BY <1>1, Queues DEF Types, Sent
  <2>3. down' \in Seq({"gotcha", "ask"})
    BY <2>1, Queues DEF Types
  <2>4. Types' /\ Order' /\ View'
    BY <1>1, <1>2, <2>1, <2>2, <2>3 DEF Types, Order, View, flagVars, viewVars
  <2>5. ~Fresh' /\ ~crossed' => Arrives(mem)'
    BY <1>1, <2>1, <2>2 DEF Fresh, Arrives
  <2>6. Acked' /\ Believed'
    BY <2>5 DEF Acked, Believed
  <2> QED
    BY <1>2, <2>4, <2>6
<1> QED
  BY <1>3, <1>4 DEF Types

\* The polling thread goes on with the broadcast, field by field.
LEMMA StoreKept ==
  ASSUME IInv, Compare \/ StoreState \/ StoreId \/ SetChanged PROVE IInv'
<1> USE DEF IInv
<1>1. UNCHANGED <<tag, mem, lostCount, pc, updated, Registered, Gotcha, ForceSync, up, down,
                  known, asked, crossed, missed>>
  BY DEF Compare, StoreState, StoreId, SetChanged, receiverOnly, unitVars, scanVars, loopVars,
     flagVars
<1>2. Empty \in Frames
  BY DEF Frames, Empty, Reader!Empty
<1>3. CASE Compare
  BY <1>1, <1>2, <1>3, Stored
  DEF Compare, receiverOnly, View, Arrives, Shown, Types, Frames
<1>4. CASE StoreState
  BY <1>1, <1>2, <1>4, Stored
  DEF StoreState, receiverOnly, View, Arrives, Shown, Types, Frames
<1>5. CASE StoreId
  BY <1>1, <1>2, <1>5, Stored
  DEF StoreId, receiverOnly, View, Arrives, Shown, Types, Frames
<1>6. CASE SetChanged
  BY <1>1, <1>2, <1>6, Stored
  DEF SetChanged, receiverOnly, View, Arrives, Shown, Types, Frames
<1> QED
  BY <1>3, <1>4, <1>5, <1>6

\* The inventory thread may take the id away, and then it is lost.
LEMMA UpdateKept == ASSUME IInv, UpdateCard PROVE IInv'
<1> USE DEF IInv
<1>1. UNCHANGED <<tag, mem, lostCount, pc, updated, Registered, Gotcha, ForceSync, up, down,
                  known, asked, crossed, missed, rpc, held, lastCardType, cardState>>
  BY DEF UpdateCard, Visit, ClearChanged, TestLeft, EraseId, visitorOnly, unitVars, scanVars,
     loopVars, flagVars
<1>2. View'
  BY <1>1 DEF View
<1>3. CASE Visit \/ ClearChanged \/ TestLeft
  <2>1. UNCHANGED <<cardId, idLost>>
    BY <1>3 DEF Visit, ClearChanged, TestLeft
  <2> QED
    BY <1>1, <1>2, <2>1, Stored DEF Types, Arrives, Shown
<1>4. CASE EraseId
  <2>1. idLost \/ (cardState = "arrival" /\ rpc # "id") => idLost'
    BY <1>4 DEF EraseId
  <2>2. Arrives(mem) => Arrives(mem)'
    <3>1. CASE rpc \in {"compare", "state", "id"}
      BY <1>1, <3>1 DEF Arrives
    <3>2. CASE rpc \in {"idle", "changed"}
      BY <1>1, <2>1, <3>2 DEF Arrives, Shown
    <3> QED
      BY <3>1, <3>2 DEF Types
  <2> QED
    BY <1>1, <1>2, <2>2, Stored DEF Types
<1> QED
  BY <1>3, <1>4 DEF UpdateCard

\* A restart of the controller takes everything away but the unit.
LEMMA ResetKept == ASSUME IInv, HostReset PROVE IInv'
<1> USE DEF IInv
<1>1. /\ DOMAIN up' = {} /\ DOMAIN down' = {} /\ missed' = Gotcha /\ ~known' /\ rpc' = "idle"
      /\ held' = Empty /\ lastCardType' = 0 /\ cardState' = "none"
      /\ UNCHANGED <<tag, mem, lostCount, pc, updated, Registered, Gotcha, ForceSync>>
  BY DEF HostReset, unitVars, scanVars, loopVars, flagVars
<1>2. up' \in Seq(Frames) /\ down' \in Seq({"gotcha", "ask"})
  BY DEF HostReset
<1>3. Empty \in Frames
  BY DEF Frames, Empty, Reader!Empty
<1>4. Types' /\ Order' /\ View'
  BY <1>1, <1>2, <1>3 DEF HostReset, Types, Order, View
<1> QED
  BY <1>1, <1>4 DEF Sent, Acked, Believed, On

\* Every step keeps the invariant.
LEMMA Kept == ASSUME IInv, [Next]_vars PROVE IInv'
<1>1. CASE MoveCard
  BY <1>1, Aside DEF MoveCard, unitVars, scanVars, loopVars, flagVars, hostVars, viewVars, threadVars,
     history
<1>2. CASE ClearSync \/ Tick \/ UNCHANGED vars
  BY <1>2, Aside DEF ClearSync, Tick, vars, unitVars, scanVars, loopVars, flagVars, hostVars, viewVars,
     threadVars, history, IInv, Types
<1>3. CASE Wake
  BY <1>3, Aside DEF Wake, scanVars, loopVars, hostVars, viewVars, threadVars, history, IInv, Types
<1>4. CASE Register
  BY <1>4 DEF Register, scanVars, loopVars, viewVars, threadVars, history, IInv, Types, Order,
     View, Sent, Acked, Believed, Fresh, On, Arrives, Shown
<1> QED
  BY <1>1, <1>2, <1>3, <1>4, ScanKept, CommitKept, BroadcastKept, TriggerKept, AskKept, ReceiveKept,
     StoreKept, UpdateKept, ResetKept DEF Next, Receive

\* The invariant gives the property.
LEMMA Enough == IInv => AckedMeansSeen
  BY DEF IInv, Types, Believed, Fresh, On, Arrives, AckedMeansSeen, Settled, Excused

\* A unit that believes its data acknowledged, with nothing on its way or being stored, is
\* shown by the controller as it is, unless a GOTCHA was for older data, the unit has not
\* reported since the controller started and the SYNC_DATA pass missed it, or UpdateCard
\* cleared the id of an arrival (CardSync.AckedMeansSeen): a GOTCHA names no broadcast, yet
\* nothing else goes wrong, for any losses, delays and interleavings of the two threads of
\* the controller.
THEOREM AcknowledgedIsShown == Spec => []AckedMeansSeen
<1>1. Init => IInv
  BY InitIInv
<1>2. IInv /\ [Next]_vars => IInv'
  BY Kept
<1>3. IInv => AckedMeansSeen
  BY Enough
<1> QED
  BY <1>1, <1>2, <1>3, PTL DEF Spec
=============================================================================
