------------------------------- MODULE CardSync -------------------------------
(***************************************************************************)
(* One shelf unit reports the card on its reader to the controller.  The   *)
(* main loop scans the reader into MemBuffer; the timer interrupt asks for *)
(* a broadcast of MemBuffer until a GOTCHA arrives.  The controller        *)
(* answers every broadcast of a unit it knows with a GOTCHA, keeps what is *)
(* new, and once after each boot asks every unit for its data (SYNC_DATA). *)
(* On the controller the polling thread stores a broadcast field by field  *)
(* while the inventory thread visits the unit and ends in UpdateCard; no   *)
(* lock keeps them apart.                                                  *)
(***************************************************************************)
EXTENDS Naturals, Sequences

CONSTANTS
  Cards,         \* RFID tags
  Coded,         \* those whose block 0 reads "DIHM"
  NoCard,        \* no tag, the zeroed UID, the empty string
  InitTags,      \* what may be on the reader when the unit starts
  RFID_TIME_COUNT, \* scans without a tag that are forgiven
  MaxEvents,     \* bound: moves of cards, failed scans and restarts of the controller
  QueueCap       \* bound: frames on their way when a broadcast is sent

ASSUME CardSyncAssumption ==
  /\ Coded \subseteq Cards /\ NoCard \notin Cards
  /\ InitTags \subseteq Cards \cup {NoCard}
  /\ RFID_TIME_COUNT \in Nat /\ MaxEvents \in Nat /\ QueueCap \in Nat \ {0}

VARIABLES
  tag,           \* the tag on the reader
  mem,           \* MemBuffer: type 0 none, 1 plain, 2 coded, and the UID
  UIDlast,       \* UID of the tag that was read last
  coded,         \* cardData still holds the "DIHM" of an earlier read
  lostCount,
  pc, updated,   \* main loop: "loop", "scanned", "sent"; UpdateRfid's result
  Connected, Registered, Gotcha, ForceSync, syncTriggered,
  up, down,      \* frames on their way: broadcasts; GOTCHA and SYNC_DATA
  known, asked,  \* controller: unit in unitList; SYNC_DATA pass done
  lastCardType, cardState, cardId, cardChanged,  \* controller: the ShelfUnit
  rpc, held,     \* polling thread: where in ProcessRecievedEvent, the broadcast
  ipc,           \* inventory thread: where in the visit of the unit
  crossed,       \* history: a GOTCHA may be for data older than MemBuffer, which has
                 \* not come to the controller since
  missed,        \* history: the unit has neither reported nor been asked since the
                 \* controller started
  idLost,        \* history: UpdateCard has cleared the id of an arrival
  events

scanVars == <<mem, UIDlast, coded, lostCount>>
loopVars == <<pc, updated>>
flagVars == <<Connected, Registered, Gotcha, ForceSync, syncTriggered>>
unitVars == <<scanVars, loopVars, flagVars>>
viewVars == <<lastCardType, cardState, cardId, cardChanged>>
threadVars == <<rpc, held, ipc>>
history == <<crossed, missed, idLost>>
hostVars == <<known, asked, viewVars, threadVars>>
vars == <<tag, unitVars, up, down, hostVars, history, events>>

\* a scan, with the tag that is on the reader
Reader == INSTANCE TagScan WITH field <- {tag}

Empty == Reader!Empty

Init ==
  /\ tag \in InitTags
  /\ Reader!ScanInit
  /\ pc = "loop" /\ updated = FALSE
  /\ Connected = TRUE /\ Registered = FALSE
  /\ Gotcha = TRUE /\ ForceSync = FALSE /\ syncTriggered = FALSE
  /\ up = <<>> /\ down = <<>>
  /\ known = FALSE /\ asked = FALSE
  /\ lastCardType = 0 /\ cardState = "none" /\ cardId = NoCard
  /\ cardChanged = FALSE
  /\ rpc = "idle" /\ held = Empty /\ ipc = "idle"
  /\ crossed = FALSE /\ missed = TRUE /\ idLost = FALSE
  /\ events = 0

\* a frame at the end of its queue, or lost
Send(queue, frame) == queue' = Append(queue, frame) \/ queue' = queue

Event == events < MaxEvents /\ events' = events + 1

MoveCard ==
  /\ Event
  /\ tag' \in (Cards \cup {NoCard}) \ {tag}
  /\ UNCHANGED <<unitVars, up, down, hostVars, history>>

-----------------------------------------------------------------------------
(* The main loop of the unit.                                              *)

\* a scan that misses the tag, or fails ten times to read it
Fault == Event

\* UpdateRfid: no tag found
ScanNone ==
  /\ Reader!NoneFound
  /\ updated' = (lostCount >= RFID_TIME_COUNT /\ mem.type # 0)
  /\ \/ tag = NoCard /\ UNCHANGED events
     \/ tag # NoCard /\ Fault

\* UpdateRfid: the tag of the last scan
ScanSame == Reader!SameFound(tag) /\ updated' = FALSE /\ UNCHANGED events

\* UpdateRfid: another tag, read
ScanNew == Reader!NewRead(tag) /\ updated' = TRUE /\ UNCHANGED events

\* mutant: a failed read keeps the UID, so the tag is not read again
ScanUnreadKeeps ==
  /\ Reader!Found(tag) /\ tag # UIDlast
  /\ Fault
  /\ updated' = TRUE
  /\ UIDlast' = tag
  /\ mem' = IF coded THEN [type |-> 2, id |-> tag] ELSE Empty
  /\ UNCHANGED coded

\* UpdateRfid: another tag, every read fails
ScanUnread == Reader!NewUnread(tag) /\ updated' = TRUE /\ Fault

UpdateRfid ==
  /\ pc = "loop"
  /\ pc' = "scanned"
  /\ ScanNone \/ ScanSame \/ ScanNew \/ ScanUnread
  /\ UNCHANGED <<tag, flagVars, up, down, hostVars, history>>

\* a broadcast or an acknowledgement has not arrived yet
OnItsWay == up # <<>> \/ \E i \in DOMAIN down : down[i] = "gotcha"

\* mutant: a request for data does not withdraw the acknowledgement
CommitKeepsGotcha ==
  /\ pc = "scanned"
  /\ pc' = "loop" /\ updated' = FALSE
  /\ IF Registered /\ (updated \/ ForceSync)
     THEN /\ ForceSync' = FALSE /\ Gotcha' = (Gotcha /\ ~updated)
          /\ crossed' = (OnItsWay /\ (crossed \/ updated)) /\ missed' = FALSE
     ELSE /\ crossed' = (crossed \/ (updated /\ OnItsWay))
          /\ UNCHANGED <<ForceSync, Gotcha, missed>>
  /\ UNCHANGED <<tag, scanVars, Connected, Registered, syncTriggered, up, down,
                 hostVars, idLost, events>>

\* after UpdateRfid: if (Registered && (updated || ForceSync)).  What is on its
\* way is then of older data (crossed) if there is new.
Commit ==
  /\ pc = "scanned"
  /\ pc' = "loop" /\ updated' = FALSE
  /\ IF Registered /\ (updated \/ ForceSync)
     THEN /\ ForceSync' = FALSE /\ Gotcha' = FALSE
          /\ crossed' = (OnItsWay /\ (crossed \/ updated)) /\ missed' = FALSE
     ELSE /\ crossed' = (crossed \/ (updated /\ OnItsWay))
          /\ UNCHANGED <<ForceSync, Gotcha, missed>>
  /\ UNCHANGED <<tag, scanVars, Connected, Registered, syncTriggered, up, down,
                 hostVars, idLost, events>>

\* CANEXBroadcast(&syncEntry)
Broadcast ==
  /\ pc = "loop" /\ syncTriggered
  /\ pc' = "sent"
  /\ Len(up) + Len(down) < QueueCap
  /\ Send(up, mem)
  /\ UNCHANGED <<tag, scanVars, updated, flagVars, down, hostVars, history, events>>

ClearSync ==
  /\ pc = "sent"
  /\ pc' = "loop"
  /\ syncTriggered' = FALSE
  /\ UNCHANGED <<tag, scanVars, updated, Connected, Registered, Gotcha, ForceSync,
                 up, down, hostVars, history, events>>

-----------------------------------------------------------------------------
(* The interrupts of the unit.                                             *)

\* TIMER32_0_IRQHandler, every HeartbeatInterval
Tick ==
  /\ Connected /\ Registered /\ ~Gotcha
  /\ syncTriggered' = TRUE
  /\ UNCHANGED <<tag, scanVars, loopVars, Connected, Registered, Gotcha, ForceSync,
                 up, down, hostVars, history, events>>

\* CanexSyncTrigger(SYNC_GOTCHA), CanexSyncTrigger(SYNC_RFID)
CanexSyncTrigger ==
  /\ down # <<>>
  /\ down' = Tail(down)
  /\ Gotcha' = (Gotcha \/ Head(down) = "gotcha")
  /\ ForceSync' = (ForceSync \/ Head(down) = "ask")
  /\ UNCHANGED <<tag, scanVars, loopVars, Connected, Registered, syncTriggered,
                 up, hostVars, history, events>>

-----------------------------------------------------------------------------
(* The controller.  Wake and Register stand for module Registration.       *)

\* the SYNC_LIVE of the boot
Wake ==
  /\ ~known /\ Connected
  /\ Connected' = FALSE
  /\ UNCHANGED <<tag, scanVars, loopVars, Registered, Gotcha, ForceSync, syncTriggered,
                 up, down, hostVars, history, events>>

\* the SYNC_LIVE that answers a heartbeat
Register ==
  /\ ~known /\ ~Connected
  /\ known' = TRUE
  /\ Connected' = TRUE /\ Registered' = TRUE
  /\ UNCHANGED <<tag, scanVars, loopVars, Gotcha, ForceSync, syncTriggered, up, down,
                 asked, viewVars, threadVars, history, events>>

\* UpdateUnits: one SYNC_DATA to every unit of the list that no command keeps busy,
\* two seconds after boot
AskData ==
  /\ ~asked
  /\ asked' = TRUE
  /\ \E busy \in BOOLEAN :
       IF known /\ ~busy THEN Send(down, "ask") ELSE UNCHANGED down
  /\ missed' = (missed /\ down' = down)
  /\ UNCHANGED <<tag, unitVars, up, known, viewVars, threadVars, crossed, idLost, events>>

-----------------------------------------------------------------------------
(* The polling thread in ShelfUnit::ProcessRecievedEvent.                  *)

\* mutant: only data that is new is acknowledged
ProcessRecievedEventNew ==
  /\ rpc = "idle" /\ up # <<>>
  /\ up' = Tail(up)
  /\ IF known /\ ~(Head(up).type = lastCardType /\ Head(up).id = cardId)
     THEN Send(down, "gotcha") /\ rpc' = "compare" /\ held' = Head(up)
     ELSE UNCHANGED <<down, rpc, held>>
  /\ crossed' = (crossed /\ ~(known /\ \A i \in DOMAIN up : up[i] = mem))
  /\ UNCHANGED <<tag, unitVars, known, asked, viewVars, ipc, missed, idLost, events>>

\* the GOTCHA goes out first; the broadcast of an unknown unit is dropped
ProcessRecievedEvent ==
  /\ rpc = "idle" /\ up # <<>>
  /\ up' = Tail(up)
  /\ IF known THEN Send(down, "gotcha") /\ rpc' = "compare" /\ held' = Head(up)
              ELSE UNCHANGED <<down, rpc, held>>
  /\ crossed' = (crossed /\ ~(known /\ \A i \in DOMAIN up : up[i] = mem))
  /\ UNCHANGED <<tag, unitVars, known, asked, viewVars, ipc, missed, idLost, events>>

receiverOnly == <<tag, unitVars, up, down, known, asked, ipc, crossed, missed, events>>

\* identical data is ignored; else processing = true, and the type is stored
Compare ==
  /\ rpc = "compare"
  /\ IF held.type = lastCardType /\ held.id = cardId
     THEN rpc' = "idle" /\ held' = Empty /\ UNCHANGED lastCardType
     ELSE rpc' = "state" /\ lastCardType' = held.type /\ UNCHANGED held
  /\ UNCHANGED <<receiverOnly, cardState, cardId, cardChanged, idLost>>

StoreState ==
  /\ rpc = "state"
  /\ IF held.type = 0 THEN cardState' = "left" /\ rpc' = "changed" /\ idLost' = FALSE
                      ELSE cardState' = "arrival" /\ rpc' = "id" /\ UNCHANGED idLost
  /\ UNCHANGED <<receiverOnly, held, lastCardType, cardId, cardChanged>>

StoreId ==
  /\ rpc = "id"
  /\ cardId' = held.id /\ idLost' = FALSE
  /\ rpc' = "changed"
  /\ UNCHANGED <<receiverOnly, held, lastCardType, cardState, cardChanged>>

\* cardChanged = true; processing = false
SetChanged ==
  /\ rpc = "changed"
  /\ cardChanged' = TRUE
  /\ rpc' = "idle" /\ held' = Empty
  /\ UNCHANGED <<receiverOnly, lastCardType, cardState, cardId, idLost>>

Receive == ProcessRecievedEvent \/ Compare \/ StoreState \/ StoreId \/ SetChanged

-----------------------------------------------------------------------------
(* The inventory thread in InventoryRfid and ShelfUnit::UpdateCard.        *)

processing == rpc \in {"state", "id", "changed"}

visitorOnly == <<tag, unitVars, up, down, known, asked, rpc, held, lastCardType, cardState,
                 crossed, missed, events>>

\* WaitProcessing is over, and CardChanged() returns true.  One step is enough: only
\* this thread resets cardChanged, and the next store sets it when it is through.
Visit ==
  /\ ipc = "idle" /\ asked
  /\ ~processing /\ cardChanged
  /\ ipc' = "clear"
  /\ UNCHANGED <<visitorOnly, cardId, cardChanged, idLost>>

\* UpdateCard: cardChanged = false ...
ClearChanged ==
  /\ ipc = "clear"
  /\ ipc' = "test"
  /\ cardChanged' = FALSE
  /\ UNCHANGED <<visitorOnly, cardId, idLost>>

\* ... if (cardState == CardLeft) ...
TestLeft ==
  /\ ipc = "test"
  /\ ipc' = IF cardState = "left" THEN "erase" ELSE "idle"
  /\ UNCHANGED <<visitorOnly, cardId, cardChanged, idLost>>

\* ... cardId.clear(), even if an arrival has been stored since the test
EraseId ==
  /\ ipc = "erase"
  /\ ipc' = "idle"
  /\ cardId' = NoCard
  /\ idLost' = (idLost \/ (cardState = "arrival" /\ rpc # "id"))
  /\ UNCHANGED <<visitorOnly, cardChanged>>

UpdateCard == Visit \/ ClearChanged \/ TestLeft \/ EraseId

-----------------------------------------------------------------------------
HostReset ==
  /\ known /\ Event
  /\ known' = FALSE /\ asked' = FALSE
  /\ up' = <<>> /\ down' = <<>>
  /\ lastCardType' = 0 /\ cardState' = "none" /\ cardId' = NoCard
  /\ cardChanged' = FALSE
  /\ rpc' = "idle" /\ held' = Empty /\ ipc' = "idle"
  /\ missed' = Gotcha /\ idLost' = FALSE
  /\ UNCHANGED <<tag, unitVars, crossed>>

-----------------------------------------------------------------------------
Next ==
  \/ MoveCard \/ UpdateRfid \/ Commit \/ Broadcast \/ ClearSync
  \/ Tick \/ CanexSyncTrigger
  \/ Wake \/ Register \/ AskData \/ HostReset
  \/ Receive \/ UpdateCard

Spec == Init /\ [][Next]_vars

\* The main loop goes round, interrupts and threads run, handshakes end, and
\* the bus does not lose every copy of a frame that is repeated.
BroadcastHeard == Broadcast /\ Len(up') > Len(up)
Acknowledged == ProcessRecievedEvent /\ Len(down') > Len(down)

Fairness ==
  /\ WF_vars(UpdateRfid \/ Commit \/ ClearSync)
  /\ WF_vars(Tick) /\ WF_vars(CanexSyncTrigger)
  /\ WF_vars(Wake \/ Register) /\ WF_vars(AskData)
  /\ WF_vars(Receive) /\ WF_vars(UpdateCard)
  /\ SF_vars(BroadcastHeard) /\ SF_vars(Acknowledged)

FairSpec == Spec /\ Fairness

-----------------------------------------------------------------------------
(* Properties.                                                             *)

\* the controller shows m
Shown(m) ==
  /\ lastCardType = m.type
  /\ m.type # 0 => cardId = m.id /\ cardState = "arrival"
  /\ m.type = 0 => cardState # "arrival"

\* What the code cannot make good by itself, each until the next report of the unit
\* comes or the next arrival is stored.
Excused == crossed \/ missed \/ idLost

\* "Notice device that host has got the process data" (ShelfUnit.cpp:76): a unit that
\* considers its data acknowledged, with nothing on its way or being stored, is shown
\* by the controller as it is in MemBuffer - unless the GOTCHA was for older data, the
\* SYNC_DATA pass did not reach a unit that has not reported since the controller
\* started, or UpdateCard cleared an id stored after its test (ShelfUnit.cpp:22-24).
Settled ==
  /\ Gotcha /\ ~ForceSync /\ ~syncTriggered
  /\ pc = "loop" /\ up = <<>> /\ down = <<>> /\ rpc = "idle"

AckedMeansSeen == Settled => Shown(mem) \/ Excused

\* Once the card lies still, the controller ends up showing it, whatever was moved,
\* missed, misread, lost on the bus or forgotten in a restart before, unless one of
\* the three things befell the last report.  After a card that left, the empty string
\* is back in cardId, so the next report of "no card" is recognised as identical
\* (ShelfUnit.cpp:21-26, 81), although identical reports are ignored and the id is
\* cleared by another thread than the one that stores it.
EventuallySeen ==
  <>[](Excused \/ IF tag = NoCard THEN Shown(Empty) /\ cardId = NoCard
                                  ELSE cardId = tag /\ cardState = "arrival")

\* The handshake ends: broadcasts are acknowledged and then stop.
EventuallyQuiet == <>[](Gotcha /\ up = <<>> /\ down = <<>>)
===============================================================================
