------------------------------ MODULE Inventory ------------------------------
(***************************************************************************)
(* The controller above the CAN bus: the card fields of every ShelfUnit,   *)
(* the memory of UnitManager, and the three threads that share them with   *)
(* no lock: the polling thread (ProcessRecievedEvent), the inventory       *)
(* thread (NetworkEngine::InventoryRfid) and the network thread            *)
(* (TcpClientCommandArrival).  Each is cut where it touches what another   *)
(* one changes.  Baskets move, the server sends commands and the           *)
(* connection comes and goes, all of it at any time.                       *)
(*                                                                         *)
(* Some of these races the code loses.  The history variables `disturbed', *)
(* `hurried' and `slipped' say for which baskets, and for which            *)
(* connection, that may be so; the properties are about all the others.    *)
(***************************************************************************)
EXTENDS Naturals, FiniteSets

CONSTANTS
  Units,        \* ids of the shelf units, in unitList
  Cards,        \* baskets
  NoCard,       \* no basket, the empty string
  MaxEvents     \* bound: placements and removals of baskets, reports that are repeated, list
                \* commands and indicator tests of the server, connections that come up

ASSUME InventoryAssumption ==
  /\ Units \subseteq Nat /\ IsFiniteSet(Units)
  /\ NoCard \notin Cards
  /\ MaxEvents \in Nat

VARIABLES
  at,            \* the basket in each slot
  told,          \* the basket each unit reported last
  cardState, cardId, cardChanged, latest, processing,  \* ShelfUnit
  held,          \* the basket of the broadcast that the polling thread stores
  led,           \* ShelfUnit::ledState
  cardList,      \* UnitManager: the memory of each basket
  conn,          \* TcpClient::conn
  needReport,    \* InventoryRfid
  pc, cur, rest, id, light,  \* InventoryRfid: the unit handled, those to come
  requests,      \* baskets the server has been asked about, not answered
  reported,      \* baskets named to the server over this connection
  disturbed,     \* history: baskets with a report or command in the middle of a pass
  hurried,       \* history: baskets moved on before their arrival was handled
  slipped,       \* history: the connection came up where no pass starts with it
  events         \* those that MaxEvents bounds

unitVars == <<told, cardState, cardId, cardChanged, latest, processing, held>>
memVars == <<led, cardList>>
netVars == <<conn, requests, reported>>
passVars == <<pc, cur, rest, id, light>>
history == <<disturbed, hurried, slipped>>
vars == <<at, unitVars, memVars, netVars, needReport, passVars, history, events>>

Sides == {"left", "right"}
None == "none"

\* Lights: the indicator byte, by what it shows
Off == <<"off", None>>
RedBoth == <<"red", None>>
RedBlink == <<"red blink", None>>
GreenBoth == <<"green", None>>
Green(side) == <<"green", side>>
GreenBlink(side) == <<"green blink", side>>
Lights == {Off, RedBoth, RedBlink, GreenBoth}
          \cup {Green(s) : s \in Sides} \cup {GreenBlink(s) : s \in Sides}

\* IndicatorData of the CardListItem: NA and 0, or a side and its green blink
MemoryLight(memory) == IF memory \in Sides THEN GreenBlink(memory) ELSE Off

\* SetIndicator(item->Direction, Green, LightOn); a shift by NA leaves nothing
TimeoutLight(memory) == IF memory \in Sides THEN Green(memory) ELSE Off

Init ==
  /\ at = [u \in Units |-> NoCard] /\ told = [u \in Units |-> NoCard]
  /\ cardState = [u \in Units |-> None]
  /\ cardId = [u \in Units |-> NoCard]
  /\ cardChanged = [u \in Units |-> FALSE]
  /\ latest \in [Units -> BOOLEAN]  \* not initialised
  /\ processing = [u \in Units |-> FALSE] /\ held = NoCard
  /\ led = [u \in Units |-> Off]
  /\ cardList = [c \in Cards |-> None]
  /\ conn = FALSE /\ needReport = TRUE
  /\ pc = "idle" /\ cur = 0 /\ rest = {} /\ id = NoCard /\ light = Off
  /\ requests = {} /\ reported = {}
  /\ disturbed = {} /\ hurried = {} /\ slipped = FALSE
  /\ events = 0

Event == events < MaxEvents /\ events' = events + 1

\* InventoryRfid has picked u and is not done with it
Handling(u) == pc \notin {"idle", "next"} /\ u = cur

-----------------------------------------------------------------------------
(* Baskets and their reports.                                              *)

Take(u) ==
  /\ at[u] # NoCard
  /\ Event
  /\ at' = [at EXCEPT ![u] = NoCard]
  /\ UNCHANGED <<unitVars, memVars, netVars, needReport, passVars, history>>

\* UpdateLatest is going to be called for c at v
Claims(v, c) ==
  \/ processing[v] /\ held = c
  \/ /\ cardId[v] = c
     /\ \/ pc = "arrival" /\ v = cur
        \/ cardState[v] = "arrival" /\ cardChanged[v] /\ (processing[v] => Handling(v))

\* u has not missed c, but another unit, or no unit, has become the latest with c
Forgot(u, c) == told[u] = c /\ (~latest[u] \/ cardId[u] # c)

Put(c, u) ==
  /\ at[u] = NoCard /\ \A v \in Units : at[v] # c
  /\ Event
  /\ at' = [at EXCEPT ![u] = c]
  /\ hurried' = IF Forgot(u, c) \/ \E v \in Units \ {u} : Claims(v, c)
                THEN hurried \cup {c} ELSE hurried \ {c}
  /\ UNCHANGED <<unitVars, memVars, netVars, needReport, passVars, disturbed, slipped>>

\* not "identical": lastCardType is 0 unless cardState is "arrival"
Differs(u) == (at[u] # NoCard) # (cardState[u] = "arrival") \/ at[u] # cardId[u]

\* the baskets that a report of u makes doubtful: its own, before the last one was
\* handled; the former one, which u claims again for as long as cardId is the old one
Disturbs(u) ==
  IF cardChanged[u] \/ Handling(u) THEN {cardId[u], at[u]}
  ELSE IF at[u] # NoCard /\ ~latest[u] THEN {cardId[u]} ELSE {}

\* ShelfUnit::ProcessRecievedEvent of a broadcast (CardSync: it comes, and again if its
\* SYNC_GOTCHA is lost), up to `latest'
StoreState(u) ==
  /\ \A v \in Units : ~processing[v]
  /\ Differs(u)
  /\ IF at[u] = told[u] THEN Event ELSE UNCHANGED events
  /\ processing' = [processing EXCEPT ![u] = TRUE]
  /\ told' = [told EXCEPT ![u] = at[u]] /\ held' = at[u]
  /\ cardState' = [cardState EXCEPT ![u] = IF at[u] = NoCard THEN "left" ELSE "arrival"]
  /\ latest' = [latest EXCEPT ![u] = at[u] # NoCard]
  /\ disturbed' = disturbed \cup (Disturbs(u) \ {NoCard})
  /\ hurried' = IF at[u] # NoCard /\ Handling(u) THEN hurried \cup ({cardId[u]} \ {NoCard})
                ELSE hurried
  /\ UNCHANGED <<at, cardId, cardChanged, memVars, netVars, needReport, passVars, slipped>>

\* the rest of it; between the two assignments nobody can tell
StoreId(u) ==
  /\ processing[u]
  /\ processing' = [processing EXCEPT ![u] = FALSE] /\ held' = NoCard
  /\ cardId' = [cardId EXCEPT ![u] = IF held = NoCard THEN @ ELSE held]
  /\ cardChanged' = [cardChanged EXCEPT ![u] = TRUE]
  /\ UNCHANGED <<at, told, cardState, latest, memVars, netVars, needReport, passVars, history,
                 events>>

-----------------------------------------------------------------------------
(* NetworkEngine::InventoryRfid, every 100 ms.                             *)

StartPass ==
  /\ pc = "idle"
  /\ pc' = "next"
  /\ rest' = Units
  /\ needReport' = (needReport \/ ~conn)
  /\ UNCHANGED <<at, unitVars, memVars, netVars, cur, id, light, history, events>>

\* WaitProcessing(), GetCardId()
Visit(u) ==
  /\ pc = "next"
  /\ u \in rest /\ \A v \in rest : u <= v
  /\ ~processing[u]
  /\ pc' = "decide"
  /\ cur' = u /\ rest' = rest \ {u}
  /\ id' = cardId[u]
  /\ UNCHANGED <<at, unitVars, memVars, netVars, needReport, light, history, events>>

\* the switch on GetCardState() and CardChanged()
Decide ==
  /\ pc = "decide"
  /\ pc' = CASE cardState[cur] = "arrival" /\ cardChanged[cur] -> "arrival"
             [] cardState[cur] = "arrival" /\ ~cardChanged[cur] /\ needReport -> "report"
             [] cardState[cur] = "left" /\ cardChanged[cur] -> "left"
             [] OTHER -> "next"
  /\ UNCHANGED <<at, unitVars, memVars, netVars, needReport, cur, rest, id, light, history,
                 events>>

\* mutant: the unit itself is not left out
OutdatedSelf(u) == {v \in Units : cardState[v] # "left" /\ latest[v] /\ cardId[v] = cardId[u]}

Outdated(u) == {v \in Units \ {u} :
                  cardState[v] # "left" /\ latest[v] /\ cardId[v] = cardId[u]}

\* the unit handled still is as it was when the pass looked at it
Quiet == cardState[cur] = "arrival" /\ cardId[cur] = id /\ ~processing[cur]

\* a handled basket is no longer doubtful; a report that is being stored is, if its unit has
\* just been told that another one has its former basket
Settle ==
  /\ disturbed' = IF Quiet THEN disturbed \ {id} ELSE disturbed
  /\ hurried' = IF \E v \in Outdated(cur) : processing[v] /\ held # NoCard
                THEN hurried \cup {held} ELSE hurried
  /\ UNCHANGED slipped

\* mutant: only the light of an outdated unit changes
UpdateLatestLightsOnly ==
  /\ pc = "arrival"
  /\ pc' = "lookup"
  /\ led' = [v \in Units |-> IF v \in Outdated(cur) THEN Off ELSE led[v]]
  /\ Settle
  /\ UNCHANGED <<at, unitVars, cardList, netVars, needReport, cur, rest, id, light, events>>

\* UnitManager::UpdateLatest
UpdateLatest ==
  /\ pc = "arrival"
  /\ pc' = "lookup"
  /\ latest' = [v \in Units |-> latest[v] /\ v \notin Outdated(cur)]
  /\ led' = [v \in Units |-> IF v \in Outdated(cur) THEN Off ELSE led[v]]
  /\ Settle
  /\ UNCHANGED <<at, told, cardState, cardId, cardChanged, processing, held, cardList, netVars,
                 needReport, cur, rest, id, light, events>>

Remembered(c) == c \in Cards /\ cardList[c] # None

\* mutant: asks the server only when everything is reported anyway
LookupAsksLate ==
  /\ pc = "lookup"
  /\ IF Remembered(id)
     THEN light' = MemoryLight(cardList[id]) /\ pc' = "light"
     ELSE light' = RedBoth /\ pc' = IF needReport THEN "ask" ELSE "light"
  /\ UNCHANGED <<at, unitVars, memVars, netVars, needReport, cur, rest, id, history, events>>

\* GetLEDState
Lookup ==
  /\ pc = "lookup"
  /\ IF Remembered(id)
     THEN light' = MemoryLight(cardList[id]) /\ pc' = "light"
     ELSE light' = RedBoth /\ pc' = IF needReport THEN "light" ELSE "ask"
  /\ UNCHANGED <<at, unitVars, memVars, netVars, needReport, cur, rest, id, history, events>>

\* SendRequest: nothing without a connection
SendRequest(c) ==
  /\ requests' = IF conn THEN requests \cup {c} ELSE requests
  /\ reported' = IF conn THEN reported \cup {c} ELSE reported
  /\ UNCHANGED conn

Ask ==
  /\ pc = "ask"
  /\ pc' = "light"
  /\ SendRequest(id)
  /\ UNCHANGED <<at, unitVars, memVars, needReport, cur, rest, id, light, history, events>>

\* SetIndicator
Light ==
  /\ pc = "light"
  /\ pc' = "update"
  /\ led' = [led EXCEPT ![cur] = light]
  /\ UNCHANGED <<at, unitVars, cardList, netVars, needReport, cur, rest, id, light, history,
                 events>>

\* IndicatorOff
Leave ==
  /\ pc = "left"
  /\ pc' = "forget"
  /\ led' = [led EXCEPT ![cur] = Off]
  /\ UNCHANGED <<at, unitVars, cardList, netVars, needReport, cur, rest, id, light, history,
                 events>>

\* after UpdateCard of an arrival, and of a loss
Updated == IF pc \in {"update", "clear"} /\ needReport THEN "report" ELSE "next"

\* ShelfUnit::UpdateCard, up to the test of cardState
UpdateCard ==
  /\ pc \in {"update", "forget"}
  /\ pc' = IF cardState[cur] # "left" THEN Updated
           ELSE IF pc = "update" THEN "clear" ELSE "erase"
  /\ cardChanged' = [cardChanged EXCEPT ![cur] = FALSE]
  /\ UNCHANGED <<at, told, cardState, cardId, latest, processing, held, memVars, netVars,
                 needReport, cur, rest, id, light, history, events>>

\* the rest of it: the id of an arrival stored since the test is lost
EraseId ==
  /\ pc \in {"clear", "erase"}
  /\ pc' = Updated
  /\ cardId' = [cardId EXCEPT ![cur] = NoCard]
  /\ hurried' = IF cardState[cur] = "arrival" THEN hurried \cup ({cardId[cur]} \ {NoCard})
                ELSE hurried
  /\ UNCHANGED <<at, told, cardState, cardChanged, latest, processing, held, memVars, netVars,
                 needReport, cur, rest, id, light, disturbed, slipped, events>>

Report ==
  /\ pc = "report"
  /\ pc' = "next"
  /\ SendRequest(id)
  /\ UNCHANGED <<at, unitVars, memVars, needReport, cur, rest, id, light, history, events>>

EndPass ==
  /\ pc = "next" /\ rest = {}
  /\ pc' = "idle"
  /\ needReport' = (needReport /\ ~conn)
  /\ UNCHANGED <<at, unitVars, memVars, netVars, cur, rest, id, light, history, events>>

-----------------------------------------------------------------------------
(* The connection and the commands of the server.                          *)

Connect ==
  /\ ~conn
  /\ Event
  /\ conn' = TRUE
  /\ slipped' = ~(pc = "idle" /\ needReport)
  /\ UNCHANGED <<at, unitVars, memVars, requests, reported, needReport, passVars, disturbed,
                 hurried>>

Disconnect ==
  /\ conn
  /\ conn' = FALSE
  /\ requests' = {} /\ reported' = {}
  /\ UNCHANGED <<at, unitVars, memVars, needReport, passVars, history, events>>

Found(c) == {u \in Units : cardState[u] # "left" /\ latest[u] /\ cardId[u] = c}

\* FindUnit(c) returns u
FindUnit(c, u) == u \in Found(c) /\ \A v \in Found(c) : u <= v

\* the units FindUnit returns for the cards of S
UnitsOf(S) == {u \in Units : \E c \in S : FindUnit(c, u)}

\* the unit among those of S shows Lit(u), the others what they showed
Show(S, Lit(_)) == led' = [u \in Units |-> IF u \in UnitsOf(S) THEN Lit(u) ELSE led[u]]

Command ==
  /\ conn
  /\ UNCHANGED <<at, unitVars, conn, reported, needReport, passVars, hurried, slipped>>

\* the pass has looked up the light of a basket and not lit it: a command for it is doubtful
Overtakes(S) == disturbed' = IF pc \in {"ask", "light"} /\ id \in S
                             THEN disturbed \cup {id} ELSE disturbed

ListCommand ==
  /\ Command
  /\ Event
  /\ UNCHANGED requests

Answer(c) ==
  /\ Command
  /\ c \in requests /\ requests' = requests \ {c}
  /\ Overtakes({c})
  /\ UNCHANGED events

\* CommandBasketPlacementAck, status 0: ClearLEDState
Accept(c) ==
  /\ Answer(c)
  /\ cardList' = [cardList EXCEPT ![c] = "bound"]
  /\ Show({c}, LAMBDA u : Off)

\* CommandBasketPlacementAck, status not 0: RemoveLEDState, red blinks
Reject(c) ==
  /\ Answer(c)
  /\ cardList' = [cardList EXCEPT ![c] = None]
  /\ Show({c}, LAMBDA u : RedBlink)

\* CommandInventoryRequest, left or right: RemoveSide, SetLEDState of the list
Fetch(S, side) ==
  LET old == {c \in Cards : cardList[c] = side}
      found == {c \in S : Found(c) # {}}
  IN
  /\ ListCommand
  /\ Overtakes(found \cup old)
  /\ cardList' = [c \in Cards |-> IF c \in found THEN side
                                  ELSE IF c \in old THEN None ELSE cardList[c]]
  /\ Show(found \cup old, LAMBDA u : IF u \in UnitsOf(found) THEN GreenBlink(side) ELSE Off)

\* CommandInventoryRequest, any other position: RemoveLEDState of the list
ForceClear(S) ==
  /\ ListCommand
  /\ Overtakes(S)
  /\ cardList' = [c \in Cards |-> IF c \in S THEN None ELSE cardList[c]]
  /\ Show(S, LAMBDA u : Off)

\* mutant: the light stays on the left whatever side was remembered
TimeoutLeft(S) ==
  /\ ListCommand
  /\ Overtakes(S)
  /\ cardList' = [c \in Cards |-> IF c \in S THEN None ELSE cardList[c]]
  /\ Show({c \in S : cardList[c] # None}, LAMBDA u : Green("left"))

\* CommandTimeout: SetLEDState of the remembered, RemoveLEDState(keepShown)
Timeout(S) ==
  /\ ListCommand
  /\ Overtakes(S)
  /\ cardList' = [c \in Cards |-> IF c \in S THEN None ELSE cardList[c]]
  /\ Show({c \in S : cardList[c] # None}, LAMBDA u : TimeoutLight(cardList[cardId[u]]))

\* CommandIndicatorTest: until they are handled again, the lights say nothing of the baskets
IndicatorTest ==
  /\ ListCommand
  /\ disturbed' = Cards
  /\ \E shown \in {Off, GreenBoth, RedBoth} : led' = [u \in Units |-> shown]
  /\ UNCHANGED cardList

-----------------------------------------------------------------------------
Environment ==
  \/ \E u \in Units : Take(u) \/ StoreState(u) \/ StoreId(u) \/ \E c \in Cards : Put(c, u)
  \/ Connect \/ Disconnect

InventoryRfid ==
  \/ StartPass \/ (\E u \in Units : Visit(u)) \/ Decide \/ UpdateLatest \/ Lookup \/ Ask
  \/ Light \/ Leave \/ UpdateCard \/ EraseId \/ Report \/ EndPass

TcpClientCommandArrival ==
  \/ \E c \in Cards : Accept(c) \/ Reject(c)
  \/ \E S \in SUBSET Cards \ {{}} :
       ForceClear(S) \/ Timeout(S) \/ \E side \in Sides : Fetch(S, side)
  \/ IndicatorTest

Next == Environment \/ InventoryRfid \/ TcpClientCommandArrival

Spec == Init /\ [][Next]_vars

\* units report what changed, and the polling and the inventory thread run
Fairness ==
  /\ WF_vars(InventoryRfid)
  /\ WF_vars(\E u \in Units : StoreId(u))
  /\ \A u \in Units : SF_vars(at[u] # told[u] /\ StoreState(u))

FairSpec == Spec /\ Fairness

-----------------------------------------------------------------------------
(* Properties.                                                             *)

\* a unit whose last arrival InventoryRfid has handled
Handled(u) == cardState[u] = "arrival" /\ latest[u] /\ ~cardChanged[u]

\* ... or lit, its UpdateCard to come
Lit(u) == Handled(u) \/ (Handling(u) /\ pc = "update" /\ cardState[u] = "arrival" /\ latest[u])

\* "Update this unit as latest and other as old" (NetworkEngine.cpp:58): at every step of a
\* pass no two units that were handled claim the same basket, so FindUnit has one answer,
\* unless the basket was reported again, or its unit was, in the middle of being handled.
OneLatest ==
  \A u, v \in Units : Lit(u) /\ Lit(v) /\ cardId[u] = cardId[v]
                      /\ cardId[u] \in Cards \ disturbed => u = v

\* Whenever every unit has reported what lies on it, FindUnit finds every basket exactly
\* where it is, unless the basket was moved on before its arrival was handled, or back to a
\* unit that had not missed it (UnitManager.cpp:7-36).
FoundWhereItIs ==
  (\A u \in Units : told[u] = at[u] /\ ~processing[u])
  => \A u \in Units : at[u] \notin {NoCard} \cup hurried => Found(at[u]) = {u}

\* Once baskets lie still, FindUnit finds each that was not hurried where it is, for good.
EventuallyFound ==
  <>[](\A u \in Units : at[u] \notin {NoCard} \cup hurried
                        => Handled(u) /\ Found(at[u]) = {u})

(* The state chart: a basket is in the state that its memory and the light *)
(* of its unit show; one that is not lit yet, or doubtful, is Idle.        *)
ChartState(c) ==
  IF c \in disturbed \/ \A u \in Units : ~(FindUnit(c, u) /\ Lit(u)) THEN <<"Idle", None>>
  ELSE LET shown == led[CHOOSE u \in Units : FindUnit(c, u)] IN
       CASE cardList[c] # None ->
              IF shown = MemoryLight(cardList[c]) THEN <<"Memory", None>> ELSE <<"wrong", None>>
         [] cardList[c] = None /\ shown = RedBoth -> <<"Unbound", None>>
         [] cardList[c] = None /\ shown = RedBlink -> <<"Error", None>>
         [] cardList[c] = None /\ shown = Off -> <<"Cancel", None>>
         [] OTHER -> <<"Timeout", shown[2]>>

\* "Unbound and request server" (NetworkEngine.cpp:58-67): between two passes a basket that
\* is shown as unbound has been named to the server over this very connection, reconnects
\* included, unless the connection came up where the inventory thread could not tell.
RedMeansReported ==
  pc = "idle" /\ conn /\ ~needReport /\ ~slipped =>
    \A c \in Cards : ChartState(c) = <<"Unbound", None>> => c \in reported

Chart == INSTANCE StateChart WITH state <- [c \in Cards |-> ChartState(c)],
                                  memory <- cardList

\* The controller implements the state chart, for every basket that is not doubtful.
FollowsChart == Chart!Spec
=============================================================================
