-------------------------- MODULE Inventory_proofs --------------------------
(***************************************************************************)
(* The inventory thread against the polling and the network thread, for    *)
(* any number of units, baskets, reports, commands and connections, with   *)
(* every interleaving of the three.                                        *)
(***************************************************************************)
EXTENDS Inventory, TLAPS

Working == pc \notin {"idle", "next"}
Past == pc \in {"lookup", "ask", "light", "update"}
Arriving == pc = "arrival" \/ Past
Leaving == pc \in {"left", "forget", "erase"}

Memories == {None, "bound"} \cup Sides
NoneOr(S) == S \cup {NoCard}

Types ==
  /\ at \in [Units -> NoneOr(Cards)] /\ told \in [Units -> NoneOr(Cards)]
  /\ cardState \in [Units -> {None, "left", "arrival"}]
  /\ cardId \in [Units -> NoneOr(Cards)]
  /\ cardChanged \in [Units -> BOOLEAN] /\ latest \in [Units -> BOOLEAN]
  /\ processing \in [Units -> BOOLEAN] /\ held \in NoneOr(Cards)
  /\ DOMAIN led = Units /\ cardList \in [Cards -> Memories]
  /\ conn \in BOOLEAN /\ needReport \in BOOLEAN /\ slipped \in BOOLEAN
  /\ pc \in {"idle", "next", "decide", "arrival", "lookup", "ask", "light", "update", "clear",
             "left", "forget", "erase", "report"}
  /\ rest \subseteq Units
  /\ Working => cur \in Units /\ cur \notin rest
  /\ disturbed \subseteq Cards /\ hurried \subseteq Cards

\* the fields of a unit agree with what it reported last
Agreed ==
  /\ \A u, v \in Units : processing[u] /\ processing[v] => u = v
  /\ \A u \in Units :
       /\ cardState[u] = "arrival" <=> told[u] # NoCard
       /\ cardState[u] = "left" => ~latest[u]
       /\ cardState[u] = None => cardId[u] = NoCard
       /\ processing[u] => held = told[u] /\ cardState[u] # None
       /\ cardState[u] = "arrival" /\ ~processing[u] => cardId[u] \in {told[u], NoCard}

\* the unit being handled is as it was when the pass looked at it, or its baskets are doubtful
Same == cardId[cur] = id /\ ~processing[cur]
Doubtful ==
  /\ {id, cardId[cur]} \subseteq NoneOr(disturbed)
  /\ processing[cur] => held \in NoneOr(disturbed)
Stage ==
  Working =>
    /\ Doubtful \/ Same
    /\ Arriving \/ pc = "report" => Doubtful \/ cardState[cur] = "arrival"
    /\ Leaving => Doubtful \/ cardState[cur] = "left"
    /\ pc = "clear" => Doubtful
    /\ Arriving \/ pc \in {"left", "forget"} => cardChanged[cur]

\* a unit claims its former basket while the next one is stored, and that one is doubtful
Storing ==
  \A u \in Units : processing[u] /\ cardChanged[u] /\ cardState[u] = "arrival" /\ latest[u]
                   => cardId[u] \in NoneOr(disturbed)

\* the unit in which FindUnit should find its basket
Sure(w) == /\ cardState[w] = "arrival" /\ latest[w]
           /\ ~cardChanged[w] \/ (w = cur /\ Past)

\* another one that claims it has yet to be handled
Single ==
  \A w, u \in Units :
    /\ w # u /\ Sure(w) /\ cardState[u] = "arrival" /\ latest[u]
    /\ cardId[u] = cardId[w] /\ cardId[w] \in Cards \ disturbed
    => cardChanged[u]

\* UpdateLatest has made room for the arrival, and nobody else was handled since
Cleared ==
  Past /\ id \in Cards \ disturbed => \A v \in Units \ {cur} : Handled(v) => cardId[v] # id

CardInv == Types /\ Agreed /\ Stage /\ Storing /\ Single /\ Cleared

\* red means reported: a red light is lit only after the request
Asked ==
  conn /\ ~slipped /\ ~needReport /\ pc = "light" /\ light = RedBoth => id \in reported
Named ==
  conn /\ ~slipped /\ ~needReport =>
    \A u \in Units : Lit(u) /\ led[u] = RedBoth /\ cardId[u] \in Cards \ disturbed
                     => cardId[u] \in reported
\* in the pass after the connection came up: who is not to come is named
Passed ==
  pc # "idle" /\ conn /\ ~slipped /\ needReport =>
    \A u \in Units \ rest : Lit(u) /\ cardId[u] \in Cards \ disturbed /\ ~Handling(u)
                            => cardId[u] \in reported

NetInv == Asked /\ Named /\ Passed

Right(shown) == shown = IF Remembered(id) THEN MemoryLight(cardList[id]) ELSE RedBoth
Bright == pc \in {"ask", "light"} /\ id \in Cards \ disturbed => Right(light)

\* a basket is in one slot
Alone == \A u, v \in Units : at[u] = at[v] /\ at[u] # NoCard => u = v

\* no other unit is going to be the latest with it
Pending ==
  \A u, v \in Units : u # v /\ at[u] \in Cards \ hurried => ~Claims(v, at[u])

\* its own unit is, once it has reported it
Kept ==
  \A u \in Units : at[u] \in Cards \ hurried /\ told[u] = at[u]
                   => latest[u] /\ (processing[u] \/ cardId[u] = at[u])

PlaceInv == Alone /\ Pending /\ Kept

-----------------------------------------------------------------------------
(* The card fields.                                                        *)

\* Initially nothing is known.
LEMMA InitCard == Init => CardInv
<1> SUFFICES ASSUME Init PROVE CardInv
  OBVIOUS
<1>1. Types
  BY DEF Init, Types, NoneOr, Memories, Working, None
<1>2. Agreed /\ Stage /\ Storing /\ Single /\ Cleared
  BY DEF Init, Agreed, Stage, Storing, Single, Sure, Cleared, Working, Past, None
<1> QED
  BY <1>1, <1>2 DEF CardInv

\* What leaves the card fields and the pass alone, and at most makes baskets doubtful, keeps
\* the invariant: moves, the connection, the commands.
LEMMA Aside ==
  ASSUME CardInv, UNCHANGED <<unitVars, passVars>>, disturbed \subseteq disturbed', Types'
  PROVE  CardInv'
<1> USE DEF CardInv
<1>1. Agreed' /\ Stage'
  BY DEF Agreed, Stage, Doubtful, Same, NoneOr, Working, Arriving, Past, Leaving, unitVars, passVars
<1>2. Storing' /\ Single' /\ Cleared'
  BY DEF Storing, Single, Sure, Cleared, NoneOr, Handled, Past, unitVars, passVars
<1> QED
  BY <1>1, <1>2

\* The commands of the server set lights and memories, and never touch a card field.
LEMMA Commands ==
  ASSUME Types, TcpClientCommandArrival
  PROVE  /\ UNCHANGED <<at, unitVars, conn, reported, needReport, passVars, hurried, slipped>>
         /\ disturbed \subseteq disturbed'
         /\ Types'
<1>1. UNCHANGED <<at, unitVars, conn, reported, needReport, passVars, hurried, slipped>>
  BY DEF TcpClientCommandArrival, Accept, Reject, ForceClear, Timeout, Fetch, IndicatorTest,
     Answer, ListCommand, Command
<1>2. DOMAIN led' = Units
  BY DEF TcpClientCommandArrival, Accept, Reject, ForceClear, Timeout, Fetch, IndicatorTest, Show
<1>3. cardList' \in [Cards -> Memories]
  BY DEF TcpClientCommandArrival, Accept, Reject, ForceClear, Timeout, Fetch, IndicatorTest, Types,
     Memories
<1>4. disturbed \subseteq disturbed' /\ disturbed' \subseteq Cards
  <2>1. ASSUME NEW S \in SUBSET Cards, Overtakes(S)
        PROVE  disturbed \subseteq disturbed' /\ disturbed' \subseteq Cards
    BY <2>1 DEF Overtakes, Types
  <2>2. CASE IndicatorTest
    BY <2>2 DEF IndicatorTest, Types
  <2>3. ASSUME NEW c \in Cards, Accept(c) \/ Reject(c)
        PROVE  disturbed \subseteq disturbed' /\ disturbed' \subseteq Cards
    BY <2>3, <2>1 DEF Accept, Reject, Answer
  <2>4. ASSUME NEW S \in SUBSET Cards, ForceClear(S) \/ Timeout(S)
        PROVE  disturbed \subseteq disturbed' /\ disturbed' \subseteq Cards
    BY <2>4, <2>1 DEF ForceClear, Timeout
  <2>5. ASSUME NEW S \in SUBSET Cards, NEW side \in Sides, Fetch(S, side)
        PROVE  disturbed \subseteq disturbed' /\ disturbed' \subseteq Cards
    <3>1. {c \in S : Found(c) # {}} \cup {c \in Cards : cardList[c] = side} \in SUBSET Cards
      OBVIOUS
    <3> QED
      BY <2>5, <3>1, <2>1 DEF Fetch
  <2> QED
    BY <2>2, <2>3, <2>4, <2>5 DEF TcpClientCommandArrival
<1>5. Types'
  BY <1>1, <1>2, <1>3, <1>4 DEF Types, Working, unitVars, passVars
<1> QED
  BY <1>1, <1>4, <1>5

\* The steps of the pass that only look, light and send.
LEMMA LookKeeps ==
  ASSUME CardInv,
         \/ StartPass \/ Decide \/ Lookup \/ Ask \/ Light \/ Leave \/ Report \/ EndPass
         \/ \E u \in Units : Visit(u)
  PROVE  CardInv'
<1> USE DEF CardInv
<1>1. UNCHANGED <<at, unitVars, conn, cardList, disturbed, hurried, slipped>> /\ DOMAIN led' = Units
  BY DEF StartPass, Decide, Lookup, Ask, Light, Leave, Report, EndPass, Visit, SendRequest, netVars,
     memVars, history, Types
<1>2. Types'
  <2>1. needReport' \in BOOLEAN
    BY DEF StartPass, Decide, Lookup, Ask, Light, Leave, Report, EndPass, Visit, Types
  <2>2. /\ pc' \in {"idle", "next", "decide", "arrival", "lookup", "ask", "light", "update", "clear",
                   "left", "forget", "erase", "report"}
        /\ rest' \subseteq Units
        /\ Working' => cur' \in Units /\ cur' \notin rest'
    BY DEF StartPass, Decide, Lookup, Ask, Light, Leave, Report, EndPass, Visit, Types, Working
  <2> QED
    BY <1>1, <2>1, <2>2 DEF Types, unitVars
<1>3. Agreed' /\ Storing'
  BY <1>1 DEF Agreed, Storing, NoneOr, unitVars
<1>4. Stage'
  <2>1. CASE StartPass \/ Report \/ EndPass
    BY <2>1 DEF StartPass, Report, EndPass, Stage, Working
  <2>2. CASE \E u \in Units : Visit(u)
    BY <1>1, <2>2 DEF Visit, Stage, Working, Same, Arriving, Past, Leaving, unitVars
  <2>3. CASE Decide
    BY <1>1, <2>3 DEF Decide, Stage, Working, Same, Doubtful, Arriving, Past, Leaving, unitVars
  <2>4. CASE Lookup \/ Ask \/ Light \/ Leave
    BY <1>1, <2>4 DEF Lookup, Ask, Light, Leave, Stage, Working, Same, Doubtful, Arriving, Past,
       Leaving, unitVars
  <2> QED
    BY <2>1, <2>2, <2>3, <2>4
<1>5. Single' /\ Cleared'
  <2>1. CASE StartPass \/ Report \/ EndPass \/ Decide \/ Leave \/ \E u \in Units : Visit(u)
    BY <1>1, <2>1 DEF StartPass, Report, EndPass, Decide, Leave, Visit, Single, Sure, Cleared,
       Handled, Past, unitVars
  <2>2. CASE Lookup \/ Ask \/ Light
    <3>1. Past /\ Past' /\ UNCHANGED <<cur, id>>
      BY <2>2 DEF Lookup, Ask, Light, Past
    <3> QED
      BY <1>1, <3>1 DEF Single, Sure, Cleared, Handled, unitVars
  <2> QED
    BY <2>1, <2>2
<1> QED
  BY <1>2, <1>3, <1>4, <1>5

\* A broadcast whose first half is stored makes doubtful what it must.
LEMMA StoreStateKeeps ==
  ASSUME CardInv, NEW x \in Units, StoreState(x)
  PROVE  CardInv'
<1> USE DEF CardInv
<1>1. /\ \A v \in Units : ~processing[v]
      /\ processing' = [processing EXCEPT ![x] = TRUE]
      /\ told' = [told EXCEPT ![x] = at[x]] /\ held' = at[x]
      /\ cardState' = [cardState EXCEPT ![x] = IF at[x] = NoCard THEN "left" ELSE "arrival"]
      /\ latest' = [latest EXCEPT ![x] = at[x] # NoCard]
      /\ disturbed' = disturbed \cup (Disturbs(x) \ {NoCard})
      /\ UNCHANGED <<at, cardId, cardChanged, memVars, netVars, needReport, passVars, slipped>>
      /\ hurried' \subseteq hurried \cup ({cardId[x]} \ {NoCard})
  BY DEF StoreState
<1>2. disturbed \subseteq disturbed' /\ Disturbs(x) \subseteq NoneOr(Cards)
      /\ Disturbs(x) \subseteq NoneOr(disturbed')
  BY <1>1 DEF Disturbs, NoneOr, Types
<1>3. cardChanged[x] \/ Handling(x) => {cardId[x], at[x]} \subseteq NoneOr(disturbed')
  BY <1>2 DEF Disturbs
<1>4. at[x] # NoCard /\ ~latest[x] => cardId[x] \in NoneOr(disturbed')
  BY <1>2, <1>3 DEF Disturbs
<1>5. Types'
  <2>1. latest' \in [Units -> BOOLEAN] /\ processing' \in [Units -> BOOLEAN]
    BY <1>1, Zenon DEF Types
  <2>2. told' \in [Units -> NoneOr(Cards)] /\ held' \in NoneOr(Cards)
        /\ cardState' \in [Units -> {None, "left", "arrival"}]
    BY <1>1 DEF Types
  <2>3. disturbed' \subseteq Cards /\ hurried' \subseteq Cards
    BY <1>1, <1>2 DEF Types, NoneOr
  <2> QED
    BY <1>1, <2>1, <2>2, <2>3 DEF Types, Working, memVars, netVars, passVars
<1>6. Agreed'
  BY <1>1 DEF Agreed, Types, None
<1>7. Stage'
  <2>1. CASE Working /\ x = cur
    <3>1. {id, cardId[cur]} \subseteq NoneOr(disturbed')
      BY <1>1, <1>2, <1>3, <2>1 DEF Stage, Doubtful, Same, Handling, Working, NoneOr
    <3>2. Doubtful'
      BY <1>1, <1>3, <2>1, <3>1 DEF Doubtful, Handling, Working, passVars
    <3> QED
      BY <1>1, <3>2 DEF Stage, Working, Arriving, Past, Leaving, passVars
  <2>2. CASE ~Working \/ x # cur
    BY <1>1, <1>2, <2>2 DEF Stage, Doubtful, Same, Working, Arriving, Past, Leaving, NoneOr, passVars,
       Types
  <2> QED
    BY <2>1, <2>2
<1>8. Storing'
  BY <1>1, <1>2, <1>3 DEF Storing, NoneOr, Types
<1>9. \A v \in Units \ {x} : UNCHANGED <<cardState[v], latest[v]>>
  BY <1>1 DEF Types
<1>10. cardState'[x] = "arrival" /\ cardId[x] \in Cards \ disturbed'
       => /\ ~cardChanged[x] /\ ~Handling(x)
          /\ cardState[x] = "arrival" /\ latest[x]
  BY <1>1, <1>3, <1>4, InventoryAssumption DEF Types, Agreed, NoneOr
<1>11. Single'
  <2> SUFFICES ASSUME NEW w \in Units, NEW u \in Units, w # u, Sure(w)', cardState'[u] = "arrival",
                      latest'[u], cardId[u] = cardId[w], cardId[w] \in Cards \ disturbed'
               PROVE  cardChanged[u]
    BY <1>1 DEF Single
  <2>1. cardState[w] = "arrival" /\ latest[w] /\ cardState[u] = "arrival" /\ latest[u]
    BY <1>9, <1>10 DEF Sure
  <2>2. Sure(w)
    BY <1>1, <2>1 DEF Sure, Past, passVars
  <2> QED
    BY <1>2, <2>1, <2>2 DEF Single
<1>12. Cleared'
  <2> SUFFICES ASSUME Past, id \in Cards \ disturbed', NEW v \in Units \ {cur}, Handled(v)',
                      cardId[v] = id
               PROVE  FALSE
    BY <1>1 DEF Cleared, Past, passVars
  <2>1. Handled(v)
    BY <1>1, <1>9, <1>10 DEF Handled
  <2> QED
    BY <1>2, <2>1 DEF Cleared
<1> QED
  BY <1>5, <1>6, <1>7, <1>8, <1>11, <1>12

\* With its second half the basket waits to be handled.
LEMMA StoreIdKeeps ==
  ASSUME CardInv, NEW x \in Units, StoreId(x)
  PROVE  CardInv'
<1> USE DEF CardInv
<1>1. /\ processing[x] /\ processing' = [processing EXCEPT ![x] = FALSE] /\ held' = NoCard
      /\ cardId' = [cardId EXCEPT ![x] = IF held = NoCard THEN @ ELSE held]
      /\ cardChanged' = [cardChanged EXCEPT ![x] = TRUE]
      /\ UNCHANGED <<at, told, cardState, latest, memVars, netVars, needReport, passVars, disturbed,
                     hurried, slipped>>
  BY DEF StoreId, history
<1>2. \A v \in Units \ {x} : UNCHANGED <<cardId[v], cardChanged[v], processing[v]>>
  BY <1>1 DEF Types
<1>3. cardChanged'[x] /\ ~processing'[x] /\ \A v \in Units : ~processing'[v]
  BY <1>1, <1>2 DEF Types, Agreed
<1>4. cardId'[x] = IF held = NoCard THEN cardId[x] ELSE held
  BY <1>1 DEF Types
<1>5. Types'
  <2>1. cardChanged' \in [Units -> BOOLEAN] /\ processing' \in [Units -> BOOLEAN]
    BY <1>1, Zenon DEF Types
  <2>2. cardId' \in [Units -> NoneOr(Cards)] /\ held' \in NoneOr(Cards)
    BY <1>1 DEF Types, NoneOr
  <2> QED
    BY <1>1, <2>1, <2>2 DEF Types, Working, memVars, netVars, passVars
<1>6. Agreed'
  <2>1. held = told[x] /\ cardState[x] # None
    BY <1>1, InventoryAssumption DEF Agreed, None
  <2> QED
    BY <1>1, <1>2, <1>3, <1>4, <2>1 DEF Agreed
<1>7. Stage'
  <2>1. CASE Working /\ x = cur
    <3>1. Doubtful
      BY <1>1, <2>1 DEF Stage, Same
    <3>2. Doubtful'
      BY <1>1, <1>3, <1>4, <2>1, <3>1 DEF Doubtful, passVars
    <3> QED
      BY <1>1, <1>3, <2>1, <3>2 DEF Stage, passVars
  <2>2. CASE ~Working \/ x # cur
    BY <1>1, <1>2, <2>2 DEF Stage, Doubtful, Same, Working, Arriving, Past, Leaving, NoneOr, passVars,
       Types
  <2> QED
    BY <2>1, <2>2
<1>8. Storing'
  BY <1>3 DEF Storing
<1>9. x = cur /\ Past => cardId'[x] \in NoneOr(disturbed)
  BY <1>1, <1>4 DEF Stage, Same, Doubtful, Working, Past
<1>10. Single'
  <2> SUFFICES ASSUME NEW w \in Units, NEW u \in Units, w # u, Sure(w)', cardState[u] = "arrival",
                      latest[u], cardId'[u] = cardId'[w], cardId'[w] \in Cards \ disturbed
               PROVE  cardChanged'[u]
    BY <1>1 DEF Single
  <2>1. w # x
    BY <1>1, <1>3, <1>9, InventoryAssumption DEF Sure, NoneOr, Past, passVars
  <2>2. CASE u = x
    BY <1>3, <2>2
  <2>3. CASE u # x
    BY <1>1, <1>2, <2>1, <2>3 DEF Single, Sure, Past, passVars
  <2> QED
    BY <2>2, <2>3
<1>11. Cleared'
  <2>1. \A v \in Units : Handled(v)' => v # x /\ Handled(v)
    BY <1>1, <1>2, <1>3 DEF Handled
  <2> QED
    BY <1>1, <1>2, <2>1 DEF Cleared, Past, passVars
<1> QED
  BY <1>5, <1>6, <1>7, <1>8, <1>10, <1>11

\* UpdateLatest leaves the basket to the unit that is handled.
LEMMA UpdateLatestKeeps ==
  ASSUME CardInv, UpdateLatest
  PROVE  CardInv'
<1> USE DEF CardInv
<1>1. /\ pc = "arrival" /\ pc' = "lookup"
      /\ latest' = [v \in Units |-> latest[v] /\ v \notin Outdated(cur)]
      /\ UNCHANGED <<at, told, cardState, cardId, cardChanged, processing, held, cardList, netVars,
                     needReport, cur, rest, id, slipped>>
      /\ disturbed' = IF Quiet THEN disturbed \ {id} ELSE disturbed
      /\ DOMAIN led' = Units
      /\ cur \in Units /\ cardChanged[cur]
  BY DEF UpdateLatest, Settle, Types, Stage, Working, Arriving
<1>2. hurried' \subseteq Cards
  BY DEF UpdateLatest, Settle, Types, NoneOr
<1>3. \A v \in Units : latest'[v] <=> latest[v] /\ v \notin Outdated(cur)
  BY <1>1
<1>4. \A v \in Units \ {cur} : cardState[v] = "arrival" /\ latest'[v] => cardId[v] # cardId[cur]
  BY <1>3 DEF Outdated
<1>5. Types'
  <2>1. latest' \in [Units -> BOOLEAN]
    BY <1>1, Zenon DEF Types
  <2> QED
    BY <1>1, <1>2, <2>1 DEF Types, Working, netVars
<1>6. Agreed'
  BY <1>1, <1>3 DEF Agreed
<1>7. Doubtful \/ Quiet
  BY <1>1 DEF Stage, Working, Arriving, Same, Quiet
<1>8. Stage'
  <2>1. CASE Quiet
    BY <1>1, <2>1 DEF Stage, Quiet, Same, Working, Arriving, Past, Leaving
  <2>2. CASE ~Quiet
    BY <1>1, <1>7, <2>2 DEF Stage, Doubtful, Same, Working, Arriving, Past, Leaving
  <2> QED
    BY <2>1, <2>2
<1>9. \A c : c \in disturbed /\ c \notin disturbed' => Quiet /\ c = cardId[cur]
  BY <1>1 DEF Quiet
<1>10. Storing'
  <2> SUFFICES ASSUME NEW u \in Units, processing[u], cardChanged[u], cardState[u] = "arrival",
                      latest'[u]
               PROVE  cardId[u] \in NoneOr(disturbed')
    BY <1>1 DEF Storing
  <2>1. cardId[u] \in NoneOr(disturbed)
    BY <1>3 DEF Storing
  <2>2. Quiet => u # cur /\ cardId[u] # cardId[cur]
    BY <1>4 DEF Quiet
  <2> QED
    BY <1>9, <2>1, <2>2 DEF NoneOr
<1>11. \A v \in Units \ {cur} : Sure(v)' => Sure(v)
  BY <1>1, <1>3 DEF Sure
<1>12. Single'
  <2> SUFFICES ASSUME NEW w \in Units, NEW u \in Units, w # u, Sure(w)', cardState[u] = "arrival",
                      latest'[u], cardId[u] = cardId[w], cardId[w] \in Cards \ disturbed'
               PROVE  cardChanged[u]
    BY <1>1 DEF Single
  <2>1. CASE u = cur
    BY <1>1, <2>1
  <2>2. CASE u # cur
    <3>1. cardId[w] # cardId[cur] /\ w # cur
      BY <1>4, <2>2
    <3> QED
      BY <1>3, <1>9, <1>11, <3>1 DEF Single
  <2> QED
    BY <2>1, <2>2
<1>13. Cleared'
  <2> SUFFICES ASSUME id \in Cards \ disturbed', NEW v \in Units \ {cur}, Handled(v)', cardId[v] = id
               PROVE  FALSE
    BY <1>1 DEF Cleared
  <2>1. Quiet
    BY <1>1, <1>7, InventoryAssumption DEF Doubtful, NoneOr
  <2> QED
    BY <1>1, <1>4, <2>1 DEF Quiet, Handled
<1> QED
  BY <1>5, <1>6, <1>8, <1>10, <1>12, <1>13

\* UpdateCard changes nothing that was handled without doubt.
LEMMA UpdateCardKeeps ==
  ASSUME CardInv, UpdateCard
  PROVE  CardInv'
<1> USE DEF CardInv
<1>1. /\ pc \in {"update", "forget"} /\ pc' \in {"clear", "erase", "report", "next"}
      /\ pc' \in {"clear", "erase"} <=> cardState[cur] = "left"
      /\ pc' \in {"clear", "report"} => pc = "update"
      /\ pc' = "erase" => pc = "forget"
      /\ cardChanged' = [cardChanged EXCEPT ![cur] = FALSE]
      /\ UNCHANGED <<at, told, cardState, cardId, latest, processing, held, memVars, netVars,
                     needReport, cur, rest, id, history>>
      /\ cur \in Units
  BY DEF UpdateCard, Updated, Types, Working
<1>2. \A v \in Units \ {cur} : cardChanged'[v] = cardChanged[v]
  BY <1>1 DEF Types
<1>3. Types'
  <2>1. cardChanged' \in [Units -> BOOLEAN]
    BY <1>1, Zenon DEF Types
  <2> QED
    BY <1>1, <2>1 DEF Types, Working, memVars, netVars, history
<1>4. Agreed'
  BY <1>1 DEF Agreed
<1>5. Stage'
  BY <1>1 DEF Stage, Doubtful, Same, Working, Arriving, Past, Leaving, NoneOr, history
<1>6. Storing'
  BY <1>1, <1>2 DEF Storing, Types, NoneOr, history
<1>7. cardState[cur] = "arrival" /\ cardId[cur] \in Cards \ disturbed => pc = "update"
  BY <1>1, InventoryAssumption DEF Stage, Working, Leaving, Doubtful, NoneOr
<1>8. \A v \in Units : Sure(v)' /\ cardId[v] \in Cards \ disturbed => Sure(v)
  BY <1>1, <1>2, <1>7 DEF Sure, Past
<1>9. Single'
  <2> SUFFICES ASSUME NEW w \in Units, NEW u \in Units, w # u, Sure(w)', cardState[u] = "arrival",
                      latest[u], cardId[u] = cardId[w], cardId[w] \in Cards \ disturbed
               PROVE  cardChanged'[u]
    BY <1>1 DEF Single, history
  <2>1. Sure(w) /\ cardChanged[u]
    BY <1>8 DEF Single
  <2>2. ASSUME u = cur PROVE FALSE
    <3>1. Sure(u)
      BY <1>7, <2>2 DEF Sure, Past
    <3>2. cardChanged[w]
      BY <3>1, <2>1 DEF Single, Sure
    <3> QED
      BY <1>2, <2>1, <2>2, <3>2 DEF Sure
  <2> QED
    BY <1>2, <2>1, <2>2
<1>10. Cleared'
  BY <1>1 DEF Cleared, Past
<1> QED
  BY <1>3, <1>4, <1>5, <1>6, <1>9, <1>10

\* EraseId takes the id of a unit without a basket, or of a doubtful one.
LEMMA EraseIdKeeps ==
  ASSUME CardInv, EraseId
  PROVE  CardInv'
<1> USE DEF CardInv
<1>1. /\ pc \in {"clear", "erase"} /\ pc' \in {"report", "next"}
      /\ pc' = "report" => pc = "clear"
      /\ cardId' = [cardId EXCEPT ![cur] = NoCard]
      /\ UNCHANGED <<at, told, cardState, cardChanged, latest, processing, held, memVars, netVars,
                     needReport, cur, rest, id, disturbed, slipped>>
      /\ cur \in Units
  BY DEF EraseId, Updated, Types, Working
<1>2. cardId'[cur] = NoCard /\ \A v \in Units \ {cur} : cardId'[v] = cardId[v]
  BY <1>1 DEF Types
<1>3. Types'
  <2>1. hurried' \subseteq Cards
    BY <1>1 DEF EraseId, Types, NoneOr
  <2> QED
    BY <1>1, <2>1 DEF Types, Working, NoneOr, memVars, netVars
<1>4. Agreed'
  BY <1>1, <1>2 DEF Agreed
<1>5. Stage'
  BY <1>1, <1>2 DEF Stage, Doubtful, Working, Arriving, Past, Leaving, NoneOr
<1>6. Storing'
  BY <1>1, <1>2 DEF Storing, NoneOr
<1>7. Single' /\ Cleared'
  BY <1>1, <1>2, InventoryAssumption DEF Single, Sure, Cleared, Past
<1> QED
  BY <1>3, <1>4, <1>5, <1>6, <1>7

\* Every step keeps the invariant.
LEMMA CardKept == ASSUME CardInv, [Next]_vars PROVE CardInv'
<1>1. ASSUME NEW u \in Units, Take(u) PROVE CardInv'
  <2>1. Types'
    BY <1>1 DEF Take, CardInv, Types, NoneOr, Working, unitVars, memVars, netVars, passVars, history
  <2> QED
    BY <1>1, <2>1, Aside DEF Take, history
<1>2. ASSUME NEW u \in Units, NEW c \in Cards, Put(c, u) PROVE CardInv'
  <2>1. Types'
    BY <1>2 DEF Put, CardInv, Types, NoneOr, Working, unitVars, memVars, netVars, passVars
  <2> QED
    BY <1>2, <2>1, Aside DEF Put
<1>3. CASE Connect \/ Disconnect
  <2>1. Types'
    <3>1. slipped' \in BOOLEAN /\ conn' \in BOOLEAN
      BY <1>3, Zenon DEF Connect, Disconnect, CardInv, Types, history
    <3> QED
      BY <1>3, <3>1 DEF Connect, Disconnect, CardInv, Types, Working, unitVars, memVars, passVars,
         history
  <2> QED
    BY <1>3, <2>1, Aside DEF Connect, Disconnect, history
<1>4. CASE TcpClientCommandArrival
  BY <1>4, Commands, Aside DEF CardInv
<1>5. CASE UNCHANGED vars
  <2>1. Types'
    BY <1>5 DEF vars, CardInv, Types, Working, unitVars, memVars, netVars, passVars, history
  <2> QED
    BY <1>5, <2>1, Aside DEF vars, history
<1> QED
  BY <1>1, <1>2, <1>3, <1>4, <1>5, LookKeeps, StoreStateKeeps, StoreIdKeeps, UpdateLatestKeeps,
     UpdateCardKeeps, EraseIdKeeps DEF Next, Environment, InventoryRfid

\* A lit unit whose basket is not doubtful is one that FindUnit should find.
LEMMA LitIsSure == \A u : Lit(u) => Sure(u)
BY DEF Lit, Sure, Handled, Handling, Past

\* "Update this unit as latest and other as old" (NetworkEngine.cpp:58): at no step of any
\* interleaving do two lit units claim the same basket, if it is not doubtful: reported again
\* while it is handled, or claimed again by a unit that gets its next basket
\* (Inventory.OneLatest).
THEOREM OneUnitPerBasket == Spec => []OneLatest
<1>1. CardInv => OneLatest
  <2> SUFFICES ASSUME CardInv, NEW u \in Units, NEW v \in Units, Lit(u), Lit(v),
                      cardId[u] = cardId[v], cardId[u] \in Cards \ disturbed, u # v
               PROVE  FALSE
    BY DEF OneLatest
  <2>1. cardChanged[u] /\ cardChanged[v]
    BY LitIsSure DEF CardInv, Single, Sure
  <2> QED
    BY <2>1 DEF Lit, Handled, Handling
<1> QED
  BY <1>1, InitCard, CardKept, PTL DEF Spec

-----------------------------------------------------------------------------
(* A unit is lit, for a basket that is not doubtful, by Light only.        *)

Shows(u, c) == Lit(u) /\ cardId[u] = c /\ c \in Cards \ disturbed

\* Before Light the unit handled is not lit.
LEMMA HandledIsDark ==
  ASSUME CardInv, Arriving \/ pc \in {"left", "forget"}, pc # "update" PROVE ~Lit(cur)
BY DEF CardInv, Stage, Working, Arriving, Past, Lit, Handled

LEMMA NoneLit ==
  ASSUME CardInv, [Next]_vars, ~Light, NEW u \in Units, NEW c, Shows(u, c)' PROVE Shows(u, c)
<1> USE DEF CardInv
<1>1. ASSUME UNCHANGED unitVars, disturbed \subseteq disturbed', pc' # "update"
      PROVE  Shows(u, c)
  BY <1>1 DEF Shows, Lit, Handled, unitVars
<1>2. ASSUME UNCHANGED <<unitVars, pc, cur>>, disturbed \subseteq disturbed'
      PROVE  Shows(u, c)
  BY <1>2 DEF Shows, Lit, Handled, Handling, unitVars
<1>3. CASE \E x \in Units : Take(x) \/ \E d \in Cards : Put(d, x)
  BY <1>2, <1>3 DEF Take, Put, passVars, history
<1>4. CASE Connect \/ Disconnect \/ UNCHANGED vars
  BY <1>2, <1>4 DEF Connect, Disconnect, vars, passVars, history
<1>5. CASE StartPass \/ Decide \/ Lookup \/ Ask \/ Leave \/ Report \/ EndPass \/ \E x \in Units : Visit(x)
  BY <1>1, <1>5 DEF StartPass, Decide, Lookup, Ask, Leave, Report, EndPass, Visit, history
<1>6. CASE TcpClientCommandArrival
  BY <1>2, <1>6, Commands DEF passVars
<1>7. ASSUME NEW x \in Units, StoreState(x) PROVE Shows(u, c)
  <2>1. /\ UNCHANGED <<cardId, cardChanged, pc, cur>> /\ disturbed \subseteq disturbed'
        /\ \A v \in Units \ {x} : cardState'[v] = cardState[v] /\ latest'[v] = latest[v]
        /\ cardState'[x] = "arrival" => at[x] # NoCard
    BY <1>7 DEF StoreState, Types, passVars
  <2>2. disturbed' = disturbed \cup (Disturbs(x) \ {NoCard})
    BY <1>7 DEF StoreState
  <2>3. CASE u # x
    BY <2>1, <2>3 DEF Shows, Lit, Handled, Handling
  <2>4. CASE u = x
    <3>1. cardState'[x] = "arrival" /\ cardId[x] \in Cards /\ cardId[x] \notin disturbed'
      BY <2>1, <2>4 DEF Shows, Lit, Handled
    <3>2. ~cardChanged[x] /\ ~Handling(x) /\ latest[x]
      BY <2>1, <2>2, <3>1, InventoryAssumption DEF Disturbs
    <3>3. cardState[x] = "arrival"
      BY <3>1, <3>2, InventoryAssumption DEF Agreed, Types
    <3> QED
      BY <2>1, <2>4, <3>1, <3>2, <3>3 DEF Shows, Lit, Handled
  <2> QED
    BY <2>3, <2>4
<1>8. ASSUME NEW x \in Units, StoreId(x) PROVE Shows(u, c)
  <2>1. /\ UNCHANGED <<cardState, latest, pc, cur, disturbed>> /\ processing[x]
        /\ \A v \in Units \ {x} : cardId'[v] = cardId[v] /\ cardChanged'[v] = cardChanged[v]
        /\ cardChanged'[x] /\ cardId'[x] = IF held = NoCard THEN cardId[x] ELSE held
    BY <1>8 DEF StoreId, Types, passVars, history
  <2>2. CASE u # x
    BY <2>1, <2>2 DEF Shows, Lit, Handled, Handling
  <2>3. CASE u = x
    <3>1. pc = "update" /\ x = cur /\ cardId'[x] = c /\ c \in Cards \ disturbed
      BY <2>1, <2>3 DEF Shows, Lit, Handled, Handling
    <3>2. Doubtful
      BY <2>1, <3>1 DEF Stage, Same, Working
    <3> QED
      BY <2>1, <3>1, <3>2, InventoryAssumption DEF Doubtful, NoneOr
  <2> QED
    BY <2>2, <2>3
<1>9. CASE UpdateLatest
  <2>1. /\ UNCHANGED <<cardState, cardId, cardChanged, cur>> /\ pc = "arrival" /\ pc' = "lookup"
        /\ \A v \in Units : latest'[v] <=> latest[v] /\ v \notin Outdated(cur)
        /\ disturbed' = IF Quiet THEN disturbed \ {id} ELSE disturbed
    BY <1>9 DEF UpdateLatest, Settle
  <2>2. Handled(u) /\ u # cur /\ u \notin Outdated(cur) /\ cardId[u] = c /\ c \in Cards \ disturbed'
    BY <2>1 DEF Shows, Lit, Handled, Stage, Working, Arriving
  <2>3. c # cardId[cur]
    BY <2>2 DEF Outdated, Handled
  <2> QED
    BY <2>1, <2>2, <2>3 DEF Shows, Lit, Quiet
<1>10. CASE UpdateCard
  <2>1. /\ UNCHANGED <<cardState, cardId, latest, cur, disturbed>>
        /\ pc \in {"update", "forget"} /\ pc' # "update"
        /\ \A v \in Units \ {cur} : cardChanged'[v] = cardChanged[v]
    BY <1>10 DEF UpdateCard, Updated, Types, history
  <2>2. Handled(u)' /\ cardId[u] = c /\ c \in Cards \ disturbed
    BY <2>1 DEF Shows, Lit
  <2>3. CASE u # cur
    BY <2>1, <2>2, <2>3 DEF Shows, Lit, Handled
  <2>4. CASE u = cur
    <3>1. pc = "update"
      BY <2>1, <2>2, <2>4, InventoryAssumption DEF Handled, Stage, Working, Leaving, Doubtful, NoneOr
    <3> QED
      BY <2>1, <2>2, <2>4, <3>1 DEF Shows, Lit, Handled, Handling
  <2> QED
    BY <2>3, <2>4
<1>11. CASE EraseId
  <2>1. /\ UNCHANGED <<cardState, cardChanged, latest, cur, disturbed>> /\ pc' # "update"
        /\ cur \in Units /\ cardId' = [cardId EXCEPT ![cur] = NoCard]
    BY <1>11 DEF EraseId, Updated, Types, Working
  <2> QED
    BY <2>1, InventoryAssumption DEF Shows, Lit, Handled, Types
<1> QED
  BY <1>3, <1>4, <1>5, <1>6, <1>7, <1>8, <1>9, <1>10, <1>11 DEF Next, Environment, InventoryRfid

\* Light lights the unit handled, for the basket that was looked up, and no other.
LEMMA LightShows ==
  ASSUME CardInv, Light
  PROVE  /\ led'[cur] = light
         /\ UNCHANGED <<unitVars, cardList, cur, disturbed, conn, slipped, needReport, reported, rest,
                        id>>
         /\ pc = "light" /\ pc' = "update" /\ cur \in Units
         /\ \A u \in Units \ {cur} : led'[u] = led[u] /\ \A c : Shows(u, c)' <=> Shows(u, c)
         /\ \A c : Shows(cur, c)' => c = id
         /\ \A c : ~Shows(cur, c)
<1> USE DEF CardInv
<1>1. /\ led'[cur] = light /\ \A u \in Units \ {cur} : led'[u] = led[u]
      /\ UNCHANGED <<unitVars, cardList, cur, disturbed, conn, slipped, needReport, reported, rest, id>>
      /\ pc = "light" /\ pc' = "update" /\ cur \in Units
  BY DEF Light, Types, Working, netVars, history
<1>2. \A u \in Units \ {cur} : \A c : Shows(u, c)' <=> Shows(u, c)
  BY <1>1 DEF Shows, Lit, Handled, Handling, unitVars
<1>3. \A c : ~Shows(cur, c)
  BY <1>1, HandledIsDark DEF Shows, Arriving, Past
<1>4. ASSUME NEW c, Shows(cur, c)' PROVE c = id
  BY <1>1, <1>4, InventoryAssumption DEF Shows, Stage, Working, Doubtful, Same, NoneOr, unitVars
<1> QED
  BY <1>1, <1>2, <1>3, <1>4

-----------------------------------------------------------------------------
(* Red means reported.                                                     *)

\* The lights differ in what they show.
LEMMA NotRed ==
  /\ Off # RedBoth /\ RedBlink # RedBoth
  /\ \A m : MemoryLight(m) # RedBoth /\ TimeoutLight(m) # RedBoth /\ GreenBlink(m) # RedBoth
<1>1. Off[1] = "off" /\ RedBoth[1] = "red" /\ RedBlink[1] = "red blink"
  BY DEF Off, RedBoth, RedBlink
<1>2. \A s : Green(s)[1] = "green" /\ GreenBlink(s)[1] = "green blink"
  BY DEF Green, GreenBlink
<1> QED
  BY <1>1, <1>2 DEF MemoryLight, TimeoutLight

\* Apart from Light, nothing turns a unit red whose basket is not doubtful.
LEMMA NoneRed ==
  ASSUME CardInv, [Next]_vars, ~Light, NEW u \in Units, NEW c, Shows(u, c)', led'[u] = RedBoth
  PROVE  led[u] = RedBoth
<1>1. CASE IndicatorTest
  BY <1>1 DEF IndicatorTest, Shows
<1>2. CASE TcpClientCommandArrival /\ ~IndicatorTest
  BY <1>2, NotRed DEF TcpClientCommandArrival, Accept, Reject, ForceClear, Timeout, Fetch, Show
<1>3. CASE UpdateLatest \/ Leave
  BY <1>3, NotRed DEF UpdateLatest, Leave, CardInv, Types
<1>4. CASE UNCHANGED led
  BY <1>4
<1> QED
  BY <1>1, <1>2, <1>3, <1>4
  DEF Next, Environment, InventoryRfid, Take, Put, StoreState, StoreId, Connect, Disconnect, StartPass,
      Visit, Decide, Lookup, Ask, UpdateCard, EraseId, Report, EndPass, memVars, vars

\* FindUnit has one answer.
LEMMA OneFound ==
  /\ \A c, u, v : FindUnit(c, u) /\ FindUnit(c, v) => u = v
  /\ \A c, u, v : (FindUnit(c, u) /\ FindUnit(c, v))' => u = v
<1>1. \A c : Found(c) \subseteq Nat /\ Found(c)' \subseteq Nat
  BY InventoryAssumption DEF Found
<1> QED
  BY <1>1 DEF FindUnit

LEMMA InitNet == Init => NetInv
BY DEF Init, NetInv, Asked, Named, Passed

\* Every step keeps it.
LEMMA NetKept == ASSUME CardInv, NetInv, [Next]_vars PROVE NetInv'
<1> USE DEF CardInv, NetInv
<1> DEFINE Up == conn /\ ~slipped
<1>1. Named <=> (Up /\ ~needReport => \A u \in Units : \A c : Shows(u, c) /\ led[u] = RedBoth => c \in reported)
  BY DEF Named, Shows
<1>2. Passed <=> (pc # "idle" /\ Up /\ needReport =>
                    \A u \in Units \ rest : \A c : Shows(u, c) /\ ~Handling(u) => c \in reported)
  BY DEF Passed, Shows
<1>3. Named' <=> (Up' /\ ~needReport' =>
                    \A u \in Units : \A c : Shows(u, c)' /\ led'[u] = RedBoth => c \in reported')
  BY DEF Named, Shows
<1>4. Passed' <=> (pc' # "idle" /\ Up' /\ needReport' =>
                     \A u \in Units \ rest' : \A c : Shows(u, c)' /\ ~Handling(u)' => c \in reported')
  BY DEF Passed, Shows
<1>5. ASSUME UNCHANGED <<conn, slipped, needReport>>, reported \subseteq reported', ~Light
      PROVE  Named'
  BY <1>1, <1>3, <1>5, NoneLit, NoneRed
<1>6. ASSUME UNCHANGED <<conn, slipped, needReport, rest, cur>>, reported \subseteq reported', ~Light,
             pc # "idle" \/ pc' = "idle", Working = Working'
      PROVE  Passed'
  BY <1>2, <1>4, <1>6, NoneLit DEF Handling, Working
<1>7. ASSUME NEW u \in Units, Take(u) \/ StoreState(u) \/ StoreId(u) \/ \E c \in Cards : Put(c, u)
      PROVE  NetInv'
  <2>1. ~Light /\ UNCHANGED <<netVars, needReport, passVars, slipped>>
    BY <1>7 DEF Take, StoreState, StoreId, Put, Light, passVars, history
  <2> QED
    BY <1>5, <1>6, <2>1 DEF Asked, Working, netVars, passVars
<1>8. CASE TcpClientCommandArrival
  <2>1. UNCHANGED <<conn, reported, needReport, pc, cur, rest, id, light, slipped>>
    BY <1>8, Commands DEF passVars
  <2>2. ~Light
    BY <2>1 DEF Light
  <2>3. Named' /\ Passed'
    BY <1>5, <1>6, <2>1, <2>2 DEF Working
  <2> QED
    BY <2>1, <2>3 DEF Asked
<1>9. CASE Connect \/ Disconnect
  <2>1. CASE Disconnect
    BY <2>1 DEF Disconnect, Asked, Named, Passed
  <2>2. CASE Connect
    <3>1. ~slipped' => pc = "idle" /\ needReport
      BY <2>2, Zenon DEF Connect
    <3>2. UNCHANGED <<needReport, pc>>
      BY <2>2 DEF Connect, passVars
    <3> QED
      BY <3>1, <3>2 DEF Asked, Named, Passed
  <2> QED
    BY <1>9, <2>1, <2>2
<1>10. CASE StartPass
  <2>1. Named'
    BY <1>1, <1>3, <1>10, NoneLit, NoneRed DEF StartPass, Light, Types, netVars, history
  <2> QED
    BY <1>10, <2>1 DEF StartPass, Asked, Passed
<1>11. ASSUME NEW x \in Units, Visit(x) PROVE NetInv'
  <2>1. /\ ~Light /\ UNCHANGED <<netVars, needReport, slipped>> /\ pc = "next" /\ pc' = "decide"
        /\ cur' = x /\ rest' = rest \ {x}
    BY <1>11 DEF Visit, Light, history
  <2>2. Passed'
    BY <1>2, <1>4, <2>1, NoneLit DEF Handling, netVars
  <2> QED
    BY <1>5, <2>1, <2>2 DEF Asked, netVars
<1>12. CASE Decide
  <2>1. /\ ~Light /\ UNCHANGED <<unitVars, netVars, needReport, slipped, rest, cur, disturbed>>
        /\ pc = "decide" /\ pc' \in {"arrival", "report", "left", "next"} /\ cur \in Units
    BY <1>12 DEF Decide, Light, history, Types, Working
  <2>2. needReport /\ pc' = "next" => ~Handled(cur)
    BY <1>12 DEF Decide, Handled
  <2>3. needReport /\ pc' = "next" => \A c : ~Shows(cur, c)
    BY <2>1, <2>2 DEF Shows, Lit
  <2>4. Passed'
    BY <1>2, <1>4, <2>1, <2>3, NoneLit DEF Handling, netVars
  <2> QED
    BY <1>5, <2>1, <2>4 DEF Asked, netVars
<1>13. CASE UpdateLatest \/ Leave
  <2>1. /\ ~Light /\ UNCHANGED <<conn, slipped, needReport, reported, rest, cur>>
        /\ Working /\ Working' /\ pc' # "light"
    BY <1>13 DEF UpdateLatest, Leave, Settle, Light, Working, netVars, history
  <2> QED
    BY <1>5, <1>6, <2>1 DEF Asked, Working
<1>14. CASE Lookup
  <2>1. /\ ~Light /\ UNCHANGED <<conn, slipped, needReport, reported, rest, cur>>
        /\ Working /\ Working'
    BY <1>14 DEF Lookup, Light, Working, netVars, history
  <2>2. pc' = "light" /\ light' = RedBoth => needReport
    BY <1>14, NotRed DEF Lookup
  <2> QED
    BY <1>5, <1>6, <2>1, <2>2 DEF Asked, Working
<1>15. CASE Ask
  <2>1. /\ ~Light /\ UNCHANGED <<conn, slipped, needReport, rest, cur, id>>
        /\ Working /\ Working'
        /\ reported' = IF conn THEN reported \cup {id} ELSE reported
    BY <1>15 DEF Ask, SendRequest, Light, Working, history
  <2> QED
    BY <1>5, <1>6, <2>1 DEF Asked, Working
<1>16. CASE Light
  <2>1. Named'
    BY <1>1, <1>3, <1>16, LightShows DEF Asked
  <2>2. Passed'
    BY <1>2, <1>4, <1>16, LightShows DEF Handling
  <2> QED
    BY <1>16, <2>1, <2>2 DEF Light, Asked
<1>17. CASE UpdateCard
  <2>1. /\ ~Light /\ UNCHANGED <<conn, slipped, needReport, reported, rest, cur>> /\ cur \in Units
        /\ pc' # "light" /\ pc # "idle"
    BY <1>17 DEF UpdateCard, Updated, Light, Types, Working, netVars, history
  <2>2. needReport /\ pc' = "next" => pc = "forget"
    BY <1>17 DEF UpdateCard, Updated
  <2>3. needReport /\ pc' = "next" => \A c : ~Shows(cur, c)
    BY <2>2, HandledIsDark DEF Shows
  <2>4. pc' \notin {"idle"} /\ (pc' = "next" \/ Working')
    BY <1>17 DEF UpdateCard, Updated, Working
  <2>5. Passed'
    BY <1>2, <1>4, <2>1, <2>3, <2>4, NoneLit DEF Handling, Working
  <2> QED
    BY <1>5, <2>1, <2>5 DEF Asked
<1>18. CASE EraseId
  <2>1. /\ ~Light /\ UNCHANGED <<conn, slipped, needReport, reported, rest, cur>> /\ cur \in Units
        /\ pc' # "light" /\ pc # "idle" /\ cardId'[cur] = NoCard
    BY <1>18 DEF EraseId, Updated, Light, Types, Working, netVars
  <2>2. \A c : ~Shows(cur, c)'
    BY <2>1, InventoryAssumption DEF Shows, EraseId
  <2>3. Passed'
    BY <1>2, <1>4, <2>1, <2>2, <1>18, NoneLit DEF Handling, EraseId, Updated
  <2> QED
    BY <1>5, <2>1, <2>3 DEF Asked
<1>19. CASE Report
  <2>1. /\ ~Light /\ UNCHANGED <<conn, slipped, needReport, rest, cur, unitVars, disturbed>>
        /\ cur \in Units /\ pc = "report" /\ pc' = "next"
        /\ reported' = IF conn THEN reported \cup {id} ELSE reported
    BY <1>19 DEF Report, SendRequest, Light, Types, Working, history
  <2>2. \A c : Shows(cur, c) => c = id
    BY <2>1, InventoryAssumption DEF Shows, Stage, Working, Doubtful, Same, NoneOr
  <2>3. Passed'
    BY <1>2, <1>4, <2>1, <2>2, NoneLit DEF Handling
  <2> QED
    BY <1>5, <2>1, <2>3 DEF Asked
<1>20. CASE EndPass
  <2>1. /\ ~Light /\ UNCHANGED <<conn, slipped, reported>> /\ pc = "next" /\ pc' = "idle"
        /\ rest = {} /\ needReport' = (needReport /\ ~conn)
    BY <1>20 DEF EndPass, Light, netVars, history
  <2>2. Named'
    BY <1>1, <1>2, <1>3, <2>1, NoneLit, NoneRed DEF Types, Handling
  <2> QED
    BY <2>1, <2>2 DEF Asked, Passed
<1>21. CASE UNCHANGED vars
  <2>1. ~Light /\ UNCHANGED <<netVars, needReport, passVars, slipped>>
    BY <1>21 DEF vars, Light, Types, passVars, history
  <2> QED
    BY <1>5, <1>6, <2>1 DEF Asked, Working, netVars, passVars
<1> QED
  BY <1>7, <1>8, <1>9, <1>10, <1>11, <1>12, <1>13, <1>14, <1>15, <1>16, <1>17, <1>18, <1>19, <1>20,
     <1>21 DEF Next, Environment, InventoryRfid

\* "Unbound and request server" (NetworkEngine.cpp:58-67): between two passes a basket that is
\* shown as unbound has been named to the server over this very connection, however often it
\* was lost, whatever was reported and commanded in between, if the connection came up while
\* the inventory thread was between two passes and knew that it was down, and the basket is
\* not doubtful (Inventory.RedMeansReported).
THEOREM RedIsReported == Spec => []RedMeansReported
<1>1. NetInv => RedMeansReported
  <2> SUFFICES ASSUME NetInv, conn, ~needReport, ~slipped, NEW c \in Cards,
                      ChartState(c) = <<"Unbound", None>>
               PROVE  c \in reported
    BY DEF RedMeansReported
  <2>1. c \notin disturbed /\ ~\A u \in Units : ~(FindUnit(c, u) /\ Lit(u))
    BY DEF ChartState
  <2>2. PICK u \in Units : FindUnit(c, u) /\ Lit(u)
    BY <2>1
  <2>3. (CHOOSE v \in Units : FindUnit(c, v)) = u
    BY <2>2, OneFound
  <2>4. led[u] = RedBoth
    BY <2>1, <2>2, <2>3 DEF ChartState
  <2> QED
    BY <2>1, <2>2, <2>4 DEF NetInv, Named, FindUnit, Found
<1> QED
  BY <1>1, InitCard, CardKept, InitNet, NetKept, PTL DEF Spec

-----------------------------------------------------------------------------
(* The controller implements the state chart of the document.              *)

\* The light on its way is the one that the memory of the basket asks for.
LEMMA BrightKept == ASSUME CardInv, Bright, [Next]_vars PROVE Bright'
<1> USE DEF CardInv
<1>1. CASE Lookup \/ Ask
  <2>1. UNCHANGED <<cardList, id, disturbed>> /\ pc \in {"lookup", "ask"}
        /\ (pc = "lookup" \/ light' = light)
    BY <1>1 DEF Lookup, Ask, memVars, history
  <2>2. pc = "lookup" => Right(light)'
    BY <1>1, <2>1 DEF Lookup, Ask, Right, Remembered
  <2> QED
    BY <2>1, <2>2 DEF Bright, Right, Remembered
<1>2. CASE TcpClientCommandArrival
  <2>1. UNCHANGED passVars /\ disturbed \subseteq disturbed'
    BY <1>2, Commands
  <2>2. ASSUME pc \in {"ask", "light"}, id \in Cards \ disturbed' PROVE cardList'[id] = cardList[id]
    <3>1. ASSUME NEW S, Overtakes(S) PROVE id \notin S
      BY <2>2, <3>1 DEF Overtakes
    <3>2. CASE IndicatorTest
      BY <3>2 DEF IndicatorTest
    <3>3. ASSUME NEW c \in Cards, Accept(c) \/ Reject(c) PROVE cardList'[id] = cardList[id]
      BY <2>2, <3>1, <3>3 DEF Accept, Reject, Answer, Types
    <3>4. ASSUME NEW S \in SUBSET Cards, ForceClear(S) \/ Timeout(S) PROVE cardList'[id] = cardList[id]
      BY <2>2, <3>1, <3>4 DEF ForceClear, Timeout
    <3>5. ASSUME NEW S \in SUBSET Cards, NEW side \in Sides, Fetch(S, side)
          PROVE  cardList'[id] = cardList[id]
      BY <2>2, <3>1, <3>5 DEF Fetch
    <3> QED
      BY <1>2, <3>2, <3>3, <3>4, <3>5 DEF TcpClientCommandArrival
  <2> QED
    BY <2>1, <2>2 DEF Bright, Right, Remembered, passVars
<1>3. CASE pc' \notin {"ask", "light"}
  BY <1>3 DEF Bright
<1>4. CASE UNCHANGED <<pc, id, light, cardList>> /\ disturbed \subseteq disturbed'
  BY <1>4 DEF Bright, Right, Remembered
<1> QED
  BY <1>1, <1>2, <1>3, <1>4
  DEF Next, Environment, InventoryRfid, Take, Put, StoreState, StoreId, Connect, Disconnect, StartPass,
      Visit, Decide, UpdateLatest, Light, Leave, UpdateCard, Updated, EraseId, Report, EndPass, memVars,
      passVars, history, vars

\* basket c is shown by unit u, in no doubt
At(c, u) == c \notin disturbed /\ FindUnit(c, u) /\ Lit(u)

\* what the chart calls it, by memory m and light l
Called(m, l) ==
  CASE m # None -> IF l = MemoryLight(m) THEN <<"Memory", None>> ELSE <<"wrong", None>>
    [] m = None /\ l = RedBoth -> <<"Unbound", None>>
    [] m = None /\ l = RedBlink -> <<"Error", None>>
    [] m = None /\ l = Off -> <<"Cancel", None>>
    [] OTHER -> <<"Timeout", l[2]>>

\* ChartState by the unit that shows a basket.
LEMMA StateShown ==
  ASSUME NEW c
  PROVE  /\ \A u \in Units : At(c, u) => ChartState(c) = Called(cardList[c], led[u])
         /\ (\A u \in Units : ~At(c, u)) => ChartState(c) = <<"Idle", None>>
<1>1. ASSUME NEW u \in Units, At(c, u) PROVE ChartState(c) = Called(cardList[c], led[u])
  <2>1. (CHOOSE v \in Units : FindUnit(c, v)) = u
    BY <1>1, OneFound DEF At
  <2> QED
    BY <1>1, <2>1 DEF At, ChartState, Called
<1>2. (\A u \in Units : ~At(c, u)) => ChartState(c) = <<"Idle", None>>
  BY DEF At, ChartState
<1> QED
  BY <1>1, <1>2

LEMMA StateShownNext ==
  ASSUME NEW c
  PROVE  /\ \A u \in Units : At(c, u)' => ChartState(c)' = Called(cardList'[c], led'[u])
         /\ (\A u \in Units : ~At(c, u)') => ChartState(c)' = <<"Idle", None>>
<1>1. ASSUME NEW u \in Units, At(c, u)' PROVE ChartState(c)' = Called(cardList'[c], led'[u])
  <2>1. (CHOOSE v \in Units : FindUnit(c, v)') = u
    BY <1>1, OneFound DEF At
  <2> QED
    BY <1>1, <2>1 DEF At, ChartState, Called
<1>2. (\A u \in Units : ~At(c, u)') => ChartState(c)' = <<"Idle", None>>
  BY DEF At, ChartState
<1> QED
  BY <1>1, <1>2

\* Called never is Idle.
LEMMA CalledSomething == \A m, l : Called(m, l) # <<"Idle", None>>
BY DEF Called

\* A step after which baskets are shown by the units that showed them, or by none, is a
\* removal of the chart.
LEMMA Removal ==
  ASSUME UNCHANGED cardList,
         \A c \in Cards : \A u \in Units : At(c, u)' => At(c, u) /\ led'[u] = led[u]
  PROVE  Chart!Remove({c \in Cards : ChartState(c)' = <<"Idle", None>>})
<1>1. ASSUME NEW c \in Cards, ChartState(c)' # <<"Idle", None>> PROVE ChartState(c)' = ChartState(c)
  <2>1. PICK u \in Units : At(c, u)'
    BY <1>1, StateShownNext
  <2> QED
    BY <2>1, StateShown, StateShownNext
<1>2. ASSUME NEW c \in Cards, ChartState(c) = <<"Idle", None>> PROVE ChartState(c)' = <<"Idle", None>>
  <2>1. \A u \in Units : ~At(c, u)
    BY <1>2, StateShown, CalledSomething
  <2> QED
    BY <2>1, StateShownNext
<1>3. [c \in Cards |-> ChartState(c)]' = [c \in Cards |-> ChartState(c)']
  OBVIOUS
<1> QED
  BY <1>1, <1>2, <1>3 DEF Chart!Remove, Chart!Move, Chart!Present, Chart!Is, Chart!None, None

\* Apart from Light, no basket comes to be shown.
LEMMA NoneAppears ==
  ASSUME CardInv, [Next]_vars, ~Light, NEW c \in Cards, NEW u \in Units, At(c, u)'
  PROVE  At(c, u)
<1> USE DEF CardInv
<1>1. Shows(u, c)'
  BY DEF At, Shows, FindUnit, Found
<1>2. Shows(u, c)
  BY <1>1, NoneLit
<1>3. c \notin disturbed /\ Lit(u) /\ u \in Found(c) /\ Sure(u)
  BY <1>2, LitIsSure DEF Shows, Found, Sure
<1> SUFFICES ASSUME NEW v \in Found(c), ~(u <= v) PROVE FALSE
  BY <1>3 DEF At, FindUnit
<1>4. v \in Units /\ v # u /\ v \notin Found(c)'
  BY InventoryAssumption DEF At, FindUnit, Found
<1>5. cardState[v] = "arrival" /\ latest[v] /\ cardId[v] = c
  BY InventoryAssumption DEF Found, Agreed, Types
<1>6. cardChanged[v]
  BY <1>2, <1>3, <1>4, <1>5 DEF Single, Shows
<1>7. ~UNCHANGED <<cardState, latest, cardId>>
  BY <1>4 DEF Found
<1>8. ASSUME NEW x \in Units, StoreState(x) PROVE FALSE
  <2>1. v = x
    BY <1>4, <1>8 DEF StoreState, Found, Types
  <2>2. cardId[v] \in disturbed'
    BY <1>5, <1>6, <1>8, <2>1, InventoryAssumption DEF StoreState, Disturbs
  <2> QED
    BY <1>5, <2>2 DEF At
<1>9. ASSUME NEW x \in Units, StoreId(x) PROVE FALSE
  <2>1. v = x
    BY <1>4, <1>9 DEF StoreId, Found, Types
  <2>2. processing[v]
    BY <1>9, <2>1 DEF StoreId
  <2> QED
    BY <1>3, <1>4, <1>5, <1>6, <2>2, InventoryAssumption DEF Storing, NoneOr
<1>10. CASE UpdateLatest
  <2>1. v \in Outdated(cur) /\ UNCHANGED <<cardState, cardId>>
    BY <1>4, <1>10 DEF UpdateLatest, Found
  <2>2. u = cur \/ u \in Outdated(cur)
    BY <1>2, <1>3, <1>5, <2>1 DEF Outdated, Shows, Sure
  <2>3. ~Lit(cur)
    BY <1>10, HandledIsDark DEF UpdateLatest, Arriving, Past
  <2>4. u \in Outdated(cur)
    BY <1>3, <2>2, <2>3
  <2> QED
    BY <1>1, <1>10, <2>4 DEF UpdateLatest, Shows, Lit, Handled
<1>11. CASE EraseId
  <2>1. v = cur /\ pc \in {"clear", "erase"}
    BY <1>4, <1>11 DEF EraseId, Found, Types
  <2>2. cardId[cur] \in NoneOr(disturbed)
    BY <1>5, <2>1 DEF Stage, Working, Leaving, Doubtful
  <2> QED
    BY <1>3, <1>5, <2>1, <2>2, InventoryAssumption DEF NoneOr
<1>12. CASE TcpClientCommandArrival
  BY <1>7, <1>12, Commands DEF unitVars
<1> QED
  BY <1>7, <1>8, <1>9, <1>10, <1>11, <1>12
  DEF Next, Environment, InventoryRfid, Take, Put, Connect, Disconnect, StartPass, Visit, Decide, Lookup,
      Ask, Leave, UpdateCard, Report, EndPass, unitVars, vars

\* UpdateLatest and IndicatorOff turn off no unit that shows a basket.
LEMMA LightsStay ==
  ASSUME CardInv, UpdateLatest \/ Leave, NEW c \in Cards, NEW u \in Units, At(c, u)'
  PROVE  led'[u] = led[u]
<1> USE DEF CardInv
<1>1. CASE UpdateLatest
  BY <1>1 DEF UpdateLatest, At, Lit, Handled
<1>2. CASE Leave
  <2>1. ~Lit(cur)
    BY <1>2, HandledIsDark DEF Leave
  <2>2. At(c, u)
    BY <1>2, NoneAppears DEF Leave, Light, Next, InventoryRfid
  <2> QED
    BY <1>2, <2>1, <2>2 DEF Leave, At, Types
<1> QED
  BY <1>1, <1>2

\* Light places the basket in the chart, in the state that its memory asks for, or does nothing
\* to it.
LEMMA LightPlaces ==
  ASSUME CardInv, Bright, Light
  PROVE  Chart!Next
<1> USE DEF CardInv
<1>0. PICK k \in Units : k = cur
  BY DEF Light, Types, Working
<1>1. /\ \A d : Found(d)' = Found(d)
      /\ \A u \in Units \ {k} : Lit(u)' <=> Lit(u)
      /\ UNCHANGED <<cardList, disturbed>>
  BY <1>0 DEF Light, Found, Lit, Handled, Handling, unitVars, history
<1>2. \A d : \A u \in Units \ {k} : At(d, u)' <=> At(d, u)
  BY <1>1 DEF At, FindUnit
<1>3. \A u \in Units \ {k} : led'[u] = led[u]
  BY <1>0, LightShows
<1>4. \A d : ~At(d, k)
  BY <1>0, HandledIsDark DEF At, Light, Arriving, Past
<1>5. CASE \A d \in Cards : ~At(d, k)'
  <2>1. \A d \in Cards : \A u \in Units : At(d, u)' => At(d, u) /\ led'[u] = led[u]
    BY <1>2, <1>3, <1>5
  <2> QED
    BY <1>1, <2>1, Removal DEF Chart!Next
<1>6. ASSUME NEW c \in Cards, At(c, k)' PROVE Chart!Place(c)
  <2>1. c = id /\ id \in Cards \ disturbed /\ led'[k] = light /\ pc = "light"
    BY <1>0, <1>1, <1>6, LightShows DEF At, Shows, FindUnit, Found
  <2>2. \A u \in Units : ~At(c, u)
    BY <1>1, <1>2, <1>4, <1>6, OneFound DEF At
  <2>3. ChartState(c) = <<"Idle", None>>
    BY <2>2, StateShown
  <2>4. ChartState(c)' = Called(cardList[c], led'[k])
    BY <1>1, <1>6, <2>1, StateShownNext
  <2>5. Called(cardList[c], led'[k]) = IF cardList[c] = None THEN <<"Unbound", None>>
                                         ELSE <<"Memory", None>>
    <3>1. led'[k] = IF cardList[c] # None THEN MemoryLight(cardList[c]) ELSE RedBoth
      BY <2>1 DEF Bright, Right, Remembered
    <3>2. CASE cardList[c] = None
      BY <3>1, <3>2, NotRed DEF Called
    <3>3. CASE cardList[c] # None
      BY <3>1, <3>3 DEF Called
    <3> QED
      BY <3>2, <3>3
  <2>6. ASSUME NEW d \in Cards \ {c} PROVE ChartState(d)' = ChartState(d)
    <3>1. ~At(d, k)'
      BY <1>6 DEF At, FindUnit, Found
    <3>2. \A u \in Units : At(d, u)' <=> At(d, u)
      BY <1>2, <1>4, <3>1
    <3>3. CASE \E u \in Units : At(d, u)
      BY <1>1, <1>3, <1>4, <3>2, <3>3, StateShown, StateShownNext
    <3>4. CASE \A u \in Units : ~At(d, u)
      BY <3>2, <3>4, StateShown, StateShownNext
    <3> QED
      BY <3>3, <3>4
  <2> QED
    BY <1>1, <2>3, <2>4, <2>5, <2>6 DEF Chart!Place, Chart!Present, Chart!Is, Chart!None, None
<1> QED
  BY <1>5, <1>6 DEF Chart!Next

-----------------------------------------------------------------------------
(* The commands of the server are those of the chart.                      *)

\* What the lights that commands set are called.
LEMMA Names ==
  /\ Called("bound", Off) = <<"Memory", None>>
  /\ Called(None, Off) = <<"Cancel", None>>
  /\ Called(None, RedBlink) = <<"Error", None>>
  /\ \A side \in Sides : /\ Called(side, GreenBlink(side)) = <<"Memory", None>>
                         /\ Called(None, Green(side)) = <<"Timeout", side>>
<1>1. None \notin Sides /\ "bound" \notin Sides /\ "bound" # None
  BY DEF Sides, None
<1>2. Off[1] = "off" /\ RedBoth[1] = "red" /\ RedBlink[1] = "red blink"
  BY DEF Off, RedBoth, RedBlink
<1>3. \A s : Green(s)[1] = "green" /\ Green(s)[2] = s
  BY DEF Green
<1> QED
  BY <1>1, <1>2, <1>3 DEF Called, MemoryLight


\* FindUnit of a basket that is shown returns the unit that shows it, and no other does.
LEMMA FoundForItself ==
  ASSUME NEW S \in SUBSET Cards, NEW c \in Cards, NEW u \in Units, At(c, u)
  PROVE  (u \in UnitsOf(S) <=> c \in S) /\ cardId[u] = c
BY DEF At, UnitsOf, FindUnit, Found

\* the same baskets are shown by the same units before and after
Alike == \A c \in Cards : \A u \in Units : At(c, u)' <=> At(c, u)

\* A command that overtakes the pass makes no basket doubtful that is shown.
LEMMA CommandsAlike ==
  ASSUME CardInv, TcpClientCommandArrival, ~IndicatorTest PROVE Alike
<1> USE DEF CardInv
<1>1. UNCHANGED <<unitVars, passVars>>
  BY Commands
<1>2. \A c \in disturbed' \ disturbed : c = id /\ pc \in {"ask", "light"}
  BY DEF TcpClientCommandArrival, Accept, Reject, ForceClear, Timeout, Fetch, Answer, Overtakes
<1>3. ASSUME NEW u \in Units, id \in Cards, At(id, u), pc \in {"ask", "light"} PROVE FALSE
  <2>1. u # cur
    BY <1>3, HandledIsDark DEF At, Arriving, Past
  <2>2. Handled(u) /\ cardId[u] = id /\ id \notin disturbed
    BY <1>3, <2>1 DEF At, Lit, Handling, FindUnit, Found
  <2> QED
    BY <1>3, <2>1, <2>2 DEF Cleared, Past
<1>4. \A c \in Cards : \A u \in Units : At(c, u)' <=> (c \notin disturbed' /\ FindUnit(c, u) /\ Lit(u))
  BY <1>1 DEF At, FindUnit, Found, Lit, Handled, Handling, unitVars, passVars
<1>5. disturbed \subseteq disturbed'
  BY Commands
<1> QED
  BY <1>2, <1>3, <1>4, <1>5 DEF Alike, At

\* The state of a basket after a step that moves no basket.
LEMMA StateAfter ==
  ASSUME Alike, NEW c \in Cards
  PROVE  /\ ChartState(c) # <<"Idle", None>> <=> \E u \in Units : At(c, u)
         /\ \A u \in Units : At(c, u) => /\ ChartState(c) = Called(cardList[c], led[u])
                                         /\ ChartState(c)' = Called(cardList'[c], led'[u])
         /\ ChartState(c) = <<"Idle", None>> => ChartState(c)' = <<"Idle", None>>
<1>1. ChartState(c) # <<"Idle", None>> <=> \E u \in Units : At(c, u)
  BY StateShown, CalledSomething
<1> QED
  BY <1>1, StateShown, StateShownNext DEF Alike

LEMMA AcceptMoves ==
  ASSUME NEW c \in Cards, Accept(c), Types, Alike PROVE Chart!Accept(c)
<1>1. cardList' = [cardList EXCEPT ![c] = "bound"]
      /\ \A u \in Units : led'[u] = IF u \in UnitsOf({c}) THEN Off ELSE led[u]
  BY DEF Accept, Show
<1>2. ASSUME NEW d \in Cards, NEW u \in Units, At(d, u)
      PROVE  ChartState(d)' = IF d = c THEN <<"Memory", None>> ELSE ChartState(d)
  BY <1>1, <1>2, StateAfter, FoundForItself, Names DEF Types, Memories
<1>3. \A d \in Cards : ChartState(d)' = IF d = c /\ ChartState(d) # <<"Idle", None>>
                                        THEN <<"Memory", None>> ELSE ChartState(d)
  BY <1>1, <1>2, StateAfter
<1> QED
  BY <1>1, <1>3 DEF Chart!Accept, Chart!Move, Chart!Present, Chart!Is, Chart!None, None

LEMMA RejectMoves ==
  ASSUME NEW c \in Cards, Reject(c), Types, Alike PROVE Chart!Reject(c)
<1>1. cardList' = [cardList EXCEPT ![c] = None]
      /\ \A u \in Units : led'[u] = IF u \in UnitsOf({c}) THEN RedBlink ELSE led[u]
  BY DEF Reject, Show
<1>2. ASSUME NEW d \in Cards, NEW u \in Units, At(d, u)
      PROVE  ChartState(d)' = IF d = c THEN <<"Error", None>> ELSE ChartState(d)
  BY <1>1, <1>2, StateAfter, FoundForItself, Names DEF Types, Memories
<1>3. \A d \in Cards : ChartState(d)' = IF d = c /\ ChartState(d) # <<"Idle", None>>
                                        THEN <<"Error", None>> ELSE ChartState(d)
  BY <1>1, <1>2, StateAfter
<1> QED
  BY <1>1, <1>3 DEF Chart!Reject, Chart!Move, Chart!Present, Chart!Is, Chart!None, None

LEMMA ForceClearMoves ==
  ASSUME NEW S \in SUBSET Cards, ForceClear(S), Types, Alike PROVE Chart!ForceClear(S)
<1>1. cardList' = [c \in Cards |-> IF c \in S THEN None ELSE cardList[c]]
      /\ \A u \in Units : led'[u] = IF u \in UnitsOf(S) THEN Off ELSE led[u]
  BY DEF ForceClear, Show
<1>2. ASSUME NEW d \in Cards, NEW u \in Units, At(d, u)
      PROVE  ChartState(d)' = IF d \in S THEN <<"Cancel", None>> ELSE ChartState(d)
  BY <1>1, <1>2, StateAfter, FoundForItself, Names
<1>3. \A d \in Cards : ChartState(d)' = IF d \in S /\ ChartState(d) # <<"Idle", None>>
                                        THEN <<"Cancel", None>> ELSE ChartState(d)
  BY <1>1, <1>2, StateAfter
<1> QED
  BY <1>1, <1>3 DEF Chart!ForceClear, Chart!Move, Chart!Present, Chart!Is, Chart!None, None

LEMMA TimeoutMoves ==
  ASSUME NEW S \in SUBSET Cards, Timeout(S), Types, Alike PROVE Chart!Timeout(S)
<1> DEFINE T == {c \in S : cardList[c] # None}
           To(c) == IF cardList[c] \in Sides THEN <<"Timeout", cardList[c]>> ELSE <<"Cancel", None>>
<1>1. cardList' = [c \in Cards |-> IF c \in S THEN None ELSE cardList[c]]
      /\ \A u \in Units : led'[u] = IF u \in UnitsOf(T) THEN TimeoutLight(cardList[cardId[u]]) ELSE led[u]
  BY DEF Timeout, Show
<1>2. ASSUME NEW d \in Cards, NEW u \in Units, At(d, u)
      PROVE  ChartState(d)' = IF d \in T THEN To(d) ELSE ChartState(d)
  <2>1. led'[u] = IF d \in T THEN TimeoutLight(cardList[d]) ELSE led[u]
    BY <1>1, <1>2, FoundForItself
  <2>2. CASE d \in T
    BY <1>1, <1>2, <2>1, <2>2, StateAfter, Names DEF TimeoutLight
  <2>3. CASE d \notin T
    <3>1. cardList'[d] = cardList[d]
      BY <1>1, <2>3
    <3> QED
      BY <1>1, <1>2, <2>1, <2>3, <3>1, StateAfter
  <2> QED
    BY <2>2, <2>3
<1>3. \A d \in Cards : ChartState(d)' = IF d \in T /\ ChartState(d) # <<"Idle", None>>
                                        THEN To(d) ELSE ChartState(d)
  BY <1>1, <1>2, StateAfter
<1> QED
  BY <1>1, <1>3 DEF Chart!Timeout, Chart!Move, Chart!Present, Chart!Is, Chart!None, None

LEMMA FetchMoves ==
  ASSUME NEW S \in SUBSET Cards, NEW side \in Sides, Fetch(S, side), Types, Alike
  PROVE  Chart!Fetch(S, side)
<1> DEFINE old == {c \in Cards : cardList[c] = side}
           found == {c \in S : Found(c) # {}}
<1>1. cardList' = [c \in Cards |-> IF c \in found THEN side
                                      ELSE IF c \in old THEN None ELSE cardList[c]]
      /\ \A u \in Units : led'[u] = IF u \in UnitsOf(found \cup old)
                                    THEN IF u \in UnitsOf(found) THEN GreenBlink(side) ELSE Off
                                    ELSE led[u]
  BY DEF Fetch, Show
<1>2. ASSUME NEW d \in Cards, NEW u \in Units, At(d, u)
      PROVE  ChartState(d)' = IF d \in found THEN <<"Memory", None>>
                              ELSE IF d \in old THEN <<"Cancel", None>> ELSE ChartState(d)
  <2>1. led'[u] = IF d \in found THEN GreenBlink(side) ELSE IF d \in old THEN Off ELSE led[u]
    <3>1. /\ u \in UnitsOf(found) <=> d \in found
          /\ u \in UnitsOf(found \cup old) <=> d \in found \cup old
      BY <1>2, FoundForItself
    <3> QED
      BY <1>1, <3>1
  <2> QED
    BY <1>1, <1>2, <2>1, StateAfter, Names
<1>3. \A d \in Cards : ChartState(d)' = IF d \in found \cup old /\ ChartState(d) # <<"Idle", None>>
                                        THEN IF d \in found THEN <<"Memory", None>> ELSE <<"Cancel", None>>
                                        ELSE ChartState(d)
  BY <1>1, <1>2, StateAfter
<1>4. \A d \in S : ChartState(d) # <<"Idle", None>> => d \in found
  BY <1>1, StateAfter DEF At, FindUnit
<1>5. found \in SUBSET S
  OBVIOUS
<1> QED
  BY <1>1, <1>3, <1>4, <1>5 DEF Chart!Fetch, Chart!Move, Chart!Present, Chart!Is, Chart!None, None

-----------------------------------------------------------------------------
\* Every step is a step of the chart, or changes nothing in it.
LEMMA StepImplements ==
  ASSUME CardInv, Bright, [Next]_vars
  PROVE  Chart!Next
<1>1. CASE Light
  BY <1>1, LightPlaces
<1>2. CASE IndicatorTest
  <2>1. cardList' = cardList /\ \A c \in Cards : \A u \in Units : ~At(c, u)'
    BY <1>2 DEF IndicatorTest, At
  <2> QED
    BY <2>1, Removal DEF Chart!Next
<1>3. CASE TcpClientCommandArrival /\ ~IndicatorTest
  BY <1>3, CommandsAlike, AcceptMoves, RejectMoves, ForceClearMoves, TimeoutMoves, FetchMoves
  DEF TcpClientCommandArrival, CardInv, Chart!Next
<1>4. CASE ~TcpClientCommandArrival /\ ~Light
  <2>1. cardList' = cardList
    BY <1>4 DEF Next, Environment, InventoryRfid, Take, Put, StoreState, StoreId, Connect, Disconnect,
       StartPass, Visit, Decide, UpdateLatest, Lookup, Ask, Leave, UpdateCard, EraseId, Report, EndPass,
       memVars, vars
  <2>2. UpdateLatest \/ Leave \/ led' = led
    BY <1>4 DEF Next, Environment, InventoryRfid, Take, Put, StoreState, StoreId, Connect, Disconnect,
       StartPass, Visit, Decide, Lookup, Ask, UpdateCard, EraseId, Report, EndPass, memVars, vars
  <2>3. ASSUME NEW c \in Cards, NEW u \in Units, At(c, u)' PROVE At(c, u) /\ led'[u] = led[u]
    BY <1>4, <2>2, <2>3, NoneAppears, LightsStay
  <2> QED
    BY <2>1, <2>3, Removal DEF Chart!Next
<1> QED
  BY <1>1, <1>2, <1>3, <1>4 DEF TcpClientCommandArrival

\* The controller implements the state chart of src/Docs/iShelf Unit State Chart.pdf, for any
\* number of units and baskets and every interleaving of the three threads, for baskets that
\* are not doubtful (Inventory.FollowsChart).
THEOREM ChartIsFollowed == Spec => FollowsChart
<1>1. Init => Chart!Init
  <2>1. ASSUME Init, NEW c \in Cards PROVE ChartState(c) = <<"Idle", None>>
    BY <2>1, StateShown DEF Init, At, Lit, Handled, None
  <2> QED
    BY <2>1 DEF Init, Chart!Init, Chart!Is, Chart!None, None
<1>2. Init => CardInv /\ Bright
  BY InitCard DEF Init, Bright
<1>3. CardInv /\ Bright /\ [Next]_vars => CardInv' /\ Bright'
  BY CardKept, BrightKept
<1>4. CardInv /\ Bright /\ [Next]_vars => Chart!Next
  BY StepImplements
<1> QED
  BY <1>1, <1>2, <1>3, <1>4, PTL DEF Spec, FollowsChart, Chart!Spec

-----------------------------------------------------------------------------
(* The rule of the chart, first for the chart and then for the controller. *)

\* Initially no basket is there and none is remembered.
LEMMA RulesInit == Chart!Init => Chart!MemoryRules
BY DEF Chart!Init, Chart!MemoryRules, Chart!Present, Chart!Is, Chart!States, Chart!Memories

\* No step of the chart breaks the rule.
LEMMA RulesNext ==
  ASSUME Chart!MemoryRules, Chart!Next \/ UNCHANGED <<[c \in Cards |-> ChartState(c)], cardList>>
  PROVE  Chart!MemoryRules'
<1> USE DEF Chart!MemoryRules, Chart!Present, Chart!Is, Chart!States, Chart!Memories, Chart!None,
            Chart!Move
<1>0. Sides \cap {Chart!None, "bound"} = {}
  BY DEF Sides
<1>1. ASSUME NEW c \in Cards, Chart!Place(c) PROVE Chart!MemoryRules'
  <2>1. \A d \in Cards : ChartState(d)' =
          IF d = c THEN IF cardList[c] = None THEN <<"Unbound", None>> ELSE <<"Memory", None>>
          ELSE ChartState(d)
    BY <1>1 DEF Chart!Place, None
  <2>2. cardList' = cardList
    BY <1>1 DEF Chart!Place
  <2>3. \A d \in Cards : ChartState(d)' \in Chart!States
    BY <2>1, <2>2 DEF None
  <2> QED
    BY <2>1, <2>2, <2>3 DEF None
<1>2. ASSUME NEW c \in Cards, Chart!Accept(c) PROVE Chart!MemoryRules'
  BY <1>2 DEF Chart!Accept
<1>3. ASSUME NEW c \in Cards, Chart!Reject(c) PROVE Chart!MemoryRules'
  BY <1>3 DEF Chart!Reject
<1>4. ASSUME NEW S \in SUBSET Cards, Chart!Remove(S) PROVE Chart!MemoryRules'
  BY <1>4 DEF Chart!Remove
<1>5. ASSUME NEW S \in SUBSET Cards, Chart!ForceClear(S) PROVE Chart!MemoryRules'
  BY <1>5 DEF Chart!ForceClear
<1>6. ASSUME NEW S \in SUBSET Cards, Chart!Timeout(S) PROVE Chart!MemoryRules'
  BY <1>0, <1>6 DEF Chart!Timeout
<1>7. ASSUME NEW S \in SUBSET Cards, NEW side \in Sides, Chart!Fetch(S, side)
      PROVE  Chart!MemoryRules'
  BY <1>0, <1>7 DEF Chart!Fetch
<1>8. CASE UNCHANGED <<[c \in Cards |-> ChartState(c)], cardList>>
  BY <1>8
<1> QED
  BY <1>1, <1>2, <1>3, <1>4, <1>5, <1>6, <1>7, <1>8 DEF Chart!Next

\* A basket that the controller shows is in the state its memory names exactly if it is
\* remembered, and otherwise unbound, in error, cancelled or timed out, for any number of
\* units, baskets and commands (GetLEDState, UnitManager.cpp:121-128).
THEOREM MemoryIsShown == Spec => []Chart!MemoryRules
<1>1. Spec => Chart!Spec
  BY ChartIsFollowed DEF FollowsChart
<1>2. Chart!MemoryRules /\ [Chart!Next]_<<[c \in Cards |-> ChartState(c)], cardList>>
      => Chart!MemoryRules'
  BY RulesNext
<1> QED
  BY RulesInit, <1>1, <1>2, PTL DEF Chart!Spec

-----------------------------------------------------------------------------
(* FindUnit finds a basket where it is.                                    *)

LEMMA InitPlace == Init => PlaceInv
<1> SUFFICES ASSUME Init PROVE PlaceInv
  OBVIOUS
<1>1. \A u \in Units : at[u] = NoCard
  BY DEF Init
<1> QED
  BY <1>1, InventoryAssumption DEF PlaceInv, Alone, Pending, Kept

\* A step that moves no basket, takes no basket from a unit and does not bring UpdateLatest
\* nearer keeps the invariant.
LEMMA PlaceAside ==
  ASSUME PlaceInv, UNCHANGED <<at, told, cardId, latest, processing>>, hurried \subseteq hurried',
         \A v \in Units : \A c : Claims(v, c)' => Claims(v, c)
  PROVE  PlaceInv'
BY DEF PlaceInv, Alone, Pending, Kept

\* Most steps of the pass do not bring it nearer either.
LEMMA PassClaims ==
  ASSUME CardInv,
         \/ StartPass \/ Decide \/ Lookup \/ Ask \/ Light \/ Leave \/ UpdateCard \/ Report \/ EndPass
         \/ \E x \in Units : Visit(x),
         NEW v \in Units, NEW c, Claims(v, c)'
  PROVE  Claims(v, c)
<1> USE DEF CardInv
<1>1. /\ UNCHANGED <<cardState, cardId, processing, held>>
      /\ cardChanged'[v] => cardChanged[v]
  BY DEF StartPass, Decide, Lookup, Ask, Light, Leave, UpdateCard, Report, EndPass, Visit, unitVars, Types
<1>2. CASE \E x \in Units : Visit(x)
  BY <1>1, <1>2 DEF Visit, Claims, Handling
<1>3. CASE Decide
  BY <1>1, <1>3 DEF Decide, Claims, Handling
<1>4. CASE StartPass \/ Lookup \/ Ask \/ Light \/ Leave \/ UpdateCard \/ Report \/ EndPass
  <2>1. pc' # "arrival" /\ (Handling(v)' => Handling(v))
    BY <1>4 DEF StartPass, Lookup, Ask, Light, Leave, UpdateCard, Updated, Report, EndPass, Handling
  <2> QED
    BY <1>1, <2>1 DEF Claims
<1> QED
  BY <1>2, <1>3, <1>4

\* Every step keeps the invariant.
LEMMA PlaceKept == ASSUME CardInv, PlaceInv, [Next]_vars PROVE PlaceInv'
<1> USE DEF CardInv
<1>1. ASSUME NEW x \in Units, Take(x) PROVE PlaceInv'
  <2>1. /\ UNCHANGED <<unitVars, passVars, history>>
        /\ at'[x] = NoCard /\ \A u \in Units \ {x} : at'[u] = at[u]
    BY <1>1 DEF Take, Types
  <2>2. \A v \in Units : \A c : Claims(v, c)' <=> Claims(v, c)
    BY <2>1 DEF Claims, Handling, unitVars, passVars
  <2> QED
    BY <2>1, <2>2, InventoryAssumption DEF PlaceInv, Alone, Pending, Kept, unitVars, history
<1>2. ASSUME NEW x \in Units, NEW c \in Cards, Put(c, x) PROVE PlaceInv'
  <2>1. /\ UNCHANGED <<unitVars, passVars>>
        /\ at'[x] = c /\ \A u \in Units \ {x} : at'[u] = at[u] /\ at[u] # c
        /\ hurried' = IF Forgot(x, c) \/ \E v \in Units \ {x} : Claims(v, c)
                      THEN hurried \cup {c} ELSE hurried \ {c}
    BY <1>2 DEF Put, Types
  <2>2. \A v \in Units : \A d : Claims(v, d)' <=> Claims(v, d)
    BY <2>1 DEF Claims, Handling, unitVars, passVars
  <2>3. \A u \in Units \ {x} : at'[u] \in Cards \ hurried' => at[u] \in Cards \ hurried
    BY <2>1
  <2>4. c \notin hurried' => ~Forgot(x, c) /\ \A v \in Units \ {x} : ~Claims(v, c)
    BY <2>1
  <2>5. Alone'
    BY <2>1 DEF PlaceInv, Alone
  <2>6. Pending'
    BY <2>1, <2>2, <2>3, <2>4 DEF PlaceInv, Pending
  <2>7. Kept'
    BY <2>1, <2>3, <2>4 DEF PlaceInv, Kept, Forgot, unitVars
  <2> QED
    BY <2>5, <2>6, <2>7 DEF PlaceInv
<1>3. ASSUME NEW x \in Units, StoreState(x) PROVE PlaceInv'
  <2>1. /\ UNCHANGED <<at, cardId, cardChanged, passVars>>
        /\ hurried \subseteq hurried'
        /\ \A v \in Units : ~processing[v]
        /\ processing'[x] /\ told'[x] = at[x] /\ held' = at[x]
        /\ latest'[x] <=> at[x] # NoCard
        /\ cardState'[x] = "arrival" => at[x] # NoCard
        /\ \A v \in Units \ {x} : UNCHANGED <<cardState[v], latest[v], told[v], processing[v]>>
        /\ at[x] # NoCard /\ Handling(x) => cardId[x] \in NoneOr(hurried')
    BY <1>3 DEF StoreState, Types, NoneOr
  <2>2. ASSUME NEW v \in Units, NEW u \in Units \ {v}, at[u] \in Cards \ hurried', Claims(v, at[u])'
        PROVE  FALSE
    <3>1. ~Claims(v, at[u])
      BY <2>1, <2>2 DEF PlaceInv, Pending
    <3>2. v = x
      BY <2>1, <2>2, <3>1 DEF Claims, Handling, passVars
    <3>3. at[x] # at[u]
      BY <2>2, <3>2, InventoryAssumption DEF PlaceInv, Alone
    <3>4. cardId[x] = at[u] /\ Handling(x) /\ (pc = "arrival" \/ at[x] # NoCard)
      BY <2>1, <2>2, <3>2, <3>3 DEF Claims, Handling, passVars
    <3>5. pc # "arrival"
      BY <3>1, <3>2, <3>4 DEF Claims, Handling
    <3> QED
      BY <2>1, <2>2, <3>4, <3>5, InventoryAssumption DEF NoneOr
  <2>3. Alone' /\ Pending'
    BY <2>1, <2>2 DEF PlaceInv, Alone, Pending
  <2>4. Kept'
    BY <2>1, InventoryAssumption DEF PlaceInv, Kept
  <2> QED
    BY <2>3, <2>4 DEF PlaceInv
<1>4. ASSUME NEW x \in Units, StoreId(x) PROVE PlaceInv'
  <2>1. /\ UNCHANGED <<at, told, cardState, latest, passVars, hurried>>
        /\ processing[x] /\ \A v \in Units : ~processing'[v]
        /\ held = told[x]
        /\ cardId'[x] = IF held = NoCard THEN cardId[x] ELSE held
        /\ \A v \in Units \ {x} : UNCHANGED <<cardId[v], cardChanged[v]>> /\ ~processing[v]
    BY <1>4 DEF StoreId, Types, Agreed, history
  <2>2. \A v \in Units \ {x} : \A c : Claims(v, c)' => Claims(v, c)
    BY <2>1 DEF Claims, Handling, passVars
  <2>3. ASSUME NEW c \in Cards, Claims(x, c)' PROVE Claims(x, c)
    <3>1. CASE held = NoCard
      <4>1. cardState[x] # "arrival"
        BY <2>1, <3>1 DEF Agreed
      <4> QED
        BY <2>1, <2>3, <3>1, <4>1 DEF Claims, passVars
    <3>2. CASE held # NoCard
      BY <2>1, <2>3, <3>2 DEF Claims
    <3> QED
      BY <3>1, <3>2
  <2>4. Alone' /\ Pending'
    BY <2>1, <2>2, <2>3 DEF PlaceInv, Alone, Pending
  <2>5. Kept'
    BY <2>1, InventoryAssumption DEF PlaceInv, Kept
  <2> QED
    BY <2>4, <2>5 DEF PlaceInv
<1>5. CASE UpdateLatest
  <2>1. /\ UNCHANGED <<at, told, cardState, cardId, cardChanged, processing, held, cur>>
        /\ pc = "arrival" /\ pc' = "lookup" /\ cur \in Units /\ hurried \subseteq hurried'
        /\ \A v \in Units : latest'[v] <=> latest[v] /\ v \notin Outdated(cur)
        /\ \A v \in Outdated(cur) : processing[v] => held \in NoneOr(hurried')
    BY <1>5 DEF UpdateLatest, Settle, Types, Working, NoneOr
  <2>2. \A v \in Units : \A c : Claims(v, c)' => Claims(v, c)
    BY <2>1 DEF Claims, Handling
  <2>3. ASSUME NEW u \in Units, at[u] \in Cards \ hurried', told[u] = at[u], u \in Outdated(cur)
        PROVE  FALSE
    <3>1. ~processing[u]
      BY <2>1, <2>3, InventoryAssumption DEF Agreed, NoneOr
    <3>2. cardId[u] = at[u] /\ cardId[u] = cardId[cur] /\ u # cur
      BY <2>1, <2>3, <3>1 DEF PlaceInv, Kept, Outdated
    <3>3. Claims(cur, at[u])
      BY <2>1, <3>2 DEF Claims
    <3> QED
      BY <2>1, <2>3, <3>2, <3>3 DEF PlaceInv, Pending
  <2>4. Alone' /\ Pending'
    BY <2>1, <2>2 DEF PlaceInv, Alone, Pending
  <2>5. Kept'
    BY <2>1, <2>3 DEF PlaceInv, Kept
  <2> QED
    BY <2>4, <2>5 DEF PlaceInv
<1>6. CASE EraseId
  <2>1. /\ UNCHANGED <<at, told, cardState, cardChanged, latest, processing, held, cur>>
        /\ pc' # "arrival" /\ pc \notin {"idle", "next"} /\ cur \in Units /\ hurried \subseteq hurried'
        /\ cardId'[cur] = NoCard /\ \A v \in Units \ {cur} : cardId'[v] = cardId[v]
        /\ cardState[cur] = "arrival" => cardId[cur] \in NoneOr(hurried')
    BY <1>6 DEF EraseId, Updated, Types, Working, NoneOr
  <2>2. \A v \in Units : \A c \in Cards : Claims(v, c)' => Claims(v, c)
    BY <2>1, InventoryAssumption DEF Claims, Handling
  <2>3. ASSUME at[cur] \in Cards \ hurried', told[cur] = at[cur] PROVE processing[cur]
    <3>1. cardState[cur] = "arrival"
      BY <2>1, <2>3, InventoryAssumption DEF Agreed
    <3>2. processing[cur] \/ cardId[cur] = at[cur]
      BY <2>1, <2>3 DEF PlaceInv, Kept
    <3> QED
      BY <2>1, <2>3, <3>1, <3>2, InventoryAssumption DEF NoneOr
  <2>4. Alone' /\ Pending'
    BY <2>1, <2>2 DEF PlaceInv, Alone, Pending
  <2>5. Kept'
    BY <2>1, <2>3 DEF PlaceInv, Kept
  <2> QED
    BY <2>4, <2>5 DEF PlaceInv
<1>7. CASE \/ StartPass \/ Decide \/ Lookup \/ Ask \/ Light \/ Leave \/ UpdateCard \/ Report \/ EndPass
           \/ \E x \in Units : Visit(x)
  <2>1. UNCHANGED <<at, told, cardId, latest, processing, hurried>>
    BY <1>7 DEF StartPass, Decide, Lookup, Ask, Light, Leave, UpdateCard, Report, EndPass, Visit,
       unitVars, history
  <2> QED
    BY <1>7, <2>1, PassClaims, PlaceAside
<1>8. CASE TcpClientCommandArrival \/ Connect \/ Disconnect \/ UNCHANGED vars
  <2>1. UNCHANGED <<at, unitVars, passVars, hurried>>
    BY <1>8, Commands DEF Connect, Disconnect, vars, history
  <2>2. \A v \in Units : \A c : Claims(v, c)' <=> Claims(v, c)
    BY <2>1 DEF Claims, Handling, unitVars, passVars
  <2> QED
    BY <2>1, <2>2, PlaceAside DEF unitVars
<1> QED
  BY <1>1, <1>2, <1>3, <1>4, <1>5, <1>6, <1>7, <1>8 DEF Next, Environment, InventoryRfid

\* Whenever every unit has reported what lies on it, FindUnit finds every basket exactly where
\* it is, for any number of units and baskets and every interleaving of the three threads, if
\* the basket was not moved on while its arrival was still to be handled, nor back to a unit
\* that had not missed it (Inventory.FoundWhereItIs).
THEOREM BasketsAreFound == Spec => []FoundWhereItIs
<1>1. CardInv /\ PlaceInv => FoundWhereItIs
  <2> SUFFICES ASSUME CardInv, PlaceInv, \A u \in Units : told[u] = at[u] /\ ~processing[u],
                      NEW u \in Units, at[u] \notin {NoCard} \cup hurried
               PROVE  Found(at[u]) = {u}
    BY DEF FoundWhereItIs
  <2> USE DEF CardInv
  <2>1. at[u] \in Cards \ hurried
    BY DEF Types, NoneOr
  <2>2. u \in Found(at[u])
    BY <2>1, InventoryAssumption DEF PlaceInv, Kept, Found, Agreed
  <2>3. ASSUME NEW v \in Found(at[u]) PROVE v = u
    <3>1. v \in Units /\ cardState[v] = "arrival" /\ cardId[v] = at[u]
      BY <2>1, InventoryAssumption DEF Found, Agreed, Types
    <3>2. at[v] = at[u]
      BY <2>1, <3>1, InventoryAssumption DEF Agreed
    <3> QED
      BY <2>1, <3>1, <3>2, InventoryAssumption DEF PlaceInv, Alone
  <2> QED
    BY <2>2, <2>3
<1> QED
  BY <1>1, InitCard, CardKept, InitPlace, PlaceKept, PTL DEF Spec
=============================================================================
