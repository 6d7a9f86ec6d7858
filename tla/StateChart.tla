------------------------------ MODULE StateChart ------------------------------
(***************************************************************************)
(* What the controller promises about baskets: the state chart of          *)
(* src/Docs/iShelf Unit State Chart.pdf, one state for each basket and the *)
(* memory the controller keeps of it, for all baskets at once.  "Memory"   *)
(* stands for the state that the memory names: Bound, or Fetch on a side.  *)
(***************************************************************************)
EXTENDS Naturals

CONSTANTS Cards, Sides

VARIABLES state, memory

None == "none"

Memories == {None, "bound"} \cup Sides
States == ({"Idle", "Memory", "Unbound", "Error", "Cancel"} \X {None})
          \cup ({"Timeout"} \X Sides)

Is(name) == <<name, None>>

Init ==
  /\ state = [c \in Cards |-> Is("Idle")]
  /\ memory = [c \in Cards |-> None]

Present == {c \in Cards : state[c] # Is("Idle")}

\* the states after a step that takes each present basket c of S to To(c)
Move(S, To(_)) == state' = [c \in Cards |-> IF c \in S \cap Present THEN To(c) ELSE state[c]]

Place(c) ==
  /\ c \notin Present
  /\ state' = [state EXCEPT ![c] = IF memory[c] = None THEN Is("Unbound") ELSE Is("Memory")]
  /\ UNCHANGED memory

\* a basket goes; it may have been replaced by one that goes from its slot
Remove(S) == Move(S, LAMBDA c : Is("Idle")) /\ UNCHANGED memory

Accept(c) ==
  /\ memory' = [memory EXCEPT ![c] = "bound"]
  /\ Move({c}, LAMBDA d : Is("Memory"))

Reject(c) ==
  /\ memory' = [memory EXCEPT ![c] = None]
  /\ Move({c}, LAMBDA d : Is("Error"))

\* another prescription on the side: what was fetched there is cancelled
Fetch(S, side) ==
  LET old == {c \in Cards : memory[c] = side} IN
  \E found \in SUBSET S :
    /\ S \cap Present \subseteq found
    /\ memory' = [c \in Cards |-> IF c \in found THEN side
                                  ELSE IF c \in old THEN None ELSE memory[c]]
    /\ Move(found \cup old, LAMBDA c : IF c \in found THEN Is("Memory") ELSE Is("Cancel"))

ForceClear(S) ==
  /\ memory' = [c \in Cards |-> IF c \in S THEN None ELSE memory[c]]
  /\ Move(S, LAMBDA c : Is("Cancel"))

\* a basket that is not being fetched has no side to show
Timeout(S) ==
  /\ memory' = [c \in Cards |-> IF c \in S THEN None ELSE memory[c]]
  /\ Move({c \in S : memory[c] # None},
          LAMBDA c : IF memory[c] \in Sides THEN <<"Timeout", memory[c]>> ELSE Is("Cancel"))

Next ==
  \/ \E c \in Cards : Place(c) \/ Accept(c) \/ Reject(c)
  \/ \E S \in SUBSET Cards : \/ Remove(S) \/ ForceClear(S) \/ Timeout(S)
                             \/ \E side \in Sides : Fetch(S, side)

Spec == Init /\ [][Next]_<<state, memory>>

\* A present basket is in the state its memory names exactly if it has one: no
\* sequence of commands leaves a remembered basket lit as unbound, cancelled or
\* timed out (the branch "memory of state?" of the chart, GetLEDState in the code).
MemoryRules ==
  /\ state \in [Cards -> States] /\ memory \in [Cards -> Memories]
  /\ \A c \in Present : state[c] = Is("Memory") <=> memory[c] # None
=============================================================================
