----------------------------- MODULE Registration -----------------------------
(***************************************************************************)
(* How the controller finds its shelf units.  At boot it broadcasts one    *)
(* SYNC_LIVE; the frame toggles `Connected' of every unit that hears it.   *)
(* A unit that is not Connected sends a heartbeat every HeartbeatInterval; *)
(* the controller answers each with a SYNC_LIVE to that unit, which        *)
(* toggles it back and registers it.  The answer does not say whether it   *)
(* confirms or wakes: both are the same frame.                             *)
(***************************************************************************)
EXTENDS Naturals

CONSTANTS
  Units,          \* shelf units
  EarlyUnits,     \* those powered before the controller boots
  Prompt,         \* once it polls, does the controller answer a heartbeat
                  \* within HeartbeatInterval?
  LossyFrames,    \* the frames the bus may lose: "heartbeat", "live", "boot"
  MaxHostResets,  \* bound: restarts of the controller
  MaxUnitResets,  \* bound: restarts of units
  QueueCap        \* bound: frames of one kind on their way for one unit

ASSUME RegistrationAssumption ==
  /\ EarlyUnits \subseteq Units
  /\ Prompt \in BOOLEAN
  /\ LossyFrames \subseteq {"heartbeat", "live", "boot"}
  /\ MaxHostResets \in Nat /\ MaxUnitResets \in Nat
  /\ QueueCap \in Nat \ {0}

VARIABLES
  powered,      \* units that run
  Connected,    \* unit: a host has confirmed it; it does not announce itself
  Registered,   \* unit: a host has registered it; it may broadcast card data
  heartbeats,   \* heartbeats of each unit waiting in the controller
  lives,        \* SYNC_LIVE frames on their way to each unit
  host,         \* controller: "down", "init" (CAN runs, no poll yet), "run"
  known,        \* controller: units in UnitManager's unitList
  cleanBoot,    \* history: the last SYNC_LIVE of a boot met only silent units, and
                \* none was powered up or restarted since
  hostResets, unitResets

unitVars == <<powered, Connected, Registered, unitResets>>
hostVars == <<host, known, hostResets>>
busVars == <<heartbeats, lives>>
vars == <<unitVars, busVars, hostVars, cleanBoot>>

Init ==
  /\ powered = EarlyUnits
  /\ Connected = [u \in Units |-> TRUE]
  /\ Registered = [u \in Units |-> FALSE]
  /\ heartbeats = [u \in Units |-> 0]
  /\ lives = [u \in Units |-> 0]
  /\ host = "down"
  /\ known = {}
  /\ cleanBoot = FALSE
  /\ hostResets = 0
  /\ unitResets = 0

\* one more frame in the count, unless the queue is full or the bus loses it
Send(queue, u, kind) ==
  \/ /\ queue[u] < QueueCap
     /\ queue' = [queue EXCEPT ![u] = @ + 1]
  \/ /\ kind \in LossyFrames \/ queue[u] >= QueueCap
     /\ queue' = queue

-----------------------------------------------------------------------------
(* The units.                                                              *)

PowerUp(u) ==
  /\ u \notin powered
  /\ powered' = powered \cup {u}
  /\ cleanBoot' = (cleanBoot /\ host # "run")
  /\ UNCHANGED <<Connected, Registered, unitResets, busVars, hostVars>>

\* nothing is on its way to or from the unit
Quiet(u) == heartbeats[u] = 0 /\ lives[u] = 0

\* the timer interrupt: CANEXHeartbeat while not Connected
Heartbeat(u) ==
  /\ u \in powered /\ ~Connected[u]
  /\ Prompt /\ host = "run" => Quiet(u)
  /\ IF host = "down" THEN UNCHANGED heartbeats
                      ELSE Send(heartbeats, u, "heartbeat")
  /\ UNCHANGED <<unitVars, lives, hostVars, cleanBoot>>

\* mutant: a confirmation only connects, it never wakes
TriggerLiveConnects(u) ==
  /\ u \in powered
  /\ lives[u] > 0
  /\ lives' = [lives EXCEPT ![u] = @ - 1]
  /\ Connected' = [Connected EXCEPT ![u] = TRUE]
  /\ Registered' = [Registered EXCEPT ![u] = TRUE]
  /\ UNCHANGED <<powered, unitResets, heartbeats, hostVars, cleanBoot>>

\* mutant: Registered is set when the unit is woken, not when it is confirmed
TriggerLiveRegistersEarly(u) ==
  /\ u \in powered
  /\ lives[u] > 0
  /\ lives' = [lives EXCEPT ![u] = @ - 1]
  /\ Connected' = [Connected EXCEPT ![u] = ~@]
  /\ Registered' = [Registered EXCEPT ![u] = Connected[u]]
  /\ UNCHANGED <<powered, unitResets, heartbeats, hostVars, cleanBoot>>

\* CanexSyncTrigger(SYNC_LIVE), in the CAN interrupt
TriggerLive(u) ==
  /\ u \in powered
  /\ lives[u] > 0
  /\ lives' = [lives EXCEPT ![u] = @ - 1]
  /\ Connected' = [Connected EXCEPT ![u] = ~@]
  /\ Registered' = [Registered EXCEPT ![u] = @ \/ ~Connected[u]]
  /\ UNCHANGED <<powered, unitResets, heartbeats, hostVars, cleanBoot>>

\* power is cut and comes back; frames may pass the unit by meanwhile
UnitReset(u) ==
  /\ u \in powered
  /\ unitResets < MaxUnitResets
  /\ unitResets' = unitResets + 1
  /\ Connected' = [Connected EXCEPT ![u] = TRUE]
  /\ Registered' = [Registered EXCEPT ![u] = FALSE]
  /\ \E n \in 0..lives[u] : lives' = [lives EXCEPT ![u] = n]
  /\ cleanBoot' = (cleanBoot /\ host # "run")
  /\ UNCHANGED <<powered, heartbeats, hostVars>>

-----------------------------------------------------------------------------
(* The controller.                                                         *)

\* new CanEx: from here on frames are queued
CanStart ==
  /\ host = "down"
  /\ host' = "init"
  /\ UNCHANGED <<unitVars, busVars, known, hostResets, cleanBoot>>

\* SyncAll(SYNC_LIVE), then the polling thread is created
SyncAllLive ==
  /\ host = "init"
  /\ host' = "run"
  /\ \E heard \in SUBSET powered :
       /\ "boot" \notin LossyFrames => heard = powered
       /\ lives' = [u \in Units |-> IF u \in heard /\ lives[u] < QueueCap
                                    THEN lives[u] + 1 ELSE lives[u]]
  /\ cleanBoot' = \A u \in powered : Connected[u] /\ Quiet(u)
  /\ UNCHANGED <<unitVars, heartbeats, known, hostResets>>

\* mutant: a unit already in the list gets no answer
HeartbeatArrivalOnce(u) ==
  /\ host = "run"
  /\ heartbeats[u] > 0
  /\ heartbeats' = [heartbeats EXCEPT ![u] = @ - 1]
  /\ IF u \in known THEN lives' = lives ELSE Send(lives, u, "live")
  /\ known' = known \cup {u}
  /\ UNCHANGED <<unitVars, host, hostResets, cleanBoot>>

\* mutant: one answer registers, a second one confirms
HeartbeatArrivalTwice(u) ==
  /\ host = "run"
  /\ heartbeats[u] > 0
  /\ heartbeats' = [heartbeats EXCEPT ![u] = @ - 1]
  /\ lives[u] + 2 <= QueueCap
  /\ lives' = [lives EXCEPT ![u] = @ + 2]
  /\ known' = known \cup {u}
  /\ UNCHANGED <<unitVars, host, hostResets, cleanBoot>>

HeartbeatArrival(u) ==
  /\ host = "run"
  /\ heartbeats[u] > 0
  /\ heartbeats' = [heartbeats EXCEPT ![u] = @ - 1]
  /\ Send(lives, u, "live")
  /\ known' = known \cup {u}
  /\ UNCHANGED <<unitVars, host, hostResets, cleanBoot>>

HostReset ==
  /\ host = "run"
  /\ hostResets < MaxHostResets
  /\ hostResets' = hostResets + 1
  /\ host' = "down"
  /\ known' = {}
  /\ heartbeats' = [u \in Units |-> 0]
  /\ lives' = [u \in Units |-> 0]
  /\ UNCHANGED <<unitVars, cleanBoot>>

-----------------------------------------------------------------------------
UnitStep(u) == PowerUp(u) \/ Heartbeat(u) \/ TriggerLive(u) \/ UnitReset(u)

HostStep == CanStart \/ SyncAllLive \/ HostReset \/ \E u \in Units : HeartbeatArrival(u)

\* everybody is found: the model, not the system, stops here
Rest ==
  /\ host = "run" /\ powered = Units
  /\ \A u \in Units : Connected[u] /\ Quiet(u)
  /\ UNCHANGED vars

Next == HostStep \/ (\E u \in Units : UnitStep(u)) \/ Rest

Spec == Init /\ [][Next]_vars

\* The boot sequence goes on, timer and CAN interrupts and the polling thread
\* run, and the bus does not lose every frame of a unit that repeats it.
HeartbeatHeard(u) == Heartbeat(u) /\ heartbeats'[u] > heartbeats[u]
AnswerHeard(u) == HeartbeatArrival(u) /\ lives'[u] > lives[u]

Fairness ==
  /\ WF_vars(CanStart) /\ WF_vars(SyncAllLive)
  /\ \A u \in Units :
       /\ WF_vars(PowerUp(u)) /\ WF_vars(TriggerLive(u))
       /\ WF_vars(HeartbeatArrival(u))
       /\ SF_vars(HeartbeatHeard(u)) /\ SF_vars(AnswerHeard(u))

FairSpec == Spec /\ Fairness

-----------------------------------------------------------------------------
(* Properties.                                                             *)

\* Every variable stays in its type.
TypeOK ==
  /\ powered \subseteq Units /\ known \subseteq Units
  /\ Connected \in [Units -> BOOLEAN] /\ Registered \in [Units -> BOOLEAN]
  /\ heartbeats \in [Units -> 0..QueueCap] /\ lives \in [Units -> 0..QueueCap]
  /\ host \in {"down", "init", "run"}
  /\ cleanBoot \in BOOLEAN
  /\ hostResets \in 0..MaxHostResets /\ unitResets \in 0..MaxUnitResets

\* The properties hold after a clean boot: the code gives no other promise.
Found(u) == u \in known /\ Connected[u] /\ Registered[u]

Clean == host = "run" /\ cleanBoot

\* A powered unit that is missing from unitList (HeartbeatArrival, main.cpp:55)
\* keeps announcing itself while nothing is on its way to or from it: the
\* toggled flag never leaves a unit mute that the running controller lacks.
NoOrphan ==
  Clean => \A u \in powered \ known : Quiet(u) => ~Connected[u]

\* A known unit with nothing on its way is registered once it is silent, so it
\* may report its card, whichever heartbeats and answers were lost or whatever
\* restarted before (iShelfUnit/main.cpp:333-335).
KnownIsRegistered ==
  Clean => \A u \in known : Quiet(u) /\ Connected[u] => Registered[u]

\* "Confirm & Stop" (main.cpp:52): a SYNC_LIVE that reaches a known unit stops
\* its heartbeats; it never wakes a unit already confirmed.
ConfirmStops ==
  [][Clean => \A u \in known : TriggerLive(u) => Connected'[u]]_vars

\* After the last clean boot every unit ends up in the list, confirmed and
\* registered, and stays so, whatever late power-ups and restarts came before.
CleanBootFindsAll == <>[](Clean => \A u \in Units : Found(u))
=============================================================================
