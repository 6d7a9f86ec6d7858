---------------------------- MODULE Unit_proofs ----------------------------
(***************************************************************************)
(* What is proved of the two parts of a unit that do not meet: how it      *)
(* registers with the controller, and how it reads tags.                   *)
(***************************************************************************)
EXTENDS Registration, ReaderScans, SequenceTheorems, TLAPS

-----------------------------------------------------------------------------
(* Registration: after a clean boot no unit is lost, for any number of     *)
(* units and any bounds, if the controller answers in time and the bus     *)
(* delivers the SYNC_LIVE of the boot.  The invariant follows each unit    *)
(* through its handshake: silent with the boot frame on its way,           *)
(* announcing itself with at most one frame on its way, or confirmed.      *)

\* the controller knows nobody before it polls; no frame for a unit without power
Bounds ==
  /\ heartbeats \in [Units -> Nat] /\ lives \in [Units -> Nat]
  /\ Connected \in [Units -> BOOLEAN] /\ Registered \in [Units -> BOOLEAN]
  /\ powered \subseteq Units /\ known \subseteq powered
  /\ host \in {"down", "init", "run"}
  /\ host # "run" => known = {}
  /\ \A u \in Units \ powered : heartbeats[u] = 0 /\ lives[u] = 0

\* a unit the controller has not heard of
Announcing(u) ==
  \/ lives[u] = 1 /\ heartbeats[u] = 0 /\ Connected[u]
  \/ lives[u] = 0 /\ heartbeats[u] \in {0, 1} /\ ~Connected[u]

\* a unit in the list
Confirming(u) ==
  \/ lives[u] = 0 /\ heartbeats[u] = 0 /\ (Connected[u] => Registered[u])
  \/ lives[u] + heartbeats[u] = 1 /\ ~Connected[u]

Handshake ==
  Clean => /\ \A u \in powered \ known : Announcing(u)
           /\ \A u \in known : Confirming(u)

Inv == Bounds /\ Handshake

\* What the theorems assume: an answer within HeartbeatInterval, a boot frame
\* that is never lost.
Assumed == Prompt /\ "boot" \notin LossyFrames

LEMMA InvInit == Init => Inv
BY RegistrationAssumption DEF Init, Inv, Bounds, Handshake, Clean

LEMMA BoundsNext == Bounds /\ [Next]_vars => Bounds'
<1> SUFFICES ASSUME Bounds, [Next]_vars PROVE Bounds'
  OBVIOUS
<1> USE RegistrationAssumption DEF Bounds, Quiet, Send
<1>1. ASSUME NEW u \in Units, PowerUp(u) PROVE Bounds'
  BY <1>1 DEF PowerUp, busVars, hostVars
<1>2. ASSUME NEW u \in Units, Heartbeat(u) PROVE Bounds'
  BY <1>2 DEF Heartbeat, unitVars, hostVars
<1>3. ASSUME NEW u \in Units, TriggerLive(u) PROVE Bounds'
  BY <1>3 DEF TriggerLive, hostVars
<1>4. ASSUME NEW u \in Units, UnitReset(u) PROVE Bounds'
  BY <1>4 DEF UnitReset, hostVars
<1>5. CASE CanStart
  BY <1>5 DEF CanStart, unitVars, busVars
<1>6. CASE SyncAllLive
  BY <1>6 DEF SyncAllLive, unitVars
<1>7. CASE HostReset
  BY <1>7 DEF HostReset, unitVars
<1>8. ASSUME NEW u \in Units, HeartbeatArrival(u) PROVE Bounds'
  BY <1>8 DEF HeartbeatArrival, unitVars
<1>9. CASE UNCHANGED vars
  BY <1>9 DEF vars, unitVars, busVars, hostVars
<1> QED
  BY <1>1, <1>2, <1>3, <1>4, <1>5, <1>6, <1>7, <1>8, <1>9
  DEF Next, HostStep, UnitStep, Rest

LEMMA HandshakeNext == Assumed /\ Inv /\ [Next]_vars => Handshake'
<1> SUFFICES ASSUME Assumed, Inv, [Next]_vars, Clean'
             PROVE /\ \A u \in powered' \ known' : Announcing(u)'
                   /\ \A u \in known' : Confirming(u)'
  BY DEF Handshake
<1> USE RegistrationAssumption DEF Inv, Bounds, Handshake, Clean, Quiet, Send,
                                   Announcing, Confirming
<1>1. ASSUME NEW u \in Units, PowerUp(u) PROVE FALSE
  BY <1>1 DEF PowerUp, hostVars
<1>2. ASSUME NEW u \in Units, Heartbeat(u)
      PROVE (\A v \in powered' \ known' : Announcing(v)') /\ \A v \in known' : Confirming(v)'
  BY <1>2 DEF Heartbeat, unitVars, hostVars, Assumed
<1>3. ASSUME NEW u \in Units, TriggerLive(u)
      PROVE (\A v \in powered' \ known' : Announcing(v)') /\ \A v \in known' : Confirming(v)'
  <2>1. Clean /\ known' = known /\ powered' = powered /\ heartbeats' = heartbeats
    BY <1>3 DEF TriggerLive, hostVars
  <2>2. ASSUME NEW v \in powered, v # u
        PROVE lives'[v] = lives[v] /\ Connected'[v] = Connected[v] /\ Registered'[v] = Registered[v]
    BY <1>3, <2>2 DEF TriggerLive
  <2>3. lives'[u] = lives[u] - 1 /\ Connected'[u] = ~Connected[u] /\ lives[u] > 0
    BY <1>3 DEF TriggerLive
  <2>4. Registered'[u] = (Registered[u] \/ ~Connected[u])
    BY <1>3 DEF TriggerLive
  <2>5. ASSUME NEW v \in powered \ known PROVE Announcing(v)'
    <3>1. CASE v # u
      BY <2>1, <2>2, <2>5, <3>1
    <3>2. CASE v = u
      <4>1. lives[u] = 1 /\ heartbeats[u] = 0 /\ Connected[u]
        BY <2>1, <2>3, <2>5, <3>2
      <4>2. lives'[u] = 0 /\ heartbeats'[u] = 0
        BY <4>1, <2>1, <2>3
      <4>3. ~Connected'[u]
        BY <4>1, <2>3
      <4> QED
        BY <4>2, <4>3, <3>2 DEF Announcing
    <3> QED
      BY <3>1, <3>2
  <2>6. ASSUME NEW v \in known, v # u PROVE Confirming(v)'
    BY <2>1, <2>2, <2>6
  <2>7. ASSUME u \in known PROVE Confirming(u)'
    <3>1. lives[u] = 1 /\ heartbeats[u] = 0 /\ ~Connected[u]
      BY <2>1, <2>3, <2>7
    <3> QED
      BY <3>1, <2>1, <2>3, <2>4
  <2> QED
    BY <2>1, <2>5, <2>6, <2>7
<1>4. ASSUME NEW u \in Units, UnitReset(u) PROVE FALSE
  BY <1>4 DEF UnitReset, hostVars
<1>5. CASE CanStart
  BY <1>5 DEF CanStart
<1>6. CASE SyncAllLive
  <2>1. known' = {} /\ powered' = powered /\ heartbeats' = heartbeats /\ Connected' = Connected
    BY <1>6 DEF SyncAllLive, unitVars
  <2>2. ASSUME NEW v \in powered PROVE Connected[v] /\ heartbeats[v] = 0 /\ lives[v] = 0
    BY <1>6 DEF SyncAllLive
  <2>3. lives' = [u \in Units |-> IF u \in powered /\ lives[u] < QueueCap
                                  THEN lives[u] + 1 ELSE lives[u]]
    BY <1>6 DEF SyncAllLive, Assumed
  <2>4. ASSUME NEW v \in powered PROVE lives'[v] = 1
    BY <2>2, <2>3
  <2> QED
    BY <2>1, <2>2, <2>4
<1>7. CASE HostReset
  BY <1>7 DEF HostReset
<1>8. ASSUME NEW u \in Units, HeartbeatArrival(u)
      PROVE (\A v \in powered' \ known' : Announcing(v)') /\ \A v \in known' : Confirming(v)'
  BY <1>8 DEF HeartbeatArrival, unitVars
<1>9. CASE UNCHANGED vars
  BY <1>9 DEF vars, unitVars, busVars, hostVars
<1> QED
  BY <1>1, <1>2, <1>3, <1>4, <1>5, <1>6, <1>7, <1>8, <1>9
  DEF Next, HostStep, UnitStep, Rest

LEMMA InvNext == Assumed /\ Inv /\ [Next]_vars => Inv'
BY BoundsNext, HandshakeNext DEF Inv

LEMMA Invariance == ASSUME Assumed PROVE Spec => []Inv
<1>1. Inv /\ [Next]_vars => Inv'
  BY InvNext
<1> QED
  BY InvInit, <1>1, PTL DEF Spec

\* A powered unit that the controller lacks keeps announcing itself while
\* nothing is on its way (HeartbeatArrival, main.cpp:45-68).
THEOREM NobodyOrphaned == ASSUME Assumed PROVE Spec => []NoOrphan
<1>1. Inv => NoOrphan
  BY DEF Inv, Bounds, Handshake, NoOrphan, Announcing, Quiet
<1> QED
  BY Invariance, <1>1, PTL

\* A known, silent unit with nothing on its way is registered
\* (CanexSyncTrigger, iShelfUnit/main.cpp:333-335).
THEOREM KnownRegistered == ASSUME Assumed PROVE Spec => []KnownIsRegistered
<1>1. Inv => KnownIsRegistered
  BY DEF Inv, Bounds, Handshake, KnownIsRegistered, Confirming, Quiet
<1> QED
  BY Invariance, <1>1, PTL

\* "Confirm & Stop" (main.cpp:52): after a clean boot the toggle never wakes a
\* unit that the controller knows.
THEOREM ConfirmationStops == ASSUME Assumed PROVE Spec => ConfirmStops
<1>1. ASSUME Inv, Clean, NEW u \in known, TriggerLive(u) PROVE Connected'[u]
  <2>1. u \in Units /\ Confirming(u)
    BY <1>1 DEF Inv, Bounds, Handshake
  <2>2. lives[u] > 0 /\ lives[u] \in Nat /\ heartbeats[u] \in Nat
    BY <1>1, <2>1 DEF Inv, Bounds, TriggerLive
  <2>3. ~Connected[u]
    BY <2>1, <2>2 DEF Confirming
  <2> QED
    BY <1>1, <2>1, <2>3 DEF Inv, Bounds, TriggerLive
<1>2. Inv => [Clean => \A u \in known : TriggerLive(u) => Connected'[u]]_vars
  BY <1>1
<1> QED
  BY Invariance, <1>2, PTL DEF ConfirmStops

\* Every variable stays in its type and no queue outgrows its capacity, whatever is lost
\* or restarted, with a slow controller too.
THEOREM TypeCorrect == Spec => []TypeOK
<1> USE RegistrationAssumption DEF TypeOK
<1>1. Init => TypeOK
  <2>1. ASSUME Init PROVE 0 \in 0..QueueCap /\ 0 \in 0..MaxHostResets /\ 0 \in 0..MaxUnitResets
    OBVIOUS
  <2> QED
    BY <2>1 DEF Init
<1>2. TypeOK /\ [Next]_vars => TypeOK'
  <2> SUFFICES ASSUME TypeOK, [Next]_vars PROVE TypeOK'
    OBVIOUS
  <2>1. ASSUME NEW u \in Units, PowerUp(u) PROVE TypeOK'
    BY <2>1 DEF PowerUp, busVars, hostVars
  <2>2. ASSUME NEW u \in Units, Heartbeat(u) PROVE TypeOK'
    BY <2>2 DEF Heartbeat, Send, unitVars, hostVars
  <2>3. ASSUME NEW u \in Units, TriggerLive(u) PROVE TypeOK'
    BY <2>3 DEF TriggerLive, hostVars
  <2>4. ASSUME NEW u \in Units, UnitReset(u) PROVE TypeOK'
    BY <2>4 DEF UnitReset, hostVars
  <2>5. CASE CanStart
    BY <2>5 DEF CanStart, unitVars, busVars
  <2>6. CASE SyncAllLive
    BY <2>6 DEF SyncAllLive, unitVars
  <2>7. CASE HostReset
    BY <2>7 DEF HostReset, unitVars
  <2>8. ASSUME NEW u \in Units, HeartbeatArrival(u) PROVE TypeOK'
    BY <2>8 DEF HeartbeatArrival, Send, unitVars
  <2>9. CASE UNCHANGED vars
    BY <2>9 DEF vars, unitVars, busVars, hostVars
  <2> QED
    BY <2>1, <2>2, <2>3, <2>4, <2>5, <2>6, <2>7, <2>8, <2>9 DEF Next, HostStep, UnitStep, Rest
<1> QED
  BY <1>1, <1>2, PTL DEF Spec

-----------------------------------------------------------------------------
(* The reader: while the chip goes on only when the main loop waits for    *)
(* it, the chunks in buf are those of the answer under way, and the entry  *)
(* follows the requests.                                                   *)

InWait == pc \in {"tx1", "tx2", "rx"} /\ irq_flag = 0
Transmits == {"sending", "last"}
First(t, n) == [i \in 1..n |-> [of |-> t, number |-> i]]

ChipTypes ==
  /\ tag \in Tags \cup {None}
  /\ air \in [at : {"idle", "sent", "answer"} \cup Transmits, left : Nat] /\ timer \in BOOLEAN
  /\ irq_flag \in {0, 2} /\ i_reg \in {0, 1, 2, 255} /\ rx_error_flag \in {0, 1, 2}
MainTypes ==
  /\ pc \in {"scan", "write", "clear1", "tx1", "clear2", "tx2", "index", "clear3", "rx", "more", "decode"}
  /\ req \in Requests /\ (pc \in {"clear2", "tx2"} => Long(req))
Entries == [type : 0..2, id : Tags \cup {None}, pres : Tags \cup {None}]
EntryTypes ==
  /\ UID \in Tags \cup {None} /\ cardData \in Tags \cup {None} /\ gaveUp \in BOOLEAN
  /\ mem \in Entries
ReaderTypes == ChipTypes /\ MainTypes /\ EntryTypes

\* how far the chip is where the main loop is; the timer runs in waits only
InStep ==
  /\ timer => InWait
  /\ pc = "clear1" \/ (pc = "tx1" /\ irq_flag = 0) => air.at = "sending"
  /\ pc = "clear2" \/ (pc = "tx1" /\ Long(req)) \/ (pc = "tx2" /\ irq_flag = 0) => air.at \in Transmits
  /\ pc \in {"tx1", "tx2", "index", "clear3"} => air.at # "idle"
  /\ pc \in {"scan", "write"} => air.at = "idle"

\* an answer comes from one tag that the request is for, and begins no sooner than it is awaited
Answering ==
  air.at = "answer" =>
    /\ Answers /\ air.left \in 1..Chunks(req)
    /\ pc \in {"tx1", "tx2", "index", "clear3"} => air.left = Chunks(req)

\* the answer of one tag that the request is for is in buf, as far as it has come
Collected ==
  /\ pc \in {"clear3", "rx", "more"} /\ air.at \in {"sent"} \cup Transmits => rx = <<>>
  /\ pc = "clear3" => rx = <<>>
  /\ pc \in {"rx", "more"} /\ air.at = "answer" /\ rx_error_flag # 2 =>
       rx = First(tag, Chunks(req) - air.left)
\* no earlier event looks like the end of the answer
NotYet ==
  /\ pc = "tx1" /\ req = "inventory" => i_reg # 255
  /\ (pc = "tx1" /\ irq_flag = 2) \/ pc \in {"clear2", "tx2"} => (air.at = "sending" => i_reg # 255)
  /\ (pc = "tx2" /\ irq_flag = 2) \/ pc \in {"index", "clear3"} \/ (pc = "rx" /\ irq_flag = 0) =>
       i_reg # 255
Decodable ==
  ((pc = "rx" /\ irq_flag = 2) \/ pc \in {"more", "decode"}) /\ i_reg = 255 =>
    \E t \in Tags : rx = First(t, Chunks(req)) /\ (req # "inventory" => t = UID)

\* the entry between two scans, and while the reads for it go on
OneTag ==
  /\ mem.type = 0 <=> mem.id = None
  /\ mem.type # 0 /\ ~gaveUp =>
       /\ mem.type = IF mem.id \in Coded THEN 2 ELSE 1
       /\ mem.type = 2 => mem.pres = mem.id
Reading ==
  /\ pc = "scan" \/ req = "inventory" => OneTag
  /\ pc # "scan" /\ req # "inventory" => UID \in Tags /\ mem.id = UID /\ gaveUp
  /\ pc # "scan" /\ req = "multi" => mem.type = 2 /\ cardData \in Coded

Control == ReaderTypes /\ InStep /\ NotYet
Buffer == Answering /\ Collected /\ Decodable

ReaderInv == Control /\ Buffer /\ Reading

-----------------------------------------------------------------------------
\* An entry whose tag is gone or was not read.
LEMMA Unknown ==
  ASSUME NEW m \in Entries, NEW n, n = [m EXCEPT !.type = 0, !.id = None]
  PROVE  n \in Entries /\ n.type = 0 /\ n.id = None
<1>1. n = [type |-> 0, id |-> None, pres |-> m.pres]
  BY DEF Entries
<1>2. m.pres \in Tags \cup {None}
  BY DEF Entries
<1> QED
  BY <1>1, <1>2 DEF Entries

LEMMA ReaderStart == ReaderInit => ReaderInv
<1> SUFFICES ASSUME ReaderInit PROVE ReaderInv
  OBVIOUS
<1> USE TagReaderAssumption DEF ReaderInit
<1>1. air = [at |-> "idle", left |-> 0]
  BY DEF Idle
<1>2. mem = [type |-> 0, id |-> None, pres |-> None]
  OBVIOUS
<1>3. ChipTypes
  <2>1. tag \in Tags \cup {None} /\ timer \in BOOLEAN
        /\ irq_flag \in {0, 2} /\ i_reg \in {0, 1, 2, 255} /\ rx_error_flag \in {0, 1, 2}
    OBVIOUS
  <2>2. air \in [at : {"idle", "sent", "answer"} \cup Transmits, left : Nat]
    BY <1>1
  <2> QED
    BY <2>1, <2>2 DEF ChipTypes
<1>4. MainTypes
  BY DEF MainTypes, Requests
<1>5. EntryTypes
  <2>1. mem \in [type : 0..2, id : Tags \cup {None}, pres : Tags \cup {None}]
    BY <1>2
  <2>2. UID \in Tags \cup {None} /\ cardData \in Tags \cup {None} /\ gaveUp \in BOOLEAN
    OBVIOUS
  <2> QED
    BY <2>1, <2>2 DEF EntryTypes, Entries
<1>6. Reading
  BY <1>2 DEF Reading, OneTag
<1>7. InStep /\ NotYet /\ Buffer
  BY <1>1 DEF InStep, InWait, NotYet, Buffer, Answering, Collected, Decodable
<1> QED
  BY <1>3, <1>4, <1>5, <1>6, <1>7 DEF ReaderInv, Control, ReaderTypes

LEMMA ChunksIs == \A r \in Requests : Chunks(r) \in 1..3
BY DEF Chunks, Requests

LEMMA FirstNone == \A t : First(t, 0) = <<>>
BY DEF First

\* The next chunk continues the answer.
LEMMA OneMore ==
  ASSUME NEW t, NEW n \in Nat
  PROVE  Append(First(t, n), [of |-> t, number |-> n + 1]) = First(t, n + 1)
<1> DEFINE c == [of |-> t, number |-> n + 1]
<1> DEFINE f == First(t, n)
<1>1. f \in Seq({[of |-> t, number |-> i] : i \in 1..n}) /\ Len(f) = n
  BY DEF First
<1>2. Append(f, c) = [i \in 1..(n + 1) |-> IF i \in 1..n THEN f[i] ELSE c]
  BY <1>1
<1>3. \A i \in 1..(n + 1) : (IF i \in 1..n THEN f[i] ELSE c) = [of |-> t, number |-> i]
  BY DEF First
<1> QED
  BY <1>2, <1>3 DEF First

\* What Content says of an answer that has come whole.
LEMMA WholeAnswer ==
  ASSUME NEW t, req \in Requests, rx = First(t, Chunks(req)) PROVE Content = t
<1>1. Chunks(req) \in Nat /\ 1 \in 1..Chunks(req)
  BY ChunksIs
<1>2. rx # <<>> /\ rx[1].of = t
  BY <1>1 DEF First
<1> QED
  BY <1>2 DEF Content, First

\* Tags come and go, but not during an answer.
LEMMA MoveKeeps == ASSUME ReaderInv, Move PROVE ReaderInv'
<1> USE DEF Move, chip, main, entry, ReaderInv, Control, ReaderTypes, ChipTypes
<1>1. ChipTypes' /\ MainTypes' /\ EntryTypes'
  BY DEF MainTypes, EntryTypes
<1>2. InStep' /\ NotYet'
  BY DEF InStep, InWait, NotYet
<1>3. Buffer'
  BY DEF Buffer, Answering, Collected, Decodable
<1>4. Reading'
  BY DEF Reading, OneTag
<1> QED
  BY <1>1, <1>2, <1>3, <1>4

\* The chip and the timer leave the main loop and the entry alone.
LEMMA EntryKept ==
  ASSUME ReaderInv, UNCHANGED <<main, entry>> PROVE MainTypes' /\ EntryTypes' /\ Reading'
BY DEF main, entry, ReaderInv, Control, ReaderTypes, MainTypes, EntryTypes, Reading, OneTag

LEMMA ChipKeeps == ASSUME ChipWaits, ReaderInv, Chip PROVE ReaderInv'
<1> USE DEF ReaderInv, Control, ReaderTypes, ChipTypes, MainTypes, Transmits, Requests, Long,
            Interrupt, InTime, Waits, main, entry
<1>0. MainTypes' /\ EntryTypes' /\ Reading' /\ UNCHANGED <<pc, req, UID, tag>>
  BY EntryKept DEF Chip, Few, Sent, Silent, Answer, Nine, End
<1>1. CASE Few
  <2>1. ChipTypes'
    BY <1>1 DEF Few
  <2>2. InStep' /\ NotYet'
    BY <1>0, <1>1 DEF Few, InStep, InWait, NotYet
  <2>3. Buffer'
    BY <1>0, <1>1, ChunksIs DEF Few, InStep, InWait, NotYet, Buffer, Answering, Answers,
       Collected, Decodable
  <2> QED
    BY <1>0, <2>1, <2>2, <2>3
<1>2. CASE Sent
  <2>1. ChipTypes'
    BY <1>2 DEF Sent
  <2>2. InStep' /\ NotYet'
    BY <1>0, <1>2 DEF Sent, InStep, InWait, NotYet
  <2>3. Buffer'
    BY <1>0, <1>2, ChunksIs DEF Sent, InStep, InWait, NotYet, Buffer, Answering, Answers,
       Collected, Decodable
  <2> QED
    BY <1>0, <2>1, <2>2, <2>3
<1>3. CASE Silent
  <2>1. ChipTypes'
    BY <1>3 DEF Silent, Idle
  <2>2. InStep' /\ NotYet'
    BY <1>0, <1>3 DEF Silent, Idle, InStep, InWait, NotYet
  <2>3. Buffer'
    BY <1>0, <1>3, ChunksIs DEF Silent, Idle, InStep, InWait, NotYet, Buffer, Answering, Answers,
       Collected, Decodable
  <2> QED
    BY <1>0, <2>1, <2>2, <2>3
<1>4. CASE Answer
  <2>1. ChipTypes'
    BY <1>4, ChunksIs DEF Answer
  <2>2. InStep' /\ NotYet'
    BY <1>0, <1>4 DEF Answer, InStep, InWait, NotYet
  <2>3. Buffer'
    BY <1>0, <1>4, ChunksIs, FirstNone DEF Answer, InStep, InWait, NotYet, Buffer, Answering, Answers,
       Collected, Decodable
  <2> QED
    BY <1>0, <2>1, <2>2, <2>3
<1>5. CASE Nine
  <2>1. air' = [at |-> "answer", left |-> air.left - 1] /\ air.left - 1 \in Nat
    BY <1>5 DEF Nine
  <2>2. ChipTypes'
    BY <1>5, <2>1 DEF Nine
  <2>3. InStep' /\ NotYet'
    BY <1>0, <1>5 DEF Nine, InStep, InWait, NotYet
  <2>4. Answering' /\ Decodable'
    <3>1. i_reg' = 1 /\ air.at = "answer" /\ air.left > 1
          /\ (pc = "more" \/ (pc \in {"tx1", "tx2", "rx"} /\ irq_flag = 0))
      BY <1>5 DEF Nine
    <3>2. pc \in {"rx", "more"}
      BY <3>1 DEF InStep
    <3>3. Answers /\ air.left \in 1..Chunks(req) /\ Chunks(req) \in 1..3
      BY <3>1, ChunksIs DEF Buffer, Answering
    <3> QED
      BY <1>0, <2>1, <3>1, <3>2, <3>3 DEF Answering, Answers, Decodable
  <2>5. ASSUME rx_error_flag # 2 PROVE rx' = First(tag, Chunks(req) - air'.left)
    <3>1. /\ pc \in {"rx", "more"} /\ air.left \in 1..Chunks(req) /\ Chunks(req) \in Nat
          /\ rx = First(tag, Chunks(req) - air.left)
      BY <1>5, <2>5, ChunksIs DEF Nine, InStep, Buffer, Answering, Collected
    <3>2. PICK n \in Nat : n = Chunks(req) - air.left
      BY <3>1
    <3>3. n + 1 = Chunks(req) - air'.left /\ Chunk = [of |-> tag, number |-> n + 1]
      BY <2>1, <3>1, <3>2 DEF Chunk
    <3>4. rx' = Append(First(tag, n), [of |-> tag, number |-> n + 1])
      BY <1>5, <3>1, <3>2, <3>3 DEF Nine
    <3> QED
      BY <3>2, <3>3, <3>4, OneMore
  <2>6. Collected'
    BY <1>0, <1>5, <2>1, <2>5 DEF Nine, InStep, Buffer, Collected
  <2> QED
    BY <1>0, <2>2, <2>3, <2>4, <2>6 DEF Buffer
<1>6. CASE End
  <2>1. ChipTypes'
    BY <1>6 DEF End, Idle
  <2>2. InStep' /\ NotYet'
    BY <1>0, <1>6 DEF End, Idle, InStep, InWait, NotYet
  <2>3. Answering' /\ Collected'
    BY <1>0, <1>6 DEF End, Idle, InStep, Buffer, Answering, Collected
  <2>4. ASSUME rx_error_flag # 2 PROVE rx' = First(tag, Chunks(req))
    <3>1. /\ pc \in {"rx", "more"} /\ air.left = 1 /\ Chunks(req) \in 1..3
          /\ rx = First(tag, Chunks(req) - 1)
      BY <1>6, <2>4, ChunksIs DEF End, InStep, Buffer, Answering, Collected
    <3>2. PICK n \in Nat : n = Chunks(req) - 1
      BY <3>1
    <3>3. n + 1 = Chunks(req) /\ Chunk = [of |-> tag, number |-> n + 1]
      BY <3>1, <3>2 DEF Chunk
    <3>4. rx' = Append(First(tag, n), [of |-> tag, number |-> n + 1])
      BY <1>6, <2>4, <3>1, <3>2, <3>3 DEF End
    <3> QED
      BY <3>2, <3>3, <3>4, OneMore
  <2>5. tag \in Tags /\ (req # "inventory" => tag = UID)
    BY <1>6 DEF End, Buffer, Answering, Answers
  <2>6. rx_error_flag = 2 => i_reg' = 2
    BY <1>6 DEF End
  <2>7. Decodable'
    BY <1>0, <2>4, <2>5, <2>6 DEF Decodable
  <2> QED
    BY <1>0, <2>1, <2>2, <2>3, <2>7 DEF Buffer
<1> QED
  BY <1>1, <1>2, <1>3, <1>4, <1>5, <1>6 DEF Chip

LEMMA ErrorsKeep == ASSUME ChipWaits, ReaderInv, Errors PROVE ReaderInv'
<1> USE DEF ReaderInv, Control, ReaderTypes, ChipTypes, MainTypes, Transmits, Requests, Long,
            Interrupt, InTime, Waits, main, entry
<1>0. MainTypes' /\ EntryTypes' /\ Reading' /\ UNCHANGED <<pc, req, UID, tag>>
  BY EntryKept DEF Errors, Collision, CrcError, FramingError
<1>1. CASE Collision
  <2>1. ChipTypes'
    BY <1>1 DEF Collision, Idle
  <2>2. InStep' /\ NotYet'
    BY <1>0, <1>1 DEF Collision, Idle, InStep, InWait, NotYet
  <2>3. Buffer'
    BY <1>0, <1>1, ChunksIs DEF Collision, Idle, InStep, InWait, NotYet, Buffer, Answering, Answers,
       Collected, Decodable
  <2> QED
    BY <1>0, <2>1, <2>2, <2>3
<1>2. CASE CrcError
  <2>1. ChipTypes'
    <3>1. Idle \in [at : {"idle", "sent", "answer"} \cup Transmits, left : Nat]
      BY DEF Idle
    <3> QED
      BY <1>2, <3>1 DEF CrcError
  <2>2. InStep' /\ NotYet'
    BY <1>0, <1>2 DEF CrcError, Idle, InStep, InWait, NotYet
  <2>3. Buffer'
    BY <1>0, <1>2, ChunksIs DEF CrcError, Idle, InStep, InWait, NotYet, Buffer, Answering, Answers,
       Collected, Decodable
  <2> QED
    BY <1>0, <2>1, <2>2, <2>3
<1>3. CASE FramingError
  <2>1. ChipTypes'
    BY <1>3 DEF FramingError
  <2>2. InStep' /\ NotYet'
    BY <1>0, <1>3 DEF FramingError, InStep, InWait, NotYet
  <2>3. Buffer'
    BY <1>0, <1>3, ChunksIs DEF FramingError, InStep, InWait, NotYet, Buffer, Answering, Answers,
       Collected, Decodable
  <2> QED
    BY <1>0, <2>1, <2>2, <2>3
<1> QED
  BY <1>1, <1>2, <1>3 DEF Errors

LEMMA TimerKeeps == ASSUME ReaderInv, SysTick_Handler PROVE ReaderInv'
<1> USE DEF ReaderInv, Control, ReaderTypes, ChipTypes, MainTypes, Transmits, Requests, Long,
            Interrupt, SysTick_Handler, main, entry
<1>1. MainTypes' /\ EntryTypes' /\ Reading' /\ UNCHANGED <<pc, req, UID, tag>>
  BY EntryKept
<1>2. ChipTypes'
  OBVIOUS
<1>3. InStep' /\ NotYet'
  BY <1>1 DEF InStep, InWait, NotYet
<1>4. Buffer'
  BY <1>1 DEF InStep, InWait, NotYet, Buffer, Answering, Answers, Collected, Decodable
<1> QED
  BY <1>1, <1>2, <1>3, <1>4

\* The main loop on its way from one wait to the next.
LEMMA WaitsKeep == ASSUME ReaderInv, Scan \/ RawWrite \/ Wait PROVE ReaderInv'
<1> USE ChunksIs, FirstNone
    DEF ReaderInv, Control, Buffer, ReaderTypes, ChipTypes, MainTypes, EntryTypes, Transmits,
        Requests, Long, InStep, InWait, NotYet, Answering, Answers, Collected, Decodable, entry, chip
<1>1. Reading'
  BY DEF Scan, RawWrite, Wait, Clear, TxDone, Waited, SetIndex, RxBegun, RxDone, RxTooLong, Request,
     Reading, OneTag
<1>2. CASE Scan
  <2>1. Control'
    BY <1>2 DEF Scan, Request
  <2>2. Buffer'
    BY <1>2 DEF Scan, Request
  <2> QED
    BY <1>1, <2>1, <2>2
<1>3. CASE RawWrite
  <2>1. Control'
    BY <1>3 DEF RawWrite
  <2>2. Buffer'
    BY <1>3 DEF RawWrite
  <2> QED
    BY <1>1, <2>1, <2>2
<1>4. CASE Clear("clear1", "tx1")
  <2>1. Control'
    BY <1>4 DEF Clear
  <2>2. Buffer'
    BY <1>4 DEF Clear
  <2> QED
    BY <1>1, <2>1, <2>2
<1>5. CASE Clear("clear2", "tx2")
  <2>1. Control'
    BY <1>5 DEF Clear
  <2>2. Buffer'
    BY <1>5 DEF Clear
  <2> QED
    BY <1>1, <2>1, <2>2
<1>6. CASE Clear("clear3", "rx")
  <2>1. Control'
    BY <1>6 DEF Clear
  <2>2. Buffer'
    BY <1>6 DEF Clear
  <2> QED
    BY <1>1, <2>1, <2>2
<1>7. CASE TxDone
  <2>1. Control'
    BY <1>7 DEF TxDone, Waited
  <2>2. Buffer'
    BY <1>7 DEF TxDone, Waited
  <2> QED
    BY <1>1, <2>1, <2>2
<1>8. CASE SetIndex
  <2>1. Control'
    BY <1>8 DEF SetIndex
  <2>2. Buffer'
    BY <1>8 DEF SetIndex
  <2> QED
    BY <1>1, <2>1, <2>2
<1>9. CASE RxBegun
  <2>1. Control'
    BY <1>9 DEF RxBegun, Waited
  <2>2. Buffer'
    BY <1>9 DEF RxBegun, Waited
  <2> QED
    BY <1>1, <2>1, <2>2
<1>10. CASE RxDone
  <2>1. Control'
    BY <1>10 DEF RxDone
  <2>2. Buffer'
    BY <1>10 DEF RxDone
  <2> QED
    BY <1>1, <2>1, <2>2
<1>11. CASE RxTooLong
  <2>1. Control'
    BY <1>11 DEF RxTooLong
  <2>2. Buffer'
    BY <1>11 DEF RxTooLong
  <2> QED
    BY <1>1, <2>1, <2>2
<1> QED
  BY <1>2, <1>3, <1>4, <1>5, <1>6, <1>7, <1>8, <1>9, <1>10, <1>11 DEF Wait

\* At the end of a request the chip is off, and nothing of it is waited for.
LEMMA NextRequest ==
  ASSUME ReaderInv, pc = "decode", Over, rx_error_flag' \in {0, 1, 2},
         pc' \in {"scan", "write"}, req' \in Requests, EntryTypes', Reading'
  PROVE  ReaderInv'
<1> USE DEF Over, ReaderInv, Control, ReaderTypes, ChipTypes, MainTypes
<1>1. air' = Idle /\ Idle \in [at : {"idle", "sent", "answer"} \cup Transmits, left : Nat]
  BY DEF Idle
<1>2. ChipTypes' /\ MainTypes'
  BY <1>1
<1>3. InStep' /\ NotYet'
  BY <1>1 DEF Idle, InStep, InWait, NotYet
<1>4. Buffer'
  BY <1>1 DEF Idle, Buffer, Answering, Collected, Decodable
<1> QED
  BY <1>2, <1>3, <1>4

\* An answer that counts is one from a tag, and of an addressed one from that tag.
LEMMA AnswerIs ==
  ASSUME ReaderInv, pc = "decode", i_reg = 255
  PROVE  Content \in Tags /\ (req # "inventory" => Content = UID)
<1>1. PICK t \in Tags : rx = First(t, Chunks(req)) /\ (req # "inventory" => t = UID)
  BY DEF ReaderInv, Buffer, Decodable
<1> QED
  BY <1>1, WholeAnswer DEF ReaderInv, Control, ReaderTypes, MainTypes

\* What UpdateRfid does with an answer.
LEMMA EntryNext ==
  ASSUME ReaderInv,
         \/ NotFound \/ FoundSame \/ FoundNew \/ Again("block") \/ Again("multi")
         \/ \E ok \in BOOLEAN : BlockDone(ok) \/ MultiDone(ok)
  PROVE  ReaderInv'
<1>0. EntryTypes /\ Reading /\ ReaderTypes
  BY DEF ReaderInv, Control, ReaderTypes
<1>1. CASE NotFound
  <2>1. /\ pc = "decode" /\ req = "inventory" /\ pc' = "scan" /\ req' = req
        /\ UID' = None /\ UNCHANGED <<cardData, gaveUp>>
        /\ mem' = mem \/ mem' = [mem EXCEPT !.type = 0, !.id = None]
    BY <1>1 DEF NotFound
  <2>2. EntryTypes'
    <3>1. mem' \in Entries
      BY <1>0, <2>1, Unknown DEF EntryTypes
    <3> QED
      BY <1>0, <2>1, <3>1 DEF EntryTypes
  <2>3. Reading'
    BY <1>0, <2>1 DEF EntryTypes, Entries, Reading, OneTag
  <2> QED
    BY <1>0, <1>1, <2>1, <2>2, <2>3, NextRequest DEF NotFound, ReaderTypes, ChipTypes, Requests
<1>2. CASE FoundSame
  <2>1. /\ pc = "decode" /\ req = "inventory" /\ pc' = "scan" /\ req' = req
        /\ UID' \in Tags /\ UNCHANGED <<cardData, mem, gaveUp>>
    BY <1>2, AnswerIs DEF FoundSame
  <2>2. EntryTypes' /\ Reading'
    BY <1>0, <2>1 DEF EntryTypes, Reading, OneTag
  <2> QED
    BY <1>0, <1>2, <2>1, <2>2, NextRequest DEF FoundSame, ReaderTypes, ChipTypes, Requests
<1>3. CASE FoundNew
  <2>1. /\ pc = "decode" /\ pc' = "write" /\ req' = "block"
        /\ UID' \in Tags /\ UNCHANGED cardData /\ gaveUp' = TRUE
        /\ mem' = [mem EXCEPT !.id = UID']
    BY <1>3, AnswerIs DEF FoundNew, Request
  <2>2. EntryTypes' /\ Reading'
    BY <1>0, <2>1 DEF EntryTypes, Entries, Reading
  <2> QED
    BY <1>0, <1>3, <2>1, <2>2, NextRequest DEF FoundNew, ReaderTypes, ChipTypes, Requests
<1>4. ASSUME NEW r \in {"block", "multi"}, Again(r) PROVE ReaderInv'
  <2>1. /\ pc = "decode" /\ pc' = "write" /\ req = r /\ req' = r
        /\ UNCHANGED <<UID, cardData, mem, gaveUp>>
    BY <1>4 DEF Again, Request
  <2>2. EntryTypes' /\ Reading'
    BY <1>0, <2>1 DEF EntryTypes, Reading
  <2> QED
    BY <1>0, <1>4, <2>1, <2>2, NextRequest DEF Again, ReaderTypes, ChipTypes, Requests
<1>5. ASSUME NEW ok \in BOOLEAN, BlockDone(ok) PROVE ReaderInv'
  <2>1. /\ pc = "decode" /\ req = "block" /\ UID \in Tags /\ mem.id = UID /\ gaveUp = TRUE
        /\ UNCHANGED UID /\ cardData' = IF ok THEN UID ELSE cardData
    BY <1>0, <1>5, AnswerIs DEF BlockDone, Read, Reading, EntryTypes
  <2>2. EntryTypes' /\ Reading' /\ pc' \in {"write", "scan"} /\ req' \in Requests
    <3>1. CASE cardData' \in Coded
      <4>1. /\ mem' = [mem EXCEPT !.type = 2] /\ pc' = "write" /\ req' = "multi"
            /\ UNCHANGED gaveUp
        BY <1>5, <3>1 DEF BlockDone, Request
      <4> QED
        BY <1>0, <2>1, <3>1, <4>1 DEF EntryTypes, Entries, Reading, Requests
    <3>2. CASE cardData' \notin Coded
      <4>1. /\ mem' = IF ok THEN [mem EXCEPT !.type = 1] ELSE [mem EXCEPT !.type = 0, !.id = None]
            /\ pc' = "scan" /\ req' = req /\ gaveUp' = ~ok
        BY <1>5, <3>2 DEF BlockDone
      <4>2. CASE ok
        BY <1>0, <2>1, <3>2, <4>1, <4>2, TagReaderAssumption DEF EntryTypes, Entries, Reading, OneTag, Requests
      <4>3. CASE ~ok
        <5>1. mem' \in Entries /\ mem'.type = 0 /\ mem'.id = None
          BY <1>0, <4>1, <4>3, Unknown DEF EntryTypes
        <5> QED
          BY <1>0, <2>1, <4>1, <4>3, <5>1 DEF EntryTypes, Reading, OneTag, Requests
      <4> QED
        BY <4>2, <4>3
    <3> QED
      BY <3>1, <3>2
  <2> QED
    BY <1>0, <1>5, <2>1, <2>2, NextRequest DEF BlockDone, ReaderTypes, ChipTypes
<1>6. ASSUME NEW ok \in BOOLEAN, MultiDone(ok) PROVE ReaderInv'
  <2>1. /\ pc = "decode" /\ req = "multi" /\ UID \in Tags /\ mem.id = UID /\ mem.type = 2
        /\ cardData \in Coded /\ pc' = "scan" /\ req' = req /\ UNCHANGED <<UID, cardData>>
        /\ mem' = IF ok THEN [mem EXCEPT !.pres = UID] ELSE mem
        /\ gaveUp' = (cardData # UID \/ ~ok)
    BY <1>0, <1>6, AnswerIs DEF MultiDone, Read, Reading
  <2>2. gaveUp' \in BOOLEAN /\ (~gaveUp' => ok /\ cardData = UID)
    BY <2>1
  <2>3. EntryTypes'
    BY <1>0, <2>1, <2>2 DEF EntryTypes, Entries
  <2>4. Reading'
    BY <1>0, <2>1, <2>2, TagReaderAssumption DEF EntryTypes, Reading, OneTag
  <2> QED
    BY <1>0, <1>6, <2>1, <2>3, <2>4, NextRequest DEF MultiDone, ReaderTypes, ChipTypes, Requests
<1> QED
  BY <1>1, <1>2, <1>3, <1>4, <1>5, <1>6

LEMMA ReaderKept == ASSUME ChipWaits, ReaderInv, [ReaderNext]_readerVars PROVE ReaderInv'
<1>1. CASE UNCHANGED readerVars
  <2> USE <1>1 DEF readerVars, chip, main, entry, ReaderInv, Control, ReaderTypes
  <2>1. ReaderTypes' /\ Reading'
    BY EntryKept DEF ChipTypes
  <2>2. InStep' /\ NotYet'
    BY DEF InStep, InWait, NotYet
  <2>3. Buffer'
    BY DEF Buffer, Answering, Answers, Collected, Decodable
  <2> QED
    BY <2>1, <2>2, <2>3
<1> QED
  BY <1>1, MoveKeeps, ChipKeeps, ErrorsKeep, TimerKeeps, WaitsKeep, EntryNext
  DEF ReaderNext, UpdateRfid

\* Between two scans the entry is of one tag, for any number of tags, moves, errors on the air
\* and tries, as long as the chip does not overtake the main loop (UpdateRfid, unit
\* main.cpp:149-222; trf796x.c:242-410).
THEOREM EntriesAreOfOneTag == ASSUME ChipWaits PROVE ReaderSpec => []EntryOfOneTag
<1>1. ReaderInv /\ [ReaderNext]_readerVars => ReaderInv'
  BY ReaderKept
<1>2. ReaderInv => EntryOfOneTag
  BY DEF ReaderInv, Control, ReaderTypes, EntryTypes, Entries, Reading, OneTag, EntryOfOneTag
<1> QED
  BY ReaderStart, <1>1, <1>2, PTL DEF ReaderSpec

-----------------------------------------------------------------------------
(* Scan by scan: what a scan leaves in the entry is what one step of       *)
(* TagScan leaves there.  While the requests go on, the tag that was found *)
(* is one that was in the field, and only its block 0 changes cardData.    *)

Chunked == [of : field, number : Int]

\* what was found since the scan began
Since ==
  /\ pc = "scan" \/ req = "inventory" => last = Entry
  /\ pc # "scan" /\ req # "inventory" =>
       UID \in field /\ UID = UIDlast /\ UID # last.UIDlast /\ lostCount = 0
  /\ pc # "scan" /\ req = "block" => (last.coded <=> cardData \in Coded)
  /\ pc # "scan" /\ req = "multi" => UID \in Coded \/ last.coded

Gathered ==
  /\ tag \in field /\ lostCount \in 0..LostScans
  /\ pc \in {"clear3", "rx", "more", "decode"} => rx \in Seq(Chunked)

ScanInv == ReaderInv /\ Gathered /\ Since /\ last.coded \in BOOLEAN

\* Off the main loop's own steps with an answer, and up to the end of a scan, the entry stays.
LEMMA Steady ==
  ASSUME ReaderNext
  PROVE  \/ UNCHANGED entry /\ (pc = "scan" <=> pc' = "scan") /\ UNCHANGED req
         \/ UNCHANGED entry /\ Scan
         \/ /\ pc = "decode"
            /\ \/ NotFound \/ FoundSame \/ FoundNew \/ Again("block") \/ Again("multi")
               \/ \E ok \in BOOLEAN : BlockDone(ok) \/ MultiDone(ok)
<1>1. CASE Move
  BY <1>1 DEF Move, main
<1>2. CASE Chip
  BY <1>2 DEF Chip, Few, Sent, Silent, Answer, Nine, End, main
<1>3. CASE Errors
  BY <1>3 DEF Errors, Collision, CrcError, FramingError, main
<1>4. CASE SysTick_Handler
  BY <1>4 DEF SysTick_Handler, main
<1>5. CASE RawWrite \/ Wait
  BY <1>5 DEF RawWrite, Wait, Clear, TxDone, Waited, SetIndex, RxBegun, RxDone, RxTooLong
<1>6. CASE Scan
  BY <1>6 DEF Scan
<1>7. CASE \/ NotFound \/ FoundSame \/ FoundNew \/ Again("block") \/ Again("multi")
           \/ \E ok \in BOOLEAN : BlockDone(ok) \/ MultiDone(ok)
  BY <1>7 DEF NotFound, FoundSame, FoundNew, Again, BlockDone, MultiDone
<1> QED
  BY <1>1, <1>2, <1>3, <1>4, <1>5, <1>6, <1>7 DEF ReaderNext, UpdateRfid

\* The chunks since rxtx_state was set come from tags in the field.
LEMMA GatheredNext ==
  ASSUME ChipWaits, ScanInv, ReaderNext, History
  PROVE  tag' \in field' /\ (pc' \in {"clear3", "rx", "more", "decode"} => rx' \in Seq(Chunked'))
<1>1. tag' \in field'
  BY DEF History
<1>2. SUFFICES ASSUME pc' \in {"clear3", "rx", "more", "decode"} PROVE rx' \in Seq(Chunked')
  BY <1>1
<1>3. field \subseteq field'
  BY <1>2 DEF History
<1>4. Chunked \subseteq Chunked'
  BY <1>3 DEF Chunked
<1>5. SUFFICES rx' \in Seq(Chunked)
  BY <1>4, SeqMonotonic
<1>6. ASSUME pc \in {"clear3", "rx", "more", "decode"}, rx' = rx PROVE rx' \in Seq(Chunked)
  BY <1>6 DEF ScanInv, Gathered
<1>7. ASSUME pc' = pc, rx' = rx \/ rx' = Append(rx, Chunk) PROVE rx' \in Seq(Chunked)
  <2>1. rx \in Seq(Chunked)
    BY <1>2, <1>7 DEF ScanInv, Gathered
  <2>2. Chunks(req) \in Int /\ air.left \in Int /\ tag \in field
    BY ChunksIs DEF ScanInv, Gathered, ReaderInv, Control, ReaderTypes, ChipTypes, MainTypes
  <2>3. Chunk \in Chunked
    BY <2>2 DEF Chunk, Chunked
  <2> QED
    BY <1>7, <2>1, <2>3
<1>8. CASE Move \/ Chip \/ Errors \/ SysTick_Handler
  BY <1>7, <1>8 DEF Move, Chip, Few, Sent, Silent, Answer, Nine, End, Errors, Collision, CrcError,
     FramingError, SysTick_Handler, chip, main
<1>9. CASE Scan \/ RawWrite \/ Wait
  <2>1. CASE SetIndex
    BY <2>1 DEF SetIndex
  <2> QED
    BY <1>2, <1>6, <1>9, <2>1 DEF Scan, RawWrite, Wait, Clear, TxDone, Waited, RxBegun, RxDone,
       RxTooLong, Request, chip
<1>10. CASE \/ NotFound \/ FoundSame \/ FoundNew \/ Again("block") \/ Again("multi")
            \/ \E ok \in BOOLEAN : BlockDone(ok) \/ MultiDone(ok)
  BY <1>2, <1>10 DEF NotFound, FoundSame, FoundNew, Again, BlockDone, MultiDone, Request
<1> QED
  BY <1>8, <1>9, <1>10 DEF ReaderNext, UpdateRfid

\* An answer that counts is one from a tag that was in the field since the scan began.
LEMMA AnswerIsNear ==
  ASSUME ScanInv, pc = "decode", i_reg = 255
  PROVE  Content \in field /\ Content \in Tags /\ (req # "inventory" => Content = UID)
<1>1. PICK t \in Tags : rx = First(t, Chunks(req)) /\ (req # "inventory" => t = UID)
  BY DEF ScanInv, ReaderInv, Buffer, Decodable
<1>2. Content = t
  BY <1>1, WholeAnswer DEF ScanInv, ReaderInv, Control, ReaderTypes, MainTypes
<1>3. 1 \in 1..Chunks(req) /\ Chunks(req) \in Nat
  BY ChunksIs DEF ScanInv, ReaderInv, Control, ReaderTypes, MainTypes
<1>4. rx \in Seq(Chunked) /\ 1 \in DOMAIN rx /\ rx[1].of = t
  BY <1>1, <1>3 DEF ScanInv, Gathered, First
<1>5. rx[1] \in Chunked
  BY <1>4
<1> QED
  BY <1>1, <1>2, <1>4, <1>5 DEF Chunked

\* What is known of the scan so far.
LEMMA SinceNext ==
  ASSUME ChipWaits, ScanInv, ReaderNext, History
  PROVE  lostCount' \in 0..LostScans /\ Since'
<1>1. CASE UNCHANGED entry /\ (pc = "scan" <=> pc' = "scan") /\ UNCHANGED req
  <2>1. UNCHANGED <<UID, UIDlast, cardData, mem, lostCount>> /\ Entry' = Entry
    BY <1>1 DEF entry, Entry
  <2>2. CASE pc = "scan"
    BY <1>1, <2>1, <2>2 DEF ScanInv, Gathered, Since, History
  <2>3. CASE pc # "scan"
    BY <1>1, <2>1, <2>3 DEF ScanInv, Gathered, Since, History
  <2> QED
    BY <2>2, <2>3
<1>2. CASE UNCHANGED entry /\ Scan
  <2>1. UNCHANGED lostCount /\ Entry' = Entry /\ pc = "scan" /\ pc' = "write" /\ req' = "inventory"
    BY <1>2 DEF entry, Entry, Scan, Request
  <2> QED
    BY <2>1 DEF ScanInv, Gathered, Since, History
<1>3. CASE NotFound
  <2>1. pc' = "scan" /\ lostCount' \in 0..LostScans
    BY <1>3, TagReaderAssumption DEF NotFound, ScanInv, Gathered
  <2> QED
    BY <2>1 DEF Since, History
<1>4. CASE FoundSame
  <2>1. pc' = "scan" /\ lostCount' = 0
    BY <1>4 DEF FoundSame
  <2> QED
    BY <2>1, TagReaderAssumption DEF Since, History
<1>5. CASE FoundNew
  <2>1. /\ pc = "decode" /\ req = "inventory" /\ pc' = "write" /\ req' = "block"
        /\ UID' = Content /\ UIDlast' = Content /\ Content # UIDlast /\ lostCount' = 0
        /\ UNCHANGED cardData /\ Content \in field
    BY <1>5, AnswerIsNear DEF FoundNew, Request
  <2>2. last' = last /\ field \subseteq field'
    BY <2>1 DEF History
  <2>3. last = Entry
    BY <2>1 DEF ScanInv, Since
  <2>4. last.UIDlast = UIDlast /\ (last.coded <=> cardData \in Coded)
    BY <2>3 DEF Entry
  <2> QED
    BY <2>1, <2>2, <2>4, TagReaderAssumption DEF Since
<1>6. ASSUME NEW r \in {"block", "multi"}, Again(r) PROVE lostCount' \in 0..LostScans /\ Since'
  <2>1. /\ pc = "decode" /\ pc' = "write" /\ req = r /\ req' = r
        /\ UNCHANGED <<UID, UIDlast, cardData, lostCount>>
    BY <1>6 DEF Again, Request
  <2>2. last' = last /\ field \subseteq field'
    BY <2>1 DEF History
  <2> QED
    BY <2>1, <2>2 DEF ScanInv, Gathered, Since
<1>7. ASSUME NEW ok \in BOOLEAN, BlockDone(ok) PROVE lostCount' \in 0..LostScans /\ Since'
  <2>1. /\ pc = "decode" /\ req = "block" /\ UNCHANGED <<UID, lostCount>>
        /\ cardData' = IF ok THEN UID ELSE cardData
    BY <1>7, AnswerIsNear DEF BlockDone, Read
  <2>2. CASE cardData' \in Coded
    <3>1. pc' = "write" /\ req' = "multi" /\ UNCHANGED UIDlast
      BY <1>7, <2>2 DEF BlockDone, Request
    <3>2. last' = last /\ field \subseteq field'
      BY <3>1 DEF History
    <3> QED
      BY <2>1, <2>2, <3>1, <3>2 DEF ScanInv, Gathered, Since
  <2>3. CASE cardData' \notin Coded
    <3>1. pc' = "scan"
      BY <1>7, <2>3 DEF BlockDone
    <3> QED
      BY <2>1, <3>1 DEF ScanInv, Gathered, Since, History
  <2> QED
    BY <2>2, <2>3
<1>8. ASSUME NEW ok \in BOOLEAN, MultiDone(ok) PROVE lostCount' \in 0..LostScans /\ Since'
  <2>1. pc' = "scan" /\ UNCHANGED lostCount
    BY <1>8 DEF MultiDone
  <2> QED
    BY <2>1 DEF ScanInv, Gathered, Since, History
<1> QED
  BY Steady, <1>1, <1>2, <1>3, <1>4, <1>5, <1>6, <1>7, <1>8

LEMMA ScanStart == ScansInit => ScanInv /\ Scans!ScanInit
<1> SUFFICES ASSUME ScansInit PROVE ScanInv /\ Scans!ScanInit
  OBVIOUS
<1> USE DEF ScansInit
<1>1. pc = "scan" /\ lostCount = 0 /\ cardData = None /\ UIDlast = None
      /\ mem = [type |-> 0, id |-> None, pres |-> None]
  BY DEF ReaderInit
<1>2. last = [type |-> 0, id |-> None, UIDlast |-> None, coded |-> FALSE, lostCount |-> 0]
  <2>1. (cardData \in Coded) = FALSE
    BY <1>1, TagReaderAssumption
  <2> QED
    BY <1>1, <2>1 DEF Entry
<1>3. ScanInv
  BY <1>1, <1>2, ReaderStart, TagReaderAssumption DEF ScanInv, Gathered, Since
<1> QED
  BY <1>2, <1>3 DEF Scans!ScanInit, Scans!Empty

LEMMA ScanKept ==
  ASSUME ChipWaits, ScanInv, [ScansNext]_<<readerVars, field, last>> PROVE ScanInv'
<1> USE DEF ScansNext
<1>1. CASE ScansNext
  <2>1. last'.coded \in BOOLEAN
    <3>1. last' = Entry' \/ last' = last
      BY <1>1 DEF History
    <3>2. Entry'.coded \in BOOLEAN
      BY DEF Entry
    <3> QED
      BY <3>1, <3>2 DEF ScanInv
  <2> QED
    BY <1>1, <2>1, ReaderKept, GatheredNext, SinceNext DEF ScanInv, Gathered
<1>2. CASE UNCHANGED <<readerVars, field, last>>
  <2>1. ReaderInv'
    BY <1>2, ReaderKept DEF ScanInv
  <2>2. Gathered' /\ Since'
    BY <1>2 DEF ScanInv, Gathered, Since, Chunked, Entry, readerVars, chip, main, entry
  <2> QED
    BY <1>2, <2>1, <2>2 DEF ScanInv
<1> QED
  BY <1>1, <1>2

\* The end of a scan is a step of TagScan, and before it nothing is seen.
LEMMA ScanImplements ==
  ASSUME ChipWaits, ScanInv, [ScansNext]_<<readerVars, field, last>>
  PROVE  [Scans!ScanNext]_Scans!scanVars
<1> USE DEF Scans!scanVars, ScansNext
<1>1. SUFFICES ASSUME ReaderNext, History, last' # last PROVE Scans!ScanNext
  OBVIOUS
<1>2. pc' = "scan" /\ last' = Entry'
  BY <1>1 DEF History
<1>3. /\ last'.type = mem'.type /\ last'.id = mem'.id /\ last'.UIDlast = UIDlast'
      /\ last'.coded = (cardData' \in Coded) /\ last'.lostCount = lostCount'
  BY <1>2 DEF Entry
<1>4. EntryTypes /\ Reading /\ Since /\ lostCount \in 0..LostScans
  BY DEF ScanInv, Gathered, ReaderInv, Control, ReaderTypes
<1>5. CASE UNCHANGED entry /\ (pc = "scan" <=> pc' = "scan") /\ UNCHANGED req
  BY <1>1, <1>2, <1>4, <1>5 DEF entry, Entry, Since
<1>6. CASE Scan \/ FoundNew \/ Again("block") \/ Again("multi")
  BY <1>2, <1>6 DEF Scan, FoundNew, Again, Request
<1>7. CASE NotFound
  <2>1. /\ last.type = mem.type /\ last.id = mem.id /\ last.UIDlast = UIDlast
        /\ last.coded = (cardData \in Coded) /\ last.lostCount = lostCount
    BY <1>4, <1>7 DEF NotFound, Since, Entry
  <2>2. last'.coded = last.coded
    BY <1>3, <1>7, <2>1 DEF NotFound
  <2>3. CASE lostCount < LostScans
    <3>1. lostCount' = lostCount + 1 /\ UNCHANGED <<mem, UIDlast>>
      BY <1>4, <1>7, <2>3, TagReaderAssumption DEF NotFound
    <3> QED
      BY <1>3, <2>1, <2>2, <2>3, <3>1 DEF Scans!ScanNext, Scans!NoneFound
  <2>4. CASE ~(lostCount < LostScans)
    <3>1. lostCount' = lostCount
      BY <1>4, <1>7, <2>4, TagReaderAssumption DEF NotFound
    <3>2. mem'.type = 0 /\ mem'.id = None
      <4>1. lostCount + 1 > LostScans /\ (mem.type = 0 => mem.id = None)
        BY <1>4, <1>7, <2>4, TagReaderAssumption DEF NotFound, Reading, OneTag
      <4>2. CASE mem.type = 0
        BY <1>7, <4>1, <4>2 DEF NotFound
      <4>3. CASE mem.type # 0
        <5>1. mem' = [mem EXCEPT !.type = 0, !.id = None] /\ mem \in Entries
          BY <1>4, <1>7, <4>1, <4>3 DEF NotFound, EntryTypes
        <5> QED
          BY <5>1, Unknown
      <4> QED
        BY <4>2, <4>3
    <3>3. UIDlast' = IF mem.type # 0 THEN None ELSE UIDlast
      BY <1>4, <1>7, <2>4, TagReaderAssumption DEF NotFound
    <3> QED
      BY <1>3, <2>1, <2>2, <2>4, <3>1, <3>2, <3>3 DEF Scans!ScanNext, Scans!NoneFound, Scans!Empty
  <2> QED
    BY <2>3, <2>4
<1>8. CASE FoundSame
  <2>1. /\ last.type = mem.type /\ last.id = mem.id /\ last.UIDlast = UIDlast
        /\ last.coded = (cardData \in Coded) /\ last.lostCount = lostCount
    BY <1>4, <1>8 DEF FoundSame, Since, Entry
  <2>2. /\ Content = UIDlast /\ Content \in field /\ Content # None /\ lostCount' = 0
        /\ UNCHANGED <<UIDlast, cardData, mem>>
    BY <1>8, AnswerIsNear, TagReaderAssumption DEF FoundSame
  <2>3. last'.coded = last.coded
    BY <1>3, <2>1, <2>2
  <2>4. Scans!SameFound(Content)
    BY <1>3, <2>1, <2>2, <2>3 DEF Scans!SameFound, Scans!Found
  <2> QED
    BY <2>2, <2>4 DEF Scans!ScanNext
<1>9. ASSUME NEW ok \in BOOLEAN, BlockDone(ok) \/ MultiDone(ok) PROVE Scans!ScanNext
  <2>1. /\ UID \in field /\ UID # None /\ UID # last.UIDlast /\ lostCount = 0
        /\ UID = UIDlast /\ mem.id = UID /\ UNCHANGED lostCount
    BY <1>4, <1>9, TagReaderAssumption DEF BlockDone, MultiDone, Since, Reading
  <2>2. \/ Scans!NewRead(UID) \/ Scans!NewUnread(UID)
    <3>1. CASE BlockDone(ok)
      <4>1. cardData' \notin Coded /\ last'.coded = FALSE
        <5>1. cardData' \notin Coded
          BY <1>2, <3>1 DEF BlockDone, Request
        <5>2. (cardData' \in Coded) = FALSE
          BY <5>1
        <5> QED
          BY <1>3, <5>1, <5>2
      <4>2. CASE ok
        <5>1. cardData' = UID /\ mem' = [mem EXCEPT !.type = 1] /\ UNCHANGED UIDlast
          BY <3>1, <4>1, <4>2, AnswerIsNear DEF BlockDone, Read
        <5>2. mem'.type = 1 /\ mem'.id = UID
          BY <1>4, <2>1, <5>1 DEF EntryTypes, Entries
        <5> QED
          BY <1>3, <2>1, <4>1, <5>1, <5>2 DEF Scans!NewRead, Scans!Found
      <4>3. CASE ~ok
        <5>1. /\ cardData' = cardData /\ mem' = [mem EXCEPT !.type = 0, !.id = None]
              /\ UIDlast' = None /\ mem \in Entries
          BY <1>4, <3>1, <4>1, <4>3 DEF BlockDone, EntryTypes
        <5>2. mem'.type = 0 /\ mem'.id = None
          BY <5>1, Unknown
        <5>3. last.coded = FALSE
          BY <1>4, <3>1, <4>1, <5>1 DEF BlockDone, Since, ScanInv
        <5> QED
          BY <1>3, <2>1, <4>1, <5>1, <5>2, <5>3 DEF Scans!NewUnread, Scans!Found, Scans!Empty
      <4> QED
        BY <4>2, <4>3
    <3>2. CASE MultiDone(ok)
      <4>1. /\ cardData \in Coded /\ UNCHANGED <<cardData, UIDlast>> /\ mem.type = 2
            /\ mem' = IF ok THEN [mem EXCEPT !.pres = Content] ELSE mem
            /\ (UID \in Coded \/ last.coded)
        BY <1>4, <3>2 DEF MultiDone, Since, Reading
      <4>2. last'.coded = TRUE
        BY <1>3, <4>1
      <4>3. mem'.type = 2 /\ mem'.id = UID
        BY <1>4, <2>1, <4>1 DEF EntryTypes, Entries
      <4>4. CASE UID \in Coded
        BY <1>3, <2>1, <4>1, <4>2, <4>3, <4>4 DEF Scans!NewRead, Scans!Found
      <4>5. CASE last.coded
        <5>1. last.coded = TRUE
          BY <4>5 DEF ScanInv
        <5> QED
          BY <1>3, <2>1, <4>1, <4>2, <4>3, <5>1 DEF Scans!NewUnread, Scans!Found
      <4> QED
        BY <4>1, <4>4, <4>5
    <3> QED
      BY <1>9, <3>1, <3>2
  <2> QED
    BY <2>1, <2>2 DEF Scans!ScanNext
<1> QED
  BY <1>1, <1>5, <1>6, <1>7, <1>8, <1>9, Steady

\* A scan is one step of TagScan, for any number of tags, moves, errors on the air and tries, as
\* long as the chip does not overtake the main loop (UpdateRfid, unit main.cpp:149-222).
THEOREM ScansAreSingleSteps == ASSUME ChipWaits PROVE ScansSpec => ScansAreSteps
<1>1. ScanInv /\ [ScansNext]_<<readerVars, field, last>> => ScanInv'
  BY ScanKept
<1>2. ScanInv /\ [ScansNext]_<<readerVars, field, last>> => [Scans!ScanNext]_Scans!scanVars
  BY ScanImplements
<1> QED
  BY ScanStart, <1>1, <1>2, PTL DEF ScansSpec, ScansAreSteps, Scans!ScanSpec
=============================================================================
