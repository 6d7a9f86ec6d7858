-------------------------- MODULE CanCommand_proofs --------------------------
(***************************************************************************)
(* Proofs about CanCommand, for any number of devices, callers and task    *)
(* slots, any bounds, and a bus that may lose frames: the table is sound   *)
(* and no work thread is stranded; a set that has waited is refused only   *)
(* if another command slipped in, and an answer is one to the command that *)
(* waits for it unless commands met each other or an answer came late.     *)
(***************************************************************************)
EXTENDS CanCommand, SequenceTheorems, TLAPS

USE DEF Idle

WorkStates == {"free", "init", "request", "await", "erase", "release"}

\* A caller that has created a work thread and has not started it yet.
Owns(t, w) == pc[t] \in {"record", "start"} /\ call[t].tid = w

\* The inductive invariant.  Beside TypeOK: a caller inside a call has one, a
\* work thread that exists has a command and tries left, and the work thread a caller has
\* created is still untouched and has no other owner.
CallOK ==
  \A t \in Threads :
    /\ pc[t] # "idle" => call[t] \in Calls
    /\ pc[t] \in {"record", "start"} => call[t].tid \in Workers
JobOK ==
  \A w \in Workers :
    /\ wpc[w] # "free" => job[w] \in Jobs
    /\ wpc[w] \in {"init", "request", "await"} => tries[w] > 0
    /\ flag[w] => wpc[w] # "free"
OwnerOK ==
  \A t \in Threads : \A w \in Workers : Owns(t, w) =>
    /\ wpc[w] = "init"
    /\ job[w].dev = call[t].dev
OwnerUnique ==
  \A t, u \in Threads : \A w \in Workers : Owns(t, w) /\ Owns(u, w) => t = u

Typing == TypeOK /\ CallOK /\ JobOK
IInv == Typing /\ OwnerOK /\ OwnerUnique /\ TableSound /\ NoStrandedWorker

\* A frame put on a bus queue leaves all queues sequences of such frames.
LEMMA SendType ==
  ASSUME NEW M, NEW queue, NEW next, NEW d \in Devices, NEW m \in M,
         queue \in [Devices -> Seq(M)],
         \/ next = [queue EXCEPT ![d] = Append(@, m)]
         \/ next = queue
  PROVE  next \in [Devices -> Seq(M)]
<1>1. Append(queue[d], m) \in Seq(M)
  OBVIOUS
<1>2. QED
  BY <1>1

LEMMA TypingInit == Init => Typing
  BY CommandAssumption DEF Init, Typing, TypeOK, CallOK, JobOK, Calls, Jobs

LEMMA TypingNext == Typing /\ OwnerOK /\ [Next]_vars => Typing'
<1> SUFFICES ASSUME Typing, OwnerOK, [Next]_vars PROVE Typing'
  OBVIOUS
<1> USE CommandAssumption DEF Typing, TypeOK, CallOK, JobOK, history
<1>1. ASSUME NEW t \in Threads, NEW d \in Devices, NEW v \in Values,
             NEW k \in {"set", "off"}, NEW l \in {"spin", "check"},
             BeginCall(t, d, v, k, l)
      PROVE  Typing'
  <2>1. [dev |-> d, val |-> v, kind |-> k, tid |-> None, num |-> calls + 1]
          \in Calls
    BY <1>1 DEF Calls, BeginCall
  <2>2. calls + 1 \in 0..MaxCalls
    BY <1>1 DEF BeginCall
  <2>3. TypeOK'
    BY <1>1, <2>1, <2>2 DEF BeginCall, Goto, workVars, unitVars
  <2>4. CallOK' /\ JobOK'
    BY <1>1, <2>1 DEF BeginCall, Goto, workVars, unitVars
  <2>5. QED
    BY <2>3, <2>4
<1>2. ASSUME NEW t \in Threads, LastCompleted(t) PROVE Typing'
  BY <1>2 DEF LastCompleted, Goto, workVars, unitVars
<1>3. ASSUME NEW t \in Threads, Refuse(t) PROVE Typing'
  BY <1>3 DEF Refuse, Goto, workVars, unitVars
<1>4. ASSUME NEW t \in Threads, Claim(t) PROVE Typing'
  <2>1. call[t].dev \in Devices
    BY <1>4 DEF Claim, Calls
  <2>2. overtaken' \subseteq Threads /\ overlapped' \subseteq Devices /\ doubtful' \subseteq Devices
    BY <1>4, <2>1 DEF Claim, Begins
  <2>3. QED
    BY <1>4, <2>1, <2>2 DEF Claim, Goto, workVars, unitVars
<1>5. ASSUME NEW t \in Threads, Create(t) PROVE Typing'
  <2>0. PICK w \in Workers :
        /\ wpc[w] = "free"
        /\ wpc' = [wpc EXCEPT ![w] = "init"]
        /\ job' = [job EXCEPT ![w] = [dev |-> call[t].dev, val |-> call[t].val,
                                      num |-> call[t].num]]
        /\ tries' = [tries EXCEPT ![w] = MaxTries]
        /\ flag' = [flag EXCEPT ![w] = FALSE]
        /\ call' = [call EXCEPT ![t].tid = w]
    BY <1>5 DEF Create
  <2>1. pc[t] = "create" /\ call[t] \in Calls
    BY <1>5 DEF Create
  <2>2. [dev |-> call[t].dev, val |-> call[t].val, num |-> call[t].num] \in Jobs
    BY <2>1 DEF Calls, Jobs
  <2>3. [call[t] EXCEPT !.tid = w] \in Calls
    BY <2>1 DEF Calls
  <2>4. call' = [call EXCEPT ![t] = [call[t] EXCEPT !.tid = w]]
    BY <2>0
  <2>5. call'[t].tid = w
    BY <2>1, <2>4 DEF Calls
  <2>6. pc' = [pc EXCEPT ![t] = "record"]
    BY <1>5 DEF Create, Goto
  <2>7. TypeOK'
    <3>1. call' \in [Threads -> Calls \cup {None}]
      BY <2>3, <2>4
    <3>2. job' \in [Workers -> Jobs \cup {None}]
      BY <2>0, <2>2
    <3>3. QED
      BY <1>5, <2>0, <2>6, <3>1, <3>2 DEF Create, unitVars
  <2>8. CallOK'
    BY <2>1, <2>3, <2>4, <2>5, <2>6
  <2>9. JobOK'
    BY <2>0, <2>2
  <2>10. QED
    BY <2>7, <2>8, <2>9
<1>6. ASSUME NEW t \in Threads, Record(t) PROVE Typing'
  <2>1. call[t].dev \in Devices /\ call[t].tid \in Workers
    BY <1>6 DEF Record, Calls
  <2>2. QED
    BY <1>6, <2>1 DEF Record, Goto, workVars, unitVars
<1>7. ASSUME NEW t \in Threads, Start(t) PROVE Typing'
  <2>1. call[t].tid \in Workers
    BY <1>7 DEF Start
  <2>2. TypeOK' /\ CallOK'
    BY <1>7, <2>1 DEF Start, Goto, unitVars
  <2>3. JobOK'
    BY <1>7, <2>1 DEF Start, OwnerOK, Owns
  <2>4. QED
    BY <2>2, <2>3
<1>8. ASSUME NEW w \in Workers, Request(w) PROVE Typing'
  <2>1. job[w] \in Jobs /\ job[w].dev \in Devices
    BY <1>8 DEF Request, Jobs
  <2>2. requests' \in [Devices -> Seq(Jobs)]
    BY <1>8, <2>1, SendType DEF Request, Send
  <2>3. QED
    BY <1>8, <2>2 DEF Request, hostVars, unitVars
<1>9. ASSUME NEW w \in Workers, Answered(w) \/ TimedOut(w) PROVE Typing'
  <2>1. tries[w] \in 1..MaxTries
    BY <1>9 DEF Answered, TimedOut
  <2>2. tries' = [tries EXCEPT ![w] = @ - 1] /\ tries[w] - 1 \in 0..MaxTries
    BY <1>9, <2>1 DEF Answered, TimedOut
  <2>3. TypeOK'
    BY <1>9, <2>2 DEF Answered, TimedOut, hostVars, unitVars
  <2>4. CallOK'
    BY <1>9 DEF Answered, TimedOut, hostVars
  <2>5. JobOK'
    BY <1>9, <2>1, <2>2 DEF Answered, TimedOut
  <2>6. QED
    BY <2>3, <2>4, <2>5
<1>a. ASSUME NEW w \in Workers, EraseEntry(w) PROVE Typing'
  <2>1. job[w].dev \in Devices
    BY <1>a DEF EraseEntry, Jobs
  <2>2. QED
    BY <1>a, <2>1 DEF EraseEntry, unitVars
<1>11. ASSUME NEW w \in Workers, Release(w) PROVE Typing'
  <2>1. job[w].dev \in Devices
    BY <1>11 DEF Release, Jobs
  <2>2. QED
    BY <1>11, <2>1 DEF Release, unitVars
<1>12. ASSUME NEW d \in Devices, FindWaiting(d) PROVE Typing'
  BY <1>12 DEF FindWaiting, hostVars, workVars, unitVars
<1>13. ASSUME SignalWaiting PROVE Typing'
  <2>1. rx \in [dev : Devices, tid : Workers]
    BY <1>13 DEF SignalWaiting
  <2>2. EntryIds \subseteq Workers
    BY <2>1 DEF EntryIds
  <2>3. doubtful' \subseteq Devices
    BY <1>13, <2>2 DEF SignalWaiting, Jobs
  <2>4. QED
    BY <1>13, <2>2, <2>3 DEF SignalWaiting, hostVars, unitVars
<1>14. ASSUME NEW d \in Devices, CanexReceived(d) PROVE Typing'
  <2>1. Head(requests[d]) \in Jobs /\ Tail(requests[d]) \in Seq(Jobs)
    BY <1>14 DEF CanexReceived
  <2>2. QED
    BY <1>14, <2>1 DEF CanexReceived, hostVars, workVars, Jobs
<1>15. ASSUME NEW d \in Devices, SendResponse(d) PROVE Typing'
  <2>1. responses' \in [Devices -> Seq({"response"})]
    BY <1>15, SendType DEF SendResponse, Send
  <2>2. QED
    BY <1>15, <2>1 DEF SendResponse, hostVars, workVars
<1>16. ASSUME NEW d \in Devices, ResetTriggered(d) PROVE Typing'
  BY <1>16 DEF ResetTriggered, hostVars, workVars
<1>17. CASE UNCHANGED vars
  BY <1>17 DEF vars, hostVars, workVars, unitVars
<1>18. QED
  BY <1>1, <1>2, <1>3, <1>4, <1>5, <1>6, <1>7, <1>8, <1>9, <1>a, <1>11, <1>12,
     <1>13, <1>14, <1>15, <1>16, <1>17
  DEF Next, Caller, Continue, WorkThread, Bus, Done, SetIndicator, IndicatorOff

-----------------------------------------------------------------------------
(* The owner of a work thread: only the caller that has created it starts  *)
(* it, and nothing else touches a thread in its initial wait.              *)

LEMMA OwnerInit == Init => OwnerOK /\ OwnerUnique
  BY DEF Init, OwnerOK, OwnerUnique, Owns

LEMMA OwnerNext ==
  Typing /\ OwnerOK /\ OwnerUnique /\ [Next]_vars => OwnerOK' /\ OwnerUnique'
<1> SUFFICES ASSUME Typing, OwnerOK, OwnerUnique, [Next]_vars
             PROVE  OwnerOK' /\ OwnerUnique'
  OBVIOUS
<1> USE CommandAssumption
<1> USE DEF Typing, TypeOK, CallOK, JobOK, OwnerOK, OwnerUnique, Owns
<1>1. ASSUME NEW t \in Threads, NEW d \in Devices, NEW v \in Values,
             NEW k \in {"set", "off"}, NEW l \in {"spin", "check"},
             BeginCall(t, d, v, k, l)
      PROVE  OwnerOK' /\ OwnerUnique'
  BY <1>1 DEF BeginCall, Goto, workVars
<1>2. ASSUME NEW t \in Threads,
             LastCompleted(t) \/ Refuse(t) \/ Claim(t) \/ Record(t)
      PROVE  OwnerOK' /\ OwnerUnique'
  <2>1. CASE LastCompleted(t)
    BY <2>1 DEF LastCompleted, Goto, workVars
  <2>2. CASE Refuse(t)
    BY <2>2 DEF Refuse, Goto, workVars
  <2>3. CASE Claim(t)
    BY <2>3 DEF Claim, Goto, workVars
  <2>4. CASE Record(t)
    BY <2>4 DEF Record, Goto, workVars
  <2>5. QED
    BY <1>2, <2>1, <2>2, <2>3, <2>4
<1>3. ASSUME NEW t \in Threads, Create(t) PROVE OwnerOK' /\ OwnerUnique'
  <2>0. PICK w \in Workers :
        /\ wpc[w] = "free"
        /\ wpc' = [wpc EXCEPT ![w] = "init"]
        /\ job' = [job EXCEPT ![w] = [dev |-> call[t].dev, val |-> call[t].val,
                                      num |-> call[t].num]]
        /\ call' = [call EXCEPT ![t].tid = w]
    BY <1>3 DEF Create
  <2>1. call[t] \in Calls /\ pc' = [pc EXCEPT ![t] = "record"]
    BY <1>3 DEF Create, Goto
  <2>2. call'[t].tid = w /\ call'[t].dev = call[t].dev
    BY <2>0, <2>1 DEF Calls
  <2>3. \A u \in Threads \ {t} : call'[u] = call[u] /\ pc'[u] = pc[u]
    BY <2>0, <2>1
  <2>4. \A u \in Threads : ~Owns(u, w)
    BY <2>0
  <2>5. \A u \in Threads, x \in Workers :
          Owns(u, x)' <=> (u = t /\ x = w) \/ (u # t /\ Owns(u, x))
    BY <2>1, <2>2, <2>3
  <2>6. OwnerOK'
    <3> SUFFICES ASSUME NEW u \in Threads, NEW x \in Workers, Owns(u, x)'
                 PROVE  wpc'[x] = "init" /\ job'[x].dev = call'[u].dev
      BY DEF OwnerOK
    <3>1. CASE u = t /\ x = w
      BY <3>1, <2>0, <2>2
    <3>2. CASE u # t /\ Owns(u, x)
      <4>1. x # w /\ wpc[x] = "init" /\ job[x].dev = call[u].dev
        BY <3>2, <2>4
      <4> QED
        BY <4>1, <3>2, <2>0, <2>3
    <3> QED
      BY <3>1, <3>2, <2>5
  <2>7. OwnerUnique'
    <3> SUFFICES ASSUME NEW a \in Threads, NEW b \in Threads, NEW x \in Workers,
                        Owns(a, x)', Owns(b, x)'
                 PROVE  a = b
      BY Zenon DEF OwnerUnique
    <3>1. (a = t /\ x = w) \/ (a # t /\ Owns(a, x))
      BY <2>5
    <3>2. (b = t /\ x = w) \/ (b # t /\ Owns(b, x))
      BY <2>5
    <3>3. QED
      BY <3>1, <3>2, <2>4
  <2>8. QED
    BY <2>6, <2>7
<1>4. ASSUME NEW t \in Threads, Start(t) PROVE OwnerOK' /\ OwnerUnique'
  <2>1. \A u \in Threads, x \in Workers : Owns(u, x)' <=> u # t /\ Owns(u, x)
    BY <1>4 DEF Start, Goto
  <2>2. Owns(t, call[t].tid) /\ call[t].tid \in Workers
    BY <1>4 DEF Start
  <2>3. QED
    BY <1>4, <2>1, <2>2 DEF Start
<1>5. ASSUME NEW w \in Workers, WorkThread(w) PROVE OwnerOK' /\ OwnerUnique'
  <2>1. UNCHANGED <<pc, call>> /\ wpc[w] # "init"
    BY <1>5 DEF WorkThread, Request, Answered, TimedOut, EraseEntry, Release,
                hostVars
  <2>2. \A x \in Workers \ {w} : wpc'[x] = wpc[x] /\ job'[x] = job[x]
    BY <1>5 DEF WorkThread, Request, Answered, TimedOut, EraseEntry, Release
  <2>3. QED
    BY <2>1, <2>2
<1>6. ASSUME UNCHANGED <<pc, call, wpc, job>> PROVE OwnerOK' /\ OwnerUnique'
  BY <1>6
<1>7. QED
  BY <1>1, <1>2, <1>3, <1>4, <1>5, <1>6
  DEF Next, Caller, Continue, Bus, Done, SetIndicator, IndicatorOff,
      FindWaiting, SignalWaiting, CanexReceived, SendResponse, ResetTriggered,
      vars, hostVars, workVars

-----------------------------------------------------------------------------
(* SyncTable and the work threads.                                         *)

LEMMA TableInit == Init => TableSound /\ NoStrandedWorker
  BY DEF Init, TableSound, NoStrandedWorker

LEMMA TableNext ==
  IInv /\ [Next]_vars => TableSound'
<1> SUFFICES ASSUME IInv, [Next]_vars PROVE TableSound'
  OBVIOUS
<1> USE CommandAssumption DEF IInv, Typing, TypeOK, TableSound
<1>1. ASSUME NEW t \in Threads, Create(t) PROVE TableSound'
  <2>1. PICK w \in Workers :
        /\ wpc[w] = "free"
        /\ wpc' = [wpc EXCEPT ![w] = "init"]
        /\ job' = [job EXCEPT ![w] = [dev |-> call[t].dev, val |-> call[t].val,
                                      num |-> call[t].num]]
    BY <1>1 DEF Create
  <2>2. SyncTable' = SyncTable
    BY <1>1 DEF Create
  <2>3. ASSUME NEW d \in Devices, SyncTable[d] = w PROVE FALSE
    <3>1. w # None
      OBVIOUS
    <3>2. wpc[SyncTable[d]] \in {"init", "request", "await", "erase"}
      BY <2>3, <3>1
    <3>3. QED
      BY <2>1, <2>3, <3>2
  <2>4. QED
    BY <2>1, <2>2, <2>3
<1>2. ASSUME NEW t \in Threads, Record(t) PROVE TableSound'
  <2>1. Owns(t, call[t].tid) /\ call[t].tid \in Workers /\ call[t].dev \in Devices
    BY <1>2 DEF Record, Owns, CallOK, Calls
  <2>2. wpc[call[t].tid] = "init" /\ job[call[t].tid].dev = call[t].dev
    BY <2>1 DEF OwnerOK
  <2>3. QED
    BY <1>2, <2>1, <2>2 DEF Record, workVars
<1>3. ASSUME NEW t \in Threads, Start(t) PROVE TableSound'
  BY <1>3 DEF Start
<1>4. ASSUME NEW w \in Workers, Request(w) \/ Answered(w) \/ TimedOut(w)
      PROVE  TableSound'
  BY <1>4 DEF Request, Answered, TimedOut, hostVars
<1>5. ASSUME NEW w \in Workers, EraseEntry(w) PROVE TableSound'
  <2>1. job[w].dev \in Devices
    BY <1>5 DEF EraseEntry, JobOK, Jobs
  <2>2. \A d \in Devices : SyncTable'[d] # None => SyncTable'[d] = SyncTable[d]
                                                  /\ SyncTable[d] # w
    BY <1>5, <2>1 DEF EraseEntry
  <2>3. QED
    BY <1>5, <2>2 DEF EraseEntry
<1>6. ASSUME NEW w \in Workers, Release(w) PROVE TableSound'
  <2>1. ASSUME NEW d \in Devices, SyncTable[d] = w PROVE FALSE
    <3>1. w # None
      OBVIOUS
    <3>2. wpc[SyncTable[d]] \in {"init", "request", "await", "erase"}
      BY <2>1, <3>1
    <3>3. QED
      BY <1>6, <2>1, <3>2 DEF Release
  <2>2. QED
    BY <1>6, <2>1 DEF Release
<1>7. ASSUME UNCHANGED <<SyncTable, wpc, job>> PROVE TableSound'
  BY <1>7
<1>8. QED
  BY <1>1, <1>2, <1>3, <1>4, <1>5, <1>6, <1>7
  DEF Next, Caller, Continue, WorkThread, Bus, Done, SetIndicator, IndicatorOff,
      BeginCall, LastCompleted, Refuse, Claim,
      FindWaiting, SignalWaiting, CanexReceived, SendResponse, ResetTriggered,
      vars, hostVars, workVars

LEMMA StrandedNext ==
  IInv /\ [Next]_vars => NoStrandedWorker'
<1> SUFFICES ASSUME IInv, [Next]_vars, NEW w \in Workers, wpc'[w] = "init"
             PROVE  \E t \in Threads : Owns(t, w)'
  BY DEF NoStrandedWorker, Owns
<1> USE CommandAssumption DEF IInv, Typing, TypeOK, NoStrandedWorker, Owns
<1>1. ASSUME NEW t \in Threads, Create(t) PROVE \E u \in Threads : Owns(u, w)'
  <2>1. PICK x \in Workers :
        /\ wpc[x] = "free"
        /\ wpc' = [wpc EXCEPT ![x] = "init"]
        /\ call' = [call EXCEPT ![t].tid = x]
    BY <1>1 DEF Create
  <2>2. call[t] \in Calls /\ pc[t] = "create" /\ pc' = [pc EXCEPT ![t] = "record"]
    BY <1>1 DEF Create, Goto, CallOK
  <2>3. CASE w = x
    BY <2>1, <2>2, <2>3 DEF Calls
  <2>4. CASE w # x
    <3>1. wpc[w] = "init"
      BY <2>1, <2>4
    <3>2. PICK u \in Threads : Owns(u, w)
      BY <3>1
    <3>3. u # t
      BY <2>2, <3>2
    <3>4. QED
      BY <2>1, <2>2, <3>2, <3>3
  <2>5. QED
    BY <2>3, <2>4
<1>2. ASSUME NEW t \in Threads, Start(t) PROVE \E u \in Threads : Owns(u, w)'
  <2>1. wpc[w] = "init" /\ w # call[t].tid
    BY <1>2 DEF Start, CallOK
  <2>2. PICK u \in Threads : Owns(u, w)
    BY <2>1
  <2>3. u # t
    BY <2>1, <2>2
  <2>4. QED
    BY <1>2, <2>2, <2>3 DEF Start, Goto
<1>3. ASSUME NEW t \in Threads, Record(t) PROVE \E u \in Threads : Owns(u, w)'
  BY <1>3 DEF Record, Goto, workVars
<1>4. ASSUME NEW x \in Workers, WorkThread(x) PROVE \E u \in Threads : Owns(u, w)'
  <2>1. UNCHANGED <<pc, call>> /\ wpc[w] = "init"
    BY <1>4 DEF WorkThread, Request, Answered, TimedOut, EraseEntry, Release,
                hostVars
  <2>2. QED
    BY <2>1
<1>5. ASSUME NEW t \in Threads, LastCompleted(t) \/ Refuse(t) \/ Claim(t)
      PROVE  \E u \in Threads : Owns(u, w)'
  <2>1. CASE LastCompleted(t)
    BY <2>1 DEF LastCompleted, Goto, workVars
  <2>2. CASE Refuse(t)
    BY <2>2 DEF Refuse, Goto, workVars
  <2>3. CASE Claim(t)
    BY <2>3 DEF Claim, Goto, workVars
  <2>4. QED
    BY <1>5, <2>1, <2>2, <2>3
<1>6. ASSUME NEW t \in Threads, NEW d \in Devices, NEW v \in Values,
             NEW k \in {"set", "off"}, NEW l \in {"spin", "check"},
             BeginCall(t, d, v, k, l)
      PROVE  \E u \in Threads : Owns(u, w)'
  BY <1>6 DEF BeginCall, Goto, workVars
<1>7. ASSUME UNCHANGED <<pc, call, wpc>> PROVE \E u \in Threads : Owns(u, w)'
  BY <1>7
<1>8. QED
  BY <1>1, <1>2, <1>3, <1>4, <1>5, <1>6, <1>7
  DEF Next, Caller, Continue, Bus, Done, SetIndicator, IndicatorOff,
      FindWaiting, SignalWaiting, CanexReceived, SendResponse, ResetTriggered,
      vars, hostVars, workVars

-----------------------------------------------------------------------------
LEMMA Invariance == Spec => []IInv
<1>1. Init => IInv
  BY TypingInit, OwnerInit, TableInit DEF IInv
<1>2. IInv /\ [Next]_vars => IInv'
  BY TypingNext, OwnerNext, TableNext, StrandedNext DEF IInv
<1>3. QED
  BY <1>1, <1>2, PTL DEF Spec

\* Every variable keeps its type, for any parameters.
THEOREM TypeCorrect == Spec => []TypeOK
<1>1. IInv => TypeOK
  BY DEF IInv, Typing
<1>2. QED
  BY <1>1, Invariance, PTL

\* SyncTable never names a thread that has ended or works for another unit,
\* however many controller threads race on it without a lock.
THEOREM TableIsSound == Spec => []TableSound
<1>1. IInv => TableSound
  BY DEF IInv
<1>2. QED
  BY <1>1, Invariance, PTL

\* Every work thread in its initial wait has a caller about to start it.
THEOREM NobodyStranded == Spec => []NoStrandedWorker
<1>1. IInv => NoStrandedWorker
  BY DEF IInv
<1>2. QED
  BY <1>1, Invariance, PTL

-----------------------------------------------------------------------------
(* busy and the commands.  A command is at work on a unit from Claim, over *)
(* its work thread, to Release.  As long as none was begun while busy was  *)
(* set there is one, and busy is set with it.                              *)

Active(w, d) == wpc[w] # "free" /\ job[w].dev = d
Creating(t, d) == pc[t] = "create" /\ call[t].dev = d

OneCommand(d) ==
  /\ \A w \in Workers : Active(w, d) => busy[d]
  /\ \A t \in Threads : Creating(t, d) => busy[d]
  /\ \A w, x \in Workers : Active(w, d) /\ Active(x, d) => w = x
  /\ \A t, u \in Threads : Creating(t, d) /\ Creating(u, d) => t = u
  /\ \A t \in Threads, w \in Workers : ~(Creating(t, d) /\ Active(w, d))

OneAtATime == \A d \in Devices : d \notin overlapped => OneCommand(d)
WaitIsOver ==
  \A t \in Threads : pc[t] = "check" /\ call[t].kind = "set" /\ t \notin overtaken =>
    ~busy[call[t].dev]

LEMMA BusyInit == Init => OneAtATime /\ WaitIsOver
  BY DEF Init, OneAtATime, OneCommand, WaitIsOver, Active, Creating

\* a step that neither begins nor ends a command
LEMMA SameCommands ==
  ASSUME OneAtATime, busy' = busy, overlapped' = overlapped,
         \A w \in Workers : (wpc'[w] = "free" <=> wpc[w] = "free"), job' = job,
         \A t \in Threads : pc'[t] = "create" => pc[t] = "create" /\ call'[t].dev = call[t].dev
  PROVE  OneAtATime'
<1>1. \A w \in Workers, d \in Devices : Active(w, d)' <=> Active(w, d)
  BY DEF Active
<1>2. \A t \in Threads, d \in Devices : Creating(t, d)' => Creating(t, d)
  BY DEF Creating
<1>3. QED
  BY <1>1, <1>2 DEF OneAtATime, OneCommand

LEMMA OneAtATimeNext ==
  IInv /\ OneAtATime /\ [Next]_vars => OneAtATime'
<1> SUFFICES ASSUME IInv, OneAtATime, [Next]_vars PROVE OneAtATime'
  OBVIOUS
<1> USE CommandAssumption
<1>a. TypeOK /\ CallOK /\ JobOK
  BY DEF IInv, Typing
<1>1. ASSUME NEW t \in Threads, NEW d \in Devices, NEW v \in Values,
             NEW k \in {"set", "off"}, NEW l \in {"spin", "check"},
             BeginCall(t, d, v, k, l)
      PROVE  OneAtATime'
  BY <1>1, <1>a, SameCommands DEF BeginCall, Goto, workVars, history, TypeOK
<1>2. ASSUME NEW t \in Threads, LastCompleted(t) \/ Refuse(t) \/ Record(t)
      PROVE  OneAtATime'
  BY <1>2, <1>a, SameCommands
  DEF LastCompleted, Refuse, Record, Goto, workVars, history, TypeOK
<1>3. ASSUME NEW t \in Threads, Start(t) PROVE OneAtATime'
  <2>1. wpc[call[t].tid] = "init" /\ call[t].tid \in Workers
    BY <1>3, <1>a DEF Start, CallOK, IInv, OwnerOK, Owns
  <2>2. \A w \in Workers : (wpc'[w] = "free" <=> wpc[w] = "free")
    BY <1>3, <1>a, <2>1 DEF Start, TypeOK
  <2>3. QED
    BY <1>3, <1>a, <2>2, SameCommands DEF Start, Goto, history, TypeOK
<1>4. ASSUME NEW t \in Threads, Claim(t) PROVE OneAtATime'
  <2> SUFFICES ASSUME NEW d \in Devices, d \notin overlapped' PROVE OneCommand(d)'
    BY DEF OneAtATime
  <2>1. /\ busy' = [busy EXCEPT ![call[t].dev] = TRUE] /\ pc' = [pc EXCEPT ![t] = "create"]
        /\ UNCHANGED <<call, wpc, job>> /\ call[t].dev \in Devices
        /\ d \notin overlapped /\ (call[t].dev = d => ~busy[d])
    BY <1>4, <1>a DEF Claim, Begins, Goto, workVars, CallOK, Calls
  <2>2. OneCommand(d)
    BY <2>1 DEF OneAtATime
  <2>3. \A w \in Workers : Active(w, d)' <=> Active(w, d)
    BY <2>1 DEF Active
  <2>4. \A u \in Threads : Creating(u, d)' <=> Creating(u, d) \/ (u = t /\ call[t].dev = d)
    BY <2>1, <1>4, <1>a DEF Creating, TypeOK, Claim
  <2>5. CASE call[t].dev = d
    <3>1. busy'[d]
      BY <2>1, <2>5, <1>a DEF TypeOK
    <3>2. (\A w \in Workers : ~Active(w, d)) /\ (\A u \in Threads : ~Creating(u, d))
      BY <2>1, <2>2, <2>5 DEF OneCommand
    <3>3. QED
      BY <3>1, <3>2, <2>3, <2>4 DEF OneCommand
  <2>6. CASE call[t].dev # d
    <3>1. busy'[d] = busy[d]
      BY <2>1, <2>6, <1>a DEF TypeOK
    <3>2. QED
      BY <3>1, <2>2, <2>3, <2>4, <2>6 DEF OneCommand
  <2>7. QED
    BY <2>5, <2>6
<1>5. ASSUME NEW t \in Threads, Create(t) PROVE OneAtATime'
  <2> SUFFICES ASSUME NEW d \in Devices, d \notin overlapped' PROVE OneCommand(d)'
    BY DEF OneAtATime
  <2>1. PICK w \in Workers :
        /\ wpc[w] = "free"
        /\ wpc' = [wpc EXCEPT ![w] = "init"]
        /\ job' = [job EXCEPT ![w] = [dev |-> call[t].dev, val |-> call[t].val,
                                      num |-> call[t].num]]
        /\ call' = [call EXCEPT ![t].tid = w]
    BY <1>5 DEF Create
  <2>2. /\ pc[t] = "create" /\ pc' = [pc EXCEPT ![t] = "record"] /\ busy' = busy
        /\ overlapped' = overlapped /\ call[t] \in Calls
    BY <1>5, <1>a DEF Create, Goto, history, CallOK
  <2>3. OneCommand(d)
    BY <2>2 DEF OneAtATime
  <2>4. \A x \in Workers : Active(x, d)' <=> Active(x, d) \/ (x = w /\ call[t].dev = d)
    BY <2>1, <1>a DEF Active, TypeOK
  <2>5. \A u \in Threads : Creating(u, d)' => u # t /\ Creating(u, d)
    BY <2>1, <2>2, <1>a DEF Creating, TypeOK
  <2>6. CASE call[t].dev = d
    <3>1. Creating(t, d)
      BY <2>2, <2>6 DEF Creating
    <3>2. busy[d] /\ \A x \in Workers : ~Active(x, d)
      BY <3>1, <2>3 DEF OneCommand
    <3>3. \A u \in Threads : ~Creating(u, d)'
      BY <3>1, <2>3, <2>5 DEF OneCommand
    <3>4. QED
      BY <3>2, <3>3, <2>2, <2>4 DEF OneCommand
  <2>7. CASE call[t].dev # d
    BY <2>7, <2>2, <2>3, <2>4, <2>5 DEF OneCommand
  <2>8. QED
    BY <2>6, <2>7
<1>6. ASSUME NEW w \in Workers,
             Request(w) \/ Answered(w) \/ TimedOut(w) \/ EraseEntry(w)
      PROVE  OneAtATime'
  <2>1. \A x \in Workers : (wpc'[x] = "free" <=> wpc[x] = "free")
    BY <1>6, <1>a DEF Request, Answered, TimedOut, EraseEntry, TypeOK
  <2>2. UNCHANGED <<pc, call, busy, job, overlapped>>
    BY <1>6 DEF Request, Answered, TimedOut, EraseEntry, hostVars, history
  <2>3. QED
    BY <2>1, <2>2, SameCommands
<1>7. ASSUME NEW w \in Workers, Release(w) PROVE OneAtATime'
  <2> SUFFICES ASSUME NEW d \in Devices, d \notin overlapped' PROVE OneCommand(d)'
    BY DEF OneAtATime
  <2>1. /\ wpc[w] = "release" /\ wpc' = [wpc EXCEPT ![w] = "free"]
        /\ job' = [job EXCEPT ![w] = None] /\ UNCHANGED <<pc, call>>
        /\ busy' = [busy EXCEPT ![job[w].dev] = FALSE] /\ job[w].dev \in Devices
    BY <1>7, <1>a DEF Release, JobOK, Jobs
  <2>2. overlapped' = overlapped \ {e \in {job[w].dev} : ~Others(w, e)}
    BY <1>7 DEF Release
  <2>3. \A x \in Workers : Active(x, d)' <=> x # w /\ Active(x, d)
    BY <2>1, <1>a DEF Active, TypeOK
  <2>4. \A t \in Threads : Creating(t, d)' <=> Creating(t, d)
    BY <2>1 DEF Creating
  <2>5. CASE job[w].dev # d
    <3>1. d \notin overlapped /\ busy'[d] = busy[d]
      BY <2>1, <2>2, <2>5, <1>a DEF TypeOK
    <3>2. OneCommand(d)
      BY <3>1 DEF OneAtATime
    <3>3. QED
      BY <3>1, <3>2, <2>3, <2>4 DEF OneCommand
  <2>6. CASE job[w].dev = d /\ ~Others(w, d)
    <3>1. (\A x \in Workers : ~Active(x, d)') /\ (\A t \in Threads : ~Creating(t, d)')
      BY <2>3, <2>4, <2>6 DEF Others, Active, Creating
    <3>2. QED
      BY <3>1 DEF OneCommand
  <2>7. CASE job[w].dev = d /\ Others(w, d)
    <3>1. d \notin overlapped
      BY <2>2, <2>7
    <3>2. OneCommand(d) /\ Active(w, d)
      BY <3>1, <2>1, <2>7 DEF OneAtATime, Active
    <3>3. QED
      BY <3>2, <2>7 DEF OneCommand, Others, Active, Creating
  <2>8. QED
    BY <2>5, <2>6, <2>7
<1>8. ASSUME UNCHANGED <<pc, call, busy, wpc, job, overlapped>> PROVE OneAtATime'
  BY <1>8, SameCommands
<1>9. QED
  BY <1>1, <1>2, <1>3, <1>4, <1>5, <1>6, <1>7, <1>8
  DEF Next, Caller, Continue, WorkThread, Bus, Done, SetIndicator, IndicatorOff,
      FindWaiting, SignalWaiting, CanexReceived, SendResponse, ResetTriggered,
      vars, hostVars, workVars, history

LEMMA WaitIsOverNext ==
  IInv /\ WaitIsOver /\ [Next]_vars => WaitIsOver'
<1> SUFFICES ASSUME IInv, WaitIsOver, [Next]_vars PROVE WaitIsOver'
  OBVIOUS
<1> USE CommandAssumption DEF WaitIsOver
<1>a. TypeOK /\ CallOK /\ JobOK
  BY DEF IInv, Typing
<1>1. ASSUME NEW t \in Threads, NEW d \in Devices, NEW v \in Values,
             SetIndicator(t, d, v)
      PROVE  WaitIsOver'
  BY <1>1, <1>a DEF SetIndicator, BeginCall, Goto, history, TypeOK
<1>2. ASSUME NEW t \in Threads, NEW d \in Devices, IndicatorOff(t, d)
      PROVE  WaitIsOver'
  <2>1. /\ pc' = [pc EXCEPT ![t] = "check"] /\ call'[t].kind = "off"
        /\ \A u \in Threads \ {t} : call'[u] = call[u]
        /\ busy' = busy /\ overtaken' = overtaken
    BY <1>2, <1>a DEF IndicatorOff, BeginCall, Goto, history, TypeOK
  <2>2. QED
    BY <2>1, <1>a DEF TypeOK
<1>3. ASSUME NEW t \in Threads, LastCompleted(t) PROVE WaitIsOver'
  BY <1>3, <1>a DEF LastCompleted, Goto, history, TypeOK
<1>4. ASSUME NEW t \in Threads, Refuse(t) PROVE WaitIsOver'
  BY <1>4, <1>a DEF Refuse, Goto, TypeOK
<1>5. ASSUME NEW t \in Threads, Claim(t) PROVE WaitIsOver'
  <2> SUFFICES ASSUME NEW u \in Threads, pc'[u] = "check", call'[u].kind = "set",
                      u \notin overtaken'
               PROVE  ~busy'[call'[u].dev]
    OBVIOUS
  <2>1. /\ busy' = [busy EXCEPT ![call[t].dev] = TRUE] /\ pc' = [pc EXCEPT ![t] = "create"]
        /\ call' = call
        /\ overtaken' = (overtaken \ {t}) \cup
             {x \in Threads \ {t} : pc[x] = "check" /\ call[x].dev = call[t].dev}
    BY <1>5 DEF Claim, Begins, Goto
  <2>2. u # t /\ pc[u] = "check" /\ u \notin overtaken /\ call[u].dev # call[t].dev
    BY <2>1, <1>a DEF TypeOK
  <2>3. QED
    BY <2>1, <2>2, <1>a DEF TypeOK, CallOK, Calls
<1>6. ASSUME NEW t \in Threads, Create(t) PROVE WaitIsOver'
  <2>1. /\ pc' = [pc EXCEPT ![t] = "record"] /\ UNCHANGED <<busy, overtaken>>
        /\ \A u \in Threads \ {t} : call'[u] = call[u]
    BY <1>6, <1>a DEF Create, Goto, history, TypeOK
  <2>2. QED
    BY <2>1, <1>a DEF TypeOK
<1>7. ASSUME NEW t \in Threads, Record(t) \/ Start(t) PROVE WaitIsOver'
  BY <1>7, <1>a DEF Record, Start, Goto, history, TypeOK
<1>8. ASSUME NEW w \in Workers, Release(w) PROVE WaitIsOver'
  BY <1>8, <1>a DEF Release, TypeOK, CallOK, JobOK, Jobs, Calls
<1>9. ASSUME UNCHANGED <<pc, call, busy, overtaken>> PROVE WaitIsOver'
  BY <1>9
<1>10. QED
  BY <1>1, <1>2, <1>3, <1>4, <1>5, <1>6, <1>7, <1>8, <1>9
  DEF Next, Caller, Continue, WorkThread, Bus, Done,
      Request, Answered, TimedOut, EraseEntry,
      FindWaiting, SignalWaiting, CanexReceived, SendResponse, ResetTriggered,
      vars, hostVars, workVars, history

\* "Wait for last command completed": for any number of callers that set and clear
\* indicators, a SetIndicator that has waited is refused only if another thread's
\* command went on to the unit since, or one was begun while the last was busy.
THEOREM SetIsNeverRefused == Spec => []SetNeverRefused
<1>1. Init => OneAtATime /\ WaitIsOver
  BY BusyInit
<1>2. IInv /\ OneAtATime /\ WaitIsOver /\ [Next]_vars => OneAtATime' /\ WaitIsOver'
  BY OneAtATimeNext, WaitIsOverNext
<1>3. IInv /\ OneAtATime /\ WaitIsOver => SetNeverRefused
  <2> SUFFICES ASSUME IInv, OneAtATime, WaitIsOver, NEW t \in Threads, pc[t] = "check",
                      call[t].kind = "set", SyncTable[call[t].dev] # None,
                      t \notin overtaken, call[t].dev \notin overlapped
               PROVE  FALSE
    BY DEF SetNeverRefused
  <2>1. PICK d \in Devices : d = call[t].dev
    BY DEF IInv, Typing, CallOK, Calls
  <2>2. SyncTable[d] \in Workers
    BY <2>1 DEF IInv, Typing, TypeOK
  <2>3. Active(SyncTable[d], d)
    BY <2>1 DEF IInv, TableSound, Active
  <2>4. busy[d]
    BY <2>1, <2>2, <2>3 DEF OneAtATime, OneCommand
  <2>5. QED
    BY <2>1, <2>4 DEF WaitIsOver
<1>4. QED
  BY <1>1, <1>2, <1>3, Invariance, PTL DEF Spec

-----------------------------------------------------------------------------
(* The answers.  While the commands of a unit have not met each other or a *)
(* late answer, what is on its way is of the command at work, and past the *)
(* unit it means that the command was executed.                            *)

Sure(d) == d \notin overlapped \cup doubtful
Found(d) == rx # None /\ rx.dev = d
Answering(d) == responses[d] # <<>> \/ (triggered[d] /\ ~sending[d]) \/ Found(d)

BelongsTo(d, w) ==
  /\ \A i \in 1..Len(requests[d]) : requests[d][i].num = job[w].num
  /\ Answering(d) => job[w].num \in applied
  /\ flag[w] => job[w].num \in applied

Truthful(d) ==
  /\ \A t \in Threads : Creating(t, d) => ~InFlight(d)
  /\ \A w \in Workers : Active(w, d) => BelongsTo(d, w)

ToldTheTruth == \A d \in Devices : Sure(d) => Truthful(d)

LEMMA TruthInit == Init => ToldTheTruth
  BY DEF Init, ToldTheTruth, Truthful, Active, Creating

\* a step that lets no command begin on d, moves nothing of it and raises no flag
LEMMA SameTruth ==
  ASSUME NEW d \in Devices, Truthful(d),
         \A w \in Workers : Active(w, d)' => Active(w, d) /\ job'[w] = job[w]
                                             /\ (flag'[w] => flag[w]),
         \A t \in Threads : Creating(t, d)' => Creating(t, d),
         requests'[d] = requests[d], responses'[d] = responses[d],
         triggered'[d] = triggered[d], sending'[d] = sending[d],
         Found(d)' => Found(d), applied \subseteq applied'
  PROVE  Truthful(d)'
<1>1. (Answering(d)' => Answering(d)) /\ (InFlight(d)' => InFlight(d))
  BY DEF Answering, InFlight, Found
<1>2. ASSUME NEW w \in Workers, Active(w, d)' PROVE BelongsTo(d, w)'
  <2>1. BelongsTo(d, w) /\ job'[w] = job[w] /\ (flag'[w] => flag[w])
    BY <1>2 DEF Truthful
  <2>2. QED
    BY <2>1, <1>1 DEF BelongsTo
<1>3. QED
  BY <1>1, <1>2 DEF Truthful

LEMMA TruthNext ==
  IInv /\ OneAtATime /\ ToldTheTruth /\ [Next]_vars => ToldTheTruth'
<1> SUFFICES ASSUME IInv, OneAtATime, ToldTheTruth, [Next]_vars, NEW d \in Devices, Sure(d)'
             PROVE  Truthful(d)'
  BY DEF ToldTheTruth
<1> USE CommandAssumption
<1>a. TypeOK /\ CallOK /\ JobOK
  BY DEF IInv, Typing
\* where the history of d was and is clean, d has one command and it is told the truth
<1>b. ASSUME Sure(d) PROVE Truthful(d) /\ OneCommand(d)
  BY <1>b DEF ToldTheTruth, OneAtATime, Sure
<1>c. requests[d] \in Seq(Jobs) /\ responses[d] \in Seq({"response"})
  BY <1>a DEF TypeOK
<1>1. ASSUME NEW t \in Threads, NEW e \in Devices, NEW v \in Values,
             NEW k \in {"set", "off"}, NEW l \in {"spin", "check"},
             BeginCall(t, e, v, k, l)
      PROVE  Truthful(d)'
  <2>1. /\ Sure(d) /\ \A u \in Threads : pc'[u] = "create" => pc[u] = "create" /\ call'[u] = call[u]
        /\ UNCHANGED <<wpc, job, flag, requests, responses, rx, triggered, sending, applied>>
    BY <1>1, <1>a DEF BeginCall, Goto, workVars, unitVars, history, Sure, TypeOK
  <2>2. \A u \in Threads : Creating(u, d)' => Creating(u, d)
    BY <2>1 DEF Creating
  <2>3. \A w \in Workers : Active(w, d)' => Active(w, d)
    BY <2>1 DEF Active
  <2>4. QED
    BY <2>1, <2>2, <2>3, <1>b, SameTruth DEF Found
<1>2. ASSUME NEW t \in Threads, LastCompleted(t) \/ Refuse(t) \/ Record(t) \/ Start(t)
      PROVE  Truthful(d)'
  <2>1. /\ Sure(d) /\ \A u \in Threads : pc'[u] = "create" => pc[u] = "create" /\ call'[u] = call[u]
        /\ UNCHANGED <<job, flag, requests, responses, rx, triggered, sending, applied>>
    BY <1>2, <1>a
    DEF LastCompleted, Refuse, Record, Start, Goto, workVars, unitVars, history, Sure, TypeOK
  <2>2. \A w \in Workers : wpc'[w] # "free" => wpc[w] # "free"
    <3>1. CASE Start(t)
      <4>1. wpc[call[t].tid] = "init" /\ call[t].tid \in Workers
        BY <3>1, <1>a DEF Start, CallOK, IInv, OwnerOK, Owns
      <4>2. QED
        BY <3>1, <4>1, <1>a DEF Start, TypeOK
    <3>2. CASE ~Start(t)
      BY <3>2, <1>2 DEF LastCompleted, Refuse, Record, workVars
    <3>3. QED
      BY <3>1, <3>2
  <2>3. \A u \in Threads : Creating(u, d)' => Creating(u, d)
    BY <2>1 DEF Creating
  <2>4. \A w \in Workers : Active(w, d)' => Active(w, d)
    BY <2>1, <2>2 DEF Active
  <2>5. QED
    BY <2>1, <2>3, <2>4, <1>b, SameTruth DEF Found
<1>3. ASSUME NEW t \in Threads, Claim(t) PROVE Truthful(d)'
  <2>1. /\ pc' = [pc EXCEPT ![t] = "create"]
        /\ UNCHANGED <<call, wpc, job, flag, requests, responses, rx, triggered, sending, applied>>
        /\ Sure(d) /\ (call[t].dev = d => ~busy[d] /\ ~InFlight(d))
    BY <1>3 DEF Claim, Begins, Goto, workVars, unitVars, Sure
  <2>2. \A w \in Workers : Active(w, d)' <=> Active(w, d)
    BY <2>1 DEF Active
  <2>3. \A u \in Threads : Creating(u, d)' => Creating(u, d) \/ (u = t /\ call[t].dev = d)
    BY <2>1, <1>a DEF Creating, TypeOK
  <2>4. CASE call[t].dev = d
    <3>1. \A w \in Workers : ~Active(w, d)
      BY <2>1, <2>4, <1>b DEF OneCommand
    <3>2. ~InFlight(d)'
      BY <2>1, <2>4 DEF InFlight
    <3>3. QED
      BY <3>1, <3>2, <2>2 DEF Truthful
  <2>5. CASE call[t].dev # d
    BY <2>1, <2>2, <2>3, <2>5, <1>b, SameTruth DEF Found
  <2>6. QED
    BY <2>4, <2>5
<1>4. ASSUME NEW t \in Threads, Create(t) PROVE Truthful(d)'
  <2>1. PICK w \in Workers :
        /\ wpc[w] = "free"
        /\ wpc' = [wpc EXCEPT ![w] = "init"]
        /\ job' = [job EXCEPT ![w] = [dev |-> call[t].dev, val |-> call[t].val,
                                      num |-> call[t].num]]
        /\ flag' = [flag EXCEPT ![w] = FALSE]
        /\ call' = [call EXCEPT ![t].tid = w]
    BY <1>4 DEF Create
  <2>2. /\ pc[t] = "create" /\ pc' = [pc EXCEPT ![t] = "record"] /\ call[t] \in Calls
        /\ UNCHANGED <<requests, responses, rx, triggered, sending, applied>> /\ Sure(d)
    BY <1>4, <1>a DEF Create, Goto, history, CallOK, unitVars, Sure
  <2>3. \A x \in Workers : Active(x, d)' <=> Active(x, d) \/ (x = w /\ call[t].dev = d)
    BY <2>1, <1>a DEF Active, TypeOK
  <2>4. \A u \in Threads : Creating(u, d)' => u # t /\ Creating(u, d)
    BY <2>1, <2>2, <1>a DEF Creating, TypeOK
  <2>5. CASE call[t].dev = d
    <3>1. Creating(t, d)
      BY <2>2, <2>5 DEF Creating
    <3>2. ~InFlight(d) /\ \A x \in Workers : ~Active(x, d)
      BY <3>1, <1>b, <2>2 DEF Truthful, OneCommand
    <3>3. requests'[d] = <<>> /\ ~Answering(d)' /\ ~flag'[w]
      BY <3>2, <2>1, <2>2, <1>a DEF InFlight, Answering, Found, TypeOK
    <3>4. BelongsTo(d, w)'
      BY <3>3 DEF BelongsTo
    <3>5. \A u \in Threads : ~Creating(u, d)'
      BY <3>1, <2>2, <2>4, <1>b DEF OneCommand
    <3>6. QED
      BY <3>2, <3>4, <3>5, <2>3 DEF Truthful
  <2>6. CASE call[t].dev # d
    <3>1. \A x \in Workers : Active(x, d)' => Active(x, d) /\ job'[x] = job[x] /\ flag'[x] = flag[x]
      <4>1. ~Active(w, d)
        BY <2>1 DEF Active
      <4>2. QED
        BY <4>1, <2>1, <2>3, <2>6, <1>a DEF TypeOK
    <3>2. QED
      BY <3>1, <2>2, <2>4, <1>b, SameTruth DEF Found
  <2>7. QED
    BY <2>5, <2>6
<1>5. ASSUME NEW w \in Workers, Request(w) PROVE Truthful(d)'
  <2>1. /\ wpc[w] = "request" /\ wpc' = [wpc EXCEPT ![w] = "await"] /\ Sure(d)
        /\ UNCHANGED <<pc, call, job, flag, responses, rx, triggered, sending, applied>>
        /\ \/ requests' = [requests EXCEPT ![job[w].dev] = Append(@, job[w])]
           \/ requests' = requests
    BY <1>5 DEF Request, Send, hostVars, unitVars, history, Sure
  <2>2. \A x \in Workers : Active(x, d)' <=> Active(x, d)
    BY <2>1, <1>a DEF Active, TypeOK
  <2>3. \A u \in Threads : Creating(u, d)' <=> Creating(u, d)
    BY <2>1 DEF Creating
  <2>4. CASE requests'[d] = requests[d]
    BY <2>1, <2>2, <2>3, <2>4, <1>b, SameTruth DEF Found
  <2>5. CASE requests'[d] # requests[d]
    <3>1. job[w].dev = d /\ requests'[d] = Append(requests[d], job[w]) /\ job[w] \in Jobs
      BY <2>1, <2>5, <1>a DEF TypeOK, JobOK
    <3>2. Active(w, d)
      BY <3>1, <2>1 DEF Active
    <3>3. (\A u \in Threads : ~Creating(u, d)) /\ (\A x \in Workers : Active(x, d) => x = w)
      BY <3>2, <2>1, <1>b DEF OneCommand
    <3>4. BelongsTo(d, w)
      BY <3>2, <2>1, <1>b DEF Truthful
    <3>5. \A i \in 1..Len(requests'[d]) : requests'[d][i].num = job[w].num
      BY <3>1, <3>4, <1>c DEF BelongsTo
    <3>6. Answering(d)' <=> Answering(d)
      BY <2>1 DEF Answering, Found
    <3>7. BelongsTo(d, w)'
      BY <3>4, <3>5, <3>6, <2>1 DEF BelongsTo
    <3>8. QED
      BY <3>3, <3>7, <2>2, <2>3 DEF Truthful
  <2>6. QED
    BY <2>4, <2>5
<1>6. ASSUME NEW w \in Workers, Answered(w) \/ TimedOut(w) \/ EraseEntry(w) PROVE Truthful(d)'
  <2>1. /\ UNCHANGED <<pc, call, job, requests, responses, rx, triggered, sending, applied>>
        /\ Sure(d)
    BY <1>6 DEF Answered, TimedOut, EraseEntry, hostVars, unitVars, history, Sure
  <2>2. \A x \in Workers : (flag'[x] => flag[x]) /\ (wpc'[x] # "free" => wpc[x] # "free")
    BY <1>6, <1>a DEF Answered, TimedOut, EraseEntry, TypeOK
  <2>3. \A x \in Workers : Active(x, d)' => Active(x, d)
    BY <2>1, <2>2 DEF Active
  <2>4. \A u \in Threads : Creating(u, d)' => Creating(u, d)
    BY <2>1 DEF Creating
  <2>5. QED
    BY <2>1, <2>2, <2>3, <2>4, <1>b, SameTruth DEF Found
<1>7. ASSUME NEW w \in Workers, Release(w) PROVE Truthful(d)'
  <2>1. /\ wpc[w] = "release" /\ wpc' = [wpc EXCEPT ![w] = "free"]
        /\ job' = [job EXCEPT ![w] = None] /\ flag' = [flag EXCEPT ![w] = FALSE]
        /\ UNCHANGED <<pc, call, requests, responses, rx, triggered, sending, applied>>
        /\ overlapped' = overlapped \ {e \in {job[w].dev} : ~Others(w, e)}
        /\ doubtful' = doubtful \ {e \in {job[w].dev} : ~Others(w, e)}
    BY <1>7 DEF Release, unitVars
  <2>2. \A x \in Workers : Active(x, d)' => x # w /\ Active(x, d)
    BY <2>1, <1>a DEF Active, TypeOK
  <2>3. \A t \in Threads : Creating(t, d)' => Creating(t, d)
    BY <2>1 DEF Creating
  <2>4. CASE Sure(d)
    BY <2>1, <2>2, <2>3, <2>4, <1>a, <1>b, SameTruth DEF Found, TypeOK
  <2>5. CASE ~Sure(d)
    <3>1. job[w].dev = d /\ ~Others(w, d)
      BY <2>1, <2>5 DEF Sure
    <3>2. (\A x \in Workers : ~Active(x, d)') /\ (\A t \in Threads : ~Creating(t, d)')
      BY <3>1, <2>2, <2>3 DEF Others, Active, Creating
    <3>3. QED
      BY <3>2 DEF Truthful
  <2>6. QED
    BY <2>4, <2>5
<1>8. ASSUME NEW e \in Devices, FindWaiting(e) PROVE Truthful(d)'
  <2>1. /\ rx = None /\ responses[e] # <<>> /\ responses' = [responses EXCEPT ![e] = Tail(@)]
        /\ UNCHANGED <<pc, call, wpc, job, flag, requests, triggered, sending, applied>>
        /\ Sure(d) /\ (rx' = None \/ rx' = [dev |-> e, tid |-> SyncTable[e]])
    BY <1>8 DEF FindWaiting, hostVars, workVars, unitVars, history, Sure
  <2>2. (Answering(d)' => Answering(d)) /\ (InFlight(d)' => InFlight(d))
    <3>1. CASE e = d
      BY <3>1, <2>1 DEF Answering, InFlight
    <3>2. CASE e # d
      BY <3>2, <2>1, <1>a DEF Answering, InFlight, Found, TypeOK
    <3>3. QED
      BY <3>1, <3>2
  <2>3. \A x \in Workers : Active(x, d)' <=> Active(x, d)
    BY <2>1 DEF Active
  <2>4. \A u \in Threads : Creating(u, d)' <=> Creating(u, d)
    BY <2>1 DEF Creating
  <2>5. \A w \in Workers : BelongsTo(d, w) => BelongsTo(d, w)'
    BY <2>1, <2>2 DEF BelongsTo
  <2>6. QED
    BY <2>1, <2>2, <2>3, <2>4, <2>5, <1>b DEF Truthful
<1>9. ASSUME SignalWaiting PROVE Truthful(d)'
  <2>1. PICK w \in EntryIds :
        /\ flag' = [flag EXCEPT ![w] = wpc[w] # "free"]
        /\ doubtful' = doubtful \cup
             {job[x].dev : x \in {y \in {w} : wpc[y] # "free" /\ SyncTable[rx.dev] # rx.tid}}
    BY <1>9 DEF SignalWaiting
  <2>2. /\ rx # None /\ rx' = None /\ overlapped' = overlapped
        /\ UNCHANGED <<pc, call, wpc, job, requests, responses, triggered, sending, applied>>
    BY <1>9 DEF SignalWaiting, hostVars, unitVars
  <2>3. Sure(d) /\ rx \in [dev : Devices, tid : Workers]
    BY <2>1, <2>2, <1>a DEF Sure, TypeOK
  <2>4. Truthful(d)
    BY <2>3, <1>b
  <2>5. (Answering(d)' => Answering(d)) /\ (InFlight(d)' => InFlight(d))
    BY <2>2 DEF Answering, InFlight, Found
  <2>6. \A u \in Threads : Creating(u, d)' <=> Creating(u, d)
    BY <2>2 DEF Creating
  <2>7. ASSUME NEW x \in Workers, Active(x, d)' PROVE BelongsTo(d, x)'
    <3>1. Active(x, d) /\ BelongsTo(d, x)
      BY <2>7, <2>2, <2>4 DEF Active, Truthful
    <3>2. flag'[x] => job[x].num \in applied
      <4>1. CASE x # w
        BY <4>1, <3>1, <2>1, <1>a DEF BelongsTo, TypeOK
      <4>2. CASE x = w
        <5>1. SyncTable[rx.dev] = rx.tid
          <6>1. d \notin doubtful' /\ wpc[w] # "free" /\ job[w].dev = d
            BY <3>1, <4>2 DEF Sure, Active
          <6>2. QED
            BY <6>1, <2>1
        <5>2. w = rx.tid
          BY <5>1, <2>1 DEF EntryIds
        <5>3. rx.tid # None
          BY <2>3
        <5>4. job[w].dev = rx.dev
          BY <5>1, <5>2, <5>3, <2>3 DEF IInv, TableSound
        <5>5. Answering(d)
          BY <5>4, <3>1, <4>2, <2>2 DEF Active, Answering, Found
        <5>6. QED
          BY <5>5, <3>1 DEF BelongsTo
      <4>3. QED
        BY <4>1, <4>2
    <3>3. QED
      BY <3>1, <3>2, <2>2, <2>5 DEF BelongsTo
  <2>8. QED
    BY <2>4, <2>5, <2>6, <2>7 DEF Truthful
<1>10. ASSUME NEW e \in Devices, CanexReceived(e) PROVE Truthful(d)'
  <2>1. /\ requests[e] # <<>> /\ requests' = [requests EXCEPT ![e] = Tail(@)]
        /\ triggered' = [triggered EXCEPT ![e] = TRUE]
        /\ applied' = applied \cup {Head(requests[e]).num}
        /\ UNCHANGED <<pc, call, wpc, job, flag, responses, rx, sending>> /\ Sure(d)
    BY <1>10 DEF CanexReceived, hostVars, workVars, history, Sure
  <2>2. \A x \in Workers : Active(x, d)' <=> Active(x, d)
    BY <2>1 DEF Active
  <2>3. \A u \in Threads : Creating(u, d)' <=> Creating(u, d)
    BY <2>1 DEF Creating
  <2>4. CASE e # d
    <3>1. requests'[d] = requests[d] /\ triggered'[d] = triggered[d] /\ applied \subseteq applied'
      BY <2>1, <2>4, <1>a DEF TypeOK
    <3>2. QED
      BY <3>1, <2>1, <2>2, <2>3, <1>b, SameTruth DEF Found
  <2>5. CASE e = d
    <3>1. InFlight(d) /\ Head(requests[d]) = requests[d][1] /\ Len(requests[d]) >= 1
      BY <2>1, <2>5, <1>c DEF InFlight
    <3>2. \A u \in Threads : ~Creating(u, d)
      BY <3>1, <2>1, <1>b DEF Truthful
    <3>3. ASSUME NEW x \in Workers, Active(x, d) PROVE BelongsTo(d, x)'
      <4>1. BelongsTo(d, x)
        BY <3>3, <2>1, <1>b DEF Truthful
      <4>2. Head(requests[d]).num = job[x].num
        BY <4>1, <3>1 DEF BelongsTo
      <4>3. job'[x].num \in applied'
        BY <4>2, <2>1, <2>5
      <4>4. requests'[d] = Tail(requests[d])
        BY <2>1, <2>5, <1>a DEF TypeOK
      <4>5. \A i \in 1..Len(requests'[d]) : requests'[d][i].num = job[x].num
        BY <4>1, <4>4, <1>c, <3>1 DEF BelongsTo
      <4>6. QED
        BY <4>3, <4>5, <2>1 DEF BelongsTo
    <3>4. QED
      BY <3>2, <3>3, <2>2, <2>3 DEF Truthful
  <2>6. QED
    BY <2>4, <2>5
<1>11. ASSUME NEW e \in Devices, SendResponse(e) \/ ResetTriggered(e) PROVE Truthful(d)'
  <2>1. /\ UNCHANGED <<pc, call, wpc, job, flag, requests, rx, applied>> /\ Sure(d)
    BY <1>11 DEF SendResponse, ResetTriggered, hostVars, workVars, history, Sure
  <2>2. (Answering(d)' => Answering(d)) /\ (InFlight(d)' => InFlight(d))
    <3>1. CASE e # d
      <4>1. /\ responses'[d] = responses[d] /\ triggered'[d] = triggered[d]
            /\ sending'[d] = sending[d]
        BY <3>1, <1>11, <1>a DEF SendResponse, ResetTriggered, Send, TypeOK
      <4>2. QED
        BY <4>1, <2>1 DEF Answering, InFlight, Found
    <3>2. CASE e = d /\ SendResponse(e)
      BY <3>2 DEF SendResponse, Answering, InFlight
    <3>3. CASE e = d /\ ResetTriggered(e)
      <4>1. responses' = responses /\ ~triggered'[d]
        BY <3>3, <1>a DEF ResetTriggered, TypeOK
      <4>2. QED
        BY <4>1, <2>1 DEF Answering, InFlight, Found
    <3>4. QED
      BY <3>1, <3>2, <3>3, <1>11
  <2>3. \A x \in Workers : Active(x, d)' <=> Active(x, d)
    BY <2>1 DEF Active
  <2>4. \A u \in Threads : Creating(u, d)' <=> Creating(u, d)
    BY <2>1 DEF Creating
  <2>5. \A w \in Workers : BelongsTo(d, w) => BelongsTo(d, w)'
    BY <2>1, <2>2 DEF BelongsTo
  <2>6. QED
    BY <2>1, <2>2, <2>3, <2>4, <2>5, <1>b DEF Truthful
<1>12. CASE UNCHANGED vars
  <2>1. /\ UNCHANGED <<pc, call, wpc, job, flag, requests, responses, rx, triggered, sending,
                      applied>> /\ Sure(d)
    BY <1>12 DEF vars, hostVars, workVars, unitVars, history, Sure
  <2>2. (\A x \in Workers : Active(x, d)' => Active(x, d))
        /\ (\A u \in Threads : Creating(u, d)' => Creating(u, d))
    BY <2>1 DEF Active, Creating
  <2>3. QED
    BY <2>1, <2>2, <1>b, SameTruth DEF Found
<1>13. QED
  BY <1>1, <1>2, <1>3, <1>4, <1>5, <1>6, <1>7, <1>8, <1>9, <1>10, <1>11, <1>12
  DEF Next, Caller, Continue, WorkThread, Bus, Done, SetIndicator, IndicatorOff

\* A work thread that is told of a response wrote to a unit that did execute the command,
\* for any number of callers that set and clear, units, task slots, retries, losses and
\* delays; the exceptions are those NoFalseAnswer names, for the unit they concern and
\* until it is at rest.
THEOREM AnswersAreTrue == Spec => []NoFalseAnswer
<1>1. Init => OneAtATime /\ ToldTheTruth
  BY BusyInit, TruthInit
<1>2. IInv /\ OneAtATime /\ ToldTheTruth /\ [Next]_vars => OneAtATime' /\ ToldTheTruth'
  BY OneAtATimeNext, TruthNext
<1>3. IInv /\ ToldTheTruth => NoFalseAnswer
  <2> SUFFICES ASSUME IInv, ToldTheTruth, NEW w \in Workers, flag[w],
                      job[w].dev \notin overlapped \cup doubtful
               PROVE  job[w].num \in applied
    BY DEF NoFalseAnswer
  <2>1. wpc[w] # "free"
    BY DEF IInv, Typing, JobOK
  <2>2. PICK d \in Devices : d = job[w].dev
    BY <2>1 DEF IInv, Typing, JobOK, Jobs
  <2>3. Sure(d) /\ Active(w, d)
    BY <2>1, <2>2 DEF Sure, Active
  <2>4. QED
    BY <2>3 DEF ToldTheTruth, Truthful, BelongsTo
<1> QED
  BY <1>1, <1>2, <1>3, Invariance, PTL DEF Spec
=============================================================================
