----------------------------- MODULE Server_proofs -----------------------------
(***************************************************************************)
(* The connection with the server.  To the server (TcpFlow), for any       *)
(* number of threads, sockets, segments and events: nobody waits for a     *)
(* block of the queue, and as long as two threads do not abort the         *)
(* connection at once no socket is lost and the main thread waits for no   *)
(* acknowledgement.  The first is a matter of accounts: the tokens of the  *)
(* semaphore, the segments queued and the threads between the one and the  *)
(* other always add up to the capacity.  As long as commands do not        *)
(* overlap, each leaves whole.                                             *)
(*                                                                         *)
(* From the server (CommandStream), for any commands, pieces, buffers and  *)
(* losses: as long as nothing is lost, each is handled whole and in order. *)
(***************************************************************************)
EXTENDS TcpFlow, CommandStream, FiniteSetTheorems, WellFoundedInduction, TLAPS

Labels == {"idle", "net_main"} \cup Sending \cup Aborting \cup MainOnly

TypeThreads ==
  /\ pc \in [Threads -> Labels]
  /\ cmd \in [Threads -> Commands \cup Segments \cup {None}]

TypeQueue == queue \in Seq(Segments) /\ tokens \in Nat

TypeSockets ==
  /\ tcpSocket \in Sockets \cup {None, Error}
  /\ table \subseteq Sockets \cup {Error} /\ unacked \subseteq Sockets
  /\ state \in [Sockets -> {"UNUSED", "CLOSED", "CONNECTING", "ESTABLISHED"}]

TypeFlags ==
  /\ conn \in BOOLEAN /\ ack \in BOOLEAN /\ link \in BOOLEAN
  /\ clean \in BOOLEAN /\ alone \in BOOLEAN

TypeCounts ==
  /\ sent \in 0..MaxCommands /\ events \in 0..MaxEvents
  /\ stream \in Seq(Segments)

\* a thread that sends has a command with segments to come, the main thread a segment
InHand ==
  /\ \A t \in Threads : pc[t] \in Sending => cmd[t] \in Commands /\ cmd[t].next <= cmd[t].segs
  /\ pc[Main] \in {"free", "send"} => cmd[Main] \in Segments

\* a token was taken and no segment queued yet, or a segment taken and no token released
Holding == {"alloc", "drained", "free"}
Holders == {t \in Threads : pc[t] \in Holding}
Accounts == tokens + Len(queue) + Cardinality(Holders) = Capacity

\* one thread at a time gives a socket back, and forgets it when it has
Owned ==
  alone => /\ \A t, u \in Threads : pc[t] \in Aborting /\ pc[u] \in Aborting => t = u
           /\ \A s \in Sockets : state[s] # "UNUSED" => s = tcpSocket
           /\ \A t \in Threads : pc[t] \in {"release", "null"} => tcpSocket # None
           /\ \A t \in Threads : pc[t] = "null" => \A s \in Sockets : state[s] = "UNUSED"

\* data the server has not acknowledged is of the open connection, and ack knows
Outstanding ==
  alone => /\ \A s \in unacked : state[s] = "ESTABLISHED"
           /\ ack => unacked = {}
           /\ pc[Main] \in {"free", "send"} => tcpSocket \notin unacked

Inv == /\ TypeThreads /\ TypeQueue /\ TypeSockets /\ TypeFlags /\ TypeCounts
       /\ InHand /\ Accounts /\ Owned /\ Outstanding

-----------------------------------------------------------------------------

LEMMA HoldersFinite == IsFiniteSet(Threads) /\ IsFiniteSet(Holders) /\ Cardinality(Holders) \in Nat
<1>1. IsFiniteSet(Threads)
  BY TcpFlowAssumption, FS_AddElement DEF Threads
<1>2. Holders \in SUBSET Threads
  BY DEF Holders
<1> QED
  BY <1>1, <1>2, FS_Subset, FS_CardinalityType

\* a thread that begins to hold, one that stops, and one that does neither
LEMMA Enters ==
  ASSUME TypeThreads, NEW t \in Threads, NEW l \in Holding, pc[t] \notin Holding, Goto(t, l)
  PROVE  Cardinality(Holders') = Cardinality(Holders) + 1
<1>1. Holders' = Holders \cup {t} /\ t \notin Holders
  BY DEF Holders, Goto, TypeThreads
<1> QED
  BY <1>1, HoldersFinite, FS_AddElement

LEMMA Leaves ==
  ASSUME TypeThreads, NEW t \in Threads, NEW l, l \notin Holding, pc[t] \in Holding, Goto(t, l)
  PROVE  Cardinality(Holders') = Cardinality(Holders) - 1
<1>1. Holders' = Holders \ {t} /\ t \in Holders
  BY DEF Holders, Goto, TypeThreads
<1> QED
  BY <1>1, HoldersFinite, FS_RemoveElement

LEMMA Stays ==
  ASSUME TypeThreads, NEW t \in Threads, NEW l, l \notin Holding, pc[t] \notin Holding, Goto(t, l)
  PROVE  Cardinality(Holders') = Cardinality(Holders)
<1>1. Holders' = Holders
  BY DEF Holders, Goto, TypeThreads
<1> QED
  BY <1>1

LEMMA Keeps == ASSUME UNCHANGED pc PROVE Cardinality(Holders') = Cardinality(Holders)
BY DEF Holders

\* a thread finds a block when it has a token
LEMMA Room ==
  ASSUME TypeQueue, Accounts, NEW t \in Threads, pc[t] = "alloc"
  PROVE  Len(queue) < Capacity
<1>1. t \in Holders
  BY DEF Holders, Holding
<1>2. Cardinality(Holders) # 0
  BY <1>1, HoldersFinite, FS_EmptySet
<1>3. Len(queue) \in Nat
  BY DEF TypeQueue
<1> QED
  BY <1>2, <1>3, HoldersFinite, TcpFlowAssumption DEF TypeQueue, Accounts

LEMMA InvInit == Init => Inv
<1> SUFFICES ASSUME Init PROVE Inv
  OBVIOUS
<1> USE TcpFlowAssumption DEF Init
<1>1. TypeThreads
  BY DEF TypeThreads, Labels, Idle, Threads
<1>2. TypeQueue /\ TypeSockets
  BY DEF TypeQueue, TypeSockets
<1>3. TypeFlags /\ TypeCounts
  <2>1. 0 \in 0..MaxCommands /\ 0 \in 0..MaxEvents /\ <<>> \in Seq(Segments)
    OBVIOUS
  <2>2. TypeCounts
    BY <2>1 DEF TypeCounts
  <2>3. TypeFlags
    BY DEF TypeFlags
  <2> QED
    BY <2>2, <2>3
<1>4. InHand
  BY DEF InHand, Sending, Idle, Threads
<1>5. Accounts
  <2>1. Holders = {}
    BY DEF Holders, Holding, Idle
  <2> QED
    BY <2>1, FS_EmptySet DEF Accounts
<1>6. Owned /\ Outstanding
  BY DEF Owned, Outstanding, Aborting, Idle, Threads
<1> QED
  BY <1>1, <1>2, <1>3, <1>4, <1>5, <1>6 DEF Inv

LEMMA InvNext == Inv /\ [Next]_vars => Inv'
<1> SUFFICES ASSUME Inv, [Next]_vars PROVE Inv'
  OBVIOUS
<1> USE TcpFlowAssumption DEF Inv, clientVars, queueVars, stackVars,
        Labels, Sending, Aborting, MainOnly, Idle
<1>0. Main \in Threads
  BY DEF Threads
<1>1. ASSUME NEW t \in Threads, SendData(t) PROVE Inv'
  <2>1. TypeQueue' /\ TypeSockets'
    BY <1>1 DEF TypeQueue, TypeSockets, SendData
  <2>2. TypeThreads'
    <3>1. PICK n \in 1..MaxSegments :
            cmd' = [cmd EXCEPT ![t] = [id |-> sent', segs |-> n, next |-> 1]]
      BY <1>1 DEF SendData
    <3>2. sent' \in 1..MaxCommands
      BY <1>1 DEF SendData, TypeCounts
    <3>3. [id |-> sent', segs |-> n, next |-> 1] \in Commands
      BY <3>2 DEF Commands
    <3> QED
      BY <1>1, <3>1, <3>3 DEF SendData, TypeThreads, Goto
  <2>3. TypeFlags'
    BY <1>1, <1>0 DEF TypeFlags, SendData
  <2>4. TypeCounts'
    BY <1>1, <1>0 DEF TypeCounts, SendData
  <2>5. InHand'
    <3>1. PICK n \in 1..MaxSegments :
            cmd' = [cmd EXCEPT ![t] = [id |-> sent', segs |-> n, next |-> 1]]
      BY <1>1 DEF SendData
    <3>2. sent' \in 1..MaxCommands
      BY <1>1 DEF SendData, TypeCounts
    <3>3. [id |-> sent', segs |-> n, next |-> 1] \in Commands
      BY <3>2 DEF Commands
    <3>4. pc' = [pc EXCEPT ![t] = "semaphore"]
      BY <1>1 DEF SendData, Goto
    <3>5. ASSUME NEW u \in Threads, pc'[u] \in Sending
          PROVE cmd'[u] \in Commands /\ cmd'[u].next <= cmd'[u].segs
      <4>1. CASE u = t
        BY <3>1, <3>3, <4>1 DEF TypeThreads
      <4>2. CASE u # t
        BY <3>1, <3>4, <3>5, <4>2 DEF TypeThreads, InHand
      <4> QED
        BY <4>1, <4>2
    <3>6. pc'[Main] \in {"free", "send"} => cmd'[Main] \in Segments
      BY <1>0, <3>1, <3>4 DEF TypeThreads, InHand
    <3> QED
      BY <3>5, <3>6 DEF InHand
  <2>6. Accounts'
    <3>1. Cardinality(Holders') = Cardinality(Holders)
      BY <1>1, <1>0, Stays DEF SendData, Holding
    <3> QED
      BY <1>1, <3>1 DEF Accounts, SendData
  <2>7. Owned'
    BY <1>1, <1>0 DEF TypeThreads, TypeSockets, Owned, SendData, Goto
  <2>8. Outstanding'
    BY <1>1, <1>0 DEF TypeThreads, TypeSockets, Owned, Outstanding, SendData, Goto
  <2> QED
    BY <2>1, <2>2, <2>3, <2>4, <2>5, <2>6, <2>7, <2>8
<1>2. ASSUME NEW t \in Threads, TakeToken(t) PROVE Inv'
  <2>1. TypeSockets' /\ TypeFlags' /\ TypeCounts'
    BY <1>2 DEF TypeSockets, TypeFlags, TypeCounts, TakeToken
  <2>2. TypeThreads'
    BY <1>2, <1>0 DEF TypeThreads, TakeToken, Goto
  <2>3. TypeQueue'
    BY <1>2, <1>0 DEF TypeQueue, TakeToken
  <2>4. InHand'
    BY <1>2, <1>0 DEF TypeThreads, InHand, TakeToken, Goto
  <2>5. Accounts'
    <3>1. Cardinality(Holders') = Cardinality(Holders) + 1
      BY <1>2, Enters DEF TakeToken, Holding
    <3> QED
      BY <1>2, <3>1, HoldersFinite DEF Accounts, TypeQueue, TakeToken
  <2>6. Owned'
    BY <1>2, <1>0 DEF TypeThreads, TypeSockets, Owned, TakeToken, Goto
  <2>7. Outstanding'
    BY <1>2, <1>0 DEF TypeThreads, TypeSockets, Owned, Outstanding, TakeToken, Goto
  <2> QED
    BY <2>1, <2>2, <2>3, <2>4, <2>5, <2>6, <2>7
<1>3. ASSUME NEW t \in Threads, GiveUp(t) PROVE Inv'
  <2>1. TypeQueue' /\ TypeSockets' /\ TypeCounts'
    BY <1>3 DEF TypeQueue, TypeSockets, TypeCounts, GiveUp, BeginAbort
  <2>2. TypeThreads'
    BY <1>3, <1>0 DEF TypeThreads, GiveUp, BeginAbort, Goto
  <2>3. TypeFlags'
    BY <1>3, <1>0 DEF TypeFlags, GiveUp, BeginAbort
  <2>4. InHand'
    BY <1>3, <1>0 DEF TypeThreads, InHand, GiveUp, BeginAbort, Goto
  <2>5. Accounts'
    <3>1. Cardinality(Holders') = Cardinality(Holders)
      BY <1>3, <1>0, Stays DEF GiveUp, BeginAbort, Holding
    <3> QED
      BY <1>3, <3>1 DEF Accounts, GiveUp, BeginAbort
  <2>6. Owned'
    BY <1>3, <1>0 DEF TypeThreads, TypeSockets, Owned, GiveUp, BeginAbort, Goto
  <2>7. Outstanding'
    BY <1>3, <1>0 DEF TypeThreads, TypeSockets, Owned, Outstanding, GiveUp, BeginAbort, Goto
  <2> QED
    BY <2>1, <2>2, <2>3, <2>4, <2>5, <2>6, <2>7
<1>4. ASSUME NEW t \in Threads, PutSegment(t) PROVE Inv'
  <2>1. TypeSockets' /\ TypeFlags' /\ TypeCounts'
    BY <1>4 DEF TypeSockets, TypeFlags, TypeCounts, PutSegment
  <2>2. TypeThreads'
    <3>1. cmd[t] \in Commands /\ cmd[t].next <= cmd[t].segs
      BY <1>4 DEF PutSegment, InHand
    <3>2. [id |-> cmd[t].id, seg |-> cmd[t].next, last |-> cmd[t].next = cmd[t].segs] \in Segments
      BY <3>1 DEF Commands, Segments
    <3>3. cmd[t].next # cmd[t].segs =>
            /\ [cmd[t] EXCEPT !.next = @ + 1] \in Commands
            /\ cmd[t].next + 1 <= cmd[t].segs
      BY <3>1 DEF Commands
    <3> QED
      BY <1>4, <3>3 DEF PutSegment, TypeThreads, Goto
  <2>3. TypeQueue'
    <3>1. cmd[t] \in Commands /\ cmd[t].next <= cmd[t].segs
      BY <1>4 DEF PutSegment, InHand
    <3>2. [id |-> cmd[t].id, seg |-> cmd[t].next, last |-> cmd[t].next = cmd[t].segs] \in Segments
      BY <3>1 DEF Commands, Segments
    <3> QED
      BY <1>4, <3>2 DEF PutSegment, TypeQueue
  <2>4. InHand'
    <3>1. cmd[t] \in Commands /\ cmd[t].next <= cmd[t].segs
      BY <1>4 DEF PutSegment, InHand
    <3>2. [id |-> cmd[t].id, seg |-> cmd[t].next, last |-> cmd[t].next = cmd[t].segs] \in Segments
      BY <3>1 DEF Commands, Segments
    <3>3. cmd[t].next # cmd[t].segs =>
            /\ [cmd[t] EXCEPT !.next = @ + 1] \in Commands
            /\ cmd[t].next + 1 <= cmd[t].segs
      BY <3>1 DEF Commands
    <3>4. pc' = [pc EXCEPT ![t] = IF cmd[t].next = cmd[t].segs THEN Idle(t) ELSE "semaphore"]
      BY <1>4 DEF PutSegment, Goto
    <3>5. cmd' = [cmd EXCEPT ![t] = IF cmd[t].next = cmd[t].segs THEN None
                                    ELSE [cmd[t] EXCEPT !.next = @ + 1]]
      BY <1>4 DEF PutSegment
    <3>6. ASSUME NEW u \in Threads, pc'[u] \in Sending
          PROVE cmd'[u] \in Commands /\ cmd'[u].next <= cmd'[u].segs
      <4>1. CASE u = t
        <5>1. cmd[t].next # cmd[t].segs
          BY <3>4, <3>6, <4>1 DEF TypeThreads
        <5>2. cmd'[u] = [cmd[t] EXCEPT !.next = @ + 1]
          BY <3>5, <4>1, <5>1 DEF TypeThreads
        <5>3. cmd'[u].next = cmd[t].next + 1 /\ cmd'[u].segs = cmd[t].segs
          BY <3>1, <5>2 DEF Commands
        <5> QED
          BY <3>3, <5>1, <5>2, <5>3
      <4>2. CASE u # t
        BY <3>4, <3>5, <3>6, <4>2 DEF TypeThreads, InHand
      <4> QED
        BY <4>1, <4>2
    <3>7. pc'[Main] \in {"free", "send"} => cmd'[Main] \in Segments
      BY <1>0, <3>4, <3>5 DEF TypeThreads, InHand
    <3> QED
      BY <3>6, <3>7 DEF InHand
  <2>5. Accounts'
    <3>1. Cardinality(Holders') = Cardinality(Holders) - 1
      BY <1>4, Leaves DEF PutSegment, Holding
    <3>2. Len(queue') = Len(queue) + 1 /\ Len(queue) \in Nat
      BY <1>4 DEF PutSegment, TypeQueue
    <3> QED
      BY <1>4, <3>1, <3>2, HoldersFinite DEF Accounts, TypeQueue, PutSegment
  <2>6. Owned'
    BY <1>4, <1>0 DEF TypeThreads, TypeSockets, Owned, PutSegment, Goto
  <2>7. Outstanding'
    BY <1>4, <1>0 DEF TypeThreads, TypeSockets, Owned, Outstanding, PutSegment, Goto
  <2> QED
    BY <2>1, <2>2, <2>3, <2>4, <2>5, <2>6, <2>7
<1>5. ASSUME NEW t \in Threads, DrainMail(t) PROVE Inv'
  <2>1. TypeSockets' /\ TypeFlags' /\ TypeCounts'
    BY <1>5 DEF TypeSockets, TypeFlags, TypeCounts, DrainMail
  <2>2. TypeThreads'
    BY <1>5, <1>0 DEF TypeThreads, DrainMail, Goto
  <2>3. TypeQueue'
    BY <1>5, <1>0 DEF TypeQueue, DrainMail
  <2>4. InHand'
    BY <1>5, <1>0 DEF TypeThreads, InHand, DrainMail, Goto
  <2>5. Accounts'
    <3>1. CASE queue = <<>>
      <4>1. Cardinality(Holders') = Cardinality(Holders)
        BY <1>5, <3>1, Stays DEF DrainMail, Holding
      <4> QED
        BY <1>5, <3>1, <4>1 DEF Accounts, DrainMail
    <3>2. CASE queue # <<>>
      <4>1. Cardinality(Holders') = Cardinality(Holders) + 1
        BY <1>5, <3>2, Enters DEF DrainMail, Holding
      <4>2. Len(queue') = Len(queue) - 1 /\ Len(queue) \in Nat
        BY <1>5, <3>2 DEF DrainMail, TypeQueue
      <4> QED
        BY <1>5, <4>1, <4>2, HoldersFinite DEF Accounts, TypeQueue, DrainMail
    <3> QED
      BY <3>1, <3>2
  <2>6. Owned'
    BY <1>5, <1>0 DEF TypeThreads, TypeSockets, Owned, DrainMail, Goto
  <2>7. Outstanding'
    BY <1>5, <1>0 DEF TypeThreads, TypeSockets, Owned, Outstanding, DrainMail, Goto
  <2> QED
    BY <2>1, <2>2, <2>3, <2>4, <2>5, <2>6, <2>7
<1>6. ASSUME NEW t \in Threads, DrainToken(t) PROVE Inv'
  <2>1. TypeSockets' /\ TypeFlags' /\ TypeCounts'
    BY <1>6 DEF TypeSockets, TypeFlags, TypeCounts, DrainToken
  <2>2. TypeThreads'
    BY <1>6, <1>0 DEF TypeThreads, DrainToken, Goto
  <2>3. TypeQueue'
    BY <1>6, <1>0 DEF TypeQueue, DrainToken
  <2>4. InHand'
    BY <1>6, <1>0 DEF TypeThreads, InHand, DrainToken, Goto
  <2>5. Accounts'
    <3>1. Cardinality(Holders') = Cardinality(Holders) - 1
      BY <1>6, Leaves DEF DrainToken, Holding
    <3> QED
      BY <1>6, <3>1, HoldersFinite DEF Accounts, TypeQueue, DrainToken
  <2>6. Owned'
    BY <1>6, <1>0 DEF TypeThreads, TypeSockets, Owned, DrainToken, Goto
  <2>7. Outstanding'
    BY <1>6, <1>0 DEF TypeThreads, TypeSockets, Owned, Outstanding, DrainToken, Goto
  <2> QED
    BY <2>1, <2>2, <2>3, <2>4, <2>5, <2>6, <2>7
<1>7. ASSUME NEW t \in Threads, Abort(t) PROVE Inv'
  <2>1. TypeQueue' /\ TypeCounts'
    BY <1>7 DEF TypeQueue, TypeCounts, Abort, tcp_abort
  <2>2. TypeThreads'
    BY <1>7, <1>0 DEF TypeThreads, Abort, tcp_abort, Goto
  <2>3. TypeSockets'
    BY <1>7, <1>0 DEF TypeSockets, Abort, tcp_abort
  <2>4. TypeFlags'
    BY <1>7, <1>0 DEF TypeFlags, Abort, tcp_abort
  <2>5. InHand'
    BY <1>7, <1>0 DEF TypeThreads, InHand, Abort, tcp_abort, Goto
  <2>6. Accounts'
    <3>1. Cardinality(Holders') = Cardinality(Holders)
      BY <1>7, <1>0, Stays DEF Abort, tcp_abort, Holding
    <3> QED
      BY <1>7, <3>1 DEF Accounts, Abort, tcp_abort
  <2>7. Owned'
    BY <1>7, <1>0 DEF TypeThreads, TypeSockets, Owned, Abort, tcp_abort, Goto
  <2>8. Outstanding'
    BY <1>7, <1>0 DEF TypeThreads, TypeSockets, Owned, Outstanding, Abort, tcp_abort, Goto
  <2> QED
    BY <2>1, <2>2, <2>3, <2>4, <2>5, <2>6, <2>7, <2>8
<1>8. ASSUME NEW t \in Threads, Release(t) PROVE Inv'
  <2>1. TypeQueue' /\ TypeFlags' /\ TypeCounts'
    BY <1>8 DEF TypeQueue, TypeFlags, TypeCounts, Release
  <2>2. TypeThreads'
    BY <1>8, <1>0 DEF TypeThreads, Release, Goto
  <2>3. TypeSockets'
    BY <1>8, <1>0 DEF TypeSockets, Release
  <2>4. InHand'
    BY <1>8, <1>0 DEF TypeThreads, InHand, Release, Goto
  <2>5. Accounts'
    <3>1. Cardinality(Holders') = Cardinality(Holders)
      BY <1>8, <1>0, Stays DEF Release, Holding
    <3> QED
      BY <1>8, <3>1 DEF Accounts, Release
  <2>6. Owned'
    BY <1>8, <1>0 DEF TypeThreads, TypeSockets, Owned, Release, Goto
  <2>7. Outstanding'
    BY <1>8, <1>0 DEF TypeThreads, TypeSockets, Owned, Outstanding, Release, Goto
  <2> QED
    BY <2>1, <2>2, <2>3, <2>4, <2>5, <2>6, <2>7
<1>9. ASSUME NEW t \in Threads, SetNull(t) PROVE Inv'
  <2>1. TypeQueue' /\ TypeFlags' /\ TypeCounts'
    BY <1>9 DEF TypeQueue, TypeFlags, TypeCounts, SetNull
  <2>2. TypeThreads'
    BY <1>9, <1>0 DEF TypeThreads, SetNull, Goto
  <2>3. TypeSockets'
    BY <1>9, <1>0 DEF TypeSockets, SetNull
  <2>4. InHand'
    BY <1>9, <1>0 DEF TypeThreads, InHand, SetNull, Goto
  <2>5. Accounts'
    <3>1. Cardinality(Holders') = Cardinality(Holders)
      BY <1>9, <1>0, Stays DEF SetNull, Holding
    <3> QED
      BY <1>9, <3>1 DEF Accounts, SetNull
  <2>6. Owned'
    BY <1>9, <1>0 DEF TypeThreads, TypeSockets, Owned, SetNull, Goto
  <2>7. Outstanding'
    BY <1>9, <1>0 DEF TypeThreads, TypeSockets, Owned, Outstanding, SetNull, Goto
  <2> QED
    BY <2>1, <2>2, <2>3, <2>4, <2>5, <2>6, <2>7
<1>10. CASE Processor
  <2>1. TypeQueue' /\ TypeSockets' /\ TypeFlags' /\ TypeCounts'
    BY <1>10 DEF TypeQueue, TypeSockets, TypeFlags, TypeCounts, Processor
  <2>2. TypeThreads'
    BY <1>10, <1>0 DEF TypeThreads, Processor, Goto
  <2>3. InHand'
    BY <1>10, <1>0 DEF TypeThreads, InHand, Processor, Goto
  <2>4. Accounts'
    <3>1. Cardinality(Holders') = Cardinality(Holders)
      BY <1>10, <1>0, Stays DEF Processor, Holding
    <3> QED
      BY <1>10, <3>1 DEF Accounts, Processor
  <2>5. Owned'
    BY <1>10, <1>0 DEF TypeThreads, TypeSockets, Owned, Processor, Goto
  <2>6. Outstanding'
    BY <1>10, <1>0 DEF TypeThreads, TypeSockets, Owned, Outstanding, Processor, Goto
  <2> QED
    BY <2>1, <2>2, <2>3, <2>4, <2>5, <2>6
<1>11. CASE LinkIsDown
  <2>1. TypeQueue' /\ TypeSockets' /\ TypeCounts'
    BY <1>11 DEF TypeQueue, TypeSockets, TypeCounts, LinkIsDown, BeginAbort
  <2>2. TypeThreads'
    BY <1>11, <1>0 DEF TypeThreads, LinkIsDown, BeginAbort, Goto
  <2>3. TypeFlags'
    BY <1>11, <1>0 DEF TypeFlags, LinkIsDown, BeginAbort
  <2>4. InHand'
    BY <1>11, <1>0 DEF TypeThreads, InHand, LinkIsDown, BeginAbort, Goto
  <2>5. Accounts'
    <3>1. Cardinality(Holders') = Cardinality(Holders)
      BY <1>11, <1>0, Stays DEF LinkIsDown, BeginAbort, Holding
    <3> QED
      BY <1>11, <3>1 DEF Accounts, LinkIsDown, BeginAbort
  <2>6. Owned'
    <3>1. CASE pc'[Main] = "drain"
      <4>1. /\ pc' = [pc EXCEPT ![Main] = "drain"]
            /\ alone' = (alone /\ \A u \in Threads : pc[u] \notin Aborting)
        BY <1>11, <3>1, <1>0 DEF LinkIsDown, BeginAbort, Goto, TypeThreads
      <4>2. UNCHANGED <<state, tcpSocket>>
        BY <1>11 DEF LinkIsDown
      <4>3. alone' => alone /\ \A u \in Threads : pc'[u] \in Aborting => u = Main
        BY <1>0, <4>1 DEF TypeThreads
      <4>4. alone' => \A u \in Threads : pc'[u] \notin {"release", "null"}
        BY <1>0, <4>1 DEF TypeThreads
      <4> QED
        BY <4>2, <4>3, <4>4 DEF Owned
    <3>2. CASE pc'[Main] # "drain"
      BY <1>11, <3>2, <1>0 DEF LinkIsDown, BeginAbort, Goto, TypeThreads, Owned
    <3> QED
      BY <3>1, <3>2
  <2>7. Outstanding'
    BY <1>11, <1>0 DEF TypeThreads, TypeSockets, Owned, Outstanding, LinkIsDown, BeginAbort, Goto
  <2> QED
    BY <2>1, <2>2, <2>3, <2>4, <2>5, <2>6, <2>7
<1>12. CASE GetSocket
  <2>1. TypeQueue' /\ TypeCounts'
    BY <1>12 DEF TypeQueue, TypeCounts, GetSocket, Free
  <2>2. TypeThreads'
    BY <1>12, <1>0 DEF TypeThreads, GetSocket, Free, Goto
  <2>3. TypeSockets'
    BY <1>12, <1>0 DEF TypeSockets, GetSocket, Free
  <2>4. TypeFlags'
    BY <1>12, <1>0 DEF TypeFlags, GetSocket, Free
  <2>5. InHand'
    BY <1>12, <1>0 DEF TypeThreads, InHand, GetSocket, Free, Goto
  <2>6. Accounts'
    <3>1. Cardinality(Holders') = Cardinality(Holders)
      BY <1>12, <1>0, Stays DEF GetSocket, Free, Holding
    <3> QED
      BY <1>12, <3>1 DEF Accounts, GetSocket, Free
  <2>7. Owned'
    BY <1>12, <1>0 DEF TypeThreads, TypeSockets, Owned, GetSocket, Free, Goto
  <2>8. Outstanding'
    BY <1>12, <1>0 DEF TypeThreads, TypeSockets, Owned, Outstanding, GetSocket, Free, Goto
  <2> QED
    BY <2>1, <2>2, <2>3, <2>4, <2>5, <2>6, <2>7, <2>8
<1>13. CASE Connect
  <2>1. TypeQueue' /\ TypeCounts'
    BY <1>13 DEF TypeQueue, TypeCounts, Connect
  <2>2. TypeThreads'
    BY <1>13, <1>0 DEF TypeThreads, Connect, Goto
  <2>3. TypeSockets'
    BY <1>13, <1>0 DEF TypeSockets, Connect
  <2>4. TypeFlags'
    BY <1>13, <1>0 DEF TypeFlags, Connect
  <2>5. InHand'
    BY <1>13, <1>0 DEF TypeThreads, InHand, Connect, Goto
  <2>6. Accounts'
    <3>1. Cardinality(Holders') = Cardinality(Holders)
      BY <1>13, <1>0, Stays DEF Connect, Holding
    <3> QED
      BY <1>13, <3>1 DEF Accounts, Connect
  <2>7. Owned'
    BY <1>13, <1>0 DEF TypeThreads, TypeSockets, Owned, Connect, Goto
  <2>8. Outstanding'
    BY <1>13, <1>0 DEF TypeThreads, TypeSockets, Owned, Outstanding, Connect, Goto
  <2> QED
    BY <2>1, <2>2, <2>3, <2>4, <2>5, <2>6, <2>7, <2>8
<1>14. CASE Pending
  <2>1. TypeQueue' /\ TypeSockets' /\ TypeFlags' /\ TypeCounts'
    BY <1>14 DEF TypeQueue, TypeSockets, TypeFlags, TypeCounts, Pending
  <2>2. TypeThreads'
    BY <1>14, <1>0 DEF TypeThreads, Pending, Goto
  <2>3. InHand'
    BY <1>14, <1>0 DEF TypeThreads, InHand, Pending, Goto
  <2>4. Accounts'
    <3>1. Cardinality(Holders') = Cardinality(Holders)
      BY <1>14, <1>0, Stays DEF Pending, Holding
    <3> QED
      BY <1>14, <3>1 DEF Accounts, Pending
  <2>5. Owned'
    BY <1>14, <1>0 DEF TypeThreads, TypeSockets, Owned, Pending, Goto
  <2>6. Outstanding'
    BY <1>14, <1>0 DEF TypeThreads, TypeSockets, Owned, Outstanding, Pending, Goto
  <2> QED
    BY <2>1, <2>2, <2>3, <2>4, <2>5, <2>6
<1>15. CASE Established
  <2>1. TypeQueue' /\ TypeSockets' /\ TypeCounts'
    BY <1>15 DEF TypeQueue, TypeSockets, TypeCounts, Established
  <2>2. TypeThreads'
    BY <1>15, <1>0 DEF TypeThreads, Established, Goto
  <2>3. TypeFlags'
    BY <1>15, <1>0 DEF TypeFlags, Established
  <2>4. InHand'
    BY <1>15, <1>0 DEF TypeThreads, InHand, Established, Goto
  <2>5. Accounts'
    <3>1. Cardinality(Holders') = Cardinality(Holders)
      BY <1>15, <1>0, Stays DEF Established, Holding
    <3> QED
      BY <1>15, <3>1 DEF Accounts, Established
  <2>6. Owned'
    BY <1>15, <1>0 DEF TypeThreads, TypeSockets, Owned, Established, Goto
  <2>7. Outstanding'
    BY <1>15, <1>0 DEF TypeThreads, TypeSockets, Owned, Outstanding, Established, Goto
  <2> QED
    BY <2>1, <2>2, <2>3, <2>4, <2>5, <2>6, <2>7
<1>16. CASE TakeSegment
  <2>1. TypeSockets' /\ TypeFlags' /\ TypeCounts'
    BY <1>16 DEF TypeSockets, TypeFlags, TypeCounts, TakeSegment, tcp_check_send
  <2>2. TypeThreads'
    <3>1. queue # <<>> => Head(queue) \in Segments /\ Tail(queue) \in Seq(Segments)
      BY DEF TypeQueue
    <3> QED
      BY <1>16, <3>1, <1>0 DEF TakeSegment, TypeThreads, Goto
  <2>3. TypeQueue'
    <3>1. queue # <<>> => Head(queue) \in Segments /\ Tail(queue) \in Seq(Segments)
      BY DEF TypeQueue
    <3> QED
      BY <1>16, <3>1 DEF TakeSegment, TypeQueue
  <2>4. InHand'
    <3>1. queue # <<>> => Head(queue) \in Segments /\ Tail(queue) \in Seq(Segments)
      BY DEF TypeQueue
    <3>2. ASSUME NEW u \in Threads, u # Main PROVE pc'[u] = pc[u] /\ cmd'[u] = cmd[u]
      BY <1>16, <1>0, <3>2 DEF TakeSegment, TypeThreads, Goto
    <3>3. pc'[Main] \in {"free", "rx"}
      BY <1>16, <1>0 DEF TakeSegment, TypeThreads, Goto
    <3>4. pc'[Main] = "free" => cmd'[Main] \in Segments
      BY <1>16, <1>0, <3>1 DEF TakeSegment, TypeThreads, Goto
    <3> QED
      BY <3>2, <3>3, <3>4 DEF InHand
  <2>5. Accounts'
    <3>1. CASE pc'[Main] = "free"
      <4>1. Cardinality(Holders') = Cardinality(Holders) + 1
        BY <1>16, <3>1, <1>0, Enters DEF TakeSegment, Holding, Goto, TypeThreads
      <4>2. Len(queue') = Len(queue) - 1 /\ Len(queue) \in Nat
        BY <1>16, <3>1, <1>0 DEF TakeSegment, TypeQueue, Goto, TypeThreads
      <4> QED
        BY <1>16, <4>1, <4>2, HoldersFinite DEF Accounts, TypeQueue, TakeSegment
    <3>2. CASE pc'[Main] # "free"
      <4>1. Goto(Main, "rx") /\ UNCHANGED queue
        BY <1>16, <3>2, <1>0 DEF TakeSegment, Goto, TypeThreads
      <4>2. Cardinality(Holders') = Cardinality(Holders)
        BY <1>16, <4>1, <1>0, Stays DEF TakeSegment, Holding
      <4> QED
        BY <1>16, <4>1, <4>2 DEF Accounts, TakeSegment
    <3> QED
      BY <3>1, <3>2
  <2>6. Owned'
    BY <1>16, <1>0 DEF TypeThreads, TypeSockets, Owned, TakeSegment, tcp_check_send, Goto
  <2>7. Outstanding'
    BY <1>16, <1>0 DEF TypeThreads, TypeSockets, Owned, Outstanding, TakeSegment, tcp_check_send,
       Goto
  <2> QED
    BY <2>1, <2>2, <2>3, <2>4, <2>5, <2>6, <2>7
<1>17. CASE FreeToken
  <2>1. TypeSockets' /\ TypeFlags' /\ TypeCounts'
    BY <1>17 DEF TypeSockets, TypeFlags, TypeCounts, FreeToken
  <2>2. TypeThreads'
    BY <1>17, <1>0 DEF TypeThreads, FreeToken, Goto
  <2>3. TypeQueue'
    BY <1>17, <1>0 DEF TypeQueue, FreeToken
  <2>4. InHand'
    BY <1>17, <1>0 DEF TypeThreads, InHand, FreeToken, Goto
  <2>5. Accounts'
    <3>1. Cardinality(Holders') = Cardinality(Holders) - 1
      BY <1>17, <1>0, Leaves DEF FreeToken, Holding
    <3> QED
      BY <1>17, <3>1, HoldersFinite DEF Accounts, TypeQueue, FreeToken
  <2>6. Owned'
    BY <1>17, <1>0 DEF TypeThreads, TypeSockets, Owned, FreeToken, Goto
  <2>7. Outstanding'
    BY <1>17, <1>0 DEF TypeThreads, TypeSockets, Owned, Outstanding, FreeToken, Goto
  <2> QED
    BY <2>1, <2>2, <2>3, <2>4, <2>5, <2>6, <2>7
<1>18. CASE DropSegment
  <2>1. TypeSockets' /\ TypeFlags' /\ TypeCounts'
    BY <1>18 DEF TypeSockets, TypeFlags, TypeCounts, DropSegment
  <2>2. TypeThreads'
    BY <1>18, <1>0 DEF TypeThreads, DropSegment, Goto
  <2>3. TypeQueue'
    BY <1>18, <1>0 DEF TypeQueue, DropSegment
  <2>4. InHand'
    BY <1>18, <1>0 DEF TypeThreads, InHand, DropSegment, Goto
  <2>5. Accounts'
    <3>1. Cardinality(Holders') = Cardinality(Holders) - 1
      BY <1>18, <1>0, Leaves DEF DropSegment, Holding
    <3> QED
      BY <1>18, <3>1, HoldersFinite DEF Accounts, TypeQueue, DropSegment
  <2>6. Owned'
    BY <1>18, <1>0 DEF TypeThreads, TypeSockets, Owned, DropSegment, Goto
  <2>7. Outstanding'
    BY <1>18, <1>0 DEF TypeThreads, TypeSockets, Owned, Outstanding, DropSegment, Goto
  <2> QED
    BY <2>1, <2>2, <2>3, <2>4, <2>5, <2>6, <2>7
<1>19. CASE SendSegment
  <2>1. TypeQueue'
    BY <1>19 DEF TypeQueue, SendSegment, tcp_check_send
  <2>2. TypeThreads'
    BY <1>19, <1>0 DEF TypeThreads, SendSegment, tcp_check_send, Goto
  <2>3. TypeSockets'
    BY <1>19, <1>0 DEF TypeSockets, SendSegment, tcp_check_send
  <2>4. TypeFlags'
    BY <1>19, <1>0 DEF TypeFlags, SendSegment, tcp_check_send
  <2>5. TypeCounts'
    <3>1. cmd[Main] \in Segments
      BY <1>19 DEF SendSegment, InHand
    <3> QED
      BY <1>19, <3>1 DEF TypeCounts, SendSegment
  <2>6. InHand'
    BY <1>19, <1>0 DEF TypeThreads, InHand, SendSegment, tcp_check_send, Goto
  <2>7. Accounts'
    <3>1. Cardinality(Holders') = Cardinality(Holders)
      BY <1>19, <1>0, Stays DEF SendSegment, tcp_check_send, Holding
    <3> QED
      BY <1>19, <3>1 DEF Accounts, SendSegment, tcp_check_send
  <2>8. Owned'
    BY <1>19, <1>0 DEF TypeThreads, TypeSockets, Owned, SendSegment, tcp_check_send, Goto
  <2>9. Outstanding'
    BY <1>19, <1>0 DEF TypeThreads, TypeSockets, Owned, Outstanding, SendSegment, tcp_check_send,
       Goto
  <2> QED
    BY <2>1, <2>2, <2>3, <2>4, <2>5, <2>6, <2>7, <2>8, <2>9
<1>20. CASE NoAnswer
  <2>1. TypeQueue' /\ TypeSockets' /\ TypeFlags' /\ TypeCounts'
    BY <1>20 DEF TypeQueue, TypeSockets, TypeFlags, TypeCounts, NoAnswer
  <2>2. TypeThreads'
    BY <1>20, <1>0 DEF TypeThreads, NoAnswer, Goto
  <2>3. InHand'
    BY <1>20, <1>0 DEF TypeThreads, InHand, NoAnswer, Goto
  <2>4. Accounts'
    <3>1. Cardinality(Holders') = Cardinality(Holders)
      BY <1>20, <1>0, Stays DEF NoAnswer, Holding
    <3> QED
      BY <1>20, <3>1 DEF Accounts, NoAnswer
  <2>5. Owned'
    BY <1>20, <1>0 DEF TypeThreads, TypeSockets, Owned, NoAnswer, Goto
  <2>6. Outstanding'
    BY <1>20, <1>0 DEF TypeThreads, TypeSockets, Owned, Outstanding, NoAnswer, Goto
  <2> QED
    BY <2>1, <2>2, <2>3, <2>4, <2>5, <2>6
<1>21. ASSUME NEW s \in Sockets, Opened(s) PROVE Inv'
  <2>1. TypeThreads' /\ TypeQueue' /\ InHand' /\ Accounts'
    BY <1>21, Keeps DEF TypeThreads, TypeQueue, InHand, Accounts, Opened
  <2>2. TypeSockets'
    BY <1>21, <1>0 DEF TypeSockets, Opened
  <2>3. TypeFlags'
    BY <1>21, <1>0 DEF TypeFlags, Opened
  <2>4. TypeCounts'
    BY <1>21, <1>0 DEF TypeCounts, Opened
  <2>5. Owned'
    BY <1>21, <1>0 DEF TypeThreads, TypeSockets, Owned, Opened
  <2>6. Outstanding'
    BY <1>21, <1>0 DEF TypeThreads, TypeSockets, Owned, Outstanding, Opened
  <2> QED
    BY <2>1, <2>2, <2>3, <2>4, <2>5, <2>6
<1>22. ASSUME NEW s \in Sockets, Acknowledged(s) PROVE Inv'
  <2>1. TypeThreads' /\ TypeQueue' /\ TypeCounts' /\ InHand' /\ Accounts' /\ Owned'
    BY <1>22, Keeps DEF TypeThreads, TypeQueue, TypeCounts, InHand, Accounts, Owned, Acknowledged
  <2>2. TypeSockets'
    BY <1>22, <1>0 DEF TypeSockets, Acknowledged
  <2>3. TypeFlags'
    BY <1>22, <1>0 DEF TypeFlags, Acknowledged
  <2>4. Outstanding'
    BY <1>22, <1>0 DEF TypeThreads, TypeSockets, Owned, Outstanding, Acknowledged
  <2> QED
    BY <2>1, <2>2, <2>3, <2>4
<1>23. ASSUME NEW s \in Sockets, Lost(s) PROVE Inv'
  <2>1. TypeThreads' /\ TypeQueue' /\ TypeFlags' /\ InHand' /\ Accounts'
    BY <1>23, Keeps DEF TypeThreads, TypeQueue, TypeFlags, InHand, Accounts, Lost, Event
  <2>2. TypeSockets'
    BY <1>23, <1>0 DEF TypeSockets, Lost, Event
  <2>3. TypeCounts'
    BY <1>23, <1>0 DEF TypeCounts, Lost, Event
  <2>4. Owned'
    BY <1>23, <1>0 DEF TypeThreads, TypeSockets, Owned, Lost, Event
  <2>5. Outstanding'
    BY <1>23, <1>0 DEF TypeThreads, TypeSockets, Owned, Outstanding, Lost, Event
  <2> QED
    BY <2>1, <2>2, <2>3, <2>4, <2>5
<1>24. CASE ChangeServiceEndpoint
  <2>1. TypeThreads' /\ TypeQueue' /\ TypeFlags' /\ InHand' /\ Accounts'
    BY <1>24, Keeps DEF TypeThreads, TypeQueue, TypeFlags, InHand, Accounts,
       ChangeServiceEndpoint, Event, tcp_abort
  <2>2. TypeSockets'
    BY <1>24, <1>0 DEF TypeSockets, ChangeServiceEndpoint, Event, tcp_abort
  <2>3. TypeCounts'
    BY <1>24, <1>0 DEF TypeCounts, ChangeServiceEndpoint, Event, tcp_abort
  <2>4. Owned'
    BY <1>24, <1>0 DEF TypeThreads, TypeSockets, Owned, ChangeServiceEndpoint, Event, tcp_abort
  <2>5. Outstanding'
    BY <1>24, <1>0 DEF TypeThreads, TypeSockets, Owned, Outstanding, ChangeServiceEndpoint,
       Event, tcp_abort
  <2> QED
    BY <2>1, <2>2, <2>3, <2>4, <2>5
<1>25. CASE LinkDown
  <2>1. TypeThreads' /\ TypeQueue' /\ TypeSockets' /\ InHand' /\ Accounts' /\ Owned' /\ Outstanding'
    BY <1>25, Keeps DEF TypeThreads, TypeQueue, TypeSockets, InHand, Accounts, Owned,
       Outstanding, LinkDown, Event
  <2>2. TypeFlags'
    BY <1>25, <1>0 DEF TypeFlags, LinkDown, Event
  <2>3. TypeCounts'
    BY <1>25, <1>0 DEF TypeCounts, LinkDown, Event
  <2> QED
    BY <2>1, <2>2, <2>3
<1>26. CASE LinkUp
  <2>1. TypeThreads' /\ TypeQueue' /\ TypeSockets' /\ TypeCounts' /\ InHand' /\ Accounts' /\ Owned' /\ Outstanding'
    BY <1>26, Keeps DEF TypeThreads, TypeQueue, TypeSockets, TypeCounts, InHand, Accounts, Owned,
       Outstanding, LinkUp
  <2>2. TypeFlags'
    BY <1>26, <1>0 DEF TypeFlags, LinkUp
  <2> QED
    BY <2>1, <2>2
<1>27. CASE UNCHANGED vars
  <2>1. TypeThreads' /\ TypeQueue' /\ TypeSockets' /\ TypeFlags' /\ TypeCounts' /\ InHand' /\ Accounts' /\ Owned' /\ Outstanding'
    BY <1>27, Keeps DEF TypeThreads, TypeQueue, TypeSockets, TypeFlags, TypeCounts, InHand,
       Accounts, Owned, Outstanding, vars
  <2> QED
    BY <2>1
<1> QED
  BY <1>1, <1>2, <1>3, <1>4, <1>5, <1>6, <1>7, <1>8, <1>9, <1>10, <1>11, <1>12, <1>13, <1>14,
     <1>15, <1>16, <1>17, <1>18, <1>19, <1>20, <1>21, <1>22, <1>23, <1>24, <1>25, <1>26, <1>27
  DEF Next, Step, TcpProcessor, Stack, Outside

(***************************************************************************)
(* The theorems.                                                           *)
(***************************************************************************)

\* SendData, AbortConnection and TcpProcessor keep the accounts and the ownership of the
\* socket in any interleaving (TcpClient.cpp:209-434).
THEOREM Invariance == Spec => []Inv
<1>1. Inv /\ [Next]_vars => Inv'
  BY InvNext
<1> QED
  BY InvInit, <1>1, PTL DEF Spec

\* Every variable keeps its type; the semaphore never counts more than the queue holds.
THEOREM TypeCorrect == Spec => []TypeOK
<1>1. Inv => TypeOK
  <2> SUFFICES ASSUME Inv PROVE TypeOK
    OBVIOUS
  <2>1. Len(queue) \in Nat
    BY DEF Inv, TypeQueue
  <2>2. tokens \in 0..Capacity
    BY <2>1, HoldersFinite, TcpFlowAssumption DEF Inv, TypeQueue, Accounts
  <2> QED
    BY <2>2 DEF Inv, TypeThreads, TypeQueue, TypeSockets, TypeFlags, TypeCounts, TypeOK, Labels
<1> QED
  BY Invariance, <1>1, PTL

\* osMailAlloc (TcpClient.cpp:417) never waits, whoever sends, drains and aborts.
THEOREM NobodyBlocks == Spec => []NeverBlocks
<1>1. Inv => NeverBlocks
  BY Room DEF Inv, NeverBlocks
<1> QED
  BY Invariance, <1>1, PTL

\* No socket is lost as long as one thread at a time aborts (TcpClient.cpp:332-358).
THEOREM SocketsAreKnown == Spec => []NoSocketLost
<1>1. Inv => NoSocketLost
  BY DEF Inv, Owned, NoSocketLost
<1> QED
  BY Invariance, <1>1, PTL

\* The wait of TxProcessor (TcpClient.cpp:235) is never one for an acknowledgement.
THEOREM NoWaitForAck == Spec => []WaitsForNoAck
<1>1. Inv => WaitsForNoAck
  BY DEF Inv, Outstanding, WaitsForNoAck, tcp_check_send
<1> QED
  BY Invariance, <1>1, PTL
-----------------------------------------------------------------------------
(* What the server sees. A segment on its way is in the queue, in the hand *)
(* of the main thread, or in the stream; the invariant says that each of   *)
(* these continues the one before it, and a thread in SendData the last.   *)

\* before the first segment of a connection a command is as good as complete
Nothing == [id |-> 0, seg |-> 0, last |-> TRUE]

Follows(a, b) == IF b.seg = 1 THEN a.last ELSE ~a.last /\ a.id = b.id /\ a.seg = b.seg - 1

\* the segments of s one after the other, behind a
Linked(a, s) == \A i \in 1..Len(s) : Follows(IF i = 1 THEN a ELSE s[i - 1], s[i])
End(a, s) == IF s = <<>> THEN a ELSE s[Len(s)]

InSend == pc[Main] \in {"free", "send"}

Streamed == End(Nothing, stream)
Taken == IF InSend THEN cmd[Main] ELSE Streamed
Queued == End(Taken, queue)

\* the next segment of a command continues what is queued
Continues(a, c) == IF c.next = 1 THEN a.last ELSE ~a.last /\ a.id = c.id /\ a.seg = c.next - 1

StreamInv ==
  clean => /\ Linked(Nothing, stream)
           /\ InSend => Follows(Streamed, cmd[Main])
           /\ Linked(Taken, queue)
           /\ \A t \in Threads : pc[t] \in Sending => Continues(Queued, cmd[t])
           /\ \A t, u \in Threads : pc[t] \in Sending /\ pc[u] \in Sending => t = u
           /\ \A t \in Threads : pc[t] \notin Aborting
           /\ (\A t \in Threads : pc[t] \notin Sending) => Queued.last

LEMMA LinkedAppend ==
  ASSUME NEW a, NEW S, NEW s \in Seq(S), NEW b \in S, Linked(a, s), Follows(End(a, s), b)
  PROVE  Linked(a, Append(s, b)) /\ End(a, Append(s, b)) = b
<1> DEFINE q == Append(s, b)
<1>1. Len(q) = Len(s) + 1 /\ Len(s) \in Nat /\ q # <<>> /\ q[Len(q)] = b
  OBVIOUS
<1>2. \A i \in 1..Len(s) : q[i] = s[i]
  OBVIOUS
<1>3. ASSUME NEW i \in 1..Len(q) PROVE Follows(IF i = 1 THEN a ELSE q[i - 1], q[i])
  <2>1. CASE i \in 1..Len(s)
    <3>1. i # 1 => i - 1 \in 1..Len(s)
      BY <2>1, <1>1
    <3>2. q[i] = s[i] /\ (i # 1 => q[i - 1] = s[i - 1])
      BY <2>1, <3>1, <1>2
    <3>3. Follows(IF i = 1 THEN a ELSE s[i - 1], s[i])
      BY <2>1 DEF Linked
    <3> HIDE DEF q
    <3> QED
      BY <3>2, <3>3
  <2>2. CASE i = Len(s) + 1 /\ s = <<>>
    <3>1. i = 1
      BY <2>2
    <3>2. q[i] = b
      BY <2>2, <1>1
    <3> HIDE DEF q
    <3> QED
      BY <2>2, <3>1, <3>2 DEF End
  <2>3. CASE i = Len(s) + 1 /\ s # <<>>
    <3>1. i # 1 /\ i - 1 = Len(s) /\ Len(s) \in 1..Len(s)
      BY <2>3
    <3>2. q[i] = b /\ q[i - 1] = s[Len(s)]
      BY <2>3, <3>1, <1>1, <1>2
    <3> HIDE DEF q
    <3> QED
      BY <2>3, <3>1, <3>2 DEF End
  <2> QED
    BY <1>1, <2>1, <2>2, <2>3
<1>4. Linked(a, q)
  BY <1>3 DEF Linked
<1>5. End(a, q) = b
  BY <1>1 DEF End
<1> QED
  BY <1>4, <1>5

LEMMA LinkedTail ==
  ASSUME NEW a, NEW S, NEW s \in Seq(S), s # <<>>, Linked(a, s)
  PROVE  Follows(a, Head(s)) /\ Linked(Head(s), Tail(s)) /\ End(Head(s), Tail(s)) = End(a, s)
<1> DEFINE q == Tail(s)
<1>1. Len(q) = Len(s) - 1 /\ Len(s) \in Nat \ {0} /\ Head(s) = s[1]
  OBVIOUS
<1>2. \A i \in 1..Len(q) : q[i] = s[i + 1]
  OBVIOUS
<1>3. Follows(a, Head(s))
  BY <1>1 DEF Linked
<1>4. ASSUME NEW i \in 1..Len(q) PROVE Follows(IF i = 1 THEN Head(s) ELSE q[i - 1], q[i])
  <2>1. i + 1 \in 1..Len(s) /\ i + 1 # 1 /\ (i + 1) - 1 = i
    BY <1>1
  <2>2. Follows(s[i], s[i + 1])
    BY <2>1 DEF Linked
  <2>3. i # 1 => q[i - 1] = s[i]
    BY <1>1, <1>2
  <2>4. q[i] = s[i + 1]
    BY <1>2
  <2> HIDE DEF q
  <2> QED
    BY <1>1, <2>2, <2>3, <2>4
<1>5. Linked(Head(s), q)
  BY <1>4 DEF Linked
<1>6. End(Head(s), q) = End(a, s)
  <2>1. CASE q = <<>>
    <3>1. Len(s) = 1
      BY <2>1, <1>1
    <3> QED
      BY <2>1, <3>1, <1>1 DEF End
  <2>2. CASE q # <<>>
    <3>1. Len(q) \in 1..Len(q) /\ Len(q) + 1 = Len(s)
      BY <2>2, <1>1
    <3>2. q[Len(q)] = s[Len(s)]
      BY <3>1, <1>2
    <3> HIDE DEF q
    <3> QED
      BY <2>2, <3>2 DEF End
  <2> QED
    BY <2>1, <2>2
<1> QED
  BY <1>3, <1>5, <1>6

\* steps after which everything is as it was, as far as StreamInv goes
LEMMA Aside ==
  ASSUME StreamInv, UNCHANGED <<cmd, queue, stream>>, clean' => clean,
         \A t \in Threads : /\ pc'[t] \in Sending <=> pc[t] \in Sending
                            /\ pc'[t] \in Aborting => pc[t] \in Aborting,
         InSend' <=> InSend
  PROVE  StreamInv'
<1>1. CASE ~clean'
  BY <1>1 DEF StreamInv
<1>2. CASE clean'
  <2>1. Streamed' = Streamed /\ Taken' = Taken /\ Queued' = Queued
    BY DEF Streamed, Taken, Queued
  <2> QED
    BY <1>2, <2>1 DEF StreamInv
<1> QED
  BY <1>1, <1>2

LEMMA StreamInit == Init => StreamInv
BY DEF Init, StreamInv

LEMMA StreamNext == Inv /\ StreamInv /\ [Next]_vars => StreamInv'
<1> SUFFICES ASSUME Inv, StreamInv, [Next]_vars PROVE StreamInv'
  OBVIOUS
<1> USE DEF clientVars, queueVars, stackVars
<1>0. Main \in Threads /\ TypeThreads /\ queue \in Seq(Segments) /\ stream \in Seq(Segments)
  BY DEF Threads, Inv, TypeQueue, TypeCounts
<1>1. ASSUME NEW t \in Threads, SendData(t) PROVE StreamInv'
  <2>1. CASE ~clean'
    BY <2>1 DEF StreamInv
  <2>2. CASE clean'
    <3>1. clean /\ NobodySends
      BY <1>1, <2>2 DEF SendData
    <3>2. /\ pc' = [pc EXCEPT ![t] = "semaphore"] /\ pc[t] = IF t = Main THEN "rx" ELSE "idle"
          /\ queue' = queue /\ stream' = stream
      BY <1>1 DEF SendData, Goto
    <3>3. PICK n \in 1..MaxSegments :
            cmd' = [cmd EXCEPT ![t] = [id |-> sent', segs |-> n, next |-> 1]]
      BY <1>1 DEF SendData
    <3>4. (InSend' <=> InSend) /\ (InSend => cmd'[Main] = cmd[Main])
      BY <1>0, <3>2, <3>3 DEF InSend, TypeThreads
    <3>5. Streamed' = Streamed /\ Taken' = Taken /\ Queued' = Queued
      BY <3>2, <3>4 DEF Streamed, Taken, Queued
    <3>6. Queued.last
      BY <3>1 DEF StreamInv, NobodySends
    <3>7. cmd'[t].next = 1
      BY <3>3 DEF TypeThreads, Inv
    <3>8. Continues(Queued, cmd'[t])
      BY <3>6, <3>7 DEF Continues
    <3>9. \A u \in Threads : pc'[u] \in Sending <=> u = t
      BY <1>0, <3>1, <3>2 DEF TypeThreads, NobodySends, Sending
    <3>10. \A u \in Threads : pc'[u] \notin Aborting
      BY <1>0, <3>1, <3>2 DEF TypeThreads, NobodySends, Aborting
    <3> QED
      BY <3>1, <3>2, <3>4, <3>5, <3>8, <3>9, <3>10 DEF StreamInv
  <2> QED
    BY <2>1, <2>2
<1>2. ASSUME NEW t \in Threads, TakeToken(t) PROVE StreamInv'
  BY <1>0, <1>2, Aside DEF TakeToken, Goto, TypeThreads, Sending, Aborting, InSend
<1>3. ASSUME NEW t \in Threads, GiveUp(t) PROVE StreamInv'
  BY <1>3 DEF GiveUp, BeginAbort, StreamInv
<1>4. ASSUME NEW t \in Threads, PutSegment(t) PROVE StreamInv'
  <2> DEFINE c == cmd[t]
             b == [id |-> c.id, seg |-> c.next, last |-> c.next = c.segs]
  <2>1. CASE ~clean'
    BY <2>1 DEF StreamInv
  <2>2. CASE clean'
    <3>1. clean /\ stream' = stream /\ pc[t] = "alloc" /\ queue' = Append(queue, b)
      BY <1>4, <2>2 DEF PutSegment
    <3>2. /\ cmd' = [cmd EXCEPT ![t] = IF c.next = c.segs THEN None ELSE [c EXCEPT !.next = @ + 1]]
          /\ pc' = [pc EXCEPT ![t] = IF c.next = c.segs THEN Idle(t) ELSE "semaphore"]
      BY <1>4 DEF PutSegment, Goto
    <3>3. c \in Commands /\ c.next <= c.segs
      BY <3>1 DEF Inv, InHand, Sending
    <3>4. b \in Segments
      BY <3>3 DEF Commands, Segments
    <3>5. Continues(Queued, c) /\ Linked(Taken, queue)
      BY <3>1 DEF StreamInv, Sending
    <3>6. Follows(Queued, b)
      BY <3>5 DEF Continues, Follows
    <3>7. Linked(Taken, queue') /\ End(Taken, queue') = b
      <4> HIDE DEF b
      <4> QED
        BY <1>0, <3>1, <3>4, <3>5, <3>6, LinkedAppend DEF Queued
    <3>8. (InSend' <=> InSend) /\ (InSend => cmd'[Main] = cmd[Main])
      BY <1>0, <3>1, <3>2 DEF InSend, TypeThreads, Idle
    <3>9. Streamed' = Streamed /\ Taken' = Taken
      BY <3>1, <3>8 DEF Streamed, Taken
    <3>10. Queued' = b
      BY <3>7, <3>9 DEF Queued
    <3>11. \A u \in Threads : pc'[u] \in Sending <=> u = t /\ c.next # c.segs
      BY <1>0, <3>1, <3>2 DEF TypeThreads, StreamInv, Sending, Idle
    <3>12. \A u \in Threads : pc'[u] \notin Aborting
      BY <1>0, <3>1, <3>2 DEF TypeThreads, StreamInv, Aborting, Idle
    <3>13. c.next # c.segs => Continues(Queued', cmd'[t])
      <4> SUFFICES ASSUME c.next # c.segs PROVE Continues(Queued', cmd'[t])
        OBVIOUS
      <4>1. cmd'[t] = [c EXCEPT !.next = c.next + 1]
        BY <3>2 DEF TypeThreads, Inv
      <4>2. cmd'[t].next = c.next + 1 /\ cmd'[t].id = c.id /\ c.next \in 1..MaxSegments
        BY <4>1, <3>3 DEF Commands
      <4>3. Queued'.id = c.id /\ Queued'.seg = c.next /\ ~Queued'.last
        BY <3>10
      <4>4. cmd'[t].next # 1 /\ cmd'[t].next - 1 = c.next
        BY <4>2, TcpFlowAssumption
      <4> HIDE DEF c
      <4> QED
        BY <4>2, <4>3, <4>4 DEF Continues
    <3>14. c.next = c.segs => Queued'.last
      BY <3>10
    <3> QED
      BY <3>1, <3>7, <3>8, <3>9, <3>11, <3>12, <3>13, <3>14 DEF StreamInv
  <2> QED
    BY <2>1, <2>2
<1>5. ASSUME NEW t \in Threads, pc[t] \in Aborting, UNCHANGED clean PROVE StreamInv'
  BY <1>5 DEF StreamInv
<1>6. CASE Processor \/ GetSocket \/ Connect \/ Pending \/ Established \/ FreeToken \/ NoAnswer
  BY <1>0, <1>6, Aside
  DEF Processor, GetSocket, Connect, Pending, Established, FreeToken, NoAnswer, Goto, TypeThreads,
      Sending, Aborting, InSend
<1>7. CASE LinkIsDown
  <2>1. CASE ~clean'
    BY <2>1 DEF StreamInv
  <2>2. CASE Goto(Main, "net_main") /\ UNCHANGED clean
    BY <1>0, <1>7, <2>2, Aside
    DEF LinkIsDown, Goto, TypeThreads, Sending, Aborting, InSend
  <2> QED
    BY <1>7, <2>1, <2>2 DEF LinkIsDown, BeginAbort
<1>8. CASE TakeSegment
  <2>1. CASE ~clean'
    BY <2>1 DEF StreamInv
  <2>2. CASE Goto(Main, "rx") /\ UNCHANGED <<cmd, queue>>
    BY <1>0, <1>8, <2>2, Aside
    DEF TakeSegment, Goto, TypeThreads, Sending, Aborting, InSend
  <2>3. CASE clean' /\ queue # <<>> /\ Goto(Main, "free") /\ queue' = Tail(queue)
             /\ cmd' = [cmd EXCEPT ![Main] = Head(queue)]
    <3>1. clean /\ stream' = stream /\ pc[Main] = "tx"
      BY <1>8, <2>3 DEF TakeSegment
    <3>2. pc' = [pc EXCEPT ![Main] = "free"]
      BY <2>3 DEF Goto
    <3>3. InSend' /\ ~InSend
      BY <1>0, <3>1, <3>2 DEF InSend, TypeThreads
    <3>4. Streamed' = Streamed /\ Taken = Streamed /\ Taken' = Head(queue) /\ cmd'[Main] = Head(queue)
      BY <1>0, <2>3, <3>1, <3>3 DEF Streamed, Taken, TypeThreads
    <3>5. Linked(Taken, queue)
      BY <3>1 DEF StreamInv
    <3>6. Follows(Taken, Head(queue)) /\ Linked(Head(queue), queue') /\ End(Head(queue), queue') = Queued
      BY <1>0, <2>3, <3>5, LinkedTail DEF Queued
    <3>7. Queued' = Queued
      BY <3>4, <3>6 DEF Queued
    <3>8. \A u \in Threads : /\ pc'[u] \in Sending <=> pc[u] \in Sending
                             /\ pc'[u] \notin Aborting
                             /\ pc[u] \in Sending => cmd'[u] = cmd[u]
      BY <1>0, <2>3, <3>1, <3>2 DEF TypeThreads, StreamInv, Sending, Aborting
    <3> QED
      BY <3>1, <3>3, <3>4, <3>6, <3>7, <3>8 DEF StreamInv
  <2> QED
    BY <1>8, <2>1, <2>2, <2>3 DEF TakeSegment
<1>9. CASE SendSegment
  <2>1. CASE ~clean'
    BY <2>1 DEF StreamInv
  <2>2. CASE clean'
    <3>1. /\ clean /\ pc[Main] = "send" /\ queue' = queue
          /\ stream' = Append(stream, cmd[Main])
          /\ cmd' = [cmd EXCEPT ![Main] = None]
          /\ pc' = [pc EXCEPT ![Main] = "rx"]
      BY <1>9, <2>2 DEF SendSegment, Goto
    <3>2. InSend /\ ~InSend'
      BY <1>0, <3>1 DEF InSend, TypeThreads
    <3>3. cmd[Main] \in Segments /\ Follows(Streamed, cmd[Main]) /\ Linked(Nothing, stream)
      BY <3>1, <3>2 DEF StreamInv, Inv, InHand
    <3>4. Linked(Nothing, stream') /\ Streamed' = cmd[Main]
      BY <1>0, <3>1, <3>3, LinkedAppend DEF Streamed
    <3>5. Taken' = Taken /\ Queued' = Queued
      BY <3>1, <3>2, <3>4 DEF Taken, Queued
    <3>6. \A u \in Threads : /\ pc'[u] \in Sending <=> pc[u] \in Sending
                             /\ pc'[u] \notin Aborting
                             /\ pc[u] \in Sending => cmd'[u] = cmd[u]
      BY <1>0, <3>1 DEF TypeThreads, StreamInv, Sending, Aborting
    <3> QED
      BY <3>1, <3>2, <3>4, <3>5, <3>6 DEF StreamInv
  <2> QED
    BY <2>1, <2>2
<1>10. ASSUME NEW s \in Sockets, Opened(s) PROVE StreamInv'
  <2>1. CASE ~clean'
    BY <2>1 DEF StreamInv
  <2>2. CASE clean'
    <3>1. /\ queue = <<>> /\ NobodySends /\ pc[Main] = "net_main"
          /\ stream' = <<>> /\ queue' = queue /\ pc' = pc /\ cmd' = cmd
      BY <1>10, <2>2 DEF Opened
    <3>2. ~InSend' /\ Streamed' = Nothing /\ Taken' = Nothing /\ Queued' = Nothing
      BY <3>1 DEF InSend, Streamed, Taken, Queued, End
    <3>3. Linked(Nothing, <<>>) /\ Nothing.last
      BY DEF Linked, Nothing
    <3> QED
      BY <3>1, <3>2, <3>3 DEF StreamInv, NobodySends
  <2> QED
    BY <2>1, <2>2
<1>11. ASSUME NEW s \in Sockets, Acknowledged(s) \/ Lost(s) PROVE StreamInv'
  BY <1>11, Aside DEF Acknowledged, Lost, Event, InSend
<1>12. CASE Outside
  BY <1>12, Aside DEF Outside, ChangeServiceEndpoint, LinkDown, LinkUp, InSend
<1>13. CASE UNCHANGED vars
  BY <1>13, Aside DEF vars, InSend
<1>14. ASSUME NEW t \in Threads, DrainMail(t) \/ DrainToken(t) \/ Abort(t) \/ Release(t) \/ SetNull(t)
       PROVE  StreamInv'
  BY <1>5, <1>14 DEF DrainMail, DrainToken, Abort, Release, SetNull, Aborting
<1>15. CASE DropSegment
  BY <1>15 DEF StreamInv, DropSegment
<1> QED
  BY <1>1, <1>2, <1>3, <1>4, <1>6, <1>7, <1>8, <1>9, <1>10, <1>11, <1>12, <1>13, <1>14, <1>15
  DEF Next, Step, TcpProcessor, Stack

\* What the server sees of a connection is whole commands one after the other, if none is
\* sent into another and the connection began with an empty queue (TcpFlow.StreamIsWhole).
THEOREM WholeCommandsSent == Spec => []StreamIsWhole
<1>1. Inv /\ StreamInv /\ [Next]_vars => StreamInv'
  BY StreamNext
<1>2. Inv /\ StreamInv => StreamIsWhole
  <2> SUFFICES ASSUME Inv, StreamInv, clean, NEW i \in DOMAIN stream
               PROVE  IF stream[i].seg = 1 THEN i > 1 => stream[i - 1].last
                      ELSE /\ i > 1 /\ ~stream[i - 1].last
                           /\ stream[i - 1].id = stream[i].id
                           /\ stream[i - 1].seg = stream[i].seg - 1
    BY DEF StreamIsWhole
  <2>1. i \in 1..Len(stream) /\ Len(stream) \in Nat
    BY DEF Inv, TypeCounts
  <2>2. Follows(IF i = 1 THEN Nothing ELSE stream[i - 1], stream[i])
    BY <2>1 DEF StreamInv, Linked
  <2>3. CASE i = 1
    BY <2>2, <2>3 DEF Follows, Nothing
  <2>4. CASE i # 1
    <3>1. i > 1
      BY <2>1, <2>4
    <3>2. Follows(stream[i - 1], stream[i])
      BY <2>2, <2>4
    <3> QED
      BY <3>1, <3>2 DEF Follows
  <2> QED
    BY <2>3, <2>4
<1> QED
  BY Invariance, StreamInit, <1>1, <1>2, PTL DEF Spec

-----------------------------------------------------------------------------
(* Commands from the server.  While the parser is in step, what it has     *)
(* still to read (the piece at hand, the pieces in the mail and the bytes  *)
(* on the wire) continues the commands where it is.                        *)

Bytes == 0..255
Fields == {"dataState", "readIndex", "payload", "payloadLen", "sumcheck"}
IsParser(q) ==
  /\ DOMAIN q = Fields
  /\ q.dataState \in 0..4 /\ q.readIndex \in Nat /\ q.payload \in Seq(Bytes)
  /\ q.payloadLen \in Nat /\ q.sumcheck \in Bytes

ReceiverTypes ==
  /\ wire \in Seq(Bytes) /\ mail \in Seq(Seq(Bytes)) /\ reading \in Seq(Bytes)
  /\ IsParser(parser) /\ broken = NoRoom(parser)
  /\ commands \in Seq(Payloads) /\ arrived \in Seq(Seq(Bytes)) /\ inStep \in BOOLEAN

\* a parser that has read j bytes of the command p
At(q, p, j) ==
  /\ j = 0 => q.dataState = 0
  /\ j = 1 => q.dataState = 1 /\ q.readIndex = 0
  /\ j \in 2..5 => q.dataState = 2 /\ q.readIndex = j - 2 /\ (j > 2 => q.payloadLen = Len(p))
  /\ j \in 6..5 + Len(p) => /\ q.dataState = 3 /\ q.readIndex = j - 6 /\ q.payloadLen = Len(p)
                            /\ q.payload = SubSeq(p, 1, j - 6)
  /\ j = 6 + Len(p) => q.dataState = 4 /\ q.payload = p
  /\ j >= 2 => q.sumcheck = Sums(Summed(p))[j]

\* s is what follows place a of str, up to place b
Part(s, str, a, b) == Len(s) = b - a /\ \A i \in 1..Len(s) : s[i] = str[a + i]

\* str is the commands one after the other, each from its start to the next
Laid(str, start) ==
  /\ str \in Seq(Bytes) /\ start \in [0..Len(commands) -> 0..Len(str)]
  /\ start[0] = 0 /\ start[Len(commands)] = Len(str)
  /\ \A i \in 1..Len(commands) : Part(Message(commands[i]), str, start[i - 1], start[i])

\* n bytes of it are read, the others in the pieces and on the wire
Cuts(str, n, cut) ==
  /\ n \in 0..Len(str) /\ cut \in [0..Len(mail) -> 0..Len(str)]
  /\ Part(reading, str, n, cut[0])
  /\ \A i \in 1..Len(mail) : Part(mail[i], str, cut[i - 1], cut[i])
  /\ Part(wire, str, cut[Len(mail)], Len(str))

\* with them, the commands in arrived and a part of the next
Reached(n, start) ==
  LET k == Len(arrived) IN
  /\ k \in 0..Len(commands) /\ arrived = SubSeq(commands, 1, k) /\ start[k] <= n
  /\ IF k = Len(commands) THEN parser.dataState = 0
     ELSE n < start[k + 1] /\ At(parser, commands[k + 1], n - start[k])

Continued(str, start, n, cut) == Laid(str, start) /\ Cuts(str, n, cut) /\ Reached(n, start)

ReceiverInv ==
  ReceiverTypes /\ (inStep => \E str, start, n, cut : Continued(str, start, n, cut))

-----------------------------------------------------------------------------
(* The sum of a command: induction by the least counterexample, then what  *)
(* the recursive function is.                                              *)

\* "less than" as WellFoundedInduction has it
Less == OpToRel(<, Nat)

LEMMA LeastOf ==
  ASSUME NEW T, T \subseteq Nat, T # {}
  PROVE  \E x \in T : \A y \in T : ~(y < x)
<1>1. IsWellFoundedOn(Less, Nat)
  BY NatLessThanWellFounded DEF Less
<1>2. \E x \in T : \A y \in T : ~(<<y, x>> \in Less)
  BY <1>1, WFMin
<1>3. \A y, x \in Nat : <<y, x>> \in Less <=> y < x
  BY DEF Less, OpToRel
<1> QED
  BY <1>2, <1>3

LEMMA Induction ==
  ASSUME NEW T, 0 \in T, \A n \in Nat : n \in T => n + 1 \in T
  PROVE  Nat \subseteq T
<1> SUFFICES ASSUME Nat \ T # {} PROVE FALSE
  OBVIOUS
<1>1. PICK x \in Nat \ T : \A y \in Nat \ T : ~(y < x)
  BY LeastOf
<1>2. x # 0 /\ x - 1 \in Nat /\ x - 1 < x
  BY <1>1
<1>3. x - 1 \in T
  BY <1>1, <1>2
<1> QED
  BY <1>1, <1>2, <1>3

\* a function that adds up, to n bytes
Adds(f, s, n) == f = [k \in 0..n |-> IF k = 0 THEN 0 ELSE (f[k - 1] + s[k]) % 256]

LEMMA SumsExist == ASSUME NEW s \in Seq(Bytes) PROVE \E f : Adds(f, s, Len(s))
<1> DEFINE T == {n \in Nat : \E f : Adds(f, s, n)}
<1>1. 0 \in T
  <2>1. Adds([k \in 0..0 |-> 0], s, 0)
    BY DEF Adds
  <2> QED
    BY <2>1
<1>2. ASSUME NEW n \in Nat, n \in T PROVE n + 1 \in T
  <2>1. PICK f : Adds(f, s, n)
    BY <1>2
  <2> DEFINE g == [k \in 0..n + 1 |-> IF k = 0 THEN 0 ELSE (f[k - 1] + s[k]) % 256]
  <2>2. \A k \in 0..n : g[k] = f[k]
    BY <2>1 DEF Adds
  <2>3. Adds(g, s, n + 1)
    <3>1. \A k \in 0..n + 1 : k # 0 => g[k - 1] = f[k - 1]
      <4> HIDE DEF g
      <4>1. \A k \in 0..n + 1 : k # 0 => k - 1 \in 0..n
        OBVIOUS
      <4> QED
        BY <2>2, <4>1
    <3> QED
      BY <3>1 DEF Adds
  <2> QED
    BY <2>3
<1>3. Nat \subseteq T
  <2> HIDE DEF T
  <2> QED
    BY <1>1, <1>2, Induction
<1> QED
  BY <1>3

LEMMA SumsAdd ==
  ASSUME NEW s \in Seq(Bytes)
  PROVE  /\ Sums(s)[0] = 0
         /\ \A k \in 1..Len(s) : Sums(s)[k] = (Sums(s)[k - 1] + s[k]) % 256
         /\ \A k \in 0..Len(s) : Sums(s)[k] \in Bytes
<1>1. Adds(Sums(s), s, Len(s))
  BY SumsExist DEF Adds, Sums
<1>2. Len(s) \in Nat /\ \A k \in 1..Len(s) : s[k] \in Bytes
  OBVIOUS
<1>3. /\ Sums(s)[0] = 0
      /\ \A k \in 1..Len(s) : Sums(s)[k] = (Sums(s)[k - 1] + s[k]) % 256
  BY <1>1, <1>2 DEF Adds
<1> DEFINE T == {n \in Nat : n <= Len(s) => Sums(s)[n] \in Bytes}
<1>4. 0 \in T
  BY <1>3 DEF Bytes
<1>5. ASSUME NEW n \in Nat, n \in T PROVE n + 1 \in T
  <2> SUFFICES ASSUME n + 1 <= Len(s) PROVE Sums(s)[n + 1] \in Bytes
    OBVIOUS
  <2>1. n + 1 \in 1..Len(s) /\ n <= Len(s) /\ n + 1 - 1 = n
    BY <1>2
  <2>2. PICK a \in Bytes, b \in Bytes : Sums(s)[n] = a /\ s[n + 1] = b
    BY <1>2, <1>5, <2>1
  <2>3. Sums(s)[n + 1] = (a + b) % 256
    BY <1>3, <2>1, <2>2
  <2>4. (a + b) % 256 \in Bytes
    BY DEF Bytes
  <2> QED
    BY <2>3, <2>4
<1>6. Nat \subseteq T
  <2> HIDE DEF T
  <2> QED
    BY <1>4, <1>5, Induction
<1> QED
  BY <1>2, <1>3, <1>6

LEMMA SummedIs ==
  ASSUME NEW p \in Payloads
  PROVE  /\ p \in Seq(Bytes) /\ Len(p) \in 1..255
         /\ Summed(p) \in Seq(Bytes) /\ Len(Summed(p)) = 6 + Len(p)
         /\ Summed(p)[1] = 170 /\ Summed(p)[2] = 68 /\ Summed(p)[3] = Len(p)
         /\ \A i \in 4..6 : Summed(p)[i] = 0
         /\ \A i \in 1..Len(p) : Summed(p)[6 + i] = p[i]
<1>1. p \in Seq(Bytes) /\ Len(p) \in 1..255
  BY CommandStreamAssumption DEF Bytes
<1> DEFINE h == <<170, 68, Len(p), 0, 0, 0>>
<1>2. <<DataHeader[1], DataHeader[2], Len(p), 0, 0, 0>> = h
  BY DEF DataHeader
<1>3. h \in Seq(Bytes) /\ Len(h) = 6
  BY <1>1 DEF Bytes
<1>4. Summed(p) = h \o p
  BY <1>2 DEF Summed
<1> QED
  BY <1>1, <1>3, <1>4

LEMMA MessageIs ==
  ASSUME NEW p \in Payloads
  PROVE  /\ Message(p) \in Seq(Bytes) /\ Len(Message(p)) = 7 + Len(p)
         /\ \A i \in 1..6 + Len(p) : Message(p)[i] = Summed(p)[i]
         /\ Message(p)[7 + Len(p)] = Sums(Summed(p))[6 + Len(p)]
<1>1. /\ Summed(p) \in Seq(Bytes) /\ Len(Summed(p)) = 6 + Len(p) /\ Len(p) \in Nat
      /\ Sums(Summed(p))[6 + Len(p)] \in Bytes
  BY SummedIs, SumsAdd
<1> QED
  BY <1>1 DEF Message

\* What a byte does to the variables of the parser, by the state it is in.
LEMMA Headers ==
  ASSUME NEW q, IsParser(q), NEW b \in Bytes, NEW n, n = Read(q, b)
  PROVE  /\ q.dataState \in {0, 1} => IsParser(n)
         /\ q.dataState = 0 /\ b = 170 => n.dataState = 1 /\ n.readIndex = 0
         /\ q.dataState = 1 /\ b = 68 =>
              n.dataState = 2 /\ n.readIndex = q.readIndex /\ n.sumcheck = 238
<1>1. CASE q.dataState = 0
  <2>1. n = IF b = 170 THEN [q EXCEPT !.dataState = 1, !.payloadLen = 0, !.readIndex = 0] ELSE q
    BY <1>1 DEF Read, Header0, DataHeader
  <2> QED
    BY <1>1, <2>1 DEF IsParser, Fields
<1>2. CASE q.dataState = 1
  <2>1. PICK d \in 0..4 : d = IF b = 68 THEN 2 ELSE 0
    OBVIOUS
  <2>2. n = [q EXCEPT !.dataState = d, !.sumcheck = 238]
    BY <1>2, <2>1 DEF Read, Header1, DataHeader
  <2>3. 238 \in Bytes
    BY DEF Bytes
  <2> QED
    BY <1>2, <2>1, <2>2, <2>3 DEF IsParser, Fields
<1> QED
  BY <1>1, <1>2

LEMMA Lengths ==
  ASSUME NEW q, IsParser(q), NEW b \in Bytes, NEW n, n = Read(q, b), q.dataState = 2
  PROVE  /\ IsParser(n)
         /\ n.dataState = (IF q.readIndex = 3 THEN 3 ELSE 2)
         /\ n.readIndex = (q.readIndex + 1) % 4
         /\ n.payloadLen = (IF q.readIndex = 0 THEN b ELSE IF b = 0 THEN q.payloadLen ELSE 256)
         /\ n.payload = <<>>
         /\ n.sumcheck = (q.sumcheck + b) % 256
<1>1. PICK x \in Bytes, k \in Nat, l \in Nat :
        q.sumcheck = x /\ q.readIndex = k /\ q.payloadLen = l
  BY DEF IsParser
<1>2. PICK d \in 0..4 : d = IF k = 3 THEN 3 ELSE 2
  OBVIOUS
<1>3. PICK r \in Nat : r = (k + 1) % 4
  OBVIOUS
<1>4. PICK m \in Nat : m = IF k = 0 THEN b ELSE IF b = 0 THEN l ELSE 256
  BY DEF Bytes
<1>5. PICK s \in Bytes : s = (x + b) % 256
  BY DEF Bytes
<1>6. n = [q EXCEPT !.sumcheck = s, !.payloadLen = m, !.payload = <<>>,
                    !.dataState = d, !.readIndex = r]
  <2>1. n = Length(q, b)
    BY DEF Read
  <2> QED
    BY <1>1, <1>2, <1>3, <1>4, <1>5, <2>1 DEF Length
<1>7. <<>> \in Seq(Bytes)
  OBVIOUS
<1>8. /\ IsParser(n) /\ n.dataState = d /\ n.readIndex = r /\ n.payload = <<>>
      /\ n.payloadLen = m /\ n.sumcheck = s
  BY <1>6, <1>7 DEF IsParser, Fields
<1> QED
  BY <1>1, <1>2, <1>3, <1>4, <1>5, <1>8

LEMMA PayloadBytes ==
  ASSUME NEW q, IsParser(q), NEW b \in Bytes, NEW n, n = Read(q, b), q.dataState = 3
  PROVE  /\ IsParser(n)
         /\ n.dataState = (IF q.readIndex + 1 >= q.payloadLen THEN 4 ELSE 3)
         /\ n.readIndex = (IF q.readIndex + 1 >= q.payloadLen THEN 0 ELSE q.readIndex + 1)
         /\ n.payloadLen = q.payloadLen
         /\ n.payload = Append(q.payload, b)
         /\ n.sumcheck = (q.sumcheck + b) % 256
<1>1. PICK x \in Bytes, k \in Nat, l \in Nat, f \in Seq(Bytes) :
        q.sumcheck = x /\ q.readIndex = k /\ q.payloadLen = l /\ q.payload = f
  BY DEF IsParser
<1>2. PICK d \in 0..4 : d = IF k + 1 >= l THEN 4 ELSE 3
  OBVIOUS
<1>3. PICK r \in Nat : r = IF k + 1 >= l THEN 0 ELSE k + 1
  OBVIOUS
<1>4. PICK a \in Seq(Bytes) : a = Append(f, b)
  <2>1. Append(f, b) \in Seq(Bytes)
    OBVIOUS
  <2> QED
    BY <2>1
<1>5. PICK s \in Bytes : s = (x + b) % 256
  BY DEF Bytes
<1>6. n = [q EXCEPT !.sumcheck = s, !.payload = a, !.readIndex = r, !.dataState = d]
  <2>1. n = Payload(q, b)
    BY DEF Read
  <2> QED
    BY <1>1, <1>2, <1>3, <1>4, <1>5, <2>1 DEF Payload
<1>7. /\ IsParser(n) /\ n.dataState = d /\ n.readIndex = r /\ n.payload = a
      /\ n.payloadLen = l /\ n.sumcheck = s
  BY <1>1, <1>6 DEF IsParser, Fields
<1> QED
  BY <1>1, <1>2, <1>3, <1>4, <1>5, <1>7

LEMMA Sumchecks ==
  ASSUME NEW q, IsParser(q), NEW b \in Bytes, NEW n, n = Read(q, b), q.dataState = 4
  PROVE  IsParser(n) /\ n.dataState = 0
<1>1. n = [q EXCEPT !.dataState = 0, !.payload = <<>>, !.payloadLen = 0]
  BY DEF Read, Sumcheck
<1>2. <<>> \in Seq(Bytes)
  OBVIOUS
<1> QED
  BY <1>1, <1>2 DEF IsParser, Fields

LEMMA ReadKeeps == ASSUME NEW q, IsParser(q), NEW b \in Bytes PROVE IsParser(Read(q, b))
<1>1. q.dataState \in {0, 1, 2, 3, 4}
  BY DEF IsParser
<1> QED
  BY <1>1, Headers, Lengths, PayloadBytes, Sumchecks

\* One more byte of the command under way.
LEMMA ParserGoesOn ==
  ASSUME NEW p \in Payloads, NEW q, IsParser(q), NEW j \in 0..5 + Len(p), At(q, p, j)
  PROVE  At(Read(q, Message(p)[j + 1]), p, j + 1) /\ q.dataState # 4
<1>1. Len(p) \in 1..255 /\ p \in Seq(Bytes) /\ j + 1 \in 1..6 + Len(p)
  BY SummedIs
<1>2. PICK b \in Bytes : b = Message(p)[j + 1] /\ b = Summed(p)[j + 1]
  <2>1. Summed(p) \in Seq(Bytes) /\ Len(Summed(p)) = 6 + Len(p)
    BY SummedIs
  <2>2. Summed(p)[j + 1] \in Bytes
    BY <1>1, <2>1
  <2> QED
    BY <1>1, <2>2, MessageIs
<1>3. PICK S : S = Sums(Summed(p))
  OBVIOUS
<1>4. /\ S[j + 1] = (S[j] + b) % 256
      /\ S[0] = 0 /\ S[1] = (S[0] + 170) % 256 /\ S[2] = (S[1] + 68) % 256
  <2>1. Summed(p) \in Seq(Bytes) /\ Len(Summed(p)) = 6 + Len(p)
        /\ Summed(p)[1] = 170 /\ Summed(p)[2] = 68
    BY SummedIs
  <2>2. S[0] = 0 /\ \A k \in 1..6 + Len(p) : S[k] = (S[k - 1] + Summed(p)[k]) % 256
    BY <1>3, <2>1, SumsAdd
  <2>3. 1 \in 1..6 + Len(p) /\ 2 \in 1..6 + Len(p) /\ j + 1 - 1 = j
    BY <1>1
  <2> QED
    BY <1>1, <1>2, <2>1, <2>2, <2>3
<1>5. S[2] = 238
  BY <1>4
<1>6. PICK n : n = Read(q, b)
  OBVIOUS
<1> SUFFICES At(n, p, j + 1) /\ q.dataState # 4
  BY <1>2, <1>6
<1>7. CASE j = 0
  <2>1. b = 170 /\ q.dataState = 0
    BY <1>2, <1>7, SummedIs DEF At
  <2>2. n.dataState = 1 /\ n.readIndex = 0
    BY <1>6, <2>1, Headers
  <2> QED
    BY <1>1, <1>7, <2>1, <2>2 DEF At
<1>8. CASE j = 1
  <2>1. b = 68 /\ q.dataState = 1 /\ q.readIndex = 0
    BY <1>2, <1>8, SummedIs DEF At
  <2>2. n.dataState = 2 /\ n.readIndex = 0 /\ n.sumcheck = 238
    BY <1>6, <2>1, Headers
  <2> QED
    BY <1>1, <1>3, <1>5, <1>8, <2>1, <2>2 DEF At
<1>9. CASE j \in 2..5
  <2>1. /\ q.dataState = 2 /\ q.readIndex = j - 2 /\ q.sumcheck = S[j]
        /\ j > 2 => q.payloadLen = Len(p)
    BY <1>3, <1>9 DEF At
  <2>2. (j = 2 => b = Len(p)) /\ (j > 2 => b = 0)
    BY <1>2, <1>9, SummedIs
  <2>3. n.payload = <<>> /\ n.payloadLen = Len(p) /\ n.sumcheck = S[j + 1]
    BY <1>4, <1>6, <1>9, <2>1, <2>2, Lengths
  <2>4. /\ n.dataState = (IF j = 5 THEN 3 ELSE 2)
        /\ n.readIndex = (IF j = 5 THEN 0 ELSE j - 1)
    BY <1>6, <1>9, <2>1, Lengths
  <2>5. SubSeq(p, 1, 0) = <<>>
    BY <1>1
  <2> QED
    <3>1. CASE j = 5
      <4>1. n.dataState = 3 /\ n.readIndex = 0 /\ n.payload = SubSeq(p, 1, 0)
        BY <2>3, <2>4, <2>5, <3>1
      <4>2. j + 1 = 6 /\ 6 - 6 = 0
        BY <3>1
      <4>3. At(n, p, 6)
        <5>1. n.sumcheck = Sums(Summed(p))[6] /\ n.payloadLen = Len(p)
          BY <1>3, <2>3, <4>2
        <5>2. 6 \in 6..5 + Len(p) /\ 6 # 6 + Len(p) /\ ~(6 \in 2..5)
          <6>1. \A L \in 1..255 : 6 \in 6..5 + L /\ 6 # 6 + L
            OBVIOUS
          <6>2. ~(6 \in 2..5)
            OBVIOUS
          <6> QED
            BY <1>1, <6>1, <6>2
        <5> QED
          BY <4>1, <4>2, <5>1, <5>2 DEF At
      <4>4. q.dataState # 4
        BY <2>1
      <4> QED
        BY <4>2, <4>3, <4>4
    <3>2. CASE j \in 2..4
      BY <1>1, <1>3, <2>3, <2>4, <3>2 DEF At
    <3> QED
      BY <1>9, <3>1, <3>2
<1>10. CASE j >= 6
  <2>1. /\ q.dataState = 3 /\ q.readIndex = j - 6 /\ q.payloadLen = Len(p)
        /\ q.payload = SubSeq(p, 1, j - 6) /\ q.sumcheck = S[j]
    BY <1>1, <1>3, <1>10 DEF At
  <2>2. b = p[j - 5]
    <3>1. j - 5 \in 1..Len(p) /\ 6 + (j - 5) = j + 1
      BY <1>1, <1>10
    <3> QED
      BY <1>2, <3>1, SummedIs
  <2>3. Append(q.payload, b) = SubSeq(p, 1, j - 5)
    BY <1>1, <1>10, <2>1, <2>2
  <2>4. /\ n.payload = SubSeq(p, 1, j - 5) /\ n.payloadLen = Len(p) /\ n.sumcheck = S[j + 1]
        /\ n.dataState = (IF j - 5 >= Len(p) THEN 4 ELSE 3)
        /\ j - 5 < Len(p) => n.readIndex = j - 5
    <3>1. q.dataState = 3
      BY <2>1
    <3>2. n.payload = Append(q.payload, b) /\ n.payloadLen = q.payloadLen
      BY <1>6, <3>1, PayloadBytes
    <3>3. n.sumcheck = (q.sumcheck + b) % 256
      BY <1>6, <3>1, PayloadBytes
    <3>4. n.dataState = (IF q.readIndex + 1 >= q.payloadLen THEN 4 ELSE 3)
      BY <1>6, <3>1, PayloadBytes
    <3>5. n.readIndex = (IF q.readIndex + 1 >= q.payloadLen THEN 0 ELSE q.readIndex + 1)
      BY <1>6, <3>1, PayloadBytes, Zenon
    <3>6. q.readIndex + 1 = j - 5
      BY <2>1
    <3>7. n.sumcheck = S[j + 1]
      BY <1>4, <2>1, <3>3
    <3> QED
      BY <1>1, <2>1, <2>3, <3>2, <3>4, <3>5, <3>6, <3>7
  <2>5. SubSeq(p, 1, Len(p)) = p
    BY <1>1
  <2>6. q.dataState # 4
    BY <2>1
  <2>7. CASE j - 5 < Len(p)
    <3>1. j + 1 \in 6..5 + Len(p) /\ (j + 1) - 6 = j - 5 /\ j + 1 # 6 + Len(p) /\ ~(j - 5 >= Len(p))
      BY <1>1, <1>10, <2>7
    <3>2. n.dataState = 3 /\ n.readIndex = j - 5 /\ n.sumcheck = S[j + 1]
      BY <2>4, <2>7, <3>1
    <3> QED
      BY <1>1, <1>3, <1>10, <2>4, <2>6, <3>1, <3>2 DEF At
  <2>8. CASE j - 5 = Len(p)
    <3>1. j + 1 = 6 + Len(p) /\ j - 5 >= Len(p)
      BY <1>1, <1>10, <2>8
    <3>2. n.dataState = 4 /\ n.payload = p /\ n.sumcheck = S[j + 1]
      BY <2>4, <2>5, <2>8, <3>1
    <3> QED
      BY <1>1, <1>3, <1>10, <2>6, <3>1, <3>2 DEF At
  <2> QED
    <3>1. j - 5 < Len(p) \/ j - 5 = Len(p)
      BY <1>1, <1>10
    <3> QED
      BY <2>7, <2>8, <3>1
<1> QED
  BY <1>1, <1>7, <1>8, <1>9, <1>10

\* The byte after a command has been read is its sum.
LEMMA ParserEnds ==
  ASSUME NEW p \in Payloads, NEW q, IsParser(q), At(q, p, 6 + Len(p))
  PROVE  /\ q.dataState = 4 /\ q.payload = p /\ q.sumcheck = Message(p)[7 + Len(p)]
         /\ Read(q, Message(p)[7 + Len(p)]).dataState = 0
<1>1. q.dataState = 4 /\ q.payload = p /\ q.sumcheck = Message(p)[7 + Len(p)]
  BY SummedIs, MessageIs DEF At
<1>2. Message(p)[7 + Len(p)] \in Bytes
  BY SummedIs, MessageIs
<1> QED
  BY <1>1, <1>2, Sumchecks

-----------------------------------------------------------------------------
(* The steps.                                                              *)

LEMMA PartExtends ==
  ASSUME NEW str \in Seq(Bytes), NEW m \in Seq(Bytes), NEW s \in Seq(Bytes),
         NEW a \in Nat, NEW b \in 0..Len(str), Part(s, str, a, b)
  PROVE  Part(s, str \o m, a, b)
<1>1. \A i \in 1..Len(s) : a + i \in 1..Len(str)
  BY DEF Part
<1>2. \A i \in 1..Len(str) : (str \o m)[i] = str[i]
  OBVIOUS
<1> QED
  BY <1>1, <1>2 DEF Part

LEMMA PartAppends ==
  ASSUME NEW str \in Seq(Bytes), NEW m \in Seq(Bytes), NEW s \in Seq(Bytes),
         NEW a \in Nat, Part(s, str, a, Len(str))
  PROVE  Part(s \o m, str \o m, a, Len(str \o m))
<1>1. Len(str \o m) = Len(str) + Len(m) /\ Len(s \o m) = Len(s) + Len(m)
  OBVIOUS
<1>2. Len(s) = Len(str) - a /\ \A i \in 1..Len(s) : s[i] = str[a + i]
  BY DEF Part
<1>3. Len(s) \in Nat /\ Len(m) \in Nat /\ Len(str) \in Nat
  OBVIOUS
<1>4. ASSUME NEW i \in 1..Len(s) + Len(m) PROVE (s \o m)[i] = (str \o m)[a + i]
  <2>1. CASE i \in 1..Len(s)
    <3>1. a + i \in 1..Len(str)
      BY <1>2, <1>3, <2>1
    <3>2. (s \o m)[i] = s[i] /\ (str \o m)[a + i] = str[a + i]
      BY <2>1, <3>1
    <3> QED
      BY <1>2, <2>1, <3>2
  <2>2. CASE i \in Len(s) + 1..Len(s) + Len(m)
    <3>1. /\ a + i \in Len(str) + 1..Len(str) + Len(m)
          /\ a + i - Len(str) = i - Len(s)
      BY <1>2, <1>3, <2>2
    <3>2. (s \o m)[i] = m[i - Len(s)]
      BY <2>2
    <3>3. \A k \in Len(str) + 1..Len(str) + Len(m) : (str \o m)[k] = m[k - Len(str)]
      OBVIOUS
    <3> QED
      BY <3>1, <3>2, <3>3
  <2>3. i \in 1..Len(s) \/ i \in Len(s) + 1..Len(s) + Len(m)
    BY <1>3
  <2> QED
    BY <2>1, <2>2, <2>3, Zenon
<1> QED
  BY <1>1, <1>2, <1>3, <1>4 DEF Part

LEMMA PartSplits ==
  ASSUME NEW str, NEW s \in Seq(Bytes), NEW a \in Nat, NEW b \in Nat, Part(s, str, a, b),
         NEW m \in 0..Len(s)
  PROVE  /\ Part(SubSeq(s, 1, m), str, a, a + m)
         /\ Part(SubSeq(s, m + 1, Len(s)), str, a + m, b)
<1>1. Len(s) \in Nat /\ Len(s) = b - a /\ \A i \in 1..Len(s) : s[i] = str[a + i]
  BY DEF Part
<1>2. /\ Len(SubSeq(s, 1, m)) = m /\ Len(SubSeq(s, m + 1, Len(s))) = Len(s) - m
      /\ \A i \in 1..m : SubSeq(s, 1, m)[i] = s[i]
      /\ \A i \in 1..Len(s) - m : SubSeq(s, m + 1, Len(s))[i] = s[m + i]
  OBVIOUS
<1>3. \A i \in 1..m : i \in 1..Len(s)
  BY <1>1
<1>4. \A i \in 1..Len(s) - m : m + i \in 1..Len(s) /\ a + m + i = a + (m + i)
  BY <1>1
<1> QED
  BY <1>1, <1>2, <1>3, <1>4 DEF Part

LEMMA ReceiverStarts == ReceiverInit => ReceiverInv
<1> SUFFICES ASSUME ReceiverInit PROVE ReceiverInv
  OBVIOUS
<1>1. ReceiverTypes
  <2>1. 0 \in Bytes /\ <<>> \in Seq(Bytes) /\ <<>> \in Seq(Seq(Bytes)) /\ <<>> \in Seq(Payloads)
    BY DEF Bytes
  <2>2. IsParser(Fresh) /\ NoRoom(Fresh) = FALSE
    BY <2>1 DEF Fresh, IsParser, Fields, NoRoom
  <2> QED
    BY <2>1, <2>2 DEF ReceiverInit, ReceiverTypes
<1> DEFINE str == <<>>
           zero == [i \in 0..0 |-> 0]
<1>2. Laid(str, zero)
  BY DEF ReceiverInit, Laid
<1>3. Cuts(str, 0, zero)
  BY DEF ReceiverInit, Cuts, Part
<1>4. Reached(0, zero)
  BY DEF ReceiverInit, Reached, Fresh
<1> QED
  BY <1>1, <1>2, <1>3, <1>4 DEF ReceiverInv, Continued

LEMMA ReceiverTypesKept == ReceiverTypes /\ [ReceiverNext]_receiverVars => ReceiverTypes'
<1> SUFFICES ASSUME ReceiverTypes, [ReceiverNext]_receiverVars PROVE ReceiverTypes'
  OBVIOUS
<1> USE DEF ReceiverTypes
<1>1. CASE TakePiece
  BY <1>1 DEF TakePiece, NoRoom
<1>2. CASE ReadByte
  <2>1. Head(reading) \in Bytes /\ Tail(reading) \in Seq(Bytes)
    BY <1>2 DEF ReadByte
  <2>2. IsParser(parser')
    BY <1>2, <2>1, ReadKeeps DEF ReadByte
  <2>3. arrived' \in Seq(Seq(Bytes))
    <3>1. parser.payload \in Seq(Bytes)
      BY DEF IsParser
    <3>2. Append(arrived, parser.payload) \in Seq(Seq(Bytes))
      BY <3>1
    <3> QED
      BY <1>2, <3>2 DEF ReadByte
  <2>4. broken' = NoRoom(parser)'
    BY <1>2 DEF ReadByte, NoRoom
  <2> QED
    BY <1>2, <2>1, <2>2, <2>3, <2>4 DEF ReadByte
<1>3. ASSUME NEW n \in 1..Len(wire), DataEvent(n) PROVE ReceiverTypes'
  <2>1. SubSeq(wire, 1, n) \in Seq(Bytes) /\ SubSeq(wire, n + 1, Len(wire)) \in Seq(Bytes)
    OBVIOUS
  <2> QED
    BY <1>3, <2>1 DEF DataEvent, NoRoom
<1>4. ASSUME NEW p \in Payloads, ServerSends(p) PROVE ReceiverTypes'
  <2>1. Message(p) \in Seq(Bytes)
    BY MessageIs
  <2>2. wire' \in Seq(Bytes)
    BY <1>4, <2>1 DEF ServerSends
  <2>3. commands' \in Seq(Payloads) /\ arrived' \in Seq(Seq(Bytes)) /\ inStep' \in BOOLEAN
    <3>1. <<p>> \in Seq(Payloads) /\ Append(commands, p) \in Seq(Payloads)
      OBVIOUS
    <3>2. <<>> \in Seq(Seq(Bytes))
      OBVIOUS
    <3> QED
      BY <1>4, <3>1, <3>2 DEF ServerSends
  <2> QED
    BY <1>4, <2>2, <2>3 DEF ServerSends, NoRoom
<1>5. CASE ConnectionLost
  BY <1>5 DEF ConnectionLost, NoRoom
<1>6. CASE ConnectionUp
  BY <1>6 DEF ConnectionUp, NoRoom
<1>7. ASSUME NEW n \in 1..Len(wire), DataDropped(n) PROVE ReceiverTypes'
  <2>1. SubSeq(wire, n + 1, Len(wire)) \in Seq(Bytes)
    OBVIOUS
  <2> QED
    BY <1>7, <2>1 DEF DataDropped, NoRoom
<1>8. CASE UNCHANGED receiverVars
  BY <1>8 DEF receiverVars, NoRoom
<1> QED
  BY <1>1, <1>2, <1>3, <1>4, <1>5, <1>6, <1>7, <1>8
  DEF ReceiverNext, Receiver, Network, Server

\* what the places in str are
LEMMA Places ==
  ASSUME ReceiverTypes, NEW str, NEW start, NEW n, NEW cut, Continued(str, start, n, cut)
  PROVE  /\ Len(str) \in Nat /\ n \in Nat /\ Len(commands) \in Nat /\ Len(mail) \in Nat
         /\ \A i \in 0..Len(commands) : start[i] \in 0..Len(str)
         /\ \A i \in 1..Len(commands) :
              /\ commands[i] \in Payloads
              /\ start[i] = start[i - 1] + 7 + Len(commands[i]) /\ Len(commands[i]) \in 1..255
         /\ \A i \in 0..Len(mail) : cut[i] \in 0..Len(str)
<1> USE DEF Continued
<1>1. /\ Len(str) \in Nat /\ n \in Nat /\ Len(commands) \in Nat /\ Len(mail) \in Nat
      /\ \A i \in 0..Len(commands) : start[i] \in 0..Len(str)
      /\ \A i \in 0..Len(mail) : cut[i] \in 0..Len(str)
  <2>1. Len(commands) \in Nat /\ Len(mail) \in Nat
    BY DEF ReceiverTypes
  <2>2. Len(str) \in Nat /\ start \in [0..Len(commands) -> 0..Len(str)]
    BY DEF Laid
  <2>3. n \in 0..Len(str) /\ cut \in [0..Len(mail) -> 0..Len(str)]
    BY DEF Cuts
  <2> QED
    BY <2>1, <2>2, <2>3
<1>2. ASSUME NEW i \in 1..Len(commands)
      PROVE  /\ commands[i] \in Payloads /\ Len(commands[i]) \in 1..255
             /\ start[i] = start[i - 1] + 7 + Len(commands[i])
  <2>1. commands[i] \in Payloads
    BY DEF ReceiverTypes
  <2>2. Len(commands[i]) \in 1..255 /\ Len(Message(commands[i])) = 7 + Len(commands[i])
    BY <2>1, SummedIs, MessageIs
  <2>3. Len(Message(commands[i])) = start[i] - start[i - 1]
    BY DEF Laid, Part
  <2>4. start[i] \in Nat /\ start[i - 1] \in Nat
    BY <1>1
  <2>5. \A a, b \in Nat, l \in 1..255 : 7 + l = a - b => a = b + 7 + l
    OBVIOUS
  <2>6. 7 + Len(commands[i]) = start[i] - start[i - 1]
    BY <2>2, <2>3
  <2> QED
    BY <2>1, <2>2, <2>4, <2>5, <2>6
<1> QED
  BY <1>1, <1>2

\* A command sent when all that came was read: the stream begins with it.
LEMMA SendsFirst ==
  ASSUME ReceiverTypes, NEW p \in Payloads, ServerSends(p), AllRead, inStep'
  PROVE  \E str, start, n, cut : Continued(str, start, n, cut)'
<1>1. /\ wire' = Message(p) /\ commands' = <<p>> /\ arrived' = <<>>
      /\ mail' = <<>> /\ reading' = <<>> /\ parser' = parser /\ parser.dataState = 0
  <2>1. Message(p) \in Seq(Bytes)
    BY MessageIs
  <2>2. wire = <<>> /\ wire' = wire \o Message(p) /\ mail = <<>> /\ reading = <<>>
    BY DEF ServerSends, AllRead
  <2>3. <<>> \o Message(p) = Message(p)
    BY <2>1
  <2> QED
    BY <2>2, <2>3 DEF ServerSends
<1> DEFINE str == Message(p)
           start == [i \in 0..1 |-> IF i = 0 THEN 0 ELSE Len(Message(p))]
           zero == [i \in 0..0 |-> 0]
<1>2. str \in Seq(Bytes) /\ Len(str) = 7 + Len(p) /\ Len(p) \in 1..255
  BY SummedIs, MessageIs
<1>3. Laid(str, start)'
  <2>1. start \in [0..1 -> 0..Len(str)]
    BY <1>2
  <2>2. Part(Message(p), str, 0, Len(str))
    BY <1>2 DEF Part
  <2> QED
    BY <1>1, <1>2, <2>1, <2>2 DEF Laid
<1>4. Cuts(str, 0, zero)'
  BY <1>1, <1>2 DEF Cuts, Part
<1>5. Reached(0, start)'
  <2>1. At(parser, p, 0)
    BY <1>1, <1>2 DEF At
  <2> QED
    BY <1>1, <1>2, <2>1 DEF Reached
<1> QED
  BY <1>3, <1>4, <1>5 DEF Continued

\* A command sent when something is still to be read goes to the end of the stream.
LEMMA SendsNext ==
  ASSUME ReceiverTypes, NEW p \in Payloads, ServerSends(p), ~AllRead,
         NEW str, NEW start, NEW n, NEW cut, Continued(str, start, n, cut)
  PROVE  \E s, t, l, c : Continued(s, t, l, c)'
<1>1. /\ wire' = wire \o Message(p) /\ commands' = Append(commands, p)
      /\ arrived' = arrived /\ mail' = mail /\ reading' = reading /\ parser' = parser
  BY DEF ServerSends
<1> PICK all : all = str \o Message(p)
  OBVIOUS
<1> PICK N : N = Len(commands)
  OBVIOUS
<1> PICK next : next = [i \in 0..N + 1 |-> IF i <= N THEN start[i] ELSE Len(all)]
  OBVIOUS
<1>2. Message(p) \in Seq(Bytes) /\ Len(Message(p)) = 7 + Len(p) /\ Len(p) \in 1..255
  BY SummedIs, MessageIs
<1>3. str \in Seq(Bytes) /\ start \in [0..N -> 0..Len(str)] /\ start[0] = 0 /\ start[N] = Len(str)
  BY DEF Continued, Laid
<1>4. /\ all \in Seq(Bytes) /\ Len(all) = Len(str) + 7 + Len(p)
      /\ Len(str) \in Nat /\ Len(all) \in Nat /\ N \in Nat
  <2>1. N \in Nat
    BY DEF ReceiverTypes
  <2>2. Len(str) \in Nat
    BY <1>3
  <2>3. \A s, m \in Seq(Bytes) : s \o m \in Seq(Bytes) /\ Len(s \o m) = Len(s) + Len(m)
    OBVIOUS
  <2>4. all \in Seq(Bytes) /\ Len(all) = Len(str) + Len(Message(p))
    BY <1>2, <1>3, <2>3
  <2> QED
    BY <1>2, <2>1, <2>2, <2>4
<1>5. /\ Len(commands') = N + 1 /\ commands'[N + 1] = p
      /\ \A i \in 1..N : commands'[i] = commands[i]
  BY <1>1 DEF ReceiverTypes
<1>6. /\ \A i \in 0..N : next[i] = start[i]
      /\ next[N + 1] = Len(all) /\ next \in [0..N + 1 -> 0..Len(all)]
  BY <1>3, <1>4
<1>7. ASSUME NEW i \in 1..N + 1
      PROVE  Part(Message(commands'[i]), all, next[i - 1], next[i])
  <2>1. CASE i = N + 1
    <3>1. Part(Message(p), all, Len(str), Len(all))
      BY <1>2, <1>3, <1>4 DEF Part
    <3>2. next[i - 1] = Len(str) /\ next[i] = Len(all)
      BY <1>3, <1>4, <1>6, <2>1
    <3> QED
      BY <1>5, <2>1, <3>1, <3>2
  <2>2. CASE i \in 1..N
    <3>1. commands[i] \in Payloads /\ i - 1 \in 0..N /\ i \in 0..N
      BY <1>4, <2>2 DEF ReceiverTypes
    <3>2. Message(commands[i]) \in Seq(Bytes)
      BY <3>1, MessageIs
    <3>3. Part(Message(commands[i]), str, start[i - 1], start[i])
      BY <2>2 DEF Continued, Laid
    <3>4. start[i - 1] \in Nat /\ start[i] \in 0..Len(str)
      <4>1. \A x \in 0..N : start[x] \in 0..Len(str)
        BY <1>3
      <4>2. \A x \in 0..Len(str) : x \in Nat
        BY <1>4
      <4> QED
        BY <3>1, <4>1, <4>2
    <3>5. Part(Message(commands[i]), all, start[i - 1], start[i])
      BY <1>2, <1>3, <3>2, <3>3, <3>4, PartExtends
    <3> QED
      BY <1>5, <1>6, <2>2, <3>1, <3>5
  <2>3. i = N + 1 \/ i \in 1..N
    <3>1. N \in Nat /\ i \in Nat /\ 1 <= i /\ i <= N + 1
      BY <1>4
    <3> QED
      BY <3>1
  <2> QED
    BY <2>1, <2>2, <2>3, Zenon
<1>8. Laid(all, next)'
  <2>1. next[0] = 0 /\ next[N + 1] = Len(all)
    BY <1>3, <1>4, <1>6
  <2> QED
    BY <1>4, <1>5, <1>6, <1>7, <2>1 DEF Laid
<1>9. Cuts(all, n, cut)'
  <2>1. /\ n \in 0..Len(str) /\ cut \in [0..Len(mail) -> 0..Len(str)]
        /\ Part(reading, str, n, cut[0])
        /\ \A i \in 1..Len(mail) : Part(mail[i], str, cut[i - 1], cut[i])
        /\ Part(wire, str, cut[Len(mail)], Len(str))
    BY DEF Continued, Cuts
  <2>2. Len(mail) \in Nat /\ \A i \in 0..Len(mail) : cut[i] \in 0..Len(str) /\ cut[i] \in Nat
    <3>1. Len(mail) \in Nat
      BY DEF ReceiverTypes
    <3>2. \A i \in 0..Len(mail) : cut[i] \in 0..Len(str)
      BY <2>1
    <3>3. \A x \in 0..Len(str) : x \in Nat
      BY <1>4
    <3> QED
      BY <3>1, <3>2, <3>3
  <2>3. Part(reading, all, n, cut[0])
    BY <1>2, <1>3, <1>4, <2>1, <2>2, PartExtends DEF ReceiverTypes
  <2>4. ASSUME NEW i \in 1..Len(mail) PROVE Part(mail[i], all, cut[i - 1], cut[i])
    <3>1. mail[i] \in Seq(Bytes) /\ i - 1 \in 0..Len(mail) /\ i \in 0..Len(mail)
      BY <2>2 DEF ReceiverTypes
    <3>2. cut[i - 1] \in Nat /\ cut[i] \in 0..Len(str) /\ Part(mail[i], str, cut[i - 1], cut[i])
      BY <2>1, <2>2, <3>1
    <3> QED
      BY <1>2, <1>3, <3>1, <3>2, PartExtends
  <2>5. Part(wire', all, cut[Len(mail)], Len(all))
    <3>1. cut[Len(mail)] \in Nat
      BY <2>2
    <3> QED
      BY <1>1, <1>2, <1>3, <2>1, <3>1, PartAppends DEF ReceiverTypes
  <2>6. n \in 0..Len(all) /\ cut \in [0..Len(mail) -> 0..Len(all)]
    <3>1. 0..Len(str) \subseteq 0..Len(all)
      BY <1>2, <1>4
    <3> QED
      BY <2>1, <3>1
  <2> QED
    BY <1>1, <2>3, <2>4, <2>5, <2>6 DEF Cuts
<1>10. Reached(n, next)'
  <2> PICK k : k = Len(arrived)
    OBVIOUS
  <2>1. k \in 0..N /\ arrived = SubSeq(commands, 1, k) /\ start[k] <= n /\ n \in 0..Len(str)
    BY DEF Continued, Reached, Cuts
  <2>2. arrived = SubSeq(commands', 1, k) /\ k \in 0..N + 1 /\ next[k] <= n
    <3>1. SubSeq(commands', 1, k) = SubSeq(commands, 1, k)
      BY <1>1, <1>4, <2>1 DEF ReceiverTypes
    <3>2. k \in 0..N + 1 /\ next[k] = start[k]
      BY <1>4, <1>6, <2>1
    <3> QED
      BY <2>1, <3>1, <3>2
  <2>3. CASE k = N
    <3>1. parser.dataState = 0
      BY <2>3 DEF Continued, Reached
    <3>2. n - start[k] = 0 /\ n < next[k + 1]
      BY <1>2, <1>3, <1>4, <1>6, <2>1, <2>3
    <3>3. At(parser, p, 0)
      BY <1>2, <3>1 DEF At
    <3> QED
      BY <1>1, <1>4, <1>5, <1>6, <2>1, <2>2, <2>3, <3>2, <3>3 DEF Reached
  <2>4. CASE k # N
    <3>1. n < start[k + 1] /\ At(parser, commands[k + 1], n - start[k])
      BY <2>4 DEF Continued, Reached
    <3>2. k + 1 \in 1..N /\ k + 1 \in 0..N /\ k # N + 1
      BY <1>4, <2>1, <2>4
    <3>3. commands'[k + 1] = commands[k + 1] /\ next[k + 1] = start[k + 1] /\ next[k] = start[k]
      BY <1>5, <1>6, <2>1, <3>2
    <3> QED
      BY <1>1, <1>5, <2>2, <3>1, <3>2, <3>3 DEF Reached
  <2> QED
    BY <2>3, <2>4
<1> QED
  BY <1>8, <1>9, <1>10 DEF Continued

\* A piece that comes takes its bytes from the wire to the mail.
LEMMA PieceComes ==
  ASSUME ReceiverTypes, NEW m \in 1..Len(wire), DataEvent(m),
         NEW str, NEW start, NEW n, NEW cut, Continued(str, start, n, cut)
  PROVE  \E s, t, l, c : Continued(s, t, l, c)'
<1>1. /\ mail' = Append(mail, SubSeq(wire, 1, m)) /\ wire' = SubSeq(wire, m + 1, Len(wire))
      /\ reading' = reading /\ parser' = parser /\ commands' = commands /\ arrived' = arrived
  BY DEF DataEvent
<1> PICK M : M = Len(mail)
  OBVIOUS
<1>2. M \in Nat /\ Len(str) \in Nat /\ cut[M] \in 0..Len(str) /\ cut[M] \in Nat
  BY Places
<1> PICK w : w = wire
  OBVIOUS
<1>3. w \in Seq(Bytes) /\ m \in 1..Len(w) /\ Len(w) \in Nat
  BY DEF ReceiverTypes
<1>4. Part(w, str, cut[M], Len(str))
  BY DEF Continued, Cuts
<1>5. Len(w) = Len(str) - cut[M]
  BY <1>4 DEF Part
<1>6. /\ Part(SubSeq(w, 1, m), str, cut[M], cut[M] + m)
      /\ Part(SubSeq(w, m + 1, Len(w)), str, cut[M] + m, Len(str))
  <2>1. m \in 0..Len(w)
    BY <1>3
  <2> QED
    BY <1>2, <1>3, <1>4, <2>1, PartSplits
<1>7. cut[M] + m \in 0..Len(str)
  BY <1>2, <1>3, <1>5
<1> PICK next : next = [i \in 0..M + 1 |-> IF i <= M THEN cut[i] ELSE cut[M] + m]
  OBVIOUS
<1>8. /\ \A i \in 0..M : next[i] = cut[i]
      /\ next[M + 1] = cut[M] + m /\ next \in [0..M + 1 -> 0..Len(str)]
  <2>1. \A i \in 0..M : cut[i] \in 0..Len(str)
    BY Places
  <2> QED
    BY <1>2, <1>7, <2>1
<1>9. /\ Len(mail') = M + 1 /\ mail'[M + 1] = SubSeq(w, 1, m)
      /\ \A i \in 1..M : mail'[i] = mail[i]
  <2>1. SubSeq(w, 1, m) \in Seq(Bytes)
    BY <1>3
  <2> QED
    BY <1>1, <2>1 DEF ReceiverTypes
<1>10. Cuts(str, n, next)'
  <2>1. n \in 0..Len(str) /\ Part(reading, str, n, next[0])
    <3>1. 0 \in 0..M
      BY <1>2
    <3> QED
      BY <1>8, <3>1 DEF Continued, Cuts
  <2>2. ASSUME NEW i \in 1..M + 1 PROVE Part(mail'[i], str, next[i - 1], next[i])
    <3>1. CASE i = M + 1
      <4>1. M \in 0..M /\ i - 1 = M
        BY <1>2, <3>1
      <4> QED
        BY <1>6, <1>8, <1>9, <3>1, <4>1
    <3>2. CASE i \in 1..M
      <4>1. i - 1 \in 0..M /\ i \in 0..M
        BY <1>2, <3>2
      <4>2. Part(mail[i], str, cut[i - 1], cut[i])
        BY <3>2 DEF Continued, Cuts
      <4> QED
        BY <1>8, <1>9, <3>2, <4>1, <4>2
    <3>3. i = M + 1 \/ i \in 1..M
      <4>1. M \in Nat /\ i \in Nat /\ 1 <= i /\ i <= M + 1
        BY <1>2
      <4> QED
        BY <4>1
    <3> QED
      BY <3>1, <3>2, <3>3, Zenon
  <2>3. Part(wire', str, next[M + 1], Len(str))
    BY <1>1, <1>6, <1>8
  <2> QED
    BY <1>1, <1>8, <1>9, <2>1, <2>2, <2>3 DEF Cuts
<1>11. Laid(str, start)' /\ Reached(n, start)'
  BY <1>1 DEF Continued, Laid, Reached
<1> QED
  BY <1>10, <1>11 DEF Continued

\* The main thread takes the first piece of the mail when it is at the end of the one before.
LEMMA PieceTaken ==
  ASSUME ReceiverTypes, TakePiece,
         NEW str, NEW start, NEW n, NEW cut, Continued(str, start, n, cut)
  PROVE  \E s, t, l, c : Continued(s, t, l, c)'
<1>1. /\ reading = <<>> /\ mail # <<>> /\ reading' = Head(mail) /\ mail' = Tail(mail)
      /\ wire' = wire /\ parser' = parser /\ commands' = commands /\ arrived' = arrived
  BY DEF TakePiece
<1> PICK M : M = Len(mail)
  OBVIOUS
<1>2. /\ M \in Nat \ {0} /\ Len(str) \in Nat /\ n \in 0..Len(str)
      /\ \A i \in 0..M : cut[i] \in 0..Len(str)
  <2>1. M \in Nat \ {0}
    BY <1>1 DEF ReceiverTypes
  <2> QED
    BY <2>1, Places DEF Continued, Cuts
<1>3. /\ Part(reading, str, n, cut[0]) /\ Part(wire, str, cut[M], Len(str))
      /\ \A i \in 1..M : Part(mail[i], str, cut[i - 1], cut[i])
  BY DEF Continued, Cuts
<1>4. cut[0] = n
  <2>1. Len(reading) = cut[0] - n /\ Len(reading) = 0
    BY <1>1, <1>3 DEF Part
  <2>2. cut[0] \in Nat /\ n \in Nat
    BY <1>2
  <2> QED
    BY <2>1, <2>2
<1>5. /\ Len(mail') = M - 1 /\ reading' = mail[1]
      /\ \A i \in 1..M - 1 : mail'[i] = mail[i + 1]
  BY <1>1 DEF ReceiverTypes
<1> PICK next : next = [i \in 0..M - 1 |-> cut[i + 1]]
  OBVIOUS
<1>6. next \in [0..M - 1 -> 0..Len(str)] /\ \A i \in 0..M - 1 : next[i] = cut[i + 1]
  BY <1>2
<1>7. Part(reading', str, n, next[0])
  <2>1. 1 \in 1..M /\ 0 \in 0..M - 1 /\ 1 - 1 = 0 /\ 0 + 1 = 1
    BY <1>2
  <2>2. next[0] = cut[1] /\ Part(mail[1], str, cut[0], cut[1])
    BY <1>3, <1>6, <2>1
  <2> QED
    BY <1>4, <1>5, <2>2
<1>8. ASSUME NEW i \in 1..M - 1 PROVE Part(mail'[i], str, next[i - 1], next[i])
  <2>1. i - 1 \in 0..M - 1 /\ i \in 0..M - 1 /\ i - 1 + 1 = i /\ i + 1 - 1 = i /\ i + 1 \in 1..M
    BY <1>2
  <2>2. next[i - 1] = cut[i] /\ next[i] = cut[i + 1]
    BY <1>6, <2>1
  <2>3. Part(mail[i + 1], str, cut[i], cut[i + 1])
    BY <1>3, <2>1
  <2> QED
    BY <1>5, <2>2, <2>3
<1>9. Part(wire', str, next[M - 1], Len(str))
  <2>1. M - 1 \in 0..M - 1 /\ M - 1 + 1 = M
    BY <1>2
  <2> QED
    BY <1>1, <1>3, <1>6, <2>1
<1>10. Cuts(str, n, next)'
  BY <1>2, <1>5, <1>6, <1>7, <1>8, <1>9 DEF Cuts
<1>11. Laid(str, start)' /\ Reached(n, start)'
  BY <1>1 DEF Continued, Laid, Reached
<1> QED
  BY <1>10, <1>11 DEF Continued

\* Byte n + 1 of a stream in which command p begins after byte a: the command goes on, or
\* it is complete.
LEMMA CommandRead ==
  ASSUME NEW p \in Payloads, NEW q, IsParser(q), NEW a \in Nat, NEW n \in Nat,
         a <= n, n < a + 7 + Len(p), At(q, p, n - a), NEW b, b = Message(p)[n + 1 - a]
  PROVE  \/ /\ n + 1 < a + 7 + Len(p) /\ q.dataState # 4
            /\ At(Read(q, b), p, n + 1 - a)
         \/ /\ n + 1 = a + 7 + Len(p) /\ q.dataState = 4 /\ q.payload = p /\ q.sumcheck = b
            /\ Read(q, b).dataState = 0
<1>1. PICK L \in 1..255 : L = Len(p)
  BY SummedIs
<1>2. PICK j \in Nat : j = n - a
  <2>1. n - a \in Nat
    OBVIOUS
  <2> QED
    BY <2>1
<1>3. n + 1 - a = j + 1 /\ j < 7 + L
  BY <1>1, <1>2
<1>4. CASE j <= 5 + L
  <2>1. j \in 0..5 + L
    BY <1>4
  <2>2. At(Read(q, b), p, j + 1) /\ q.dataState # 4
    BY <1>1, <1>2, <1>3, <2>1, ParserGoesOn
  <2>3. n + 1 < a + 7 + L
    BY <1>2, <1>4
  <2> QED
    BY <1>1, <1>3, <2>2, <2>3
<1>5. CASE j = 6 + L
  <2>1. j + 1 = 7 + L /\ n + 1 = a + 7 + L
    BY <1>2, <1>5
  <2>2. At(q, p, 6 + Len(p)) /\ b = Message(p)[7 + Len(p)]
    BY <1>1, <1>2, <1>3, <1>5, <2>1
  <2>3. q.dataState = 4 /\ q.payload = p /\ q.sumcheck = b /\ Read(q, b).dataState = 0
    BY <2>2, ParserEnds
  <2> QED
    BY <1>1, <2>1, <2>3
<1>6. j <= 5 + L \/ j = 6 + L
  BY <1>3
<1> QED
  BY <1>4, <1>5, <1>6

\* The parser gets the next byte of the stream.
LEMMA ByteRead ==
  ASSUME ReceiverTypes, ReadByte,
         NEW str, NEW start, NEW n, NEW cut, Continued(str, start, n, cut)
  PROVE  \E s, t, l, c : Continued(s, t, l, c)'
<1>1. /\ reading # <<>> /\ reading' = Tail(reading) /\ parser' = Read(parser, Head(reading))
      /\ wire' = wire /\ mail' = mail /\ commands' = commands
  BY DEF ReadByte
<1>2. /\ n \in Nat /\ Len(str) \in Nat /\ cut[0] \in 0..Len(str)
      /\ cut \in [0..Len(mail) -> 0..Len(str)]
      /\ Len(reading) \in Nat /\ Len(reading) = cut[0] - n /\ Len(reading) # 0
      /\ \A i \in 1..Len(reading) : reading[i] = str[n + i]
  <2>1. /\ n \in Nat /\ Len(str) \in Nat /\ cut[0] \in 0..Len(str)
    BY Places
  <2>2. Len(reading) \in Nat /\ Len(reading) # 0
    BY <1>1 DEF ReceiverTypes
  <2> QED
    BY <2>1, <2>2 DEF Continued, Cuts, Part
<1>3. n + 1 \in 0..Len(str) /\ Head(reading) = str[n + 1]
  <2>1. 1 \in 1..Len(reading) /\ Head(reading) = reading[1]
    BY <1>1, <1>2 DEF ReceiverTypes
  <2>2. n + 1 \in 0..Len(str)
    BY <1>2
  <2> QED
    BY <1>2, <2>1, <2>2
<1>4. Cuts(str, n + 1, cut)'
  <2>1. Part(Tail(reading), str, n + 1, cut[0])
    <3>1. Len(Tail(reading)) = Len(reading) - 1
      BY <1>1 DEF ReceiverTypes
    <3>2. ASSUME NEW i \in 1..Len(reading) - 1
          PROVE  Tail(reading)[i] = str[n + 1 + i]
      <4>1. i + 1 \in 1..Len(reading) /\ n + (i + 1) = n + 1 + i
        BY <1>2
      <4>2. Tail(reading)[i] = reading[i + 1]
        BY <1>1, <3>1 DEF ReceiverTypes
      <4> QED
        BY <1>2, <4>1, <4>2
    <3>3. Len(reading) - 1 = cut[0] - (n + 1)
      BY <1>2
    <3> QED
      BY <3>1, <3>2, <3>3 DEF Part
  <2> QED
    BY <1>1, <1>3, <2>1 DEF Continued, Cuts
<1>5. PICK k : k = Len(arrived)
  OBVIOUS
<1>6. PICK N : N = Len(commands)
  OBVIOUS
<1>7. k \in 0..N /\ N \in Nat /\ arrived = SubSeq(commands, 1, k) /\ start[k] <= n
  <2>1. N \in Nat
    BY <1>6, Places
  <2> QED
    BY <1>5, <1>6, <2>1 DEF Continued, Reached
<1>8. k + 1 \in 1..N /\ k + 1 \in 0..N /\ k + 1 - 1 = k /\ k # N
  <2>1. start[N] = Len(str)
    BY <1>6 DEF Continued, Laid
  <2>2. k # N
    BY <1>2, <1>3, <1>7, <2>1
  <2> QED
    BY <1>7, <2>2
<1>9. n < start[k + 1] /\ At(parser, commands[k + 1], n - start[k])
  BY <1>5, <1>6, <1>8 DEF Continued, Reached
<1>10. ASSUME NEW i \in 1..N, NEW l, l + 1 = i, l \in 0..N
       PROVE  /\ commands[i] \in Payloads /\ Len(commands[i]) \in 1..255
              /\ start[i] = start[l] + 7 + Len(commands[i])
              /\ Part(Message(commands[i]), str, start[l], start[i])
  <2>1. i - 1 = l
    BY <1>10
  <2>2. /\ commands[i] \in Payloads /\ Len(commands[i]) \in 1..255
        /\ start[i] = start[i - 1] + 7 + Len(commands[i])
    BY <1>6, Places
  <2>3. Part(Message(commands[i]), str, start[i - 1], start[i])
    BY <1>6 DEF Continued, Laid
  <2> QED
    BY <2>1, <2>2, <2>3
<1>11. PICK p : p = commands[k + 1]
  OBVIOUS
<1>12. /\ p \in Payloads /\ start[k] \in Nat /\ start[k + 1] = start[k] + 7 + Len(p)
      /\ Len(p) \in 1..255
  <2>1. start[k] \in 0..Len(str)
    BY <1>6, <1>7, Places
  <2>2. start[k] \in Nat
    BY <1>2, <2>1
  <2> QED
    BY <1>7, <1>8, <1>10, <1>11, <2>2
<1>13. PICK a \in Nat : a = start[k]
  BY <1>12
<1>14. a <= n /\ n < a + 7 + Len(p)
  BY <1>7, <1>9, <1>12, <1>13
<1>15. PICK b : b = Head(reading)
  OBVIOUS
<1>16. b = Message(p)[n + 1 - a]
  <2>1. Part(Message(p), str, a, start[k + 1])
    BY <1>7, <1>8, <1>10, <1>11, <1>13
  <2>2. Len(Message(p)) = 7 + Len(p)
    BY <1>12, MessageIs
  <2>3. n + 1 - a \in 1..7 + Len(p) /\ a + (n + 1 - a) = n + 1
    BY <1>2, <1>12, <1>14
  <2> QED
    BY <1>3, <1>15, <2>1, <2>2, <2>3 DEF Part
<1>17. IsParser(parser) /\ At(parser, p, n - a)
  BY <1>9, <1>11, <1>13 DEF ReceiverTypes
<1>18. Laid(str, start)'
  BY <1>1 DEF Continued, Laid
<1>19. PICK i \in Nat : i = n + 1
  BY <1>2
<1>20. \/ /\ i < a + 7 + Len(p) /\ parser.dataState # 4
          /\ At(parser', p, i - a)
       \/ /\ i = a + 7 + Len(p) /\ parser.dataState = 4 /\ parser.payload = p
          /\ parser.sumcheck = b /\ parser'.dataState = 0
  <2>1. parser' = Read(parser, b)
    BY <1>1, <1>15
  <2> QED
    BY <1>2, <1>12, <1>14, <1>16, <1>17, <1>19, <2>1, CommandRead
<1>21. Len(commands') = N /\ commands' = commands /\ commands \in Seq(Payloads)
  BY <1>1, <1>6 DEF ReceiverTypes
<1>22. ASSUME NEW m, NEW l, l = Len(arrived'), l \in 0..Len(commands'),
              arrived' = SubSeq(commands', 1, l), start[l] <= m,
              \/ l = Len(commands') /\ parser'.dataState = 0
              \/ /\ l # Len(commands') /\ m < start[l + 1]
                 /\ At(parser', commands'[l + 1], m - start[l])
       PROVE  Reached(m, start)'
  BY <1>22 DEF Reached
<1>23. ASSUME i < a + 7 + Len(p) PROVE Reached(i, start)'
  <2>1. parser.dataState # 4 /\ At(parser', p, i - a)
    BY <1>2, <1>12, <1>20, <1>23
  <2>2. arrived' = arrived
    BY <2>1 DEF ReadByte
  <2>3. i < start[k + 1] /\ start[k] <= i
    BY <1>2, <1>12, <1>13, <1>14, <1>19, <1>23
  <2>4. At(parser', commands'[k + 1], i - start[k])
    BY <1>11, <1>13, <1>21, <2>1
  <2>5. Len(arrived') = k /\ arrived' = SubSeq(commands', 1, k)
    BY <1>5, <1>7, <1>21, <2>2
  <2> QED
    <3>1. k \in 0..N /\ k # N /\ Len(commands') = N
      BY <1>7, <1>8, <1>21
    <3> QED
      BY <1>22, <2>3, <2>4, <2>5, <3>1
<1>24. ASSUME i = a + 7 + Len(p) PROVE Reached(i, start)'
  <2>1. parser.dataState = 4 /\ parser.payload = p /\ parser.sumcheck = b /\ parser'.dataState = 0
    BY <1>2, <1>12, <1>20, <1>24
  <2>2. arrived' = Append(arrived, p)
    BY <1>15, <2>1 DEF ReadByte
  <2>3. Len(arrived') = k + 1 /\ arrived' = SubSeq(commands', 1, k + 1)
    <3>1. k \in 0..Len(commands) /\ k + 1 \in 1..Len(commands)
      BY <1>6, <1>7, <1>8
    <3>2. Append(SubSeq(commands, 1, k), commands[k + 1]) = SubSeq(commands, 1, k + 1)
      BY <1>21, <3>1
    <3>3. Len(SubSeq(commands, 1, k + 1)) = k + 1
      BY <1>21, <3>1
    <3> QED
      BY <1>7, <1>11, <1>21, <2>2, <3>2, <3>3
  <2>4. start[k + 1] = i /\ start[k + 1] <= i
    BY <1>2, <1>12, <1>13, <1>24
  <2>5. ASSUME k + 1 # N
        PROVE  /\ i < start[k + 1 + 1]
               /\ At(parser', commands'[k + 1 + 1], i - start[k + 1])
    <3>1. k + 1 + 1 \in 1..N /\ k + 1 \in 0..N
      BY <1>7, <1>8, <2>5
    <3>2. /\ start[k + 1 + 1] = start[k + 1] + 7 + Len(commands[k + 1 + 1])
          /\ Len(commands[k + 1 + 1]) \in 1..255
      BY <1>8, <1>10, <3>1
    <3>3. \A x \in Nat, l \in 1..255 : x < x + 7 + l /\ x - x = 0
      OBVIOUS
    <3>4. i < start[k + 1 + 1] /\ i - start[k + 1] = 0
      BY <2>4, <3>2, <3>3
    <3>5. At(parser', commands[k + 1 + 1], 0)
      BY <2>1, <3>2 DEF At
    <3> QED
      BY <1>21, <3>4, <3>5
  <2> QED
    <3>1. k + 1 \in 0..N /\ Len(commands') = N
      BY <1>8, <1>21
    <3>2. CASE k + 1 = N
      BY <1>22, <2>1, <2>3, <2>4, <3>1, <3>2
    <3>3. CASE k + 1 # N
      BY <1>22, <2>3, <2>4, <2>5, <3>1, <3>3
    <3> QED
      BY <3>2, <3>3
<1>25. Reached(i, start)'
  <2>1. i < a + 7 + Len(p) \/ i = a + 7 + Len(p)
    BY <1>20
  <2> QED
    BY <1>23, <1>24, <2>1, Zenon
<1> QED
  BY <1>4, <1>18, <1>19, <1>25 DEF Continued

LEMMA ReceiverInvKept == ReceiverInv /\ [ReceiverNext]_receiverVars => ReceiverInv'
<1> SUFFICES ASSUME ReceiverInv, [ReceiverNext]_receiverVars PROVE ReceiverInv'
  OBVIOUS
<1>1. ReceiverTypes /\ ReceiverTypes'
  BY ReceiverTypesKept DEF ReceiverInv
<1> SUFFICES ASSUME inStep' PROVE \E str, start, n, cut : Continued(str, start, n, cut)'
  BY <1>1 DEF ReceiverInv
<1>2. CASE TakePiece
  <2>1. inStep
    BY <1>2 DEF TakePiece
  <2>2. PICK str, start, n, cut : Continued(str, start, n, cut)
    BY <2>1 DEF ReceiverInv
  <2> QED
    BY <1>1, <1>2, <2>2, PieceTaken
<1>3. CASE ReadByte
  <2>1. inStep
    BY <1>3 DEF ReadByte
  <2>2. PICK str, start, n, cut : Continued(str, start, n, cut)
    BY <2>1 DEF ReceiverInv
  <2> QED
    BY <1>1, <1>3, <2>2, ByteRead
<1>4. ASSUME NEW m \in 1..Len(wire), DataEvent(m)
      PROVE  \E str, start, n, cut : Continued(str, start, n, cut)'
  <2>1. inStep
    BY <1>4 DEF DataEvent
  <2>2. PICK str, start, n, cut : Continued(str, start, n, cut)
    BY <2>1 DEF ReceiverInv
  <2> QED
    BY <1>1, <1>4, <2>2, PieceComes
<1>5. ASSUME NEW p \in Payloads, ServerSends(p)
      PROVE  \E str, start, n, cut : Continued(str, start, n, cut)'
  <2>1. CASE AllRead
    BY <1>1, <1>5, <2>1, SendsFirst
  <2>2. CASE ~AllRead
    <3>1. inStep
      BY <1>5, <2>2 DEF ServerSends
    <3>2. PICK str, start, n, cut : Continued(str, start, n, cut)
      BY <3>1 DEF ReceiverInv
    <3> QED
      BY <1>1, <1>5, <2>2, <3>2, SendsNext
  <2> QED
    BY <2>1, <2>2
\* what the others change matters only when nothing is on the wire
<1>6. ASSUME inStep, UNCHANGED <<wire, mail, reading, parser, commands, arrived>>
      PROVE  \E str, start, n, cut : Continued(str, start, n, cut)'
  <2>1. PICK str, start, n, cut : Continued(str, start, n, cut)
    BY <1>6 DEF ReceiverInv
  <2>2. Laid(str, start)' /\ Cuts(str, n, cut)' /\ Reached(n, start)'
    BY <1>6, <2>1 DEF Continued, Laid, Cuts, Reached
  <2> QED
    BY <2>2 DEF Continued
<1>7. CASE ConnectionLost
  BY <1>6, <1>7 DEF ConnectionLost
<1>8. CASE ConnectionUp
  BY <1>6, <1>8 DEF ConnectionUp
<1>9. ASSUME NEW m \in 1..Len(wire), DataDropped(m) PROVE FALSE
  BY <1>9 DEF DataDropped
<1>10. CASE UNCHANGED receiverVars
  BY <1>6, <1>10 DEF receiverVars
<1> QED
  BY <1>2, <1>3, <1>4, <1>5, <1>7, <1>8, <1>9, <1>10 DEF ReceiverNext, Receiver, Network, Server

LEMMA ReceiverInvWhole == ReceiverInv => WholeCommands
<1> SUFFICES ASSUME ReceiverInv, inStep
             PROVE  /\ arrived = SubSeq(commands, 1, Len(arrived)) /\ ~broken
                    /\ AllRead => arrived = commands
  BY DEF WholeCommands
<1>1. ReceiverTypes
  BY DEF ReceiverInv
<1>2. PICK str, start, n, cut : Continued(str, start, n, cut)
  BY DEF ReceiverInv
<1>3. PICK k : k = Len(arrived)
  OBVIOUS
<1>4. PICK N : N = Len(commands)
  OBVIOUS
<1>5. /\ k \in 0..N /\ N \in Nat /\ arrived = SubSeq(commands, 1, k) /\ start[k] <= n
      /\ n \in Nat /\ Len(str) \in Nat
  <2>1. N \in Nat /\ n \in Nat /\ Len(str) \in Nat
    BY <1>1, <1>2, <1>4, Places
  <2> QED
    BY <1>2, <1>3, <1>4, <2>1 DEF Continued, Reached
<1>6. k = N => parser.dataState = 0
  BY <1>2, <1>3, <1>4 DEF Continued, Reached
<1>7. k # N => n < start[k + 1] /\ At(parser, commands[k + 1], n - start[k])
  BY <1>2, <1>3, <1>4 DEF Continued, Reached
<1>8. ASSUME k # N
      PROVE  /\ start[k] \in Nat /\ start[k + 1] \in 0..Len(str)
             /\ Len(commands[k + 1]) \in 1..255
             /\ start[k + 1] = start[k] + 7 + Len(commands[k + 1])
  <2>1. k + 1 \in 1..N /\ k + 1 - 1 = k /\ k \in 0..N /\ k + 1 \in 0..N
    BY <1>5, <1>8
  <2>2. start[k] \in 0..Len(str) /\ start[k + 1] \in 0..Len(str)
    BY <1>1, <1>2, <1>4, <2>1, Places
  <2>3. \A i \in 1..N, l \in 0..N :
          l = i - 1 => /\ start[i] = start[l] + 7 + Len(commands[i])
                       /\ Len(commands[i]) \in 1..255
    BY <1>1, <1>2, <1>4, Places
  <2>4. /\ start[k + 1] = start[k] + 7 + Len(commands[k + 1])
        /\ Len(commands[k + 1]) \in 1..255
    BY <2>1, <2>3
  <2>5. start[k] \in Nat
    BY <1>5, <2>2
  <2> QED
    BY <2>2, <2>4, <2>5
<1>9. ~broken
  <2>1. CASE k = N
    <3>1. parser.dataState # 3
      BY <1>6, <2>1
    <3> QED
      BY <1>1, <3>1 DEF ReceiverTypes, NoRoom
  <2>2. CASE k # N
    <3>1. PICK L \in 1..255 : L = Len(commands[k + 1])
      BY <1>8, <2>2
    <3>2. PICK j \in Nat : j = n - start[k] /\ j <= 6 + L
      <4>1. n - start[k] \in Nat /\ n - start[k] <= 6 + L
        BY <1>5, <1>7, <1>8, <2>2, <3>1
      <4> QED
        BY <4>1
    <3>3. At(parser, commands[k + 1], j)
      BY <1>7, <2>2, <3>2
    <3>4. j \in 6..5 + L \/ j \in {0, 1} \/ j \in 2..5 \/ j = 6 + L
      BY <3>2
    <3>5. parser.dataState = 3 => parser.payloadLen = L
      BY <3>1, <3>3, <3>4 DEF At
    <3> QED
      BY <1>1, <3>5 DEF ReceiverTypes, NoRoom
  <2> QED
    BY <2>1, <2>2
<1>10. ASSUME AllRead PROVE arrived = commands
  <2>1. n = Len(str)
    <3>1. /\ Len(reading) = cut[0] - n /\ Len(wire) = Len(str) - cut[Len(mail)]
      BY <1>2 DEF Continued, Cuts, Part
    <3>2. Len(reading) = 0 /\ Len(wire) = 0 /\ Len(mail) = 0
      BY <1>10 DEF AllRead
    <3>3. cut[0] \in Nat
      <4>1. 0 \in 0..Len(mail)
        BY <3>2
      <4>2. cut[0] \in 0..Len(str)
        BY <1>1, <1>2, <4>1, Places
      <4> QED
        BY <1>5, <4>2
    <3> QED
      BY <1>5, <3>1, <3>2, <3>3
  <2>2. k = N
    BY <1>5, <1>7, <1>8, <2>1
  <2> QED
    BY <1>1, <1>4, <1>5, <2>2 DEF ReceiverTypes
<1> QED
  BY <1>3, <1>5, <1>9, <1>10

\* As long as nothing is lost the commands of the server are handled whole, in order and
\* without one more, whatever they are, however TCP cuts them and however many buffers
\* there are.
THEOREM CommandsAreWhole == ReceiverSpec => []WholeCommands
<1>1. ReceiverSpec => []ReceiverInv
  BY ReceiverStarts, ReceiverInvKept, PTL DEF ReceiverSpec
<1> QED
  BY <1>1, ReceiverInvWhole, PTL
=============================================================================
