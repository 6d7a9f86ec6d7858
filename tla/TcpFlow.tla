------------------------------- MODULE TcpFlow -------------------------------
(***************************************************************************)
(* Commands on their way to the server: SendData of three threads cuts     *)
(* them into segments on one queue, the main thread sends one at a time    *)
(* and opens the connection again; any of them may abort it.  The network  *)
(* stack runs in net_main, which only the main thread calls.               *)
(***************************************************************************)
EXTENDS Integers, Sequences, FiniteSets

CONSTANTS
  Main,        \* the main thread
  Others,      \* the other threads that send: the heartbeat timer, the inventory
  Sockets,     \* what tcp_get_socket hands out
  None,        \* NULL
  Error,       \* what tcp_get_socket returns with no socket left
  Capacity,    \* segments on the queue: TCP_BUFFER_NUM * 2
  MaxSegments, \* bound: segments of a command
  MaxCommands, \* bound: commands sent
  MaxEvents    \* bound: lost connections, lost links and new endpoints

Threads == Others \cup {Main}

ASSUME TcpFlowAssumption ==
  /\ Main \notin Others /\ IsFiniteSet(Others)
  /\ None \notin Sockets /\ Error \notin Sockets /\ None # Error
  /\ Capacity \in Nat \ {0} /\ MaxSegments \in Nat \ {0}
  /\ MaxCommands \in Nat /\ MaxEvents \in Nat

VARIABLES
  pc,        \* where each thread is
  cmd,       \* the command a thread sends: its number, its segments, those queued
  tcpSocket, conn, ack, \* members of TcpClient
  queue,     \* mailSid
  tokens,    \* semaphoreSid
  table,     \* sockets in tcp_table
  state,     \* stack: the state of every socket
  unacked,   \* stack: sockets with data the server has not acknowledged
  link,      \* PHY: the link is up
  sent, events, \* how many commands and events there were
  stream,    \* history: the segments sent in the present connection
  clean,     \* history: it began with nothing queued, nobody inside SendData, and since
             \* then no command was sent into another one, nobody gave it up, and no
             \* segment was too long for the server
  alone      \* history: no two threads were in AbortConnection at once

clientVars == <<tcpSocket, conn, ack, table>>
queueVars == <<queue, tokens>>
stackVars == <<state, unacked, link>>
vars == <<pc, cmd, clientVars, queueVars, stackVars, sent, events, stream, clean, alone>>

Commands == [id : 1..MaxCommands, segs : 1..MaxSegments, next : 1..MaxSegments]
Segments == [id : 1..MaxCommands, seg : 1..MaxSegments, last : BOOLEAN]

Sending == {"semaphore", "alloc"}
Aborting == {"drain", "drained", "abort", "release", "null"}
MainOnly == {"processor", "tx", "free", "send", "rx"}
Idle(t) == IF t = Main THEN "net_main" ELSE "idle"

Goto(t, l) == pc' = [pc EXCEPT ![t] = l]

\* nobody is inside SendData, nor in the AbortConnection that it may end with
NobodySends == \A t \in Threads : pc[t] \notin Sending \cup Aborting

Init ==
  /\ pc = [t \in Threads |-> Idle(t)]
  /\ cmd = [t \in Threads |-> None]
  /\ tcpSocket = None /\ conn = FALSE /\ ack = TRUE
  /\ queue = <<>> /\ tokens = Capacity
  /\ table = {}
  /\ state = [s \in Sockets |-> "UNUSED"] /\ unacked = {} /\ link = TRUE
  /\ sent = 0 /\ events = 0
  /\ stream = <<>> /\ clean = FALSE /\ alone = TRUE

-----------------------------------------------------------------------------
(* SendData, by any thread; the main thread when a server command needs an *)
(* answer.                                                                 *)

SendData(t) ==
  /\ pc[t] = IF t = Main THEN "rx" ELSE "idle"
  /\ conn /\ sent < MaxCommands
  /\ sent' = sent + 1
  /\ \E n \in 1..MaxSegments : cmd' = [cmd EXCEPT ![t] = [id |-> sent', segs |-> n, next |-> 1]]
  /\ clean' = (clean /\ NobodySends)
  /\ Goto(t, "semaphore")
  /\ UNCHANGED <<clientVars, queueVars, stackVars, events, stream, alone>>

TakeToken(t) ==
  /\ pc[t] = "semaphore" /\ tokens > 0
  /\ tokens' = tokens - 1
  /\ Goto(t, "alloc")
  /\ UNCHANGED <<cmd, clientVars, queue, stackVars, sent, events, stream, clean, alone>>

BeginAbort(t) ==
  /\ Goto(t, "drain")
  /\ clean' = FALSE
  /\ alone' = (alone /\ \A u \in Threads : pc[u] \notin Aborting)

\* out of resources
GiveUp(t) ==
  /\ pc[t] = "semaphore" /\ tokens = 0
  /\ cmd' = [cmd EXCEPT ![t] = None]
  /\ BeginAbort(t)
  /\ UNCHANGED <<clientVars, queueVars, stackVars, sent, events, stream>>

\* osMailAlloc waits for a free block, for ever if need be
PutSegment(t) ==
  /\ pc[t] = "alloc" /\ Len(queue) < Capacity
  /\ LET c == cmd[t]
         last == c.next = c.segs
     IN /\ queue' = Append(queue, [id |-> c.id, seg |-> c.next, last |-> last])
        /\ cmd' = [cmd EXCEPT ![t] = IF last THEN None ELSE [c EXCEPT !.next = @ + 1]]
        /\ Goto(t, IF last THEN Idle(t) ELSE "semaphore")
  /\ UNCHANGED <<clientVars, tokens, stackVars, sent, events, stream, clean, alone>>

-----------------------------------------------------------------------------
(* AbortConnection, by any thread.                                         *)

\* a mutated DrainMail, which fills the semaphore as txCount is filled
DrainMailFull(t) ==
  /\ pc[t] = "drain"
  /\ queue' = <<>> /\ tokens' = Capacity
  /\ Goto(t, "abort")
  /\ UNCHANGED <<cmd, clientVars, stackVars, sent, events, stream, clean, alone>>

DrainMail(t) ==
  /\ pc[t] = "drain"
  /\ IF queue = <<>> THEN Goto(t, "abort") /\ UNCHANGED queue
     ELSE Goto(t, "drained") /\ queue' = Tail(queue)
  /\ UNCHANGED <<cmd, clientVars, tokens, stackVars, sent, events, stream, clean, alone>>

DrainToken(t) ==
  /\ pc[t] = "drained"
  /\ tokens' = tokens + 1
  /\ Goto(t, "drain")
  /\ UNCHANGED <<cmd, clientVars, queue, stackVars, sent, events, stream, clean, alone>>

tcp_abort(s) == /\ state' = IF s \in Sockets /\ state[s] # "UNUSED"
                            THEN [state EXCEPT ![s] = "CLOSED"] ELSE state
                /\ unacked' = unacked \ {s}

Abort(t) ==
  /\ pc[t] = "abort"
  /\ IF tcpSocket = None
     THEN Goto(t, Idle(t)) /\ UNCHANGED <<conn, state, unacked>>
     ELSE Goto(t, "release") /\ conn' = FALSE /\ tcp_abort(tcpSocket)
  /\ UNCHANGED <<cmd, tcpSocket, ack, table, queueVars, link, sent, events, stream, clean, alone>>

\* a mutated Release, which only forgets the socket
ReleaseForgets(t) ==
  /\ pc[t] = "release"
  /\ table' = table \ {tcpSocket}
  /\ Goto(t, "null")
  /\ UNCHANGED <<cmd, tcpSocket, conn, ack, queueVars, stackVars, sent, events, stream, clean, alone>>

Release(t) ==
  /\ pc[t] = "release"
  /\ state' = IF tcpSocket \in Sockets THEN [state EXCEPT ![tcpSocket] = "UNUSED"] ELSE state
  /\ unacked' = unacked \ {tcpSocket}
  /\ table' = table \ {tcpSocket}
  /\ Goto(t, "null")
  /\ UNCHANGED <<cmd, tcpSocket, conn, ack, queueVars, link, sent, events, stream, clean, alone>>

SetNull(t) ==
  /\ pc[t] = "null"
  /\ tcpSocket' = None
  /\ Goto(t, Idle(t))
  /\ UNCHANGED <<cmd, conn, ack, table, queueVars, stackVars, sent, events, stream, clean, alone>>

-----------------------------------------------------------------------------
(* The main thread: TcpProcessor.                                          *)

tcp_check_send(s) == s \in Sockets /\ state[s] = "ESTABLISHED" /\ s \notin unacked

Processor ==
  /\ pc[Main] = "net_main"
  /\ Goto(Main, "processor")
  /\ UNCHANGED <<cmd, clientVars, queueVars, stackVars, sent, events, stream, clean, alone>>

LinkIsDown ==
  /\ pc[Main] = "processor" /\ ~link
  /\ IF tcpSocket # None /\ conn
     THEN conn' = FALSE /\ BeginAbort(Main)
     ELSE Goto(Main, "net_main") /\ UNCHANGED <<conn, clean, alone>>
  /\ UNCHANGED <<cmd, tcpSocket, ack, table, queueVars, stackVars, sent, events, stream>>

Free == {s \in Sockets : state[s] = "UNUSED"}

GetSocket ==
  /\ pc[Main] = "processor" /\ link /\ tcpSocket = None
  /\ IF Free = {} THEN tcpSocket' = Error /\ UNCHANGED state
     ELSE \E s \in Free : tcpSocket' = s /\ state' = [state EXCEPT ![s] = "CLOSED"]
  /\ table' = table \cup {tcpSocket'}
  /\ conn' = FALSE
  /\ Goto(Main, "net_main")
  /\ UNCHANGED <<cmd, ack, queueVars, unacked, link, sent, events, stream, clean, alone>>

\* a socket given back by another thread in between cannot connect
Connect ==
  /\ pc[Main] = "processor" /\ link /\ tcpSocket \in Sockets
  /\ state[tcpSocket] \in {"UNUSED", "CLOSED"}
  /\ state' = IF state[tcpSocket] = "CLOSED"
              THEN [state EXCEPT ![tcpSocket] = "CONNECTING"] ELSE state
  /\ conn' = FALSE
  /\ Goto(Main, "net_main")
  /\ UNCHANGED <<cmd, tcpSocket, ack, table, queueVars, unacked, link, sent, events, stream,
                 clean, alone>>

Pending ==
  /\ pc[Main] = "processor" /\ link /\ tcpSocket # None
  /\ tcpSocket \in Sockets => state[tcpSocket] = "CONNECTING"
  /\ Goto(Main, "net_main")
  /\ UNCHANGED <<cmd, clientVars, queueVars, stackVars, sent, events, stream, clean, alone>>

Established ==
  /\ pc[Main] = "processor" /\ link /\ tcpSocket \in Sockets
  /\ state[tcpSocket] = "ESTABLISHED"
  /\ conn' = TRUE
  /\ Goto(Main, "tx")
  /\ UNCHANGED <<cmd, tcpSocket, ack, table, queueVars, stackVars, sent, events, stream, clean,
                 alone>>

\* TxProcessor takes a segment and frees its block, then releases the semaphore
TakeSegment ==
  /\ pc[Main] = "tx"
  /\ IF (ack \/ tcp_check_send(tcpSocket)) /\ queue # <<>>
     THEN /\ cmd' = [cmd EXCEPT ![Main] = Head(queue)] /\ queue' = Tail(queue)
          /\ Goto(Main, "free")
     ELSE Goto(Main, "rx") /\ UNCHANGED <<cmd, queue>>
  /\ UNCHANGED <<clientVars, tokens, stackVars, sent, events, stream, clean, alone>>

FreeToken ==
  /\ pc[Main] = "free"
  /\ tokens' = tokens + 1
  /\ Goto(Main, "send")
  /\ UNCHANGED <<cmd, clientVars, queue, stackVars, sent, events, stream, clean, alone>>

\* the server has announced a shorter tcp_max_data_size: the segment is dropped
DropSegment ==
  /\ pc[Main] = "free"
  /\ tokens' = tokens + 1
  /\ cmd' = [cmd EXCEPT ![Main] = None]
  /\ clean' = FALSE
  /\ Goto(Main, "rx")
  /\ UNCHANGED <<clientVars, queue, stackVars, sent, events, stream, alone>>

\* a mutated SendSegment, which leaves ack as it was
SendSegmentUnmarked ==
  /\ pc[Main] = "send" /\ tcp_check_send(tcpSocket)
  /\ stream' = Append(stream, cmd[Main])
  /\ cmd' = [cmd EXCEPT ![Main] = None]
  /\ unacked' = unacked \cup {tcpSocket}
  /\ Goto(Main, "rx")
  /\ UNCHANGED <<clientVars, queueVars, state, link, sent, events, clean, alone>>

\* a mutated SendSegment, which reads the block after it was freed and perhaps used again
SendSegmentFreed ==
  /\ pc[Main] = "send" /\ tcp_check_send(tcpSocket)
  /\ stream' = Append(stream, IF queue = <<>> THEN cmd[Main] ELSE queue[Len(queue)])
  /\ cmd' = [cmd EXCEPT ![Main] = None]
  /\ unacked' = unacked \cup {tcpSocket}
  /\ ack' = FALSE
  /\ Goto(Main, "rx")
  /\ UNCHANGED <<tcpSocket, conn, table, queueVars, state, link, sent, events, clean, alone>>

\* waits in steps of 5 ms until tcp_check_send
SendSegment ==
  /\ pc[Main] = "send" /\ tcp_check_send(tcpSocket)
  /\ stream' = Append(stream, cmd[Main])
  /\ cmd' = [cmd EXCEPT ![Main] = None]
  /\ unacked' = unacked \cup {tcpSocket}
  /\ ack' = FALSE
  /\ Goto(Main, "rx")
  /\ UNCHANGED <<tcpSocket, conn, table, queueVars, state, link, sent, events, clean, alone>>

\* DataReceiver, with nothing to answer
NoAnswer ==
  /\ pc[Main] = "rx"
  /\ Goto(Main, "net_main")
  /\ UNCHANGED <<cmd, clientVars, queueVars, stackVars, sent, events, stream, clean, alone>>

-----------------------------------------------------------------------------
(* The stack, in net_main, and what comes from outside.                    *)

Event == events < MaxEvents /\ events' = events + 1

Opened(s) ==
  /\ pc[Main] = "net_main" /\ link /\ state[s] = "CONNECTING"
  /\ state' = [state EXCEPT ![s] = "ESTABLISHED"]
  /\ ack' = (ack \/ s \in table)
  /\ stream' = <<>>
  /\ clean' = (queue = <<>> /\ NobodySends)
  /\ UNCHANGED <<pc, cmd, tcpSocket, conn, table, queueVars, unacked, link, sent, events, alone>>

Acknowledged(s) ==
  /\ pc[Main] = "net_main" /\ link /\ state[s] = "ESTABLISHED" /\ s \in unacked
  /\ unacked' = unacked \ {s}
  /\ ack' = (ack \/ s \in table)
  /\ UNCHANGED <<pc, cmd, tcpSocket, conn, table, queueVars, state, link, sent, events, stream,
                 clean, alone>>

\* closed or reset by the server, timed out, or refused
Lost(s) ==
  /\ pc[Main] = "net_main" /\ state[s] \in {"CONNECTING", "ESTABLISHED"}
  /\ Event
  /\ state' = [state EXCEPT ![s] = "CLOSED"] /\ unacked' = unacked \ {s}
  /\ UNCHANGED <<pc, cmd, clientVars, queueVars, link, sent, stream, clean, alone>>

\* ChangeServiceEndpoint, from the thread that serves the configuration port
ChangeServiceEndpoint ==
  /\ Event
  /\ tcpSocket # None /\ tcp_abort(tcpSocket)
  /\ UNCHANGED <<pc, cmd, clientVars, queueVars, link, sent, stream, clean, alone>>

LinkDown ==
  /\ link /\ link' = FALSE
  /\ Event
  /\ UNCHANGED <<pc, cmd, clientVars, queueVars, state, unacked, sent, stream, clean, alone>>

LinkUp ==
  /\ ~link /\ link' = TRUE
  /\ UNCHANGED <<pc, cmd, clientVars, queueVars, state, unacked, sent, events, stream, clean,
                 alone>>

Step(t) == \/ TakeToken(t) \/ GiveUp(t) \/ PutSegment(t) \/ DrainMail(t) \/ DrainToken(t)
           \/ Abort(t) \/ Release(t) \/ SetNull(t)
TcpProcessor == \/ Processor \/ LinkIsDown \/ GetSocket \/ Connect \/ Pending \/ Established
                \/ TakeSegment \/ FreeToken \/ DropSegment \/ SendSegment \/ NoAnswer
Stack(s) == Opened(s) \/ Acknowledged(s)
Outside == ChangeServiceEndpoint \/ LinkDown \/ LinkUp

Next == \/ \E t \in Threads : SendData(t) \/ Step(t)
        \/ TcpProcessor
        \/ \E s \in Sockets : Stack(s) \/ Lost(s)
        \/ Outside

Spec == Init /\ [][Next]_vars

\* the threads run, the server answers, a cable is plugged in again
Fairness == /\ \A t \in Threads : WF_vars(Step(t))
            /\ WF_vars(TcpProcessor)
            /\ \A s \in Sockets : SF_vars(Opened(s)) /\ SF_vars(Acknowledged(s))
            /\ WF_vars(LinkUp)
FairSpec == Spec /\ Fairness

-----------------------------------------------------------------------------
(* Properties.                                                             *)

\* The variables keep their types.
TypeOK ==
  /\ pc \in [Threads -> {"idle", "net_main"} \cup Sending \cup Aborting \cup MainOnly]
  /\ cmd \in [Threads -> Commands \cup Segments \cup {None}]
  /\ tcpSocket \in Sockets \cup {None, Error}
  /\ conn \in BOOLEAN /\ ack \in BOOLEAN /\ link \in BOOLEAN
  /\ queue \in Seq(Segments)
  /\ tokens \in 0..Capacity
  /\ table \subseteq Sockets \cup {Error} /\ unacked \subseteq Sockets
  /\ state \in [Sockets -> {"UNUSED", "CLOSED", "CONNECTING", "ESTABLISHED"}]
  /\ sent \in 0..MaxCommands /\ events \in 0..MaxEvents
  /\ stream \in Seq(Segments) /\ clean \in BOOLEAN /\ alone \in BOOLEAN

\* Whoever took a token finds a free block: osMailAlloc(osWaitForever) never waits,
\* whichever threads send, drain the queue and abort at the same time.
NeverBlocks == \A t \in Threads : pc[t] = "alloc" => Len(queue) < Capacity

\* The main thread never waits in TxProcessor for an acknowledgement that only its own
\* net_main can bring; what it may wait for is a connection others took away. (Two
\* aborts at once may leave a lost socket whose events count for the new one.)
WaitsForNoAck ==
  alone /\ pc[Main] \in {"free", "send"} /\ tcpSocket \in Sockets /\ state[tcpSocket] = "ESTABLISHED"
    => tcp_check_send(tcpSocket)

\* If commands never overlap and none was queued before, what the server sees of a
\* connection is whole commands one after the other, the last one perhaps unfinished.
StreamIsWhole ==
  clean => \A i \in DOMAIN stream :
             IF stream[i].seg = 1 THEN i > 1 => stream[i - 1].last
             ELSE /\ i > 1 /\ ~stream[i - 1].last
                  /\ stream[i - 1].id = stream[i].id /\ stream[i - 1].seg = stream[i].seg - 1

\* As long as the connection is aborted by one thread at a time, no socket is lost: what
\* the stack has handed out is what TcpClient knows.
NoSocketLost == alone => \A s \in Sockets : state[s] # "UNUSED" => s = tcpSocket

\* The main thread waits in TxProcessor for a connection that is gone, or after two
\* aborts at once for any.
Stranded == /\ pc[Main] = "send" /\ ~tcp_check_send(tcpSocket)
            /\ alone => tcpSocket \notin Sockets \/ state[tcpSocket] # "ESTABLISHED"

\* What is queued leaves, over as many connections as it takes, unless the main thread
\* waits for a connection another thread took away, or the sockets are used up.
QueueEmpties == queue # <<>> ~> (queue = <<>> \/ Stranded \/ tcpSocket = Error)
=============================================================================
