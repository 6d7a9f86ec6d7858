---------------------------- MODULE CommandStream ----------------------------
(***************************************************************************)
(* Commands on their way from the server: TCP cuts them anywhere, the      *)
(* network stack copies each piece into a buffer of a small pool, and the  *)
(* parser of TcpClient, which knows nothing of connections, puts commands  *)
(* together.                                                               *)
(***************************************************************************)
EXTENDS Integers, Sequences

CONSTANTS
  Payloads,   \* what the server may send
  Pool,       \* TCP_BUFFER_NUM
  Burst,      \* bound: commands the server sends before all that came is read
  MaxLosses   \* bound: connections and pieces lost

ASSUME CommandStreamAssumption ==
  /\ \A p \in Payloads : p \in Seq(0..255) /\ Len(p) \in 1..255
  /\ Pool \in Nat \ {0} /\ Burst \in Nat \ {0} /\ MaxLosses \in Nat

VARIABLES
  up,         \* the connection is established
  wire,       \* bytes sent in this connection that have not come
  mail,       \* mailRid: pieces that came
  reading,    \* the piece DataReceiver is at, its buffer still taken
  parser,     \* the static variables of the parser
  broken,     \* it took a length for which the heap has no room, or zero
  handled,    \* the command that the byte just read completed
  losses,
  commands, arrived, \* history: sent and handled since all that came was read
  inStep      \* history: the parser was in step at that time and nothing was lost since

receiverVars ==
  <<up, wire, mail, reading, parser, broken, handled, losses, commands, arrived, inStep>>

DataHeader == <<170, 68>>
\* for each number of bytes of s, the sum of these
Sums(s) == LET total[k \in 0..Len(s)] == IF k = 0 THEN 0 ELSE (total[k - 1] + s[k]) % 256
           IN  total

\* header, length in four bytes, payload, sum of all that
Summed(p) == <<DataHeader[1], DataHeader[2], Len(p), 0, 0, 0>> \o p
Message(p) == Append(Summed(p), Sums(Summed(p))[Len(Summed(p))])

Fresh == [dataState |-> 0, readIndex |-> 0, payload |-> <<>>, payloadLen |-> 0, sumcheck |-> 0]

ReceiverInit ==
  /\ up = FALSE /\ wire = <<>> /\ mail = <<>> /\ reading = <<>>
  /\ parser = Fresh /\ broken = FALSE /\ handled = <<>> /\ losses = 0
  /\ commands = <<>> /\ arrived = <<>> /\ inStep = TRUE

-----------------------------------------------------------------------------
(* The parser: what byte b does to q, by the state it is in.               *)

Header0(q, b) ==
  IF b = DataHeader[1] THEN [q EXCEPT !.dataState = 1, !.payloadLen = 0, !.readIndex = 0] ELSE q

Header1(q, b) ==
  [q EXCEPT !.dataState = IF b = DataHeader[2] THEN 2 ELSE 0,
            !.sumcheck = (DataHeader[1] + DataHeader[2]) % 256]

\* 256 stands for every length that needs more than the first byte
Length(q, b) ==
  [q EXCEPT !.sumcheck = (@ + b) % 256,
            !.payloadLen = IF q.readIndex = 0 THEN b ELSE IF b = 0 THEN @ ELSE 256,
            !.payload = <<>>,
            !.dataState = IF q.readIndex = 3 THEN 3 ELSE 2,
            !.readIndex = (@ + 1) % 4]

Payload(q, b) ==
  LET last == q.readIndex + 1 >= q.payloadLen IN
  [q EXCEPT !.sumcheck = (@ + b) % 256,
            !.payload = Append(@, b),
            !.readIndex = IF last THEN 0 ELSE @ + 1,
            !.dataState = IF last THEN 4 ELSE 3]

\* a mutated Sumcheck, which waits for the right one
SumcheckWaits(q, b) ==
  IF b = q.sumcheck THEN [q EXCEPT !.dataState = 0, !.payload = <<>>, !.payloadLen = 0] ELSE q

Sumcheck(q, b) == [q EXCEPT !.dataState = 0, !.payload = <<>>, !.payloadLen = 0]

Read(q, b) == CASE q.dataState = 0 -> Header0(q, b)
                [] q.dataState = 1 -> Header1(q, b)
                [] q.dataState = 2 -> Length(q, b)
                [] q.dataState = 3 -> Payload(q, b)
                [] q.dataState = 4 -> Sumcheck(q, b)

\* zero, or more than the heap has
NoRoom(q) == q.dataState = 3 /\ q.payloadLen \notin 1..255

-----------------------------------------------------------------------------
(* The network.                                                            *)

AllRead == wire = <<>> /\ mail = <<>> /\ reading = <<>>

ServerSends(p) ==
  /\ up
  /\ wire' = wire \o Message(p)
  /\ \/ /\ AllRead
        /\ commands' = <<p>> /\ arrived' = <<>>
        /\ inStep' = (parser.dataState = 0)
     \/ /\ ~AllRead /\ Len(commands) < Burst
        /\ commands' = Append(commands, p)
        /\ UNCHANGED <<arrived, inStep>>
  /\ UNCHANGED <<up, mail, reading, parser, broken, handled, losses>>

ConnectionLost ==
  /\ up /\ losses < MaxLosses
  /\ losses' = losses + 1
  /\ up' = FALSE /\ wire' = <<>>
  /\ inStep' = (inStep /\ wire = <<>>)
  /\ UNCHANGED <<mail, reading, parser, broken, handled, commands, arrived>>

ConnectionUp ==
  /\ ~up
  /\ up' = TRUE
  /\ UNCHANGED <<wire, mail, reading, parser, broken, handled, losses, commands, arrived, inStep>>

InUse == Len(mail) + (IF reading = <<>> THEN 0 ELSE 1)

\* tcpEventData with a buffer for the n bytes of the piece
DataEvent(n) ==
  /\ up /\ n \in 1..Len(wire) /\ InUse < Pool
  /\ mail' = Append(mail, SubSeq(wire, 1, n))
  /\ wire' = SubSeq(wire, n + 1, Len(wire))
  /\ UNCHANGED <<up, reading, parser, broken, handled, losses, commands, arrived, inStep>>

\* without one: the stack has acknowledged the piece, and it is gone
DataDropped(n) ==
  /\ up /\ n \in 1..Len(wire) /\ InUse = Pool /\ losses < MaxLosses
  /\ losses' = losses + 1
  /\ wire' = SubSeq(wire, n + 1, Len(wire))
  /\ inStep' = FALSE
  /\ UNCHANGED <<up, mail, reading, parser, broken, handled, commands, arrived>>

-----------------------------------------------------------------------------
(* The main thread.                                                        *)

\* a mutated TakePiece, before a parser whose variables are not static
TakePieceAfresh ==
  /\ up /\ ~broken /\ reading = <<>> /\ mail # <<>>
  /\ reading' = Head(mail) /\ mail' = Tail(mail)
  /\ parser' = Fresh
  /\ UNCHANGED <<up, wire, broken, handled, losses, commands, arrived, inStep>>

TakePiece ==
  /\ up /\ ~broken /\ reading = <<>> /\ mail # <<>>
  /\ reading' = Head(mail) /\ mail' = Tail(mail)
  /\ UNCHANGED <<up, wire, parser, broken, handled, losses, commands, arrived, inStep>>

\* one turn of the loop, with the handler if a command is complete
ReadByte ==
  /\ ~broken /\ reading # <<>>
  /\ parser' = Read(parser, Head(reading))
  /\ reading' = Tail(reading)
  /\ broken' = NoRoom(parser')
  /\ IF parser.dataState = 4 /\ Head(reading) = parser.sumcheck
     THEN arrived' = Append(arrived, parser.payload) /\ handled' = parser.payload
     ELSE UNCHANGED arrived /\ handled' = <<>>
  /\ UNCHANGED <<up, wire, mail, losses, commands, inStep>>

Receiver == TakePiece \/ ReadByte
Network == \E n \in 1..Len(wire) : DataEvent(n)
Server == \E p \in Payloads : ServerSends(p)

ReceiverNext == \/ Receiver \/ Network \/ Server \/ ConnectionLost \/ ConnectionUp
        \/ \E n \in 1..Len(wire) : DataDropped(n)

ReceiverSpec == ReceiverInit /\ [][ReceiverNext]_receiverVars
FairReceiver ==
  /\ ReceiverSpec
  /\ WF_receiverVars(Receiver) /\ WF_receiverVars(Network)
  /\ WF_receiverVars(Server) /\ WF_receiverVars(ConnectionUp)

-----------------------------------------------------------------------------
(* Properties.                                                             *)

\* As long as nothing is lost the commands of the server are handled whole, in order and
\* without one more, however TCP cuts them and whatever bytes of a header they contain;
\* this holds again, after any loss, from the first time that the parser is in step.
WholeCommands ==
  inStep => /\ arrived = SubSeq(commands, 1, Len(arrived)) /\ ~broken
            /\ AllRead => arrived = commands

\* A parser that lost its place, in a command cut short by a lost connection or a dropped
\* piece, finds it again among the commands that follow, unless it takes a length from the
\* wrong bytes for which the heap has no room.
Recovers == <>broken \/ <>[]inStep
=============================================================================
