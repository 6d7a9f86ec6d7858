------------------------------ MODULE ConfigPort ------------------------------
(***************************************************************************)
(* The settings of the controller: its boot from the FRAM, the serial port *)
(* whose interrupt fills a ring that the polling thread reads, the         *)
(* commands that change the settings, and the power that may fail anywhere.*)
(***************************************************************************)
EXTENDS Integers, Sequences, FiniteSets, SequencesExt

CONSTANTS
  Block,       \* the fields of LOCALM in their order, written as one block at first
  Values,      \* what a client sets
  Default,     \* what a new controller starts with
  Unset,       \* what a FRAM holds that was never written
  Torn,        \* what a write leaves that the power cut short
  Size,        \* CONFIG_BUF_SIZE
  Menu,        \* bound: the commands a client chooses from
  MaxCommands, \* bound: commands sent
  MaxOutages   \* bound: power failures

Settable == Range(Block) \cup {"endpoint"}
Fields == Settable \cup {"mac"}

(* The parameters are one value, or none or two of them where the length   *)
(* is wrong.                                                               *)
Lengths == <<"none", "right", "long">>
Count(l) == CHOOSE n \in 0..2 : Lengths[n + 1] = l
Commands == [item : Settable, params : UNION {[1..n -> Values] : n \in 0..2}]
              \cup {[item |-> "whoami", params |-> <<>>]}
Bytes == {"fe", "fc", "whoami", "none", "right", "long"} \cup Settable \cup Values
Encode(c) == <<"fe", "fc", c.item, Lengths[Len(c.params) + 1]>> \o c.params

ASSUME ConfigPortAssumption ==
  /\ "endpoint" \notin Range(Block) /\ "mac" \notin Range(Block)
  /\ Menu \subseteq Commands
  /\ Size \in Nat \ {0} /\ MaxCommands \in Nat /\ MaxOutages \in Nat
  /\ Unset \notin Bytes \cup {Default, Torn}

VARIABLES
  pc,       \* where the boot, and then the polling thread, is
  ident,    \* FRAM: the identifier is there
  mem, ram, \* the settings in the FRAM; in localm, eth0_config and serviceEndpoint
  buffer, count, \* the ring and how far the driver has filled it
  rx_busy,  \* the driver receives
  head, tail, \* ConfigComm
  seen,     \* what GetRxCount has returned
  dataState, command, len, params, \* the parser
  line,     \* bytes on the wire
  outages,  \* how often the power failed
  asked, done, \* history: the commands sent, and executed, since the last boot
  unread,   \* history: bytes received and not read
  inStep,   \* history: never were Size bytes unread, nor did reception stop
  acked,    \* history: the values confirmed with 0 and not set anew since
  cut       \* history: the power failed during a first boot

settings == <<ident, mem, ram>>
ring == <<buffer, count, rx_busy, line>>
parser == <<dataState, command, len, params>>
history == <<asked, done, inStep, acked, cut>>
vars == <<pc, settings, ring, head, tail, seen, parser, outages, unread, history>>

Running == {"poll", "tail", "parse", "write", "answer"}
FirstBoot == {"ident", "mac", "block", "endpoint"}

Defaults == [f \in Fields |-> Default]
Erased == [i \in 0..Size - 1 |-> Unset]

Init ==
  /\ pc = "off" /\ ident = FALSE
  /\ mem = [f \in Fields |-> Unset] /\ ram = Defaults
  /\ buffer = Erased /\ count = 0 /\ rx_busy = TRUE
  /\ head = 0 /\ tail = 0 /\ seen = 0
  /\ dataState = "delimiter1" /\ command = "whoami" /\ len = 0 /\ params = <<>>
  /\ line = <<>> /\ outages = 0
  /\ asked = <<>> /\ done = <<>> /\ unread = 0 /\ inStep = TRUE
  /\ acked = [f \in Settable |-> Unset] /\ cut = FALSE

-----------------------------------------------------------------------------
(* Power and boot.                                                         *)

\* FRAM::Init
PowerOn ==
  /\ pc = "off"
  /\ pc' = IF ident THEN "load" ELSE "ident"
  /\ UNCHANGED <<settings, ring, head, tail, seen, parser, outages, unread, history>>

\* ConfigComm::Start, with a ring and a parser that are as they were at power-on
Start ==
  /\ pc' = "poll"
  /\ UNCHANGED <<ring, head, tail, seen, parser, outages, unread, history>>

\* FRAM::WriteMemory of everything in fs, done
Written(fs) == mem' = [f \in Fields |-> IF f \in fs THEN ram[f] ELSE mem[f]]

InBoot == UNCHANGED <<ram, ring, head, tail, seen, parser, outages, unread, history>>

WriteIdent == /\ pc = "ident" /\ ident' = TRUE /\ pc' = "mac"
              /\ UNCHANGED mem /\ InBoot

GenerateMacAddress == /\ pc = "mac" /\ Written({"mac"}) /\ pc' = "block"
                      /\ UNCHANGED ident /\ InBoot

WriteBlock == /\ pc = "block" /\ Written(Range(Block)) /\ pc' = "endpoint"
              /\ UNCHANGED ident /\ InBoot

\* a mutated WriteEndpoint, left to the next time it is set
WriteEndpointLater == /\ pc = "endpoint" /\ Start
                      /\ UNCHANGED settings

WriteEndpoint == /\ pc = "endpoint" /\ Written({"endpoint"}) /\ Start
                 /\ UNCHANGED <<ident, ram>>

Load == /\ pc = "load" /\ ram' = mem /\ Start
        /\ UNCHANGED <<ident, mem>>

\* what WriteMemory writes when the thread is at p, in this order
UnderWay(p) == CASE p = "mac" -> <<"mac">>
                 [] p = "block" -> Block
                 [] p = "endpoint" -> <<"endpoint">>
                 [] p = "write" -> <<command>>
                 [] OTHER -> <<>>

\* the power fails; of a write under way some fields are done and one may be torn
PowerFails ==
  /\ pc # "off" /\ outages < MaxOutages
  /\ outages' = outages + 1
  /\ pc' = "off"
  /\ LET fs == UnderWay(pc) IN
     \E n \in 0..Len(fs), torn \in BOOLEAN :
       mem' = [f \in Fields |->
                 CASE f \in Range(SubSeq(fs, 1, n)) -> ram[f]
                   [] n < Len(fs) /\ torn /\ f = fs[n + 1] -> Torn
                   [] OTHER -> mem[f]]
  /\ IF pc = "ident" THEN ident' \in BOOLEAN ELSE UNCHANGED ident
  /\ ram' = Defaults
  /\ buffer' = Erased /\ count' = 0 /\ rx_busy' = TRUE /\ line' = <<>>
  /\ head' = 0 /\ tail' = 0 /\ seen' = 0 /\ unread' = 0
  /\ dataState' = "delimiter1" /\ command' = "whoami" /\ len' = 0 /\ params' = <<>>
  /\ asked' = <<>> /\ done' = <<>> /\ inStep' = TRUE
  /\ cut' = (cut \/ pc \in FirstBoot)
  /\ UNCHANGED acked

-----------------------------------------------------------------------------
(* The client and the receive interrupt.                                   *)

Send(c) ==
  /\ pc \in Running /\ inStep /\ Len(asked) < MaxCommands
  /\ asked' = Append(asked, c)
  /\ line' = line \o Encode(c)
  /\ UNCHANGED <<pc, settings, buffer, count, rx_busy, head, tail, seen, parser, outages, done,
                 unread, inStep, acked, cut>>

\* a mutated Receive, whose callback takes the next round to begin where the reader is
ReceiveAtHead ==
  /\ pc \in Running /\ line # <<>> /\ inStep
  /\ buffer' = [buffer EXCEPT ![count] = Head(line)]
  /\ line' = Tail(line)
  /\ count' = (count + 1) % Size
  /\ tail' = IF count' = 0 THEN head ELSE tail
  /\ unread' = unread + 1
  /\ inStep' = (inStep /\ unread' < Size)
  /\ UNCHANGED <<pc, settings, rx_busy, head, seen, parser, outages, asked, done, acked, cut>>

\* the driver stores a byte; when the ring is full, UARTCallback starts a new round
\* (bound: nothing arrives any more once a whole ring was lost)
Receive ==
  /\ pc \in Running /\ line # <<>> /\ inStep
  /\ buffer' = [buffer EXCEPT ![count] = Head(line)]
  /\ line' = Tail(line)
  /\ count' = (count + 1) % Size
  /\ tail' = IF count' = 0 THEN 0 ELSE tail
  /\ unread' = unread + 1
  /\ inStep' = (inStep /\ unread' < Size)
  /\ UNCHANGED <<pc, settings, rx_busy, head, seen, parser, outages, asked, done, acked, cut>>

\* the driver signals another event with the last byte: no case of the switch is equal to
\* both, and reception is not started again
ReceiveUnmatched ==
  /\ pc \in Running /\ line # <<>> /\ inStep
  /\ count = Size - 1
  /\ buffer' = [buffer EXCEPT ![count] = Head(line)]
  /\ line' = Tail(line)
  /\ rx_busy' = FALSE
  /\ unread' = unread + 1
  /\ inStep' = FALSE
  /\ UNCHANGED <<pc, settings, count, head, tail, seen, parser, outages, asked, done, acked, cut>>

-----------------------------------------------------------------------------
(* The polling thread: ConfigComm::DataReceiver.                           *)

NotReceiving == pc = "poll" /\ ~rx_busy /\ UNCHANGED vars

GetRxCount ==
  /\ pc = "poll" /\ rx_busy
  /\ seen' = count
  /\ pc' = "tail"
  /\ UNCHANGED <<settings, ring, head, tail, parser, outages, unread, history>>

\* by now the interrupt may have begun a new round
SetTail ==
  /\ pc = "tail"
  /\ tail' = seen
  /\ pc' = "parse"
  /\ UNCHANGED <<settings, ring, head, seen, parser, outages, unread, history>>

AllRead ==
  /\ pc = "parse" /\ tail = head
  /\ pc' = "poll"
  /\ UNCHANGED <<settings, ring, head, tail, seen, parser, outages, unread, history>>

Advance == head' = (head + 1) % Size /\ unread' = IF unread > 0 THEN unread - 1 ELSE 0

\* the byte that completes a command, and the parameters that come with it
Arrived(b) == \/ dataState = "length" /\ b = "none"
              \/ dataState = "parameters" /\ Len(params) + 1 >= len
ArrivedParams(b) == IF dataState = "length" THEN <<>> ELSE Append(params, b)

ParseByte ==
  /\ pc = "parse" /\ tail # head
  /\ LET b == buffer[head] IN
     /\ ~Arrived(b)
     /\ dataState' = CASE dataState = "delimiter1" -> IF b = "fe" THEN "delimiter2" ELSE "delimiter1"
                       [] dataState = "delimiter2" -> IF b = "fc" THEN "command" ELSE "delimiter1"
                       [] dataState = "command" -> "length"
                       [] OTHER -> "parameters"
     /\ command' = IF dataState = "command" THEN b ELSE command
     /\ len' = IF dataState # "length" THEN len
               ELSE IF b \in Range(Lengths) THEN Count(b) ELSE 2
     /\ params' = CASE dataState = "length" -> <<>>
                    [] dataState = "parameters" -> Append(params, b)
                    [] OTHER -> params
  /\ Advance
  /\ UNCHANGED <<pc, settings, ring, tail, seen, outages, history>>

\* NetworkConfig::CommandArrival, up to the write or the answer
CommandArrival ==
  /\ pc = "parse" /\ tail # head /\ Arrived(buffer[head])
  /\ LET ps == ArrivedParams(buffer[head])
         set == command \in Settable /\ Len(ps) = 1
     IN /\ params' = ps
        /\ done' = Append(done, [item |-> command, params |-> ps])
        /\ IF set /\ ram[command] # ps[1]
           THEN /\ ram' = [ram EXCEPT ![command] = ps[1]]
                /\ acked' = [acked EXCEPT ![command] = Unset]
                /\ pc' = "write"
           ELSE pc' = "answer" /\ UNCHANGED <<ram, acked>>
  /\ UNCHANGED <<ident, mem, ring, head, tail, seen, dataState, command, len, outages, asked,
                 unread, inStep, cut>>

\* a mutated WriteMemory, which forgets the offset in the block
WriteMemoryAtBlock ==
  /\ pc = "write"
  /\ mem' = [mem EXCEPT ![IF command = "endpoint" THEN command ELSE Block[1]] = ram[command]]
  /\ pc' = "answer"
  /\ UNCHANGED <<ident, ram, ring, head, tail, seen, parser, outages, unread, history>>

\* SetIpConfig writes the one field and has the server connection opened anew
WriteMemory ==
  /\ pc = "write"
  /\ Written({command})
  /\ pc' = "answer"
  /\ UNCHANGED <<ident, ram, ring, head, tail, seen, parser, outages, unread, history>>

\* SendData of the acknowledgement, 0 if the length was right
Answer ==
  /\ pc = "answer"
  /\ acked' = IF command \in Settable /\ Len(params) = 1
              THEN [acked EXCEPT ![command] = params[1]] ELSE acked
  /\ dataState' = "delimiter1" /\ params' = <<>>
  /\ Advance
  /\ pc' = "parse"
  /\ UNCHANGED <<settings, ring, tail, seen, command, len, outages, asked, done, inStep, cut>>

Boot == WriteIdent \/ GenerateMacAddress \/ WriteBlock \/ WriteEndpoint \/ Load
DataReceiver == \/ NotReceiving \/ GetRxCount \/ SetTail \/ AllRead \/ ParseByte
                \/ CommandArrival \/ WriteMemory \/ Answer

Next == PowerOn \/ PowerFails \/ Boot \/ (\E c \in Menu : Send(c)) \/ Receive \/ ReceiveUnmatched
        \/ DataReceiver

Spec == Init /\ [][Next]_vars

\* the power comes back, the wire moves and the threads run
FairSpec == Spec /\ WF_vars(PowerOn) /\ WF_vars(Boot) /\ WF_vars(Receive) /\ WF_vars(DataReceiver)

-----------------------------------------------------------------------------
(* Properties.                                                             *)

\* A set command acknowledged with 0 (NetworkConfig.cpp:145-149) outlives every power
\* failure and boot until the field is set anew: the FRAM holds its value, and so does
\* the memory the controller runs with.
AckedSurvives ==
  \A f \in Settable : acked[f] # Unset =>
    mem[f] = acked[f] /\ (pc \in Running => ram[f] = acked[f])

\* Once running the controller never works with a setting that was never written, unless
\* its very first boot was cut short (FRAM.cpp:84 marks the image valid before the rest).
RunsConfigured == pc \in Running /\ ~cut => \A f \in Fields : ram[f] # Unset

\* The commands executed are those the client sent, in order and once each, whenever the
\* interrupt begins a new round, and all of them in the end, unless the reader falls a
\* whole ring behind, reception stops or the power fails.
EveryCommandDone ==
  \A n \in 1..MaxCommands :
    Len(asked) >= n ~> \/ Len(done) >= n /\ IsPrefix(SubSeq(done, 1, n), asked)
                       \/ ~inStep \/ pc = "off"
=============================================================================
