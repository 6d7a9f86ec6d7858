--------------------------- MODULE ConfigPort_proofs ---------------------------
(***************************************************************************)
(* For any block of fields, any ring and any power failures, what was      *)
(* acknowledged survives, and no setting that was never written is used.   *)
(* The first needs only what the FRAM and the memory hold at every step of *)
(* the boot and of a command; the second also that the parser never takes  *)
(* a cell of the ring that was never filled, which is a matter of its      *)
(* first round.                                                            *)
(***************************************************************************)
EXTENDS ConfigPort, SequenceTheorems, TLAPS

TypeStore ==
  /\ mem \in [Fields -> Bytes \cup {Default, Unset, Torn}]
  /\ ram \in [Fields -> Bytes \cup {Default, Unset, Torn}]
  /\ acked \in [Settable -> Bytes \cup {Unset}]
  /\ ident \in BOOLEAN /\ cut \in BOOLEAN
  /\ pc \in Running \cup FirstBoot \cup {"off", "load"}

TypeParser ==
  /\ command \in Bytes
  /\ params \in Seq(Bytes)

TypeRing ==
  /\ buffer \in [0..Size - 1 -> Bytes \cup {Unset}]
  /\ count \in 0..Size - 1 /\ head \in 0..Size - 1
  /\ tail \in 0..Size - 1 /\ seen \in 0..Size - 1
  /\ line \in Seq(Bytes)

\* in its first round the ring is filled up to count, and read behind that
FirstRound == \E i \in 0..Size - 1 : buffer[i] = Unset
Behind ==
  FirstRound =>
    /\ \A i \in 0..count - 1 : buffer[i] # Unset
    /\ head <= tail /\ tail <= seen /\ seen <= count
    /\ pc \in {"write", "answer"} => head < tail

\* the FRAM in the course of a first boot, and then
Written1 ==
  /\ pc = "block" => mem["mac"] = ram["mac"]
  /\ pc = "endpoint" => \A f \in Fields \ {"endpoint"} : mem[f] = ram[f]
  /\ pc \in Running => \A f \in Fields : mem[f] = ram[f] \/ (pc = "write" /\ f = command)
  /\ pc \in Running \cup {"load", "mac", "block", "endpoint"} => ident

Acknowledged ==
  /\ \A f \in Settable : acked[f] # Unset => ident /\ pc \notin FirstBoot /\ mem[f] = acked[f]
  /\ pc = "write" => command \in Settable /\ acked[command] = Unset
  /\ pc \in {"write", "answer"} /\ command \in Settable /\ Len(params) = 1 =>
       ram[command] = params[1]

Configured ==
  /\ ~cut /\ ident /\ pc \notin FirstBoot => \A f \in Fields : mem[f] # Unset
  /\ ~cut /\ pc \in Running => \A f \in Fields : ram[f] # Unset
  /\ pc \notin Running => ram = Defaults

Inv == TypeStore /\ TypeParser /\ TypeRing /\ Behind /\ Written1 /\ Acknowledged /\ Configured

-----------------------------------------------------------------------------

LEMMA EncodeIsBytes ==
  ASSUME NEW c \in Menu
  PROVE  Encode(c) \in Seq(Bytes)
<1>1. c.item \in Bytes /\ c.params \in Seq(Values) /\ Len(c.params) \in 0..2
  <2>1. CASE c \in [item : Settable, params : UNION {[1..n -> Values] : n \in 0..2}]
    <3>1. PICK n \in 0..2 : c.params \in [1..n -> Values]
      BY <2>1
    <3>2. c.params \in Seq(Values) /\ Len(c.params) = n
      BY <3>1
    <3> QED
      BY <2>1, <3>2 DEF Bytes
  <2>2. CASE c = [item |-> "whoami", params |-> <<>>]
    <3>1. c.item = "whoami" /\ c.params = <<>>
      BY <2>2
    <3>2. <<>> \in Seq(Values) /\ Len(<<>>) = 0
      BY EmptySeq
    <3> QED
      BY <3>1, <3>2 DEF Bytes
  <2> QED
    <3>1. c \in Commands
      BY ConfigPortAssumption
    <3>2. c \in [item : Settable, params : UNION {[1..n -> Values] : n \in 0..2}]
          \/ c \in {[item |-> "whoami", params |-> <<>>]}
      BY <3>1, Zenon DEF Commands
    <3> QED
      BY <3>2, <2>1, <2>2, Zenon
<1>2. Lengths[Len(c.params) + 1] \in Bytes
  <2>1. Lengths[1] \in Bytes /\ Lengths[2] \in Bytes /\ Lengths[3] \in Bytes
    BY DEF Lengths, Bytes
  <2>2. ASSUME NEW n \in 0..2 PROVE Lengths[n + 1] \in Bytes
    <3>1. n + 1 = 1 \/ n + 1 = 2 \/ n + 1 = 3
      OBVIOUS
    <3> QED
      BY <2>1, <3>1, Zenon
  <2> QED
    BY <1>1, <2>2, Zenon
<1>3. c.params \in Seq(Bytes)
  BY <1>1 DEF Bytes
<1>4. "fe" \in Bytes /\ "fc" \in Bytes
  BY DEF Bytes
<1>5. <<"fe", "fc", c.item, Lengths[Len(c.params) + 1]>> \in Seq(Bytes)
  BY <1>1, <1>2, <1>4
<1> QED
  BY <1>3, <1>5, ConcatProperties DEF Encode

LEMMA InvInit == Init => Inv
<1> SUFFICES ASSUME Init PROVE Inv
  OBVIOUS
<1> USE ConfigPortAssumption
<1>1. TypeStore
  BY DEF Init, TypeStore, Defaults
<1>2. TypeParser /\ TypeRing
  BY DEF Init, TypeParser, TypeRing, Erased, Bytes
<1>3. Behind
  BY DEF Init, Behind, FirstRound, Erased
<1>4. Written1 /\ Acknowledged /\ Configured
  BY DEF Init, Written1, Acknowledged, Configured, Running, FirstBoot, Defaults
<1> QED
  BY <1>1, <1>2, <1>3, <1>4 DEF Inv
LEMMA NextByte ==
  ASSUME TypeRing, Behind, tail # head
  PROVE  buffer[head] \in Bytes
<1>1. CASE FirstRound
  BY <1>1 DEF TypeRing, Behind
<1>2. CASE ~FirstRound
  BY <1>2 DEF TypeRing, FirstRound
<1> QED
  BY <1>1, <1>2

LEMMA NextIndex ==
  ASSUME NEW n \in 0..Size - 1
  PROVE  (n + 1) % Size = IF n + 1 = Size THEN 0 ELSE n + 1
<1> QED
  BY ConfigPortAssumption

LEMMA InvNext == Inv /\ [Next]_vars => Inv'
<1> SUFFICES ASSUME Inv, [Next]_vars PROVE Inv'
  OBVIOUS
<1> USE ConfigPortAssumption DEF Inv, settings, ring, parser, history, Running, FirstBoot
<1>1. CASE PowerOn
  <2>1. TypeParser'
    BY <1>1 DEF TypeParser, TypeRing, PowerOn
  <2>2. TypeStore'
    BY <1>1 DEF TypeStore, TypeParser, TypeRing, PowerOn
  <2>3. TypeRing'
    BY <1>1 DEF TypeRing, PowerOn
  <2>4. Behind'
    BY <1>1 DEF TypeStore, TypeRing, Behind, FirstRound, PowerOn
  <2>5. Written1'
    BY <1>1 DEF TypeStore, Written1, PowerOn
  <2>6. Acknowledged'
    BY <1>1 DEF TypeStore, TypeParser, Written1, Acknowledged, PowerOn
  <2>7. Configured'
    BY <1>1 DEF TypeStore, TypeParser, TypeRing, Behind, Written1, Configured, PowerOn
  <2> QED
    BY <2>1, <2>2, <2>3, <2>4, <2>5, <2>6, <2>7 DEF Inv
<1>2. CASE PowerFails
  <2>1. TypeParser'
    BY <1>2, EmptySeq DEF TypeParser, PowerFails, Bytes
  <2>2. TypeStore'
    BY <1>2 DEF TypeStore, TypeParser, TypeRing, PowerFails, UnderWay, Defaults, Erased
  <2>3. TypeRing'
    BY <1>2 DEF TypeRing, PowerFails, UnderWay, Defaults, Erased
  <2>4. Behind'
    BY <1>2 DEF TypeStore, TypeRing, Behind, FirstRound, PowerFails, UnderWay, Defaults, Erased
  <2>5. Written1'
    BY <1>2 DEF TypeStore, Written1, PowerFails, UnderWay, Defaults, Erased
  <2>6. Acknowledged'
    <3>1. ASSUME NEW f \in Settable, acked'[f] # Unset
          PROVE  ident' /\ mem'[f] = acked'[f]
      <4>1. pc \notin FirstBoot /\ ident /\ mem[f] = acked[f] /\ acked' = acked
        BY <1>2, <3>1 DEF Acknowledged, PowerFails
      <4>2. f \notin Range(UnderWay(pc))
        BY <4>1, <3>1 DEF Acknowledged, UnderWay, Range
      <4>3. UnderWay(pc) \in Seq(Settable)
        BY <4>1 DEF Acknowledged, UnderWay
      <4>4. mem'[f] = mem[f]
        <5>1. PICK n \in 0..Len(UnderWay(pc)), torn \in BOOLEAN :
                mem' = [g \in Fields |->
                          CASE g \in Range(SubSeq(UnderWay(pc), 1, n)) -> ram[g]
                            [] n < Len(UnderWay(pc)) /\ torn /\ g = UnderWay(pc)[n + 1] -> Torn
                            [] OTHER -> mem[g]]
          BY <1>2, Zenon DEF PowerFails
        <5>2. f \notin Range(SubSeq(UnderWay(pc), 1, n))
          BY <4>2, <4>3, SubSeqProperties DEF Range
        <5>3. ~(n < Len(UnderWay(pc)) /\ f = UnderWay(pc)[n + 1])
          BY <4>2, <4>3 DEF Range
        <5> QED
          BY <5>1, <5>2, <5>3 DEF Fields
      <4> QED
        BY <1>2, <4>1, <4>4 DEF PowerFails
    <3> QED
      BY <1>2, <3>1 DEF Acknowledged, PowerFails
  <2>7. Configured'
    BY <1>2 DEF TypeStore, TypeParser, TypeRing, Behind, Written1, Configured, PowerFails, UnderWay, Defaults, Erased
  <2> QED
    BY <2>1, <2>2, <2>3, <2>4, <2>5, <2>6, <2>7 DEF Inv
<1>3. CASE WriteIdent
  <2>1. TypeParser'
    BY <1>3 DEF TypeParser, TypeRing, WriteIdent, InBoot
  <2>2. TypeStore'
    BY <1>3 DEF TypeStore, TypeParser, TypeRing, WriteIdent, InBoot
  <2>3. TypeRing'
    BY <1>3 DEF TypeRing, WriteIdent, InBoot
  <2>4. Behind'
    BY <1>3 DEF TypeStore, TypeRing, Behind, FirstRound, WriteIdent, InBoot
  <2>5. Written1'
    BY <1>3 DEF TypeStore, Written1, WriteIdent, InBoot
  <2>6. Acknowledged'
    BY <1>3 DEF TypeStore, TypeParser, Written1, Acknowledged, WriteIdent, InBoot
  <2>7. Configured'
    BY <1>3 DEF TypeStore, TypeParser, TypeRing, Behind, Written1, Configured, WriteIdent, InBoot
  <2> QED
    BY <2>1, <2>2, <2>3, <2>4, <2>5, <2>6, <2>7 DEF Inv
<1>4. CASE GenerateMacAddress
  <2>1. TypeParser'
    BY <1>4 DEF TypeParser, TypeRing, GenerateMacAddress, InBoot, Written
  <2>2. TypeStore'
    BY <1>4 DEF TypeStore, TypeParser, TypeRing, GenerateMacAddress, InBoot, Written
  <2>3. TypeRing'
    BY <1>4 DEF TypeRing, GenerateMacAddress, InBoot, Written
  <2>4. Behind'
    BY <1>4 DEF TypeStore, TypeRing, Behind, FirstRound, GenerateMacAddress, InBoot, Written
  <2>5. Written1'
    BY <1>4 DEF TypeStore, Written1, GenerateMacAddress, InBoot, Written, Fields
  <2>6. Acknowledged'
    BY <1>4 DEF TypeStore, TypeParser, Written1, Acknowledged, GenerateMacAddress, InBoot, Written
  <2>7. Configured'
    BY <1>4 DEF TypeStore, TypeParser, TypeRing, Behind, Written1, Configured, GenerateMacAddress, InBoot, Written
  <2> QED
    BY <2>1, <2>2, <2>3, <2>4, <2>5, <2>6, <2>7 DEF Inv
<1>5. CASE WriteBlock
  <2>1. TypeParser'
    BY <1>5 DEF TypeParser, TypeRing, WriteBlock, InBoot, Written
  <2>2. TypeStore'
    BY <1>5 DEF TypeStore, TypeParser, TypeRing, WriteBlock, InBoot, Written
  <2>3. TypeRing'
    BY <1>5 DEF TypeRing, WriteBlock, InBoot, Written
  <2>4. Behind'
    BY <1>5 DEF TypeStore, TypeRing, Behind, FirstRound, WriteBlock, InBoot, Written
  <2>5. Written1'
    BY <1>5 DEF TypeStore, Written1, WriteBlock, InBoot, Written, Fields, Settable
  <2>6. Acknowledged'
    BY <1>5 DEF TypeStore, TypeParser, Written1, Acknowledged, WriteBlock, InBoot, Written
  <2>7. Configured'
    BY <1>5 DEF TypeStore, TypeParser, TypeRing, Behind, Written1, Configured, WriteBlock, InBoot, Written
  <2> QED
    BY <2>1, <2>2, <2>3, <2>4, <2>5, <2>6, <2>7 DEF Inv
<1>6. CASE WriteEndpoint
  <2>1. TypeParser'
    BY <1>6 DEF TypeParser, TypeRing, WriteEndpoint, Start, Written
  <2>2. TypeStore'
    BY <1>6 DEF TypeStore, TypeParser, TypeRing, WriteEndpoint, Start, Written
  <2>3. TypeRing'
    BY <1>6 DEF TypeRing, WriteEndpoint, Start, Written
  <2>4. Behind'
    BY <1>6 DEF TypeStore, TypeRing, Behind, FirstRound, WriteEndpoint, Start, Written
  <2>5. Written1'
    <3>1. \A f \in Fields : mem'[f] = ram'[f]
      BY <1>6 DEF TypeStore, Written1, WriteEndpoint, Start, Written, Fields, Settable
    <3>2. pc' = "poll" /\ ident' = ident
      BY <1>6 DEF WriteEndpoint, Start
    <3>3. ident
      BY <1>6 DEF Written1, WriteEndpoint
    <3> QED
      BY <3>1, <3>2, <3>3 DEF Written1
  <2>6. Acknowledged'
    BY <1>6 DEF TypeStore, TypeParser, Written1, Acknowledged, WriteEndpoint, Start, Written
  <2>7. Configured'
    <3>1. ram = Defaults /\ ram' = ram /\ pc' = "poll"
      BY <1>6 DEF Configured, WriteEndpoint, Start
    <3>2. \A f \in Fields : mem'[f] = ram'[f]
      BY <1>6 DEF TypeStore, Written1, WriteEndpoint, Start, Written, Fields, Settable
    <3> QED
      BY <3>1, <3>2 DEF Configured, Defaults
  <2> QED
    BY <2>1, <2>2, <2>3, <2>4, <2>5, <2>6, <2>7 DEF Inv
<1>7. CASE Load
  <2>1. TypeParser'
    BY <1>7 DEF TypeParser, TypeRing, Load, Start
  <2>2. TypeStore'
    BY <1>7 DEF TypeStore, TypeParser, TypeRing, Load, Start
  <2>3. TypeRing'
    BY <1>7 DEF TypeRing, Load, Start
  <2>4. Behind'
    BY <1>7 DEF TypeStore, TypeRing, Behind, FirstRound, Load, Start
  <2>5. Written1'
    BY <1>7 DEF TypeStore, Written1, Load, Start
  <2>6. Acknowledged'
    BY <1>7 DEF TypeStore, TypeParser, Written1, Acknowledged, Load, Start
  <2>7. Configured'
    BY <1>7 DEF TypeStore, TypeParser, TypeRing, Behind, Written1, Configured, Load, Start
  <2> QED
    BY <2>1, <2>2, <2>3, <2>4, <2>5, <2>6, <2>7 DEF Inv
<1>8. CASE Receive
  <2>1. TypeParser'
    BY <1>8 DEF TypeParser, TypeRing, Receive
  <2>2. TypeStore'
    BY <1>8 DEF TypeStore, TypeParser, TypeRing, Receive
  <2>3. TypeRing'
    BY <1>8 DEF TypeRing, Receive
  <2>4. Behind'
    <3>1. ASSUME FirstRound' PROVE FirstRound /\ count' = count + 1
      <4>1. FirstRound
        BY <1>8, <3>1 DEF TypeRing, FirstRound, Receive, Bytes
      <4>2. count + 1 # Size
        BY <1>8, <3>1, <4>1 DEF TypeRing, FirstRound, Receive, Behind
      <4> QED
        BY <1>8, <4>1, <4>2, NextIndex DEF TypeRing, Receive
    <3>2. ASSUME FirstRound', NEW i \in 0..count' - 1 PROVE buffer'[i] # Unset
      BY <1>8, <3>1, <3>2 DEF TypeRing, Receive, Behind
    <3> QED
      BY <1>8, <3>1, <3>2 DEF TypeRing, Receive, Behind
  <2>5. Written1'
    BY <1>8 DEF TypeStore, Written1, Receive
  <2>6. Acknowledged'
    BY <1>8 DEF TypeStore, TypeParser, Written1, Acknowledged, Receive
  <2>7. Configured'
    BY <1>8 DEF TypeStore, TypeParser, TypeRing, Behind, Written1, Configured, Receive
  <2> QED
    BY <2>1, <2>2, <2>3, <2>4, <2>5, <2>6, <2>7 DEF Inv
<1>9. CASE ReceiveUnmatched
  <2>1. TypeParser'
    BY <1>9 DEF TypeParser, TypeRing, ReceiveUnmatched
  <2>2. TypeStore'
    BY <1>9 DEF TypeStore, TypeParser, TypeRing, ReceiveUnmatched
  <2>3. TypeRing'
    BY <1>9 DEF TypeRing, ReceiveUnmatched
  <2>4. Behind'
    <3>1. ASSUME FirstRound' PROVE FALSE
      <4>1. FirstRound
        BY <1>9, <3>1 DEF TypeRing, FirstRound, ReceiveUnmatched, Bytes
      <4>2. \A i \in 0..Size - 1 : buffer'[i] # Unset
        BY <1>9, <4>1 DEF TypeRing, ReceiveUnmatched, Behind
      <4> QED
        BY <3>1, <4>2 DEF FirstRound
    <3> QED
      BY <3>1 DEF Behind
  <2>5. Written1'
    BY <1>9 DEF TypeStore, Written1, ReceiveUnmatched
  <2>6. Acknowledged'
    BY <1>9 DEF TypeStore, TypeParser, Written1, Acknowledged, ReceiveUnmatched
  <2>7. Configured'
    BY <1>9 DEF TypeStore, TypeParser, TypeRing, Behind, Written1, Configured, ReceiveUnmatched
  <2> QED
    BY <2>1, <2>2, <2>3, <2>4, <2>5, <2>6, <2>7 DEF Inv
<1>10. CASE GetRxCount
  <2>1. TypeParser'
    BY <1>10 DEF TypeParser, TypeRing, GetRxCount
  <2>2. TypeStore'
    BY <1>10 DEF TypeStore, TypeParser, TypeRing, GetRxCount
  <2>3. TypeRing'
    BY <1>10 DEF TypeRing, GetRxCount
  <2>4. Behind'
    BY <1>10 DEF TypeStore, TypeRing, Behind, FirstRound, GetRxCount
  <2>5. Written1'
    BY <1>10 DEF TypeStore, Written1, GetRxCount
  <2>6. Acknowledged'
    BY <1>10 DEF TypeStore, TypeParser, Written1, Acknowledged, GetRxCount
  <2>7. Configured'
    BY <1>10 DEF TypeStore, TypeParser, TypeRing, Behind, Written1, Configured, GetRxCount
  <2> QED
    BY <2>1, <2>2, <2>3, <2>4, <2>5, <2>6, <2>7 DEF Inv
<1>11. CASE SetTail
  <2>1. TypeParser'
    BY <1>11 DEF TypeParser, TypeRing, SetTail
  <2>2. TypeStore'
    BY <1>11 DEF TypeStore, TypeParser, TypeRing, SetTail
  <2>3. TypeRing'
    BY <1>11 DEF TypeRing, SetTail
  <2>4. Behind'
    BY <1>11 DEF TypeStore, TypeRing, Behind, FirstRound, SetTail
  <2>5. Written1'
    BY <1>11 DEF TypeStore, Written1, SetTail
  <2>6. Acknowledged'
    BY <1>11 DEF TypeStore, TypeParser, Written1, Acknowledged, SetTail
  <2>7. Configured'
    BY <1>11 DEF TypeStore, TypeParser, TypeRing, Behind, Written1, Configured, SetTail
  <2> QED
    BY <2>1, <2>2, <2>3, <2>4, <2>5, <2>6, <2>7 DEF Inv
<1>12. CASE AllRead
  <2>1. TypeParser'
    BY <1>12 DEF TypeParser, TypeRing, AllRead
  <2>2. TypeStore'
    BY <1>12 DEF TypeStore, TypeParser, TypeRing, AllRead
  <2>3. TypeRing'
    BY <1>12 DEF TypeRing, AllRead
  <2>4. Behind'
    BY <1>12 DEF TypeStore, TypeRing, Behind, FirstRound, AllRead
  <2>5. Written1'
    BY <1>12 DEF TypeStore, Written1, AllRead
  <2>6. Acknowledged'
    BY <1>12 DEF TypeStore, TypeParser, Written1, Acknowledged, AllRead
  <2>7. Configured'
    BY <1>12 DEF TypeStore, TypeParser, TypeRing, Behind, Written1, Configured, AllRead
  <2> QED
    BY <2>1, <2>2, <2>3, <2>4, <2>5, <2>6, <2>7 DEF Inv
<1>13. CASE ParseByte
  <2>1. TypeParser'
    BY <1>13, NextByte DEF TypeParser, ParseByte
  <2>2. TypeStore'
    BY <1>13 DEF TypeStore, TypeParser, TypeRing, ParseByte, Advance
  <2>3. TypeRing'
    BY <1>13 DEF TypeRing, ParseByte, Advance
  <2>4. Behind'
    <3>1. (head + 1) % Size = IF head + 1 = Size THEN 0 ELSE head + 1
      BY NextIndex DEF TypeRing
    <3>2. FirstRound => head < tail
      BY <1>13 DEF Behind, TypeRing, ParseByte
    <3> QED
      BY <1>13, <3>1, <3>2 DEF TypeRing, Behind, FirstRound, ParseByte, Advance
  <2>5. Written1'
    BY <1>13 DEF TypeStore, Written1, ParseByte, Advance
  <2>6. Acknowledged'
    BY <1>13 DEF TypeStore, TypeParser, Written1, Acknowledged, ParseByte, Advance
  <2>7. Configured'
    BY <1>13 DEF TypeStore, TypeParser, TypeRing, Behind, Written1, Configured, ParseByte, Advance
  <2> QED
    BY <2>1, <2>2, <2>3, <2>4, <2>5, <2>6, <2>7 DEF Inv
<1>14. CASE CommandArrival
  <2>1. TypeParser'
    BY <1>14, NextByte, EmptySeq, AppendProperties DEF TypeParser, CommandArrival, ArrivedParams
  <2>2. TypeStore'
    <3>1. Len(params') = 1 => params'[1] \in Bytes
      BY <2>1, ElementOfSeq DEF TypeParser
    <3> QED
      BY <1>14, <3>1 DEF TypeStore, TypeParser, CommandArrival
  <2>3. TypeRing'
    BY <1>14 DEF TypeRing, CommandArrival, Arrived, ArrivedParams
  <2>4. Behind'
    BY <1>14 DEF TypeStore, TypeRing, Behind, FirstRound, CommandArrival, Arrived, ArrivedParams
  <2>5. Written1'
    BY <1>14 DEF TypeStore, Written1, CommandArrival, Arrived, ArrivedParams
  <2>6. Acknowledged'
    BY <1>14 DEF TypeStore, TypeParser, Written1, Acknowledged, CommandArrival, Fields
  <2>7. Configured'
    <3>1. Len(params') = 1 => params'[1] # Unset
      BY <2>1 DEF TypeParser
    <3> QED
      BY <1>14, <3>1 DEF TypeStore, Configured, CommandArrival
  <2> QED
    BY <2>1, <2>2, <2>3, <2>4, <2>5, <2>6, <2>7 DEF Inv
<1>15. CASE WriteMemory
  <2>1. TypeParser'
    BY <1>15 DEF TypeParser, TypeRing, WriteMemory, Written
  <2>2. TypeStore'
    BY <1>15 DEF TypeStore, TypeParser, TypeRing, WriteMemory, Written
  <2>3. TypeRing'
    BY <1>15 DEF TypeRing, WriteMemory, Written
  <2>4. Behind'
    BY <1>15 DEF TypeStore, TypeRing, Behind, FirstRound, WriteMemory, Written
  <2>5. Written1'
    BY <1>15 DEF TypeStore, Written1, WriteMemory, Written
  <2>6. Acknowledged'
    BY <1>15 DEF TypeStore, Written1, Acknowledged, WriteMemory, Written, Fields
  <2>7. Configured'
    BY <1>15 DEF TypeStore, TypeParser, TypeRing, Behind, Written1, Configured, WriteMemory, Written
  <2> QED
    BY <2>1, <2>2, <2>3, <2>4, <2>5, <2>6, <2>7 DEF Inv
<1>16. CASE Answer
  <2>1. TypeParser'
    BY <1>16 DEF TypeParser, TypeRing, Answer, Advance
  <2>2. TypeStore'
    BY <1>16 DEF TypeStore, TypeParser, TypeRing, Answer, Advance
  <2>3. TypeRing'
    BY <1>16 DEF TypeRing, Answer, Advance
  <2>4. Behind'
    <3>1. (head + 1) % Size = IF head + 1 = Size THEN 0 ELSE head + 1
      BY NextIndex DEF TypeRing
    <3>2. FirstRound => head < tail
      BY <1>16 DEF Behind, TypeRing, Answer
    <3> QED
      BY <1>16, <3>1, <3>2 DEF TypeRing, Behind, FirstRound, Answer, Advance
  <2>5. Written1'
    BY <1>16 DEF TypeStore, Written1, Answer, Advance
  <2>6. Acknowledged'
    BY <1>16 DEF TypeStore, TypeParser, Written1, Acknowledged, Answer, Advance
  <2>7. Configured'
    BY <1>16 DEF TypeStore, TypeParser, TypeRing, Behind, Written1, Configured, Answer, Advance
  <2> QED
    BY <2>1, <2>2, <2>3, <2>4, <2>5, <2>6, <2>7 DEF Inv
<1>17. ASSUME NEW c \in Menu, Send(c) PROVE Inv'
  <2>1. TypeParser'
    BY <1>17, EncodeIsBytes DEF TypeParser, TypeRing, Send
  <2>2. TypeStore'
    BY <1>17, EncodeIsBytes DEF TypeStore, TypeParser, TypeRing, Send
  <2>3. TypeRing'
    BY <1>17, EncodeIsBytes DEF TypeRing, Send
  <2>4. Behind'
    BY <1>17, EncodeIsBytes DEF TypeStore, TypeRing, Behind, FirstRound, Send
  <2>5. Written1'
    BY <1>17, EncodeIsBytes DEF TypeStore, Written1, Send
  <2>6. Acknowledged'
    BY <1>17, EncodeIsBytes DEF TypeStore, TypeParser, Written1, Acknowledged, Send
  <2>7. Configured'
    BY <1>17, EncodeIsBytes DEF TypeStore, TypeParser, TypeRing, Behind, Written1, Configured, Send
  <2> QED
    BY <2>1, <2>2, <2>3, <2>4, <2>5, <2>6, <2>7 DEF Inv
<1>18. CASE UNCHANGED vars
  <2>1. TypeParser'
    BY <1>18 DEF TypeParser, TypeRing, vars
  <2>2. TypeStore'
    BY <1>18 DEF TypeStore, TypeParser, TypeRing, vars
  <2>3. TypeRing'
    BY <1>18 DEF TypeRing, vars
  <2>4. Behind'
    BY <1>18 DEF TypeStore, TypeRing, Behind, FirstRound, vars
  <2>5. Written1'
    BY <1>18 DEF TypeStore, Written1, vars
  <2>6. Acknowledged'
    BY <1>18 DEF TypeStore, TypeParser, Written1, Acknowledged, vars
  <2>7. Configured'
    BY <1>18 DEF TypeStore, TypeParser, TypeRing, Behind, Written1, Configured, vars
  <2> QED
    BY <2>1, <2>2, <2>3, <2>4, <2>5, <2>6, <2>7 DEF Inv
<1>19. CASE NotReceiving
  BY <1>18, <1>19 DEF NotReceiving
<1> QED
  BY <1>1, <1>2, <1>3, <1>4, <1>5, <1>6, <1>7, <1>8, <1>9, <1>10, <1>11, <1>12, <1>13, <1>14,
     <1>15, <1>16, <1>17, <1>18, <1>19
  DEF Next, Boot, DataReceiver

(***************************************************************************)
(* The theorems.                                                           *)
(***************************************************************************)

\* Boot, parser, ring and FRAM keep the invariant above at every step and every power
\* failure (FRAM.cpp:58, NetworkConfig.cpp:20, ConfigComm.cpp:12 and 75).
THEOREM Invariance == Spec => []Inv
<1>1. Inv /\ [Next]_vars => Inv'
  BY InvNext
<1> QED
  BY InvInit, <1>1, PTL DEF Spec

\* What NetworkConfig acknowledged with 0 is in the FRAM, and in the memory the controller
\* runs with, until it is set anew, whatever the fields, the ring and the power failures.
THEOREM AcknowledgedSurvives == Spec => []AckedSurvives
<1>1. Inv => AckedSurvives
  BY DEF Inv, AckedSurvives, Acknowledged, Written1, Fields
<1> QED
  BY Invariance, <1>1, PTL

\* Unless its very first boot was cut short, a running controller uses no setting that
\* was never written: not from the FRAM, nor from a cell of the ring before it was filled.
THEOREM NeverUnconfigured == Spec => []RunsConfigured
<1>1. Inv => RunsConfigured
  BY DEF Inv, RunsConfigured, Configured
<1> QED
  BY Invariance, <1>1, PTL
=============================================================================
