---------------------------- MODULE CanLink_proofs ----------------------------
(***************************************************************************)
(* Proofs about CanLink, for any contents, any number of message objects,  *)
(* and any number of changes, answers, heartbeats and errors: what goes    *)
(* wrong only takes `clean' away.                                          *)
(***************************************************************************)
EXTENDS CanLink, FiniteSetTheorems, SequenceTheorems, WellFoundedInduction, TLAPS

\* the frames there are
Messages == [kind : {"first", "segment", "single", "heartbeat"},
             of : Contents \cup {None}, seg : Nat]
Last(c) == Segments(Size[c]) - 1
Seg(c, g) == Frame("segment", c, g)
IsSegment(f, c) == f.kind = "segment" /\ f.of = c

Entry(rx) ==
  /\ rx.head \in Contents
  /\ rx = [size |-> Size[rx.head], head |-> rx.head, parts |-> rx.parts]
  /\ rx.parts \in [0..Last(rx.head) -> {None, rx.head}]

Types ==
  /\ content \in Contents
  /\ pc \in {"loop", "send", "probe", "store", "hung"}
  /\ todo \in Seq(Messages) /\ num \in Slots /\ seen \subseteq Slots
  /\ (pc = "loop" => todo = <<>>) /\ (pc \in {"send", "probe", "store"} => todo # <<>>)
  /\ tx_count \in Int
  /\ msgSignals \subseteq Slots /\ msg_objs \in [Slots -> Messages \cup {None}]
  /\ mailbox \in Seq(Messages)
  /\ clean \in BOOLEAN
  /\ (clean => pc # "hung")

\* every frame not sent yet is counted, in the chip or still to be put there
Counted == tx_count = Len(todo) + Cardinality(Pending)

\* an object in the chip is marked, also in the marks about to be stored
Marked ==
  /\ Pending \subseteq msgSignals
  /\ pc = "store" => Pending \subseteq seen /\ num \notin seen

\* no frame goes ahead of a first frame: the objects below its own are marked for ever
Below(s) == \A t \in Slots : t < s =>
              /\ t \in msgSignals /\ msg_objs[t] = None
              /\ pc = "store" => t \in seen
FirstAhead ==
  /\ \A s \in Pending : msg_objs[s].kind = "first" => Below(s)
  /\ todo # <<>> /\ todo[1].kind = "first" =>
       Pending = {} /\ (pc \in {"probe", "store"} => Below(num))

\* the frames behind a first frame, and what is still to come after one that was sent
Coming(c, g) ==
  \/ \E s \in Slots : msg_objs[s] = Seg(c, g)
  \/ \E i \in DOMAIN todo : todo[i] = Seg(c, g)
OnlySegments(c, except, from) ==
  /\ \A s \in Pending \ except : IsSegment(msg_objs[s], c)
  /\ \A i \in DOMAIN todo : i >= from => IsSegment(todo[i], c)
Follow ==
  /\ \A s \in Pending : msg_objs[s].kind = "first" =>
       LET c == msg_objs[s].of IN
       c \in Contents /\ OnlySegments(c, {s}, 1) /\ \A g \in 0..Last(c) : Coming(c, g)
  /\ todo # <<>> /\ todo[1].kind = "first" =>
       LET c == todo[1].of IN
       c \in Contents /\ OnlySegments(c, {}, 2) /\ \A g \in 0..Last(c) : Coming(c, g)
  /\ \A i \in DOMAIN todo : i > 1 => todo[i].kind = "segment"

\* segment g of c is in the mailbox or comes, with nothing but segments of c before it
\* from place k on
Arrives(k, c, g) ==
  \/ \E j \in DOMAIN mailbox : /\ j >= k /\ mailbox[j] = Seg(c, g)
                               /\ \A l \in k..j : IsSegment(mailbox[l], c)
  \/ /\ Coming(c, g) /\ OnlySegments(c, {}, 1)
     /\ \A l \in DOMAIN mailbox : l >= k => IsSegment(mailbox[l], c)
Arriving ==
  /\ \A i \in DOMAIN mailbox : mailbox[i].kind = "first" =>
       mailbox[i].of \in Contents /\ \A g \in 0..Last(mailbox[i].of) : Arrives(i + 1, mailbox[i].of, g)
  /\ rxTable # None =>
       /\ Entry(rxTable)
       /\ \E g \in 0..Last(rxTable.head) : rxTable.parts[g] = None
       /\ \A g \in 0..Last(rxTable.head) : rxTable.parts[g] = None => Arrives(1, rxTable.head, g)

Sound == Counted /\ Marked /\ FirstAhead /\ Follow /\ Arriving

LinkInv == Types /\ (clean => Sound)

-----------------------------------------------------------------------------
(* The operators.                                                          *)

LEMMA SmallestSlot ==
  ASSUME NEW T \in SUBSET Slots, T # {}
  PROVE  \E m \in T : \A t \in T : m <= t
<1>1. T \subseteq Nat /\ IsWellFoundedOn(OpToRel(<, Nat), Nat)
  BY CanLinkAssumption, NatLessThanWellFounded
<1>2. PICK m \in T : \A t \in T : <<t, m>> \notin OpToRel(<, Nat)
  BY <1>1, WFMin
<1>3. \A t \in T : ~(t < m)
  BY <1>1, <1>2 DEF OpToRel
<1>4. \A t \in T : t \in Nat /\ m \in Nat /\ ~(t < m) => m <= t
  OBVIOUS
<1> QED
  BY <1>1, <1>3, <1>4

LEMMA BeginIs == Begin \in Slots /\ \A t \in Slots : Begin <= t
<1>1. \E m \in Slots : \A t \in Slots : m <= t
  BY CanLinkAssumption, SmallestSlot
<1> QED
  BY <1>1 DEF Begin

\* the next object in turn leaves none out
LEMMA Next1Is ==
  ASSUME NEW s \in Slots
  PROVE  Next1(s) \in Slots /\ \A t \in Slots : t < Next1(s) => t <= s
<1> USE CanLinkAssumption
<1>1. CASE \E t \in Slots : t > s
  <2> DEFINE T == {t \in Slots : t > s}
  <2>1. PICK m \in T : \A t \in T : m <= t
    BY <1>1, SmallestSlot
  <2>2. \E t \in Slots : t > s /\ \A r \in Slots : r > s => t <= r
    BY <2>1
  <2>3. /\ Next1(s) \in Slots /\ Next1(s) > s
        /\ \A r \in Slots : r > s => Next1(s) <= r
    BY <1>1, <2>2 DEF Next1
  <2>4. ASSUME NEW t \in Slots, t < Next1(s) PROVE t <= s
    <3> DEFINE n == Next1(s)
    <3>1. t \in Nat /\ s \in Nat /\ n \in Nat /\ t < n /\ (t > s => n <= t)
      BY <2>3, <2>4
    <3> HIDE DEF n
    <3> QED
      BY <3>1
  <2> QED
    BY <2>3, <2>4
<1>2. CASE ~\E t \in Slots : t > s
  <2>1. Next1(s) = Begin
    BY <1>2 DEF Next1
  <2> QED
    BY <2>1, BeginIs
<1> QED
  BY <1>1, <1>2

LEMMA SizeIs == \A c \in Contents : Size[c] \in Nat /\ Last(c) \in Nat
BY CanLinkAssumption DEF Last, Segments

\* an entry is cut into a first frame and all of its segments
LEMMA FramesAre ==
  ASSUME NEW c \in Contents
  PROVE  /\ Frames(c) \in Seq(Messages) /\ Len(Frames(c)) = Last(c) + 2
         /\ Frames(c)[1] = Frame("first", c, 0)
         /\ \A i \in 2..Len(Frames(c)) : Frames(c)[i] = Seg(c, i - 2)
<1> DEFINE a == <<Frame("first", c, 0)>>
           b == [k \in 1..Segments(Size[c]) |-> Frame("segment", c, k - 1)]
<1>1. Segments(Size[c]) = Last(c) + 1 /\ Last(c) \in Nat
  BY SizeIs, CanLinkAssumption DEF Last, Segments
<1>2. a \in Seq(Messages) /\ Len(a) = 1 /\ a[1] = Frame("first", c, 0)
  BY DEF Messages, Frame
<1>3. /\ b \in Seq(Messages) /\ Len(b) = Last(c) + 1
      /\ \A k \in 1..(Last(c) + 1) : b[k] = Seg(c, k - 1)
  <2>1. \A k \in 1..(Last(c) + 1) : Seg(c, k - 1) \in Messages
    BY <1>1 DEF Messages, Frame, Seg
  <2>2. b = [k \in 1..(Last(c) + 1) |-> Seg(c, k - 1)]
    BY <1>1 DEF Seg
  <2> HIDE DEF b
  <2>3. b \in [1..(Last(c) + 1) -> Messages]
    BY <2>1, <2>2
  <2> QED
    BY <1>1, <2>2, <2>3
<1> HIDE DEF a, b
<1>4. /\ a \o b \in Seq(Messages) /\ Len(a \o b) = Last(c) + 2
      /\ \A i \in 1..(Last(c) + 2) : (a \o b)[i] = IF i <= 1 THEN a[i] ELSE b[i - 1]
  <2>1. /\ a \o b \in Seq(Messages) /\ Len(a \o b) = Len(a) + Len(b)
        /\ \A i \in 1..Len(a) + Len(b) : (a \o b)[i] = IF i <= Len(a) THEN a[i] ELSE b[i - Len(a)]
    BY <1>2, <1>3, ConcatProperties
  <2>2. Len(a) + Len(b) = Last(c) + 2
    BY <1>1, <1>2, <1>3
  <2> QED
    BY <2>1, <2>2, <1>2
<1>5. Frames(c) = a \o b
  BY DEF Frames, a, b
<1> HIDE DEF Frames
<1>6. \A i \in 2..(Last(c) + 2) : Frames(c)[i] = Seg(c, i - 2)
  <2> SUFFICES ASSUME NEW i \in 2..(Last(c) + 2) PROVE Frames(c)[i] = Seg(c, i - 2)
    OBVIOUS
  <2>1. Frames(c)[i] = b[i - 1] /\ i - 1 \in 1..(Last(c) + 1) /\ (i - 1) - 1 = i - 2
    BY <1>1, <1>4, <1>5
  <2> QED
    BY <2>1, <1>3
<1>7. Frames(c)[1] = Frame("first", c, 0)
  BY <1>1, <1>2, <1>4, <1>5
<1> QED
  BY <1>4, <1>5, <1>6, <1>7

\* a segment of the entry fits, and takes its own place only
LEMMA SetSegmentIs ==
  ASSUME NEW rx, Entry(rx), NEW f \in Messages, IsSegment(f, rx.head)
  PROVE  LET r == SetSegment(rx, f) IN
         /\ Entry(r) /\ r.head = rx.head
         /\ \A g \in 0..Last(rx.head) : r.parts[g] = None <=> rx.parts[g] = None /\ g # f.seg
<1> DEFINE c == rx.head
           r == SetSegment(rx, f)
<1>1. /\ c \in Contents /\ f.of = c /\ f.seg \in Nat /\ Size[c] \in Nat /\ rx.size = Size[c]
      /\ rx = [size |-> Size[c], head |-> c, parts |-> rx.parts]
      /\ rx.parts \in [0..Last(c) -> {None, c}] /\ c # None
  BY SizeIs, CanLinkAssumption DEF Entry, IsSegment, Messages
<1>2. SegLen(Size[c], f.seg) \in Int /\ ~(4 + 7 * f.seg + SegLen(Size[c], f.seg) > Size[c])
  BY <1>1 DEF SegLen
<1>3. r = [rx EXCEPT !.parts[f.seg] = c]
  BY <1>1, <1>2 DEF SetSegment
<1> HIDE DEF r
<1>4. r = [size |-> Size[c], head |-> c, parts |-> [rx.parts EXCEPT ![f.seg] = c]]
  BY <1>1, <1>3
<1>5. r.parts = [rx.parts EXCEPT ![f.seg] = c] /\ r.head = c
  BY <1>4
<1>6. r.parts \in [0..Last(c) -> {None, c}]
  BY <1>1, <1>5
<1>7. \A g \in 0..Last(c) : r.parts[g] = None <=> rx.parts[g] = None /\ g # f.seg
  BY <1>1, <1>5
<1>8. Entry(r)
  BY <1>1, <1>4, <1>5, <1>6 DEF Entry
<1> QED
  BY <1>5, <1>7, <1>8 DEF r

-----------------------------------------------------------------------------
(* The types.                                                              *)

LEMMA TypesInit == Init => Types
BY BeginIs, CanLinkAssumption DEF Init, Types

\* what CANTransmit is called with
Transmitted == {Frames(c) : c \in Contents} \cup {<<Answer>>}

LEMMA TransmittedIs == \A fs \in Transmitted : fs \in Seq(Messages) /\ fs # <<>>
<1>1. \A c \in Contents : Frames(c) \in Seq(Messages) /\ Len(Frames(c)) # 0
  BY FramesAre, SizeIs
<1>2. <<Answer>> \in Seq(Messages) /\ <<Answer>> # <<>>
  BY DEF Answer, Frame, Messages
<1>3. \A c \in Contents : Frames(c) # <<>>
  BY <1>1, EmptySeq
<1> QED
  BY <1>1, <1>2, <1>3 DEF Transmitted

LEMMA TypesNext == Types /\ [Next]_vars => Types'
<1> SUFFICES ASSUME Types, [Next]_vars PROVE Types'
  OBVIOUS
<1> USE DEF Types, mainVars, chipVars, hostVars
<1>1. ASSUME NEW c \in Contents, Change(c) PROVE Types'
  BY <1>1 DEF Change
<1>2. ASSUME NEW fs \in Transmitted, CANTransmit(fs) PROVE Types'
  <2>1. fs \in Seq(Messages) /\ fs # <<>> /\ Len(fs) \in Int
    BY TransmittedIs
  <2> QED
    BY <1>2, <2>1 DEF CANTransmit
<1>3. CASE Drop \/ Store
  <2>1. todo # <<>> /\ todo[1] \in Messages /\ Head(todo) = todo[1] /\ Tail(todo) \in Seq(Messages)
    BY <1>3 DEF Drop, Store
  <2>2. pc' = Done(Tail(todo)) /\ todo' = Tail(todo) /\ clean' \in BOOLEAN
    BY <1>3 DEF Drop, Store
  <2>3. pc' \in {"loop", "send"} /\ (pc' = "loop" => todo' = <<>>) /\ (pc' = "send" => todo' # <<>>)
    BY <2>2 DEF Done
  <2>4. CASE Drop
    BY <2>1, <2>2, <2>3, <2>4 DEF Drop
  <2>5. CASE Store
    <3>1. /\ msgSignals' = seen \cup {num} /\ msg_objs' = [msg_objs EXCEPT ![num] = todo[1]]
          /\ num' = Begin /\ seen' = {} /\ UNCHANGED <<content, tx_count, mailbox>>
      BY <2>1, <2>5 DEF Store
    <3> QED
      BY <2>1, <2>2, <2>3, <3>1, BeginIs
  <2> QED
    BY <1>3, <2>4, <2>5
<1>4. CASE CANSend \/ Probe \/ Load
  BY <1>4, BeginIs, Next1Is DEF CANSend, Probe, Load
<1>5. CASE Heartbeat \/ HeartbeatHangs
  <2>1. Beat \in Messages
    BY DEF Beat, Frame, Messages
  <2> QED
    BY <1>5, <2>1 DEF Heartbeat, HeartbeatHangs
<1>6. ASSUME NEW s \in Slots, CAN_tx(s) PROVE Types'
  <2>1. s \in Pending /\ msg_objs[s] \in Messages
    BY <1>6 DEF CAN_tx, Pending
  <2>2. mailbox' \in Seq(Messages) /\ clean' \in BOOLEAN /\ (clean' => clean)
    <3>1. CASE Len(mailbox) < MailCap
      BY <1>6, <2>1, <3>1 DEF CAN_tx
    <3>2. CASE ~(Len(mailbox) < MailCap)
      BY <1>6, <3>2 DEF CAN_tx
    <3> QED
      BY <3>1, <3>2
  <2>3. tx_count' \in Int /\ msgSignals' \subseteq Slots
    BY <1>6 DEF CAN_tx, Lower
  <2> QED
    BY <1>6, <2>1, <2>2, <2>3 DEF CAN_tx
<1>7. CASE PollStep
  <2>1. mailbox' = Tail(mailbox) /\ mailbox # <<>>
        /\ UNCHANGED <<content, mainVars, tx_count, chipVars, clean>>
    BY <1>7 DEF PollStep, PollShort, PollFirst, PollSegment, Poll
  <2> QED
    BY <2>1
<1>8. CASE BusError \/ CAN_error \/ Recover \/ UNCHANGED vars
  <2>1. CASE CAN_error
    BY <1>8, <2>1 DEF CAN_error
  <2> QED
    BY <1>8, <2>1 DEF BusError, Recover, vars
<1> QED
  BY <1>1, <1>2, <1>3, <1>4, <1>5, <1>6, <1>7, <1>8
  DEF Next, MainLoop, Broadcast, Response, Transmitted

-----------------------------------------------------------------------------
(* Steps of the unit, while nothing goes wrong.                            *)

LEMMA PendingIs ==
  ASSUME Types
  PROVE  /\ IsFiniteSet(Pending) /\ Cardinality(Pending) \in Nat
         /\ (Cardinality(Pending) = 0 <=> Pending = {})
         /\ \A s \in Pending : s \in Slots /\ s \in Nat /\ msg_objs[s] \in Messages
<1>1. Pending \subseteq Slots /\ IsFiniteSet(Slots)
  BY CanLinkAssumption DEF Pending
<1>2. IsFiniteSet(Pending)
  BY <1>1, FS_Subset
<1> QED
  BY <1>1, <1>2, FS_CardinalityType, FS_EmptySet, CanLinkAssumption DEF Types, Pending

LEMMA SegIs ==
  ASSUME NEW c \in Contents, NEW g \in Nat
  PROVE  Seg(c, g) \in Messages /\ Seg(c, g) # None
<1>1. Seg(c, g) \in Messages
  BY DEF Seg, Frame, Messages
<1>2. None \notin Messages
  BY CanLinkAssumption DEF Messages
<1> QED
  BY <1>1, <1>2

\* a step that leaves mailbox and table alone and loses no segment
LEMMA ArrivingStep ==
  ASSUME Arriving, UNCHANGED <<mailbox, rxTable>>,
         \A k, c, g : c \in Contents /\ g \in Nat /\ Arrives(k, c, g) => Arrives(k, c, g)'
  PROVE  Arriving'
<1>1. \A c \in Contents : \A g : g \in 0..Last(c) => g \in Nat
  BY SizeIs
<1>2. ASSUME NEW i \in DOMAIN mailbox, mailbox[i].kind = "first"
      PROVE  /\ mailbox[i].of \in Contents
             /\ \A g \in 0..Last(mailbox[i].of) : Arrives(i + 1, mailbox[i].of, g)'
  BY <1>1, <1>2 DEF Arriving
<1>3. ASSUME rxTable # None
      PROVE  /\ Entry(rxTable) /\ \E g \in 0..Last(rxTable.head) : rxTable.parts[g] = None
             /\ \A g \in 0..Last(rxTable.head) : rxTable.parts[g] = None => Arrives(1, rxTable.head, g)'
  BY <1>1, <1>3 DEF Arriving, Entry
<1> QED
  BY <1>2, <1>3 DEF Arriving, Arrives, Coming, OnlySegments, Pending, Entry

\* a step that moves no frame
LEMMA NothingMoves ==
  ASSUME Follow, Arriving, UNCHANGED <<todo, msg_objs, mailbox, rxTable>>
  PROVE  Follow' /\ Arriving'
<1>1. \A c, g : Coming(c, g)' <=> Coming(c, g)
  BY DEF Coming
<1>2. Pending' = Pending
  BY DEF Pending
<1>3. \A c, x, k : OnlySegments(c, x, k)' <=> OnlySegments(c, x, k)
  BY <1>2 DEF OnlySegments
<1>4. \A k, c, g : Arrives(k, c, g)' <=> Arrives(k, c, g)
  BY <1>1, <1>3 DEF Arrives
<1>5. Follow'
  BY <1>1, <1>2, <1>3 DEF Follow
<1>6. Arriving'
  BY <1>4 DEF Arriving
<1> QED
  BY <1>5, <1>6

\* the chip is empty and nothing waits for it when CANTransmit begins
LEMMA AllSent ==
  ASSUME Types, Counted, pc = "loop", tx_count <= 0
  PROVE  Pending = {} /\ todo = <<>>
<1>1. todo = <<>> /\ Len(todo) = 0
  BY DEF Types
<1>2. Cardinality(Pending) = 0
  BY <1>1, PendingIs DEF Counted
<1> QED
  BY <1>1, <1>2, PendingIs

LEMMA TransmitSound ==
  ASSUME Types, clean => Sound, clean', NEW fs \in Transmitted, CANTransmit(fs)
  PROVE  Sound'
<1>1. /\ pc = "loop" /\ tx_count <= 0 /\ pc' = "send" /\ todo' = fs /\ tx_count' = Len(fs)
      /\ clean \/ AtRest
      /\ UNCHANGED <<msgSignals, msg_objs, mailbox, rxTable>>
  BY DEF CANTransmit, chipVars, hostVars
<1>2. Pending = {} /\ todo = <<>>
  <2>1. CASE clean
    BY <2>1, <1>1, AllSent DEF Sound
  <2>2. CASE AtRest
    BY <2>2, <1>1 DEF AtRest, Types
  <2> QED
    BY <1>1, <2>1, <2>2
<1>3. Pending' = {} /\ Pending' = Pending
  BY <1>1, <1>2 DEF Pending
<1>4. fs \in Seq(Messages) /\ fs # <<>> /\ Len(fs) \in Nat
  BY TransmittedIs
<1>5. Counted'
  <2>1. Cardinality(Pending') = 0
    BY <1>3, FS_EmptySet
  <2> QED
    BY <1>1, <1>4, <2>1 DEF Counted
<1>6. Marked' /\ FirstAhead'
  BY <1>1, <1>3 DEF Marked, FirstAhead
<1>7. Follow'
  <2>1. CASE fs = <<Answer>>
    <3>1. todo'[1].kind = "single" /\ DOMAIN todo' = {1}
      BY <2>1, <1>1 DEF Answer, Frame
    <3> QED
      BY <1>3, <3>1 DEF Follow
  <2>2. ASSUME NEW c \in Contents, fs = Frames(c) PROVE Follow'
    <3>1. /\ Len(fs) = Last(c) + 2 /\ Last(c) \in Nat /\ DOMAIN todo' = 1..(Last(c) + 2)
          /\ todo'[1] = Frame("first", c, 0)
          /\ \A i \in 2..(Last(c) + 2) : todo'[i] = Seg(c, i - 2)
      BY <2>2, <1>1, <1>4, FramesAre, SizeIs
    <3>2. todo'[1].kind = "first" /\ todo'[1].of = c
      BY <3>1 DEF Frame
    <3>3. \A i \in DOMAIN todo' : i >= 2 => IsSegment(todo'[i], c)
      <4>1. \A g : IsSegment(Seg(c, g), c)
        BY DEF IsSegment, Seg, Frame
      <4> QED
        BY <3>1, <4>1
    <3>4. \A g \in 0..Last(c) : Coming(c, g)'
      <4> SUFFICES ASSUME NEW g \in 0..Last(c) PROVE Coming(c, g)'
        OBVIOUS
      <4>1. g + 2 \in DOMAIN todo' /\ todo'[g + 2] = Seg(c, (g + 2) - 2) /\ (g + 2) - 2 = g
        BY <3>1
      <4> QED
        BY <4>1 DEF Coming
    <3>5. OnlySegments(c, {}, 2)'
      BY <1>3, <3>3 DEF OnlySegments
    <3>6. \A i \in DOMAIN todo' : i > 1 => todo'[i].kind = "segment"
      BY <3>1, <3>3 DEF IsSegment
    <3> QED
      BY <1>3, <3>2, <3>4, <3>5, <3>6 DEF Follow
  <2> QED
    BY <2>1, <2>2 DEF Transmitted
<1>8. Arriving'
  <2>1. CASE clean
    <3>1. \A c \in Contents, g \in Nat : ~Coming(c, g)
      BY <1>2, SegIs DEF Coming, Pending
    <3>2. \A k, c, g : c \in Contents /\ g \in Nat /\ Arrives(k, c, g) => Arrives(k, c, g)'
      BY <1>1, <3>1 DEF Arrives
    <3> QED
      BY <2>1, <1>1, <3>2, ArrivingStep DEF Sound
  <2>2. CASE AtRest
    BY <2>2, <1>1 DEF AtRest, Arriving
  <2> QED
    BY <1>1, <2>1, <2>2
<1> QED
  BY <1>5, <1>6, <1>7, <1>8 DEF Sound

LEMMA SearchSound ==
  ASSUME Types, Sound, CANSend \/ Probe \/ Load
  PROVE  Sound'
<1>1. UNCHANGED <<todo, tx_count, msgSignals, msg_objs, mailbox, rxTable>>
  BY DEF CANSend, Probe, Load, chipVars, hostVars
<1>2. Pending' = Pending
  BY <1>1 DEF Pending
<1>3. Counted'
  BY <1>1, <1>2 DEF Sound, Counted
<1>4. Marked'
  BY <1>1, <1>2 DEF Sound, Marked, CANSend, Probe, Load
<1>5. FirstAhead'
  <2>1. ASSUME NEW s \in Slots, Below(s) PROVE Below(s)'
    BY <1>1, <2>1 DEF Below, CANSend, Probe, Load
  <2>2. \A s \in Pending : s \in Slots
    BY DEF Pending
  <2>3. ASSUME todo # <<>>, todo[1].kind = "first", pc' \in {"probe", "store"} PROVE Below(num)'
    <3>1. Pending = {} /\ (pc \in {"probe", "store"} => Below(num))
      BY <2>3 DEF Sound, FirstAhead
    <3>2. \A t \in Slots : msg_objs'[t] = None
      BY <1>1, <3>1 DEF Pending
    <3>3. CASE CANSend
      <4>1. num' = Begin /\ pc' = "probe"
        BY <3>3 DEF CANSend
      <4>2. \A t \in Slots : ~(t < num')
        BY <4>1, BeginIs, CanLinkAssumption
      <4> QED
        BY <4>2 DEF Below
    <3>4. CASE Probe
      <4>1. /\ num' = Next1(num) /\ pc' = "probe" /\ num \in msgSignals /\ pc = "probe"
            /\ num \in Slots
        BY <3>4 DEF Probe, Types
      <4>2. \A t \in Slots : t < num' => t = num \/ t < num
        BY <4>1, Next1Is, CanLinkAssumption
      <4>3. \A t \in Slots : t < num' => t \in msgSignals
        BY <4>1, <4>2, <3>1 DEF Below
      <4> QED
        BY <4>1, <4>3, <3>2, <1>1 DEF Below
    <3>5. CASE Load
      BY <3>1, <3>2, <3>5, <1>1 DEF Below, Load
    <3> QED
      BY <3>3, <3>4, <3>5
  <2> QED
    BY <1>1, <1>2, <2>1, <2>2, <2>3 DEF Sound, FirstAhead
<1> QED
  BY <1>1, <1>3, <1>4, <1>5, NothingMoves DEF Sound

\* a frame goes from the unit's list into a free message object
LEMMA StoreSound ==
  ASSUME Types, Sound, clean', Store
  PROVE  Sound'
<1> DEFINE f == todo[1]
<1>1. /\ pc = "store" /\ todo # <<>> /\ todo \in Seq(Messages) /\ f \in Messages /\ Head(todo) = f
      /\ num \in Slots /\ msg_objs \in [Slots -> Messages \cup {None}] /\ None \notin Messages
  <2>1. None \notin Messages
    BY CanLinkAssumption DEF Messages
  <2>2. pc = "store" /\ todo # <<>> /\ todo \in Seq(Messages) /\ num \in Slots
        /\ msg_objs \in [Slots -> Messages \cup {None}]
    BY DEF Store, Types
  <2>3. f \in Messages /\ Head(todo) = f
    BY <2>2
  <2> QED
    BY <2>1, <2>2, <2>3
<1>2. /\ msgSignals' = seen \cup {num} /\ msg_objs' = [msg_objs EXCEPT ![num] = f]
      /\ todo' = Tail(todo) /\ pc' \in {"loop", "send"} /\ num \notin msgSignals
      /\ UNCHANGED <<tx_count, mailbox, rxTable>>
  BY <1>1 DEF Store, Done, hostVars
<1>3. /\ DOMAIN todo = 1..Len(todo) /\ Len(todo) \in Nat \ {0}
      /\ DOMAIN todo' = 1..(Len(todo) - 1) /\ Len(todo') = Len(todo) - 1
      /\ \A i \in DOMAIN todo' : i + 1 \in DOMAIN todo /\ todo'[i] = todo[i + 1]
  <2>1. todo' \in Seq(Messages) /\ Len(todo') = Len(todo) - 1
    BY <1>1, <1>2
  <2> QED
    BY <1>1, <1>2, <2>1
<1>4. Pending \subseteq msgSignals /\ Pending \subseteq seen /\ num \notin seen /\ num \notin Pending
  BY <1>1, <1>2 DEF Sound, Marked
<1> HIDE DEF f
<1>5. Pending' = Pending \cup {num} /\ msg_objs'[num] = f
  BY <1>1, <1>2 DEF Pending
<1>6. \A s \in Slots \ {num} : msg_objs'[s] = msg_objs[s]
  BY <1>1, <1>2
<1>7. Counted'
  <2>1. Cardinality(Pending') = Cardinality(Pending) + 1 /\ Cardinality(Pending) \in Nat
    BY <1>4, <1>5, PendingIs, FS_AddElement
  <2> QED
    BY <1>2, <1>3, <2>1 DEF Sound, Counted
<1>8. Marked'
  BY <1>2, <1>4, <1>5 DEF Marked
<1>9. ASSUME NEW s \in Slots, Below(s) PROVE Below(s)'
  BY <1>1, <1>2, <1>4, <1>6, <1>9 DEF Below
<1>10. FirstAhead'
  <2>1. ASSUME NEW s \in Pending', msg_objs'[s].kind = "first" PROVE Below(s)'
    <3>1. CASE s = num
      <4>1. f.kind = "first"
        BY <2>1, <3>1, <1>5
      <4> QED
        BY <4>1, <3>1, <1>1, <1>9 DEF f, Sound, FirstAhead
    <3>2. CASE s # num
      <4>1. s \in Pending /\ s \in Slots /\ msg_objs[s].kind = "first"
        BY <2>1, <3>2, <1>5, <1>6 DEF Pending
      <4> QED
        BY <4>1, <1>9 DEF Sound, FirstAhead
    <3> QED
      BY <3>1, <3>2
  <2>2. todo' # <<>> => todo'[1].kind # "first"
    <3> SUFFICES ASSUME todo' # <<>> PROVE todo'[1].kind # "first"
      OBVIOUS
    <3>1. 1 \in DOMAIN todo'
      BY <1>3, <1>2, <1>1
    <3>2. 2 \in DOMAIN todo /\ todo'[1] = todo[2]
      BY <3>1, <1>3
    <3> QED
      BY <3>2 DEF Sound, Follow
  <2> QED
    BY <2>1, <2>2 DEF FirstAhead
<1>11. ASSUME NEW c \in Contents, NEW g \in Nat, Coming(c, g) PROVE Coming(c, g)'
  <2>1. ASSUME NEW s \in Slots, msg_objs[s] = Seg(c, g) PROVE Coming(c, g)'
    <3>1. s # num
      BY <2>1, <1>4, <1>1, SegIs DEF Pending
    <3> QED
      BY <2>1, <3>1, <1>6 DEF Coming
  <2>2. ASSUME NEW i \in DOMAIN todo, todo[i] = Seg(c, g) PROVE Coming(c, g)'
    <3>1. CASE i = 1
      BY <2>2, <3>1, <1>1, <1>5 DEF Coming, f
    <3>2. CASE i # 1
      <4>1. i - 1 \in DOMAIN todo' /\ todo'[i - 1] = todo[i]
        BY <2>2, <3>2, <1>3
      <4> QED
        BY <2>2, <4>1 DEF Coming
    <3> QED
      BY <3>1, <3>2
  <2> QED
    BY <1>11, <2>1, <2>2 DEF Coming
<1>12. ASSUME NEW c, NEW x \in SUBSET Pending, OnlySegments(c, x, 1) PROVE OnlySegments(c, x, 1)'
  <2>1. IsSegment(f, c)
    BY <1>12, <1>3 DEF OnlySegments, f
  <2>2. \A s \in Pending' \ x : IsSegment(msg_objs'[s], c)
    BY <1>12, <1>4, <1>5, <1>6, <2>1 DEF OnlySegments, Pending
  <2>3. \A i \in DOMAIN todo' : IsSegment(todo'[i], c)
    BY <1>12, <1>3 DEF OnlySegments
  <2> QED
    BY <2>2, <2>3 DEF OnlySegments
<1>13. Follow'
  <2>1. ASSUME NEW s \in Pending', msg_objs'[s].kind = "first"
        PROVE  (LET c == msg_objs[s].of IN
                c \in Contents /\ OnlySegments(c, {s}, 1) /\ \A g \in 0..Last(c) : Coming(c, g))'
    <3>1. CASE s = num
      <4>0. PICK c : c = f.of
        OBVIOUS
      <4>1. f.kind = "first"
        BY <2>1, <3>1, <1>5
      <4>2. c \in Contents /\ OnlySegments(c, {}, 2) /\ \A g \in 0..Last(c) : Coming(c, g)
        BY <4>0, <4>1, <1>1 DEF f, Sound, Follow
      <4>3. \A i \in DOMAIN todo' : IsSegment(todo'[i], c)
        BY <4>2, <1>3 DEF OnlySegments
      <4>4. \A t \in Pending' \ {s} : IsSegment(msg_objs'[t], c)
        BY <4>2, <3>1, <1>5, <1>6 DEF OnlySegments, Pending
      <4>5. \A g \in 0..Last(c) : g \in Nat
        BY <4>2, SizeIs
      <4>6. OnlySegments(c, {s}, 1)'
        BY <4>3, <4>4 DEF OnlySegments
      <4>7. \A g \in 0..Last(c) : Coming(c, g)'
        BY <4>2, <4>5, <1>11
      <4> QED
        BY <4>0, <4>2, <4>6, <4>7, <3>1, <1>5
    <3>2. CASE s # num
      <4>0. PICK c : c = msg_objs[s].of
        OBVIOUS
      <4>1. s \in Pending /\ s \in Slots /\ msg_objs[s].kind = "first" /\ msg_objs'[s] = msg_objs[s]
        BY <2>1, <3>2, <1>5, <1>6 DEF Pending
      <4>2. c \in Contents /\ OnlySegments(c, {s}, 1) /\ \A g \in 0..Last(c) : Coming(c, g)
        BY <4>0, <4>1 DEF Sound, Follow
      <4>3. \A g \in 0..Last(c) : g \in Nat
        BY <4>2, SizeIs
      <4>4. OnlySegments(c, {s}, 1)' /\ \A g \in 0..Last(c) : Coming(c, g)'
        BY <4>1, <4>2, <4>3, <1>11, <1>12
      <4> QED
        BY <4>0, <4>1, <4>2, <4>4
    <3> QED
      BY <3>1, <3>2
  <2>2. \A i \in DOMAIN todo' : todo'[i].kind = "segment"
    BY <1>3 DEF Sound, Follow
  <2>3. todo' # <<>> => 1 \in DOMAIN todo'
    BY <1>1, <1>2, <1>3
  <2> QED
    BY <2>1, <2>2, <2>3 DEF Follow
<1>14. Arriving'
  <2>1. ASSUME NEW k, NEW c \in Contents, NEW g \in Nat, Arrives(k, c, g) PROVE Arrives(k, c, g)'
    BY <2>1, <1>2, <1>11, <1>12 DEF Arrives
  <2> QED
    BY <1>2, <2>1, ArrivingStep DEF Sound
<1> QED
  BY <1>7, <1>8, <1>10, <1>13, <1>14 DEF Sound

\* the chip sends the frame of the lowest object
LEMMA SentSound ==
  ASSUME Types, clean => Sound, clean', NEW s \in Slots, CAN_tx(s)
  PROVE  Sound'
<1> DEFINE f == msg_objs[s]
<1>1. /\ clean /\ pc # "hung" /\ s \in Pending /\ (\A t \in Pending : s <= t)
      /\ mailbox' = Append(mailbox, f) /\ msg_objs' = [msg_objs EXCEPT ![s] = None]
      /\ msgSignals' = msgSignals \ {s} /\ tx_count' = Lower(tx_count)
      /\ UNCHANGED <<pc, todo, num, seen, rxTable>>
  <2>1. clean /\ Len(mailbox) < MailCap
    BY DEF CAN_tx, Types
  <2> QED
    BY <2>1 DEF CAN_tx, Types, mainVars, hostVars
<1>2. Sound /\ f \in Messages /\ msg_objs \in [Slots -> Messages \cup {None}]
      /\ mailbox \in Seq(Messages)
  BY <1>1, PendingIs DEF Types
<1>3. Pending' = Pending \ {s} /\ \A t \in Slots \ {s} : msg_objs'[t] = msg_objs[t]
  BY <1>1, <1>2 DEF Pending
<1>4. /\ Len(mailbox) \in Nat /\ DOMAIN mailbox = 1..Len(mailbox)
      /\ DOMAIN mailbox' = 1..(Len(mailbox) + 1) /\ mailbox'[Len(mailbox) + 1] = f
      /\ \A i \in DOMAIN mailbox : mailbox'[i] = mailbox[i]
  <2> HIDE DEF f
  <2>1. /\ mailbox' \in Seq(Messages) /\ Len(mailbox') = Len(mailbox) + 1
        /\ \A i \in 1..Len(mailbox) : mailbox'[i] = mailbox[i]
        /\ mailbox'[Len(mailbox) + 1] = f
    BY <1>1, <1>2, AppendProperties
  <2> QED
    BY <1>2, <2>1
<1> HIDE DEF f
<1>5. Counted'
  <2>1. Cardinality(Pending') = Cardinality(Pending) - 1 /\ Cardinality(Pending) \in Nat \ {0}
    BY <1>1, <1>3, PendingIs, FS_RemoveElement
  <2>2. Len(todo) \in Nat /\ tx_count = Len(todo) + Cardinality(Pending)
    BY <1>2 DEF Sound, Counted, Types
  <2> QED
    BY <1>1, <2>1, <2>2 DEF Lower, Counted
<1>6. Marked'
  BY <1>1, <1>2, <1>3 DEF Sound, Marked
<1>7. ~(todo # <<>> /\ todo[1].kind = "first")
  BY <1>1, <1>2 DEF Sound, FirstAhead
\* a first frame is sent before all others
<1>8. \A t \in Pending' : msg_objs'[t].kind # "first"
  <2> SUFFICES ASSUME NEW t \in Pending, t # s, msg_objs[t].kind = "first" PROVE FALSE
    BY <1>1, <1>3 DEF Pending
  <2>1. s < t
    BY <1>1, PendingIs
  <2>2. msg_objs[s] = None
    BY <2>1, <1>2 DEF Sound, FirstAhead, Below
  <2> QED
    BY <2>2, <1>1 DEF Pending
<1>9. FirstAhead' /\ Follow'
  BY <1>1, <1>2, <1>7, <1>8 DEF FirstAhead, Follow, Sound
<1>10. ASSUME NEW c, NEW g, Coming(c, g), f # Seg(c, g) PROVE Coming(c, g)'
  <2>1. ASSUME NEW t \in Slots, msg_objs[t] = Seg(c, g) PROVE Coming(c, g)'
    <3>1. t # s
      BY <2>1, <1>10 DEF f
    <3> QED
      BY <2>1, <3>1, <1>3 DEF Coming
  <2> QED
    BY <1>1, <1>10, <2>1 DEF Coming
<1>11. ASSUME NEW c, OnlySegments(c, {}, 1) \/ OnlySegments(c, {s}, 1) PROVE OnlySegments(c, {}, 1)'
  BY <1>1, <1>3, <1>11 DEF OnlySegments, Pending
<1>12. ASSUME NEW c, NEW g, NEW k \in Nat \ {0}, k <= Len(mailbox) + 1, Arrives(k, c, g)
       PROVE  Arrives(k, c, g)'
  <2> DEFINE new == Len(mailbox) + 1
  <2>1. ASSUME NEW j \in DOMAIN mailbox, j >= k, mailbox[j] = Seg(c, g),
               \A l \in k..j : IsSegment(mailbox[l], c)
        PROVE  Arrives(k, c, g)'
    <3>1. j \in DOMAIN mailbox' /\ mailbox'[j] = Seg(c, g)
      BY <2>1, <1>4
    <3>2. \A l \in k..j : IsSegment(mailbox'[l], c)
      BY <2>1, <1>4
    <3> QED
      BY <2>1, <3>1, <3>2 DEF Arrives
  <2>2. ASSUME Coming(c, g), OnlySegments(c, {}, 1),
               \A l \in DOMAIN mailbox : l >= k => IsSegment(mailbox[l], c)
        PROVE  Arrives(k, c, g)'
    <3>1. IsSegment(f, c)
      BY <2>2, <1>1 DEF OnlySegments, f
    <3>2. \A l \in DOMAIN mailbox' : l >= k => IsSegment(mailbox'[l], c)
      BY <2>2, <3>1, <1>4
    <3>3. CASE f = Seg(c, g)
      <4>1. new \in DOMAIN mailbox' /\ new >= k /\ mailbox'[new] = Seg(c, g)
        BY <3>3, <1>4, <1>12
      <4>2. \A l \in k..new : l \in DOMAIN mailbox' /\ l >= k
        BY <1>4
      <4> QED
        BY <4>1, <4>2, <3>2 DEF Arrives
    <3>4. CASE f # Seg(c, g)
      BY <2>2, <3>2, <3>4, <1>10, <1>11 DEF Arrives
    <3> QED
      BY <3>3, <3>4
  <2> QED
    BY <1>12, <2>1, <2>2 DEF Arrives
<1>13. Arriving'
  <2>1. ASSUME NEW i \in DOMAIN mailbox', mailbox'[i].kind = "first"
        PROVE  (mailbox[i].of \in Contents /\ \A g \in 0..Last(mailbox[i].of) : Arrives(i + 1, mailbox[i].of, g))'
    <3>0. PICK c : c = mailbox'[i].of
      OBVIOUS
    <3>1. CASE i \in DOMAIN mailbox
      <4>1. mailbox[i].kind = "first" /\ mailbox[i].of = c
        BY <2>1, <3>0, <3>1, <1>4
      <4>2. c \in Contents /\ \A g \in 0..Last(c) : Arrives(i + 1, c, g)
        BY <3>1, <4>1, <1>2 DEF Sound, Arriving
      <4>3. i + 1 \in Nat \ {0} /\ i + 1 <= Len(mailbox) + 1
        BY <3>1, <1>4
      <4>4. \A g \in 0..Last(c) : Arrives(i + 1, c, g)'
        BY <4>2, <4>3, <1>12
      <4> QED
        BY <3>0, <4>2, <4>4
    <3>2. CASE i = Len(mailbox) + 1
      <4>1. f.kind = "first" /\ f.of = c
        BY <2>1, <3>0, <3>2, <1>4
      <4>2. c \in Contents /\ OnlySegments(c, {s}, 1) /\ \A g \in 0..Last(c) : Coming(c, g)
        BY <4>1, <1>1, <1>2 DEF f, Sound, Follow
      <4>3. \A g : f # Seg(c, g)
        BY <4>1 DEF Seg, Frame
      <4>4. OnlySegments(c, {}, 1)' /\ \A g \in 0..Last(c) : Coming(c, g)'
        BY <4>2, <4>3, <1>10, <1>11
      <4>5. \A l \in DOMAIN mailbox' : ~(l >= i + 1)
        BY <3>2, <1>4
      <4>6. \A g \in 0..Last(c) : Arrives(i + 1, c, g)'
        BY <4>4, <4>5 DEF Arrives
      <4> QED
        BY <3>0, <4>2, <4>6
    <3> QED
      BY <3>1, <3>2, <1>4
  <2>2. ASSUME rxTable # None
        PROVE  /\ Entry(rxTable) /\ \E g \in 0..Last(rxTable.head) : rxTable.parts[g] = None
               /\ \A g \in 0..Last(rxTable.head) : rxTable.parts[g] = None => Arrives(1, rxTable.head, g)'
    <3>0. PICK rx : rx = rxTable
      OBVIOUS
    <3>1. /\ Entry(rx) /\ \E g \in 0..Last(rx.head) : rx.parts[g] = None
          /\ \A g \in 0..Last(rx.head) : rx.parts[g] = None => Arrives(1, rx.head, g)
      BY <3>0, <2>2, <1>2 DEF Sound, Arriving
    <3>2. 1 <= Len(mailbox) + 1
      BY <1>4
    <3>3. \A g \in 0..Last(rx.head) : rx.parts[g] = None => Arrives(1, rx.head, g)'
      BY <3>1, <3>2, <1>12
    <3> QED
      BY <3>0, <3>1, <3>3, <1>1
  <2> QED
    BY <2>1, <2>2, <1>1 DEF Arriving
<1> QED
  BY <1>2, <1>5, <1>6, <1>9, <1>13 DEF Sound

-----------------------------------------------------------------------------
(* CanEx takes a frame from the mailbox.                                   *)

\* what a poll finds first, if an entry is unfinished: one of its segments
LEMMA SegmentIsNext ==
  ASSUME Types, Sound, mailbox # <<>>, rxTable # None
  PROVE  IsSegment(mailbox[1], rxTable.head)
<1>1. 1 \in DOMAIN mailbox
  BY DEF Types
<1>2. PICK g \in 0..Last(rxTable.head) : Arrives(1, rxTable.head, g)
  BY DEF Sound, Arriving
<1> QED
  BY <1>1, <1>2 DEF Arrives

\* what arrives behind the frame that is polled arrives
LEMMA ArrivesPolled ==
  ASSUME Types, Poll, NEW c, NEW g, NEW k \in Nat \ {0},
         Arrives(k + 1, c, g) \/ (k = 1 /\ Arrives(1, c, g) /\ mailbox[1] # Seg(c, g))
  PROVE  Arrives(k, c, g)'
<1>1. mailbox \in Seq(Messages) /\ mailbox # <<>> /\ mailbox' = Tail(mailbox) /\ UNCHANGED <<todo, msg_objs>>
  BY DEF Types, Poll, mainVars, chipVars
<1>2. /\ Len(mailbox) \in Nat \ {0} /\ DOMAIN mailbox = 1..Len(mailbox)
      /\ DOMAIN mailbox' = 1..(Len(mailbox) - 1)
      /\ \A l \in DOMAIN mailbox' : mailbox'[l] = mailbox[l + 1]
  <2>1. mailbox' \in Seq(Messages) /\ Len(mailbox') = Len(mailbox) - 1
    BY <1>1
  <2> QED
    BY <1>1, <2>1
<1>3. ASSUME NEW j \in DOMAIN mailbox, j >= k + 1, mailbox[j] = Seg(c, g),
             \A l \in (k + 1)..j : IsSegment(mailbox[l], c)
      PROVE  Arrives(k, c, g)'
  <2>1. j - 1 \in DOMAIN mailbox' /\ j - 1 >= k /\ mailbox'[j - 1] = mailbox[j]
    <3>1. j - 1 \in DOMAIN mailbox' /\ j - 1 >= k /\ (j - 1) + 1 = j
      BY <1>2, <1>3
    <3> QED
      BY <3>1, <1>2
  <2>2. ASSUME NEW l \in k..(j - 1) PROVE IsSegment(mailbox'[l], c)
    <3>1. l \in DOMAIN mailbox' /\ l + 1 \in (k + 1)..j
      BY <1>2, <1>3
    <3> QED
      BY <3>1, <1>2, <1>3
  <2> QED
    BY <1>3, <2>1, <2>2 DEF Arrives
<1>4. ASSUME Coming(c, g), OnlySegments(c, {}, 1),
             \A l \in DOMAIN mailbox : l >= k + 1 => IsSegment(mailbox[l], c)
      PROVE  Arrives(k, c, g)'
  <2>1. Coming(c, g)' /\ OnlySegments(c, {}, 1)'
    BY <1>1, <1>4 DEF Coming, OnlySegments, Pending
  <2>2. ASSUME NEW l \in DOMAIN mailbox', l >= k PROVE IsSegment(mailbox'[l], c)
    <3>1. l + 1 \in DOMAIN mailbox /\ l + 1 >= k + 1
      BY <1>2, <2>2
    <3> QED
      BY <3>1, <1>2, <1>4
  <2> QED
    BY <2>1, <2>2 DEF Arrives
<1>5. CASE Arrives(k + 1, c, g)
  BY <1>3, <1>4, <1>5 DEF Arrives
<1>6. CASE k = 1 /\ Arrives(1, c, g) /\ mailbox[1] # Seg(c, g)
  <2>1. ASSUME NEW j \in DOMAIN mailbox, j >= 1, mailbox[j] = Seg(c, g),
               \A l \in 1..j : IsSegment(mailbox[l], c)
        PROVE  Arrives(k, c, g)'
    <3>1. j # 1
      BY <1>6, <2>1
    <3>2. j >= k + 1 /\ \A l \in (k + 1)..j : l \in 1..j
      BY <3>1, <2>1, <1>2, <1>6
    <3> QED
      BY <2>1, <3>2, <1>3
  <2>2. ASSUME Coming(c, g), OnlySegments(c, {}, 1),
               \A l \in DOMAIN mailbox : l >= 1 => IsSegment(mailbox[l], c)
        PROVE  Arrives(k, c, g)'
    BY <2>2, <1>4, <1>2
  <2> QED
    BY <1>6, <2>1, <2>2 DEF Arrives
<1> QED
  BY <1>5, <1>6

LEMMA PollSound ==
  ASSUME Types, Sound, PollStep
  PROVE  Sound'
<1>1. /\ Poll /\ mailbox # <<>> /\ mailbox \in Seq(Messages) /\ mailbox' = Tail(mailbox)
      /\ UNCHANGED <<todo, msg_objs, msgSignals, pc, num, seen, tx_count>>
  BY DEF PollStep, PollShort, PollFirst, PollSegment, Poll, Types, mainVars, chipVars
<1>2. Counted' /\ Marked' /\ FirstAhead' /\ Follow'
  BY <1>1 DEF Sound, Counted, Marked, FirstAhead, Below, Follow, Pending, Coming, OnlySegments
<1>3. /\ Len(mailbox) \in Nat \ {0} /\ DOMAIN mailbox = 1..Len(mailbox)
      /\ DOMAIN mailbox' = 1..(Len(mailbox) - 1) /\ Head(mailbox) = mailbox[1]
      /\ mailbox[1] \in Messages
      /\ \A l \in DOMAIN mailbox' : mailbox'[l] = mailbox[l + 1]
  <2>1. mailbox' \in Seq(Messages) /\ Len(mailbox') = Len(mailbox) - 1
    BY <1>1
  <2> QED
    BY <1>1, <2>1
\* the entries behind
<1>4. ASSUME NEW i \in DOMAIN mailbox', mailbox'[i].kind = "first"
      PROVE  (mailbox[i].of \in Contents /\ \A g \in 0..Last(mailbox[i].of) : Arrives(i + 1, mailbox[i].of, g))'
  <2>1. PICK c : c = mailbox'[i].of
    OBVIOUS
  <2>2. i + 1 \in DOMAIN mailbox /\ i + 1 \in Nat \ {0} /\ mailbox[i + 1].kind = "first" /\ mailbox[i + 1].of = c
    BY <1>3, <1>4, <2>1
  <2>3. c \in Contents /\ \A g \in 0..Last(c) : Arrives((i + 1) + 1, c, g)
    BY <2>2 DEF Sound, Arriving
  <2>4. \A g \in 0..Last(c) : Arrives(i + 1, c, g)'
    BY <2>2, <2>3, <1>1, ArrivesPolled
  <2> QED
    BY <2>1, <2>3, <2>4
\* the entry in the table
<1>5. ASSUME rxTable' # None
      PROVE  (/\ Entry(rxTable) /\ \E g \in 0..Last(rxTable.head) : rxTable.parts[g] = None
              /\ \A g \in 0..Last(rxTable.head) : rxTable.parts[g] = None => Arrives(1, rxTable.head, g))'
  <2> SUFFICES ASSUME NEW rx, rx = rxTable'
               PROVE  /\ Entry(rx) /\ \E g \in 0..Last(rx.head) : rx.parts[g] = None
                      /\ \A g \in 0..Last(rx.head) : rx.parts[g] = None => Arrives(1, rx.head, g)'
    OBVIOUS
  <2>1. CASE PollShort
    <3>1. rxTable' = rxTable /\ mailbox[1].kind # "segment"
      BY <2>1, <1>3 DEF PollShort, hostVars
    <3> QED
      BY <3>1, <1>1, <1>5, SegmentIsNext DEF IsSegment
  <2>2. CASE PollFirst
    <3>1. PICK c : c = mailbox[1].of
      OBVIOUS
    <3>2. mailbox[1].kind = "first" /\ rxTable = None /\ rx = Fresh(c)
      <4>1. mailbox[1].kind = "first"
        BY <2>2, <1>3 DEF PollFirst
      <4>2. rxTable = None
        BY <4>1, <1>1, SegmentIsNext DEF IsSegment
      <4> QED
        BY <2>2, <3>1, <4>1, <4>2, <1>3 DEF PollFirst
    <3>3. 1 \in DOMAIN mailbox /\ c \in Contents /\ \A g \in 0..Last(c) : Arrives(1 + 1, c, g)
      BY <3>1, <3>2, <1>3 DEF Sound, Arriving
    <3>4. \A g \in 0..Last(c) : Arrives(1, c, g)'
      BY <3>3, <1>1, ArrivesPolled
    <3>5. Last(c) \in Nat /\ 0 \in 0..Last(c)
      BY <3>3, SizeIs
    <3>6. rx = [size |-> Size[c], head |-> c, parts |-> [g \in 0..Last(c) |-> None]]
      BY <3>2 DEF Fresh, Last
    <3>7. Entry(rx) /\ rx.head = c /\ \A g \in 0..Last(c) : rx.parts[g] = None
      BY <3>3, <3>6 DEF Entry
    <3> QED
      BY <3>4, <3>5, <3>7
  <2>3. CASE PollSegment
    <3>0. PICK old : old = rxTable
      OBVIOUS
    <3>1. old # None /\ mailbox[1] \in Messages
      BY <2>3, <3>0, <1>3, <1>5 DEF PollSegment, hostVars
    <3>2. /\ Entry(old) /\ IsSegment(mailbox[1], old.head)
          /\ \A g \in 0..Last(old.head) : old.parts[g] = None => Arrives(1, old.head, g)
      BY <3>0, <3>1, <1>1, SegmentIsNext DEF Sound, Arriving
    <3>3. rx = SetSegment(old, mailbox[1]) /\ ~IsComplete(rx)
      BY <2>3, <3>0, <3>1, <1>3, <1>5 DEF PollSegment
    <3>4. /\ Entry(rx) /\ rx.head = old.head
          /\ \A g \in 0..Last(old.head) : rx.parts[g] = None <=> old.parts[g] = None /\ g # mailbox[1].seg
      BY <3>1, <3>2, <3>3, SetSegmentIs
    <3>5. \E g \in 0..Last(rx.head) : rx.parts[g] = None
      BY <3>3, <3>4 DEF IsComplete, Entry
    <3>6. \A g : mailbox[1] = Seg(old.head, g) => mailbox[1].seg = g
      BY DEF Seg, Frame
    <3>7. \A g \in 0..Last(rx.head) : rx.parts[g] = None => Arrives(1, rx.head, g)'
      BY <3>2, <3>4, <3>6, <1>1, ArrivesPolled
    <3> QED
      BY <3>4, <3>5, <3>7
  <2> QED
    BY <2>1, <2>2, <2>3 DEF PollStep
<1>6. Arriving'
  BY <1>4, <1>5 DEF Arriving
<1> QED
  BY <1>2, <1>6 DEF Sound

-----------------------------------------------------------------------------
LEMMA LinkInit == Init => LinkInv
<1> SUFFICES ASSUME Init PROVE Sound
  BY TypesInit DEF LinkInv
<1>1. Pending = {} /\ Cardinality(Pending) = 0
  <2>1. Pending = {}
    BY DEF Init, Pending
  <2> QED
    BY <2>1, FS_EmptySet
<1> QED
  BY <1>1 DEF Init, Sound, Counted, Marked, FirstAhead, Follow, Arriving

LEMMA LinkNext == LinkInv /\ [Next]_vars => LinkInv'
<1> SUFFICES ASSUME Types, clean => Sound, [Next]_vars, clean' PROVE Sound'
  BY TypesNext DEF LinkInv
<1>1. ASSUME NEW fs \in Transmitted, CANTransmit(fs) PROVE Sound'
  BY <1>1, TransmitSound
<1>2. CASE CANSend \/ Probe \/ Load
  <2>1. clean
    BY <1>2 DEF CANSend, Probe, Load
  <2> QED
    BY <1>2, <2>1, SearchSound
<1>3. CASE Store
  <2>1. clean
    BY <1>3 DEF Store, Types
  <2> QED
    BY <1>3, <2>1, StoreSound
<1>4. ASSUME NEW s \in Slots, CAN_tx(s) PROVE Sound'
  BY <1>4, SentSound
<1>5. CASE PollStep
  <2>1. clean
    BY <1>5 DEF PollStep, PollShort, PollFirst, PollSegment, Poll
  <2> QED
    BY <1>5, <2>1, PollSound
<1>6. CASE Drop \/ Heartbeat \/ HeartbeatHangs \/ CAN_error
  BY <1>6 DEF Drop, Heartbeat, HeartbeatHangs, CAN_error
<1>7. ASSUME UNCHANGED <<pc, todo, num, seen, tx_count, msgSignals, msg_objs, mailbox, rxTable, clean>>
      PROVE  Sound'
  <2>1. Sound /\ Pending' = Pending
    BY <1>7 DEF Pending
  <2>2. Counted' /\ Marked' /\ FirstAhead'
    BY <1>7, <2>1 DEF Sound, Counted, Marked, FirstAhead, Below
  <2> QED
    BY <1>7, <2>1, <2>2, NothingMoves DEF Sound
<1> QED
  BY <1>1, <1>2, <1>3, <1>4, <1>5, <1>6, <1>7
  DEF Next, MainLoop, Broadcast, Response, Transmitted, Change, BusError, Recover, vars,
      mainVars, chipVars, hostVars, Types

LEMMA LinkInvariance == Spec => []LinkInv
BY LinkInit, LinkNext, PTL DEF Spec

\* When a first frame is polled no unfinished entry is in the table: the frame that CanEx
\* would ignore then (CanEx.cpp:187-191) never comes, for any contents, sizes and objects,
\* while the link works.
THEOREM NothingIsStale == Spec => []NothingStale
<1>1. LinkInv => NothingStale
  <2> SUFFICES ASSUME LinkInv, clean, mailbox # <<>>, Head(mailbox).kind = "first", rxTable # None
               PROVE  FALSE
    BY DEF NothingStale
  <2>1. Types /\ Sound /\ Head(mailbox) = mailbox[1]
    BY DEF LinkInv, Types
  <2> QED
    BY <2>1, SegmentIsNext DEF IsSegment
<1> QED
  BY <1>1, LinkInvariance, PTL

\* "Wait for last entry transmitted" (canonchip.c:335) is a wait for all of its frames,
\* though interrupts and the main loop change tx_count and msgSignals without a lock.
THEOREM LastIsWaitedFor == Spec => WaitsForLast
<1>1. LinkInv /\ [Next]_vars => [pc = "loop" /\ pc' = "send" /\ clean => Pending = {}]_vars
  <2> SUFFICES ASSUME LinkInv, [Next]_vars, pc = "loop", pc' = "send", clean PROVE Pending = {}
    OBVIOUS
  <2>1. tx_count <= 0
    BY DEF Next, MainLoop, Broadcast, Response, CANTransmit, Drop, CANSend, Probe, Load, Store, PollStep,
           PollShort, PollFirst, PollSegment, Poll, Change, CAN_tx, Heartbeat, HeartbeatHangs,
           BusError, CAN_error, Recover, vars, mainVars
  <2> QED
    BY <2>1, AllSent DEF LinkInv, Sound
<1> QED
  BY <1>1, LinkInvariance, PTL DEF Spec, WaitsForLast

\* An entry that is delivered is all of one that the unit sent: nothing is mixed or missing,
\* whatever order the chip sends its segments in, while the link works.
THEOREM EntriesAreWhole == Spec => Intact
<1>1. LinkInv /\ [Next]_vars => [got' # got /\ clean => got' \in {Whole(c) : c \in Contents}]_vars
  <2> SUFFICES ASSUME LinkInv, [Next]_vars, got' # got, clean
               PROVE  \E c \in Contents : got' = Whole(c)
    OBVIOUS
  <2>1. PollSegment
    BY DEF Next, MainLoop, Broadcast, Response, CANTransmit, Drop, CANSend, Probe, Load, Store, PollStep,
           PollShort, PollFirst, Change, CAN_tx, Heartbeat, HeartbeatHangs,
           BusError, CAN_error, Recover, vars, hostVars
  <2>2. /\ Types /\ Sound /\ mailbox # <<>> /\ mailbox[1] \in Messages /\ Head(mailbox) = mailbox[1]
        /\ rxTable # None
    BY <2>1 DEF PollSegment, Poll, hostVars, LinkInv, Types
  <2>3. PICK c : c = rxTable.head
    OBVIOUS
  <2>4. Entry(rxTable) /\ IsSegment(mailbox[1], rxTable.head)
    BY <2>2, SegmentIsNext DEF Sound, Arriving
  <2>5. got' = SetSegment(rxTable, mailbox[1]) /\ IsComplete(got')
    BY <2>1, <2>2 DEF PollSegment
  <2>6. Entry(got') /\ got'.head = c
    BY <2>2, <2>3, <2>4, <2>5, SetSegmentIs
  <2>7. c \in Contents /\ got' = [size |-> Size[c], head |-> c, parts |-> got'.parts]
        /\ got'.parts \in [0..Last(c) -> {None, c}]
    BY <2>6 DEF Entry
  <2>8. got'.parts = [i \in 0..Last(c) |-> c]
    BY <2>5, <2>7 DEF IsComplete
  <2> QED
    BY <2>7, <2>8 DEF Whole, Last
<1> QED
  BY <1>1, LinkInvariance, PTL DEF Spec, Intact
=============================================================================
