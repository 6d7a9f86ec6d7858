-------------------------------- MODULE TagScan --------------------------------
(***************************************************************************)
(* What one scan of the reader does to the entry of a unit: UpdateRfid as  *)
(* a single step.  The requests that a scan is made of are in TagReader.   *)
(***************************************************************************)
EXTENDS Naturals

CONSTANTS Cards, Coded, NoCard, RFID_TIME_COUNT

VARIABLES
  mem,       \* type 0 none, 1 plain, 2 coded, and the UID
  UIDlast, coded, lostCount,
  field      \* the tags that were on the reader while the scan went on

scanVars == <<mem, UIDlast, coded, lostCount>>

Empty == [type |-> 0, id |-> NoCard]

ScanInit == mem = Empty /\ UIDlast = NoCard /\ coded = FALSE /\ lostCount = 0

\* no tag found, which is forgiven for a while
NoneFound ==
  /\ IF lostCount < RFID_TIME_COUNT
     THEN lostCount' = lostCount + 1 /\ UNCHANGED <<mem, UIDlast>>
     ELSE /\ mem' = Empty
          /\ UIDlast' = IF mem.type # 0 THEN NoCard ELSE UIDlast
          /\ UNCHANGED lostCount
  /\ UNCHANGED coded

Found(t) == t # NoCard /\ lostCount' = 0

\* the tag of the last scan
SameFound(t) == Found(t) /\ t = UIDlast /\ UNCHANGED <<mem, UIDlast, coded>>

\* another tag, read; cardData keeps its block 0
NewRead(t) ==
  /\ Found(t) /\ t # UIDlast
  /\ UIDlast' = t
  /\ coded' = (t \in Coded)
  /\ mem' = [type |-> IF t \in Coded THEN 2 ELSE 1, id |-> t]

\* another tag, every read fails; what cardData held decides
NewUnread(t) ==
  /\ Found(t) /\ t # UIDlast
  /\ UIDlast' = IF coded THEN t ELSE NoCard
  /\ mem' = IF coded THEN [type |-> 2, id |-> t] ELSE Empty
  /\ UNCHANGED coded

ScanNext == NoneFound \/ \E t \in field : SameFound(t) \/ NewRead(t) \/ NewUnread(t)

ScanSpec == ScanInit /\ [][ScanNext]_scanVars
=============================================================================
