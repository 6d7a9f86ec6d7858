------------------------------ MODULE TagReader ------------------------------
(***************************************************************************)
(* The RFID reader of a unit: UpdateRfid asks the tag in the field with    *)
(* requests to the reader chip, each with its waits on irq_flag and i_reg, *)
(* which the interrupts of the chip and of the timer set.                  *)
(***************************************************************************)
EXTENDS Integers, Sequences

CONSTANTS
  Tags, Coded,  \* tags; those whose block 0 says "DIHM"
  None,         \* no tag; a UID of zeros
  Garbage,      \* bytes put together from several places
  Tries,        \* tries of a read: 10
  LostScans,    \* RFID_TIME_COUNT
  ChipWaits,    \* the main loop is at its next wait before the chip goes on
  MaxNoise,     \* bound: errors on the air, answers that come too late
  MaxMoves      \* bound: tags placed and removed

ASSUME TagReaderAssumption ==
  /\ Coded \subseteq Tags /\ {None, Garbage} \cap Tags = {} /\ None # Garbage
  /\ Tries \in Nat \ {0} /\ LostScans \in Nat /\ ChipWaits \in BOOLEAN
  /\ MaxNoise \in Nat /\ MaxMoves \in Nat

VARIABLES
  tag,       \* the tag in the field
  air,       \* chip: what it is at, with the chunks of the answer still to come
  irq_flag, i_reg, rx_error_flag, \* shared with the interrupts
  timer,     \* SysTick is running
  rx,        \* what was written to buf since rxtx_state was set
  pc, req,   \* main loop: the wait or step it is at, and the request
  UID,
  UIDlast, cardData, mem, \* UpdateRfid: cardData and MemBuffer hold the tag they came from
  failCount, lostCount,
  noise, moves,
  gaveUp     \* history: the last reads into MemBuffer were not all made

chip == <<air, irq_flag, i_reg, rx_error_flag, timer, rx>>
main == <<pc, req>>
entry == <<UID, UIDlast, cardData, mem, failCount, lostCount, gaveUp>>
readerVars == <<tag, chip, main, entry, noise, moves>>

Requests == {"inventory", "block", "multi"}
Waits == {"tx1", "tx2", "rx", "more"}
Long(r) == r # "inventory"   \* more than the 12 bytes of the FIFO
\* 10 bytes, 5 bytes and 109 bytes, taken in nines; three chunks stand for the last
Chunks(r) == CASE r = "inventory" -> 2 [] r = "block" -> 1 [] OTHER -> 3
Idle == [at |-> "idle", left |-> 0]

ReaderInit ==
  /\ tag = None
  /\ air = Idle /\ irq_flag = 0 /\ i_reg = 1 /\ rx_error_flag = 0 /\ timer = FALSE
  /\ rx = <<>>
  /\ pc = "scan" /\ req = "inventory" /\ UID = None
  /\ UIDlast = None /\ cardData = None /\ mem = [type |-> 0, id |-> None, pres |-> None]
  /\ failCount = 0 /\ lostCount = 0
  /\ noise = 0 /\ moves = 0 /\ gaveUp = FALSE

-----------------------------------------------------------------------------
(* The tag.                                                                *)

Move ==
  /\ moves < MaxMoves /\ air.at # "answer"
  /\ moves' = moves + 1
  /\ tag' \in (Tags \cup {None}) \ {tag}
  /\ UNCHANGED <<chip, main, entry, noise>>

-----------------------------------------------------------------------------
(* The chip and its interrupt: PIOINT3_IRQHandler, which no other interrupt *)
(* of the unit delays for as long as the chip takes to its next event.     *)

InTime ==
  ChipWaits => \/ pc \in Waits \ {"more"} /\ irq_flag = 0
               \/ pc = "more" /\ i_reg = 1

Interrupt == irq_flag' = 2 /\ timer' = FALSE
Noise == noise < MaxNoise /\ noise' = noise + 1

\* only three bytes left in the FIFO
Few ==
  /\ air.at = "sending" /\ Long(req) /\ InTime
  /\ air' = [air EXCEPT !.at = "last"]
  /\ Interrupt
  /\ UNCHANGED <<tag, i_reg, rx_error_flag, rx, main, entry, noise, moves>>

Sent ==
  /\ air.at = IF Long(req) THEN "last" ELSE "sending"
  /\ InTime
  /\ air' = [air EXCEPT !.at = "sent"]
  /\ Interrupt /\ i_reg' = 0
  /\ UNCHANGED <<tag, rx_error_flag, rx, main, entry, noise, moves>>

\* a mutated Answers, of a request without the UID
AnswersUnaddressed == tag # None

\* an addressed request is answered by that tag only
Answers == tag # None /\ (req # "inventory" => tag = UID)

Silent ==
  /\ air.at = "sent" /\ ~Answers /\ InTime
  /\ air' = Idle
  /\ Interrupt /\ i_reg' = 0
  /\ UNCHANGED <<tag, rx_error_flag, rx, main, entry, noise, moves>>

Answer ==
  /\ air.at = "sent" /\ Answers
  /\ air' = [at |-> "answer", left |-> Chunks(req)]
  /\ UNCHANGED <<tag, irq_flag, i_reg, rx_error_flag, timer, rx, main, entry, noise, moves>>

Chunk == [of |-> tag, number |-> Chunks(req) + 1 - air.left]

\* nine bytes in the FIFO
Nine ==
  /\ air.at = "answer" /\ air.left > 1 /\ InTime
  /\ air' = [air EXCEPT !.left = @ - 1]
  /\ rx' = Append(rx, Chunk)
  /\ Interrupt /\ i_reg' = 1
  /\ UNCHANGED <<tag, rx_error_flag, main, entry, noise, moves>>

End ==
  /\ air.at = "answer" /\ air.left = 1 /\ InTime
  /\ air' = Idle
  /\ IF rx_error_flag = 2 THEN i_reg' = 2 /\ UNCHANGED rx
     ELSE i_reg' = 255 /\ rx' = Append(rx, Chunk)
  /\ Interrupt
  /\ UNCHANGED <<tag, rx_error_flag, main, entry, noise, moves>>

Collision ==
  /\ air.at = "answer" /\ InTime /\ Noise
  /\ air' = Idle
  /\ Interrupt /\ i_reg' = 2
  /\ UNCHANGED <<tag, rx_error_flag, rx, main, entry, moves>>

\* at the end of the answer, or while it goes on
CrcError ==
  /\ air.at = "answer" /\ InTime /\ Noise
  /\ air' \in {air, Idle}
  /\ Interrupt /\ i_reg' = 2 /\ rx_error_flag' = 2
  /\ UNCHANGED <<tag, rx, main, entry, moves>>

\* a byte framing error while the answer goes on
FramingError ==
  /\ air.at = "answer" /\ InTime /\ Noise
  /\ Interrupt /\ i_reg' = 1 /\ rx_error_flag' = 2
  /\ UNCHANGED <<tag, air, rx, main, entry, moves>>

\* a mutated SysTick_Handler, without irq_flag
SysTick_HandlerMute ==
  /\ timer
  /\ timer' = FALSE
  /\ i_reg' = IF air.at = "answer" THEN 1 ELSE 0
  /\ IF air = Idle THEN UNCHANGED noise ELSE Noise
  /\ UNCHANGED <<tag, air, irq_flag, rx_error_flag, rx, main, entry, moves>>

\* early, if the chip is still at it
SysTick_Handler ==
  /\ timer
  /\ Interrupt
  /\ i_reg' = IF air.at = "answer" THEN 1 ELSE 0
  /\ IF air = Idle THEN UNCHANGED noise ELSE Noise
  /\ UNCHANGED <<tag, air, rx_error_flag, rx, main, entry, moves>>

-----------------------------------------------------------------------------
(* A request: Iso15693Anticollision with one slot, and the two reads.      *)

Request(r) == pc' = "write" /\ req' = r

RawWrite ==
  /\ pc = "write"
  /\ air' = [at |-> "sending", left |-> 0]
  /\ pc' = "clear1"
  /\ UNCHANGED <<tag, irq_flag, i_reg, rx_error_flag, timer, rx, req, entry, noise, moves>>

\* irq_flag is cleared and the timer started, for the wait that comes next
Clear(l, wait) ==
  /\ pc = l
  /\ irq_flag' = 0 /\ timer' = TRUE
  /\ pc' = wait
  /\ i_reg' = IF l = "clear1" /\ req = "inventory" THEN 1 ELSE i_reg
  /\ UNCHANGED <<tag, air, rx_error_flag, rx, req, entry, noise, moves>>

Waited(wait, l) ==
  /\ pc = wait /\ irq_flag = 2
  /\ pc' = l
  /\ UNCHANGED <<tag, chip, req, entry, noise, moves>>

TxDone == Waited("tx1", IF Long(req) THEN "clear2" ELSE "index") \/ Waited("tx2", "index")

\* a mutated SetIndex, without the assignment
SetIndexNot ==
  /\ pc = "index"
  /\ pc' = "clear3"
  /\ UNCHANGED <<tag, chip, req, entry, noise, moves>>

\* rxtx_state
SetIndex ==
  /\ pc = "index"
  /\ rx' = <<>>
  /\ pc' = "clear3"
  /\ UNCHANGED <<tag, air, irq_flag, i_reg, rx_error_flag, timer, req, entry, noise, moves>>

RxBegun == Waited("rx", "more")

RxDone ==
  /\ pc = "more" /\ i_reg # 1
  /\ pc' = "decode"
  /\ UNCHANGED <<tag, chip, req, entry, noise, moves>>

\* k has reached 0xFFF0
RxTooLong ==
  /\ pc = "more" /\ i_reg = 1
  /\ i_reg' = 0
  /\ rx_error_flag' = IF req = "inventory" THEN 0 ELSE 1
  /\ IF air = Idle THEN UNCHANGED noise ELSE Noise
  /\ pc' = "decode"
  /\ UNCHANGED <<tag, air, irq_flag, timer, rx, req, entry, moves>>

-----------------------------------------------------------------------------
(* UpdateRfid.                                                             *)

\* whose answer buf holds, all of it and in its place
Content ==
  IF rx # <<>> /\ rx = [i \in 1..Chunks(req) |-> [of |-> rx[1].of, number |-> i]]
  THEN rx[1].of ELSE Garbage

Scan ==
  /\ pc = "scan"
  /\ Request("inventory")
  /\ UNCHANGED <<tag, chip, entry, noise, moves>>

\* the end of a request: the chip is reset and its interrupt is off
Over == air' = Idle /\ UNCHANGED <<tag, irq_flag, i_reg, timer, rx, noise, moves>>

\* a mutated NotFound, without the reset of rx_error_flag
NotFoundKeepsFlag ==
  /\ pc = "decode" /\ req = "inventory" /\ i_reg # 255
  /\ UID' = None
  /\ lostCount' = IF lostCount >= LostScans THEN LostScans ELSE lostCount + 1
  /\ IF lostCount + 1 > LostScans /\ mem.type # 0
     THEN mem' = [mem EXCEPT !.type = 0, !.id = None] /\ UIDlast' = None
     ELSE UNCHANGED <<mem, UIDlast>>
  /\ pc' = "scan"
  /\ Over /\ UNCHANGED <<rx_error_flag, req, cardData, failCount, gaveUp>>

NotFound ==
  /\ pc = "decode" /\ req = "inventory" /\ i_reg # 255
  /\ rx_error_flag' = IF i_reg = 2 THEN 0 ELSE rx_error_flag
  /\ UID' = None
  /\ lostCount' = IF lostCount >= LostScans THEN LostScans ELSE lostCount + 1
  /\ IF lostCount + 1 > LostScans /\ mem.type # 0
     THEN mem' = [mem EXCEPT !.type = 0, !.id = None] /\ UIDlast' = None
     ELSE UNCHANGED <<mem, UIDlast>>
  /\ pc' = "scan"
  /\ Over /\ UNCHANGED <<req, cardData, failCount, gaveUp>>

FoundSame ==
  /\ pc = "decode" /\ req = "inventory" /\ i_reg = 255 /\ Content = UIDlast
  /\ UID' = Content /\ lostCount' = 0
  /\ pc' = "scan"
  /\ Over /\ UNCHANGED <<rx_error_flag, req, UIDlast, cardData, mem, failCount, gaveUp>>

FoundNew ==
  /\ pc = "decode" /\ req = "inventory" /\ i_reg = 255 /\ Content # UIDlast
  /\ UID' = Content /\ UIDlast' = Content /\ lostCount' = 0
  /\ mem' = [mem EXCEPT !.id = Content]
  /\ failCount' = 0
  /\ gaveUp' = TRUE
  /\ Request("block")
  /\ Over /\ UNCHANGED <<rx_error_flag, cardData>>

\* the flags of an answer are 0; a byte out of its place may be anything
Read(ok) == \/ ok /\ i_reg = 255
            \/ ~ok /\ (i_reg # 255 \/ Content = Garbage)

Again(r) ==
  /\ pc = "decode" /\ req = r /\ Read(FALSE) /\ failCount + 1 < Tries
  /\ failCount' = failCount + 1
  /\ Request(r)
  /\ Over /\ UNCHANGED <<rx_error_flag, UID, UIDlast, cardData, mem, lostCount, gaveUp>>

\* block 0 is read, or was given up; what cardData holds decides
BlockDone(ok) ==
  /\ pc = "decode" /\ req = "block" /\ Read(ok) /\ (~ok => failCount + 1 = Tries)
  /\ cardData' = IF ok THEN Content ELSE cardData
  /\ IF cardData' \in Coded
     THEN /\ mem' = [mem EXCEPT !.type = 2] /\ failCount' = 0
          /\ Request("multi") /\ UNCHANGED <<UIDlast, gaveUp>>
     ELSE /\ IF ok THEN mem' = [mem EXCEPT !.type = 1] /\ UNCHANGED UIDlast
             ELSE mem' = [mem EXCEPT !.type = 0, !.id = None] /\ UIDlast' = None
          /\ failCount' = failCount /\ pc' = "scan" /\ req' = req /\ gaveUp' = ~ok
  /\ Over /\ UNCHANGED <<rx_error_flag, UID, lostCount>>

\* GetPresId, or given up
MultiDone(ok) ==
  /\ pc = "decode" /\ req = "multi" /\ Read(ok) /\ (~ok => failCount + 1 = Tries)
  /\ mem' = IF ok THEN [mem EXCEPT !.pres = Content] ELSE mem
  /\ gaveUp' = (cardData # UID \/ ~ok)
  /\ pc' = "scan" /\ req' = req
  /\ Over /\ UNCHANGED <<rx_error_flag, UID, UIDlast, cardData, failCount, lostCount>>

Chip == Few \/ Sent \/ Silent \/ Answer \/ Nine \/ End
Errors == Collision \/ CrcError \/ FramingError
Wait == \/ Clear("clear1", "tx1") \/ Clear("clear2", "tx2") \/ Clear("clear3", "rx")
        \/ TxDone \/ SetIndex \/ RxBegun \/ RxDone \/ RxTooLong
UpdateRfid == \/ Scan \/ RawWrite \/ Wait
              \/ NotFound \/ FoundSame \/ FoundNew
              \/ Again("block") \/ Again("multi")
              \/ \E ok \in BOOLEAN : BlockDone(ok) \/ MultiDone(ok)

ReaderNext == Move \/ Chip \/ Errors \/ SysTick_Handler \/ UpdateRfid

ReaderSpec == ReaderInit /\ [][ReaderNext]_readerVars
ReaderFairness == WF_readerVars(Chip) /\ WF_readerVars(SysTick_Handler) /\ WF_readerVars(UpdateRfid)

-----------------------------------------------------------------------------
(* Properties.                                                             *)

\* Between two scans the entry that the unit reports is made of one tag: its UID came
\* whole from a tag, and unless reads were given up the type and the prescription are
\* of the same tag, whatever tags were exchanged and whatever the air did in between.
EntryOfOneTag ==
  pc = "scan" =>
    /\ mem.id \in Tags \cup {None} /\ (mem.type = 0 <=> mem.id = None)
    /\ mem.type # 0 /\ ~gaveUp =>
         /\ mem.type = IF mem.id \in Coded THEN 2 ELSE 1
         /\ mem.type = 2 => mem.pres = mem.id

\* Every scan ends and once the tag lies still its UID is in the entry for good, even
\* if an error left rx_error_flag set, which makes every answer that follows look bad.
EventuallyKnown == <>[](mem.id = tag)
=============================================================================
