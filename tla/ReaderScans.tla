------------------------------ MODULE ReaderScans ------------------------------
(***************************************************************************)
(* The reader seen scan by scan: TagReader with the history that a scan as *)
(* a single step is about, and the refinement of TagScan.                  *)
(***************************************************************************)
EXTENDS TagReader

VARIABLES
  field,  \* history: the tags in the field since the scan began
  last    \* history: what the last scan left

Entry == [type |-> mem.type, id |-> mem.id, UIDlast |-> UIDlast,
          coded |-> cardData \in Coded, lostCount |-> lostCount]

\* a scan is over, and the next begins, when the main loop is at "scan"
History ==
  /\ field' = IF pc' = "scan" THEN {tag'} ELSE field \cup {tag'}
  /\ last' = IF pc' = "scan" THEN Entry' ELSE last

ScansInit == ReaderInit /\ field = {tag} /\ last = Entry
ScansNext == ReaderNext /\ History

ScansSpec == ScansInit /\ [][ScansNext]_<<readerVars, field, last>>

FairScans == ScansSpec /\ ReaderFairness

Scans == INSTANCE TagScan WITH
  Cards <- Tags, NoCard <- None, RFID_TIME_COUNT <- LostScans,
  mem <- [type |-> last.type, id |-> last.id], UIDlast <- last.UIDlast,
  coded <- last.coded, lostCount <- last.lostCount

\* To the main loop a scan is one step: whatever tags were exchanged while its requests
\* were made and whatever the air did to the answers, it leaves the entry, cardData and
\* the counter as if it had found no tag, or had read or failed to read one tag that
\* was in the field while it went on (UpdateRfid, main.cpp:149-222).
ScansAreSteps == Scans!ScanSpec
=============================================================================
