------------------------------ MODULE FileSeries ------------------------------
(* The files a writer makes of the fields of one output file, over several   *)
(* runs of the model: split in files of a given period, appended to when     *)
(* they exist, found again at a restart through the registry that a run      *)
(* saves when it ends. A run may start again before the date the last one    *)
(* came to, or stop before its end and save nothing.                         *)
(*                                                                           *)
(* Dates count the output periods. A file is known by the date that begins   *)
(* its period; each of its records holds a time, and for each field data     *)
(* that are named by their date.                                             *)
EXTENDS Integers, FiniteSets, TLC

CONSTANTS Fields,
          SplitFreq,      \* split_freq
          RecordOffset,   \* record_offset, 0 when it is not given
          LastDate,       \* the runs stop there
          Runs,           \* and there are at most so many
          None            \* a date, or a registry, that was never set

FileSeriesAssumption ==
  /\ SplitFreq \in Nat \ {0} /\ RecordOffset \in Nat
  /\ LastDate \in Nat /\ Runs \in Nat /\ None \notin Nat

Dates == 0..LastDate

VARIABLES disk,         \* the files, [date they begin |-> [times, data]]
          registry,     \* the split period saved by the last run that ended
          run,          \* runs started so far
          going,        \* whether one is going on
          date,         \* the calendar
          lastSplit,
          isOpen,
          appendMode,   \* the open file existed before it was opened
          registryOut,
          todo,         \* the fields to be written at this date
          nstep,        \* per field, the record last written
          lastFileSplit,
          written,      \* the fields that have been written in this run
          chained       \* every restart was at the end of a run that saved its
                        \* registry, or in the period of its last file

filter == <<nstep, lastFileSplit, written>>
file == <<lastSplit, isOpen, appendMode, registryOut>>
vars == <<disk, registry, run, going, date, file, todo, filter, chained>>

Init ==
  /\ disk = <<>> /\ registry = None /\ run = 0 /\ going = FALSE /\ date = 0
  /\ lastSplit = None /\ isOpen = FALSE /\ appendMode = FALSE /\ registryOut = None
  /\ todo = {}
  /\ nstep = [f \in Fields |-> 0] /\ lastFileSplit = [f \in Fields |-> None]
  /\ written = {} /\ chained = TRUE

-----------------------------------------------------------------------------
(* (a slip: the period of the last file is not looked for)                   *)
NewPeriod(d) == d

(* CFile::initWrite; splitEnd is saved one second before the next period.    *)
FirstSplit(d) ==
  IF registry # None /\ registry <= d /\ d < registry + SplitFreq THEN registry ELSE d

(* A run starts, from a date the model has come to. The filters are built    *)
(* before the file knows the period it is in (closeDefinition).              *)
StartRun(d) ==
  /\ ~going /\ run < Runs /\ d <= date /\ d < LastDate
  /\ going' = TRUE /\ run' = run + 1
  /\ chained' = (chained /\ \/ run = 0
                            \/ registry # None /\ registry <= d)
  /\ date' = d + 1
  /\ nstep' = [f \in Fields |-> RecordOffset]
  /\ lastFileSplit' = [f \in Fields |-> None]
  /\ written' = {}
  /\ lastSplit' = FirstSplit(d)
  /\ isOpen' = FALSE /\ appendMode' = FALSE /\ registryOut' = None
  /\ todo' = Fields
  /\ UNCHANGED <<disk, registry>>

-----------------------------------------------------------------------------
NewFile == [times |-> <<>>, data |-> [f \in Fields |-> <<>>]]

(* (a slip: the end of the period opens the next file)                       *)
EndOfPeriod(split) == date >= split + SplitFreq

(* CFile::checkSplit.                                                        *)
IsPast(split) == date > split + SplitFreq

(* The period the file is in after CFile::checkWriteFile.                    *)
SplitAt == IF IsPast(lastSplit) THEN lastSplit + SplitFreq ELSE lastSplit

(* CFile::createHeader opens a file that exists, as it does when `append' is *)
(* set: checkWriteFile may create the header of a file and, at once, that of *)
(* the next one.                                                             *)
Opened == (IF isOpen THEN {} ELSE {lastSplit}) \cup (IF IsPast(lastSplit) THEN {SplitAt} ELSE {})

Files == [k \in DOMAIN disk \cup Opened |-> IF k \in DOMAIN disk THEN disk[k] ELSE NewFile]

Appends == IF Opened = {} THEN appendMode ELSE SplitAt \in DOMAIN disk

(* (a slip: a record of the same time is passed over)                        *)
AfterTime(times) == {n \in DOMAIN times : times[n] <= date}

(* getRecordFromTime: the record after the last one of an earlier time.      *)
EarlierRecords(times) == {n \in DOMAIN times : times[n] < date}

RecordFromTime(times) ==
  LET earlier == EarlierRecords(times)
  IN IF earlier = {} THEN 0 ELSE (CHOOSE n \in earlier : \A m \in earlier : m <= n) + 1

(* (a slip: the records of a new file go on from those of the last)          *)
CountsOn(f) == nstep[f] + 1

(* CFileWriterStoreFilter::onInputReady counts the records from the start of *)
(* each file.                                                                *)
NextStep(f) == (IF lastFileSplit[f] # SplitAt THEN 0 ELSE nstep[f]) + 1

(* (a slip: a file that existed is written from its beginning)               *)
StepAsCounted(f) == NextStep(f)

(* writeFieldData_: the first record of a field in a run is looked for, when *)
(* the file existed.                                                         *)
StepWritten(f) ==
  IF f \notin written /\ Appends /\ RecordOffset = 0
  THEN RecordFromTime(Files[SplitAt].times) + 1
  ELSE NextStep(f)

(* A field is written at the current date.                                   *)
WriteField(f) ==
  /\ going /\ f \in todo
  /\ LET n == StepWritten(f) - 1
     IN /\ disk' = [Files EXCEPT ![SplitAt].times = (n :> date) @@ @,
                                 ![SplitAt].data[f] = (n :> date) @@ @]
        /\ nstep' = [nstep EXCEPT ![f] = n + 1]
  /\ lastFileSplit' = [lastFileSplit EXCEPT ![f] = SplitAt]
  /\ written' = written \cup {f}
  /\ lastSplit' = SplitAt
  /\ registryOut' = IF Opened = {} THEN registryOut ELSE SplitAt
  /\ appendMode' = Appends
  /\ isOpen' = TRUE
  /\ todo' = todo \ {f}
  /\ UNCHANGED <<registry, run, going, date, chained>>

NextDate ==
  /\ going /\ todo = {} /\ date < LastDate
  /\ date' = date + 1
  /\ todo' = Fields
  /\ UNCHANGED <<disk, registry, run, going, file, filter, chained>>

(* The context is finalized: the file is closed and the registry saved.      *)
EndRun ==
  /\ going /\ todo = {}
  /\ going' = FALSE
  /\ isOpen' = FALSE
  /\ registry' = registryOut
  /\ UNCHANGED <<disk, run, date, lastSplit, appendMode, registryOut, todo, filter, chained>>

(* The run stops without having saved the registry; what it has written      *)
(* stays.                                                                    *)
Crash ==
  /\ going
  /\ going' = FALSE
  /\ date' = IF todo = {} THEN date ELSE date - 1
  /\ chained' = FALSE
  /\ UNCHANGED <<disk, registry, run, file, todo, filter>>

Done == ~going /\ UNCHANGED vars

Next ==
  \/ \E d \in Dates : StartRun(d)
  \/ \E f \in Fields : WriteField(f)
  \/ NextDate \/ EndRun \/ Crash \/ Done

Spec == Init /\ [][Next]_vars

-----------------------------------------------------------------------------
TypeOK ==
  /\ DOMAIN disk \subseteq Dates
  /\ \A k \in DOMAIN disk : \A n \in DOMAIN disk[k].times : n \in 0..SplitFreq - 1
  /\ registry \in Dates \cup {None} /\ run \in 0..Runs
  /\ todo \subseteq Fields /\ written \subseteq Fields

(* The records of a file are in the order of their times, each time once and *)
(* none left out at the beginning, whatever was run again on it.             *)
TimesIncrease ==
  \A k \in DOMAIN disk : LET times == disk[k].times IN
    /\ \A m, n \in DOMAIN times : m < n => times[m] < times[n]
    /\ \A n \in DOMAIN times : \A m \in 0..n - 1 : m \in DOMAIN times

(* The record of a field holds the data of the time of the record, although  *)
(* the fields of a file are written one after the other and each of them     *)
(* counts its records.                                                       *)
FieldsAligned ==
  chained => \A k \in DOMAIN disk, f \in Fields : \A n \in DOMAIN disk[k].data[f] :
    n \in DOMAIN disk[k].times /\ disk[k].data[f][n] = disk[k].times[n]

(* A file holds times of its period only.                                    *)
InItsPeriod ==
  \A k \in DOMAIN disk : \A n \in DOMAIN disk[k].times :
    k < disk[k].times[n] /\ disk[k].times[n] <= k + SplitFreq

(* When runs follow one another as the registry expects, no date is in two   *)
(* files (CFile::initWrite).                                                 *)
OneFilePerDate ==
  chained => \A k, l \in DOMAIN disk : k < l => k + SplitFreq <= l

(* The records of a file that is given a record_offset begin there (the      *)
(* reference guide: "Defines the offset of a record from the beginning       *)
(* record").                                                                 *)
OffsetKept ==
  \A k \in DOMAIN disk : \A n \in DOMAIN disk[k].times : n >= RecordOffset
=============================================================================
