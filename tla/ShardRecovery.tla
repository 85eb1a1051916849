----------------------------- MODULE ShardRecovery -----------------------------
(***************************************************************************)
(* The two copies of a shard's records: the rows of the database and the   *)
(* append-only shard file.  persistWithShard commits the row and appends   *)
(* the record afterwards, dropping an append error; RecoverFromShards      *)
(* reads a file, then replays its lines over the rows in one transaction   *)
(* and stores the checksum of what it read; Verify compares that checksum  *)
(* with the file.  One shard.  A line inserts the whole row, but over a    *)
(* row that is there it writes the columns of its progress only: state and *)
(* version, and of a mail handover_id and disposition_id.                  *)
(***************************************************************************)
EXTENDS Naturals, Sequences, FiniteSets, FiniteSetsExt

CONSTANTS
  Rows,         (* ids of mails, dispositions and handover forms           *)
  Handovers,    (* those that are handover forms                           *)
  Dispositions, (* those that are dispositions                             *)
  None,         (* nothing in hand, no meta row                            *)
  Writers,      (* goroutines that save                                    *)
  MaxFaults,    (* bound on failing appends and crashes half way           *)
  MaxVersion,   (* bound on versions                                       *)
  MaxCommits    (* bound on the saves                                      *)

VARIABLES
  row,          (* version of each row of the database, 0 if there is      *)
                (* none, for all the columns of its progress               *)
  rest,         (* the saves whose changes the row's other columns show    *)
  newest,       (* history: the version committed last                     *)
  file, open,   (* lines of the shard file; has the last one no newline?   *)
  writes,       (* history: writes to the file                             *)
  meta,         (* checksum in shard_meta: the content it is the sum of    *)
  hand,         (* per writer, the committed record not appended yet       *)
  read,         (* the content a running rebuild has read                  *)
  commits,      (* history: the saves that owe the file a record           *)
  faults,       (* history: failed appends and crashes                     *)
  disturbed     (* history: rows saved while an earlier record of theirs   *)
                (* was in hand or a rebuild was going on, rows whose       *)
                (* record was in hand when a rebuild read the file, and    *)
                (* rows whose record was lost by a fault                   *)

vars == <<row, rest, newest, file, open, writes, meta, hand, read, commits, faults, disturbed>>

Saves == SUBSET (1 .. MaxVersion)

Record == [row : Rows, version : 1 .. MaxVersion, rest : Saves]

Garbage == [row |-> None, version |-> 0, rest |-> {}]

Lines == Seq(Record \cup {Garbage})

Content == [lines : Lines, open : BOOLEAN, writes : Nat]

ASSUME BoundsAssumption ==
  IsFiniteSet(Writers) /\ MaxFaults \in Nat /\ MaxVersion \in Nat /\ MaxCommits \in Nat

ASSUME NoneAssumption == None \notin Rows /\ None \notin Record /\ None \notin Content

TypeOK ==
  /\ row \in [Rows -> 0 .. MaxVersion] /\ newest \in [Rows -> 0 .. MaxVersion]
  /\ rest \in [Rows -> Saves]
  /\ file \in Lines /\ Len(file) <= commits /\ open \in BOOLEAN /\ writes \in Len(file) .. commits
  /\ hand \in [Writers -> Record \cup {None}]
  /\ read = None \/ read \in Content
  /\ meta = None \/ meta \in Content
  /\ commits \in 0 .. MaxCommits /\ faults \in 0 .. MaxFaults /\ disturbed \subseteq Rows

Init ==
  /\ row = [r \in Rows |-> 0] /\ rest = [r \in Rows |-> {}] /\ newest = [r \in Rows |-> 0]
  /\ file = <<>> /\ open = FALSE /\ writes = 0
  /\ meta = None
  /\ hand = [w \in Writers |-> None] /\ read = None
  /\ commits = 0 /\ faults = 0 /\ disturbed = {}

Quiet == \A w \in Writers : hand[w] = None

InHand == {r \in Rows : \E w \in Writers : hand[w] # None /\ hand[w].row = r}

-----------------------------------------------------------------------------
(* persistWithShard *)

(* The row with its next version, and what its other columns show then. *)
RecordWith(r, version) == [row |-> r, version |-> version, rest |-> rest[r] \cup {row[r] + 1}]

\* Mutant: the record is built before the version is counted up.
RecordOf_Stale(r) == RecordWith(r, IF row[r] = 0 THEN 1 ELSE row[r])

\* Mutant: the version is counted up twice.
RecordOf_Twice(r) == RecordWith(r, row[r] + 2)

(* The row as it is saved next. *)
RecordOf(r) == RecordWith(r, row[r] + 1)

(* Submit inserts a disposition in a transaction of its own and writes no   *)
(* record; its later saves do.                                              *)
Recorded(r) == ~(r \in Dispositions /\ row[r] = 0)

(* The transaction; a new shard gets its meta row, with an empty checksum. *)
Commit(w, r) ==
  /\ hand[w] = None
  /\ row[r] < MaxVersion /\ commits < MaxCommits
  /\ row[r] = 0 => newest[r] = 0
  /\ row' = [row EXCEPT ![r] = @ + 1]
  /\ rest' = [rest EXCEPT ![r] = @ \cup {row[r] + 1}]
  /\ newest' = [newest EXCEPT ![r] = row[r] + 1]
  /\ hand' = IF Recorded(r) THEN [hand EXCEPT ![w] = RecordOf(r)] ELSE hand
  /\ commits' = IF Recorded(r) THEN commits + 1 ELSE commits
  /\ disturbed' = IF r \in InHand \/ read # None THEN disturbed \cup {r} ELSE disturbed
  /\ UNCHANGED <<file, open, writes, meta, read, faults>>

\* Mutant: the newline is written in front of the next record.
Ended_Never(o) == o

(* Every append ends its line. *)
Ended(o) == FALSE

(* A line written after an unfinished one becomes part of it. *)
AppendLine(w) ==
  /\ hand[w] # None
  /\ file' = IF open THEN file ELSE Append(file, hand[w])
  /\ open' = Ended(open)
  /\ writes' = writes + 1
  /\ hand' = [hand EXCEPT ![w] = None]
  /\ disturbed' = IF open THEN disturbed \cup {hand[w].row} ELSE disturbed
  /\ UNCHANGED <<row, rest, newest, meta, read, commits, faults>>

(* Nothing, or part of the line, reaches the file. *)
Torn ==
  \/ UNCHANGED <<file, open, writes>>
  \/ ~open /\ open' = TRUE /\ file' = Append(file, Garbage) /\ writes' = writes + 1

Fault == faults < MaxFaults /\ faults' = faults + 1

AppendFails(w) ==
  /\ Fault
  /\ hand[w] # None
  /\ Torn
  /\ hand' = [hand EXCEPT ![w] = None]
  /\ disturbed' = disturbed \cup {hand[w].row}
  /\ UNCHANGED <<row, rest, newest, meta, read, commits>>

Crash ==
  /\ Fault
  /\ ~Quiet
  /\ Torn
  /\ hand' = [w \in Writers |-> None] /\ read' = None
  /\ disturbed' = disturbed \cup InHand
  /\ UNCHANGED <<row, rest, newest, meta, commits>>

-----------------------------------------------------------------------------
(* RecoverFromShards *)

LinesOf(r, lines) == {i \in 1 .. Len(lines) : lines[i].row = r}

\* Mutant: the lines are replayed from the last to the first.
Replayed_Backwards(r, lines) ==
  IF LinesOf(r, lines) = {} THEN row[r] ELSE lines[Min(LinesOf(r, lines))].version

(* Every line overwrites the progress of its row; a handover's statement has *)
(* one placeholder too many and always fails, which is noted and skipped.    *)
Replayed(r, lines) ==
  IF r \in Handovers \/ LinesOf(r, lines) = {} THEN row[r]
  ELSE lines[Max(LinesOf(r, lines))].version

\* Mutant: every line overwrites its row with all it has.
ReplayedRest_All(r, lines) ==
  IF r \in Handovers \/ LinesOf(r, lines) = {} THEN rest[r]
  ELSE lines[Max(LinesOf(r, lines))].rest

(* The other columns are written where there is no row yet, by its first line. *)
ReplayedRest(r, lines) ==
  IF r \in Handovers \/ LinesOf(r, lines) = {} \/ row[r] # 0 THEN rest[r]
  ELSE lines[Min(LinesOf(r, lines))].rest

ReadFile ==
  /\ read = None
  /\ file # <<>>
  /\ read' = [lines |-> file, open |-> open, writes |-> writes]
  /\ disturbed' = disturbed \cup InHand
  /\ UNCHANGED <<row, rest, newest, file, open, writes, meta, hand, commits, faults>>

\* Mutant: the lines that could be parsed are summed.
Summed_Parsed(content) ==
  [content EXCEPT !.lines = SelectSeq(@, LAMBDA line : line # Garbage)]

(* computeChecksum of all that was read, lines that cannot be parsed included. *)
Summed(content) == content

Apply ==
  /\ read # None
  /\ row' = [r \in Rows |-> Replayed(r, read.lines)]
  /\ rest' = [r \in Rows |-> ReplayedRest(r, read.lines)]
  /\ meta' = Summed(read)
  /\ read' = None
  /\ UNCHANGED <<newest, file, open, writes, hand, commits, faults, disturbed>>

(* The database file is lost while the service is down. *)
LoseDatabase ==
  /\ Quiet /\ read = None
  /\ row' = [r \in Rows |-> 0]
  /\ rest' = [r \in Rows |-> {}]
  /\ meta' = None
  /\ UNCHANGED <<newest, file, open, writes, hand, read, commits, faults, disturbed>>

(* Verify counts the shard as damaged. *)
ReportedDamaged == meta # None /\ (meta.lines # file \/ meta.open # open)

Next ==
  \/ \E w \in Writers : AppendLine(w) \/ AppendFails(w) \/ \E r \in Rows : Commit(w, r)
  \/ ReadFile \/ Apply \/ Crash \/ LoseDatabase

Spec == Init /\ [][Next]_vars

-----------------------------------------------------------------------------
(* Properties *)

(* A failed append or a crash costs the records in hand and at most one     *)
(* more, the one that is written onto an unfinished line; what is appended  *)
(* later can be read again.                                                 *)
LossIsBounded ==
  commits <= Cardinality({i \in 1 .. Len(file) : file[i] # Garbage})
             + Cardinality({w \in Writers : hand[w] # None})
             + faults * (Cardinality(Writers) + 1)

(* Saves of a row that reach the file: all but the submission of a           *)
(* disposition.                                                              *)
Unrecorded(r) == IF r \in Dispositions THEN 1 ELSE 0

(* Unless its own records met a fault or each other, the last line of a row  *)
(* is its newest version as soon as no writer has its record in hand, so     *)
(* the file alone can restore its progress, whatever became of other rows'.  *)
FileIsCurrent ==
  \A r \in Rows \ (disturbed \cup InHand) : newest[r] > Unrecorded(r) =>
    /\ LinesOf(r, file) # {}
    /\ file[Max(LinesOf(r, file))].version = newest[r]

(* What the first line of a row shows in the columns a later line does not   *)
(* write: of a disposition the submission and its first review or            *)
(* withdrawal.                                                               *)
FirstSaves(r) == 1 .. Unrecorded(r) + 1

(* chargeguardctl rebuild, "Rebuild manifest index from shard files": a mail *)
(* or a disposition that was recorded comes back in its newest state and     *)
(* version, also when the database was lost.  Its other columns stay as they *)
(* are; after a loss they are those of the first line, so a redirected       *)
(* mail's new receiver_addr and who executed, completed or withdrew a        *)
(* disposition later do not come back, although the file has them.           *)
RebuildRestoresRecords ==
  [][Apply => \A r \in Rows \ (Handovers \cup disturbed) : newest[r] > Unrecorded(r) =>
       /\ row'[r] = newest[r]
       /\ rest'[r] = IF row[r] = 0 THEN FirstSaves(r) ELSE rest[r]]_vars

(* chargeguardctl verify, "Verify data integrity: shard checksums and       *)
(* consistency": a file that was not written to since the last rebuild      *)
(* read it is not called damaged, also when it holds torn lines.  The first *)
(* save after a rebuild makes every file look damaged.                      *)
OnlyDamagedIsReported ==
  meta # None /\ meta.writes = writes => ~ReportedDamaged
===============================================================================
