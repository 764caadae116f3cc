--------------------------- MODULE CampaignProofs ---------------------------
(***************************************************************************)
(* What a campaign directory can be trusted for, for every plan, every     *)
(* behaviour of the trials and any number of losses.  The argument: what a *)
(* record says is what the runner found, a record is on disk before its    *)
(* line and is missed only when it was lost, and a recovery first keeps    *)
(* the journal that it will replace.                                       *)
(***************************************************************************)
EXTENDS CampaignJournal, TLAPS

----------------------------------------------------------------------------
(* The inductive invariant. *)

\* A record is the runner's outcome.
RecordsTrue == \A s \in Slots : records[s] # None => records[s] = produced[s]

\* The record of a slot that has run is there, or was lost.
Covered(s) == produced[s] # None /\ (records[s] # None \/ s \in lostRecords)

RecordsKept ==
  /\ phase \in {"run", "record", "append"} =>
       \A s \in Slots : produced[s] # None => Covered(s) \/ (phase = "record" /\ s = current)
  /\ phase \in {"record", "append"} => produced[current] # None
  /\ phase \in {"summary", "export", "manifest", "done"} \/ summary # None \/ step # "off" =>
       \A s \in Slots : Covered(s)

\* While the runner lives, nothing has been recovered.
FirstJournal ==
  /\ phase \notin {"done", "dead"} =>
       /\ step = "off" /\ original = None /\ note = None
  /\ step # "off" => phase \in {"done", "dead"}
  /\ \A s \in Slots : (journal[s] # None /\ journal[s].recovered # "no") =>
       original # None /\ original.journal[s] = None

\* The rows that a recovery holds.
RowsRight ==
  /\ step # "off" => \A s \in Slots : rows[s].outcome = records[s] \/ s \in lostRecords
  /\ step = "save" => \A s \in Slots : IF journal[s] # None THEN rows[s] = journal[s]
                                                          ELSE rows[s].recovered # "no"
  /\ step \notin {"off", "save"} =>
       /\ original # None
       /\ \A s \in Slots : rows[s].recovered # "no" <=> original.journal[s] = None
  /\ step \in {"summary", "export", "note", "manifest"} => journal = rows
  /\ step = "manifest" => note = {s \in Slots : original.journal[s] = None}

\* The manifest was taken of a journal and of the note that names its restored lines.
ManifestRight ==
  manifest # None =>
    \A s \in Slots : manifest.journal[s] # None =>
      (manifest.journal[s].recovered # "no" <=> manifest.note # None /\ s \in manifest.note)

\* Types that TypeOK leaves out.
FilesOK ==
  /\ original \in Originals \cup {None} /\ note \in (SUBSET Slots) \cup {None}
  /\ rows \in [Slots -> Lines \cup {None}]

CInv == /\ TypeOK /\ RecordsTrue /\ RecordsKept /\ RecordsAheadOfJournal /\ FirstJournal
        /\ RowsRight /\ ManifestRight /\ FilesOK

----------------------------------------------------------------------------
\* A campaign starts with nothing on disk.
LEMMA CInvInit ==
  ASSUME Init PROVE CInv
<1>1. \A s \in Slots : Nothing[s] = None
  BY DEF Nothing
<1>2. Nothing \in [Slots -> Outcomes \cup {None}] /\ Nothing \in [Slots -> Lines \cup {None}]
  BY DEF Nothing
<1>3. damage \in 0 .. MaxDamage
  BY BehaviourAssumption DEF Init
<1>4. /\ produced \in [Slots -> Outcomes \cup {None}] /\ measurements \in [Slots -> Outcomes \cup {None}]
      /\ records \in [Slots -> Outcomes \cup {None}] /\ journal \in [Slots -> Lines \cup {None}]
      /\ rows \in [Slots -> Lines \cup {None}]
  BY <1>2 DEF Init
<1>5. FilesOK
  BY <1>4 DEF Init, FilesOK
<1>6. TypeOK
  BY <1>3, <1>4 DEF Init, TypeOK
<1> QED BY <1>1, <1>5, <1>6 DEF Init, CInv, RecordsTrue, RecordsKept, RecordsAheadOfJournal,
           FirstJournal, RowsRight, ManifestRight

----------------------------------------------------------------------------
(* The runner. *)

\* A trial only concerns the slot it was for, which has no record yet.
LEMMA TrialKeeps ==
  ASSUME CInv, RunTrial PROVE CInv'
<1>0. PICK s \in Waiting : \E b \in Behaviours[s] :
        /\ current' = s /\ measurements' = [measurements EXCEPT ![s] = b.measured]
        /\ produced' = [produced EXCEPT ![s] =
                          IF b.exits /\ b.measured # None THEN b.measured ELSE Failure]
  BY DEF RunTrial
<1>1. PICK b \in Behaviours[s] :
        /\ current' = s /\ measurements' = [measurements EXCEPT ![s] = b.measured]
        /\ produced' = [produced EXCEPT ![s] =
                          IF b.exits /\ b.measured # None THEN b.measured ELSE Failure]
  BY <1>0
<1>2. s \in Slots /\ produced[s] = None /\ b.measured \in Outcomes \cup {None} /\ Failure \in Outcomes
  BY BehaviourAssumption DEF Waiting, Outcomes
<1>3. PICK o \in Outcomes : produced' = [produced EXCEPT ![s] = o]
  BY <1>1, <1>2
<1>4. /\ phase = "run" /\ phase' = "record"
      /\ UNCHANGED <<records, journal, tail, summary, exports, manifest, original, note, recovery, history>>
  BY DEF RunTrial
<1>5. o # None /\ s # None
  BY <1>2, NothingAssumption
<1>6. produced \in [Slots -> Outcomes \cup {None}] /\ measurements \in [Slots -> Outcomes \cup {None}]
  BY DEF CInv, TypeOK
<1>7. TypeOK' /\ FilesOK'
  <2>1. produced' \in [Slots -> Outcomes \cup {None}] /\ measurements' \in [Slots -> Outcomes \cup {None}]
    BY <1>1, <1>2, <1>3, <1>6
  <2> QED BY <1>1, <1>2, <1>4, <1>5, <2>1 DEF CInv, TypeOK, FilesOK, recovery, history
<1>8. \A q \in Slots : produced'[q] = IF q = s THEN o ELSE produced[q]
  BY <1>2, <1>3, <1>6
<1>9. records[s] = None
  BY <1>2 DEF CInv, RecordsTrue
<1>10. RecordsTrue'
  BY <1>4, <1>8, <1>9 DEF CInv, RecordsTrue
<1>11. RecordsKept'
  <2>1. current' = s /\ lostRecords' = lostRecords /\ summary' = summary /\ step' = step /\ records' = records
    BY <1>1, <1>4 DEF recovery, history
  <2>2. \A q \in Slots : Covered(q) => produced'[q] # None /\ (records[q] # None \/ q \in lostRecords)
    BY <1>2, <1>5, <1>8 DEF Covered
  <2>3. \A q \in Slots : produced'[q] # None => q = s \/ Covered(q)
    BY <1>4, <1>8 DEF CInv, RecordsKept
  <2>4. produced'[s] # None
    BY <1>2, <1>5, <1>8
  <2> QED BY <1>4, <2>1, <2>2, <2>3, <2>4 DEF CInv, RecordsKept, Covered
<1>12. RecordsAheadOfJournal' /\ FirstJournal' /\ RowsRight' /\ ManifestRight'
  BY <1>4 DEF CInv, RecordsAheadOfJournal, FirstJournal, RowsRight, ManifestRight, recovery, history
<1> QED BY <1>7, <1>10, <1>11, <1>12 DEF CInv

\* The record is written of what the runner found.
LEMMA RecordKeeps ==
  ASSUME CInv, KeepRecord PROVE CInv'
<1>1. /\ phase = "record" /\ phase' = "append" /\ records' = [records EXCEPT ![current] = produced[current]]
      /\ UNCHANGED <<current, produced, measurements, journal, tail, summary, exports, manifest, original,
                     note, recovery, history>>
  BY DEF KeepRecord
<1>2. current \in Slots /\ produced[current] # None /\ produced[current] \in Outcomes
  BY <1>1 DEF CInv, TypeOK, RecordsKept
<1>3. TypeOK' /\ FilesOK'
  BY <1>1, <1>2 DEF CInv, TypeOK, FilesOK, recovery, history
<1>4. \A s \in Slots : records'[s] = IF s = current THEN produced[s] ELSE records[s]
  BY <1>1, <1>2 DEF CInv, TypeOK
<1>5. RecordsTrue' /\ RecordsKept' /\ RecordsAheadOfJournal'
  <2>1. \A s \in Slots : records[s] # None => records'[s] = records[s]
    BY <1>4 DEF CInv, RecordsTrue
  <2>2. \A s \in Slots : produced[s] # None =>
          produced'[s] # None /\ (records'[s] # None \/ s \in lostRecords')
    BY <1>1, <1>4, <2>1 DEF CInv, RecordsKept, Covered, history
  <2>3. RecordsTrue'
    BY <1>1, <1>4 DEF CInv, RecordsTrue
  <2>4. RecordsKept'
    BY <1>1, <1>2, <2>2 DEF CInv, RecordsKept, Covered, recovery
  <2>5. \A s \in Slots : journal[s] # None => journal[s].outcome # None
    BY NothingAssumption DEF CInv, TypeOK, Lines
  <2>6. RecordsAheadOfJournal'
    BY <1>1, <2>1, <2>5 DEF CInv, RecordsAheadOfJournal, history
  <2> QED BY <2>3, <2>4, <2>6
<1>6. FirstJournal' /\ RowsRight' /\ ManifestRight'
  BY <1>1 DEF CInv, FirstJournal, RowsRight, ManifestRight, recovery, history
<1> QED BY <1>3, <1>5, <1>6 DEF CInv

\* The line follows its record.
LEMMA AppendKeeps ==
  ASSUME CInv, AppendLine PROVE CInv'
<1>1. /\ phase = "append" /\ phase' = "run"
      /\ journal' = [journal EXCEPT ![current] = Line(produced[current], "no")]
      /\ UNCHANGED <<current, produced, trialFiles, tail, summary, exports, manifest, original, note,
                     recovery, history>>
  BY DEF AppendLine
<1>2. current \in Slots /\ produced[current] # None /\ produced[current] \in Outcomes
  BY <1>1 DEF CInv, TypeOK, RecordsKept
<1>3. Line(produced[current], "no") \in Lines
  BY <1>2 DEF Line, Lines
<1>4. TypeOK' /\ FilesOK'
  BY <1>1, <1>3 DEF CInv, TypeOK, FilesOK, recovery, history, trialFiles
<1>5. \A s \in Slots : journal'[s] = IF s = current THEN Line(produced[s], "no") ELSE journal[s]
  BY <1>1, <1>2 DEF CInv, TypeOK
<1>6. RecordsTrue' /\ RecordsKept' /\ RecordsAheadOfJournal'
  <2>1. records[current] = produced[current] \/ current \in lostRecords
    BY <1>1, <1>2 DEF CInv, RecordsTrue, RecordsKept, Covered
  <2>2. RecordsTrue'
    BY <1>1 DEF CInv, RecordsTrue, trialFiles
  <2>3. \A s \in Slots : produced[s] # None => Covered(s)
    BY <1>1 DEF CInv, RecordsKept
  <2>4. RecordsKept'
    BY <1>1, <2>3 DEF CInv, RecordsKept, Covered, recovery, history, trialFiles
  <2>5. RecordsAheadOfJournal'
    BY <1>1, <1>5, <2>1 DEF CInv, RecordsAheadOfJournal, Line, history, trialFiles
  <2> QED BY <2>2, <2>4, <2>5
<1>7. FirstJournal' /\ RowsRight' /\ ManifestRight'
  BY <1>1, <1>5 DEF CInv, FirstJournal, RowsRight, ManifestRight, recovery, history, Line
<1> QED BY <1>4, <1>6, <1>7 DEF CInv

\* The journal rewritten from memory says what the records say.
LEMMA FinalizeKeeps ==
  ASSUME CInv, FinalizeJournal PROVE CInv'
<1>1. /\ phase = "run" /\ phase' = "summary" /\ journal' = JournalOf(produced) /\ tail' = "whole"
      /\ UNCHANGED <<current, produced, trialFiles, summary, exports, manifest, original, note,
                     recovery, history>>
  BY DEF FinalizeJournal
<1>2. \A s \in Slots : produced[s] # None /\ produced[s] \in Outcomes
  BY DEF FinalizeJournal, Waiting, CInv, TypeOK
<1>3. /\ journal' \in [Slots -> Lines]
      /\ \A s \in Slots : journal'[s].outcome = produced[s] /\ journal'[s].recovered = "no"
  BY <1>1, <1>2 DEF JournalOf, Line, Lines
<1>4. TypeOK' /\ FilesOK'
  BY <1>1, <1>3 DEF CInv, TypeOK, FilesOK, recovery, history, trialFiles
<1>5. \A s \in Slots : Covered(s) /\ (records[s] = produced[s] \/ s \in lostRecords)
  BY <1>1, <1>2 DEF CInv, RecordsKept, RecordsTrue, Covered
<1>6. RecordsTrue' /\ RecordsKept' /\ RecordsAheadOfJournal'
  BY <1>1, <1>3, <1>5 DEF CInv, RecordsTrue, RecordsKept, Covered, RecordsAheadOfJournal, history, trialFiles
<1>7. FirstJournal' /\ RowsRight' /\ ManifestRight'
  BY <1>1, <1>3 DEF CInv, FirstJournal, RowsRight, ManifestRight, recovery, history
<1> QED BY <1>4, <1>6, <1>7 DEF CInv

\* The derived files, and the death of the runner, concern neither records nor lines.
LEMMA DerivedKeeps ==
  ASSUME CInv, WriteSummary \/ Export \/ RunnerDies PROVE CInv'
<1>1. UNCHANGED <<current, produced, trialFiles, journal, manifest, original, note, recovery,
                  lostRecords, damage>>
  BY DEF WriteSummary, Export, RunnerDies, history
<1>2. TypeOK' /\ FilesOK'
  BY <1>1 DEF WriteSummary, Export, RunnerDies, CInv, TypeOK, FilesOK, recovery, trialFiles, history
<1>3. RecordsTrue' /\ RecordsAheadOfJournal'
  BY <1>1 DEF CInv, RecordsTrue, RecordsAheadOfJournal, trialFiles
<1>4. RecordsKept'
  <2>1. \A s \in Slots : Covered(s)' <=> Covered(s)
    BY <1>1 DEF Covered, trialFiles
  <2>2. CASE phase \in {"summary", "export"} /\ phase' \in {"export", "manifest"}
    BY <2>1, <2>2 DEF CInv, RecordsKept
  <2>3. CASE phase' = "dead" /\ UNCHANGED <<summary, step>> /\ phase \notin {"done", "dead"}
    BY <2>1, <2>3 DEF CInv, RecordsKept
  <2> QED BY <2>2, <2>3 DEF WriteSummary, Export, RunnerDies, recovery
<1>5. FirstJournal' /\ RowsRight' /\ ManifestRight'
  BY <1>1 DEF WriteSummary, Export, RunnerDies, CInv, FirstJournal, RowsRight, ManifestRight, recovery
<1> QED BY <1>2, <1>3, <1>4, <1>5 DEF CInv

\* The runner's manifest is of a journal without restored lines.
LEMMA ManifestKeeps ==
  ASSUME CInv, WriteManifest PROVE CInv'
<1>1. /\ phase = "manifest" /\ phase' = "done" /\ manifest' = Files
      /\ UNCHANGED <<current, produced, trialFiles, journal, tail, summary, exports, original, note,
                     recovery, history>>
  BY DEF WriteManifest
<1>2. manifest'.journal = journal /\ manifest'.note = note
  BY <1>1 DEF Files
<1>3. note = None /\ \A s \in Slots : journal[s] # None => journal[s].recovered = "no"
  BY <1>1 DEF CInv, FirstJournal
<1>4. TypeOK' /\ FilesOK' /\ RecordsTrue' /\ RecordsKept' /\ RecordsAheadOfJournal'
  BY <1>1 DEF CInv, TypeOK, FilesOK, RecordsTrue, RecordsKept, Covered, RecordsAheadOfJournal,
              trialFiles, recovery, history
<1>5. FirstJournal' /\ RowsRight' /\ ManifestRight'
  BY <1>1, <1>2, <1>3 DEF CInv, FirstJournal, RowsRight, ManifestRight, recovery, history
<1> QED BY <1>4, <1>5 DEF CInv

----------------------------------------------------------------------------
(* Losses. *)

\* What is lost is known to be lost.
LEMMA LossKeeps ==
  ASSUME CInv, LoseLine \/ LoseRecord PROVE CInv'
<1>0. /\ step = "off" /\ damage' \in 0 .. MaxDamage /\ summary # None
      /\ UNCHANGED <<runner, summary, exports, manifest, original, note, recovery, measurements, interrupted>>
  BY BehaviourAssumption DEF LoseLine, LoseRecord, Loss, Idle, CInv, TypeOK, trialFiles
<1>1. PICK q \in Slots :
        \/ /\ journal' = [journal EXCEPT ![q] = None] /\ tail' \in {"whole", "cut", "garbled"}
           /\ UNCHANGED <<records, lostRecords>>
        \/ /\ records' = [records EXCEPT ![q] = None] /\ lostRecords' = lostRecords \cup {q}
           /\ UNCHANGED <<journal, tail>>
  BY DEF LoseLine, LoseRecord, trialFiles, CInv, TypeOK
<1>2. \A s \in Slots : /\ journal'[s] # None => journal'[s] = journal[s]
                       /\ records'[s] = records[s] \/ (records'[s] = None /\ s \in lostRecords')
                       /\ s \in lostRecords => s \in lostRecords'
  BY <1>1 DEF CInv, TypeOK
<1>3. TypeOK' /\ FilesOK'
  BY <1>0, <1>1 DEF CInv, TypeOK, FilesOK, runner, recovery
<1>4. RecordsTrue' /\ RecordsAheadOfJournal'
  BY <1>0, <1>2 DEF CInv, RecordsTrue, RecordsAheadOfJournal, runner
<1>5. RecordsKept'
  BY <1>0, <1>2 DEF CInv, RecordsKept, Covered, runner
<1>6. FirstJournal' /\ RowsRight' /\ ManifestRight'
  BY <1>0, <1>2 DEF CInv, FirstJournal, RowsRight, ManifestRight, runner, recovery
<1> QED BY <1>3, <1>4, <1>5, <1>6 DEF CInv

----------------------------------------------------------------------------
(* A recovery. *)

\* The rows that are put together agree with the records that are left.
LEMMA StartKeeps ==
  ASSUME CInv, StartRecovery PROVE CInv'
<1>1. /\ step = "off" /\ step' = "save" /\ phase \in {"done", "dead"} /\ summary # None
      /\ rows' = [s \in Slots |-> Recovered(s)] /\ \A s \in Slots : Consistent(s)
      /\ UNCHANGED <<runner, files, history>>
  BY DEF StartRecovery, Idle, Reproduced
<1>2. ASSUME NEW s \in Slots
      PROVE  /\ Recovered(s) \in Lines
             /\ Recovered(s).outcome = records[s] \/ s \in lostRecords
             /\ IF journal[s] # None THEN Recovered(s) = journal[s] ELSE Recovered(s).recovered # "no"
  <2>1. Covered(s) /\ Recovered(s) # None /\ (records[s] # None => Recovered(s).outcome = records[s])
    BY <1>1 DEF CInv, RecordsKept, Consistent
  <2>2. /\ journal[s] \in Lines \cup {None} /\ records[s] \in Outcomes \cup {None}
        /\ measurements[s] \in Outcomes \cup {None}
    BY DEF CInv, TypeOK
  <2>3. CASE journal[s] # None
    BY <2>1, <2>2, <2>3 DEF Recovered, Covered
  <2>4. CASE journal[s] = None /\ records[s] # None
    <3>1. Recovered(s) = Line(records[s], "record")
      BY <2>4 DEF Recovered
    <3> QED BY <2>1, <2>2, <2>4, <3>1 DEF Line, Lines
  <2>5. CASE journal[s] = None /\ records[s] = None
    <3>1. measurements[s] # None /\ Recovered(s) = Line(measurements[s], "measurement")
      BY <2>1, <2>5 DEF Recovered
    <3> QED BY <2>1, <2>2, <2>5, <3>1 DEF Line, Lines, Covered
  <2> QED BY <2>3, <2>4, <2>5
<1>3. rows' \in [Slots -> Lines]
  BY <1>1, <1>2
<1>4. TypeOK' /\ FilesOK'
  BY <1>1, <1>3 DEF CInv, TypeOK, FilesOK, runner, files, trialFiles, history
<1>5. RecordsTrue' /\ RecordsKept' /\ RecordsAheadOfJournal' /\ ManifestRight'
  BY <1>1 DEF CInv, RecordsTrue, RecordsKept, Covered, RecordsAheadOfJournal, ManifestRight,
              runner, files, trialFiles, history
<1>6. FirstJournal'
  BY <1>1 DEF CInv, FirstJournal, runner, files
<1>7. RowsRight'
  BY <1>1, <1>2 DEF CInv, RowsRight, files, trialFiles, history
<1> QED BY <1>4, <1>5, <1>6, <1>7 DEF CInv

\* What a recovery writes leaves records, measurements and the runner's memory alone.
Aside == UNCHANGED <<runner, trialFiles, rows, lostRecords, damage>>

\* The journal kept is the one the rows were put together from.
LEMMA SaveKeeps ==
  ASSUME CInv, SaveOriginal PROVE CInv'
<1>1. step = "save" /\ Aside /\ UNCHANGED <<journal, tail, summary, exports, manifest, note, interrupted>>
  BY DEF SaveOriginal, Aside, history
<1>2. CASE original # None /\ step' = "off" /\ UNCHANGED original
  BY <1>1, <1>2 DEF CInv, TypeOK, FilesOK, RecordsTrue, RecordsKept, Covered, RecordsAheadOfJournal,
     FirstJournal, RowsRight, ManifestRight, Aside, runner, trialFiles
<1>3. CASE original = None /\ original' = [journal |-> journal, tail |-> tail] /\ step' = "rename"
  <2>1. original' \in Originals /\ original' # None /\ original'.journal = journal
    BY <1>3, NothingAssumption DEF CInv, TypeOK, Originals
  <2>2. TypeOK' /\ FilesOK'
    BY <1>1, <1>3, <2>1 DEF CInv, TypeOK, FilesOK, Aside, runner, trialFiles
  <2>3. RecordsTrue' /\ RecordsKept' /\ RecordsAheadOfJournal' /\ ManifestRight'
    BY <1>1 DEF CInv, RecordsTrue, RecordsKept, Covered, RecordsAheadOfJournal, ManifestRight, Aside,
                runner, trialFiles
  <2>4. \A s \in Slots : rows[s].recovered # "no" <=> journal[s] = None
    BY <1>1, <1>3 DEF CInv, RowsRight, FirstJournal
  <2>5. FirstJournal' /\ RowsRight'
    BY <1>1, <1>3, <2>1, <2>4 DEF CInv, FirstJournal, RowsRight, Aside, runner, trialFiles
  <2> QED BY <2>2, <2>3, <2>5 DEF CInv
<1> QED BY <1>2, <1>3 DEF SaveOriginal

\* The manifest is set aside, the derived files are written again, or the recovery dies.
LEMMA RewriteKeeps ==
  ASSUME CInv, SetManifestAside \/ RewriteSummary \/ ExportAgain \/ RecoveryDies PROVE CInv'
<1>1. /\ Aside /\ UNCHANGED <<journal, tail, original, note>>
      /\ manifest' \in {manifest, None} /\ step # "off" /\ interrupted' \in BOOLEAN
  BY DEF SetManifestAside, RewriteSummary, ExportAgain, RecoveryDies, Aside, files, history, CInv, TypeOK
<1>2. /\ step' # "off" => rows \in [Slots -> Lines]
      /\ \/ step' = "off"
         \/ step = "rename" /\ step' = "rewrite"
         \/ step = "summary" /\ step' = "export"
         \/ step = "export" /\ step' = "note"
  BY <1>1 DEF SetManifestAside, RewriteSummary, ExportAgain, RecoveryDies, CInv, TypeOK
<1>3. TypeOK' /\ FilesOK'
  BY <1>1, <1>2 DEF CInv, TypeOK, FilesOK, Aside, runner, trialFiles
<1>4. \A s \in Slots : Covered(s)
  BY <1>1 DEF CInv, RecordsKept, FirstJournal
<1>5. RecordsTrue' /\ RecordsKept' /\ RecordsAheadOfJournal'
  BY <1>1, <1>4 DEF CInv, RecordsTrue, RecordsKept, Covered, RecordsAheadOfJournal, FirstJournal, Aside,
                    runner, trialFiles
<1>6. FirstJournal' /\ RowsRight' /\ ManifestRight'
  BY <1>1, <1>2 DEF CInv, FirstJournal, RowsRight, ManifestRight, Aside, runner, trialFiles
<1> QED BY <1>3, <1>5, <1>6 DEF CInv

\* The restored journal says what the records say.
LEMMA JournalKeeps ==
  ASSUME CInv, RewriteJournal PROVE CInv'
<1>1. /\ step = "rewrite" /\ step' = "summary" /\ journal' = rows /\ tail' = "whole" /\ Aside
      /\ UNCHANGED <<summary, exports, manifest, original, note, interrupted>>
  BY DEF RewriteJournal, Aside, history
<1>2. rows \in [Slots -> Lines] /\ \A s \in Slots : rows[s] # None
  BY <1>1, NothingAssumption DEF CInv, TypeOK
<1>3. TypeOK' /\ FilesOK'
  BY <1>1, <1>2 DEF CInv, TypeOK, FilesOK, Aside, runner, trialFiles
<1>4. RecordsTrue' /\ RecordsKept' /\ ManifestRight'
  BY <1>1 DEF CInv, RecordsTrue, RecordsKept, Covered, ManifestRight, Aside, runner, trialFiles
<1>5. RecordsAheadOfJournal'
  BY <1>1 DEF CInv, RowsRight, RecordsAheadOfJournal, Aside, trialFiles
<1>6. FirstJournal' /\ RowsRight'
  BY <1>1 DEF CInv, FirstJournal, RowsRight, Aside, runner, trialFiles
<1> QED BY <1>3, <1>4, <1>5, <1>6 DEF CInv

\* The note, and the manifest after it, name the restored lines.
LEMMA NoteKeeps ==
  ASSUME CInv, WriteNote \/ RewriteManifest PROVE CInv'
<1>1. Aside /\ UNCHANGED <<journal, tail, summary, exports, original, interrupted>>
  BY DEF WriteNote, RewriteManifest, Aside, history
<1>2. CASE WriteNote
  <2>1. /\ step = "note" /\ step' = "manifest" /\ note' = {s \in Slots : original.journal[s] = None}
        /\ UNCHANGED manifest
    BY <1>2 DEF WriteNote
  <2>2. TypeOK' /\ FilesOK'
    BY <1>1, <2>1 DEF CInv, TypeOK, FilesOK, Aside, runner, trialFiles
  <2>3. RecordsTrue' /\ RecordsKept' /\ RecordsAheadOfJournal' /\ ManifestRight'
    BY <1>1, <2>1 DEF CInv, RecordsTrue, RecordsKept, Covered, RecordsAheadOfJournal, ManifestRight,
                      Aside, runner, trialFiles
  <2>4. FirstJournal' /\ RowsRight'
    BY <1>1, <2>1 DEF CInv, FirstJournal, RowsRight, Aside, runner, trialFiles
  <2> QED BY <2>2, <2>3, <2>4 DEF CInv
<1>3. CASE RewriteManifest
  <2>1. step = "manifest" /\ step' = "off" /\ manifest' = Files /\ UNCHANGED note
    BY <1>3 DEF RewriteManifest
  <2>2. manifest'.journal = rows /\ manifest'.note = {s \in Slots : original.journal[s] = None}
    BY <2>1 DEF Files, CInv, RowsRight
  <2>3. manifest'.note # None
    BY <2>2, NothingAssumption
  <2>4. TypeOK' /\ FilesOK'
    BY <1>1, <2>1 DEF CInv, TypeOK, FilesOK, Aside, runner, trialFiles
  <2>5. RecordsTrue' /\ RecordsKept' /\ RecordsAheadOfJournal'
    BY <1>1, <2>1 DEF CInv, RecordsTrue, RecordsKept, Covered, RecordsAheadOfJournal,
                      Aside, runner, trialFiles
  <2>6. FirstJournal' /\ RowsRight' /\ ManifestRight'
    BY <1>1, <2>1, <2>2, <2>3 DEF CInv, FirstJournal, RowsRight, ManifestRight, Aside, runner, trialFiles
  <2> QED BY <2>4, <2>5, <2>6 DEF CInv
<1> QED BY <1>2, <1>3

\* Every step of runner, recovery and losses keeps the invariant.
LEMMA CInvStep ==
  ASSUME CInv, [Next]_vars PROVE CInv'
<1>1. CASE UNCHANGED vars
  BY <1>1 DEF vars, runner, files, trialFiles, recovery, history, CInv, TypeOK, FilesOK, RecordsTrue,
     RecordsKept, Covered, RecordsAheadOfJournal, FirstJournal, RowsRight, ManifestRight
<1> QED BY <1>1, TrialKeeps, RecordKeeps, AppendKeeps, FinalizeKeeps, DerivedKeeps, ManifestKeeps,
           LossKeeps, StartKeeps, SaveKeeps, RewriteKeeps, JournalKeeps, NoteKeeps DEF Next, Recover

\* The strengthening behind the theorems below, in every reachable state of a campaign
\* and its recoveries.
THEOREM CampaignInvariant == Spec => []CInv
<1>1. Init => CInv
  BY CInvInit
<1>2. CInv /\ [Next]_vars => CInv'
  BY CInvStep
<1> QED BY <1>1, <1>2, PTL DEF Spec

----------------------------------------------------------------------------
(* What it gives. *)

\* Runner, losses and recoveries leave every file well formed.
THEOREM CampaignTypeCorrect == Spec => []TypeOK
<1>1. CInv => TypeOK
  BY DEF CInv
<1> QED BY <1>1, CampaignInvariant, PTL

\* A line in the journal has, or had, its record.
THEOREM RecordsAheadOfJournalHolds == Spec => []RecordsAheadOfJournal
<1>1. CInv => RecordsAheadOfJournal
  BY DEF CInv
<1> QED BY <1>1, CampaignInvariant, PTL

\* A directory that verify_campaign.py accepts says what the trials were.
THEOREM VerifiedIsGenuineHolds == Spec => []VerifiedIsGenuine
<1>1. CInv => VerifiedIsGenuine
  BY DEF CInv, RecordsTrue, VerifiedIsGenuine, Verifies, Pinned
<1> QED BY <1>1, CampaignInvariant, PTL

\* What a recovery restored can be told from what it kept.
THEOREM RecoveryTraceableHolds == Spec => []RecoveryTraceable
<1>1. ASSUME CInv, Verifies
      PROVE  {s \in Slots : journal[s].recovered # "no"} = (IF note = None THEN {} ELSE note)
  <2>1. manifest.journal = journal /\ manifest.note = note
    BY <1>1 DEF Verifies, Files
  <2>2. \A s \in Slots : journal[s].recovered # "no" <=> note # None /\ s \in note
    BY <1>1, <2>1 DEF CInv, ManifestRight, Verifies
  <2>3. note # None => note \subseteq Slots
    BY <1>1 DEF CInv, FilesOK
  <2> QED BY <2>2, <2>3
<1>2. CInv => RecoveryTraceable
  BY <1>1 DEF CInv, FirstJournal, RecoveryTraceable
<1> QED BY <1>2, CampaignInvariant, PTL

=============================================================================
