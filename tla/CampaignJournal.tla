--------------------------- MODULE CampaignJournal ---------------------------
(***************************************************************************)
(* A measurement campaign and the repair of its journal: experiment.py     *)
(* runs the trials and keeps a durable record of each beside a journal,    *)
(* recover_journal.py restores lost journal lines from those records, and  *)
(* verify_campaign.py decides whether a directory may be used.  Either     *)
(* program may die between two writes, and the directory may lose journal  *)
(* lines or records between two programs.                                  *)
(*                                                                         *)
(* Data abstraction.  A file is its contents, None when it is missing.     *)
(* The journal is what each slot's line says, since no program relies on   *)
(* the order of the lines, and whether all of it can be parsed.  Plan,     *)
(* metadata and source digests do not change and are left out; the parent's *)
(* process identifier and timings are the part of a row that distinguishes *)
(* a recovered line.                                                       *)
(***************************************************************************)
EXTENDS CampaignStatistics

CONSTANTS
  Values,       \* metric values a trial may measure
  Behaviours,   \* what the process of each slot may do: [measured, exits], see below
  None,
  MaxDamage     \* bound of the model: lines and records lost in all

\* A trial leaves a measurement (an outcome, or None when there is no usable file)
\* and exits in time with code 0, or not.
Outcomes == [successful : {TRUE}, value : Values] \cup {Failure}

\* A line of the journal, and a journal that a recovery has replaced.
Lines == [outcome : Outcomes, recovered : {"no", "record", "measurement"}]
Originals == [journal : [Slots -> Lines \cup {None}], tail : {"whole", "cut", "garbled"}]

ASSUME BehaviourAssumption ==
  /\ \A s \in Slots : Behaviours[s] \subseteq [measured : Outcomes \cup {None}, exits : BOOLEAN]
  /\ MaxDamage \in Nat /\ Values \subseteq Nat

ASSUME NothingAssumption ==
  /\ None \notin Outcomes /\ None \notin Lines /\ None \notin Originals
  /\ None \notin Slots /\ \A named \in SUBSET Slots : named # None

VARIABLES
  phase,         \* what the runner does next; "done" and "dead" are its ends
  current,       \* the slot of the trial under way
  produced,      \* rows: the outcome the runner found for each slot, or None
  measurements,  \* <slot>/measurement.json
  records,       \* <slot>/record.json
  journal,       \* trials.jsonl: [outcome, recovered] or None for each slot
  tail,          \* "cut" when its last line is incomplete, "garbled" when another
  summary,       \* summary.json
  exports,       \* summary.csv, tables.tex and the paired comparisons
  manifest,      \* sha256-manifest.json
  original,      \* trials-original.jsonl
  note,          \* journal-recovery.json: the recovered slots
  step,          \* what a recovery does next, "off" when none runs
  rows,          \* the rows a recovery has put together
  interrupted,   \* history: whether a program died
  lostRecords,   \* history: the slots whose record was lost
  damage         \* losses so far

trialFiles == <<measurements, records>>
files == <<trialFiles, journal, tail, summary, exports, manifest, original, note>>
runner == <<phase, current, produced>>
recovery == <<step, rows>>
history == <<interrupted, lostRecords, damage>>
vars == <<runner, files, recovery, history>>

Nothing == [s \in Slots |-> None]

Init ==
  /\ phase = "run" /\ current = None /\ produced = Nothing
  /\ measurements = Nothing /\ records = Nothing
  /\ journal = Nothing /\ tail = "whole"
  /\ summary = None /\ exports = None /\ manifest = None
  /\ original = None /\ note = None
  /\ step = "off" /\ rows = Nothing
  /\ interrupted = FALSE /\ lostRecords = {} /\ damage = 0

Line(outcome, recovered) == [outcome |-> outcome, recovered |-> recovered]
JournalOf(outcomes) == [s \in Slots |-> Line(outcomes[s], "no")]

\* The digests of all files but the manifest itself.
Files == [trials |-> <<measurements, records>>, journal |-> journal, tail |-> tail,
          summary |-> summary, exports |-> exports, original |-> original, note |-> note]

----------------------------------------------------------------------------
(* campaign() *)

Waiting == {s \in Slots : produced[s] = None}

\* Faulty variant: what a process that exits in time left is not validated.
RunTrialUnchecked ==
  /\ phase = "run"
  /\ \E s \in Waiting : \E b \in Behaviours[s] :
       /\ \A q \in Waiting : s[2] <= q[2]
       /\ current' = s
       /\ measurements' = [measurements EXCEPT ![s] = b.measured]
       /\ produced' = [produced EXCEPT ![s] = IF b.exits THEN b.measured ELSE Failure]
  /\ phase' = "record"
  /\ UNCHANGED <<records, journal, tail, summary, exports, manifest, original, note, recovery, history>>

\* One fresh process per slot, in blocks of one trial of every task.  A timeout, an
\* exit code or an unusable measurement makes a failed trial, whatever file it left.
RunTrial ==
  /\ phase = "run"
  /\ \E s \in Waiting : \E b \in Behaviours[s] :
       /\ \A q \in Waiting : s[2] <= q[2]
       /\ current' = s
       /\ measurements' = [measurements EXCEPT ![s] = b.measured]
       /\ produced' = [produced EXCEPT ![s] =
                         IF b.exits /\ b.measured # None THEN b.measured ELSE Failure]
  /\ phase' = "record"
  /\ UNCHANGED <<records, journal, tail, summary, exports, manifest, original, note, recovery, history>>

\* Faulty variant: the line is appended before the record is durable.
KeepRecordLate ==
  /\ phase = "record"
  /\ journal' = [journal EXCEPT ![current] = Line(produced[current], "no")]
  /\ phase' = "append"
  /\ UNCHANGED <<current, produced, trialFiles, tail, summary, exports, manifest, original, note,
                 recovery, history>>

KeepRecord ==
  /\ phase = "record"
  /\ records' = [records EXCEPT ![current] = produced[current]]
  /\ phase' = "append"
  /\ UNCHANGED <<current, produced, measurements, journal, tail, summary, exports, manifest, original,
                 note, recovery, history>>

AppendLine ==
  /\ phase = "append"
  /\ journal' = [journal EXCEPT ![current] = Line(produced[current], "no")]
  /\ phase' = "run"
  /\ UNCHANGED <<current, produced, trialFiles, tail, summary, exports, manifest, original, note,
                 recovery, history>>

\* The journal is written anew from memory, in one replacement.
FinalizeJournal ==
  /\ phase = "run" /\ Waiting = {}
  /\ journal' = JournalOf(produced) /\ tail' = "whole"
  /\ phase' = "summary"
  /\ UNCHANGED <<current, produced, trialFiles, summary, exports, manifest, original, note,
                 recovery, history>>

WriteSummary ==
  /\ phase = "summary"
  /\ summary' = Report(produced)
  /\ phase' = "export"
  /\ UNCHANGED <<current, produced, trialFiles, journal, tail, exports, manifest, original, note,
                 recovery, history>>

Export ==
  /\ phase = "export"
  /\ exports' = Report(produced)
  /\ phase' = "manifest"
  /\ UNCHANGED <<current, produced, trialFiles, journal, tail, summary, manifest, original, note,
                 recovery, history>>

WriteManifest ==
  /\ phase = "manifest"
  /\ manifest' = Files
  /\ phase' = "done"
  /\ UNCHANGED <<current, produced, trialFiles, journal, tail, summary, exports, original, note,
                 recovery, history>>

\* The runner dies; a campaign is never resumed.  An append may be cut short.
RunnerDies ==
  /\ phase \notin {"done", "dead"}
  /\ phase' = "dead" /\ interrupted' = TRUE
  /\ tail' \in IF phase = "append" THEN {"whole", "cut"} ELSE {tail}
  /\ UNCHANGED <<current, produced, trialFiles, journal, summary, exports, manifest, original, note,
                 recovery, lostRecords, damage>>

----------------------------------------------------------------------------
(* Losses between two programs, of a campaign that has its summary:        *)
(* without one nothing can be recovered or verified any more.              *)

Idle == phase \in {"done", "dead"} /\ step = "off"
Loss == Idle /\ summary # None /\ damage < MaxDamage /\ damage' = damage + 1

\* A line is lost without a trace, as the incomplete end of the journal, or by
\* becoming unreadable before its end.
LoseLine ==
  /\ Loss
  /\ \E s \in Slots, left \in {"whole", "cut", "garbled"} :
       /\ journal[s] # None
       /\ journal' = [journal EXCEPT ![s] = None]
       /\ tail' = IF left = "whole" \/ tail = "garbled" THEN tail ELSE left
  /\ UNCHANGED <<runner, trialFiles, summary, exports, manifest, original, note, recovery,
                 interrupted, lostRecords>>

LoseRecord ==
  /\ Loss
  /\ \E s \in Slots :
       /\ records[s] # None
       /\ records' = [records EXCEPT ![s] = None]
       /\ lostRecords' = lostRecords \cup {s}
  /\ UNCHANGED <<runner, measurements, journal, tail, summary, exports, manifest, original, note,
                 recovery, interrupted>>

----------------------------------------------------------------------------
(* recover() *)

\* The row of a slot: its line, else its record, else its measurement.
Recovered(s) ==
  IF journal[s] # None THEN journal[s]
  ELSE IF records[s] # None THEN Line(records[s], "record")
  ELSE IF measurements[s] # None THEN Line(measurements[s], "measurement") ELSE None

\* Line, record and measurement agree.
Consistent(s) ==
  LET row == Recovered(s) IN
  /\ row # None
  /\ records[s] # None => row.outcome = records[s]
  /\ row.outcome.successful => measurements[s] = row.outcome

Reproduced(outcomes) == summary # None /\ Report(outcomes) = summary

\* Faulty variant: an incomplete last line is an error as well.
ReadableIfComplete == tail = "whole"

\* All lines but the last can be parsed.
Readable == tail # "garbled"

\* Everything is read and compared; nothing is written before all of it agrees.
StartRecovery ==
  /\ Idle
  /\ \E s \in Slots : journal[s] = None
  /\ Readable /\ \A s \in Slots : Consistent(s)
  /\ Reproduced([s \in Slots |-> Recovered(s).outcome])
  /\ rows' = [s \in Slots |-> Recovered(s)]
  /\ step' = "save"
  /\ UNCHANGED <<runner, files, history>>

\* Faulty variant: an earlier copy of the journal is overwritten.
SaveOriginalAgain ==
  /\ step = "save"
  /\ original' = [journal |-> journal, tail |-> tail] /\ step' = "rename"
  /\ UNCHANGED <<runner, trialFiles, journal, tail, summary, exports, manifest, note, rows, history>>

\* The replaced bytes are kept, in a file that must not exist yet.
SaveOriginal ==
  /\ step = "save"
  /\ \/ /\ original = None
        /\ original' = [journal |-> journal, tail |-> tail] /\ step' = "rename"
     \/ original # None /\ step' = "off" /\ UNCHANGED original
  /\ UNCHANGED <<runner, trialFiles, journal, tail, summary, exports, manifest, note, rows, history>>

SetManifestAside ==
  /\ step = "rename"
  /\ manifest' = None /\ step' = "rewrite"
  /\ UNCHANGED <<runner, trialFiles, journal, tail, summary, exports, original, note, rows, history>>

RewriteJournal ==
  /\ step = "rewrite"
  /\ journal' = rows /\ tail' = "whole" /\ step' = "summary"
  /\ UNCHANGED <<runner, trialFiles, summary, exports, manifest, original, note, rows, history>>

RewriteSummary ==
  /\ step = "summary"
  /\ summary' = Report([s \in Slots |-> rows[s].outcome]) /\ step' = "export"
  /\ UNCHANGED <<runner, trialFiles, journal, tail, exports, manifest, original, note, rows, history>>

ExportAgain ==
  /\ step = "export"
  /\ exports' = summary /\ step' = "note"
  /\ UNCHANGED <<runner, trialFiles, journal, tail, summary, manifest, original, note, rows, history>>

WriteNote ==
  /\ step = "note"
  /\ note' = {s \in Slots : original.journal[s] = None} /\ step' = "manifest"
  /\ UNCHANGED <<runner, trialFiles, journal, tail, summary, exports, manifest, original, rows, history>>

RewriteManifest ==
  /\ step = "manifest"
  /\ manifest' = Files /\ step' = "off"
  /\ UNCHANGED <<runner, trialFiles, journal, tail, summary, exports, original, note, rows, history>>

RecoveryDies ==
  /\ step # "off"
  /\ step' = "off" /\ interrupted' = TRUE
  /\ UNCHANGED <<runner, files, rows, lostRecords, damage>>

----------------------------------------------------------------------------
Recover ==
  \/ StartRecovery \/ SaveOriginal \/ SetManifestAside \/ RewriteJournal \/ RewriteSummary
  \/ ExportAgain \/ WriteNote \/ RewriteManifest

Next ==
  \/ RunTrial \/ KeepRecord \/ AppendLine \/ FinalizeJournal \/ WriteSummary \/ Export
  \/ WriteManifest \/ RunnerDies \/ LoseLine \/ LoseRecord \/ Recover \/ RecoveryDies

Spec == Init /\ [][Next]_vars

\* The operator runs recover_journal.py until it has done its work.
FairSpec == Spec /\ WF_vars(Recover)

----------------------------------------------------------------------------
(* verify() *)

\* Faulty variant: a trial without a record is accepted, as in older campaigns.
PinnedLegacy(s) ==
  /\ records[s] # None => journal[s].outcome = records[s]
  /\ journal[s].outcome.successful => measurements[s] = journal[s].outcome

\* Each line has its record, and a success the measurement, that the manifest names.
Pinned(s) ==
  /\ records[s] # None /\ journal[s].outcome = records[s]
  /\ journal[s].outcome.successful => measurements[s] = journal[s].outcome

\* The files are the manifest's, there is a line for each slot, and the summary and
\* the exports follow from the lines.
Verifies ==
  /\ manifest # None /\ manifest = Files /\ tail = "whole"
  /\ \A s \in Slots : journal[s] # None /\ Pinned(s)
  /\ Reproduced([s \in Slots |-> journal[s].outcome]) /\ exports = summary

----------------------------------------------------------------------------
(* Properties. *)

TypeOK ==
  /\ produced \in [Slots -> Outcomes \cup {None}]
  /\ measurements \in [Slots -> Outcomes \cup {None}]
  /\ records \in [Slots -> Outcomes \cup {None}]
  /\ journal \in [Slots -> Lines \cup {None}]
  /\ tail \in {"whole", "cut", "garbled"} /\ interrupted \in BOOLEAN
  /\ damage \in 0 .. MaxDamage /\ lostRecords \subseteq Slots
  /\ current \in Slots \cup {None} /\ (phase \in {"record", "append"} => current # None)
  /\ step # "off" => rows \in [Slots -> Lines]

\* A directory that verifies holds, for every slot of the plan, the outcome its trial had
\* for the runner, be it written by the runner or restored, and never a measurement
\* that a killed or failing process left behind.
VerifiedIsGenuine ==
  Verifies => \A s \in Slots : journal[s].outcome = produced[s]

\* Individual records are authoritative when an append is lost: no line is ever in
\* the journal whose record was not durable before it.
RecordsAheadOfJournal ==
  \A s \in Slots : journal[s] # None => records[s] = journal[s].outcome \/ s \in lostRecords

\* What a recovery did can be told from what it kept: a line it restored is missing
\* from the journal kept beside it, and a verified directory's note names each such line.
RecoveryTraceable ==
  /\ \A s \in Slots : (journal[s] # None /\ journal[s].recovered # "no") =>
       original # None /\ original.journal[s] = None
  /\ Verifies => {s \in Slots : journal[s].recovered # "no"} = (IF note = None THEN {} ELSE note)

\* If journal appends are lost but the individual records remain, the first recovery, unless it
\* is interrupted or finds an unreadable line, ends in a directory that verifies.
LostLinesRecover ==
  (phase = "done" /\ original = None /\ \E s \in Slots : journal[s] = None)
    ~> (interrupted \/ lostRecords # {} \/ tail = "garbled" \/ Verifies)
============================================================================
