--------------------------- MODULE PipelineProofs ---------------------------
(***************************************************************************)
(* Proofs about the ingestion pipeline, for every number of callers,       *)
(* requests and faults.                                                    *)
(*                                                                         *)
(* First, type correctness, and the outbox in step with the submissions.   *)
(* Then the safety of the commit protocol: a step only moves the shared    *)
(* state forward (Forward), so what a caller has read stays true enough    *)
(* until it uses it (Holds), and then each transaction keeps tables and    *)
(* ledger matched.  Last, the evidence retained.                           *)
(***************************************************************************)
EXTENDS Pipeline, SubmissionStoreProofs

----------------------------------------------------------------------------
(* Type correctness. *)

\* Type correctness alone is not inductive: finish needs an outbox row.
TypeInv == TypeOK /\ OutboxInStep

\* The tables keep their shape and agreement when the store is not called.
LEMMA StoreKept ==
  ASSUME StoreTypeOK, OutboxInStep, UNCHANGED storeVars
  PROVE  StoreTypeOK' /\ OutboxInStep'
BY DEF StoreTypeOK, OutboxInStep, storeVars

\* A caller's locals are well typed, and those its step uses are assigned.
LEMMA LocalsOf ==
  ASSUME TypeInv, NEW p \in Callers
  PROVE  /\ job[p] \in Jobs /\ LocalsAssigned(pc[p], job[p])
         /\ pc[p] # "idle" => job[p].rid \in Records
         /\ faults \in 0 .. MaxFaults
BY DEF TypeInv, TypeOK, CallersTypeOK, LocalsAssigned, ScanSteps

\* Moving on with the locals assigned keeps the callers well typed.
LEMMA MoveType ==
  ASSUME TypeInv, NEW p \in Callers, NEW l \in Steps, Goto(p, l),
         NEW j \in Jobs, LocalsAssigned(l, j), job' = [job EXCEPT ![p] = j]
  PROVE  CallersTypeOK'
BY DEF Goto, TypeInv, TypeOK, CallersTypeOK

LEMMA KeepType ==
  ASSUME TypeInv, NEW p \in Callers, NEW l \in Steps, LocalsAssigned(l, job[p]), Keep(p, l)
  PROVE  CallersTypeOK'
BY DEF Keep, Goto, TypeInv, TypeOK, CallersTypeOK

LEMMA EndType ==
  ASSUME TypeInv, NEW p \in Callers, End(p)
  PROVE  CallersTypeOK'
<1>1. NoJob \in Jobs /\ LocalsAssigned("idle", NoJob) /\ "idle" \in Steps
  BY DEF NoJob, Jobs, Modes, LocalsAssigned, ScanSteps, Steps, EntrySteps, DeliverSteps
<1> QED BY <1>1, MoveType DEF End

\* A scan's row is reported, with a status.
LEMMA ReportType ==
  ASSUME TypeInv, NEW p \in Callers, pc[p] # "idle", job[p].mode # "call",
         NEW s \in Statuses, Report(p, s)
  PROVE  CallersTypeOK'
<1> DEFINE j == [NoJob EXCEPT !.rid = job[p].rid, !.mode = job[p].mode, !.found = s]
<1>1. job[p] \in Jobs /\ job[p].rid \in Records
  BY LocalsOf
<1>2. j \in Jobs /\ LocalsAssigned("report", j) /\ "report" \in Steps
  BY <1>1 DEF NoJob, Jobs, LocalsAssigned, Steps, ScanSteps, EntrySteps, DeliverSteps
<1> QED BY <1>2, MoveType DEF Report

\* An exception, which reconcile catches, keeps the callers well typed.
LEMMA RaiseType ==
  ASSUME TypeInv, NEW p \in Callers, pc[p] # "idle", Raise(p)
  PROVE  CallersTypeOK'
<1>1. "CHECK_FAILED" \in Statuses
  BY DEF Statuses
<1> QED BY <1>1, EndType, ReportType DEF Raise

LEMMA FaultType ==
  ASSUME TypeInv, NEW k, Fault(k) PROVE faults' \in 0 .. MaxFaults
BY PipelineAssumption DEF Fault, TypeInv, TypeOK

\* Everything but the caller itself is as before.
LEMMA QuietType ==
  ASSUME TypeInv, CallersTypeOK', faults' \in 0 .. MaxFaults,
         UNCHANGED <<storeVars, fileVars, ledgerVars, trustVars>>
  PROVE  TypeInv'
BY StoreKept DEF TypeInv, TypeOK, fileVars, ledgerVars, trustVars

\* A transaction of the store was the only shared effect.
LEMMA StoreStepType ==
  ASSUME TypeInv, CallersTypeOK', faults' \in 0 .. MaxFaults, StoreTypeOK', OutboxInStep',
         UNCHANGED <<fileVars, ledgerVars, trustVars>>
  PROVE  TypeInv'
BY DEF TypeInv, TypeOK, fileVars, ledgerVars, trustVars

----------------------------------------------------------------------------
LEMMA CalledType ==
  ASSUME TypeInv, NEW p \in Callers, Called(p)
  PROVE  TypeInv'
<1>0. job[p] \in Jobs /\ faults \in 0 .. MaxFaults
  BY LocalsOf
<1> USE DEF Steps, WorkerSteps, DeliverSteps, ScanSteps, EntrySteps
<1>1. ASSUME NEW r \in Records, NEW d \in Documents, StartRun(p, r, d)
      PROVE  TypeInv'
  <2> DEFINE j == [job[p] EXCEPT !.rid = r, !.doc = d]
  <2>1. j \in Jobs /\ LocalsAssigned("lookup", j)
    BY <1>0 DEF Jobs, LocalsAssigned, ScanSteps
  <2>2. job' = [job EXCEPT ![p] = j] /\ Goto(p, "lookup")
    BY <1>1 DEF StartRun
  <2>3. CallersTypeOK'
    BY <2>1, <2>2, MoveType
  <2> QED BY <1>0, <1>1, <2>3, QuietType DEF StartRun
<1>2. ASSUME NEW r \in Records, StartDeliver(p, r)
      PROVE  TypeInv'
  <2> DEFINE j == [job[p] EXCEPT !.rid = r]
  <2>1. j \in Jobs /\ LocalsAssigned("pending", j)
    BY <1>0 DEF Jobs, LocalsAssigned, ScanSteps
  <2>2. job' = [job EXCEPT ![p] = j] /\ Goto(p, "pending")
    BY <1>2 DEF StartDeliver
  <2>3. CallersTypeOK'
    BY <2>1, <2>2, MoveType
  <2> QED BY <1>0, <1>2, <2>3, QuietType DEF StartDeliver
<1>3. ASSUME NEW r \in Records, NEW mode \in {"look", "repair"}, StartScan(p, r, mode)
      PROVE  TypeInv'
  <2> DEFINE j == [job[p] EXCEPT !.rid = r, !.entry = outbox[r], !.mode = mode]
  <2>1. outbox[r] \in OutboxRows
    BY <1>3 DEF StartScan, TypeInv, TypeOK, StoreTypeOK
  <2>2. j \in Jobs /\ LocalsAssigned("scan", j)
    BY <1>0, <2>1 DEF Jobs, Modes, LocalsAssigned
  <2>3. job' = [job EXCEPT ![p] = j] /\ Goto(p, "scan")
    BY <1>3 DEF StartScan
  <2>4. CallersTypeOK'
    BY <2>2, <2>3, MoveType
  <2> QED BY <1>0, <1>3, <2>4, QuietType DEF StartScan
<1> QED BY <1>1, <1>2, <1>3 DEF Called

\* Ingestion: lookup, object, row, unlink, and the read that follows.
LEMMA IngestStepType ==
  ASSUME TypeInv, NEW p \in Callers,
         Lookup(p) \/ WriteBlob(p) \/ Insert(p) \/ Unlink(p) \/ ReadState(p)
  PROVE  TypeInv'
<1> DEFINE r == job[p].rid  d == job[p].doc
<1>0. faults \in 0 .. MaxFaults /\ r \in Records /\ LocalsAssigned(pc[p], job[p])
  BY LocalsOf DEF Lookup, WriteBlob, Insert, Unlink, ReadState
<1>1. {"read", "write", "insert", "unlink", "claim", "pending"} \subseteq Steps
  BY DEF Steps, WorkerSteps, DeliverSteps
<1>2. \A l \in {"read", "unlink", "claim", "pending"} : LocalsAssigned(l, job[p])
  BY <1>0 DEF LocalsAssigned, ScanSteps, EntrySteps, DeliverSteps
<1>3. CASE Lookup(p)
  <2>1. LocalsAssigned("write", job[p])
    BY <1>0, <1>3 DEF LocalsAssigned, ScanSteps, EntrySteps, DeliverSteps, Lookup
  <2>2. CallersTypeOK'
    BY <1>1, <1>2, <1>3, <2>1, KeepType, EndType DEF Lookup
  <2> QED BY <1>0, <1>3, <2>2, QuietType DEF Lookup
<1>4. CASE WriteBlob(p)
  <2>1. LocalsAssigned("insert", job[p])
    BY <1>0, <1>4 DEF LocalsAssigned, ScanSteps, EntrySteps, DeliverSteps, WriteBlob
  <2>2. CallersTypeOK'
    BY <1>1, <1>4, <2>1, KeepType, EndType DEF WriteBlob
  <2>3. blobs' \in [Records -> Ciphers \cup {None}]
    <3>1. CASE blobs' = [blobs EXCEPT ![r] = p] /\ p \in Ciphers
      BY <3>1 DEF TypeInv, TypeOK
    <3> QED BY <1>4, <3>1, PipelineAssumption DEF WriteBlob, TypeInv, TypeOK
  <2> QED BY <1>4, <2>2, <2>3, StoreKept DEF WriteBlob, TypeInv, TypeOK, ledgerVars, trustVars
<1>5. CASE Insert(p)
  <2>1. CallersTypeOK'
    BY <1>1, <1>2, <1>5, KeepType DEF Insert
  <2>2. StoreTypeOK' /\ OutboxInStep'
    <3>1. CASE Ingest(r, d, p)
      <4>1. d \in Documents /\ p \in Ciphers
        BY <1>0, <1>5, PipelineAssumption DEF LocalsAssigned, ScanSteps, Insert
      <4> QED BY <1>0, <3>1, <4>1, IngestType, IngestInStep DEF TypeInv, TypeOK
    <3> QED BY <1>5, <3>1, StoreKept DEF Insert, TypeInv, TypeOK
  <2> QED BY <1>0, <1>5, <2>1, <2>2, StoreStepType DEF Insert
<1>6. CASE Unlink(p)
  <2>1. CallersTypeOK'
    BY <1>6, EndType DEF Unlink
  <2>2. blobs' \in [Records -> Ciphers \cup {None}]
    BY <1>6 DEF Unlink, TypeInv, TypeOK
  <2> QED BY <1>6, <2>1, <2>2, StoreKept DEF Unlink, TypeInv, TypeOK, ledgerVars, trustVars
<1>7. CASE ReadState(p)
  <2>1. CallersTypeOK'
    BY <1>1, <1>2, <1>7, KeepType DEF ReadState
  <2> QED BY <1>0, <1>7, <2>1, QuietType DEF ReadState
<1> QED BY <1>3, <1>4, <1>5, <1>6, <1>7

\* The worker: claim, read back, SBOM, signature, outbox row, failure.
LEMMA WorkerStepType ==
  ASSUME TypeInv, NEW p \in Callers,
         TakeClaim(p) \/ Work(p) \/ WriteSbom(p) \/ Sign(p) \/ StoreReceipt(p) \/ Fail(p)
  PROVE  TypeInv'
<1> DEFINE r == job[p].rid
<1>0. /\ faults \in 0 .. MaxFaults /\ r \in Records
      /\ LocalsAssigned(pc[p], job[p]) /\ job[p] \in Jobs /\ job[p].claimed \in Nat
  BY LocalsOf DEF TakeClaim, Work, WriteSbom, Sign, StoreReceipt, Fail, Jobs
<1>1. {"work", "sbom", "sign", "prepare", "fail", "pending"} \subseteq Steps
  BY DEF Steps, WorkerSteps, DeliverSteps
<1>2. \A l \in {"work", "sbom", "sign", "fail", "pending"} : LocalsAssigned(l, job[p])
  BY <1>0 DEF LocalsAssigned, ScanSteps, EntrySteps, DeliverSteps
<1>3. CASE TakeClaim(p)
  <2>1. CASE Claim(r) /\ job' = [job EXCEPT ![p].claimed = version[r] + 1] /\ Goto(p, "work")
    <3> DEFINE j == [job[p] EXCEPT !.claimed = version[r] + 1]
    <3>1. version[r] + 1 \in Nat
      BY <1>0 DEF TypeInv, TypeOK, StoreTypeOK
    <3>2. j \in Jobs /\ LocalsAssigned("work", j)
      BY <1>0, <3>1 DEF Jobs, LocalsAssigned, ScanSteps, EntrySteps, DeliverSteps
    <3>3. job' = [job EXCEPT ![p] = j]
      BY <2>1
    <3>4. CallersTypeOK'
      BY <1>1, <2>1, <3>2, <3>3, MoveType
    <3>5. StoreTypeOK' /\ OutboxInStep'
      BY <1>0, <2>1, ClaimType, ClaimInStep DEF TypeInv, TypeOK
    <3> QED BY <1>0, <1>3, <3>4, <3>5, StoreStepType DEF TakeClaim
  <2>2. CASE End(p) /\ UNCHANGED storeVars
    BY <1>0, <1>3, <2>2, EndType, QuietType DEF TakeClaim
  <2> QED BY <1>3, <2>1, <2>2 DEF TakeClaim
<1>4. CASE Work(p)
  <2>1. CallersTypeOK'
    BY <1>1, <1>2, <1>4, KeepType DEF Work
  <2> QED BY <1>0, <1>4, <2>1, QuietType DEF Work
<1>5. CASE WriteSbom(p)
  <2>1. CallersTypeOK'
    BY <1>1, <1>2, <1>5, KeepType DEF WriteSbom
  <2>2. sboms' \in [Records -> Nat]
    BY <1>0, <1>5 DEF WriteSbom, TypeInv, TypeOK
  <2> QED BY <1>5, <2>1, <2>2, StoreKept DEF WriteSbom, TypeInv, TypeOK, ledgerVars, trustVars
<1>6. CASE Sign(p)
  <2>1. CASE Receipt(p) \in Payloads /\ job' = [job EXCEPT ![p].receipt = Receipt(p)] /\ Goto(p, "prepare")
    <3> DEFINE j == [job[p] EXCEPT !.receipt = Receipt(p)]
    <3>1. j \in Jobs /\ LocalsAssigned("prepare", j)
      BY <1>0, <2>1 DEF Jobs, LocalsAssigned, ScanSteps, EntrySteps, DeliverSteps
    <3>2. job' = [job EXCEPT ![p] = j]
      BY <2>1
    <3>3. CallersTypeOK'
      BY <1>1, <2>1, <3>1, <3>2, MoveType
    <3> QED BY <1>0, <1>6, <3>3, QuietType DEF Sign
  <2>2. CASE Keep(p, "fail")
    BY <1>0, <1>1, <1>2, <1>6, <2>2, KeepType, QuietType DEF Sign
  <2> QED BY <1>6, <2>1, <2>2 DEF Sign
<1>7. CASE StoreReceipt(p)
  <2>1. CallersTypeOK'
    BY <1>1, <1>2, <1>7, KeepType DEF StoreReceipt
  <2>2. job[p].receipt \in Payloads
    BY <1>0, <1>7 DEF LocalsAssigned, ScanSteps, StoreReceipt
  <2>3. StoreTypeOK' /\ OutboxInStep'
    <3>1. CASE Prepare(r, job[p].claimed, job[p].receipt)
      BY <1>0, <2>2, <3>1, PrepareType, PrepareInStep DEF TypeInv, TypeOK
    <3> QED BY <1>7, <3>1, StoreKept DEF StoreReceipt, TypeInv, TypeOK
  <2> QED BY <1>0, <1>7, <2>1, <2>3, StoreStepType DEF StoreReceipt
<1>8. CASE Fail(p)
  <2>1. CallersTypeOK'
    BY <1>8, EndType DEF Fail
  <2>2. StoreTypeOK' /\ OutboxInStep'
    <3>1. CASE FailProcessing(r, job[p].claimed)
      BY <1>0, <3>1, FailType, FailInStep DEF TypeInv, TypeOK
    <3> QED BY <1>8, <3>1, StoreKept DEF Fail, TypeInv, TypeOK
  <2> QED BY <1>0, <1>8, <2>1, <2>2, StoreStepType DEF Fail
<1> QED BY <1>3, <1>4, <1>5, <1>6, <1>7, <1>8

\* Delivery up to the ledger: reads and checks of the outbox row.
LEMMA CheckStepType ==
  ASSUME TypeInv, NEW p \in Callers,
         \/ ReadPending(p) \/ ReturnCached(p) \/ Verify(p) \/ CheckRow(p)
         \/ CheckEvidence(p) \/ CheckRecovery(p) \/ HistoricalCommit(p)
  PROVE  TypeInv'
<1> DEFINE r == job[p].rid
<1>0. /\ faults \in 0 .. MaxFaults /\ r \in Records
      /\ LocalsAssigned(pc[p], job[p]) /\ job[p] \in Jobs
  BY LocalsOf DEF ReadPending, ReturnCached, Verify, CheckRow, CheckEvidence,
                  CheckRecovery, HistoricalCommit
<1>1. {"cached", "verify", "row", "evidence", "recover", "history", "submit", "finish", "done"} \subseteq Steps
  BY DEF Steps, DeliverSteps
<1>2. pc[p] \in EntrySteps =>
        \A l \in {"row", "evidence", "recover", "history", "submit"} : LocalsAssigned(l, job[p])
  BY <1>0 DEF LocalsAssigned, ScanSteps
<1>3. \A q \in Records : ledger[q] # None => ledger[q].tx \in TxIds
  BY DEF TypeInv, TypeOK, LedgerEntries
<1>4. CASE ReadPending(p)
  <2>1. CASE Raise(p)
    BY <1>0, <1>4, <2>1, RaiseType, QuietType DEF ReadPending
  <2>2. CASE ~Raise(p)
    <3> DEFINE j == [job[p] EXCEPT !.entry = outbox[r]]
               l == IF outbox[r].status = "CONFIRMED" THEN "cached" ELSE "verify"
    <3>1. outbox[r] \in OutboxRows
      BY <1>0, <1>4, <2>2 DEF ReadPending, TypeInv, TypeOK, StoreTypeOK
    <3>2. j \in Jobs /\ LocalsAssigned(l, j) /\ l \in Steps
      BY <1>0, <1>1, <3>1 DEF Jobs, LocalsAssigned, ScanSteps
    <3>3. job' = [job EXCEPT ![p] = j] /\ Goto(p, l)
      BY <1>4, <2>2 DEF ReadPending
    <3>4. CallersTypeOK'
      BY <3>2, <3>3, MoveType
    <3> QED BY <1>0, <1>4, <3>4, QuietType DEF ReadPending
  <2> QED BY <2>1, <2>2
<1>5. CASE ReturnCached(p)
  <2>1. CASE Raise(p)
    BY <1>0, <1>5, <2>1, RaiseType, QuietType DEF ReturnCached
  <2>2. CASE ~Raise(p)
    <3> DEFINE j == [job[p] EXCEPT !.tx = ledger[r].tx]
    <3>1. ledger[r].tx \in TxIds
      BY <1>0, <1>3, <1>5, <2>2 DEF ReturnCached, Recorded
    <3>2. j \in Jobs /\ LocalsAssigned("done", j)
      BY <1>0, <3>1 DEF Jobs, LocalsAssigned, ScanSteps, EntrySteps, DeliverSteps
    <3>3. job' = [job EXCEPT ![p] = j] /\ Goto(p, "done")
      BY <1>5, <2>2 DEF ReturnCached
    <3>4. CallersTypeOK'
      BY <1>1, <3>2, <3>3, MoveType
    <3> QED BY <1>0, <1>5, <3>4, QuietType DEF ReturnCached
  <2> QED BY <2>1, <2>2
<1>6. CASE Verify(p)
  <2>1. CallersTypeOK'
    BY <1>1, <1>2, <1>6, KeepType DEF Verify, EntrySteps, DeliverSteps
  <2> QED BY <1>0, <1>6, <2>1, QuietType DEF Verify
<1>7. CASE CheckRow(p)
  <2>1. CallersTypeOK'
    BY <1>1, <1>2, <1>7, KeepType, RaiseType DEF CheckRow, EntrySteps, DeliverSteps
  <2> QED BY <1>0, <1>7, <2>1, QuietType DEF CheckRow
<1>8. CASE CheckEvidence(p)
  <2>1. CallersTypeOK'
    BY <1>1, <1>2, <1>8, KeepType, RaiseType DEF CheckEvidence, EntrySteps, DeliverSteps
  <2> QED BY <1>0, <1>8, <2>1, QuietType DEF CheckEvidence
<1>9. CASE CheckRecovery(p)
  <2>1. CallersTypeOK'
    BY <1>1, <1>2, <1>9, KeepType, RaiseType DEF CheckRecovery, EntrySteps, DeliverSteps
  <2> QED BY <1>0, <1>9, <2>1, QuietType DEF CheckRecovery
<1>10. CASE HistoricalCommit(p)
  <2>1. CASE Raise(p)
    BY <1>0, <1>10, <2>1, RaiseType, QuietType DEF HistoricalCommit
  <2>2. CASE ~Raise(p)
    <3> DEFINE j == [job[p] EXCEPT !.tx = ledger[r].tx]
    <3>1. ledger[r].tx \in TxIds
      BY <1>0, <1>3, <1>10, <2>2 DEF HistoricalCommit, Recorded
    <3>2. j \in Jobs /\ LocalsAssigned("finish", j)
      BY <1>0, <1>10, <3>1 DEF Jobs, LocalsAssigned, ScanSteps, EntrySteps, DeliverSteps, HistoricalCommit
    <3>3. job' = [job EXCEPT ![p] = j] /\ Goto(p, "finish")
      BY <1>10, <2>2 DEF HistoricalCommit
    <3>4. CallersTypeOK'
      BY <1>1, <3>2, <3>3, MoveType
    <3> QED BY <1>0, <1>10, <3>4, QuietType DEF HistoricalCommit
  <2> QED BY <2>1, <2>2
<1> QED BY <1>4, <1>5, <1>6, <1>7, <1>8, <1>9, <1>10

\* The ledger and back: submit, endorse, wait, finalize, return.
LEMMA CommitStepType ==
  ASSUME TypeInv, NEW p \in Callers,
         Submit(p) \/ Endorse(p) \/ AwaitCommit(p) \/ Finalize(p) \/ Return(p)
  PROVE  TypeInv'
<1> DEFINE r == job[p].rid  e == job[p].entry
<1>0. /\ faults \in 0 .. MaxFaults /\ r \in Records
      /\ LocalsAssigned(pc[p], job[p]) /\ job[p] \in Jobs
  BY LocalsOf DEF Submit, Endorse, AwaitCommit, Finalize, Return
<1>1. {"endorse", "await", "finish", "done"} \subseteq Steps
  BY DEF Steps, DeliverSteps
<1>2. \A q \in Records : ledger[q] # None => ledger[q].tx \in TxIds
  BY DEF TypeInv, TypeOK, LedgerEntries
<1>3. CASE Submit(p)
  <2>0. pc[p] \in EntrySteps
    BY <1>3 DEF Submit, EntrySteps, DeliverSteps
  <2>1. CASE Recorded(p) /\ job' = [job EXCEPT ![p].tx = ledger[r].tx] /\ Goto(p, "finish")
    <3> DEFINE j == [job[p] EXCEPT !.tx = ledger[r].tx]
    <3>1. ledger[r].tx \in TxIds
      BY <1>0, <1>2, <2>1 DEF Recorded
    <3>2. j \in Jobs /\ LocalsAssigned("finish", j)
      BY <1>0, <2>0, <3>1 DEF Jobs, LocalsAssigned, ScanSteps
    <3>3. job' = [job EXCEPT ![p] = j]
      BY <2>1
    <3>4. CallersTypeOK'
      BY <1>1, <2>1, <3>2, <3>3, MoveType
    <3> QED BY <1>0, <1>3, <3>4, QuietType DEF Submit
  <2>2. CASE Raise(p) \/ Keep(p, "endorse")
    <3>1. LocalsAssigned("endorse", job[p])
      BY <1>0, <2>0 DEF LocalsAssigned, ScanSteps
    <3>2. CallersTypeOK'
      BY <1>1, <1>3, <2>2, <3>1, RaiseType, KeepType DEF Submit
    <3> QED BY <1>0, <1>3, <3>2, QuietType DEF Submit
  <2> QED BY <1>3, <2>1, <2>2 DEF Submit
<1>4. CASE Endorse(p)
  <2>0. e \in OutboxRows /\ e.payload \in Payloads /\ pc[p] \in EntrySteps
    BY <1>0, <1>4 DEF Endorse, EntrySteps, DeliverSteps, LocalsAssigned, ScanSteps, OutboxRows
  <2>1. ASSUME NEW tx \in TxIds,
               inflight' = inflight \cup {[record |-> r, payload |-> e.payload, tx |-> tx]},
               job' = [job EXCEPT ![p].tx = tx], Goto(p, "await")
        PROVE  TypeInv'
    <3> DEFINE j == [job[p] EXCEPT !.tx = tx]
    <3>1. j \in Jobs /\ LocalsAssigned("await", j)
      BY <1>0, <2>0 DEF Jobs, LocalsAssigned, ScanSteps
    <3>2. job' = [job EXCEPT ![p] = j]
      BY <2>1
    <3>3. CallersTypeOK'
      BY <1>1, <2>1, <3>1, <3>2, MoveType
    <3>4. inflight' \subseteq Transactions
      BY <1>0, <2>0, <2>1 DEF Transactions, TypeInv, TypeOK
    <3> QED BY <1>4, <3>3, <3>4, StoreKept DEF Endorse, TypeInv, TypeOK, fileVars, trustVars
  <2>2. CASE Raise(p) /\ UNCHANGED inflight
    BY <1>0, <1>4, <2>2, RaiseType, QuietType DEF Endorse, ledgerVars
  <2> QED BY <1>4, <2>1, <2>2 DEF Endorse
<1>5. CASE AwaitCommit(p)
  <2>1. CASE Recorded(p) /\ ledger[r].tx = job[p].tx /\ Keep(p, "finish")
    <3>1. job[p].tx \in TxIds
      BY <1>0, <1>2, <2>1 DEF Recorded
    <3>2. LocalsAssigned("finish", job[p])
      BY <1>0, <1>5, <3>1 DEF LocalsAssigned, ScanSteps, AwaitCommit, EntrySteps, DeliverSteps
    <3>3. CallersTypeOK'
      BY <1>1, <2>1, <3>2, KeepType
    <3> QED BY <1>0, <1>5, <3>3, QuietType DEF AwaitCommit
  <2>2. CASE Raise(p)
    BY <1>0, <1>5, <2>2, RaiseType, QuietType DEF AwaitCommit
  <2> QED BY <1>5, <2>1, <2>2 DEF AwaitCommit
<1>6. CASE Finalize(p)
  <2>1. LocalsAssigned("done", job[p])
    BY <1>0 DEF LocalsAssigned, ScanSteps, EntrySteps, DeliverSteps
  <2>2. CallersTypeOK'
    BY <1>1, <1>6, <2>1, KeepType, RaiseType DEF Finalize
  <2>3. e \in OutboxRows /\ e.snapshot \in Nat /\ e.payload \in Payloads /\ job[p].tx \in TxIds
    BY <1>0, <1>6 DEF Finalize, LocalsAssigned, ScanSteps, OutboxRows, EntrySteps, DeliverSteps
  <2>4. StoreTypeOK' /\ OutboxInStep'
    <3>1. CASE Finish(r, e.snapshot, job[p].tx, e.payload)
      <4>1. outbox[r] # None
        BY <1>0, <3>1 DEF Finish, FinishAllowed, TypeInv, OutboxInStep
      <4> QED BY <1>0, <2>3, <3>1, <4>1, FinishType, FinishInStep DEF TypeInv, TypeOK
    <3>2. CASE UNCHANGED storeVars
      BY <3>2, StoreKept DEF TypeInv, TypeOK
    <3> QED BY <1>6, <3>1, <3>2 DEF Finalize
  <2> QED BY <1>0, <1>6, <2>2, <2>4, StoreStepType DEF Finalize
<1>7. CASE Return(p)
  <2>1. "CONSISTENT" \in Statuses
    BY DEF Statuses
  <2>2. CallersTypeOK'
    BY <1>7, <2>1, EndType, ReportType DEF Return
  <2> QED BY <1>0, <1>7, <2>2, QuietType DEF Return
<1> QED BY <1>3, <1>4, <1>5, <1>6, <1>7

\* One row of a reconciliation scan.
LEMMA ScanStepType ==
  ASSUME TypeInv, NEW p \in Callers, ScanLedger(p) \/ Compare(p) \/ Reported(p)
  PROVE  TypeInv'
<1> DEFINE r == job[p].rid
<1>0. /\ faults \in 0 .. MaxFaults /\ r \in Records
      /\ LocalsAssigned(pc[p], job[p]) /\ job[p] \in Jobs
  BY LocalsOf DEF ScanLedger, Compare, Reported
<1>1. {"compare", "pending"} \subseteq Steps
  BY DEF Steps, DeliverSteps, ScanSteps
<1>2. CASE ScanLedger(p)
  <2>0. pc[p] \in EntrySteps /\ pc[p] \in ScanSteps
    BY <1>2 DEF ScanLedger, EntrySteps, ScanSteps
  <2>1. CASE Recorded(p) /\ job' = [job EXCEPT ![p].tx = ledger[r].tx] /\ Goto(p, "compare")
    <3> DEFINE j == [job[p] EXCEPT !.tx = ledger[r].tx]
    <3>1. ledger[r].tx \in TxIds
      BY <1>0, <2>1 DEF Recorded, TypeInv, TypeOK, LedgerEntries
    <3>2. j \in Jobs /\ LocalsAssigned("compare", j)
      BY <1>0, <2>0, <3>1 DEF Jobs, LocalsAssigned, ScanSteps
    <3>3. job' = [job EXCEPT ![p] = j]
      BY <2>1
    <3>4. CallersTypeOK'
      BY <1>1, <2>1, <3>2, <3>3, MoveType
    <3> QED BY <1>0, <1>2, <3>4, QuietType DEF ScanLedger
  <2>2. CASE Raise(p) \/ Keep(p, "compare")
    <3>1. LocalsAssigned("compare", job[p])
      BY <1>0, <2>0 DEF LocalsAssigned, ScanSteps
    <3>2. CallersTypeOK'
      BY <1>1, <1>2, <2>2, <3>1, RaiseType, KeepType DEF ScanLedger
    <3> QED BY <1>0, <1>2, <3>2, QuietType DEF ScanLedger
  <2> QED BY <1>2, <2>1, <2>2 DEF ScanLedger
<1>3. CASE Compare(p)
  <2>0. job[p].mode # "call"
    BY <1>0, <1>3 DEF Compare, LocalsAssigned, ScanSteps
  <2>1. ASSUME NEW s \in Statuses, Report(p, s)
        PROVE  TypeInv'
    <3>1. CallersTypeOK'
      BY <1>3, <2>0, <2>1, ReportType DEF Compare
    <3> QED BY <1>0, <1>3, <3>1, QuietType DEF Compare
  <2>2. CASE job' = [job EXCEPT ![p].entry = None, ![p].tx = None] /\ Goto(p, "pending")
    <3> DEFINE j == [job[p] EXCEPT !.entry = None, !.tx = None]
    <3>1. j \in Jobs /\ LocalsAssigned("pending", j)
      BY <1>0 DEF Jobs, LocalsAssigned, ScanSteps, EntrySteps, DeliverSteps
    <3>2. job' = [job EXCEPT ![p] = j]
      BY <2>2
    <3>3. CallersTypeOK'
      BY <1>1, <2>2, <3>1, <3>2, MoveType
    <3> QED BY <1>0, <1>3, <3>3, QuietType DEF Compare
  <2> QED BY <1>3, <2>1, <2>2 DEF Compare, PendingStatus, Statuses
<1>4. CASE Reported(p)
  BY <1>0, <1>4, EndType, QuietType DEF Reported
<1> QED BY <1>2, <1>3, <1>4

LEMMA StruckType ==
  ASSUME TypeInv, NEW p \in Callers, Struck(p)
  PROVE  TypeInv'
<1> DEFINE r == job[p].rid  d == job[p].doc
<1>0. LocalsAssigned(pc[p], job[p]) /\ (pc[p] # "idle" => r \in Records)
  BY LocalsOf
<1>1. faults' \in 0 .. MaxFaults
  BY FaultType DEF Struck, InsertUnacknowledged, WorkFails, LedgerUnreachable,
                   FinishUnanswered, StoreUnreachable, Crash
<1>2. CASE InsertUnacknowledged(p)
  <2>1. LocalsAssigned("unlink", job[p]) /\ "unlink" \in Steps
    BY <1>0, <1>2 DEF LocalsAssigned, ScanSteps, InsertUnacknowledged, EntrySteps, DeliverSteps, Steps, WorkerSteps
  <2>2. CallersTypeOK'
    BY <1>2, <2>1, KeepType DEF InsertUnacknowledged
  <2>3. r \in Records /\ d \in Documents /\ p \in Ciphers
    BY <1>0, <1>2, PipelineAssumption DEF LocalsAssigned, ScanSteps, InsertUnacknowledged
  <2>4. StoreTypeOK' /\ OutboxInStep'
    BY <1>2, <2>3, IngestType, IngestInStep DEF InsertUnacknowledged, TypeInv, TypeOK
  <2> QED BY <1>1, <1>2, <2>2, <2>4, StoreStepType DEF InsertUnacknowledged
<1>3. CASE WorkFails(p)
  <2>1. LocalsAssigned("fail", job[p]) /\ "fail" \in Steps
    BY <1>0, <1>3 DEF LocalsAssigned, ScanSteps, WorkFails, EntrySteps, DeliverSteps, Steps, WorkerSteps
  <2>2. CallersTypeOK'
    BY <1>3, <2>1, KeepType DEF WorkFails
  <2> QED BY <1>1, <1>3, <2>2, QuietType DEF WorkFails
<1>4. CASE LedgerUnreachable(p)
  BY <1>1, <1>4, RaiseType, QuietType DEF LedgerUnreachable
<1>5. CASE Crash(p)
  BY <1>1, <1>5, EndType, QuietType DEF Crash
<1>6. CASE FinishUnanswered(p)
  <2> DEFINE e == job[p].entry
  <2>1. CallersTypeOK'
    BY <1>6, RaiseType DEF FinishUnanswered
  <2>2. /\ e \in OutboxRows /\ e.snapshot \in Nat /\ e.payload \in Payloads
        /\ job[p].tx \in TxIds /\ r \in Records
    BY <1>0, <1>6 DEF FinishUnanswered, LocalsAssigned, ScanSteps, OutboxRows, EntrySteps, DeliverSteps
  <2>3. Finish(r, e.snapshot, job[p].tx, e.payload)
    BY <1>6 DEF FinishUnanswered
  <2>4. outbox[r] # None
    BY <2>2, <2>3 DEF Finish, FinishAllowed, TypeInv, OutboxInStep
  <2>5. StoreTypeOK' /\ OutboxInStep'
    BY <2>2, <2>3, <2>4, FinishType, FinishInStep DEF TypeInv, TypeOK
  <2> QED BY <1>1, <1>6, <2>1, <2>5, StoreStepType DEF FinishUnanswered
<1>7. CASE StoreUnreachable(p)
  <2>1. /\ LocalsAssigned("unlink", job[p]) /\ "unlink" \in Steps
        /\ LocalsAssigned("fail", job[p]) /\ "fail" \in Steps
    BY <1>0, <1>7 DEF LocalsAssigned, ScanSteps, StoreUnreachable, EntrySteps, DeliverSteps,
                      Steps, WorkerSteps
  <2>2. CallersTypeOK'
    BY <1>7, <2>1, KeepType, RaiseType DEF StoreUnreachable
  <2> QED BY <1>1, <1>7, <2>2, QuietType DEF StoreUnreachable
<1> QED BY <1>2, <1>3, <1>4, <1>5, <1>6, <1>7 DEF Struck

LEMMA EnvironmentType ==
  ASSUME TypeInv,
         \/ \E e \in inflight : Order(e)
         \/ RecoverLeases \/ ChangePolicy \/ RevokeKey \/ Tick
  PROVE  TypeInv'
<1>0. faults \in 0 .. MaxFaults /\ CallersTypeOK
  BY DEF TypeInv, TypeOK
<1>1. ASSUME NEW e \in inflight, Order(e)
      PROVE  TypeInv'
  <2>1. e.record \in Records /\ [payload |-> e.payload, tx |-> e.tx] \in LedgerEntries
    BY DEF TypeInv, TypeOK, Transactions, LedgerEntries
  <2>2. ledger' \in [Records -> LedgerEntries \cup {None}] /\ inflight' \subseteq Transactions
    BY <1>1, <2>1 DEF Order, TypeInv, TypeOK
  <2>3. CallersTypeOK'
    BY <1>0, <1>1 DEF Order, CallersTypeOK
  <2> QED BY <1>1, <2>2, <2>3, StoreKept DEF Order, TypeInv, TypeOK, fileVars, trustVars
<1>2. CASE RecoverLeases
  <2>1. StoreTypeOK' /\ OutboxInStep'
    BY <1>2, RecoverType, RecoverInStep DEF RecoverLeases, TypeInv, TypeOK
  <2>2. CallersTypeOK' /\ faults' \in 0 .. MaxFaults
    BY <1>0, <1>2 DEF RecoverLeases, CallersTypeOK
  <2> QED BY <1>2, <2>1, <2>2, StoreStepType DEF RecoverLeases
<1>3. CASE ChangePolicy
  <2>1. CallersTypeOK' /\ faults' \in 0 .. MaxFaults
    BY <1>0, <1>3, FaultType DEF ChangePolicy, CallersTypeOK
  <2> QED BY <1>3, <2>1, StoreKept DEF ChangePolicy, TypeInv, TypeOK, fileVars, ledgerVars
<1>4. CASE RevokeKey
  <2>1. CallersTypeOK' /\ faults' \in 0 .. MaxFaults
    BY <1>0, <1>4, FaultType DEF RevokeKey, CallersTypeOK
  <2> QED BY <1>4, <2>1, StoreKept DEF RevokeKey, TypeInv, TypeOK, fileVars, ledgerVars
<1>5. CASE Tick
  <2>1. StoreTypeOK' /\ OutboxInStep'
    BY <1>5 DEF Tick, TypeInv, TypeOK, StoreTypeOK, OutboxInStep
  <2>2. CallersTypeOK' /\ faults' \in 0 .. MaxFaults
    BY <1>0, <1>5 DEF Tick, CallersTypeOK
  <2> QED BY <1>5, <2>1, <2>2, StoreStepType DEF Tick
<1> QED BY <1>1, <1>2, <1>3, <1>4, <1>5

----------------------------------------------------------------------------
LEMMA TypeInvInit == Init => TypeInv
<1> SUFFICES ASSUME Init PROVE TypeInv
  OBVIOUS
<1>1. StoreTypeOK /\ OutboxInStep
  BY StoreInitType, StoreInitInStep DEF Init
<1>2. NoJob \in Jobs /\ LocalsAssigned("idle", NoJob) /\ "idle" \in Steps
  BY DEF NoJob, Jobs, Modes, LocalsAssigned, ScanSteps, Steps, EntrySteps, DeliverSteps
<1>3. CallersTypeOK
  BY <1>2 DEF Init, CallersTypeOK
<1> QED BY <1>1, <1>3, PipelineAssumption DEF Init, TypeInv, TypeOK

LEMMA TypeInvStep == TypeInv /\ [Next]_vars => TypeInv'
<1> SUFFICES ASSUME TypeInv, [Next]_vars PROVE TypeInv'
  OBVIOUS
<1>1. ASSUME NEW p \in Callers, Step(p) PROVE TypeInv'
  BY <1>1, IngestStepType, WorkerStepType, CheckStepType, CommitStepType, ScanStepType DEF Step
<1>2. ASSUME NEW p \in Callers, Struck(p) \/ Called(p) PROVE TypeInv'
  BY <1>2, StruckType, CalledType
<1>3. CASE UNCHANGED vars
  <2>1. CallersTypeOK' /\ faults' \in 0 .. MaxFaults
    BY <1>3 DEF vars, TypeInv, TypeOK, CallersTypeOK
  <2> QED BY <1>3, <2>1, QuietType DEF vars
<1> QED BY <1>1, <1>2, <1>3, EnvironmentType DEF Next

\* Tables, files, ledger and every caller's locals keep their declared shape,
\* and no step of deliver or process uses a local that was not assigned.
THEOREM PipelineTypeCorrect == Spec => []TypeOK
<1>1. TypeInv => TypeOK
  BY DEF TypeInv
<1> QED BY <1>1, TypeInvInit, TypeInvStep, PTL DEF Spec

\* The outbox row and the submission row agree at every moment of the protocol,
\* whatever crashes, lost answers and lease recoveries come between its steps.
THEOREM PipelineOutboxInStep == Spec => []OutboxInStep
<1>1. TypeInv => OutboxInStep
  BY DEF TypeInv
<1> QED BY <1>1, TypeInvInit, TypeInvStep, PTL DEF Spec

----------------------------------------------------------------------------
(* The commit protocol. *)

TablesKept == UNCHANGED <<state, version, document, cipher, outbox>>

\* What a step does to the tables.
StoreMoves ==
  \/ TablesKept
  \/ \E r \in Records, d \in Documents, c \in Ciphers : Ingest(r, d, c)
  \/ \E r \in Records : Claim(r)
  \/ \E p \in Callers : /\ pc[p] = "prepare"
                        /\ Prepare(job[p].rid, job[p].claimed, job[p].receipt)
  \/ \E r \in Records, v \in Nat : FailProcessing(r, v)
  \/ \E p \in Callers : /\ pc[p] = "finish"
                        /\ Finish(job[p].rid, job[p].entry.snapshot, job[p].tx, job[p].entry.payload)
  \/ RecoverExpired

\* A step is a step of the tables or of the ledger, never of both.
StepKinds ==
  \/ StoreMoves /\ UNCHANGED ledgerVars
  \/ TablesKept /\ \E p \in Callers : Endorse(p)
  \/ TablesKept /\ \E e \in inflight : Order(e)

\* Shared state only moves forward: rows, receipts, records and SBOM files
\* that exist stay what they are.
Forward ==
  \A r \in Records :
    /\ outbox[r] # None =>
         /\ outbox'[r] # None
         /\ outbox'[r].payload = outbox[r].payload /\ outbox'[r].snapshot = outbox[r].snapshot
         /\ outbox[r].status = "CONFIRMED" => outbox'[r] = outbox[r]
    /\ ledger[r] # None => ledger'[r] = ledger[r]
    /\ Exists(r) => Exists(r)' /\ document'[r] = document[r] /\ cipher'[r] = cipher[r]
    /\ state[r] = "COMMITTED" => state'[r] = "COMMITTED"
    /\ sboms[r] # 0 => sboms'[r] = sboms[r]

LEMMA QuietSteps ==
  ASSUME NEW p \in Callers,
         \/ Lookup(p) \/ WriteBlob(p) \/ Unlink(p) \/ ReadState(p) \/ Work(p) \/ WriteSbom(p)
         \/ Sign(p) \/ ReadPending(p) \/ ReturnCached(p) \/ Verify(p) \/ CheckRow(p)
         \/ CheckEvidence(p) \/ CheckRecovery(p) \/ HistoricalCommit(p) \/ Submit(p)
         \/ AwaitCommit(p) \/ Return(p) \/ ScanLedger(p) \/ Compare(p) \/ Reported(p)
         \/ WorkFails(p) \/ LedgerUnreachable(p) \/ StoreUnreachable(p) \/ Crash(p) \/ Called(p)
  PROVE  UNCHANGED <<storeVars, ledgerVars>>
BY DEF Lookup, WriteBlob, Unlink, ReadState, Work, WriteSbom, Sign, ReadPending, ReturnCached,
       Verify, CheckRow, CheckEvidence, CheckRecovery, HistoricalCommit, Submit, AwaitCommit,
       Return, ScanLedger, Compare, Reported, WorkFails, LedgerUnreachable, StoreUnreachable, Crash,
       Called, StartRun, StartDeliver, StartScan

LEMMA Kinds == ASSUME TypeInv, [Next]_vars PROVE StepKinds
<1>1. ASSUME UNCHANGED <<storeVars, ledgerVars>> PROVE StepKinds
  BY <1>1 DEF StepKinds, StoreMoves, TablesKept, storeVars
<1>2. ASSUME NEW p \in Callers, Step(p) \/ Struck(p) \/ Called(p)
      PROVE  StepKinds
  <2> DEFINE r == job[p].rid
  <2>0. /\ job[p] \in Jobs /\ job[p].claimed \in Nat
        /\ LocalsAssigned(pc[p], job[p]) /\ (pc[p] # "idle" => r \in Records)
    BY LocalsOf DEF Jobs
  <2>1. CASE Insert(p) \/ InsertUnacknowledged(p)
    <3>1. r \in Records /\ job[p].doc \in Documents /\ p \in Ciphers
      BY <2>0, <2>1, PipelineAssumption DEF Insert, InsertUnacknowledged, LocalsAssigned, ScanSteps
    <3>2. CASE Ingest(r, job[p].doc, p)
      BY <2>1, <3>1, <3>2 DEF StepKinds, StoreMoves, Insert, InsertUnacknowledged
    <3> QED BY <1>1, <2>1, <3>2 DEF Insert, InsertUnacknowledged
  <2>2. CASE TakeClaim(p)
    BY <1>1, <2>0, <2>2 DEF StepKinds, StoreMoves, TakeClaim
  <2>3. CASE StoreReceipt(p)
    BY <1>1, <2>0, <2>3 DEF StepKinds, StoreMoves, StoreReceipt
  <2>4. CASE Fail(p)
    BY <1>1, <2>0, <2>4 DEF StepKinds, StoreMoves, Fail
  <2>5. CASE Endorse(p)
    BY <2>5 DEF StepKinds, TablesKept, Endorse, storeVars
  <2>6. CASE Finalize(p) \/ FinishUnanswered(p)
    BY <1>1, <2>6 DEF StepKinds, StoreMoves, Finalize, FinishUnanswered
  <2> QED BY <1>1, <1>2, <2>1, <2>2, <2>3, <2>4, <2>5, <2>6, QuietSteps DEF Step, Struck
<1>3. ASSUME NEW e \in inflight, Order(e) PROVE StepKinds
  BY <1>3 DEF StepKinds, TablesKept, Order, storeVars
<1>4. CASE RecoverLeases
  BY <1>4 DEF StepKinds, StoreMoves, RecoverLeases
<1>5. CASE ChangePolicy \/ RevokeKey \/ Tick \/ UNCHANGED vars
  BY <1>5 DEF StepKinds, StoreMoves, TablesKept, ChangePolicy, RevokeKey, Tick, vars, storeVars
<1> QED BY <1>2, <1>3, <1>4, <1>5 DEF Next

LEMMA SbomKept ==
  ASSUME TypeInv, [Next]_vars
  PROVE  \A r \in Records : sboms[r] # 0 => sboms'[r] = sboms[r]
<1>1. ASSUME NEW p \in Callers, WriteSbom(p) PROVE \A r \in Records : sboms[r] # 0 => sboms'[r] = sboms[r]
  BY <1>1 DEF WriteSbom, TypeInv, TypeOK
<1>2. ASSUME NEW p \in Callers, Step(p) \/ Struck(p) \/ Called(p), ~WriteSbom(p) PROVE sboms' = sboms
  BY <1>2 DEF Step, Struck, Called, fileVars,
       Lookup, WriteBlob, Insert, Unlink, ReadState, TakeClaim, Work, Sign, StoreReceipt, Fail,
       ReadPending, ReturnCached, Verify, CheckRow, CheckEvidence, CheckRecovery,
       HistoricalCommit, Submit, Endorse, AwaitCommit, Finalize, Return, ScanLedger, Compare,
       Reported, InsertUnacknowledged, WorkFails, LedgerUnreachable, FinishUnanswered,
       StoreUnreachable, Crash, StartRun, StartDeliver, StartScan
<1>3. CASE \/ \E e \in inflight : Order(e)
           \/ RecoverLeases \/ ChangePolicy \/ RevokeKey \/ Tick \/ UNCHANGED vars
  BY <1>3 DEF Order, RecoverLeases, ChangePolicy, RevokeKey, Tick, vars, fileVars
<1> QED BY <1>1, <1>2, <1>3 DEF Next

LEMMA StoreForward ==
  ASSUME TypeInv, StoreMoves
  PROVE  \A r \in Records :
           /\ outbox[r] # None =>
                /\ outbox'[r] # None
                /\ outbox'[r].payload = outbox[r].payload /\ outbox'[r].snapshot = outbox[r].snapshot
                /\ outbox[r].status = "CONFIRMED" => outbox'[r] = outbox[r]
           /\ Exists(r) => Exists(r)' /\ document'[r] = document[r] /\ cipher'[r] = cipher[r]
           /\ state[r] = "COMMITTED" => state'[r] = "COMMITTED"
<1>0. StoreTypeOK /\ OutboxInStep
  BY DEF TypeInv, TypeOK
<1>1. CASE TablesKept
  BY <1>1 DEF TablesKept, Exists
<1>2. ASSUME NEW q \in Records, NEW d \in Documents, NEW c \in Ciphers, Ingest(q, d, c)
      PROVE  outbox' = outbox /\ \A r \in Records : Exists(r) => UNCHANGED <<state[r], document[r], cipher[r]>>
  BY <1>0, <1>2 DEF Ingest, IngestRefused, Advance, Exists, StoreTypeOK
<1>3. ASSUME NEW q \in Records, Claim(q)
      PROVE  /\ outbox' = outbox /\ document' = document /\ cipher' = cipher
             /\ \A r \in Records : state'[r] = IF r = q THEN "PROCESSING" ELSE state[r]
             /\ state[q] = "INGESTED"
  BY <1>0, <1>3 DEF Claim, ClaimRefused, Advance, StoreTypeOK
<1>4. ASSUME NEW p \in Callers, pc[p] = "prepare",
             Prepare(job[p].rid, job[p].claimed, job[p].receipt)
      PROVE  /\ document' = document /\ cipher' = cipher
             /\ \A r \in Records : outbox[r] # None => outbox'[r] = outbox[r]
             /\ \A r \in Records : state'[r] = IF r = job[p].rid THEN "PREPARED" ELSE state[r]
             /\ state[job[p].rid] = "PROCESSING"
  <2>1. job[p].rid \in Records
    BY <1>4, LocalsOf
  <2> QED BY <1>0, <1>4, <2>1 DEF Prepare, HoldsClaim, Advance, StoreTypeOK, OutboxInStep
<1>5. ASSUME NEW q \in Records, NEW v \in Nat, FailProcessing(q, v)
      PROVE  /\ outbox' = outbox /\ document' = document /\ cipher' = cipher
             /\ \A r \in Records : state'[r] = IF r = q THEN "FAILED" ELSE state[r]
             /\ state[q] = "PROCESSING"
  BY <1>0, <1>5 DEF FailProcessing, HoldsClaim, Advance, StoreTypeOK
<1>6. ASSUME NEW p \in Callers, pc[p] = "finish",
             Finish(job[p].rid, job[p].entry.snapshot, job[p].tx, job[p].entry.payload)
      PROVE  /\ document' = document /\ cipher' = cipher
             /\ \A r \in Records : outbox[r] # None =>
                  /\ outbox'[r] # None
                  /\ outbox'[r].payload = outbox[r].payload /\ outbox'[r].snapshot = outbox[r].snapshot
                  /\ outbox[r].status = "CONFIRMED" => outbox'[r] = outbox[r]
             /\ \A r \in Records : state'[r] = IF r = job[p].rid THEN "COMMITTED" ELSE state[r]
  <2> DEFINE q == job[p].rid
             new == [outbox[q] EXCEPT !.status = "CONFIRMED", !.tx = job[p].tx]
  <2>1. q \in Records /\ job[p].tx \in TxIds
    BY <1>6, LocalsOf DEF LocalsAssigned, ScanSteps
  <2>2. state[q] = "PREPARED" /\ outbox[q] \in OutboxRows /\ outbox[q].status = "PENDING"
    BY <1>0, <1>6, <2>1 DEF Finish, FinishAllowed, OutboxInStep, StoreTypeOK
  <2>3. /\ new \in OutboxRows /\ new # None
        /\ new.payload = outbox[q].payload /\ new.snapshot = outbox[q].snapshot
    BY <2>1, <2>2, NoRowAssumption DEF OutboxRows
  <2>4. outbox'[q] = new /\ \A r \in Records \ {q} : outbox'[r] = outbox[r]
    BY <1>0, <1>6, <2>1 DEF Finish, StoreTypeOK
  <2> HIDE DEF new
  <2>5. \A r \in Records : state'[r] = IF r = q THEN "COMMITTED" ELSE state[r]
    BY <1>0, <1>6, <2>1 DEF Finish, Advance, StoreTypeOK
  <2>6. document' = document /\ cipher' = cipher
    BY <1>6 DEF Finish
  <2> QED BY <2>2, <2>3, <2>4, <2>5, <2>6
<1>7. CASE RecoverExpired
  BY <1>0, <1>7 DEF RecoverExpired, Expired, Exists
<1> QED BY <1>1, <1>2, <1>3, <1>4, <1>5, <1>6, <1>7 DEF StoreMoves, Exists

LEMMA ForwardStep == ASSUME TypeInv, [Next]_vars PROVE Forward
<1>1. StepKinds
  BY Kinds
<1>2. StoreMoves
  BY <1>1 DEF StepKinds, StoreMoves
<1>3. \A r \in Records : ledger[r] # None => ledger'[r] = ledger[r]
  <2>1. ASSUME NEW e \in inflight, Order(e)
        PROVE  \A r \in Records : ledger[r] # None => ledger'[r] = ledger[r]
    BY <2>1 DEF Order, TypeInv, TypeOK
  <2> QED BY <1>1, <2>1 DEF StepKinds, Endorse, ledgerVars
<1> QED BY <1>2, <1>3, SbomKept, StoreForward DEF Forward

----------------------------------------------------------------------------
(* Callers: what each of them holds survives its own steps and the others'. *)

Holds(p) == HoldsEntry(p) /\ HoldsAck(p) /\ HoldsDocument(p)

\* The steps at which a caller works on no row of its own document.
LooseSteps == {"idle", "lookup", "write", "insert", "unlink", "report"}

\* A caller's step leaves the other callers where they are.
LEMMA OneMoves ==
  ASSUME TypeInv, NEW p \in Callers, Step(p) \/ Struck(p) \/ Called(p)
  PROVE  \A q \in Callers \ {p} : pc'[q] = pc[q] /\ job'[q] = job[q]
<1>0. pc \in [Callers -> Steps] /\ job \in [Callers -> Jobs]
  BY DEF TypeInv, TypeOK, CallersTypeOK
<1> USE <1>0 DEF Keep, End, Goto, Raise, Report
<1>1. CASE \/ Lookup(p) \/ WriteBlob(p) \/ Insert(p) \/ Unlink(p) \/ ReadState(p) \/ TakeClaim(p)
           \/ Work(p) \/ WriteSbom(p) \/ Sign(p)
  BY <1>1 DEF Lookup, WriteBlob, Insert, Unlink, ReadState, TakeClaim, Work, WriteSbom, Sign
<1>2. CASE \/ StoreReceipt(p) \/ Fail(p) \/ ReadPending(p) \/ ReturnCached(p) \/ Verify(p)
           \/ CheckRow(p) \/ CheckEvidence(p) \/ CheckRecovery(p) \/ HistoricalCommit(p)
  BY <1>2 DEF StoreReceipt, Fail, ReadPending, ReturnCached, Verify, CheckRow, CheckEvidence,
              CheckRecovery, HistoricalCommit
<1>3. CASE \/ Submit(p) \/ Endorse(p) \/ AwaitCommit(p) \/ Finalize(p) \/ Return(p)
           \/ ScanLedger(p) \/ Compare(p) \/ Reported(p)
  BY <1>3 DEF Submit, Endorse, AwaitCommit, Finalize, Return, ScanLedger, Compare, Reported
<1>4. CASE Struck(p) \/ Called(p)
  BY <1>4 DEF Struck, Called, InsertUnacknowledged, WorkFails, LedgerUnreachable,
              FinishUnanswered, StoreUnreachable, Crash, StartRun, StartDeliver, StartScan
<1> QED BY <1>1, <1>2, <1>3, <1>4 DEF Step

\* What a caller holds stays true while it does nothing.
LEMMA Bystander ==
  ASSUME TypeInv, Forward, NEW q \in Callers, Holds(q), pc'[q] = pc[q], job'[q] = job[q]
  PROVE  Holds(q)'
<1>1. pc[q] # "idle" => job[q].rid \in Records
  BY LocalsOf
<1>2. HoldsEntry(q)'
  BY <1>1 DEF Holds, HoldsEntry, Forward, EntrySteps, DeliverSteps
<1>3. HoldsAck(q)'
  BY <1>1 DEF Holds, HoldsAck, Forward
<1>4. HoldsDocument(q)'
  BY <1>1 DEF Holds, HoldsDocument, Forward, Exists
<1> QED BY <1>2, <1>3, <1>4 DEF Holds

\* A caller that goes on with the same request keeps what it holds.
LEMMA ActorHolds ==
  ASSUME TypeInv, Forward, NEW p \in Callers, Holds(p), NEW l, pc[p] # "idle",
         pc'[p] = l, job'[p].rid = job[p].rid, job'[p].doc = job[p].doc,
         l \in EntrySteps => pc[p] \in EntrySteps /\ job'[p].entry = job[p].entry,
         l \notin LooseSteps => pc[p] \notin LooseSteps,
         l \in {"finish", "done"} =>
           ledger'[job[p].rid] # None /\ ledger'[job[p].rid].tx = job'[p].tx,
         l = "done" => state'[job[p].rid] = "COMMITTED",
         l \notin {"compare", "report"}
  PROVE  Holds(p)'
<1>1. job[p].rid \in Records
  BY LocalsOf
<1>2. HoldsEntry(p)'
  BY <1>1 DEF Holds, HoldsEntry, Forward
<1>3. HoldsAck(p)'
  BY DEF HoldsAck
<1>4. HoldsDocument(p)'
  BY <1>1 DEF Holds, HoldsDocument, Forward, Exists, LooseSteps
<1> QED BY <1>2, <1>3, <1>4 DEF Holds

LEMMA IdleHolds ==
  ASSUME NEW p \in Callers, pc'[p] \in LooseSteps \ {"report"} PROVE Holds(p)'
BY DEF Holds, HoldsEntry, HoldsAck, HoldsDocument, EntrySteps, DeliverSteps, LooseSteps

LEMMA EndHolds ==
  ASSUME TypeInv, NEW p \in Callers, End(p) PROVE Holds(p)'
<1>1. pc'[p] = "idle"
  BY DEF End, Goto, TypeInv, TypeOK, CallersTypeOK
<1> QED BY <1>1, IdleHolds DEF LooseSteps

\* What a scan reports of a row: no divergence, and nothing settled that is not.
LEMMA ReportHolds ==
  ASSUME TypeInv, NEW p \in Callers, NEW s, Report(p, s), s # "DIVERGENCE",
         s = "CONSISTENT" \/ (job[p].mode = "repair" /\ ~Counted(s)) =>
           state'[job[p].rid] = "COMMITTED"
  PROVE  Holds(p)'
<1>1. /\ pc'[p] = "report" /\ job'[p].rid = job[p].rid
      /\ job'[p].mode = job[p].mode /\ job'[p].found = s
  BY DEF Report, Goto, NoJob, TypeInv, TypeOK, CallersTypeOK
<1>2. HoldsEntry(p)' /\ HoldsDocument(p)'
  BY <1>1 DEF HoldsEntry, HoldsDocument, EntrySteps, DeliverSteps
<1>3. HoldsAck(p)'
  BY <1>1 DEF HoldsAck, Counted
<1> QED BY <1>2, <1>3 DEF Holds

LEMMA RaiseHolds ==
  ASSUME TypeInv, NEW p \in Callers, Raise(p) \/ End(p) PROVE Holds(p)'
<1>1. Counted("CHECK_FAILED")
  BY DEF Counted
<1> QED BY <1>1, EndHolds, ReportHolds DEF Raise

\* Going on to l with the locals as they are.
LEMMA KeepHolds ==
  ASSUME TypeInv, Forward, NEW p \in Callers, Holds(p), NEW l, Keep(p, l), pc[p] # "idle",
         l \in EntrySteps => pc[p] \in EntrySteps,
         l \notin LooseSteps => pc[p] \notin LooseSteps,
         l \notin {"finish", "done", "compare", "report"}
  PROVE  Holds(p)'
<1>1. pc'[p] = l /\ job' = job
  BY DEF Keep, Goto, TypeInv, TypeOK, CallersTypeOK
<1> QED BY <1>1, ActorHolds

\* Ingestion and the worker.
LEMMA WorkerHolds ==
  ASSUME CommitInv, Forward, NEW p \in Callers, Holds(p),
         \/ Lookup(p) \/ WriteBlob(p) \/ Insert(p) \/ InsertUnacknowledged(p) \/ Unlink(p)
         \/ ReadState(p) \/ TakeClaim(p) \/ Work(p) \/ WorkFails(p) \/ WriteSbom(p) \/ Sign(p)
         \/ StoreReceipt(p) \/ Fail(p)
         \/ StoreUnreachable(p) /\ pc[p] \in {"insert", "prepare"}
  PROVE  Holds(p)'
<1> DEFINE r == job[p].rid  d == job[p].doc
<1>0. /\ TypeInv /\ job \in [Callers -> Jobs] /\ pc \in [Callers -> Steps] /\ job[p] \in Jobs
      /\ StoreTypeOK
  BY DEF CommitInv, TypeInv, TypeOK, CallersTypeOK
<1>1. /\ r \in Records /\ LocalsAssigned(pc[p], job[p]) /\ pc[p] # "idle"
  BY <1>0, LocalsOf DEF Lookup, WriteBlob, Insert, InsertUnacknowledged, Unlink, ReadState,
       TakeClaim, Work, WorkFails, WriteSbom, Sign, StoreReceipt, Fail, StoreUnreachable
<1>2. ASSUME NEW l \in {"claim", "pending", "work", "sbom", "sign", "prepare", "fail"},
             pc'[p] = l, job'[p].rid = r, job'[p].doc = d, pc[p] \notin LooseSteps
      PROVE  Holds(p)'
  <2>1. l \notin EntrySteps \cup LooseSteps \cup {"finish", "done", "compare", "report"}
    BY DEF EntrySteps, DeliverSteps, LooseSteps
  <2> QED BY <1>0, <1>1, <1>2, <2>1, ActorHolds DEF LooseSteps
<1>3. CASE Lookup(p)
  <2>1. CASE Exists(r) /\ document[r] = d /\ Keep(p, "read")
    <3>1. pc'[p] = "read" /\ job' = job /\ state' = state /\ document' = document
      BY <1>0, <1>3, <2>1 DEF Lookup, Keep, Goto, storeVars
    <3> QED BY <2>1, <3>1 DEF Holds, HoldsEntry, HoldsAck, HoldsDocument, EntrySteps, DeliverSteps, Exists
  <2>2. CASE Keep(p, "write")
    BY <1>0, <2>2, IdleHolds DEF Keep, Goto, LooseSteps
  <2> QED BY <1>0, <1>3, <2>1, <2>2, EndHolds DEF Lookup
<1>4. CASE WriteBlob(p) \/ InsertUnacknowledged(p) \/ Unlink(p)
  BY <1>0, <1>4, IdleHolds, EndHolds
     DEF WriteBlob, InsertUnacknowledged, Unlink, Keep, Goto, LooseSteps
<1>5. CASE Insert(p)
  <2>1. CASE Ingest(r, d, p) /\ Keep(p, "read")
    <3>1. /\ pc'[p] = "read" /\ job' = job
          /\ state'[r] = "INGESTED" /\ document'[r] = d
      BY <1>0, <1>1, <2>1 DEF Ingest, Advance, Keep, Goto, StoreTypeOK
    <3> QED BY <3>1 DEF Holds, HoldsEntry, HoldsAck, HoldsDocument, EntrySteps, DeliverSteps, Exists
  <2>2. CASE Keep(p, "unlink")
    BY <1>0, <2>2, IdleHolds DEF Keep, Goto, LooseSteps
  <2> QED BY <1>5, <2>1, <2>2 DEF Insert
<1>6. CASE ReadState(p) \/ WorkFails(p) \/ Work(p) \/ WriteSbom(p)
  BY <1>0, <1>2, <1>6 DEF ReadState, WorkFails, Work, WriteSbom, Keep, Goto, LooseSteps
<1>7. CASE TakeClaim(p)
  <2>1. ASSUME job' = [job EXCEPT ![p].claimed = version[r] + 1], Goto(p, "work")
        PROVE  Holds(p)'
    BY <1>0, <1>2, <1>7, <2>1 DEF TakeClaim, Goto, LooseSteps, Jobs
  <2> QED BY <1>0, <1>7, <2>1, EndHolds DEF TakeClaim
<1>8. CASE Sign(p)
  <2>1. ASSUME job' = [job EXCEPT ![p].receipt = Receipt(p)], Goto(p, "prepare")
        PROVE  Holds(p)'
    BY <1>0, <1>2, <1>8, <2>1 DEF Sign, Goto, LooseSteps, Jobs
  <2> QED BY <1>0, <1>2, <1>8, <2>1 DEF Sign, Keep, Goto, LooseSteps
<1>9. CASE StoreReceipt(p)
  BY <1>0, <1>2, <1>9 DEF StoreReceipt, Keep, Goto, LooseSteps
<1>10. CASE Fail(p)
  BY <1>0, <1>10, EndHolds DEF Fail
<1>11. CASE StoreUnreachable(p) /\ pc[p] \in {"insert", "prepare"}
  <2>1. CASE Keep(p, "unlink")
    BY <1>0, <2>1, IdleHolds DEF Keep, Goto, LooseSteps
  <2>2. CASE pc[p] = "prepare" /\ Keep(p, "fail")
    BY <1>0, <1>2, <2>2 DEF Keep, Goto, LooseSteps
  <2> QED BY <1>11, <2>1, <2>2 DEF StoreUnreachable
<1> QED BY <1>3, <1>4, <1>5, <1>6, <1>7, <1>8, <1>9, <1>10, <1>11

\* Calls, the end of a row's report, and the disturbances that end a call.
LEMMA CalledHolds ==
  ASSUME CommitInv, Forward, NEW p \in Callers,
         \/ Called(p) \/ Reported(p) \/ LedgerUnreachable(p) \/ FinishUnanswered(p) \/ Crash(p)
         \/ StoreUnreachable(p) /\ pc[p] \notin {"insert", "prepare"}
  PROVE  Holds(p)'
<1>0. /\ TypeInv /\ job \in [Callers -> Jobs] /\ pc \in [Callers -> Steps] /\ job[p] \in Jobs
      /\ StoreTypeOK
  BY DEF CommitInv, TypeInv, TypeOK, CallersTypeOK
<1>1. ASSUME NEW r \in Records, NEW d \in Documents, StartRun(p, r, d) PROVE Holds(p)'
  BY <1>0, <1>1, IdleHolds DEF StartRun, Goto, LooseSteps
<1>2. ASSUME NEW r \in Records, StartDeliver(p, r) PROVE Holds(p)'
  <2>1. pc'[p] = "pending" /\ p \notin Uploaders
    BY <1>0, <1>2, PipelineAssumption DEF StartDeliver, Goto
  <2> QED BY <2>1 DEF Holds, HoldsEntry, HoldsAck, HoldsDocument, EntrySteps, DeliverSteps
<1>3. ASSUME NEW r \in Records, NEW mode \in {"look", "repair"}, StartScan(p, r, mode) PROVE Holds(p)'
  <2>1. /\ pc'[p] = "scan" /\ p \notin Uploaders /\ outbox' = outbox /\ outbox[r] # None
        /\ job'[p].rid = r /\ job'[p].entry = outbox[r]
    BY <1>0, <1>3, PipelineAssumption DEF StartScan, Goto, Jobs, storeVars
  <2> QED BY <2>1 DEF Holds, HoldsEntry, HoldsAck, HoldsDocument, EntrySteps, DeliverSteps
<1> QED BY <1>0, <1>1, <1>2, <1>3, RaiseHolds
       DEF Called, Reported, LedgerUnreachable, FinishUnanswered, StoreUnreachable, Crash

\* A row read as CONFIRMED stands for a COMMITTED submission whose
\* transaction the ledger holds.
LEMMA ConfirmedEntry ==
  ASSUME CommitInv, NEW p \in Callers, HoldsEntry(p), pc[p] \in EntrySteps,
         job[p].entry.status = "CONFIRMED"
  PROVE  LET r == job[p].rid IN
         /\ state[r] = "COMMITTED" /\ job[p].entry = outbox[r]
         /\ ledger[r] # None /\ ledger[r].tx = job[p].entry.tx
         /\ job[p].entry.tx \in TxIds /\ job[p].entry.tx # None
<1> DEFINE r == job[p].rid
<1>1. r \in Records
  BY LocalsOf DEF CommitInv, TypeInv, EntrySteps, DeliverSteps
<1>2. job[p].entry = outbox[r] /\ outbox[r] # None
  BY DEF HoldsEntry
<1>3. state[r] = "COMMITTED"
  BY <1>1, <1>2 DEF CommitInv, OutboxInStep
<1> QED BY <1>1, <1>2, <1>3, StoreAssumption DEF CommitInv, OutboxInStep, CommittedIsLedgered

\* Delivery and reconciliation.
LEMMA DeliverHolds ==
  ASSUME CommitInv, Forward, NEW p \in Callers, Holds(p),
         \/ ReadPending(p) \/ ReturnCached(p) \/ Verify(p) \/ CheckRow(p) \/ CheckEvidence(p)
         \/ CheckRecovery(p) \/ HistoricalCommit(p) \/ Submit(p) \/ Endorse(p) \/ AwaitCommit(p)
         \/ Finalize(p) \/ Return(p) \/ ScanLedger(p) \/ Compare(p)
  PROVE  Holds(p)'
<1> DEFINE r == job[p].rid  e == job[p].entry
<1>0. /\ TypeInv /\ job \in [Callers -> Jobs] /\ pc \in [Callers -> Steps] /\ job[p] \in Jobs
      /\ StoreTypeOK
  BY DEF CommitInv, TypeInv, TypeOK, CallersTypeOK
<1>1. /\ r \in Records /\ LocalsAssigned(pc[p], job[p])
      /\ pc[p] # "idle" /\ pc[p] \notin LooseSteps
  BY <1>0, LocalsOf DEF LooseSteps, ReadPending, ReturnCached, Verify, CheckRow, CheckEvidence,
       CheckRecovery, HistoricalCommit, Submit, Endorse, AwaitCommit, Finalize, Return,
       ScanLedger, Compare
<1>2. ASSUME NEW l \in {"row", "recover", "evidence", "submit", "history", "endorse"},
             Keep(p, l), pc[p] \in EntrySteps
      PROVE  Holds(p)'
  BY <1>0, <1>1, <1>2, KeepHolds
<1>3. ASSUME pc[p] \in EntrySteps, NEW l \in {"finish", "done", "await"}, pc'[p] = l,
             job'[p].rid = r, job'[p].doc = job[p].doc, job'[p].entry = e,
             l # "await" => ledger'[r] # None /\ ledger'[r].tx = job'[p].tx,
             l = "done" => state'[r] = "COMMITTED"
      PROVE  Holds(p)'
  <2>1. l \notin {"compare", "report"}
    OBVIOUS
  <2> QED BY <1>0, <1>1, <1>3, <2>1, ActorHolds
<1>4. CASE ReadPending(p)
  <2>1. ASSUME outbox[r] # None, job' = [job EXCEPT ![p].entry = outbox[r]],
               NEW l \in {"cached", "verify"}, Goto(p, l)
        PROVE  Holds(p)'
    <3>1. /\ pc'[p] = l /\ job'[p].rid = r /\ job'[p].doc = job[p].doc /\ job'[p].entry = outbox[r]
          /\ outbox' = outbox /\ state' = state /\ document' = document
      BY <1>0, <1>4, <2>1 DEF ReadPending, Goto, Jobs, storeVars
    <3>2. HoldsEntry(p)' /\ HoldsAck(p)'
      BY <2>1, <3>1 DEF HoldsEntry, HoldsAck
    <3>3. HoldsDocument(p)'
      BY <1>1, <3>1 DEF Holds, HoldsDocument, Exists, LooseSteps
    <3> QED BY <3>2, <3>3 DEF Holds
  <2> QED BY <1>0, <1>4, <2>1, RaiseHolds DEF ReadPending
<1>5. CASE ReturnCached(p)
  <2>1. pc[p] \in EntrySteps
    BY <1>5 DEF ReturnCached, EntrySteps, DeliverSteps
  <2>2. ASSUME state[r] = "COMMITTED", Recorded(p),
               job' = [job EXCEPT ![p].tx = ledger[r].tx], Goto(p, "done")
        PROVE  Holds(p)'
    <3>1. /\ pc'[p] = "done" /\ job'[p].rid = r /\ job'[p].doc = job[p].doc /\ job'[p].entry = e
          /\ job'[p].tx = ledger[r].tx /\ ledger' = ledger /\ state' = state
      BY <1>0, <1>5, <2>2 DEF ReturnCached, Goto, Jobs, storeVars, ledgerVars
    <3> QED BY <1>3, <2>1, <2>2, <3>1 DEF Recorded
  <2> QED BY <1>0, <1>5, <2>2, RaiseHolds DEF ReturnCached
<1>6. CASE Verify(p) \/ CheckRow(p) \/ CheckEvidence(p) \/ CheckRecovery(p)
  <2>1. pc[p] \in EntrySteps
    BY <1>6 DEF Verify, CheckRow, CheckEvidence, CheckRecovery, EntrySteps, DeliverSteps
  <2> QED BY <1>0, <1>2, <1>6, <2>1, RaiseHolds DEF Verify, CheckRow, CheckEvidence, CheckRecovery
<1>7. CASE HistoricalCommit(p) \/ Submit(p)
  <2>1. pc[p] \in EntrySteps
    BY <1>7 DEF HistoricalCommit, Submit, EntrySteps, DeliverSteps
  <2>2. ASSUME Recorded(p), job' = [job EXCEPT ![p].tx = ledger[r].tx], Goto(p, "finish")
        PROVE  Holds(p)'
    <3>1. /\ pc'[p] = "finish" /\ job'[p].rid = r /\ job'[p].doc = job[p].doc /\ job'[p].entry = e
          /\ job'[p].tx = ledger[r].tx /\ ledger' = ledger
      BY <1>0, <1>7, <2>2 DEF HistoricalCommit, Submit, Goto, Jobs, ledgerVars
    <3> QED BY <1>3, <2>1, <2>2, <3>1 DEF Recorded
  <2> QED BY <1>0, <1>2, <1>7, <2>1, <2>2, RaiseHolds DEF HistoricalCommit, Submit
<1>8. CASE Endorse(p)
  <2>1. pc[p] \in EntrySteps
    BY <1>8 DEF Endorse, EntrySteps, DeliverSteps
  <2>2. ASSUME NEW tx \in TxIds, job' = [job EXCEPT ![p].tx = tx], Goto(p, "await")
        PROVE  Holds(p)'
    <3>1. pc'[p] = "await" /\ job'[p].rid = r /\ job'[p].doc = job[p].doc /\ job'[p].entry = e
      BY <1>0, <2>2 DEF Goto, Jobs
    <3> QED BY <1>3, <2>1, <3>1
  <2> QED BY <1>0, <1>8, <2>2, RaiseHolds DEF Endorse
<1>9. CASE AwaitCommit(p)
  <2>1. pc[p] \in EntrySteps
    BY <1>9 DEF AwaitCommit, EntrySteps, DeliverSteps
  <2>2. ASSUME Recorded(p), ledger[r].tx = job[p].tx, Keep(p, "finish")
        PROVE  Holds(p)'
    <3>1. pc'[p] = "finish" /\ job' = job /\ ledger' = ledger
      BY <1>0, <1>9, <2>2 DEF AwaitCommit, Keep, Goto, ledgerVars
    <3> QED BY <1>3, <2>1, <2>2, <3>1 DEF Recorded
  <2> QED BY <1>0, <1>9, <2>2, RaiseHolds DEF AwaitCommit
<1>10. CASE Finalize(p)
  <2>1. pc[p] \in EntrySteps /\ ledger[r] # None /\ ledger[r].tx = job[p].tx /\ ledger' = ledger
    BY <1>10 DEF Finalize, Holds, HoldsAck, EntrySteps, DeliverSteps, ledgerVars
  <2>2. ASSUME Keep(p, "done"), state'[r] = "COMMITTED"
        PROVE  Holds(p)'
    <3>1. pc'[p] = "done" /\ job' = job
      BY <1>0, <2>2 DEF Keep, Goto
    <3> QED BY <1>3, <2>1, <2>2, <3>1
  <2>3. CASE AlreadyFinished(r, job[p].tx) /\ Keep(p, "done") /\ UNCHANGED storeVars
    BY <2>2, <2>3 DEF AlreadyFinished, storeVars
  <2>4. CASE Finish(r, e.snapshot, job[p].tx, e.payload) /\ Keep(p, "done")
    BY <1>0, <1>1, <2>2, <2>4 DEF Finish, Advance, StoreTypeOK
  <2> QED BY <1>0, <1>10, <2>3, <2>4, RaiseHolds DEF Finalize
<1>11. CASE ScanLedger(p)
  <2>1. pc[p] \in EntrySteps /\ HoldsEntry(p)
    BY <1>11 DEF ScanLedger, Holds, EntrySteps, DeliverSteps
  <2>2. ASSUME pc'[p] = "compare", job'[p].rid = r, job'[p].doc = job[p].doc, job'[p].entry = e,
               e.status = "CONFIRMED" => job'[p].tx = ledger[r].tx
        PROVE  Holds(p)'
    <3>1. HoldsEntry(p)'
      BY <1>1, <2>1, <2>2 DEF HoldsEntry, Forward
    <3>2. HoldsAck(p)'
      BY <2>1, <2>2, ConfirmedEntry DEF HoldsAck
    <3>3. HoldsDocument(p)'
      BY <1>1, <2>2 DEF Holds, HoldsDocument, Forward, Exists, LooseSteps
    <3> QED BY <3>1, <3>2, <3>3 DEF Holds
  <2>3. CASE job' = [job EXCEPT ![p].tx = ledger[r].tx] /\ Goto(p, "compare")
    BY <1>0, <2>2, <2>3 DEF Goto, Jobs
  <2>4. CASE ledger[r] = None /\ Keep(p, "compare")
    <3>1. e.status # "CONFIRMED"
      BY <2>1, <2>4, ConfirmedEntry
    <3> QED BY <1>0, <2>2, <2>4, <3>1 DEF Keep, Goto
  <2> QED BY <1>0, <1>11, <2>3, <2>4, RaiseHolds DEF ScanLedger
<1>12. CASE Compare(p)
  <2>1. pc[p] \in EntrySteps /\ HoldsEntry(p) /\ pc[p] = "compare"
    BY <1>12 DEF Compare, Holds, EntrySteps
  <2>2. e.status = "CONFIRMED" =>
          state[r] = "COMMITTED" /\ job[p].tx # None /\ job[p].tx = e.tx
    BY <2>1, ConfirmedEntry DEF Holds, HoldsAck
  <2>3. CASE job' = [job EXCEPT ![p].entry = None, ![p].tx = None] /\ Goto(p, "pending")
    <3>1. pc'[p] = "pending" /\ job'[p].rid = r /\ job'[p].doc = job[p].doc
      BY <1>0, <2>3 DEF Goto, Jobs
    <3>2. "pending" \notin EntrySteps
      BY DEF EntrySteps, DeliverSteps
    <3> QED BY <1>0, <1>1, <3>1, <3>2, ActorHolds
  <2>4. CASE e.status = "CONFIRMED" /\ Report(p, "CONSISTENT")
    BY <1>0, <1>12, <2>2, <2>4, ReportHolds DEF Compare, storeVars
  <2>5. CASE job[p].mode = "look" /\ Report(p, PendingStatus(p))
    BY <1>0, <2>5, ReportHolds DEF PendingStatus
  <2> QED BY <1>12, <2>2, <2>3, <2>4, <2>5 DEF Compare
<1>13. CASE Return(p)
  <2>1. state'[r] = "COMMITTED"
    BY <1>13 DEF Return, Holds, HoldsAck, storeVars
  <2> QED BY <1>0, <1>13, <2>1, ReportHolds, EndHolds DEF Return
<1> QED BY <1>4, <1>5, <1>6, <1>7, <1>8, <1>9, <1>10, <1>11, <1>12, <1>13

----------------------------------------------------------------------------
(* The tables against the ledger. *)

SameCommitted == \A r \in Records : (state'[r] = "COMMITTED") <=> (state[r] = "COMMITTED")

PrepareMoves(p) ==
  LET r == job[p].rid IN
  /\ r \in Records /\ outbox[r] = None /\ SameCommitted
  /\ \E row \in OutboxRows : outbox' = [outbox EXCEPT ![r] = row]

FinishMoves(p) ==
  LET r == job[p].rid IN
  /\ pc[p] = "finish" /\ r \in Records
  /\ state[r] = "PREPARED" /\ state' = [state EXCEPT ![r] = "COMMITTED"]
  /\ outbox[r] # None /\ outbox'[r].payload = outbox[r].payload /\ outbox'[r].tx = job[p].tx
  /\ outbox'[r] # None
  /\ \A q \in Records \ {r} : outbox'[q] = outbox[q]

\* Seen from the ledger, a transaction of the store chooses a receipt,
\* confirms one, or does nothing.
LEMMA StoreEffect ==
  ASSUME TypeInv, StoreMoves
  PROVE  \/ outbox' = outbox /\ SameCommitted
         \/ \E p \in Callers : PrepareMoves(p)
         \/ \E p \in Callers : FinishMoves(p)
<1>0. StoreTypeOK /\ OutboxInStep
  BY DEF TypeInv, TypeOK
<1>1. CASE TablesKept
  BY <1>1 DEF TablesKept, SameCommitted
<1>2. ASSUME NEW q \in Records, NEW d \in Documents, NEW c \in Ciphers, Ingest(q, d, c)
      PROVE  outbox' = outbox /\ SameCommitted
  BY <1>0, <1>2 DEF Ingest, IngestRefused, Advance, Exists, StoreTypeOK, SameCommitted
<1>3. ASSUME NEW q \in Records, Claim(q) PROVE outbox' = outbox /\ SameCommitted
  BY <1>0, <1>3 DEF Claim, ClaimRefused, Advance, StoreTypeOK, SameCommitted
<1>4. ASSUME NEW p \in Callers, pc[p] = "prepare",
             Prepare(job[p].rid, job[p].claimed, job[p].receipt)
      PROVE  PrepareMoves(p)
  <2> DEFINE r == job[p].rid
             row == [payload |-> job[p].receipt, snapshot |-> job[p].claimed + 1,
                     status |-> "PENDING", tx |-> None]
  <2>1. r \in Records /\ job[p].claimed \in Nat /\ job[p].receipt \in Payloads
    BY <1>4, LocalsOf DEF LocalsAssigned, ScanSteps, Jobs
  <2>2. row \in OutboxRows /\ outbox' = [outbox EXCEPT ![r] = row]
    BY <1>4, <2>1 DEF Prepare, OutboxRows
  <2>3. outbox[r] = None /\ SameCommitted
    BY <1>0, <1>4, <2>1 DEF Prepare, HoldsClaim, Advance, OutboxInStep, StoreTypeOK, SameCommitted
  <2> QED BY <2>1, <2>2, <2>3 DEF PrepareMoves
<1>5. ASSUME NEW q \in Records, NEW v \in Nat, FailProcessing(q, v)
      PROVE  outbox' = outbox /\ SameCommitted
  BY <1>0, <1>5 DEF FailProcessing, HoldsClaim, Advance, StoreTypeOK, SameCommitted
<1>6. ASSUME NEW p \in Callers, pc[p] = "finish",
             Finish(job[p].rid, job[p].entry.snapshot, job[p].tx, job[p].entry.payload)
      PROVE  FinishMoves(p)
  <2> DEFINE r == job[p].rid
             new == [outbox[r] EXCEPT !.status = "CONFIRMED", !.tx = job[p].tx]
  <2>1. r \in Records /\ job[p].tx \in TxIds
    BY <1>6, LocalsOf DEF LocalsAssigned, ScanSteps
  <2>2. state[r] = "PREPARED" /\ outbox[r] \in OutboxRows /\ outbox[r] # None
    BY <1>0, <1>6, <2>1, NoRowAssumption DEF Finish, FinishAllowed, OutboxInStep, StoreTypeOK
  <2>3. new \in OutboxRows /\ new # None /\ new.payload = outbox[r].payload /\ new.tx = job[p].tx
    BY <2>1, <2>2, NoRowAssumption DEF OutboxRows
  <2>4. outbox' = [outbox EXCEPT ![r] = new] /\ state' = [state EXCEPT ![r] = "COMMITTED"]
    BY <1>6 DEF Finish, Advance
  <2> HIDE DEF new
  <2> QED BY <1>0, <1>6, <2>1, <2>2, <2>3, <2>4 DEF FinishMoves, StoreTypeOK
<1>7. CASE RecoverExpired
  BY <1>0, <1>7 DEF RecoverExpired, Expired, SameCommitted
<1> QED BY <1>1, <1>2, <1>3, <1>4, <1>5, <1>6, <1>7 DEF StoreMoves

\* A store transaction keeps tables and ledger matched.
LEMMA StoreKeepsMatch ==
  ASSUME CommitInv, Forward, StoreMoves, UNCHANGED ledgerVars
  PROVE  CommittedIsLedgered' /\ LedgerWriteAhead'
<1>0. TypeInv
  BY DEF CommitInv, TypeInv
<1>1. LedgerWriteAhead'
  <2>1. \A e \in inflight : e.record \in Records
    BY DEF CommitInv, TypeOK, Transactions
  <2> QED BY <2>1 DEF CommitInv, LedgerWriteAhead, Forward, ledgerVars
<1>2. SUFFICES ASSUME NEW r \in Records, state'[r] = "COMMITTED"
               PROVE  /\ ledger'[r] # None /\ ledger'[r].payload = outbox'[r].payload
                      /\ ledger'[r].tx = outbox'[r].tx
  BY <1>1 DEF CommittedIsLedgered
<1>3. CASE state[r] = "COMMITTED"
  <2>1. outbox[r] # None /\ outbox[r].status = "CONFIRMED"
    BY <1>3 DEF CommitInv, OutboxInStep
  <2> QED BY <1>3, <2>1 DEF CommitInv, CommittedIsLedgered, Forward, ledgerVars
<1>4. CASE state[r] # "COMMITTED"
  <2>1. PICK p \in Callers : FinishMoves(p)
    BY <1>0, <1>2, <1>4, StoreEffect DEF SameCommitted, PrepareMoves
  <2>2. job[p].rid = r
    BY <1>2, <1>4, <2>1 DEF FinishMoves, CommitInv, TypeOK, StoreTypeOK
  <2>3. ledger[r] # None /\ ledger[r].tx = job[p].tx
    BY <2>1, <2>2 DEF FinishMoves, CommitInv, HoldsAck
  <2> QED BY <2>1, <2>2, <2>3 DEF FinishMoves, CommitInv, LedgerWriteAhead, ledgerVars
<1> QED BY <1>3, <1>4

\* So does the ledger.
LEMMA LedgerKeepsMatch ==
  ASSUME CommitInv, Forward, TablesKept,
         (\E p \in Callers : Endorse(p)) \/ (\E e \in inflight : Order(e))
  PROVE  CommittedIsLedgered' /\ LedgerWriteAhead'
<1>1. CommittedIsLedgered'
  BY DEF CommitInv, CommittedIsLedgered, Forward, TablesKept
<1>2. ASSUME NEW p \in Callers, Endorse(p) PROVE LedgerWriteAhead'
  <2> DEFINE r == job[p].rid  x == job[p].entry.payload
  <2>1. outbox[r] # None /\ x = outbox[r].payload /\ ledger' = ledger /\ outbox' = outbox
    BY <1>2 DEF Endorse, CommitInv, HoldsEntry, EntrySteps, DeliverSteps, TablesKept
  <2>2. ASSUME NEW e \in inflight' PROVE outbox'[e.record] # None /\ e.payload = outbox'[e.record].payload
    <3>1. CASE e \in inflight
      BY <2>1, <3>1 DEF CommitInv, LedgerWriteAhead
    <3>2. CASE e \notin inflight
      <4>1. PICK tx \in TxIds : e = [record |-> r, payload |-> x, tx |-> tx]
        BY <1>2, <2>2, <3>2 DEF Endorse
      <4> QED BY <2>1, <4>1
    <3> QED BY <3>1, <3>2
  <2> QED BY <2>1, <2>2 DEF CommitInv, LedgerWriteAhead
<1>3. ASSUME NEW e \in inflight, Order(e) PROVE LedgerWriteAhead'
  <2>1. e.record \in Records /\ outbox' = outbox
    BY DEF CommitInv, TypeOK, Transactions, TablesKept
  <2>2. \A r \in Records : ledger'[r] # None =>
          \/ ledger'[r] = ledger[r]
          \/ r = e.record /\ ledger'[r] = [payload |-> e.payload, tx |-> e.tx]
    BY <1>3, <2>1 DEF Order, CommitInv, TypeOK
  <2> QED BY <1>3, <2>1, <2>2 DEF Order, CommitInv, LedgerWriteAhead
<1> QED BY <1>1, <1>2, <1>3

LEMMA CommitInvInit == Init => CommitInv
<1>1. ASSUME Init PROVE TypeInv
  BY <1>1, TypeInvInit
<1> QED BY <1>1 DEF CommitInv, TypeInv, Init, StoreInit, CommittedIsLedgered, LedgerWriteAhead,
          HoldsEntry, HoldsAck, HoldsDocument, EntrySteps, DeliverSteps

\* The caller that moves establishes what it holds next.
LEMMA MoverHolds ==
  ASSUME CommitInv, Forward, NEW p \in Callers, Step(p) \/ Struck(p) \/ Called(p)
  PROVE  Holds(p)'
<1>0. Holds(p)
  BY DEF CommitInv, Holds
<1>1. CASE \/ Lookup(p) \/ WriteBlob(p) \/ Insert(p) \/ Unlink(p) \/ ReadState(p) \/ TakeClaim(p)
           \/ Work(p) \/ WriteSbom(p) \/ Sign(p) \/ StoreReceipt(p) \/ Fail(p)
           \/ InsertUnacknowledged(p) \/ WorkFails(p)
  BY <1>0, <1>1, WorkerHolds
<1>2. CASE \/ ReadPending(p) \/ ReturnCached(p) \/ Verify(p) \/ CheckRow(p) \/ CheckEvidence(p)
           \/ CheckRecovery(p) \/ HistoricalCommit(p) \/ Submit(p) \/ Endorse(p) \/ AwaitCommit(p)
           \/ Finalize(p) \/ Return(p) \/ ScanLedger(p) \/ Compare(p)
  BY <1>0, <1>2, DeliverHolds
<1>3. CASE \/ Called(p) \/ Reported(p) \/ LedgerUnreachable(p) \/ FinishUnanswered(p) \/ Crash(p)
  BY <1>3, CalledHolds
<1>4. CASE StoreUnreachable(p)
  <2>1. CASE pc[p] \in {"insert", "prepare"}
    BY <1>0, <1>4, <2>1, WorkerHolds
  <2>2. CASE pc[p] \notin {"insert", "prepare"}
    BY <1>4, <2>2, CalledHolds
  <2> QED BY <2>1, <2>2
<1> QED BY <1>1, <1>2, <1>3, <1>4 DEF Step, Struck

LEMMA CommitInvStep == ASSUME CommitInv, [Next]_vars PROVE CommitInv'
<1>0. TypeInv /\ TypeInv' /\ Forward
  BY TypeInvStep, ForwardStep DEF CommitInv, TypeInv
<1>1. CommittedIsLedgered' /\ LedgerWriteAhead'
  BY <1>0, Kinds, StoreKeepsMatch, LedgerKeepsMatch DEF StepKinds
<1>2. ASSUME NEW q \in Callers PROVE Holds(q)'
  <2>0. Holds(q)
    BY DEF CommitInv, Holds
  <2>1. ASSUME NEW p \in Callers, Step(p) \/ Struck(p) \/ Called(p) PROVE Holds(q)'
    <3>1. CASE p = q
      BY <1>0, <2>1, <3>1, MoverHolds
    <3>2. CASE p # q
      BY <1>0, <2>0, <2>1, <3>2, OneMoves, Bystander
    <3> QED BY <3>1, <3>2
  <2>2. CASE \/ \E e \in inflight : Order(e)
             \/ RecoverLeases \/ ChangePolicy \/ RevokeKey \/ Tick \/ UNCHANGED vars
    <3>1. pc' = pc /\ job' = job
      BY <2>2 DEF Order, RecoverLeases, ChangePolicy, RevokeKey, Tick, vars
    <3> QED BY <1>0, <2>0, <3>1, Bystander
  <2> QED BY <2>1, <2>2 DEF Next
<1> QED BY <1>0, <1>1, <1>2 DEF CommitInv, TypeInv, Holds

\* The inductive invariant: tables and ledger match, and every caller holds
\* what its next access to the store or the ledger relies on.
THEOREM CommitInvariant == Spec => []CommitInv
BY CommitInvInit, CommitInvStep, PTL DEF Spec

\* COMMITTED only after a matching ledger result, however many callers
\* process, deliver, crash and repair the same requests.
THEOREM CommittedIsLedgeredHolds == Spec => []CommittedIsLedgered
<1>1. CommitInv => CommittedIsLedgered
  BY DEF CommitInv
<1> QED BY <1>1, CommitInvariant, PTL

\* The ledger holds, and will ever be given, only what the outbox remembers.
THEOREM LedgerWriteAheadHolds == Spec => []LedgerWriteAhead
<1>1. CommitInv => LedgerWriteAhead
  BY DEF CommitInv
<1> QED BY <1>1, CommitInvariant, PTL

\* No acknowledgement is handed out early, or for another document.
THEOREM AckTruthfulHolds == Spec => []AckTruthful
<1>1. ASSUME CommitInv, NEW p \in Callers, pc[p] = "done"
      PROVE  LET r == job[p].rid IN
             /\ state[r] = "COMMITTED" /\ outbox[r].tx = job[p].tx
             /\ ledger[r] # None /\ ledger[r].tx = job[p].tx
             /\ p \in Uploaders => document[r] = job[p].doc
  <2> DEFINE r == job[p].rid
  <2>1. r \in Records
    BY <1>1, LocalsOf DEF CommitInv, TypeInv
  <2>2. state[r] = "COMMITTED" /\ ledger[r] # None /\ ledger[r].tx = job[p].tx
    BY <1>1 DEF CommitInv, HoldsAck
  <2>3. p \in Uploaders => document[r] = job[p].doc
    BY <1>1 DEF CommitInv, HoldsDocument
  <2>4. outbox[r].tx = job[p].tx
    BY <1>1, <2>1, <2>2 DEF CommitInv, CommittedIsLedgered
  <2> QED BY <2>2, <2>3, <2>4
<1>2. CommitInv => AckTruthful
  BY <1>1 DEF AckTruthful
<1> QED BY <1>2, CommitInvariant, PTL

\* Without tampering no row of a scan is called DIVERGENCE; one that it calls
\* CONSISTENT, or a repair does not count, is COMMITTED with the ledger's record,
\* whatever the delivery ran into.
THEOREM ReportTruthfulHolds == Spec => []ReportTruthful
<1>1. ASSUME CommitInv, NEW p \in Callers, pc[p] = "report", state[job[p].rid] = "COMMITTED"
      PROVE  LET r == job[p].rid IN ledger[r] # None /\ ledger[r].tx = outbox[r].tx
  <2>1. job[p].rid \in Records
    BY <1>1, LocalsOf DEF CommitInv, TypeInv
  <2> QED BY <1>1, <2>1 DEF CommitInv, CommittedIsLedgered
<1>2. CommitInv => ReportTruthful
  BY <1>1 DEF CommitInv, HoldsAck, ReportTruthful
<1> QED BY <1>2, CommitInvariant, PTL

\* Whoever holds the ledger's answer can confirm the row, or finds it confirmed
\* with that answer: finish never refuses a caller of the protocol.
THEOREM FinishSucceedsHolds == Spec => []FinishSucceeds
<1>1. ASSUME CommitInv, NEW p \in Callers, pc[p] = "finish"
      PROVE  LET r == job[p].rid  e == job[p].entry IN
             AlreadyFinished(r, job[p].tx) \/ FinishAllowed(r, e.snapshot, e.payload)
  <2> DEFINE r == job[p].rid  e == job[p].entry
  <2>1. r \in Records
    BY <1>1, LocalsOf DEF CommitInv, TypeInv
  <2>2. outbox[r] # None /\ e.payload = outbox[r].payload /\ e.snapshot = outbox[r].snapshot
    BY <1>1 DEF CommitInv, HoldsEntry, EntrySteps, DeliverSteps
  <2>3. CASE state[r] = "COMMITTED"
    <3>1. ledger[r].tx = job[p].tx
      BY <1>1 DEF CommitInv, HoldsAck
    <3> QED BY <1>1, <2>1, <2>3, <3>1 DEF CommitInv, CommittedIsLedgered, AlreadyFinished
  <2>4. CASE state[r] = "PREPARED"
    BY <1>1, <2>1, <2>2, <2>4 DEF CommitInv, OutboxInStep, FinishAllowed
  <2> QED BY <1>1, <2>1, <2>2, <2>3, <2>4 DEF CommitInv, OutboxInStep
<1>2. CommitInv => FinishSucceeds
  BY <1>1 DEF FinishSucceeds
<1> QED BY <1>2, CommitInvariant, PTL

----------------------------------------------------------------------------
(* The pipeline implements the abstract commit protocol. *)

Prepared == [r \in Records |-> IF outbox[r] = None THEN None ELSE outbox[r].payload]

Confirmed == [r \in Records |->
                IF state[r] = "COMMITTED"
                THEN [payload |-> outbox[r].payload, tx |-> outbox[r].tx]
                ELSE None]

LEMMA Mapping ==
  /\ Protocol!Init <=> /\ Prepared = [r \in Records |-> None]
                       /\ ledger = [r \in Records |-> None]
                       /\ Confirmed = [r \in Records |-> None]
  /\ Protocol!vars = <<Prepared, ledger, Confirmed>>
  /\ Protocol!vars' = <<Prepared', ledger', Confirmed'>>
BY DEF Protocol!Init, Protocol!vars, Prepared, Confirmed

\* A row entering the outbox is the choice of its receipt.
LEMMA PrepareChooses ==
  ASSUME CommitInv, CommitInv', NEW p \in Callers, PrepareMoves(p), ledger' = ledger
  PROVE  \E x \in Payloads : Protocol!Choose(job[p].rid, x)
<1> DEFINE r == job[p].rid
<1>1. PICK row \in OutboxRows : outbox' = [outbox EXCEPT ![r] = row]
  BY DEF PrepareMoves
<1>2. /\ r \in Records /\ outbox[r] = None /\ SameCommitted /\ row # None /\ row.payload \in Payloads
      /\ outbox \in [Records -> OutboxRows \cup {None}]
  BY NoRowAssumption DEF PrepareMoves, CommitInv, TypeOK, StoreTypeOK, OutboxRows
<1>3. Prepared' = [Prepared EXCEPT ![r] = row.payload] /\ Prepared[r] = None
  BY <1>1, <1>2 DEF Prepared
<1>4. Confirmed' = Confirmed
  <2>1. ASSUME NEW q \in Records, state[q] = "COMMITTED" PROVE outbox'[q] = outbox[q]
    BY <1>1, <1>2, <2>1 DEF CommitInv, OutboxInStep
  <2> QED BY <1>2, <2>1 DEF Confirmed, SameCommitted
<1>5. Protocol!Choose(r, row.payload)
  BY <1>3, <1>4 DEF Protocol!Choose, Prepared, Confirmed
<1> QED BY <1>2, <1>5

\* Finalization confirms what the ledger holds.
LEMMA FinishConfirms ==
  ASSUME CommitInv, CommitInv', NEW p \in Callers, FinishMoves(p), ledger' = ledger,
         NEW r \in Records, r = job[p].rid
  PROVE  Protocol!Confirm(r)
<1>1. /\ r \in Records /\ state[r] = "PREPARED" /\ state \in [Records -> States]
      /\ state' = [state EXCEPT ![r] = "COMMITTED"]
      /\ outbox[r] # None /\ outbox'[r] # None /\ outbox'[r].payload = outbox[r].payload
      /\ outbox'[r].tx = job[p].tx /\ pc[p] = "finish"
      /\ \A q \in Records \ {r} : outbox'[q] = outbox[q]
  BY DEF FinishMoves, CommitInv, TypeOK, StoreTypeOK
<1>2. /\ ledger[r] # None /\ ledger[r].tx = outbox'[r].tx /\ ledger[r].payload = outbox'[r].payload
      /\ ledger[r] \in LedgerEntries
  BY <1>1 DEF CommitInv, HoldsAck, LedgerWriteAhead, TypeOK
<1>3. Prepared' = Prepared
  BY <1>1 DEF Prepared
<1>4. ledger[r] = [payload |-> outbox'[r].payload, tx |-> outbox'[r].tx]
  BY <1>2 DEF LedgerEntries
<1>5. Confirmed[r] = None /\ Confirmed' = [Confirmed EXCEPT ![r] = ledger[r]]
  BY <1>1, <1>4 DEF Confirmed
<1> QED BY <1>2, <1>3, <1>5 DEF Protocol!Confirm, Prepared, Confirmed

\* A transaction is ordered: one write of the receipt chosen, or none.
LEMMA OrderWrites ==
  ASSUME CommitInv, TablesKept, NEW e \in inflight, Order(e)
  PROVE  Protocol!Write(e.record, e.tx) \/ UNCHANGED <<Prepared, ledger, Confirmed>>
<1>1. e \in Transactions /\ ledger \in [Records -> LedgerEntries \cup {None}]
  BY DEF CommitInv, TypeOK
<1>2. Prepared' = Prepared /\ Confirmed' = Confirmed
  BY DEF TablesKept, Prepared, Confirmed
<1>3. Prepared[e.record] = e.payload /\ Prepared[e.record] # None
  BY <1>1, StoreAssumption DEF CommitInv, LedgerWriteAhead, Prepared, Transactions
<1>4. CASE ledger[e.record] = None /\ "ledger" \notin revoked
  <2>1. ledger' = [ledger EXCEPT ![e.record] = [payload |-> Prepared[e.record], tx |-> e.tx]]
    BY <1>3, <1>4 DEF Order
  <2> QED BY <1>2, <1>3, <1>4, <2>1 DEF Protocol!Write, Prepared, Confirmed
<1> QED BY <1>2, <1>4 DEF Order

LEMMA ProtocolStep ==
  ASSUME CommitInv, CommitInv', [Next]_vars
  PROVE  Protocol!Next \/ UNCHANGED <<Prepared, ledger, Confirmed>>
<1>0. TypeInv /\ StepKinds
  BY Kinds DEF CommitInv, TypeInv
<1>1. CASE StoreMoves /\ UNCHANGED ledgerVars
  <2>1. ledger' = ledger
    BY <1>1 DEF ledgerVars
  <2>2. CASE outbox' = outbox /\ SameCommitted
    BY <2>1, <2>2 DEF Prepared, Confirmed, SameCommitted
  <2>3. ASSUME NEW p \in Callers, PrepareMoves(p) PROVE Protocol!Next
    <3>1. job[p].rid \in Records
      BY <2>3 DEF PrepareMoves
    <3> QED BY <2>1, <2>3, <3>1, PrepareChooses DEF Protocol!Next
  <2>4. ASSUME NEW p \in Callers, FinishMoves(p) PROVE Protocol!Next
    <3>1. PICK r \in Records : r = job[p].rid
      BY <2>4 DEF FinishMoves
    <3> QED BY <2>1, <2>4, <3>1, FinishConfirms DEF Protocol!Next
  <2> QED BY <1>0, <1>1, <2>2, <2>3, <2>4, StoreEffect
<1>2. CASE TablesKept /\ \E p \in Callers : Endorse(p)
  BY <1>2 DEF TablesKept, Endorse, Prepared, Confirmed
<1>3. ASSUME TablesKept, NEW e \in inflight, Order(e)
      PROVE  Protocol!Next \/ UNCHANGED <<Prepared, ledger, Confirmed>>
  <2>1. e.record \in Records /\ e.tx \in TxIds
    BY DEF CommitInv, TypeOK, Transactions
  <2> QED BY <1>3, <2>1, OrderWrites DEF Protocol!Next
<1> QED BY <1>0, <1>1, <1>2, <1>3 DEF StepKinds

\* The pipeline implements the abstract protocol: one receipt is chosen for a
\* request, the ledger is written once and with it, and only then confirmed.
THEOREM PipelineImplementsProtocol == Spec => ImplementsProtocol
<1>1. Init => Protocol!Init
  BY DEF Init, StoreInit, Protocol!Init
<1>2. ASSUME CommitInv, CommitInv', [Next]_vars PROVE [Protocol!Next]_(Protocol!vars)
  BY <1>2, ProtocolStep, Mapping
<1> QED BY <1>1, <1>2, CommitInvariant, PTL DEF Spec, ImplementsProtocol, Protocol!Spec

----------------------------------------------------------------------------
(* Evidence is retained as long as the database reports its commits: the    *)
(* files a row or a receipt refers to are the ones it was made from.  (With *)
(* "store_ack" failures it does not hold: see the CommitLost instance.)     *)

NoLostCommits == "store_ack" \notin Faults

\* The step at hand is no insertion whose answer is lost.
Acknowledged == \A p \in Callers : ~InsertUnacknowledged(p)

FileSteps == {"insert", "unlink", "work", "sbom", "sign", "prepare"}

\* What a step of p does to the encrypted objects.
BlobEffect(p) ==
  LET r == job[p].rid IN
  \/ blobs' = blobs
  \/ /\ pc[p] = "write" /\ blobs[r] = None /\ blobs' = [blobs EXCEPT ![r] = p]
     /\ UNCHANGED storeVars
  \/ /\ pc[p] = "unlink" /\ blobs' = [blobs EXCEPT ![r] = None]
     /\ UNCHANGED storeVars

\* A submission appears only by its own insertion, a receipt by its own.
RowEffect(p) ==
  \A r \in Records :
    /\ Exists(r)' /\ ~Exists(r) =>
         pc[p] = "insert" /\ job[p].rid = r /\ cipher'[r] = p /\ blobs' = blobs
    /\ outbox'[r] # None /\ outbox[r] = None =>
         pc[p] = "prepare" /\ job[p].rid = r /\ outbox'[r].payload = job[p].receipt

LEMMA BlobEffects ==
  ASSUME NEW p \in Callers, Step(p) \/ Struck(p) \/ Called(p)
  PROVE  BlobEffect(p)
<1>1. CASE WriteBlob(p)
  BY <1>1 DEF WriteBlob, BlobEffect
<1>2. CASE Unlink(p)
  BY <1>2 DEF Unlink, BlobEffect
<1>3. CASE ~WriteBlob(p) /\ ~Unlink(p)
  BY <1>3 DEF BlobEffect, Step, Struck, Called, fileVars,
       Lookup, Insert, ReadState, TakeClaim, Work, WriteSbom, Sign, StoreReceipt, Fail,
       ReadPending, ReturnCached, Verify, CheckRow, CheckEvidence, CheckRecovery,
       HistoricalCommit, Submit, Endorse, AwaitCommit, Finalize, Return, ScanLedger, Compare,
       Reported, InsertUnacknowledged, WorkFails, LedgerUnreachable, FinishUnanswered,
       StoreUnreachable, Crash, StartRun, StartDeliver, StartScan
<1> QED BY <1>1, <1>2, <1>3

LEMMA RowEffects ==
  ASSUME Acknowledged, TypeInv, NEW p \in Callers, Step(p) \/ Struck(p) \/ Called(p)
  PROVE  RowEffect(p)
<1> DEFINE r == job[p].rid
<1>0. StoreTypeOK /\ OutboxInStep /\ (pc[p] # "idle" => r \in Records)
  BY LocalsOf DEF TypeInv, TypeOK
<1>1. ASSUME UNCHANGED storeVars PROVE RowEffect(p)
  BY <1>1 DEF RowEffect, Exists, storeVars
<1>2. CASE Insert(p)
  <2>1. CASE Ingest(r, job[p].doc, p)
    BY <1>0, <1>2, <2>1 DEF Insert, Ingest, Advance, RowEffect, Exists, StoreTypeOK, fileVars
  <2> QED BY <1>1, <1>2, <2>1 DEF Insert
<1>3. CASE TakeClaim(p)
  <2>1. CASE Claim(r)
    BY <1>0, <1>3, <2>1 DEF TakeClaim, Claim, ClaimRefused, Advance, RowEffect, Exists, StoreTypeOK
  <2> QED BY <1>1, <1>3, <2>1 DEF TakeClaim
<1>4. CASE StoreReceipt(p)
  <2>1. CASE Prepare(r, job[p].claimed, job[p].receipt)
    <3>1. /\ \A q \in Records : outbox'[q] # None /\ outbox[q] = None =>
               q = r /\ outbox'[r].payload = job[p].receipt
          /\ state[r] = "PROCESSING" /\ \A q \in Records \ {r} : state'[q] = state[q]
      BY <1>0, <1>4, <2>1 DEF StoreReceipt, Prepare, HoldsClaim, Advance, StoreTypeOK
    <3> QED BY <1>4, <3>1 DEF StoreReceipt, RowEffect, Exists
  <2> QED BY <1>1, <1>4, <2>1 DEF StoreReceipt
<1>5. CASE Fail(p)
  <2>1. CASE FailProcessing(r, job[p].claimed)
    BY <1>0, <1>5, <2>1 DEF Fail, FailProcessing, HoldsClaim, Advance, RowEffect, Exists, StoreTypeOK
  <2> QED BY <1>1, <1>5, <2>1 DEF Fail
<1>6. CASE Finalize(p) \/ FinishUnanswered(p)
  <2>1. CASE Finish(r, job[p].entry.snapshot, job[p].tx, job[p].entry.payload)
    <3>1. r \in Records /\ state[r] = "PREPARED" /\ outbox[r] # None
      BY <1>0, <1>6, <2>1 DEF Finalize, FinishUnanswered, Finish, FinishAllowed, OutboxInStep
    <3>2. \A q \in Records \ {r} : state'[q] = state[q] /\ outbox'[q] = outbox[q]
      BY <1>0, <2>1, <3>1 DEF Finish, Advance, StoreTypeOK
    <3> QED BY <3>1, <3>2 DEF RowEffect, Exists
  <2> QED BY <1>1, <1>6, <2>1 DEF Finalize, FinishUnanswered
<1>7. ~InsertUnacknowledged(p)
  BY DEF Acknowledged
<1>8. CASE Endorse(p)
  BY <1>1, <1>8 DEF Endorse
<1> QED BY <1>1, <1>2, <1>3, <1>4, <1>5, <1>6, <1>7, <1>8, QuietSteps DEF Step, Struck, storeVars, ledgerVars

\* A step of p leaves the files of the other callers alone.
LEMMA BystanderFiles ==
  ASSUME Acknowledged, EvidenceInv, Forward, NEW p \in Callers, Step(p) \/ Struck(p) \/ Called(p),
         NEW q \in Callers, q # p
  PROVE  HoldsFiles(q)'
<1> DEFINE r == job[q].rid
<1>0. /\ TypeInv /\ BlobEffect(p) /\ RowEffect(p) /\ pc'[q] = pc[q] /\ job'[q] = job[q]
      /\ HoldsFiles(p) /\ HoldsFiles(q)
  BY OneMoves, BlobEffects, RowEffects DEF EvidenceInv, CommitInv, TypeInv
<1>1. pc[q] # "idle" => r \in Records
  BY <1>0, LocalsOf
<1>2. q # None /\ blobs \in [Records -> Ciphers \cup {None}]
  BY <1>0, PipelineAssumption, StoreAssumption DEF TypeInv, TypeOK
<1>3. pc[q] \in {"insert", "unlink"} => blobs'[r] = q /\ ~Exists(r)'
  BY <1>0, <1>1, <1>2 DEF HoldsFiles, BlobEffect, RowEffect
<1>4. pc[q] \in {"work", "sbom", "sign", "prepare"} =>
        job[q].claimed > 0 /\ Exists(r)' /\ cipher'[r] = cipher[r] /\ document'[r] = document[r]
  BY <1>0, <1>1 DEF HoldsFiles, Forward
<1>5. pc[q] \in {"sign", "prepare"} => sboms'[r] = job[q].claimed
  BY <1>0, <1>1, <1>4 DEF HoldsFiles, Forward
<1> QED BY <1>0, <1>3, <1>4, <1>5 DEF HoldsFiles

LEMMA NoFiles == ASSUME NEW p \in Callers, pc'[p] \notin FileSteps PROVE HoldsFiles(p)'
BY DEF HoldsFiles, FileSteps

\* The caller's own step establishes what its next access relies on.
LEMMA ActorFiles ==
  ASSUME Acknowledged, EvidenceInv, NEW p \in Callers, Step(p) \/ Struck(p) \/ Called(p)
  PROVE  HoldsFiles(p)'
<1> DEFINE r == job[p].rid
<1>0. /\ TypeInv /\ job \in [Callers -> Jobs] /\ pc \in [Callers -> Steps] /\ job[p] \in Jobs
      /\ StoreTypeOK /\ blobs \in [Records -> Ciphers \cup {None}] /\ sboms \in [Records -> Nat]
      /\ HoldsFiles(p) /\ (pc[p] # "idle" => r \in Records)
  BY LocalsOf DEF EvidenceInv, CommitInv, TypeInv, TypeOK, CallersTypeOK
<1>1. ASSUME End(p) \/ Raise(p) \/ \E s \in Statuses : Report(p, s) PROVE HoldsFiles(p)'
  BY <1>0, <1>1, NoFiles DEF End, Raise, Report, Goto, FileSteps
<1>2. CASE WriteBlob(p)
  <2>1. CASE blobs[r] = None /\ blobs' = [blobs EXCEPT ![r] = p] /\ Keep(p, "insert")
    <3>1. ~Exists(r) /\ r \in Records
      BY <1>0, <1>2, <2>1 DEF WriteBlob, EvidenceInv, EvidenceRetained
    <3>2. blobs'[r] = p /\ pc'[p] = "insert" /\ job' = job /\ state' = state
      BY <1>0, <1>2, <2>1, <3>1 DEF WriteBlob, Keep, Goto, storeVars
    <3> QED BY <3>1, <3>2 DEF HoldsFiles, Exists
  <2> QED BY <1>1, <1>2, <2>1 DEF WriteBlob
<1>3. CASE Insert(p)
  <2>1. CASE Keep(p, "unlink") /\ UNCHANGED storeVars
    BY <1>0, <1>3, <2>1 DEF Insert, Keep, Goto, storeVars, fileVars, HoldsFiles, Exists
  <2>2. CASE Keep(p, "read")
    BY <1>0, <2>2, NoFiles DEF Keep, Goto, FileSteps
  <2> QED BY <1>3, <2>1, <2>2 DEF Insert
<1>4. CASE TakeClaim(p)
  <2>1. CASE /\ Claim(r) /\ job' = [job EXCEPT ![p].claimed = version[r] + 1] /\ Goto(p, "work")
    <3>1. /\ r \in Records /\ version[r] \in Nat
          /\ job'[p].claimed = version[r] + 1 /\ job'[p].rid = r /\ pc'[p] = "work"
          /\ state'[r] = "PROCESSING"
      BY <1>0, <1>4, <2>1 DEF TakeClaim, Claim, Advance, Goto, Jobs, StoreTypeOK
    <3> QED BY <3>1 DEF HoldsFiles, Exists
  <2> QED BY <1>1, <1>4, <2>1 DEF TakeClaim
<1>5. CASE Work(p)
  <2>1. /\ pc'[p] \in {"sbom", "fail"} /\ job' = job /\ pc[p] = "work"
        /\ UNCHANGED <<state, document, cipher>>
    BY <1>0, <1>5 DEF Work, Keep, Goto, storeVars
  <2> QED BY <1>0, <2>1 DEF HoldsFiles, Exists
<1>6. CASE WriteSbom(p)
  <2>1. CASE Keep(p, "sign") /\ sboms' = [sboms EXCEPT ![r] = job[p].claimed]
    BY <1>0, <1>6, <2>1 DEF WriteSbom, Keep, Goto, storeVars, HoldsFiles, Exists
  <2>2. CASE Keep(p, "fail")
    BY <1>0, <2>2, NoFiles DEF Keep, Goto, FileSteps
  <2> QED BY <1>6, <2>1, <2>2 DEF WriteSbom
<1>7. CASE Sign(p)
  <2>1. CASE job' = [job EXCEPT ![p].receipt = Receipt(p)] /\ Goto(p, "prepare")
    <3>1. /\ pc'[p] = "prepare" /\ pc[p] = "sign" /\ job'[p].rid = r /\ job'[p].claimed = job[p].claimed
          /\ job'[p].receipt = Receipt(p)
          /\ UNCHANGED <<state, document, cipher, blobs, sboms>>
      BY <1>0, <1>7, <2>1 DEF Sign, Goto, Jobs, storeVars, fileVars
    <3>2. /\ Receipt(p).sbom = job[p].claimed /\ Receipt(p).cipher = cipher[r]
          /\ Receipt(p).document = document[r]
      BY DEF Receipt
    <3> QED BY <1>0, <3>1, <3>2 DEF HoldsFiles, Exists
  <2>2. CASE Keep(p, "fail")
    BY <1>0, <2>2, NoFiles DEF Keep, Goto, FileSteps
  <2> QED BY <1>7, <2>1, <2>2 DEF Sign
<1>8. CASE Lookup(p) \/ Unlink(p) \/ ReadState(p) \/ StoreReceipt(p) \/ Fail(p) \/ WorkFails(p)
  BY <1>0, <1>1, <1>8, NoFiles DEF Lookup, Unlink, ReadState, StoreReceipt, Fail, WorkFails,
       Keep, Goto, FileSteps
<1>9. CASE ReadPending(p) \/ ReturnCached(p) \/ Verify(p) \/ CheckRow(p) \/ CheckEvidence(p) \/ CheckRecovery(p)
           \/ HistoricalCommit(p)
  BY <1>0, <1>1, <1>9, NoFiles DEF ReadPending, ReturnCached, Verify, CheckRow, CheckEvidence,
       CheckRecovery, HistoricalCommit, Keep, Goto, FileSteps
<1>10. CASE Submit(p) \/ Endorse(p) \/ AwaitCommit(p) \/ Finalize(p) \/ Return(p) \/ ScanLedger(p)
            \/ Compare(p) \/ Reported(p)
  BY <1>0, <1>1, <1>10, NoFiles DEF Submit, Endorse, AwaitCommit, Finalize, Return, ScanLedger,
       Compare, PendingStatus, Statuses, Reported, Keep, Goto, FileSteps
<1>11. CASE LedgerUnreachable(p) \/ FinishUnanswered(p) \/ Crash(p) \/ Called(p)
  BY <1>0, <1>1, <1>11, NoFiles DEF LedgerUnreachable, FinishUnanswered, Crash, Called, StartRun,
       StartDeliver, StartScan, Goto, FileSteps
<1>12. ~InsertUnacknowledged(p)
  BY DEF Acknowledged
<1>13. CASE StoreUnreachable(p)
  <2>1. CASE pc[p] = "insert" /\ Keep(p, "unlink")
    BY <1>0, <1>13, <2>1 DEF StoreUnreachable, Keep, Goto, storeVars, fileVars, HoldsFiles, Exists
  <2>2. CASE Keep(p, "fail")
    BY <1>0, <2>2, NoFiles DEF Keep, Goto, FileSteps
  <2> QED BY <1>1, <1>13, <2>1, <2>2 DEF StoreUnreachable
<1> QED BY <1>2, <1>3, <1>4, <1>5, <1>6, <1>7, <1>8, <1>9, <1>10, <1>11, <1>12, <1>13 DEF Step, Struck

\* Rows and receipts keep the files they refer to.
RowsBacked == \A r \in Records : Exists(r) => cipher[r] # None
ReceiptsBacked == \A r \in Records : outbox[r] # None => outbox[r].payload.sbom > 0

LEMMA EvidenceKept ==
  ASSUME Acknowledged, EvidenceInv, Forward, NEW p \in Callers, Step(p) \/ Struck(p) \/ Called(p)
  PROVE  EvidenceRetained' /\ RowsBacked' /\ ReceiptsBacked'
<1> SUFFICES ASSUME NEW r \in Records
             PROVE  /\ Exists(r)' => blobs'[r] = cipher'[r] /\ cipher'[r] # None
                    /\ outbox'[r] # None =>
                         /\ sboms'[r] = outbox'[r].payload.sbom /\ outbox'[r].payload.sbom > 0
                         /\ outbox'[r].payload.cipher = cipher'[r]
                         /\ outbox'[r].payload.document = document'[r]
  BY DEF EvidenceRetained, RowsBacked, ReceiptsBacked
<1>0. /\ TypeInv /\ BlobEffect(p) /\ RowEffect(p) /\ HoldsFiles(p)
      /\ blobs \in [Records -> Ciphers \cup {None}] /\ sboms \in [Records -> Nat]
      /\ p # None /\ (pc[p] # "idle" => job[p].rid \in Records)
  BY BlobEffects, RowEffects, LocalsOf, PipelineAssumption, StoreAssumption
     DEF EvidenceInv, CommitInv, TypeInv, TypeOK
<1>1. CASE Exists(r)
  <2>1. cipher'[r] = cipher[r] /\ blobs[r] = cipher[r] /\ cipher[r] # None
    BY <1>1 DEF Forward, EvidenceInv, EvidenceRetained
  <2>2. blobs'[r] = blobs[r]
    BY <1>0, <1>1, <2>1 DEF BlobEffect, HoldsFiles
  <2> QED BY <2>1, <2>2, <1>0, <1>1 DEF Forward, EvidenceInv, EvidenceRetained, RowEffect, HoldsFiles
<1>2. CASE ~Exists(r)
  <2>1. outbox[r] = None
    BY <1>0, <1>2 DEF TypeInv, OutboxInStep, Exists
  <2>2. Exists(r)' => blobs'[r] = cipher'[r] /\ cipher'[r] # None
    BY <1>0, <1>2 DEF RowEffect, HoldsFiles
  <2>3. outbox'[r] = None
    BY <1>0, <1>2, <2>1 DEF RowEffect, HoldsFiles
  <2> QED BY <2>2, <2>3
<1> QED BY <1>1, <1>2

LEMMA EvidenceInvInit == Init => EvidenceInv
<1>1. Init => CommitInv
  BY CommitInvInit
<1> QED BY <1>1 DEF EvidenceInv, Init, StoreInit, EvidenceRetained, HoldsFiles, Exists

LEMMA EvidenceInvStep == ASSUME Acknowledged, EvidenceInv, [Next]_vars PROVE EvidenceInv'
<1>0. CommitInv' /\ TypeInv /\ Forward
  BY CommitInvStep, ForwardStep DEF EvidenceInv, CommitInv, TypeInv
<1>1. ASSUME NEW p \in Callers, Step(p) \/ Struck(p) \/ Called(p) PROVE EvidenceInv'
  <2>1. \A q \in Callers : HoldsFiles(q)'
    BY <1>0, <1>1, BystanderFiles, ActorFiles
  <2>2. EvidenceRetained' /\ RowsBacked' /\ ReceiptsBacked'
    BY <1>0, <1>1, EvidenceKept
  <2> QED BY <1>0, <2>1, <2>2 DEF EvidenceInv, RowsBacked, ReceiptsBacked
<1>2. ASSUME UNCHANGED <<pc, job, fileVars, document, cipher, outbox>>,
             \A r \in Records : Exists(r)' <=> Exists(r)
      PROVE  EvidenceInv'
  <2>1. \A q \in Callers : pc[q] # "idle" => job[q].rid \in Records
    BY <1>0, LocalsOf
  <2>2. \A q \in Callers : HoldsFiles(q)'
    BY <1>2, <2>1 DEF EvidenceInv, HoldsFiles, fileVars
  <2>3. EvidenceRetained' /\ RowsBacked' /\ ReceiptsBacked'
    BY <1>2 DEF EvidenceInv, EvidenceRetained, RowsBacked, ReceiptsBacked, fileVars
  <2> QED BY <1>0, <2>2, <2>3 DEF EvidenceInv, RowsBacked, ReceiptsBacked
<1>3. CASE RecoverLeases
  <2>1. \A r \in Records : Exists(r)' <=> Exists(r)
    BY <1>3 DEF RecoverLeases, RecoverExpired, Expired, Exists
  <2> QED BY <1>2, <1>3, <2>1 DEF RecoverLeases, RecoverExpired
<1>4. CASE (\E e \in inflight : Order(e)) \/ ChangePolicy \/ RevokeKey \/ Tick \/ UNCHANGED vars
  BY <1>2, <1>4 DEF Order, ChangePolicy, RevokeKey, Tick, vars, storeVars, fileVars, Exists
<1> QED BY <1>1, <1>3, <1>4 DEF Next

\* As long as no database commit goes unreported, a stored request keeps its own
\* encrypted object and a receipt the SBOM file it is bound to, whatever other
\* callers write, refuse, unlink or leave behind.
THEOREM EvidenceRetainedHolds ==
  ASSUME NoLostCommits
  PROVE  Spec => []EvidenceRetained
<1>1. EvidenceInv /\ [Next]_vars => EvidenceInv'
  <2>1. Acknowledged
    BY DEF Acknowledged, InsertUnacknowledged, Fault, NoLostCommits
  <2> QED BY <2>1, EvidenceInvStep
<1>2. EvidenceInv => EvidenceRetained
  BY DEF EvidenceInv
<1> QED BY <1>1, <1>2, EvidenceInvInit, PTL DEF Spec

----------------------------------------------------------------------------
(* What reconcile counts: without a disturbance, only rows with a cause.    *)

\* A step of a caller does not touch the configuration or the keys.
LEMMA TrustKept ==
  ASSUME NEW p \in Callers, Step(p) \/ Struck(p) \/ Called(p)
  PROVE  UNCHANGED trustVars
BY DEF Step, Struck, Called, Lookup, WriteBlob, Insert, Unlink, ReadState, TakeClaim, Work,
       WriteSbom, Sign, StoreReceipt, Fail, ReadPending, ReturnCached, Verify, CheckRow,
       CheckEvidence, CheckRecovery, HistoricalCommit, Submit, Endorse, AwaitCommit, Finalize,
       Return, ScanLedger, Compare, Reported, InsertUnacknowledged, WorkFails, LedgerUnreachable,
       FinishUnanswered, StoreUnreachable, Crash, StartRun, StartDeliver, StartScan

\* Only the clock's own step moves it.
LEMMA ClockKept ==
  ASSUME NEW p \in Callers, Step(p) \/ Struck(p) \/ Called(p)
  PROVE  now' = now
<1>1. CASE UNCHANGED storeVars
  BY <1>1 DEF storeVars
<1>2. CASE Insert(p) \/ InsertUnacknowledged(p)
  BY <1>2 DEF Insert, InsertUnacknowledged, Ingest, storeVars
<1>3. CASE TakeClaim(p) \/ StoreReceipt(p) \/ Fail(p)
  BY <1>3 DEF TakeClaim, StoreReceipt, Fail, Claim, Prepare, FailProcessing, storeVars
<1>4. CASE Finalize(p) \/ FinishUnanswered(p) \/ Endorse(p)
  BY <1>4 DEF Finalize, FinishUnanswered, Finish, Endorse, storeVars
<1> QED BY <1>1, <1>2, <1>3, <1>4, QuietSteps DEF Step, Struck

\* A step of a caller orders nothing.
LEMMA InflightKept ==
  ASSUME NEW p \in Callers, Step(p) \/ Struck(p) \/ Called(p)
  PROVE  inflight \subseteq inflight' /\ ledger' = ledger
<1>1. CASE UNCHANGED ledgerVars
  BY <1>1 DEF ledgerVars
<1>2. CASE Endorse(p)
  BY <1>2 DEF Endorse
<1>3. CASE \/ Insert(p) \/ InsertUnacknowledged(p) \/ TakeClaim(p) \/ StoreReceipt(p) \/ Fail(p)
           \/ Finalize(p) \/ FinishUnanswered(p)
  BY <1>1, <1>3 DEF Insert, InsertUnacknowledged, TakeClaim, StoreReceipt, Fail, Finalize,
                    FinishUnanswered
<1> QED BY <1>1, <1>2, <1>3, QuietSteps DEF Step, Struck

\* A cause stays a cause.
LEMMA CauseKept ==
  ASSUME TypeInv, Forward, NEW r \in Records, outbox[r] # None, now' \in Nat, now' >= now, Cause(r)
  PROVE  Cause(r)'
<1>1. outbox[r].payload.expires \in Nat /\ now \in Nat
  BY PipelineAssumption DEF TypeInv, TypeOK, StoreTypeOK, OutboxRows, Receipts
<1>2. outbox'[r].payload = outbox[r].payload
  BY DEF Forward
<1>3. CASE ledger[r] # None
  BY <1>3 DEF Forward, Cause
<1>4. CASE outbox[r].payload.expires <= now
  <2>1. outbox[r].payload.expires <= now'
    BY <1>1, <1>4
  <2> QED BY <1>2, <2>1 DEF Cause
<1> QED BY <1>3, <1>4 DEF Cause

\* What a caller may rely on stays while it does nothing.
LEMMA BystanderCauses ==
  ASSUME TypeInv, Forward, NEW q \in Callers, CausesKept(q), pc'[q] = pc[q], job'[q] = job[q],
         policy' = policy, now' \in Nat, now' >= now,
         \A e \in inflight : e \in inflight' \/ ledger'[e.record] # None
  PROVE  CausesKept(q)'
<1> DEFINE r == job[q].rid
<1>0. pc[q] # "idle" => r \in Records
  BY LocalsOf
<1>1. pc[q] # "idle" /\ job[q].mode # "call" => outbox'[r] # None
  BY <1>0 DEF CausesKept, Forward
<1>2. r \in Records /\ ledger[r] # None => ledger'[r] # None
  BY DEF Forward
<1>3. pc[q] = "await" => ledger'[r] # None \/ \E e \in inflight' : e.tx = job[q].tx /\ e.record = r
  BY <1>0, <1>2 DEF CausesKept
<1>4. pc[q] \in {"recover", "history"} => job[q].entry.payload.expires <= now'
  <2>1. SUFFICES ASSUME pc[q] \in {"recover", "history"} PROVE job[q].entry.payload.expires <= now'
    OBVIOUS
  <2>2. job[q].entry \in OutboxRows
    BY <2>1, LocalsOf DEF LocalsAssigned, EntrySteps, DeliverSteps
  <2>3. job[q].entry.payload.expires \in Nat /\ now \in Nat
    BY <2>2, PipelineAssumption DEF TypeInv, TypeOK, StoreTypeOK, OutboxRows, Receipts
  <2>4. job[q].entry.payload.expires <= now
    BY <2>1 DEF CausesKept
  <2> QED BY <2>3, <2>4
<1>5. pc[q] = "report" => job[q].mode # "call" /\ (Counted(job[q].found) => Cause(r)')
  BY <1>0, CauseKept DEF CausesKept
<1> QED BY <1>0, <1>1, <1>2, <1>3, <1>4, <1>5 DEF CausesKept

\* Going on with the same request, to a step at which nothing more is relied on.
LEMMA MoveCauses ==
  ASSUME TypeInv, Forward, NEW p \in Callers, CausesKept(p), pc[p] # "idle",
         pc'[p] \notin {"idle", "scan", "prepare", "cached", "recover", "history", "await",
                        "compare", "report"},
         job'[p].rid = job[p].rid, job'[p].mode = job[p].mode
  PROVE  CausesKept(p)'
<1>1. job[p].rid \in Records
  BY LocalsOf
<1> QED BY <1>1 DEF CausesKept, Forward

LEMMA EndCauses ==
  ASSUME TypeInv, NEW p \in Callers, End(p) PROVE CausesKept(p)'
<1>1. pc'[p] = "idle" /\ job'[p] = NoJob
  BY DEF End, Goto, TypeInv, TypeOK, CallersTypeOK
<1> QED BY <1>1 DEF CausesKept

\* A report whose status, if it is counted, has a cause.
LEMMA ReportCauses ==
  ASSUME TypeInv, Forward, NEW p \in Callers, CausesKept(p), pc[p] # "idle", job[p].mode # "call",
         NEW s, Report(p, s), Counted(s) => Cause(job[p].rid), now' = now
  PROVE  CausesKept(p)'
<1>0. SUFFICES ASSUME NEW r \in Records, r = job[p].rid PROVE CausesKept(p)'
  BY LocalsOf
<1>1. /\ pc'[p] = "report" /\ job'[p].rid = r
      /\ job'[p].mode = job[p].mode /\ job'[p].found = s
  BY <1>0 DEF Report, Goto, NoJob, TypeInv, TypeOK, CallersTypeOK
<1>2. outbox[r] # None /\ now' \in Nat /\ now' >= now
  BY <1>0 DEF CausesKept, TypeInv, TypeOK, StoreTypeOK
<1>3. outbox'[r] # None /\ (Counted(s) => Cause(r)')
  BY <1>0, <1>2, CauseKept DEF Forward
<1> QED BY <1>1, <1>3 DEF CausesKept, Cause

LEMMA RaiseCauses ==
  ASSUME TypeInv, Forward, NEW p \in Callers, CausesKept(p), pc[p] # "idle",
         Raise(p), job[p].mode # "call" => Cause(job[p].rid), now' = now
  PROVE  CausesKept(p)'
BY EndCauses, ReportCauses DEF Raise

\* Ingestion, the worker and the first step of a call rely on nothing, but for
\* the policy a receipt has been signed under.
LEMMA WorkerCauses ==
  ASSUME Undisturbed, Forward, NEW p \in Callers,
         \/ Lookup(p) \/ WriteBlob(p) \/ Insert(p) \/ Unlink(p) \/ ReadState(p) \/ TakeClaim(p)
         \/ Work(p) \/ WriteSbom(p) \/ Sign(p) \/ StoreReceipt(p) \/ Fail(p) \/ Called(p)
  PROVE  CausesKept(p)'
<1>0. /\ TypeInv /\ CausesKept(p) /\ UNCHANGED trustVars
      /\ pc \in [Callers -> Steps] /\ job \in [Callers -> Jobs]
  BY TrustKept DEF Undisturbed, EvidenceInv, CommitInv, TypeInv, TypeOK, CallersTypeOK, Step
<1>1. CASE End(p)
  BY <1>0, <1>1, EndCauses
<1>2. CASE \/ Lookup(p) \/ WriteBlob(p) \/ Insert(p) \/ Unlink(p) \/ ReadState(p) \/ TakeClaim(p)
           \/ Work(p) \/ WriteSbom(p) \/ StoreReceipt(p) \/ Fail(p)
  <2>1. CASE /\ pc[p] # "idle" /\ job'[p].rid = job[p].rid /\ job'[p].mode = job[p].mode
             /\ pc'[p] \in {"write", "insert", "unlink", "read", "claim", "pending",
                            "work", "sbom", "sign", "fail"}
    BY <1>0, <2>1, MoveCauses
  <2>2. CASE TakeClaim(p)
    BY <1>0, <1>1, <2>1, <2>2 DEF TakeClaim, Goto, Jobs
  <2>3. CASE Lookup(p) \/ WriteBlob(p) \/ Insert(p) \/ Unlink(p) \/ ReadState(p)
    BY <1>0, <1>1, <2>1, <2>3 DEF Lookup, WriteBlob, Insert, Unlink, ReadState, Keep, Goto
  <2>4. CASE Work(p) \/ WriteSbom(p) \/ StoreReceipt(p) \/ Fail(p)
    BY <1>0, <1>1, <2>1, <2>4 DEF Work, WriteSbom, StoreReceipt, Fail, Keep, Goto
  <2> QED BY <1>2, <2>2, <2>3, <2>4
<1>3. CASE Sign(p)
  <2>1. CASE Keep(p, "fail")
    BY <1>0, <1>3, <2>1, MoveCauses DEF Keep, Goto, Sign
  <2>2. CASE job' = [job EXCEPT ![p].receipt = Receipt(p)] /\ Goto(p, "prepare")
    <3>1. /\ pc[p] = "sign" /\ pc'[p] = "prepare" /\ job'[p].receipt = Receipt(p)
          /\ job'[p].rid = job[p].rid /\ job'[p].mode = job[p].mode
      BY <1>0, <1>3, <2>2 DEF Sign, Goto
    <3>2. job'[p].receipt.policy = policy'
      BY <1>0, <3>1 DEF Receipt, trustVars
    <3>3. job[p].rid \in Records
      BY <1>0, <3>1, LocalsOf
    <3> QED BY <1>0, <3>1, <3>2, <3>3 DEF CausesKept, Forward
  <2> QED BY <1>3, <2>1, <2>2 DEF Sign
<1>4. CASE Called(p)
  <2>1. ASSUME NEW r \in Records, NEW d \in Documents, StartRun(p, r, d) PROVE CausesKept(p)'
    BY <1>0, <2>1 DEF StartRun, Goto, CausesKept, NoJob
  <2>2. ASSUME NEW r \in Records, StartDeliver(p, r) PROVE CausesKept(p)'
    BY <1>0, <2>2 DEF StartDeliver, Goto, CausesKept, NoJob
  <2>3. ASSUME NEW r \in Records, NEW m \in Modes, StartScan(p, r, m) PROVE CausesKept(p)'
    BY <1>0, <2>3 DEF StartScan, Goto, CausesKept, NoJob, Forward
  <2> QED BY <1>4, <2>1, <2>2, <2>3 DEF Called, Modes
<1> QED BY <1>2, <1>3, <1>4

\* A delivery of a scan fails only for a cause.
LEMMA DeliverCauses ==
  ASSUME Undisturbed, Forward, NEW p \in Callers,
         \/ ReadPending(p) \/ ReturnCached(p) \/ Verify(p) \/ CheckRow(p) \/ CheckEvidence(p)
         \/ CheckRecovery(p) \/ HistoricalCommit(p) \/ Submit(p) \/ AwaitCommit(p) \/ Finalize(p)
  PROVE  CausesKept(p)'
<1>0. SUFFICES ASSUME NEW r \in Records, r = job[p].rid PROVE CausesKept(p)'
  BY LocalsOf DEF Undisturbed, EvidenceInv, CommitInv, TypeInv, ReadPending, ReturnCached, Verify,
     CheckRow, CheckEvidence, CheckRecovery, HistoricalCommit, Submit, AwaitCommit, Finalize
<1>1. /\ CommitInv /\ TypeInv /\ CausesKept(p) /\ HoldsEntry(p) /\ HoldsAck(p)
      /\ now' = now /\ now \in Nat
      /\ pc \in [Callers -> Steps] /\ job \in [Callers -> Jobs]
      /\ LocalsAssigned(pc[p], job[p])
  BY ClockKept, LocalsOf DEF Undisturbed, EvidenceInv, CommitInv, TypeInv, TypeOK, StoreTypeOK,
     CallersTypeOK, Step
<1>2. outbox[r] # None => /\ outbox[r].payload.expires \in Nat
                          /\ outbox[r].payload.policy = policy
  BY <1>1, PipelineAssumption DEF Undisturbed, TypeInv, TypeOK, StoreTypeOK, OutboxRows, Receipts
<1>3. outbox[r] # None => \/ state[r] = "COMMITTED" /\ ledger[r] # None
                          \/ /\ state[r] = "PREPARED" /\ version[r] = outbox[r].snapshot
                             /\ outbox[r].status = "PENDING"
  BY <1>1 DEF CommitInv, OutboxInStep, CommittedIsLedgered
<1>4. pc[p] \in EntrySteps => outbox[r] # None /\ job[p].entry.payload = outbox[r].payload
                             /\ job[p].entry.snapshot = outbox[r].snapshot
  BY <1>0, <1>1 DEF HoldsEntry
<1>5. ASSUME Raise(p), pc[p] # "idle", job[p].mode # "call" => Cause(r) PROVE CausesKept(p)'
  BY <1>0, <1>1, <1>5, RaiseCauses
<1>6. ASSUME pc[p] # "idle", job'[p].rid = job[p].rid, job'[p].mode = job[p].mode,
             pc'[p] \in {"verify", "row", "evidence", "submit", "endorse", "finish", "done"}
      PROVE  CausesKept(p)'
  BY <1>1, <1>6, MoveCauses
<1>7. CASE ReadPending(p)
  <2>1. CASE outbox[r] # None /\ outbox[r].status = "CONFIRMED"
    <3>1. /\ pc'[p] = "cached" /\ pc[p] = "pending"
          /\ job'[p].rid = r /\ job'[p].mode = job[p].mode
      BY <1>0, <1>1, <1>7, <2>1 DEF ReadPending, Goto, Jobs
    <3>2. ledger'[r] # None /\ outbox'[r] # None
      BY <1>3, <2>1 DEF Forward
    <3> QED BY <3>1, <3>2 DEF CausesKept
  <2>2. CASE outbox[r] # None /\ outbox[r].status # "CONFIRMED"
    BY <1>0, <1>1, <1>6, <1>7, <2>2 DEF ReadPending, Goto, Jobs
  <2>3. CASE outbox[r] = None
    BY <1>0, <1>1, <1>5, <1>7, <2>3 DEF ReadPending, CausesKept
  <2> QED BY <2>1, <2>2, <2>3
<1>8. CASE ReturnCached(p)
  <2>1. Cause(r)
    BY <1>0, <1>1, <1>8 DEF ReturnCached, CausesKept, Cause
  <2>2. pc[p] = "cached" /\ (Raise(p) \/ (/\ pc'[p] = "done" /\ job'[p].rid = job[p].rid
                                        /\ job'[p].mode = job[p].mode))
    BY <1>1, <1>8 DEF ReturnCached, Goto, Jobs
  <2> QED BY <1>5, <1>6, <2>1, <2>2
<1>9. CASE Verify(p)
  <2>1. CASE job[p].entry.payload.expires > now
    BY <1>1, <1>6, <1>9, <2>1 DEF Verify, Keep, Goto, Undisturbed
  <2>2. CASE ~(job[p].entry.payload.expires > now)
    <3>1. pc[p] = "verify" /\ pc'[p] = "recover" /\ job'[p] = job[p]
      BY <1>1, <1>9, <2>2 DEF Verify, Keep, Goto
    <3>2. outbox[r] # None /\ job[p].entry.payload = outbox[r].payload
      BY <1>4, <3>1 DEF EntrySteps, DeliverSteps
    <3>3. job[p].entry.payload.expires <= now'
      BY <1>1, <1>2, <2>2, <3>2
    <3> QED BY <1>0, <3>1, <3>2, <3>3 DEF CausesKept, Forward
  <2> QED BY <2>1, <2>2
<1>10. CASE CheckRow(p) \/ CheckRecovery(p)
  <2>1. pc[p] \in {"row", "recover"} /\ outbox[r] # None
    BY <1>4, <1>10 DEF CheckRow, CheckRecovery, EntrySteps, DeliverSteps
  <2>2. CASE ~RowCurrent(p)
    <3>1. Cause(r)
      BY <1>0, <1>3, <1>4, <2>1, <2>2 DEF RowCurrent, Cause, EntrySteps, DeliverSteps
    <3>2. Raise(p)
      BY <1>10, <2>2 DEF CheckRow, CheckRecovery
    <3> QED BY <1>5, <2>1, <3>1, <3>2
  <2>3. CASE RowCurrent(p) /\ CheckRow(p)
    BY <1>1, <1>6, <2>3 DEF CheckRow, Keep, Goto
  <2>4. CASE RowCurrent(p) /\ CheckRecovery(p)
    <3>1. pc[p] = "recover" /\ pc'[p] = "history" /\ job'[p] = job[p]
      BY <1>1, <2>4 DEF CheckRecovery, Keep, Goto
    <3> QED BY <1>0, <1>1, <2>1, <3>1 DEF CausesKept, Forward
  <2> QED BY <1>10, <2>2, <2>3, <2>4
<1>11. CASE CheckEvidence(p)
  <2>1. pc[p] = "evidence" /\ outbox[r] # None /\ job[p].entry.payload = outbox[r].payload
    BY <1>4, <1>11 DEF CheckEvidence, EntrySteps, DeliverSteps
  <2>2. Exists(r)
    BY <1>3, <2>1 DEF Exists
  <2>3. EvidenceMatches(p)
    BY <1>0, <1>2, <2>1, <2>2 DEF EvidenceMatches, Undisturbed, EvidenceInv, EvidenceRetained
  <2> QED BY <1>1, <1>6, <1>11, <2>1, <2>3 DEF CheckEvidence, Keep, Goto
<1>12. CASE HistoricalCommit(p)
  <2>1. pc[p] = "history" /\ Cause(r)
    BY <1>1, <1>4, <1>12 DEF HistoricalCommit, CausesKept, Cause, EntrySteps, DeliverSteps
  <2>2. Raise(p) \/ (/\ pc'[p] = "finish" /\ job'[p].rid = job[p].rid
                    /\ job'[p].mode = job[p].mode)
    BY <1>1, <1>12 DEF HistoricalCommit, Goto, Jobs
  <2> QED BY <1>5, <1>6, <2>1, <2>2
<1>13. CASE Submit(p)
  <2>1. pc[p] = "submit" /\ (\/ Raise(p) /\ ledger[r] # None
                            \/ /\ pc'[p] \in {"finish", "endorse"} /\ job'[p].rid = job[p].rid
                               /\ job'[p].mode = job[p].mode)
    BY <1>0, <1>1, <1>13 DEF Submit, Goto, Keep, Jobs
  <2> QED BY <1>5, <1>6, <2>1 DEF Cause
<1>14. CASE AwaitCommit(p)
  <2>1. pc[p] = "await" /\ ledger[r] # None
    BY <1>0, <1>1, <1>14 DEF AwaitCommit, CausesKept
  <2>2. Raise(p) \/ (/\ pc'[p] = "finish" /\ job'[p].rid = job[p].rid
                    /\ job'[p].mode = job[p].mode)
    BY <1>1, <1>14 DEF AwaitCommit, Keep, Goto
  <2> QED BY <1>5, <1>6, <2>1, <2>2 DEF Cause
<1>15. CASE Finalize(p)
  <2>1. pc[p] = "finish" /\ ledger[r] # None
    BY <1>0, <1>1, <1>15 DEF Finalize, HoldsAck
  <2>2. Raise(p) \/ (/\ pc'[p] = "done" /\ job'[p].rid = job[p].rid
                    /\ job'[p].mode = job[p].mode)
    BY <1>1, <1>15 DEF Finalize, Keep, Goto
  <2> QED BY <1>5, <1>6, <2>1, <2>2 DEF Cause
<1> QED BY <1>7, <1>8, <1>9, <1>10, <1>11, <1>12, <1>13, <1>14, <1>15

\* An endorsement is refused only for a cause; a comparison counts only for one.
LEMMA ScanCauses ==
  ASSUME Undisturbed, Forward, NEW p \in Callers,
         Endorse(p) \/ Return(p) \/ ScanLedger(p) \/ Compare(p) \/ Reported(p)
  PROVE  CausesKept(p)'
<1>0. SUFFICES ASSUME NEW r \in Records, r = job[p].rid PROVE CausesKept(p)'
  BY LocalsOf DEF Undisturbed, EvidenceInv, CommitInv, TypeInv, Endorse, Return, ScanLedger,
     Compare, Reported
<1>1. /\ CommitInv /\ TypeInv /\ CausesKept(p) /\ HoldsEntry(p) /\ HoldsAck(p)
      /\ now' = now /\ now \in Nat
      /\ pc \in [Callers -> Steps] /\ job \in [Callers -> Jobs]
      /\ LocalsAssigned(pc[p], job[p])
  BY ClockKept, LocalsOf DEF Undisturbed, EvidenceInv, CommitInv, TypeInv, TypeOK, StoreTypeOK,
     CallersTypeOK, Step
<1>2. pc[p] \in EntrySteps => outbox[r] # None /\ job[p].entry.payload = outbox[r].payload
  BY <1>0, <1>1 DEF HoldsEntry
<1>3. outbox[r] # None => outbox[r].payload.expires \in Nat
  BY <1>1, PipelineAssumption DEF TypeInv, TypeOK, StoreTypeOK, OutboxRows, Receipts
<1>4. ASSUME Raise(p), pc[p] # "idle", job[p].mode # "call" => Cause(r) PROVE CausesKept(p)'
  BY <1>0, <1>1, <1>4, RaiseCauses
<1>5. ASSUME NEW s, Report(p, s), pc[p] # "idle", job[p].mode # "call", Counted(s) => Cause(r)
      PROVE  CausesKept(p)'
  BY <1>0, <1>1, <1>5, ReportCauses
<1>6. CASE Endorse(p)
  <2>1. /\ pc[p] = "endorse" /\ outbox[r] # None /\ job[p].entry.payload = outbox[r].payload
        /\ "ledger" \notin revoked
    BY <1>2, <1>6 DEF Endorse, EntrySteps, DeliverSteps, Undisturbed
  <2>2. CASE Raise(p) /\ ~(ledger[r] = None /\ job[p].entry.payload.expires > now)
    <3>1. Cause(r)
      BY <1>1, <1>3, <2>1, <2>2 DEF Cause
    <3> QED BY <1>4, <2>1, <2>2, <3>1
  <2>3. CASE Goto(p, "await")
    <3>0. ~Raise(p)
      BY <1>1, <2>3 DEF Goto, Raise, End, Report
    <3>1. PICK tx \in TxIds \ UsedTxIds :
            /\ inflight' = inflight \cup
                 {[record |-> job[p].rid, payload |-> job[p].entry.payload, tx |-> tx]}
            /\ job' = [job EXCEPT ![p].tx = tx]
      BY <1>6, <3>0, Zenon DEF Endorse
    <3>2. /\ pc'[p] = "await" /\ job'[p].rid = r /\ job'[p].tx = tx
          /\ job'[p].mode = job[p].mode
      BY <1>0, <1>1, <2>3, <3>1 DEF Goto, Jobs
    <3>3. \E e \in inflight' : e.tx = job'[p].tx /\ e.record = r
      <4> DEFINE e == [record |-> job[p].rid, payload |-> job[p].entry.payload, tx |-> tx]
      <4>1. e \in inflight' /\ e.record = r /\ e.tx = job'[p].tx
        BY <1>0, <3>1, <3>2
      <4> HIDE DEF e
      <4> QED BY <4>1
    <3> QED BY <2>1, <3>2, <3>3 DEF CausesKept, Forward
  <2> QED BY <1>0, <1>6, <2>1, <2>2, <2>3 DEF Endorse
<1>7. CASE Return(p)
  BY <1>1, <1>5, <1>7, EndCauses DEF Return, Counted
<1>8. CASE ScanLedger(p)
  <2>1. pc[p] = "scan" /\ job[p].tx = None /\ outbox[r] # None /\ job[p].mode # "call"
    BY <1>1, <1>2, <1>8 DEF ScanLedger, CausesKept, EntrySteps, LocalsAssigned, ScanSteps
  <2>2. CASE Raise(p) /\ ledger[r] # None
    BY <1>4, <2>1, <2>2 DEF Cause
  <2>3. CASE /\ pc'[p] = "compare" /\ job'[p].rid = r /\ job'[p].mode = job[p].mode
             /\ job'[p].tx # None => ledger[r] # None
    BY <2>1, <2>3 DEF CausesKept, Forward
  <2>4. \/ Raise(p) /\ ledger[r] # None
        \/ /\ pc'[p] = "compare" /\ job'[p].rid = r /\ job'[p].mode = job[p].mode
           /\ job'[p].tx # None => ledger[r] # None
    BY <1>0, <1>1, <1>8, <2>1 DEF ScanLedger, Recorded, Keep, Goto, Jobs
  <2> QED BY <2>2, <2>3, <2>4
<1>9. CASE Compare(p)
  <2>1. /\ pc[p] = "compare" /\ outbox[r] # None /\ job[p].mode # "call"
        /\ job[p].tx # None => ledger[r] # None
    BY <1>0, <1>1, <1>2, <1>9 DEF Compare, CausesKept, EntrySteps, LocalsAssigned, ScanSteps
  <2>2. CASE job[p].entry.status = "CONFIRMED"
    <3>1. Cause(r)
      BY <1>0, <1>1, <2>1, <2>2, ConfirmedEntry DEF Cause, EntrySteps
    <3>2. \E s : Report(p, s)
      BY <1>9, <2>2 DEF Compare
    <3> QED BY <1>5, <2>1, <3>1, <3>2
  <2>3. CASE job[p].mode = "look" /\ Report(p, PendingStatus(p))
    <3>1. Counted(PendingStatus(p)) => Cause(r)
      BY <2>1 DEF Counted, PendingStatus, Cause
    <3> QED BY <1>5, <2>1, <2>3, <3>1
  <2>4. CASE /\ pc'[p] = "pending" /\ job'[p].rid = job[p].rid /\ job'[p].mode = job[p].mode
    BY <1>1, <2>1, <2>4, MoveCauses
  <2>5. CASE job' = [job EXCEPT ![p].entry = None, ![p].tx = None] /\ Goto(p, "pending")
    BY <1>1, <2>4, <2>5 DEF Goto, Jobs
  <2> QED BY <1>9, <2>2, <2>3, <2>5 DEF Compare
<1>10. CASE Reported(p)
  BY <1>1, <1>10, EndCauses DEF Reported
<1> QED BY <1>6, <1>7, <1>8, <1>9, <1>10

LEMMA CountInvInit == Init => CountInv
<1> SUFFICES ASSUME Init PROVE CountInv
  OBVIOUS
<1>1. EvidenceInv
  BY EvidenceInvInit
<1> QED BY <1>1 DEF CountInv, Undisturbed, CausesKept, EvidenceInv, CommitInv, Init, StoreInit

\* As long as no fault is counted, nothing has been disturbed by this step either.
LEMMA CalmSteps ==
  ASSUME TypeOK, [Next]_vars, faults' = 0
  PROVE  /\ faults = 0
         /\ \/ \E p \in Callers : Step(p) \/ Called(p)
            \/ \E e \in inflight : Order(e)
            \/ RecoverLeases \/ Tick \/ UNCHANGED vars
<1>0. faults \in Nat
  BY PipelineAssumption DEF TypeOK
<1>1. \A k : ~Fault(k)
  BY <1>0 DEF Fault
<1>2. ~ChangePolicy /\ ~RevokeKey /\ \A p \in Callers : ~Struck(p)
  BY <1>1 DEF ChangePolicy, RevokeKey, Struck, InsertUnacknowledged, WorkFails, LedgerUnreachable,
              FinishUnanswered, StoreUnreachable, Crash
<1>3. ASSUME NEW p \in Callers, Step(p) \/ Called(p) PROVE faults' = faults
  BY <1>3 DEF Step, Called, Lookup, WriteBlob, Insert, Unlink, ReadState, TakeClaim, Work,
       WriteSbom, Sign, StoreReceipt, Fail, ReadPending, ReturnCached, Verify, CheckRow,
       CheckEvidence, CheckRecovery, HistoricalCommit, Submit, Endorse, AwaitCommit, Finalize,
       Return, ScanLedger, Compare, Reported, StartRun, StartDeliver, StartScan
<1>4. CASE \/ \E e \in inflight : Order(e)
           \/ RecoverLeases \/ Tick \/ UNCHANGED vars
  BY <1>4 DEF Order, RecoverLeases, Tick, vars
<1> QED BY <1>2, <1>3, <1>4 DEF Next

LEMMA UndisturbedStep == ASSUME Undisturbed, [Next]_vars, faults' = 0 PROVE Undisturbed'
<1>0. /\ EvidenceInv /\ CommitInv /\ TypeInv /\ TypeInv' /\ Forward
      /\ now \in Nat /\ \A q \in Callers : CausesKept(q)
  BY TypeInvStep, ForwardStep
     DEF Undisturbed, EvidenceInv, CommitInv, TypeInv, TypeOK, StoreTypeOK
<1>1. /\ faults = 0
      /\ \/ \E p \in Callers : Step(p) \/ Called(p)
         \/ \E e \in inflight : Order(e)
         \/ RecoverLeases \/ Tick \/ UNCHANGED vars
  BY <1>0, CalmSteps DEF TypeInv
<1>2. Acknowledged
  BY <1>0, <1>1 DEF Acknowledged, InsertUnacknowledged, Fault
<1>3. EvidenceInv'
  BY <1>0, <1>2, EvidenceInvStep
<1>4. ASSUME NEW p \in Callers, Step(p) \/ Called(p) PROVE Undisturbed'
  <2>1. UNCHANGED trustVars /\ now' = now /\ now' >= now
    BY <1>0, <1>4, TrustKept, ClockKept
  <2>2. \A e \in inflight : e \in inflight' \/ ledger'[e.record] # None
    BY <1>4, InflightKept
  <2>3. CausesKept(p)'
    BY <1>0, <1>4, WorkerCauses, DeliverCauses, ScanCauses DEF Step
  <2>4. ASSUME NEW q \in Callers, q # p PROVE CausesKept(q)'
    BY <1>0, <1>4, <2>1, <2>2, <2>4, OneMoves, BystanderCauses DEF trustVars
  <2>5. ASSUME NEW r \in Records, outbox'[r] # None PROVE outbox'[r].payload.policy = policy'
    <3>1. CASE outbox[r] # None
      BY <1>0, <2>1, <3>1 DEF Undisturbed, Forward, trustVars
    <3>2. CASE outbox[r] = None
      <4>1. pc[p] = "prepare" /\ outbox'[r].payload = job[p].receipt
        BY <1>0, <1>2, <1>4, <2>5, <3>2, RowEffects DEF RowEffect
      <4> QED BY <1>0, <2>1, <4>1 DEF CausesKept, trustVars
    <3> QED BY <3>1, <3>2
  <2> QED BY <1>3, <2>1, <2>3, <2>4, <2>5 DEF Undisturbed, trustVars
<1>5. ASSUME UNCHANGED <<pc, job, outbox, trustVars>>, now' \in Nat, now' >= now,
             \A e \in inflight : e \in inflight' \/ ledger'[e.record] # None
      PROVE  Undisturbed'
  <2>1. \A q \in Callers : CausesKept(q)'
    BY <1>0, <1>5, BystanderCauses DEF trustVars
  <2> QED BY <1>3, <1>5, <2>1 DEF Undisturbed, trustVars
<1>6. ASSUME NEW e \in inflight, Order(e) PROVE Undisturbed'
  <2>1. e \in Transactions /\ ledger \in [Records -> LedgerEntries \cup {None}]
    BY <1>0 DEF TypeInv, TypeOK
  <2>2. ledger'[e.record] # None
    <3>1. [payload |-> e.payload, tx |-> e.tx] # None
      BY <2>1, NoEntryAssumption DEF Transactions, LedgerEntries
    <3> QED BY <1>6, <2>1, <3>1 DEF Order, Undisturbed, Transactions
  <2>3. \A f \in inflight : f \in inflight' \/ ledger'[f.record] # None
    BY <1>6, <2>2 DEF Order
  <2> QED BY <1>0, <1>5, <1>6, <2>3 DEF Order, storeVars
<1>7. CASE RecoverLeases \/ Tick \/ UNCHANGED vars
  <2>1. UNCHANGED <<pc, job, outbox, trustVars, ledgerVars>> /\ now' \in Nat /\ now' >= now
    BY <1>0, <1>7 DEF RecoverLeases, RecoverExpired, Tick, vars, storeVars
  <2> QED BY <1>5, <2>1 DEF ledgerVars
<1> QED BY <1>1, <1>4, <1>6, <1>7

LEMMA CountInvStep == ASSUME CountInv, [Next]_vars PROVE CountInv'
<1>1. TypeOK /\ CommitInv'
  BY CommitInvStep DEF CountInv, CommitInv
<1>2. faults' = 0 => Undisturbed'
  BY <1>1, CalmSteps, UndisturbedStep DEF CountInv
<1> QED BY <1>1, <1>2 DEF CountInv

\* While nothing has been disturbed, reconcile counts a row only if its record is on the
\* ledger or its receipt has expired: a deliverable row of an undisturbed system is never
\* counted.
THEOREM CountedForCauseHolds == Spec => []CountedForCause
<1>1. CountInv => CountedForCause
  <2> SUFFICES ASSUME CountInv, NEW p \in Callers, pc[p] = "report", Counted(job[p].found)
               PROVE  \/ ledger[job[p].rid] # None
                      \/ outbox[job[p].rid].payload.expires <= now
                      \/ faults > 0
    BY DEF CountedForCause
  <2>1. faults \in Nat
    BY PipelineAssumption DEF CountInv, CommitInv, TypeOK
  <2>2. CASE faults = 0
    BY <2>2 DEF CountInv, Undisturbed, CausesKept, Cause
  <2> QED BY <2>1, <2>2
<1> QED BY <1>1, CountInvInit, CountInvStep, PTL DEF Spec

============================================================================
