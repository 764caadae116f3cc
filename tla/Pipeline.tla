------------------------------ MODULE Pipeline ------------------------------
(***************************************************************************)
(* The executable protocol of research/vendorchain/pipeline.py: ingestion, *)
(* worker, durable outbox and commit acknowledgement, run by concurrent    *)
(* callers over the store, the object directories and a ledger.            *)
(*                                                                         *)
(* Uploaders are server threads inside Pipeline.run; reconcilers are       *)
(* operator processes inside `reconcile` or the command-line deliver.  A   *)
(* caller's step is one access to shared state and the local work before   *)
(* it; only reads of what cannot change any more (a terminal row, a bound  *)
(* file) share a step with the next access.  Between two steps anything    *)
(* else may happen, a crash included.                                      *)
(*                                                                         *)
(* Data abstraction.  A document stands for the upload's bytes and vendor, *)
(* which are compared together.  Every encryption and every Syft run gives *)
(* fresh bytes, so an encrypted object is named by the caller who made it, *)
(* an SBOM file by the claim it was made under.  The document gate is a    *)
(* function of the document.  The configuration modelled is the one Fabric *)
(* mode requires: SBOM and OCR on.                                         *)
(***************************************************************************)
EXTENDS SubmissionStore

CONSTANTS
  Uploaders,     \* threads of the upload server
  Reconcilers,   \* operator processes that repair the outbox
  Clean,         \* the documents the sandboxed gate accepts
  Policies,      \* digests of the policy configurations in use over time
  ReceiptLife,   \* expiresAt - issuedAt
  Faults,        \* the kinds of disturbance considered, a subset of FaultKinds
  MaxFaults      \* bound of the model: how many of them occur in all

Callers == Uploaders \cup Reconcilers
FaultKinds == {"crash", "worker", "ledger", "store", "store_ack", "policy", "revocation"}
Receipts == [record : Records, document : Documents, cipher : Ciphers,
             sbom : Nat, policy : Policies, expires : Nat]

ASSUME PipelineAssumption ==
  /\ Callers \subseteq Ciphers
  /\ Uploaders \cap Reconcilers = {}
  /\ Clean \subseteq Documents
  /\ Payloads \subseteq Receipts
  /\ ReceiptLife \in Nat /\ ReceiptLife <= MaxTime /\ MaxFaults \in Nat
  /\ Faults \subseteq FaultKinds

VARIABLES
  blobs,       \* root/blobs/<rid>.enc: the encrypted object, or None
  sboms,       \* root/sbom/<rid>.json: the claim it was made under, 0 for no file
  ledger,      \* the committed record of each request, or None
  inflight,    \* endorsed transactions the ledger has not ordered yet
  policy,      \* policy_hash() of the current configuration
  revoked,     \* where the worker key is revoked: "registry", "ledger"
  pc,          \* the access each caller makes next
  job,         \* each caller's local variables
  faults       \* disturbances so far

fileVars == <<blobs, sboms>>
ledgerVars == <<ledger, inflight>>
trustVars == <<policy, revoked>>
vars == <<storeVars, fileVars, ledgerVars, trustVars, pc, job, faults>>

WorkerSteps == {"lookup", "write", "insert", "unlink", "read", "claim",
                "work", "sbom", "sign", "prepare", "fail"}
DeliverSteps == {"pending", "cached", "verify", "row", "evidence",
                 "recover", "history", "submit", "endorse", "await", "finish", "done"}
ScanSteps == {"scan", "compare", "report"}
Steps == {"idle"} \cup WorkerSteps \cup DeliverSteps \cup ScanSteps

LedgerEntries == [payload : Payloads, tx : TxIds]
ASSUME NoEntryAssumption == None \notin LedgerEntries
Transactions == [record : Records, payload : Payloads, tx : TxIds]
\* deliver is called directly, or reconcile only looks at a row, or repairs it.
Modes == {"call", "look", "repair"}
\* What reconcile says of a row in the end.
Statuses == {"CONSISTENT", "NOT_COMMITTED", "LEDGER_COMMITTED_SQL_PENDING",
             "DIVERGENCE", "CHECK_FAILED"}
Jobs == [rid : Records \cup {None}, doc : Documents \cup {None}, claimed : Nat,
         receipt : Payloads \cup {None}, entry : OutboxRows \cup {None},
         tx : TxIds \cup {None}, mode : Modes, found : Statuses \cup {None}]
NoJob == [rid |-> None, doc |-> None, claimed |-> 0, receipt |-> None, entry |-> None,
          tx |-> None, mode |-> "call", found |-> None]

\* The steps at which a caller holds an outbox row it has read.
EntrySteps == (DeliverSteps \ {"pending", "done"}) \cup {"scan", "compare"}

\* The locals a step uses have been assigned.
LocalsAssigned(l, j) ==
  /\ l # "idle" => j.rid \in Records
  /\ l \in {"lookup", "write", "insert"} => j.doc \in Documents
  /\ l = "prepare" => j.receipt \in Payloads
  /\ l \in EntrySteps => j.entry \in OutboxRows
  /\ l = "finish" => j.tx \in TxIds
  /\ l = "report" => j.found \in Statuses
  /\ l \in ScanSteps => j.mode # "call"

CallersTypeOK ==
  /\ pc \in [Callers -> Steps]
  /\ job \in [Callers -> Jobs]
  /\ \A p \in Callers : LocalsAssigned(pc[p], job[p])

TypeOK ==
  /\ StoreTypeOK
  /\ blobs \in [Records -> Ciphers \cup {None}]
  /\ sboms \in [Records -> Nat]
  /\ ledger \in [Records -> LedgerEntries \cup {None}]
  /\ inflight \subseteq Transactions
  /\ policy \in Policies
  /\ revoked \subseteq {"registry", "ledger"}
  /\ CallersTypeOK
  /\ faults \in 0 .. MaxFaults

Init ==
  /\ StoreInit
  /\ blobs = [r \in Records |-> None]
  /\ sboms = [r \in Records |-> 0]
  /\ ledger = [r \in Records |-> None]
  /\ inflight = {}
  /\ policy \in Policies
  /\ revoked = {}
  /\ pc = [p \in Callers |-> "idle"]
  /\ job = [p \in Callers |-> NoJob]
  /\ faults = 0

----------------------------------------------------------------------------
(* Control of one caller. *)

Goto(p, l) == pc' = [pc EXCEPT ![p] = l]

\* The call is over, by its return or by an exception.
End(p) ==
  /\ Goto(p, "idle")
  /\ job' = [job EXCEPT ![p] = NoJob]

Keep(p, l) == Goto(p, l) /\ UNCHANGED job

\* reconcile appends the row with its status to the answer.
Report(p, status) ==
  /\ Goto(p, "report")
  /\ job' = [job EXCEPT ![p] = [NoJob EXCEPT !.rid = job[p].rid, !.mode = job[p].mode,
                                           !.found = status]]

\* An exception ends the call; reconcile catches it and goes on to its next row.
Raise(p) ==
  \/ job[p].mode = "call" /\ End(p)
  \/ job[p].mode # "call" /\ Report(p, "CHECK_FAILED")

\* A disturbance of kind k: a failure, or a change of policy or keys.
Fault(k) == k \in Faults /\ faults < MaxFaults /\ faults' = faults + 1

\* Faulty variant: the request identifier is not handed on.
StartRunWithoutId(p, r, d) ==
  /\ pc[p] = "idle" /\ p \in Uploaders
  /\ job' = [job EXCEPT ![p].doc = d]
  /\ Goto(p, "lookup")
  /\ UNCHANGED <<storeVars, fileVars, ledgerVars, trustVars, faults>>

StartRun(p, r, d) ==
  /\ pc[p] = "idle" /\ p \in Uploaders
  /\ job' = [job EXCEPT ![p].rid = r, ![p].doc = d]
  /\ Goto(p, "lookup")
  /\ UNCHANGED <<storeVars, fileVars, ledgerVars, trustVars, faults>>

\* Pipeline.deliver called for one record from the command line.
StartDeliver(p, r) ==
  /\ pc[p] = "idle" /\ p \in Reconcilers
  /\ job' = [job EXCEPT ![p].rid = r]
  /\ Goto(p, "pending")
  /\ UNCHANGED <<storeVars, fileVars, ledgerVars, trustVars, faults>>

\* reconcile takes up one row of its listing of the outbox.
StartScan(p, r, mode) ==
  /\ pc[p] = "idle" /\ p \in Reconcilers /\ outbox[r] # None
  /\ job' = [job EXCEPT ![p].rid = r, ![p].entry = outbox[r], ![p].mode = mode]
  /\ Goto(p, "scan")
  /\ UNCHANGED <<storeVars, fileVars, ledgerVars, trustVars, faults>>

----------------------------------------------------------------------------
(* Pipeline._ingest: the caller's upload becomes an INGESTED row. *)

\* Faulty variant: a known identifier is accepted for any document.
LookupAnyDocument(p) ==
  LET r == job[p].rid  d == job[p].doc IN
  /\ pc[p] = "lookup"
  /\ \/ Exists(r) /\ Keep(p, "read")
     \/ ~Exists(r) /\ d \in Clean /\ Keep(p, "write")
     \/ ~Exists(r) /\ d \notin Clean /\ End(p)
  /\ UNCHANGED <<storeVars, fileVars, ledgerVars, trustVars, faults>>

Lookup(p) ==
  LET r == job[p].rid  d == job[p].doc IN
  /\ pc[p] = "lookup"
  /\ \/ Exists(r) /\ document[r] = d /\ Keep(p, "read")
     \/ Exists(r) /\ document[r] # d /\ End(p)
     \/ ~Exists(r) /\ d \in Clean /\ Keep(p, "write")
     \/ ~Exists(r) /\ d \notin Clean /\ End(p)
  /\ UNCHANGED <<storeVars, fileVars, ledgerVars, trustVars, faults>>

\* Faulty variant: an existing object is overwritten.
OverwriteBlob(p) ==
  /\ pc[p] = "write"
  /\ blobs' = [blobs EXCEPT ![job[p].rid] = p]
  /\ Keep(p, "insert")
  /\ UNCHANGED <<storeVars, sboms, ledgerVars, trustVars, faults>>

\* durable_write opens the object with O_EXCL.
WriteBlob(p) ==
  LET r == job[p].rid IN
  /\ pc[p] = "write"
  /\ \/ /\ blobs[r] = None
        /\ blobs' = [blobs EXCEPT ![r] = p]
        /\ Keep(p, "insert")
     \/ /\ blobs[r] # None
        /\ End(p)
        /\ UNCHANGED blobs
  /\ UNCHANGED <<storeVars, sboms, ledgerVars, trustVars, faults>>

Insert(p) ==
  LET r == job[p].rid  d == job[p].doc IN
  /\ pc[p] = "insert"
  /\ \/ Ingest(r, d, p) /\ Keep(p, "read")
     \/ IngestRefused(r, d) /\ Keep(p, "unlink") /\ UNCHANGED storeVars
  /\ UNCHANGED <<fileVars, ledgerVars, trustVars, faults>>

\* The database commits, but the connection is lost before it says so.
InsertUnacknowledged(p) ==
  /\ pc[p] = "insert" /\ Fault("store_ack")
  /\ Ingest(job[p].rid, job[p].doc, p)
  /\ Keep(p, "unlink")
  /\ UNCHANGED <<fileVars, ledgerVars, trustVars>>

\* Faulty variant: the loser's object stays behind.
LeaveBlob(p) ==
  /\ pc[p] = "unlink"
  /\ End(p)
  /\ UNCHANGED <<storeVars, fileVars, ledgerVars, trustVars, faults>>

Unlink(p) ==
  /\ pc[p] = "unlink"
  /\ blobs' = [blobs EXCEPT ![job[p].rid] = None]
  /\ End(p)
  /\ UNCHANGED <<storeVars, sboms, ledgerVars, trustVars, faults>>

\* run() decides between processing and delivering on a fresh read.
ReadState(p) ==
  /\ pc[p] = "read"
  /\ Keep(p, IF state[job[p].rid] = "INGESTED" THEN "claim" ELSE "pending")
  /\ UNCHANGED <<storeVars, fileVars, ledgerVars, trustVars, faults>>

----------------------------------------------------------------------------
(* Pipeline.process: the worker turns the row into a receipt in the outbox. *)

TakeClaim(p) ==
  LET r == job[p].rid IN
  /\ pc[p] = "claim"
  /\ \/ /\ Claim(r)
        /\ job' = [job EXCEPT ![p].claimed = version[r] + 1]
        /\ Goto(p, "work")
     \/ ClaimRefused(r) /\ End(p) /\ UNCHANGED storeVars
  /\ UNCHANGED <<fileVars, ledgerVars, trustVars, faults>>

\* Read back, decrypt, OCR, Syft and OPA.
Work(p) ==
  LET r == job[p].rid IN
  /\ pc[p] = "work"
  /\ Keep(p, IF blobs[r] = cipher[r] THEN "sbom" ELSE "fail")
  /\ UNCHANGED <<storeVars, fileVars, ledgerVars, trustVars, faults>>

WorkFails(p) ==
  /\ pc[p] = "work" /\ Fault("worker")
  /\ Keep(p, "fail")
  /\ UNCHANGED <<storeVars, fileVars, ledgerVars, trustVars>>

WriteSbom(p) ==
  LET r == job[p].rid IN
  /\ pc[p] = "sbom"
  /\ \/ /\ sboms[r] = 0
        /\ sboms' = [sboms EXCEPT ![r] = job[p].claimed]
        /\ Keep(p, "sign")
     \/ /\ sboms[r] # 0
        /\ Keep(p, "fail")
        /\ UNCHANGED sboms
  /\ UNCHANGED <<storeVars, blobs, ledgerVars, trustVars, faults>>

\* The receipt of the row the worker was given (its bindings are immutable).
Receipt(p) ==
  LET r == job[p].rid IN
  [record |-> r, document |-> document[r], cipher |-> cipher[r],
   sbom |-> job[p].claimed, policy |-> policy, expires |-> now + ReceiptLife]

\* Faulty variant: the receipt goes to the ledger without passing the outbox.
SignAndSubmit(p) ==
  /\ pc[p] = "sign"
  /\ Receipt(p) \in Payloads
  /\ job' = [job EXCEPT ![p].entry = [payload |-> Receipt(p), snapshot |-> job[p].claimed + 1,
                                      status |-> "PENDING", tx |-> None]]
  /\ Goto(p, "submit")
  /\ UNCHANGED <<storeVars, fileVars, ledgerVars, trustVars, faults>>

\* The signed receipt is verified at once: the key must be active, and the
\* receipt must expire within the key's validity (Payloads holds those that do).
Sign(p) ==
  LET signable == "registry" \notin revoked /\ Receipt(p) \in Payloads IN
  /\ pc[p] = "sign"
  /\ \/ /\ signable
        /\ job' = [job EXCEPT ![p].receipt = Receipt(p)]
        /\ Goto(p, "prepare")
     \/ ~signable /\ Keep(p, "fail")
  /\ UNCHANGED <<storeVars, fileVars, ledgerVars, trustVars, faults>>

StoreReceipt(p) ==
  LET r == job[p].rid IN
  /\ pc[p] = "prepare"
  /\ \/ Prepare(r, job[p].claimed, job[p].receipt) /\ Keep(p, "pending")
     \/ ~HoldsClaim(r, job[p].claimed) /\ Keep(p, "fail") /\ UNCHANGED storeVars
  /\ UNCHANGED <<fileVars, ledgerVars, trustVars, faults>>

\* The exception handler of process(); the exception goes on to the caller.
Fail(p) ==
  LET r == job[p].rid IN
  /\ pc[p] = "fail"
  /\ \/ FailProcessing(r, job[p].claimed)
     \/ ~HoldsClaim(r, job[p].claimed) /\ UNCHANGED storeVars
  /\ End(p)
  /\ UNCHANGED <<fileVars, ledgerVars, trustVars, faults>>

----------------------------------------------------------------------------
(* Pipeline.deliver: the outbox entry is taken to the ledger and back. *)

ReadPending(p) ==
  LET r == job[p].rid IN
  /\ pc[p] = "pending"
  /\ \/ outbox[r] = None /\ Raise(p)
     \/ /\ outbox[r] # None
        /\ job' = [job EXCEPT ![p].entry = outbox[r]]
        /\ Goto(p, IF outbox[r].status = "CONFIRMED" THEN "cached" ELSE "verify")
  /\ UNCHANGED <<storeVars, fileVars, ledgerVars, trustVars, faults>>

\* ledger.lookup: the entry's receipt is on the ledger.
Recorded(p) ==
  LET r == job[p].rid IN ledger[r] # None /\ ledger[r].payload = job[p].entry.payload

\* The entry was confirmed before: the answer is checked against the ledger.
\* (COMMITTED is terminal, so the row's read and the ledger's are one step.)
ReturnCached(p) ==
  LET r == job[p].rid
      agreed == state[r] = "COMMITTED" /\ Recorded(p) /\ ledger[r].tx = job[p].entry.tx
  IN
  /\ pc[p] = "cached"
  /\ \/ agreed /\ job' = [job EXCEPT ![p].tx = ledger[r].tx] /\ Goto(p, "done")
     \/ ~agreed /\ Raise(p)
  /\ UNCHANGED <<storeVars, fileVars, ledgerVars, trustVars, faults>>

\* Faulty variant: a receipt that is no longer valid is simply refused.
VerifyOrRefuse(p) ==
  LET valid == "registry" \notin revoked /\ job[p].entry.payload.expires > now IN
  /\ pc[p] = "verify"
  /\ \/ valid /\ Keep(p, "row")
     \/ ~valid /\ Raise(p)
  /\ UNCHANGED <<storeVars, fileVars, ledgerVars, trustVars, faults>>

\* trust.verify: key and receipt still valid for a new write.
Verify(p) ==
  LET valid == "registry" \notin revoked /\ job[p].entry.payload.expires > now IN
  /\ pc[p] = "verify"
  /\ Keep(p, IF valid THEN "row" ELSE "recover")
  /\ UNCHANGED <<storeVars, fileVars, ledgerVars, trustVars, faults>>

\* Faulty variant: the row's version is compared with the claim's.
RowCurrentAtClaim(p) ==
  LET r == job[p].rid IN state[r] = "PREPARED" /\ version[r] = job[p].entry.snapshot - 1

RowCurrent(p) ==
  LET r == job[p].rid IN state[r] = "PREPARED" /\ version[r] = job[p].entry.snapshot

CheckRow(p) ==
  /\ pc[p] = "row"
  /\ \/ RowCurrent(p) /\ Keep(p, "evidence")
     \/ ~RowCurrent(p) /\ Raise(p)
  /\ UNCHANGED <<storeVars, fileVars, ledgerVars, trustVars, faults>>

EvidenceMatches(p) ==
  LET r == job[p].rid  x == job[p].entry.payload IN
  /\ x.policy = policy
  /\ blobs[r] = cipher[r] /\ x.cipher = cipher[r] /\ x.document = document[r]
  /\ sboms[r] = x.sbom

CheckEvidence(p) ==
  /\ pc[p] = "evidence"
  /\ \/ EvidenceMatches(p) /\ Keep(p, "submit")
     \/ ~EvidenceMatches(p) /\ Raise(p)
  /\ UNCHANGED <<storeVars, fileVars, ledgerVars, trustVars, faults>>

\* The receipt can no longer be written, but it may have been.
CheckRecovery(p) ==
  /\ pc[p] = "recover"
  /\ \/ RowCurrent(p) /\ Keep(p, "history")
     \/ ~RowCurrent(p) /\ Raise(p)
  /\ UNCHANGED <<storeVars, fileVars, ledgerVars, trustVars, faults>>

HistoricalCommit(p) ==
  /\ pc[p] = "history"
  /\ \/ /\ Recorded(p)
        /\ job' = [job EXCEPT ![p].tx = ledger[job[p].rid].tx]
        /\ Goto(p, "finish")
     \/ ~Recorded(p) /\ Raise(p)
  /\ UNCHANGED <<storeVars, fileVars, ledgerVars, trustVars, faults>>

\* commitRecord reads first, so that a lost answer needs no second write.
Submit(p) ==
  LET r == job[p].rid IN
  /\ pc[p] = "submit"
  /\ \/ /\ Recorded(p)
        /\ job' = [job EXCEPT ![p].tx = ledger[r].tx]
        /\ Goto(p, "finish")
     \/ ledger[r] # None /\ ~Recorded(p) /\ Raise(p)
     \/ ledger[r] = None /\ Keep(p, "endorse")
  /\ UNCHANGED <<storeVars, fileVars, ledgerVars, trustVars, faults>>

\* Fabric draws fresh identifiers; the model reuses one nobody remembers.
UsedTxIds ==
  {e.tx : e \in inflight} \cup {ledger[r].tx : r \in {q \in Records : ledger[q] # None}}
    \cup {job[q].tx : q \in Callers}

\* RecordHardened on an endorsing peer: key, validity and absence are checked.
Endorse(p) ==
  LET r == job[p].rid  x == job[p].entry.payload
      endorsable == ledger[r] = None /\ "ledger" \notin revoked /\ x.expires > now
  IN
  /\ pc[p] = "endorse"
  /\ \/ /\ endorsable
        /\ \E tx \in TxIds \ UsedTxIds :
             /\ inflight' = inflight \cup {[record |-> r, payload |-> x, tx |-> tx]}
             /\ job' = [job EXCEPT ![p].tx = tx]
        /\ Goto(p, "await")
     \/ ~endorsable /\ Raise(p) /\ UNCHANGED inflight
  /\ UNCHANGED <<storeVars, fileVars, ledger, trustVars, faults>>

\* Faulty variant: what the transaction read is not validated again.
OrderUnchecked(e) ==
  /\ inflight' = inflight \ {e}
  /\ ledger' = [ledger EXCEPT ![e.record] = [payload |-> e.payload, tx |-> e.tx]]
  /\ UNCHANGED <<storeVars, fileVars, trustVars, pc, job, faults>>

\* The transaction is ordered; it is valid if what it read is still current.
Order(e) ==
  /\ inflight' = inflight \ {e}
  /\ ledger' = IF ledger[e.record] = None /\ "ledger" \notin revoked
               THEN [ledger EXCEPT ![e.record] = [payload |-> e.payload, tx |-> e.tx]]
               ELSE ledger
  /\ UNCHANGED <<storeVars, fileVars, trustVars, pc, job, faults>>

\* Faulty variant: the end of the wait is taken for success.
AwaitAnyStatus(p) ==
  /\ pc[p] = "await"
  /\ \A e \in inflight : e.tx # job[p].tx
  /\ Keep(p, "finish")
  /\ UNCHANGED <<storeVars, fileVars, ledgerVars, trustVars, faults>>

\* The commit status arrives, and the record is read back.
AwaitCommit(p) ==
  LET r == job[p].rid IN
  /\ pc[p] = "await"
  /\ \A e \in inflight : e.tx # job[p].tx
  /\ \/ Recorded(p) /\ ledger[r].tx = job[p].tx /\ Keep(p, "finish")
     \/ ~(Recorded(p) /\ ledger[r].tx = job[p].tx) /\ Raise(p)
  /\ UNCHANGED <<storeVars, fileVars, ledgerVars, trustVars, faults>>

\* A request to the gateway fails, or its answer is lost or too late.
LedgerUnreachable(p) ==
  /\ pc[p] \in {"scan", "cached", "history", "submit", "endorse", "await"}
  /\ Fault("ledger")
  /\ Raise(p)
  /\ UNCHANGED <<storeVars, fileVars, ledgerVars, trustVars>>

Finalize(p) ==
  LET r == job[p].rid  e == job[p].entry  tx == job[p].tx
      finished == AlreadyFinished(r, tx)
      allowed == FinishAllowed(r, e.snapshot, e.payload)
  IN
  /\ pc[p] = "finish"
  /\ \/ finished /\ Keep(p, "done") /\ UNCHANGED storeVars
     \/ ~finished /\ Finish(r, e.snapshot, tx, e.payload) /\ Keep(p, "done")
     \/ ~finished /\ ~allowed /\ Raise(p) /\ UNCHANGED storeVars
  /\ UNCHANGED <<fileVars, ledgerVars, trustVars, faults>>

\* The database confirms the row, but the connection is lost before it says so.
FinishUnanswered(p) ==
  LET e == job[p].entry IN
  /\ pc[p] = "finish" /\ Fault("store")
  /\ Finish(job[p].rid, e.snapshot, job[p].tx, e.payload)
  /\ Raise(p)
  /\ UNCHANGED <<fileVars, ledgerVars, trustVars>>

\* A store access fails and has done nothing.  (Around a claim such a failure
\* leaves behind what a crash leaves.)
StoreUnreachable(p) ==
  /\ Fault("store")
  /\ \/ pc[p] = "insert" /\ Keep(p, "unlink")
     \/ pc[p] = "prepare" /\ Keep(p, "fail")
     \/ pc[p] \in {"compare", "pending", "row", "recover", "finish"} /\ Raise(p)
  /\ UNCHANGED <<storeVars, fileVars, ledgerVars, trustVars>>

Return(p) ==
  /\ pc[p] = "done"
  /\ \/ job[p].mode = "call" /\ End(p)
     \/ job[p].mode # "call" /\ Report(p, "CONSISTENT")
  /\ UNCHANGED <<storeVars, fileVars, ledgerVars, trustVars, faults>>

----------------------------------------------------------------------------
(* reconcile: an outbox row read earlier is compared with the ledger, and a
   pending one is delivered when a repair was asked for. *)

ScanLedger(p) ==
  LET r == job[p].rid IN
  /\ pc[p] = "scan"
  /\ \/ Recorded(p) /\ job' = [job EXCEPT ![p].tx = ledger[r].tx] /\ Goto(p, "compare")
     \/ ledger[r] = None /\ Keep(p, "compare")
     \/ ledger[r] # None /\ ~Recorded(p) /\ Raise(p)
  /\ UNCHANGED <<storeVars, fileVars, ledgerVars, trustVars, faults>>

\* What the row is called when nothing was repaired.
PendingStatus(p) ==
  IF job[p].tx # None THEN "LEDGER_COMMITTED_SQL_PENDING" ELSE "NOT_COMMITTED"

\* Faulty variant: the fresh state selects the comparison, the listed row is compared.
CompareFreshState(p) ==
  LET r == job[p].rid  e == job[p].entry
      consistent == job[p].tx # None /\ job[p].tx = e.tx
  IN
  /\ pc[p] = "compare"
  /\ \/ state[r] = "COMMITTED" /\ Report(p, IF consistent THEN "CONSISTENT" ELSE "DIVERGENCE")
     \/ state[r] # "COMMITTED" /\ job[p].mode = "look" /\ Report(p, PendingStatus(p))
     \/ /\ state[r] # "COMMITTED" /\ job[p].mode = "repair"
        /\ job' = [job EXCEPT ![p].entry = None, ![p].tx = None]
        /\ Goto(p, "pending")
  /\ UNCHANGED <<storeVars, fileVars, ledgerVars, trustVars, faults>>

Compare(p) ==
  LET r == job[p].rid  e == job[p].entry
      consistent == state[r] = "COMMITTED" /\ job[p].tx # None /\ job[p].tx = e.tx
  IN
  /\ pc[p] = "compare"
  /\ \/ e.status = "CONFIRMED" /\ Report(p, IF consistent THEN "CONSISTENT" ELSE "DIVERGENCE")
     \/ e.status = "PENDING" /\ job[p].mode = "look" /\ Report(p, PendingStatus(p))
     \/ /\ e.status = "PENDING" /\ job[p].mode = "repair"
        /\ job' = [job EXCEPT ![p].entry = None, ![p].tx = None]
        /\ Goto(p, "pending")
  /\ UNCHANGED <<storeVars, fileVars, ledgerVars, trustVars, faults>>

\* The row is in the answer; the next row is taken up, or the answer returned.
Reported(p) ==
  /\ pc[p] = "report"
  /\ End(p)
  /\ UNCHANGED <<storeVars, fileVars, ledgerVars, trustVars, faults>>

\* The statuses summed up as the answer's `divergences`.
Counted(status) == status \notin {"CONSISTENT", "NOT_COMMITTED"}

----------------------------------------------------------------------------
(* The environment. *)

\* The caller's process dies; files, tables and ledger stay as they are.
Crash(p) ==
  /\ pc[p] # "idle" /\ Fault("crash")
  /\ End(p)
  /\ UNCHANGED <<storeVars, fileVars, ledgerVars, trustVars>>

\* Store.recover_expired, called by whoever operates the store.
RecoverLeases ==
  /\ RecoverExpired
  /\ UNCHANGED <<fileVars, ledgerVars, trustVars, pc, job, faults>>

ChangePolicy ==
  /\ Fault("policy")
  /\ \E h \in Policies \ {policy} : policy' = h
  /\ UNCHANGED <<storeVars, fileVars, ledgerVars, revoked, pc, job>>

RevokeKey ==
  /\ Fault("revocation")
  /\ \E where \in {"registry", "ledger"} \ revoked : revoked' = revoked \cup {where}
  /\ UNCHANGED <<storeVars, fileVars, ledgerVars, policy, pc, job>>

Tick ==
  /\ now < MaxTime
  /\ now' = now + 1
  /\ UNCHANGED <<state, version, lease, document, cipher, outbox, digests, audit>>
  /\ UNCHANGED <<fileVars, ledgerVars, trustVars, pc, job, faults>>

----------------------------------------------------------------------------
\* The steps a caller takes by itself once it is called.
Step(p) ==
  \/ Lookup(p) \/ WriteBlob(p) \/ Insert(p) \/ Unlink(p) \/ ReadState(p)
  \/ TakeClaim(p) \/ Work(p) \/ WriteSbom(p) \/ Sign(p) \/ StoreReceipt(p) \/ Fail(p)
  \/ ReadPending(p) \/ ReturnCached(p) \/ Verify(p) \/ CheckRow(p) \/ CheckEvidence(p)
  \/ CheckRecovery(p) \/ HistoricalCommit(p) \/ Submit(p) \/ Endorse(p) \/ AwaitCommit(p)
  \/ Finalize(p) \/ Return(p) \/ ScanLedger(p) \/ Compare(p) \/ Reported(p)

Struck(p) ==
  \/ InsertUnacknowledged(p) \/ WorkFails(p) \/ LedgerUnreachable(p)
  \/ FinishUnanswered(p) \/ StoreUnreachable(p) \/ Crash(p)

Called(p) ==
  \/ \E r \in Records, d \in Documents : StartRun(p, r, d)
  \/ \E r \in Records : StartDeliver(p, r) \/ StartScan(p, r, "look") \/ StartScan(p, r, "repair")

Next ==
  \/ \E p \in Callers : Step(p) \/ Struck(p) \/ Called(p)
  \/ \E e \in inflight : Order(e)
  \/ RecoverLeases \/ ChangePolicy \/ RevokeKey \/ Tick

Spec == Init /\ [][Next]_vars

\* Threads are scheduled, the ledger orders what it endorsed, time passes, and
\* the operator runs the repair again and again.
Fairness ==
  /\ \A p \in Callers : WF_vars(Step(p))
  /\ WF_vars(\E e \in inflight : Order(e))
  /\ WF_vars(Tick)
  /\ \A p \in Reconcilers, r \in Records : SF_vars(StartDeliver(p, r) \/ StartScan(p, r, "repair"))

FairSpec == Spec /\ Fairness

\* Clients send an upload again and again under its request identifier.
RetrySpec ==
  /\ FairSpec
  /\ \A p \in Uploaders, r \in Records, d \in Clean : SF_vars(StartRun(p, r, d))

----------------------------------------------------------------------------
(* Properties. *)

\* COMMITTED only after a matching ledger result: a submission is COMMITTED
\* only while the ledger holds exactly the receipt and the transaction that
\* its outbox row was confirmed with.
CommittedIsLedgered ==
  \A r \in Records : state[r] = "COMMITTED" =>
    ledger[r] # None /\ ledger[r].payload = outbox[r].payload /\ ledger[r].tx = outbox[r].tx

\* Nothing reaches the ledger that the outbox does not remember: every record
\* written, and every transaction still to be ordered (also those of callers
\* long dead), carries the receipt of its record's outbox row.
LedgerWriteAhead ==
  /\ \A r \in Records : ledger[r] # None =>
       outbox[r] # None /\ ledger[r].payload = outbox[r].payload
  /\ \A e \in inflight : outbox[e.record] # None /\ e.payload = outbox[e.record].payload

\* The evidence outlives its failures: a stored request keeps its own encrypted
\* object, and a receipt keeps the very SBOM file it is bound to, whatever
\* other callers wrote, refused, unlinked or left behind.
EvidenceRetained ==
  \A r \in Records :
    /\ Exists(r) => blobs[r] = cipher[r]
    /\ outbox[r] # None =>
         /\ sboms[r] = outbox[r].payload.sbom
         /\ outbox[r].payload.cipher = cipher[r] /\ outbox[r].payload.document = document[r]

\* An acknowledgement is never handed out early or for something else: the
\* caller that is about to return holds the ledger's transaction for its
\* record, the store says COMMITTED, and an uploader sent that very document.
AckTruthful ==
  \A p \in Callers : pc[p] = "done" =>
    LET r == job[p].rid IN
    /\ state[r] = "COMMITTED" /\ outbox[r].tx = job[p].tx
    /\ ledger[r] # None /\ ledger[r].tx = job[p].tx
    /\ p \in Uploaders => document[r] = job[p].doc

\* What a report says of a row is true, although a scan compares an outbox row, a
\* ledger record and a submission read at different times, and a repair may fail.
\* With no tampering no row is called DIVERGENCE (the count says less: see
\* CountedForCause).  One called CONSISTENT, and one that a repair does not count,
\* is COMMITTED in the store, with the ledger's record and transaction.
ReportTruthful ==
  \A p \in Callers : pc[p] = "report" =>
    LET r == job[p].rid  found == job[p].found IN
    /\ found # "DIVERGENCE"
    /\ found = "CONSISTENT" \/ (job[p].mode = "repair" /\ ~Counted(found)) =>
         state[r] = "COMMITTED" /\ ledger[r] # None /\ ledger[r].tx = outbox[r].tx

\* The count of divergences has a cause: while nothing has been disturbed (no
\* crash, no failed access, no change of policy or keys), a row is counted only
\* if its record is on the ledger (another caller may have confirmed it since,
\* or nobody yet) or its receipt has expired.  A deliverable row is never counted.
CountedForCause ==
  \A p \in Callers : pc[p] = "report" /\ Counted(job[p].found) =>
    \/ ledger[job[p].rid] # None
    \/ outbox[job[p].rid].payload.expires <= now
    \/ faults > 0

\* The later of two callers that write one confirmation does not fail: whoever
\* holds the ledger's answer finds the row already finished with it, or still
\* as it was when the outbox entry was read.
FinishSucceeds ==
  \A p \in Callers : pc[p] = "finish" =>
    LET r == job[p].rid  e == job[p].entry IN
    AlreadyFinished(r, job[p].tx) \/ FinishAllowed(r, e.snapshot, e.payload)

\* The abstract commit protocol, with what each variable of it stands for.
Protocol == INSTANCE CommitProtocol WITH
  prepared <- [r \in Records |-> IF outbox[r] = None THEN None ELSE outbox[r].payload],
  written <- ledger,
  confirmed <- [r \in Records |->
                  IF state[r] = "COMMITTED"
                  THEN [payload |-> outbox[r].payload, tx |-> outbox[r].tx]
                  ELSE None]

ImplementsProtocol == Protocol!Spec

\* Lost acknowledgements reconcile: once a record is on the ledger its
\* submission is eventually COMMITTED, through crashes, changed policies,
\* expired receipts and revoked keys.
LostAckReconciles == \A r \in Records : ledger[r] # None ~> state[r] = "COMMITTED"

\* An identical retry is idempotent: a clean upload that is sent again and
\* again under one identifier is eventually stored, whatever its earlier
\* attempts left behind, unless the replay window never opens for it.
RetriedUploadIsStored ==
  \A r \in Records : ([]<>(\A d \in Clean : ~Retained(d))) => <>Exists(r)

----------------------------------------------------------------------------
(* The inductive invariant behind the safety properties: what each caller  *)
(* may rely on between two accesses, for as long as the others only move   *)
(* the shared state forward.                                               *)

\* The outbox row a caller has read is still the row, but for its confirmation.
HoldsEntry(p) ==
  LET r == job[p].rid  e == job[p].entry IN
  pc[p] \in EntrySteps =>
    /\ outbox[r] # None
    /\ e.payload = outbox[r].payload /\ e.snapshot = outbox[r].snapshot
    /\ e.status = "CONFIRMED" => e = outbox[r]

\* The transaction a caller holds is the ledger's.
HoldsAck(p) ==
  LET r == job[p].rid  tx == job[p].tx IN
  /\ pc[p] \in {"finish", "done"} => ledger[r] # None /\ ledger[r].tx = tx
  /\ pc[p] = "done" => state[r] = "COMMITTED"
  /\ pc[p] = "compare" /\ job[p].entry.status = "CONFIRMED" =>
       tx = job[p].entry.tx /\ tx # None
  /\ pc[p] = "report" =>
       /\ job[p].found # "DIVERGENCE"
       /\ job[p].found = "CONSISTENT" \/ (job[p].mode = "repair" /\ ~Counted(job[p].found)) =>
            state[r] = "COMMITTED"

\* Past ingestion, an uploader works on a row of its own document.
HoldsDocument(p) ==
  p \in Uploaders /\ pc[p] \notin {"idle", "lookup", "write", "insert", "unlink", "report"} =>
    Exists(job[p].rid) /\ document[job[p].rid] = job[p].doc

CommitInv ==
  /\ TypeOK /\ OutboxInStep
  /\ CommittedIsLedgered /\ LedgerWriteAhead
  /\ \A p \in Callers : HoldsEntry(p) /\ HoldsAck(p) /\ HoldsDocument(p)

\* The files a caller has created or is about to bind are its own.
HoldsFiles(p) ==
  LET r == job[p].rid  x == job[p].receipt IN
  /\ pc[p] \in {"insert", "unlink"} => blobs[r] = p /\ ~Exists(r)
  /\ pc[p] \in {"work", "sbom", "sign", "prepare"} => job[p].claimed > 0 /\ Exists(r)
  /\ pc[p] \in {"sign", "prepare"} => sboms[r] = job[p].claimed
  /\ pc[p] = "prepare" =>
       x.sbom = job[p].claimed /\ x.cipher = cipher[r] /\ x.document = document[r]

EvidenceInv ==
  /\ CommitInv /\ EvidenceRetained
  /\ \A r \in Records : Exists(r) => cipher[r] # None
  /\ \A r \in Records : outbox[r] # None => outbox[r].payload.sbom > 0
  /\ \A p \in Callers : HoldsFiles(p)

\* Why a row of a scan is counted (the caller's record is r).
Cause(r) == ledger[r] # None \/ outbox[r].payload.expires <= now

\* While nothing has been disturbed, a scan's delivery fails only for a cause:
\* no receipt is under another policy, no transaction endorsed gets lost.
CausesKept(p) ==
  LET r == job[p].rid IN
  /\ pc[p] = "idle" => job[p] = NoJob
  /\ pc[p] = "scan" => job[p].tx = None
  /\ pc[p] = "prepare" => job[p].receipt.policy = policy
  /\ pc[p] # "idle" /\ job[p].mode # "call" => outbox[r] # None
  /\ pc[p] = "cached" => ledger[r] # None
  /\ pc[p] \in {"recover", "history"} => job[p].entry.payload.expires <= now
  /\ pc[p] = "await" =>
       ledger[r] # None \/ \E e \in inflight : e.tx = job[p].tx /\ e.record = r
  /\ pc[p] = "compare" /\ job[p].tx # None => ledger[r] # None
  /\ pc[p] = "report" => job[p].mode # "call" /\ (Counted(job[p].found) => Cause(r))

Undisturbed ==
  /\ EvidenceInv /\ revoked = {}
  /\ \A r \in Records : outbox[r] # None => outbox[r].payload.policy = policy
  /\ \A p \in Callers : CausesKept(p)

CountInv == CommitInv /\ (faults = 0 => Undisturbed)

============================================================================
