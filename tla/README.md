# Verification of the vendorchain ingestion pipeline

TLA+ models of the vendor-document pipeline in this repository, the TLC runs
that check them on small instances, and TLAPS proofs of their main theorems for
all instances. Paths are relative to the repository root; `vc/` abbreviates
`research/vendorchain/`.

## 1. The system

A vendor uploads a compliance document. The pipeline encrypts and stores it,
analyses it in a sandbox, signs a receipt over digests of the evidence, and
writes the receipt to a Hyperledger Fabric channel. SQL store and ledger share
no transaction, so a durable outbox bridges them.

| Component | Code | State | Operations | Talks to |
|---|---|---|---|---|
| Upload server | `vc/server.py` | counters `waiting`, `active`, `buffered` | accept, reserve, read body, run, answer | runs `Pipeline.run` in a thread pool |
| Ingestion pipeline | `vc/pipeline.py` | `blobs/<rid>.enc`, `sbom/<rid>.json`; locals of each call | `run` = `ingest`, `process`, `deliver` | store, files, ledger |
| Hardened pipeline | `vc/hardened.py`, `vc/evidence.py` | also `evidence/<rid>.json`, signed policy | `process`, `validate_pending` | as above, plus OPA, cosign, Vault |
| Submission store | `vc/store.py`, `vc/postgres.py` | tables submissions, outbox, events, digest_replays | `ingest`, `claim`, `prepare`, `finish`, `fail_processing`, `recover_expired`, reads | called by all of the above |
| Reconciliation | `vc/reconcile.py`, `vc/__main__.py` | none | compare each outbox row with the ledger, repair with `deliver` | store, ledger, pipeline |
| Ledger client, gateway | `vc/ledger.py`, `research/gateway/commit.mjs`, `server.mjs` | none (pending count) | `submit`, `lookup`: read first, submit, await status, read back | chaincode |
| Receipt chaincode | `chaincode/vendor.go` | world state: records, worker keys, vendors, mode | `RecordHardened`, `RegisterWorkerKey`, `RevokeWorkerKey`, queries | - |
| Evidence chaincode | `chaincode/evidence.go` | evidence keys, policy digests, records, mode | `RecordEvidence`, register, revoke, `EnableEvidenceOnly` | - |
| Ingress and sandbox | `vc/ingress.py`, `vc/sandbox.py` | one child process per call | structural gate, OCR, approximate match | called by both pipelines |
| Campaign journal | `research/experiment.py`, `recover_journal.py`, `verify_campaign.py`, `vc/stats.py` | `trials.jsonl`, a record and a measurement per trial, summary, manifest | run and record trials, recover lost lines, verify a directory | files only |

Hard behaviour, per component, and what makes it correct:

* **Store**: threads and processes call it in any order with rows that may be
  stale. A stale worker must be fenced off, the three tables must move
  together, the replay window must not leak, history must only grow.
* **Pipeline**: an upload touches files, SQL and ledger in separate steps, and
  may die between any two. Uploads race under one identifier; receipts expire,
  keys are revoked and policies change between steps. COMMITTED must imply a
  matching ledger record, the outbox must be written before the ledger, the
  evidence must survive, acknowledgements must be true, lost ones recoverable.
* **Reconciliation** runs beside all that on a listing that ages: it must repair
  what was lost, must not call a row DIVERGENCE without tampering, must count as
  `divergences` only rows with a cause, and must not report a failed repair as done.
* **Ledger**: transactions are validated later than they are endorsed; only the
  read sets keep duplicates and revoked keys out.
* **Server**: budget and counters must come back on every exit path.
* **Hardened pipeline**: inventory, file, parameters, policy and tree are read one
  after another while administrators and developers change them. A receipt must
  say what its policy decides about the tree it names, its evidence must stand
  behind it, everything must be looked at again before the ledger is written,
  and a claim must not be left without a worker when a tool fails.
* **Sandbox**: the gate walks arbitrary byte strings, chunks and graphs of values; what
  it lets through must be what is permitted, and what it refuses must have a cause.
  The child may die and the parent may stop waiting at any point.
* **Journal**: runner and recovery may die between two writes and lines or records
  may be lost. Records must be ahead of lines, a recovery must invent nothing and
  leave its trace, and only genuine directories may verify.

## 2. Modules

| Module | Models | Kind |
|---|---|---|
| `SubmissionStore` | the tables of `store.py` and each transaction as one operator | base module, no behaviour of its own |
| `StoreClients` | any client calling the store in any order, with every row a claim ever returned | specification |
| `CommitProtocol` | what is promised about one request: one receipt chosen, the ledger written once with it, then confirmed | abstract specification |
| `Pipeline` | concurrent uploads, deliveries and repairs over store, files and ledger, with disturbances | specification, implements `CommitProtocol` |
| `Chaincode` | the functions of `vendor.go` and `evidence.go`, as outcomes on a world state | base module, no behaviour of its own |
| `SerialChannel` | a channel that runs one contract function at a time | abstract specification |
| `FabricChannel` | the contract under endorsement, ordering and MVCC validation | specification, implements `SerialChannel` |
| `UploadServer` | handlers, pool, counters and receive buffers of `server.py` | specification |
| `HardenedPipeline` | concurrent hardened workers over the store, while bundle, tree and files change | specification |
| `Ingress` | `validate` of `ingress.py` as functions of a file, and a declarative description of the permitted files | pure functions |
| `Sandbox` | one call of `isolated` with its child process, `ocr_score` | specification |
| `CampaignStatistics` | `stats.py` and the summaries of `experiment.py` | pure functions |
| `CampaignJournal` | runner, recovery and verification of a measurement campaign, with losses | specification |
| `MCStoreClients`, `MCPipeline`, `MCFabricChannel`, `MCUploadServer`, `MCHardenedPipeline`, `MCSandbox`, `MCCampaignJournal` | small instances | model checking |
| `SubmissionStoreProofs` | what each transaction preserves | lemmas |
| `StoreClientsProofs` | types, fencing, outbox, audit log, replay window, history | theorems |
| `PipelineProofs` | types, safety of the commit, reports of a reconciliation, refinement, retention of the files | theorems |
| `FabricChannelProofs` | types, seriality, revocation, verifiability | theorems |
| `HardenedProofs` | types, verdict, evidence, revalidation, ownership of claims | theorems |
| `CampaignProofs` | types, order of records and lines, genuineness, traceability | theorems |
| `UploadServerProofs` | types, counters, memory, acknowledgements | theorems |
| `SandboxProofs` | exactness of the gate and of the score, types, what is accepted, refused and matched | theorems |

### Store

`Store` runs every method in one `BEGIN IMMEDIATE` transaction (PostgreSQL: one
transaction under an advisory lock), so a method is one operator:
`Ingest`, `Claim`, `Prepare`, `Finish`, `FailProcessing`, `RecoverExpired`.
A `Conflict` rolls back, so a refusal is only a condition. `Retention = 0`
stands for `retention_seconds=None`. The events table is a global hash chain;
the model keeps each record's events in chain order and not the hashes.
`prepare` and `fail_processing` take the version their worker got from `claim`,
which is what fences a worker whose lease was given away.

`StoreClients` adds three history variables: the rows `claim` has returned and the
documents `ingest` has admitted, any of which every client may use at any time, and
`givenUp`, the claims whose failure was recorded, which `FencedFailure` is about.

### Pipeline

A caller is a server thread in `Pipeline.run` (an uploader) or an operator
process in `reconcile`, with or without `--repair`, or the command-line `deliver`
(a reconciler); `mode` tells which.
`pc[p]` names the access the caller makes next, `job[p]` holds its locals:

| Steps of a caller | Code |
|---|---|
| `StartRun`, `Lookup`, `WriteBlob`, `Insert`, `Unlink` | `_ingest`: read of the row, gate, O_EXCL object, insertion, unlink on failure |
| `ReadState` | the branch of `run` |
| `TakeClaim`, `Work`, `WriteSbom`, `Sign`, `StoreReceipt`, `Fail` | `process` and its exception handler |
| `ReadPending`, `ReturnCached` | `deliver`, an entry confirmed before |
| `Verify`, `CheckRow`, `CheckEvidence`, `Submit`, `Endorse`, `AwaitCommit`, `Finalize`, `Return` | `deliver`, a new write through `commitRecord` and `RecordHardened` |
| `CheckRecovery`, `HistoricalCommit` | `deliver`, a receipt that is no longer valid |
| `StartDeliver`, `StartScan`, `ScanLedger`, `Compare`, `Reported` | `__main__`, one row of `reconcile` and its status |

`Raise` is what an exception does: it ends the call, but `reconcile` catches it, gives
the row the status CHECK_FAILED and goes on. `Counted` are the statuses that the
answer sums up as `divergences`: all but CONSISTENT and NOT_COMMITTED. So the count is
not the number of rows with status DIVERGENCE. It also has the rows on the ledger that
were not repaired, and every repair that failed, be it because the ledger was down, the
receipt expired, or another caller confirmed the row between the two reads of `deliver`.
`docs/experimental-expansion.md` wants it so ("Divergences and lookup failures remain
visible"); the properties say what each of the two means.

`Order` is Fabric's ordering and MVCC validation of a transaction endorsed
earlier: it takes effect if the record is still absent and the worker key has
not been revoked since. Transactions stay in flight when their submitter dies.

The environment: `Crash` ends a call anywhere; `WorkFails` is any failure of
sandbox, OCR, Syft or OPA; `LedgerUnreachable` a failed or late request, before
or after its effect; `StoreUnreachable` a failed access of the store;
`InsertUnacknowledged` and `FinishUnanswered` a database commit whose answer is lost
(around a claim both leave what `Crash` leaves; `HardenedPipeline` tells them
apart); `ChangePolicy`, `RevokeKey`
(in the registry file and on the ledger separately), `Tick`, `RecoverLeases`.

Data: a document stands for bytes and vendor together; an encrypted object is
named by the caller who made it and an SBOM by the claim it was made under,
since every encryption and every Syft run gives fresh bytes; a receipt is a
record of what it binds. `Payloads` holds the receipts that expire within the
worker key's validity, so that signing outside of it fails as in `verify`.
The configuration is the one Fabric mode enforces (SBOM, OCR, OPA on).

### Channel

`Chaincode` has one operator per contract function that writes. A peer only
simulates it, so an operator yields the keys it read, the key it would write and
the value, or nothing when the function refuses; `putNew` adds the written key
to the keys read, as its `GetState` does. `EnableEvidenceOnly` reads nothing.
The queries and the disabled `RecordCompliance` change nothing and are left out.

`FabricChannel` has the world state, the version of every key, and the
transactions that are simulated and not yet ordered:

| Step | Fabric |
|---|---|
| `Call`, `Endorse` | a client's call is simulated on the present world; the versions it read travel with it |
| `Commit` | the transaction is ordered, everything it read has the version it saw, its write takes effect |
| `Drop` | `MVCC_READ_CONFLICT`, or the transaction never reaches the orderer |

Ordering is free, so a peer that lags behind is an endorsement made early and
ordered late. The timestamp of a proposal is chosen by its client and Fabric
does not compare it with the block, so it is free as well; this is why no
property speaks of real time, and why "revoked by then" means revoked in the
world the record enters. `Pipeline` contains the steps of this channel that
concern one delivery, with its own clock; the contract's other functions, the v2
receipts and the clients' freedom are here.

Data: a receipt is a record of what it binds, with the public key that verifies
it (`signer`); the v2 record keeps a digest of the receipt, which here is the
receipt. Callers are administrators, submitters or neither (`authorized`).

### Upload server

A handler is a coroutine, so what it does between two awaits is one action.
`pc[r]` is the await it stands at: the header, the body, the pipeline's result,
the answer. `Finish` is the outer `finally`, which every way out runs without an
await: wipe the buffer, give back counters, answer. Of the status only 200 and
error are told apart.

| Action | `server.py` |
|---|---|
| `Connect`, `AnswerHeader`, `HeaderTimeout`, `Refuse`, `Admit` | from the header to a refusal or a reservation |
| `BodyCut`, `BodyTimeout`, `Dispatch` | `read_body`, then `to_thread` |
| `Resume`, `Close` | the call's result, the except clauses, the answer |
| `Shutdown`, `Cancel` | the loop is stopped and cancels every handler at its await |
| `StartCall`, `Gate`, `GateFails`, `Store`, `Complete` | the call on its thread: it reads the buffer at the gate and again to encrypt it, and `ingest` wipes it |

The pool's queue is in order and keeps the calls that were cancelled while they
waited in it; a thread that takes such a call skips it. What happens to store and ledger in a call is the subject of `Pipeline`.

### Hardened pipeline

`HardenedPipeline` extends the same store. `bundle` is the signed policy file, `tree`
the source tree, `sbom`, `signature` and `evidence` the files of each request. An
action is one access to something that others can change:

| Steps of a worker | Code (`vc/hardened.py`, `vc/evidence.py`) |
|---|---|
| `StartIngest`, `Insert` | `_ingest`: configuration check, insertion |
| `StartProcess`, `TakeClaim` | `process`: configuration check, `claim` |
| `Attest` | decrypt, OCR, checksum, signed identity |
| `HashTree`, `ScanTree`, `WriteScan` | `source_digest`, Syft, the digest again, `durable_write` (O_EXCL) |
| `Cosign`, `VerifyScan`, `Reread` | `CosignProvenance.sign` and `verify`, the bytes read again, the facts |
| `Decide`, `RecordEvidence`, `StoreReceipt` | `SignedPolicy.evaluate`, the receipt, the evidence file, `prepare` |
| `Fail`, `ToolFails` | `except BaseException`; a tool that is missing, slow or fails, a file or the store that cannot be accessed |
| `ClaimUnanswered`, `PrepareUnanswered`, `FailUnrecorded` | `claim` committed with its answer lost (outside the `try`), `prepare` likewise, `fail_processing` that raises itself |
| `StartDeliver`, `CheckRow` ... `CheckArtifact` | `deliver` and `validate_pending`, comparison by comparison |
| `Submit`, `SubmitUnanswered`, `CheckRecovery`, `HistoricalCommit`, `Finalize` | the rest of `deliver` |

`Require` is a guard of the code: it goes on, or to the handler in `process`, or
ends the call. The environment (`ReplaceBundle`, `ChangeTree`, `EditSbom`,
`EditEvidence`, `Crash`, `RecoverLeases`, `Tick`) is bounded by `MaxFaults`. The
history `seen` collects what was in place since a delivery began; `CommitRevalidated`
is about it, since the checks cannot be atomic and no stronger promise holds. The
history `abandoned` has the claims that were lost in one of three ways: the worker died,
the claim's answer was lost, or the failure could not be recorded. `NoOrphanedClaim`
says that there is no fourth.

Data: a digest is the content it was taken of. A tree is the number of its last
change, so that no change is ever undone: the two digests around Syft would not
notice a tree that was changed and restored in between. An edit of the SBOM file keeps
what the JSON says or changes it; an edit of the evidence file changes something that
`validate_pending` compares (others it accepts, and they change nothing here). Ledger and encrypted objects are `Pipeline`'s
subject and are one step or nothing here.

### Ingress and sandbox

`Ingress` follows `validate` branch by branch: `JpegRound` is one round of the loop over
the markers of a byte string and its entropy-coded scans, `PngChunk` what a round makes
of a chunk, `PdfStep` one call of the walk over values with their depth, expanded size
and flaws, with the recursion's stack written out. The values of a PDF are the trailer,
the objects that references name and everything written directly in an array or a
dictionary: each counts once against the limit of 20000 and each level against the 48, as
in the code, where only what a reference names can be met twice. `JpegWalk` and `PdfWalk`
are functions from the number of rounds to where the loop is then; a file of n bytes takes
at most n rounds, and a graph one step for each root and each place that holds a value and
one to end. What Pillow, pypdf and expat find out beyond that, their exceptions included,
is a field of the file (`opens`, `boxes`, `decodes`) or the flaw of a value (a reference
that the strict reader cannot follow, a stream that cannot be decoded, metadata that is no
XML), refused as `parser_rejected` at the place where the walk meets it; `IsFile` says what
a file is. `Permitted` describes the same files without walking: a JPEG as a chain of units
reachable from its start, a PDF by the closure of what its values hold; `WithinLimits` are
the number of values and the nesting that the walk may refuse beyond that.

`Sandbox` runs the gate in the child (`Gate`, `ReadPage`, `ToolFails`, `Score`), which
may end at any point (`Die`), with the parent's `Return` and `GiveUp`. `ScoreReached` is the
dynamic program of `ocr_score`: `Rows` are its rows, `EditRow` one round and `BestCost` the
minimum it keeps; the share is compared without the division of the code. The early return for
a term that is a part of the text is left out, since `ShortcutExact` shows the loop to give the
same score; pages are joined without the newlines that `Normalized` would drop.
`MatchIsSimilarity` compares the answer with the definition: some substring of the text lies
within the permitted number of edits of the term.

### Campaign

A step of `CampaignJournal` is the write of one file:

| Steps | Code |
|---|---|
| `RunTrial`, `KeepRecord`, `AppendLine` | `campaign` of `experiment.py`: one process per slot, its record, its line |
| `FinalizeJournal`, `WriteSummary`, `Export`, `WriteManifest` | the end of `campaign` |
| `RunnerDies` | the runner is killed; an append may be cut short |
| `LoseLine`, `LoseRecord` | the directory loses a line, perhaps leaving half of it, or a record |
| `StartRecovery` | `recover` up to its first write: rows put together, compared, statistics reproduced |
| `SaveOriginal` ... `RewriteManifest`, `RecoveryDies` | its writes, and its death between two of them |

`Verifies` is `verify` of `verify_campaign.py`. The statistics are computed in whole numbers
(a standard deviation as n times the sum of squares less the squared sum), since
`recover` accepts rows by whether they reproduce them. Plan and metadata do not
change and are left out.

## 3. Properties and runs

| Run | Instance | Properties |
|---|---|---|
| `store_clients` | 3 records, replay window, stale claims | `TypeOK` `FencedPrepare` `FencedFailure` `OutboxInStep` `ReplayWindow` `OnlyForward` |
| `pipeline_race` | 1 identifier, 2 documents, 2 uploaders, 2 of: crash, worker, ledger, store, lost database commit | `TypeOK` `LedgerWriteAhead` `AckTruthful` `FinishSucceeds` |
| `pipeline_recovery` | 1 uploader, 1 reconciler, 2 policies, 2 of: crash, ledger, store, policy, revocation, fair | `CommittedIsLedgered` `ReportTruthful` `CountedForCause` `ImplementsProtocol` `LostAckReconciles` |
| `pipeline_retry` | 2 records, 2 uploaders of one document, replay window, no disturbance, fair | `EvidenceRetained` `RetriedUploadIsStored` |
| `pipeline_orphan` | 1 uploader, 1 crash, fair | `RetriedUploadIsStored` is violated |
| `pipeline_commit_lost` | 2 uploaders, 1 lost database commit | `EvidenceRetained` is violated |
| `hardened` | 1 record, 2 workers, 4 bundles, 2 trees, 2 disturbances | `TypeOK` `VerdictFollowsPolicy` `EvidenceSupportsReceipt` `NoOrphanedClaim` `CommitRevalidated` |
| `channel` | a worker key, an evidence key of any role, a policy, a vendor, 1 record, 5 transactions, 2 public keys | `TypeOK` `RecordsVerifiable` `ForwardOnly` `RevocationHolds` `Serializable` |
| `upload_server` | 3 connections, 2 pending, 2 threads, 4 lengths, budget 3, fair | `TypeOK` `CountersExact` `MemoryBounded` `CapacityReturns` |
| `upload_shutdown` | 1 connection | `StoresWhatWasSent` is violated |
| `sandbox` | every JPEG of up to 4 bytes after `FF D8 FF` (and after a scan's header), every PNG of up to 4 chunks, PDF graphs of a trailer and 3 more values, texts of up to 3 characters | `TypeOK` `AcceptedIsPermitted` `RefusedForCause` `MatchIsSimilarity` |
| `campaign` | 2 tasks, 1 warmup and 2 trials each, 2 losses, fair | `TypeOK` `VerifiedIsGenuine` `RecordsAheadOfJournal` `RecoveryTraceable` `LostLinesRecover` |

Three violations are disagreements between the code and what the repository says:

* **Orphan.** `docs/experimental-expansion.md` says an identical retry stays
  idempotent. A process that dies after `durable_write` and before the row
  commits leaves `blobs/<rid>.enc`; every retry finds no row, fails at O_EXCL,
  and nothing removes the file.
* **Lost commit.** The same document says ciphertexts are retained. `_ingest`
  unlinks the object on any exception of `store.ingest`, also when the
  transaction committed and only its acknowledgement failed.
* **Shutdown.** `server.py` wants the receive buffer kept through ingestion, and its
  test expects the pipeline to see the bytes that were sent. A handler that is
  cancelled while its pipeline runs zeroes the buffer; a pipeline that has passed
  its gate encrypts, hashes and stores the zeros under the client's identifier.

Two limits of recovery became clear while modelling, and `LostLinesRecover` states
only what lies within them. `docs/empirical-readiness.md` tells to run
`recover_journal.py` and verify again. That works for the first recovery; if
it is interrupted, or lines are lost a second time, the next one stops at
`trials-original.jsonl`, which it creates with `xb`, or finds no line missing, returns, and
leaves the directory without its manifest. A campaign that dies between `summary.json` and
the manifest can never be verified either.

Bounds. In the pipelines `MaxTime` is at most 2 ticks: one receipt lifetime and one more, enough
for a receipt to be valid, to expire under a pending delivery and to be
recovered, and for the replay window (1 tick) to open. `LeaseTime = 0` lets a
lease expire at the next tick. `MaxFaults = 2` admits a disturbance during the
handling of another. Two transaction identifiers allow a duplicate submission; an identifier is
reused only when neither ledger, flight nor caller remembers it. On the channel five
transactions are what the longest case needs: key, policy, record, and two that
race it (a second registration or submission, a revocation or the switch). The
dates put an issue date before the key's interval, one ahead of the clock by the
skew and one by more, a life of the longest length and one longer, and a proposal
at the interval's end; an empty interval must be refused. The server's lengths are
none, two legal ones and one too long; two of the longer exceed the budget, and the
third connection meets a full server. The hardened bundles are two that decide
differently, one that names other controls and one without a ceiling; one bundle and
the provenance key end before the clock does; the second tree takes up a package that
one policy bans; two workers and a lease that ends at once give a worker that
outlived its claim beside its successor, two disturbances a claim that loses its answer and
one that cannot be failed. The JPEG bytes are those the walk tells
apart (fill, stuffed zero, a standalone marker, restart, start, end, scan, a length);
a trailer and three more values admit cycles, sharing and an object nothing refers to, and pass each
limit (3 values, 2 levels, 4 bytes expanded); texts and terms
are long enough for a match to begin late, end early and need an edit. The campaign
has a killed trial that left a success, a trial without a measurement, and room for
a loss after a recovery. Uploaders, workers,
reconcilers, policies, public keys and transaction identifiers are interchangeable and
declared symmetric where the run has no liveness property. Deadlock is not
checked: clock and transaction identifiers are bounded, and a system in which every call has returned
and nobody calls again has stopped rightly.

Fairness. `FairSpec` asks weak fairness of every caller's next step (threads
run; every call into the ledger has a timeout), of ordering and of time, and
strong fairness of the repair of each record: the operator runs
`reconcile --repair` again and again, as `docs/experimental-expansion.md` tells
to. `RetrySpec` adds clients that keep retrying. Strong fairness is needed because a
reconciler is busy with one record while another waits. The
server's `FairSpec` asks that timeouts fire, cancellations and results are
delivered, the pool works its queue and calls end (each subprocess and request
in them has a timeout); clients may do nothing at all. A campaign's operator runs
`recover_journal.py` until it has returned (`WF_vars(Recover)`). Nothing is assumed
about disturbances, which are bounded by `MaxFaults`, nor about `recover_expired`,
which nobody is obliged to call.

Every property of a passing run is accompanied by a faulty variant of one
operation (marked "Faulty variant" next to the operation it replaces) under which
the run reports the property violated.

## 4. Proofs

All theorems hold for every number of records, callers, documents, policies and
faults; so combinations too large for a run, such as two reconcilers beside an
uploader or crashes of two racing ones, are covered by them. Assumptions on the
constants are the named ASSUMEs of `SubmissionStore`, `Pipeline`, `Chaincode`,
`HardenedPipeline`, `CampaignStatistics`, `CampaignJournal`, `UploadServer`,
`Ingress` and `Sandbox`: `None` is no datum, callers are distinct and name their
ciphertexts, receipts in use are receipts, times are naturals, trees have an
inventory and bundles parameters, connections are finitely many, limits are
naturals, documents are files, and texts and expected terms are sequences of characters.

* `StoreClientsProofs`: `TypeCorrect`; `FencedPrepareHolds` and
  `OutboxInStepHolds` from the inductive `FenceInv`, which adds that no claimed
  version is ahead of its row; `FencedFailureHolds`, inductive beside it, since a
  FAILED row is never claimed again; `AuditMatchesStateHolds`, `ReplayWindowHolds` and
  `OnlyForwardHolds`. With these every property of the `store_clients` run is proved.
* `PipelineProofs`, types: `TypeOK /\ OutboxInStep` is inductive; neither is alone,
  since `finish` needs an outbox row to update.
* `PipelineProofs`, commit: the core argument. A step only moves the shared state
  forward (`Forward`: rows, receipts and ledger records that exist stay what
  they are). So what a caller has read stays true enough until it uses it:
  `HoldsEntry` (the outbox row it read is the row, but for its confirmation),
  `HoldsAck` (the transaction it holds is the ledger's), `HoldsDocument`. With
  these in `CommitInv`, each transaction keeps tables and ledger matched:
  `CommittedIsLedgered`, `LedgerWriteAhead`, `AckTruthful`, `FinishSucceeds`
  and `ReportTruthful` follow, and `PipelineImplementsProtocol` maps
  every transaction and every ordering to a step of `CommitProtocol` or none.
* `PipelineProofs`, the count of divergences: `CountInv` adds to `CommitInv` that, while
  nothing was disturbed, files and policy are those of every receipt (`Undisturbed`, which
  includes `EvidenceInv`) and every caller inside `deliver` can only fail for a reason that
  lasts (`CausesKept`): the receipt has expired, or the record is on the ledger or in
  flight. `CountedForCauseHolds` follows, for any number of racing callers.
* `PipelineProofs`, files: `EvidenceRetained` under `NoLostCommits`, from
  `EvidenceInv`: a caller between its object and its row owns the object, and
  no row exists. The violated run shows that the assumption is needed.
* `FabricChannelProofs`: the inductive `ChannelInv` adds to the types `MVCCInv`: a
  transaction whose reads still have the versions it saw has an outcome that its
  function would give on the present world. This rests on `ReadsDecide`: on worlds that
  agree on the keys a function lists as read it has the same outcome, so a
  forgotten read would fail there. `ChannelIsSerial` follows, and every other
  theorem argues about one serial step: `ForwardOnlyHolds` and
  `RevocationHoldsAlways` from what a function wrote on the world it was
  valid for, `RecordsVerifiableHolds` from the first of them, since authorities
  keep what records were checked against.

* `HardenedProofs`: the inductive `HInv` says of each worker what it knows at its
  present step (`WorkHolds`, `DeliverHolds`). Shared state only evolves (`Evolves`: rows
  and receipts stay, files once written are edited at most, trees are numbered
  upwards), so what one worker knows survives the steps of all others. The inventory
  is of some tree between the two digests (`WorkHolds` at "rehash"), and equal digests
  leave only the one the receipt names. A delivery's witnesses are in `seen`, because
  every change outside the store is seen by it. `VerdictFollowsPolicyHolds`,
  `EvidenceSupportsReceiptHolds` and `CommitRevalidatedHolds` follow;
  `NoOrphanedClaimHolds` is inductive beside `HInv`: a claim leaves its worker by
  `prepare`, by `fail_processing`, or into `abandoned`.
* `CampaignProofs`: the inductive `CInv`. A record is what the runner found
  (`RecordsTrue`) and is there, or known to be lost, for every slot that has run
  (`RecordsKept`); a recovery's rows agree with the records that are left and with the
  journal it set aside (`RowsRight`); a manifest pins a note that names its journal's
  restored lines (`ManifestRight`). `VerifiedIsGenuineHolds`, `RecordsAheadOfJournalHolds` and
  `RecoveryTraceableHolds` follow.
* `UploadServerProofs`: the inductive `ServerInv` says at which await a handler holds a
  reservation, a buffer and a queued call (`HandlerInv`, `CallInv`, `BufferInv`), and that
  the counters are the sums of what handlers hold. That a step moves one handler and both
  sides of such an equation alike needs facts about `SumFunction`, which are proved from
  its definition by induction over the subsets of a finite set (`SubsetInduction`, from the
  library's theorem that strict inclusion is well founded: the induction set is a set
  of subsets, so that no operator is a parameter). `MemoryBoundedHolds` and
  `AcknowledgedIsStoredHolds` follow for any number of connections, threads and lengths.
* `SandboxProofs`: `GateExact`, the gate against the declarative policy, for every file.
  The loops are induced over by `NumberInduction`, obtained likewise.
  `JpegExact`: the loop is always at a cut of the division into units or inside the
  scan that begins there, everything it has passed is behind it, and from a place where it
  refuses no division goes on (`LoopAt`, `Behind`, `Stuck`); the rounds suffice because each
  takes a byte. `PngExact`: the first chunk that ends the loop. `PdfExact`: the invariant
  `Walking` says that what is seen or on the stack covers the roots and what the values seen
  hold, is reachable, and is harmless; that the bytes counted are those of what is seen; that
  each entry's depth is at most the length of a chain of values that leads to it without
  repetition, so the depth limit refuses only what `PdfShallow` excludes; and that stack, unvisited
  places and steps taken never exceed the steps there are. `GateExact` holds with the parsers'
  exceptions as data: a file that pypdf refuses is not `Permitted`. From it, `SandboxInv` says that
  pages are read and a call is accepted only behind the gate, and `AcceptedIsPermittedHolds` and
  `RefusedForCauseHolds` follow, with no bound on bytes, chunks, values or pages.
* `SandboxProofs`, the score: `BestCostExact` says that the loop of `ocr_score` computes the
  least number of edits between the term and any stretch of the text, for every term and text.
  `TableExists` shows that the recursive functions of the model are what their equations say.
  Nothing found is too high: a row lies within 1 of the row before it and of the row for one letter
  more, less or other, and a round keeps the order of two rows (`RowMonotone`, `RowReplace`,
  `RowNear`); so an edit of the text moves the last cost by at most 1 (`OneEditCost`), from 0 for
  the term itself, whatever came before it (`NearCost`, `StretchCost`).
  Nothing found is too low: each cost in the table comes from a stretch that is that many edits
  away from that prefix (`RowsReached`). `ShortcutExact` and `ScoreExact`, with the arithmetic of
  the threshold, are corollaries; `SimilarityInv` says that the child's answer tells whether
  each term is found in the pages, which `Score` alone decides and neither death, timeout nor
  return changes, and `MatchIsSimilarityHolds` follows.

So every invariant and every action property that the passing runs check is a theorem, and so
are the refinements; two plainer invariants, `AuditMatchesState` (the last audit event of a
row is its state) and `AcknowledgedIsStored` (who is answered with success had stored what it
sent), are proved and in no run. Only model-checked: the liveness properties (`LostAckReconciles`,
`RetriedUploadIsStored`, `CapacityReturns`, `LostLinesRecover`), since TLAPS does not reach
ENABLED and so no fairness.

## 5. Not modelled

Cryptography and key management (deterministic, and Vault calls: digests and signatures
are identities); the inside of OPA, Syft and cosign (verdicts are data, failures are
steps); the parsers' libraries behind the gate; the gateway's HTTP server, which keeps
no state around `commitRecord`; corpus, ablation, collection and plotting scripts,
sequential programs over finished files; the bootstrap scripts of the test network.
`LocalLedger`, the test double, is not modelled beside Fabric.

What could be added: a composition of `HardenedPipeline` with the ledger steps of
`Pipeline`, and runs of `UploadServer` with more threads than the pool of two.
