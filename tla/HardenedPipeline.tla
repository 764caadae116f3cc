-------------------------- MODULE HardenedPipeline --------------------------
(***************************************************************************)
(* The hardened worker and its commit-time revalidation                    *)
(* (research/vendorchain/hardened.py and evidence.py) over the request     *)
(* store: what a receipt claims about the artifact, its inventory, the     *)
(* identity and the policy, while administrators replace the signed policy *)
(* bundle, the source tree moves on, files are edited, keys run out and    *)
(* workers lose their leases.                                              *)
(*                                                                         *)
(* A step is one access to what others can change.  The ledger, the        *)
(* encrypted object and reconciliation are Pipeline's subject; here a      *)
(* submission reaches the ledger in one step.                              *)
(*                                                                         *)
(* Data abstraction.  A digest is the content it was taken of.  A tree is  *)
(* the number of its last change, so no change is undone: Syft's view of a *)
(* tree changed and restored between the two digests would go unnoticed.   *)
(* Every Syft run gives fresh bytes, named by the claim they were made     *)
(* under.  An edit either keeps what the JSON says or changes it.          *)
(***************************************************************************)
EXTENDS SubmissionStore, FiniteSets, Functions

CONSTANTS
  Workers,       \* processes that run the hardened pipeline
  Genuine,       \* documents whose GSTIN checks and whose text matches
  Bundles,       \* signed policy bundles, identified with their digest
  Approving,     \* those that name this worker's trust roots and controls
  Parameters,    \* the parameters of each bundle
  BundleEnd,     \* expiresAt of each bundle
  Inventory,     \* the components Syft finds in each tree
  CertEnd,       \* not_after of the provenance key
  ReceiptLife,   \* the 600 seconds of expiresAt - issuedAt
  MaxTree,       \* bound of the model: changes of the source tree
  MaxFaults      \* bound of the model: disturbances in all

Trees == 0 .. MaxTree

ASSUME HardenedAssumption ==
  /\ Approving \subseteq Bundles /\ Genuine \subseteq Documents
  /\ MaxTree \in Nat /\ MaxFaults \in Nat /\ ReceiptLife \in Nat /\ CertEnd \in Nat
  /\ DOMAIN Inventory = Trees /\ DOMAIN Parameters = Bundles /\ BundleEnd \in [Bundles -> Nat]

VARIABLES
  bundle,      \* the signed bundle on disk
  tree,        \* the source tree
  sbom,        \* root/sbom/<rid>.json: [claim, lists, edited], or None
  signature,   \* root/sbom/<rid>.sig: the content it signs, or None
  evidence,    \* root/evidence/<rid>.json, or None
  ledger,      \* the receipt recorded for each request, or None
  pc,          \* the access each worker makes next
  job,         \* each worker's local variables
  seen,        \* history: what was in place since a worker's delivery began
  abandoned,   \* history: the claims whose worker went away without handing them on
  faults       \* disturbances so far

fileVars == <<sbom, signature, evidence>>
outside == <<bundle, tree, fileVars, ledger>>
vars == <<storeVars, outside, pc, job, seen, abandoned, faults>>

ProcessSteps == {"attest", "hash", "scan", "rehash", "cosign", "check",
                 "reread", "decide", "record", "prepare", "fail"}
DeliverSteps == {"row", "digest", "config", "evidence", "evaluate", "provenance",
                 "artifact", "submit", "recover", "history", "finish"}

Steps == {"idle", "insert", "claim"} \cup ProcessSteps \cup DeliverSteps

\* What the documents, the files and a worker's variables hold.
Lists == {Inventory[t] : t \in Trees}
Scans == [claim : Nat, lists : Lists, edited : BOOLEAN]
Identities == [document : Documents, verified : BOOLEAN, issued : Nat]
Inputs == [verified : BOOLEAN, lists : Lists, certified : BOOLEAN, parameters : Range(Parameters)]
Snapshots == [input : Inputs, policy : Bundles, verdict : {"PASS", "FAIL"}, identity : Identities]
Evidence == [identity : Identities, snapshot : Snapshots, envelope : Ciphers, edited : BOOLEAN]
Worlds == [bundle : Bundles, tree : Trees, sbom : Scans \cup {None}, evidence : Evidence \cup {None}]
Jobs == [rid : Records \cup {None}, doc : Documents \cup {None}, claimed : Nat,
         identity : Identities \cup {None}, artifact : Trees, scan : Scans \cup {None},
         input : Inputs \cup {None}, receipt : Payloads \cup {None}, entry : OutboxRows \cup {None}]

ASSUME NoFileAssumption == None \notin Scans \cup Evidence \cup Identities \cup Inputs

NoJob == [rid |-> None, doc |-> None, claimed |-> 0, identity |-> None, artifact |-> 0,
          scan |-> None, input |-> None, receipt |-> None, entry |-> None]

Init ==
  /\ StoreInit
  /\ bundle \in Approving /\ tree = 0
  /\ sbom = [r \in Records |-> None]
  /\ signature = [r \in Records |-> None]
  /\ evidence = [r \in Records |-> None]
  /\ ledger = [r \in Records |-> None]
  /\ pc = [p \in Workers |-> "idle"]
  /\ job = [p \in Workers |-> NoJob]
  /\ seen = [p \in Workers |-> {}]
  /\ abandoned = {}
  /\ faults = 0

----------------------------------------------------------------------------
(* Control of one worker. *)

Goto(p, l) == pc' = [pc EXCEPT ![p] = l]
Keep(p, l) == Goto(p, l) /\ UNCHANGED job

\* The call is over, by its return or by an exception.
End(p) ==
  /\ Goto(p, "idle")
  /\ job' = [job EXCEPT ![p] = NoJob]
  /\ seen' = [seen EXCEPT ![p] = {}]

\* A guard of the code: the next access, or the handler's, or the end of the call.
Require(p, condition, l) ==
  \/ condition /\ Keep(p, l) /\ UNCHANGED seen
  \/ ~condition /\ pc[p] \in ProcessSteps /\ Keep(p, "fail") /\ UNCHANGED seen
  \/ ~condition /\ pc[p] \notin ProcessSteps /\ End(p)

\* The worker goes away with its claim.
Abandon(p) == abandoned' = abandoned \cup {<<job[p].rid, job[p].claimed>>}

Reads == UNCHANGED <<storeVars, outside, abandoned, faults>>
Fault == faults < MaxFaults /\ faults' = faults + 1

\* verify_document, of a document that was signed to expire then: the end of an
\* interval is not part of it.
DocumentValid(expires) == now < expires

\* SignedPolicy.load
BundleLoads == DocumentValid(BundleEnd[bundle])

\* check_configuration: trust roots and controls are those the bundle names.
ConfigurationApproved == BundleLoads /\ bundle \in Approving

----------------------------------------------------------------------------
(* Admission: _ingest checks the configuration, then stores the request. *)

StartIngest(p, r, d) ==
  /\ pc[p] = "idle" /\ ConfigurationApproved
  /\ job' = [job EXCEPT ![p].rid = r, ![p].doc = d]
  /\ Goto(p, "insert")
  /\ Reads /\ UNCHANGED seen

\* The encrypted object is fresh; the document's digest names it well enough here.
Insert(p) ==
  LET r == job[p].rid  d == job[p].doc IN
  /\ pc[p] = "insert"
  /\ \/ \E c \in Ciphers : Ingest(r, d, c)
     \/ IngestRefused(r, d) /\ UNCHANGED storeVars
  /\ End(p)
  /\ UNCHANGED <<outside, abandoned, faults>>

----------------------------------------------------------------------------
(* process: from the claim to a receipt in the outbox. *)

StartProcess(p, r) ==
  /\ pc[p] = "idle" /\ ConfigurationApproved
  /\ job' = [job EXCEPT ![p].rid = r]
  /\ Goto(p, "claim")
  /\ Reads /\ UNCHANGED seen

\* Faulty variant: the identity is not attested.
TakeClaimUnattested(p) ==
  LET r == job[p].rid IN
  /\ pc[p] = "claim"
  /\ \/ /\ Claim(r)
        /\ job' = [job EXCEPT ![p].claimed = version[r] + 1]
        /\ Goto(p, "hash")
        /\ UNCHANGED seen
     \/ ClaimRefused(r) /\ End(p) /\ UNCHANGED storeVars
  /\ UNCHANGED <<outside, abandoned, faults>>

TakeClaim(p) ==
  LET r == job[p].rid IN
  /\ pc[p] = "claim"
  /\ \/ /\ Claim(r)
        /\ job' = [job EXCEPT ![p].claimed = version[r] + 1]
        /\ Goto(p, "attest")
        /\ UNCHANGED seen
     \/ ClaimRefused(r) /\ End(p) /\ UNCHANGED storeVars
  /\ UNCHANGED <<outside, abandoned, faults>>

\* The claim is committed, but its answer is lost.  No handler knows of it yet.
ClaimUnanswered(p) ==
  LET r == job[p].rid IN
  /\ pc[p] = "claim" /\ Fault
  /\ Claim(r) /\ End(p)
  /\ abandoned' = abandoned \cup {<<r, version[r] + 1>>}
  /\ UNCHANGED outside

\* Decrypt, OCR, checksum; the identity is signed as of now.
Attest(p) ==
  LET r == job[p].rid IN
  /\ pc[p] = "attest"
  /\ job' = [job EXCEPT ![p].identity =
               [document |-> document[r], verified |-> document[r] \in Genuine, issued |-> now]]
  /\ Goto(p, "hash")
  /\ Reads /\ UNCHANGED seen

HashTree(p) ==
  /\ pc[p] = "hash"
  /\ job' = [job EXCEPT ![p].artifact = tree]
  /\ Goto(p, "scan")
  /\ Reads /\ UNCHANGED seen

\* syft
ScanTree(p) ==
  /\ pc[p] = "scan"
  /\ job' = [job EXCEPT ![p].scan =
               [claim |-> job[p].claimed, lists |-> Inventory[tree], edited |-> FALSE]]
  /\ Goto(p, "rehash")
  /\ Reads /\ UNCHANGED seen

\* The tree is hashed again, and durable_write creates the file (O_EXCL).
WriteScan(p) ==
  LET r == job[p].rid
      allowed == tree = job[p].artifact /\ sbom[r] = None
  IN
  /\ pc[p] = "rehash"
  /\ Require(p, allowed, "cosign")
  /\ sbom' = IF allowed THEN [sbom EXCEPT ![r] = job[p].scan] ELSE sbom
  /\ UNCHANGED <<storeVars, bundle, tree, signature, evidence, ledger, abandoned, faults>>

\* cosign signs whatever the file holds now.
Cosign(p) ==
  LET r == job[p].rid IN
  /\ pc[p] = "cosign"
  /\ signature' = [signature EXCEPT ![r] = sbom[r]]
  /\ Keep(p, "check")
  /\ UNCHANGED <<storeVars, bundle, tree, sbom, evidence, ledger, seen, abandoned, faults>>

\* CosignProvenance.verify: the key's window, the expected digest, the signature.
ProvenanceValid(r, expected) ==
  now < CertEnd /\ sbom[r] = expected /\ signature[r] = sbom[r]

VerifyScan(p) ==
  /\ pc[p] = "check"
  /\ Require(p, ProvenanceValid(job[p].rid, job[p].scan), "reread")
  /\ Reads

\* Two files whose JSON says the same.
SaysTheSame(a, b) == a.claim = b.claim /\ a.lists = b.lists

\* The bytes that the receipt will bind, and the facts for the policy: the
\* inventory, approved() and the parameters of the bundle that is in place now.
Reread(p) ==
  LET r == job[p].rid  same == SaysTheSame(sbom[r], job[p].scan) IN
  /\ pc[p] = "reread"
  /\ \/ /\ same
        /\ BundleLoads
        /\ job' = [job EXCEPT ![p].scan = sbom[r],
                     ![p].input = [verified |-> job[p].identity.verified, lists |-> job[p].scan.lists,
                                   certified |-> now < CertEnd, parameters |-> Parameters[bundle]]]
        /\ Goto(p, "decide")
     \/ ~(same /\ BundleLoads) /\ Keep(p, "fail")
  /\ Reads /\ UNCHANGED seen

\* The rule of the policy (the other facts of the rule are constants of the code).
Allow(input) ==
  /\ input.certified
  /\ input.verified
  /\ Cardinality(input.lists) >= 1
  /\ Cardinality(input.lists) <= input.parameters.max
  /\ input.lists \cap input.parameters.banned = {}

\* validate_facts: of what it asks for, only the ceiling is not made to fit by the code.
FactsValid(input) == input.parameters.max >= 1

Verdict(input) == IF Allow(input) THEN "PASS" ELSE "FAIL"

\* Faulty variant: the parameters among the facts are not compared with the bundle's.
EvaluableAnyParameters(input) == FactsValid(input) /\ ConfigurationApproved

\* SignedPolicy.evaluate reads the bundle again; check_configuration follows.
Evaluable(input) ==
  FactsValid(input) /\ input.parameters = Parameters[bundle] /\ ConfigurationApproved

\* The snapshot and the receipt, once the bundle in place has decided.
Snapshot(p) ==
  [input |-> job[p].input, policy |-> bundle, verdict |-> Verdict(job[p].input),
   identity |-> job[p].identity]

Receipt(p) ==
  LET r == job[p].rid IN
  [record |-> r, document |-> document[r], cipher |-> cipher[r], sbom |-> job[p].scan,
   artifact |-> job[p].artifact, identity |-> job[p].identity, snapshot |-> Snapshot(p),
   policy |-> bundle, decision |-> Verdict(job[p].input), issued |-> job[p].identity.issued,
   expires |-> job[p].identity.issued + ReceiptLife]

\* The new receipt is verified at once: it has not expired, nor do the keys before
\* it (Payloads holds the receipts that expire within the keys' validity).
Decide(p) ==
  LET signable == Evaluable(job[p].input) /\ now < Receipt(p).expires /\ Receipt(p) \in Payloads IN
  /\ pc[p] = "decide"
  /\ \/ /\ signable
        /\ job' = [job EXCEPT ![p].receipt = Receipt(p)]
        /\ Goto(p, "record")
     \/ ~signable /\ Keep(p, "fail")
  /\ Reads /\ UNCHANGED seen

\* What the evidence file holds for a receipt.
EvidenceFor(x) ==
  [identity |-> x.identity, snapshot |-> x.snapshot, envelope |-> x.cipher, edited |-> FALSE]

\* Faulty variant: the evidence is only signed for, not kept.
RecordNothing(p) ==
  /\ pc[p] = "record"
  /\ Keep(p, "prepare")
  /\ Reads /\ UNCHANGED seen

RecordEvidence(p) ==
  LET r == job[p].rid IN
  /\ pc[p] = "record"
  /\ Require(p, evidence[r] = None, "prepare")
  /\ evidence' = IF evidence[r] = None
                 THEN [evidence EXCEPT ![r] = EvidenceFor(job[p].receipt)] ELSE evidence
  /\ UNCHANGED <<storeVars, bundle, tree, sbom, signature, ledger, abandoned, faults>>

StoreReceipt(p) ==
  LET r == job[p].rid IN
  /\ pc[p] = "prepare"
  /\ \/ Prepare(r, job[p].claimed, job[p].receipt) /\ End(p)
     \/ ~HoldsClaim(r, job[p].claimed) /\ Keep(p, "fail") /\ UNCHANGED <<storeVars, seen>>
  /\ UNCHANGED <<outside, abandoned, faults>>

\* The receipt is stored, but the answer is lost: the handler finds nothing to fail.
PrepareUnanswered(p) ==
  /\ pc[p] = "prepare" /\ Fault
  /\ Prepare(job[p].rid, job[p].claimed, job[p].receipt)
  /\ Keep(p, "fail")
  /\ UNCHANGED <<outside, seen, abandoned>>

\* Faulty variant: the handler lets the exception through.
FailWithoutRow(p) ==
  /\ pc[p] = "fail"
  /\ End(p)
  /\ UNCHANGED <<storeVars, outside, abandoned, faults>>

\* except BaseException: fail_processing.
Fail(p) ==
  LET r == job[p].rid IN
  /\ pc[p] = "fail"
  /\ \/ FailProcessing(r, job[p].claimed)
     \/ ~HoldsClaim(r, job[p].claimed) /\ UNCHANGED storeVars
  /\ End(p)
  /\ UNCHANGED <<outside, abandoned, faults>>

\* fail_processing raises itself, and has done nothing.
FailUnrecorded(p) ==
  /\ pc[p] = "fail" /\ Fault
  /\ End(p) /\ Abandon(p)
  /\ UNCHANGED <<storeVars, outside>>

\* A tool is missing, too slow or fails; a file or the store cannot be accessed.
ToolFails(p) ==
  /\ pc[p] \in ProcessSteps \ {"fail"} /\ Fault
  /\ Keep(p, "fail")
  /\ UNCHANGED <<storeVars, outside, seen, abandoned>>

----------------------------------------------------------------------------
(* deliver: everything the receipt rests on is looked at again. *)

\* What is in place outside the store for r.
World(r) == [bundle |-> bundle, tree |-> tree, sbom |-> sbom[r], evidence |-> evidence[r]]

\* The outbox row is read, and the receipt verified against the clock.
StartDeliver(p, r) ==
  /\ pc[p] = "idle" /\ outbox[r] # None /\ outbox[r].status = "PENDING"
  /\ job' = [job EXCEPT ![p].rid = r, ![p].entry = outbox[r]]
  /\ seen' = [seen EXCEPT ![p] = {World(r)}]
  /\ Goto(p, IF now < outbox[r].payload.expires THEN "row" ELSE "recover")
  /\ Reads

RowCurrent(p) ==
  LET r == job[p].rid IN state[r] = "PREPARED" /\ version[r] = job[p].entry.snapshot

CheckRow(p) ==
  /\ pc[p] = "row"
  /\ Require(p, RowCurrent(p) /\ BundleLoads /\ job[p].entry.payload.policy = bundle, "digest")
  /\ Reads

CheckDigest(p) ==
  /\ pc[p] = "digest"
  /\ Require(p, sbom[job[p].rid] = job[p].entry.payload.sbom, "config")
  /\ Reads

CheckConfiguration(p) ==
  /\ pc[p] = "config"
  /\ Require(p, ConfigurationApproved, "evidence")
  /\ Reads

\* The evidence file carries the receipt's identity, still valid, its snapshot and
\* the row's envelope; the identity is of the receipt's document.
CheckEvidence(p) ==
  LET r == job[p].rid  x == job[p].entry.payload IN
  /\ pc[p] = "evidence"
  /\ Require(p, /\ evidence[r] = EvidenceFor(x) /\ x.cipher = cipher[r]
                /\ DocumentValid(x.identity.issued + ReceiptLife)
                /\ x.identity.document = x.document
                /\ x.snapshot.identity = x.identity, "evaluate")
  /\ Reads

\* The snapshot's facts are decided again, by the bundle in place now.
Reevaluate(p) ==
  LET x == job[p].entry.payload IN
  /\ pc[p] = "evaluate"
  /\ Require(p, /\ Evaluable(x.snapshot.input)
                /\ x.policy = bundle /\ x.snapshot.policy = bundle
                /\ x.decision = Verdict(x.snapshot.input), "provenance")
  /\ Reads

VerifyProvenance(p) ==
  /\ pc[p] = "provenance"
  /\ Require(p, ProvenanceValid(job[p].rid, job[p].entry.payload.sbom), "artifact")
  /\ Reads

\* Faulty variant: the source tree is not hashed again.
SkipArtifact(p) ==
  /\ pc[p] = "artifact"
  /\ Keep(p, "submit")
  /\ Reads /\ UNCHANGED seen

CheckArtifact(p) ==
  /\ pc[p] = "artifact"
  /\ Require(p, tree = job[p].entry.payload.artifact, "submit")
  /\ Reads

\* The ledger takes the first receipt of a record, if it has not expired, and
\* acknowledges the same one again.
Recorded(p) == ledger[job[p].rid] = job[p].entry.payload
Acceptable(p) == ledger[job[p].rid] = None /\ now < job[p].entry.payload.expires

Submit(p) ==
  LET r == job[p].rid IN
  /\ pc[p] = "submit"
  /\ Require(p, Recorded(p) \/ Acceptable(p), "finish")
  /\ ledger' = IF Acceptable(p) THEN [ledger EXCEPT ![r] = job[p].entry.payload] ELSE ledger
  /\ UNCHANGED <<storeVars, bundle, tree, fileVars, abandoned, faults>>

\* The ledger takes it, but the answer is lost.
SubmitUnanswered(p) ==
  LET r == job[p].rid IN
  /\ pc[p] = "submit" /\ Fault /\ Acceptable(p)
  /\ ledger' = [ledger EXCEPT ![r] = job[p].entry.payload]
  /\ End(p)
  /\ UNCHANGED <<storeVars, bundle, tree, fileVars, abandoned>>

\* A receipt that has expired is only looked up.
CheckRecovery(p) ==
  /\ pc[p] = "recover"
  /\ Require(p, RowCurrent(p), "history")
  /\ Reads

HistoricalCommit(p) ==
  /\ pc[p] = "history"
  /\ Require(p, Recorded(p), "finish")
  /\ Reads

\* Which transaction it was is no matter here.
Finalize(p) ==
  LET r == job[p].rid  e == job[p].entry IN
  /\ pc[p] = "finish"
  /\ \/ \E tx \in TxIds : Finish(r, e.snapshot, tx, e.payload)
     \/ ~FinishAllowed(r, e.snapshot, e.payload) /\ UNCHANGED storeVars
  /\ End(p)
  /\ UNCHANGED <<outside, abandoned, faults>>

----------------------------------------------------------------------------
(* The environment.  Deliveries under way get to see what it puts in place. *)

Witnessed ==
  seen' = [p \in Workers |-> IF pc[p] \in DeliverSteps
                             THEN LET r == job[p].rid IN
                                  seen[p] \cup {[bundle |-> bundle', tree |-> tree',
                                                 sbom |-> sbom'[r], evidence |-> evidence'[r]]}
                             ELSE seen[p]]

ReplaceBundle ==
  /\ Fault
  /\ \E b \in Bundles \ {bundle} : bundle' = b
  /\ UNCHANGED <<storeVars, tree, fileVars, ledger, pc, job, abandoned>>
  /\ Witnessed

ChangeTree ==
  /\ tree < MaxTree /\ Fault
  /\ tree' = tree + 1
  /\ UNCHANGED <<storeVars, bundle, fileVars, ledger, pc, job, abandoned>>
  /\ Witnessed

\* Somebody edits the SBOM file, to say the same or something else.
EditSbom(r) ==
  /\ sbom[r] # None /\ Fault
  /\ \E t \in Trees :
       sbom' = [sbom EXCEPT ![r] = [@ EXCEPT !.lists = Inventory[t], !.edited = TRUE]]
  /\ UNCHANGED <<storeVars, bundle, tree, signature, evidence, ledger, pc, job, abandoned>>
  /\ Witnessed

\* Somebody changes what deliver compares in the evidence file.  (An edit of
\* anything else in it, of its layout or its copy of the receipt, changes nothing here.)
EditEvidence(r) ==
  /\ evidence[r] # None /\ Fault
  /\ evidence' = [evidence EXCEPT ![r].edited = TRUE]
  /\ UNCHANGED <<storeVars, bundle, tree, sbom, signature, ledger, pc, job, abandoned>>
  /\ Witnessed

\* A worker dies.  (An access of a delivery that fails ends the call likewise.)
Crash(p) ==
  /\ pc[p] # "idle" /\ Fault
  /\ End(p)
  /\ \/ pc[p] \in ProcessSteps /\ Abandon(p)
     \/ pc[p] \notin ProcessSteps /\ UNCHANGED abandoned
  /\ UNCHANGED <<storeVars, outside>>

RecoverLeases ==
  /\ RecoverExpired
  /\ UNCHANGED <<outside, pc, job, seen, abandoned, faults>>

Tick ==
  /\ now < MaxTime
  /\ now' = now + 1
  /\ UNCHANGED <<state, version, lease, document, cipher, outbox, digests, audit>>
  /\ UNCHANGED <<outside, pc, job, seen, abandoned, faults>>

----------------------------------------------------------------------------
Process(p) ==
  \/ TakeClaim(p) \/ ClaimUnanswered(p) \/ Attest(p) \/ HashTree(p) \/ ScanTree(p)
  \/ WriteScan(p) \/ Cosign(p) \/ VerifyScan(p) \/ Reread(p) \/ Decide(p) \/ RecordEvidence(p)
  \/ StoreReceipt(p) \/ PrepareUnanswered(p) \/ Fail(p) \/ FailUnrecorded(p) \/ ToolFails(p)

Deliver(p) ==
  \/ CheckRow(p) \/ CheckDigest(p) \/ CheckConfiguration(p) \/ CheckEvidence(p)
  \/ Reevaluate(p) \/ VerifyProvenance(p) \/ CheckArtifact(p) \/ Submit(p)
  \/ SubmitUnanswered(p) \/ CheckRecovery(p) \/ HistoricalCommit(p) \/ Finalize(p)

Called(p, r) ==
  \/ \E d \in Documents : StartIngest(p, r, d)
  \/ StartProcess(p, r) \/ StartDeliver(p, r)

Disturb(r) == EditSbom(r) \/ EditEvidence(r)

Next ==
  \/ \E p \in Workers : Insert(p) \/ Process(p) \/ Deliver(p) \/ Crash(p)
  \/ \E p \in Workers, r \in Records : Called(p, r)
  \/ \E r \in Records : Disturb(r)
  \/ ReplaceBundle \/ ChangeTree \/ RecoverLeases \/ Tick

Spec == Init /\ [][Next]_vars

----------------------------------------------------------------------------
(* Properties. *)

LocalsAssigned(l, j) ==
  /\ l # "idle" => j.rid \in Records
  /\ l = "insert" => j.doc # None
  /\ l \in ProcessSteps \ {"attest", "fail"} => j.identity # None
  /\ l \in {"rehash", "cosign", "check", "reread", "decide"} => j.scan # None
  /\ l = "decide" => j.input # None
  /\ l \in {"record", "prepare"} => j.receipt # None
  /\ l \in DeliverSteps => j.entry # None

FilesTypeOK ==
  /\ sbom \in [Records -> Scans \cup {None}]
  /\ signature \in [Records -> Scans \cup {None}]
  /\ evidence \in [Records -> Evidence \cup {None}]

TypeOK ==
  /\ StoreTypeOK /\ FilesTypeOK
  /\ bundle \in Bundles /\ tree \in Trees /\ faults \in 0 .. MaxFaults
  /\ abandoned \subseteq Records \X Nat
  /\ ledger \in [Records -> Payloads \cup {None}]
  /\ pc \in [Workers -> Steps] /\ job \in [Workers -> Jobs] /\ seen \in [Workers -> SUBSET Worlds]
  /\ \A p \in Workers : LocalsAssigned(pc[p], job[p])

\* A receipt says what its policy decides: the verdict in the outbox and on the ledger is
\* the named bundle's, with that bundle's own parameters, on the components of the
\* very tree it names and the identity of its document, although inventory, file,
\* parameters and policy are each read at a time of their own.
VerdictFollowsPolicy ==
  \A r \in Records : outbox[r] # None =>
    LET x == outbox[r].payload IN
    /\ x.policy \in Approving
    /\ x.sbom.lists = Inventory[x.artifact]
    /\ x.decision = Verdict([verified |-> document[r] \in Genuine, lists |-> Inventory[x.artifact],
                             certified |-> x.snapshot.input.certified,
                             parameters |-> Parameters[x.policy]])

\* The receipt in the outbox has its evidence behind it: the SBOM file and the evidence
\* file, unless they were edited, are the ones it binds, whichever workers that lost
\* their lease kept running.
EvidenceSupportsReceipt ==
  \A r \in Records : outbox[r] # None =>
    LET x == outbox[r].payload IN
    /\ sbom[r] # None /\ (sbom[r].edited \/ sbom[r] = x.sbom)
    /\ evidence[r] # None /\ (evidence[r].edited \/ evidence[r] = EvidenceFor(x))
    /\ x.cipher = cipher[r]

\* A write to the ledger was revalidated: all that the receipt rests on was in place at
\* some moment between the read of the outbox row and the submission.
CommitRevalidated ==
  [][\A r \in Records : ledger'[r] # ledger[r] =>
       LET x == ledger'[r] IN
       \E p \in Workers :
         /\ pc[p] = "submit" /\ job[p].rid = r
         /\ \E w \in seen[p] : w.bundle = x.policy
         /\ \E w \in seen[p] : w.tree = x.artifact
         /\ \E w \in seen[p] : w.sbom = x.sbom
         /\ \E w \in seen[p] : w.evidence = EvidenceFor(x)]_vars

\* A claim is always somebody's: a PROCESSING row has the worker that will prepare or
\* fail it, whatever failed in between, except for the three ways of losing one: its
\* worker died, the claim's answer was lost, or its failure could not be recorded.
NoOrphanedClaim ==
  \A r \in Records : state[r] = "PROCESSING" =>
    \/ <<r, version[r]>> \in abandoned
    \/ \E p \in Workers : pc[p] \in ProcessSteps /\ job[p].rid = r /\ job[p].claimed = version[r]
============================================================================
