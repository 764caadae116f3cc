--------------------------- MODULE HardenedProofs ---------------------------
(***************************************************************************)
(* What a hardened receipt says, what stands behind it and what was looked *)
(* at again before it reached the ledger, for every number of workers,     *)
(* requests, bundles, trees and disturbances.  The argument: the shared    *)
(* state only evolves (rows and receipts stay, files once written are      *)
(* edited at most, the tree grows), so what a worker found out stays true  *)
(* of the record it found it out about, and what a delivery has compared   *)
(* was in place at some moment since it began.                             *)
(***************************************************************************)
EXTENDS HardenedPipeline, SubmissionStoreProofs

----------------------------------------------------------------------------
(* The inductive invariant. *)

PlacesOK ==
  /\ pc \in [Workers -> Steps] /\ job \in [Workers -> Jobs] /\ seen \in [Workers -> SUBSET Worlds]
  /\ \A p \in Workers : LocalsAssigned(pc[p], job[p])

SharedOK ==
  /\ StoreTypeOK /\ FilesTypeOK
  /\ bundle \in Bundles /\ tree \in Trees /\ faults \in 0 .. MaxFaults /\ abandoned \subseteq Records \X Nat
  /\ ledger \in [Records -> Payloads \cup {None}]

\* A row has its document and its encrypted object.
RowsHold ==
  \A r \in Records : Exists(r) => document[r] \in Documents /\ cipher[r] \in Ciphers

\* The identity is of the row's document.
Identified(r, i) == i.document = document[r] /\ i.verified = (document[r] \in Genuine)

\* The SBOM file of r is s, unless it was edited.
Kept(r, s) == sbom[r] # None /\ (sbom[r].edited \/ sbom[r] = s)

\* The evidence file of r is that of x, unless it was edited.
Backed(r, x) == evidence[r] # None /\ (evidence[r].edited \/ evidence[r] = EvidenceFor(x))

\* A receipt for r that says what its policy decides.
Good(r, x) ==
  /\ x.policy \in Approving /\ x.cipher = cipher[r]
  /\ x.identity \in Identities /\ x.snapshot \in Snapshots
  /\ x.sbom.lists = Inventory[x.artifact]
  /\ x.decision = Verdict(x.snapshot.input)
  /\ x.snapshot.input.verified = (document[r] \in Genuine)
  /\ x.snapshot.input.lists = Inventory[x.artifact]
  /\ x.snapshot.input.parameters = Parameters[x.policy]

OutboxHolds ==
  \A r \in Records : outbox[r] # None =>
    LET x == outbox[r].payload IN Good(r, x) /\ Kept(r, x.sbom) /\ Backed(r, x)

\* What a worker that processes r knows of r.
WorkHolds(p) ==
  LET r == job[p].rid  l == pc[p]  j == job[p] IN
  l \in ProcessSteps =>
    /\ Exists(r)
    /\ l \notin {"attest", "fail"} => Identified(r, j.identity)
    /\ l = "scan" => j.artifact <= tree
    /\ l = "rehash" => \E t \in Trees : j.artifact <= t /\ t <= tree /\ j.scan.lists = Inventory[t]
    /\ l \in {"cosign", "check", "reread", "decide"} =>
         j.scan.lists = Inventory[j.artifact] /\ Kept(r, j.scan)
    /\ l = "decide" => j.input.verified = j.identity.verified /\ j.input.lists = j.scan.lists
    /\ l \in {"record", "prepare"} => Good(r, j.receipt) /\ Kept(r, j.receipt.sbom)
    /\ l = "prepare" => Backed(r, j.receipt)

\* What a delivery has compared was in place at some moment it has seen.
DeliverHolds(p) ==
  LET r == job[p].rid  l == pc[p]  x == job[p].entry.payload IN
  l \in DeliverSteps =>
    /\ outbox[r] # None /\ outbox[r].payload = x
    /\ World(r) \in seen[p]
    /\ l \in {"digest", "config", "evidence", "evaluate", "provenance", "artifact", "submit"} =>
         \E w \in seen[p] : w.bundle = x.policy
    /\ l \in {"config", "evidence", "evaluate", "provenance", "artifact", "submit"} =>
         \E w \in seen[p] : w.sbom = x.sbom
    /\ l \in {"evaluate", "provenance", "artifact", "submit"} =>
         \E w \in seen[p] : w.evidence = EvidenceFor(x)
    /\ l = "submit" => \E w \in seen[p] : w.tree = x.artifact

WorkerHolds(p) == WorkHolds(p) /\ DeliverHolds(p)

HInv ==
  /\ SharedOK /\ PlacesOK /\ OutboxInStep /\ RowsHold /\ OutboxHolds
  /\ \A p \in Workers : WorkerHolds(p)

----------------------------------------------------------------------------
(* Shared state only evolves. *)

Evolves ==
  /\ tree <= tree'
  /\ \A r \in Records :
       /\ Exists(r) => Exists(r)' /\ document'[r] = document[r] /\ cipher'[r] = cipher[r]
       /\ outbox[r] # None => outbox'[r] # None /\ outbox'[r].payload = outbox[r].payload
       /\ sbom[r] # None => sbom'[r] # None /\ (sbom'[r] = sbom[r] \/ sbom'[r].edited)
       /\ evidence[r] # None =>
            evidence'[r] # None /\ (evidence'[r] = evidence[r] \/ evidence'[r].edited)

\* No file is edited and nothing is replaced.
Calm ==
  /\ UNCHANGED <<bundle, tree>>
  /\ \A r \in Records : (sbom[r] # None => sbom'[r] = sbom[r])
                        /\ (evidence[r] # None => evidence'[r] = evidence[r])

\* The tables keep what is in them.
StoreEvolves ==
  \A r \in Records :
    /\ Exists(r) => Exists(r)' /\ document'[r] = document[r] /\ cipher'[r] = cipher[r]
    /\ outbox[r] # None => outbox'[r] # None /\ outbox'[r].payload = outbox[r].payload

StoreOK == StoreTypeOK /\ OutboxInStep /\ RowsHold

\* Time passing changes no row.
LEMMA StoreQuiet ==
  ASSUME StoreOK, UNCHANGED <<state, version, lease, document, cipher, outbox, digests, audit>>,
         now' \in Nat
  PROVE  StoreOK' /\ StoreEvolves
BY DEF StoreOK, StoreTypeOK, OutboxInStep, RowsHold, Exists, StoreEvolves

\* A new row was absent before.
LEMMA IngestEvolves ==
  ASSUME StoreOK, NEW r \in Records, NEW d \in Documents, NEW c \in Ciphers, Ingest(r, d, c)
  PROVE  StoreOK' /\ StoreEvolves
<1>1. StoreTypeOK' /\ OutboxInStep'
  BY IngestType, IngestInStep DEF StoreOK
<1>2. ~Exists(r)
  BY DEF Ingest, IngestRefused
<1>3. RowsHold' /\ StoreEvolves
  BY <1>2 DEF Ingest, Advance, Exists, RowsHold, StoreEvolves, StoreOK, StoreTypeOK
<1> QED BY <1>1, <1>3 DEF StoreOK

\* A claim keeps document and envelope.
LEMMA ClaimEvolves ==
  ASSUME StoreOK, NEW r \in Records, Claim(r)
  PROVE  StoreOK' /\ StoreEvolves
<1>1. StoreTypeOK' /\ OutboxInStep'
  BY ClaimType, ClaimInStep DEF StoreOK
<1>2. RowsHold' /\ StoreEvolves
  BY DEF Claim, ClaimRefused, Advance, Exists, RowsHold, StoreEvolves, StoreOK, StoreTypeOK
<1> QED BY <1>1, <1>2 DEF StoreOK

\* Preparing adds the only outbox row.
LEMMA PrepareEvolves ==
  ASSUME StoreOK, NEW r \in Records, NEW v \in Nat, NEW x \in Payloads, Prepare(r, v, x)
  PROVE  StoreOK' /\ StoreEvolves /\ Exists(r)
<1>1. StoreTypeOK' /\ OutboxInStep'
  BY PrepareType, PrepareInStep DEF StoreOK
<1>2. outbox[r] = None /\ Exists(r)
  BY DEF Prepare, HoldsClaim, StoreOK, OutboxInStep, Exists
<1>3. RowsHold' /\ StoreEvolves
  BY <1>2 DEF Prepare, Advance, Exists, RowsHold, StoreEvolves, StoreOK, StoreTypeOK
<1> QED BY <1>1, <1>2, <1>3 DEF StoreOK

\* Finishing keeps the payload.
LEMMA FinishEvolves ==
  ASSUME StoreOK, NEW r \in Records, NEW v \in Nat, NEW tx \in TxIds, NEW x \in Payloads,
         Finish(r, v, tx, x)
  PROVE  StoreOK' /\ StoreEvolves
<1>0. outbox[r] # None /\ Exists(r)
  BY DEF Finish, FinishAllowed, StoreOK, OutboxInStep, Exists
<1>1. StoreTypeOK' /\ OutboxInStep'
  BY <1>0, FinishType, FinishInStep DEF StoreOK
<1>2. outbox[r] \in OutboxRows
  BY <1>0 DEF StoreOK, StoreTypeOK
<1>3. /\ [outbox[r] EXCEPT !.status = "CONFIRMED", !.tx = tx] \in OutboxRows
      /\ [outbox[r] EXCEPT !.status = "CONFIRMED", !.tx = tx].payload = outbox[r].payload
  BY <1>2 DEF OutboxRows
<1>4. outbox' = [outbox EXCEPT ![r] = [outbox[r] EXCEPT !.status = "CONFIRMED", !.tx = tx]]
  BY DEF Finish
<1>5. \A q \in Records : outbox[q] # None => outbox'[q] # None /\ outbox'[q].payload = outbox[q].payload
  BY <1>3, <1>4, NoRowAssumption DEF StoreOK, StoreTypeOK
<1>6. \A q \in Records : Exists(q) => Exists(q)' /\ document'[q] = document[q] /\ cipher'[q] = cipher[q]
  BY DEF Finish, Advance, Exists, StoreOK, StoreTypeOK
<1>7. RowsHold'
  BY <1>0, <1>6 DEF Finish, Advance, Exists, RowsHold, StoreOK, StoreTypeOK
<1> QED BY <1>1, <1>5, <1>6, <1>7 DEF StoreOK, StoreEvolves

\* Failing keeps document and envelope.
LEMMA FailEvolves ==
  ASSUME StoreOK, NEW r \in Records, NEW v \in Nat, FailProcessing(r, v)
  PROVE  StoreOK' /\ StoreEvolves
<1>1. StoreTypeOK' /\ OutboxInStep'
  BY FailType, FailInStep DEF StoreOK
<1>2. RowsHold' /\ StoreEvolves
  BY DEF FailProcessing, HoldsClaim, Advance, Exists, RowsHold, StoreEvolves, StoreOK, StoreTypeOK
<1> QED BY <1>1, <1>2 DEF StoreOK

\* So does the recovery of leases.
LEMMA RecoverEvolves ==
  ASSUME StoreOK, RecoverExpired
  PROVE  StoreOK' /\ StoreEvolves
<1>1. StoreTypeOK' /\ OutboxInStep'
  BY RecoverType, RecoverInStep DEF StoreOK
<1>2. RowsHold' /\ StoreEvolves
  BY DEF RecoverExpired, Expired, Exists, RowsHold, StoreEvolves, StoreOK, StoreTypeOK
<1> QED BY <1>1, <1>2 DEF StoreOK

----------------------------------------------------------------------------
(* One worker moves: what it holds afterwards, the others staying where they are. *)

Others(p) ==
  \A q \in Workers \ {p} : pc'[q] = pc[q] /\ job'[q] = job[q] /\ seen'[q] = seen[q]

Moves(p) == PlacesOK' /\ Others(p) /\ WorkerHolds(p)'

\* Types of one worker.
LEMMA WorkerFacts ==
  ASSUME HInv, NEW p \in Workers
  PROVE  /\ job[p] \in Jobs /\ LocalsAssigned(pc[p], job[p]) /\ pc[p] \in Steps
         /\ pc[p] # "idle" => job[p].rid \in Records
         /\ seen[p] \in SUBSET Worlds
BY DEF HInv, PlacesOK, LocalsAssigned

\* A worker that changes everything it has.
LEMMA Placed ==
  ASSUME PlacesOK, NEW p \in Workers, NEW l \in Steps, NEW j \in Jobs, NEW s \in SUBSET Worlds,
         LocalsAssigned(l, j), Goto(p, l), job' = [job EXCEPT ![p] = j],
         seen' = [seen EXCEPT ![p] = s]
  PROVE  PlacesOK' /\ Others(p) /\ pc'[p] = l /\ job'[p] = j /\ seen'[p] = s
BY DEF PlacesOK, Goto, Others

\* One that changes its variables.
LEMMA WorkPlaced ==
  ASSUME PlacesOK, NEW p \in Workers, NEW l \in Steps, NEW j \in Jobs,
         LocalsAssigned(l, j), Goto(p, l), job' = [job EXCEPT ![p] = j], UNCHANGED seen
  PROVE  PlacesOK' /\ Others(p) /\ pc'[p] = l /\ job'[p] = j /\ seen'[p] = seen[p]
BY DEF PlacesOK, Goto, Others

\* One that only goes on.
LEMMA KeepPlaced ==
  ASSUME PlacesOK, NEW p \in Workers, NEW l \in Steps, LocalsAssigned(l, job[p]), Keep(p, l),
         UNCHANGED seen
  PROVE  PlacesOK' /\ Others(p) /\ pc'[p] = l /\ job'[p] = job[p] /\ seen'[p] = seen[p]
BY DEF PlacesOK, Keep, Goto, Others

\* A worker whose call is over knows nothing.
LEMMA EndMoves ==
  ASSUME PlacesOK, NEW p \in Workers, End(p) PROVE Moves(p)
<1>1. NoJob \in Jobs /\ LocalsAssigned("idle", NoJob) /\ "idle" \in Steps /\ {} \in SUBSET Worlds
  <2>1. 0 \in Trees
    BY HardenedAssumption DEF Trees
  <2> QED BY <2>1 DEF NoJob, Jobs, LocalsAssigned, Steps, ProcessSteps, DeliverSteps
<1>2. PlacesOK' /\ Others(p) /\ pc'[p] = "idle"
  BY <1>1, Placed DEF End
<1> QED BY <1>2 DEF Moves, WorkerHolds, WorkHolds, DeliverHolds, ProcessSteps, DeliverSteps

\* Nor does one that is about to give up know more than its request.
LEMMA FailMoves ==
  ASSUME HInv, Evolves, NEW p \in Workers, pc[p] \in ProcessSteps, Keep(p, "fail"), UNCHANGED seen
  PROVE  Moves(p)
<1>1. "fail" \in Steps /\ LocalsAssigned("fail", job[p]) /\ job[p].rid \in Records
  BY WorkerFacts DEF Steps, ProcessSteps, DeliverSteps, LocalsAssigned
<1>2. PlacesOK' /\ Others(p) /\ pc'[p] = "fail" /\ job'[p] = job[p]
  BY <1>1, KeepPlaced DEF HInv
<1>3. Exists(job[p].rid)'
  BY <1>1, <1>2 DEF HInv, WorkerHolds, WorkHolds, Evolves, Exists
<1> QED BY <1>2, <1>3 DEF Moves, WorkerHolds, WorkHolds, DeliverHolds, ProcessSteps, DeliverSteps, Exists

\* A guard leads on, to the handler or to the end.
LEMMA RequireMoves ==
  ASSUME HInv, Evolves, NEW p \in Workers, NEW condition, NEW l, Require(p, condition, l),
         condition /\ Keep(p, l) /\ UNCHANGED seen => Moves(p)
  PROVE  Moves(p)
BY EndMoves, FailMoves DEF Require, HInv

----------------------------------------------------------------------------
(* process. *)

\* The claim finds its row.
LEMMA ClaimMoves ==
  ASSUME HInv, Evolves, NEW p \in Workers, TakeClaim(p) PROVE Moves(p)
<1> DEFINE r == job[p].rid  j == [job[p] EXCEPT !.claimed = version[r] + 1]
<1>0. /\ r \in Records /\ PlacesOK /\ job[p] \in Jobs /\ LocalsAssigned(pc[p], job[p])
      /\ version[r] + 1 \in Nat
  BY WorkerFacts DEF TakeClaim, HInv, SharedOK, StoreTypeOK
<1>1. CASE Claim(r) /\ job' = [job EXCEPT ![p].claimed = version[r] + 1] /\ Goto(p, "attest") /\ UNCHANGED seen
  <2>1. j \in Jobs /\ LocalsAssigned("attest", j) /\ "attest" \in Steps /\ j.rid = r
    BY <1>0 DEF Jobs, LocalsAssigned, Steps, ProcessSteps, DeliverSteps
  <2>2. job' = [job EXCEPT ![p] = j]
    BY <1>1
  <2>3. PlacesOK' /\ Others(p) /\ pc'[p] = "attest" /\ job'[p] = j
    BY <1>0, <1>1, <2>1, <2>2, WorkPlaced
  <2>4. state'[r] # "ABSENT"
    BY <1>0, <1>1 DEF Evolves, Claim, ClaimRefused, Exists
  <2> QED BY <2>1, <2>3, <2>4
          DEF Moves, WorkerHolds, WorkHolds, DeliverHolds, ProcessSteps, DeliverSteps, Exists
<1> QED BY <1>0, <1>1, EndMoves DEF TakeClaim

\* The identity is of the row's document.
LEMMA AttestMoves ==
  ASSUME HInv, Evolves, NEW p \in Workers, Attest(p) PROVE Moves(p)
<1> DEFINE r == job[p].rid
           i == [document |-> document[r], verified |-> document[r] \in Genuine, issued |-> now]
           j == [job[p] EXCEPT !.identity = i]
<1>0. /\ r \in Records /\ PlacesOK /\ job[p] \in Jobs /\ LocalsAssigned(pc[p], job[p])
      /\ Exists(r)
  BY WorkerFacts DEF Attest, HInv, WorkerHolds, WorkHolds, ProcessSteps
<1>1. i \in Identities
  BY <1>0 DEF HInv, SharedOK, StoreTypeOK, RowsHold, Identities
<1>2. i # None
  BY <1>1, NoFileAssumption
<1>3. j \in Jobs /\ j.rid = r /\ j.identity = i
  BY <1>0, <1>1 DEF Jobs
<1>4. LocalsAssigned("hash", j) /\ "hash" \in Steps
  BY <1>0, <1>2, <1>3 DEF LocalsAssigned, Steps, ProcessSteps, DeliverSteps
<1>5. job' = [job EXCEPT ![p] = j]
  BY DEF Attest
<1>6. Goto(p, "hash") /\ UNCHANGED seen
  BY DEF Attest
<1>7. state'[r] # "ABSENT" /\ document'[r] = document[r]
  BY <1>0 DEF Evolves, Exists
<1>8. i.document = document[r] /\ i.verified = (document[r] \in Genuine)
  OBVIOUS
<1>9. i.document = document'[r] /\ i.verified = (document'[r] \in Genuine)
  BY <1>7, <1>8
<1> HIDE DEF i, j
<1>10. PlacesOK' /\ Others(p) /\ pc'[p] = "hash" /\ job'[p] = j
  BY <1>0, <1>3, <1>4, <1>5, <1>6, WorkPlaced
<1> QED BY <1>3, <1>7, <1>9, <1>10
        DEF Moves, WorkerHolds, WorkHolds, DeliverHolds, ProcessSteps, DeliverSteps, Exists, Identified

\* What every worker at work can rely on.
LEMMA WorkFacts ==
  ASSUME HInv, Evolves, NEW p \in Workers, pc[p] \in ProcessSteps
  PROVE  LET r == job[p].rid IN
         /\ r \in Records /\ PlacesOK /\ job[p] \in Jobs /\ LocalsAssigned(pc[p], job[p])
         /\ document[r] \in Documents /\ cipher[r] \in Ciphers
         /\ state'[r] # "ABSENT" /\ document'[r] = document[r] /\ cipher'[r] = cipher[r]
         /\ WorkHolds(p) /\ tree \in Trees /\ bundle \in Bundles
<1>1. job[p].rid \in Records /\ Exists(job[p].rid) /\ WorkHolds(p)
  BY WorkerFacts DEF HInv, WorkerHolds, WorkHolds, ProcessSteps
<1> QED BY <1>1, WorkerFacts DEF HInv, SharedOK, RowsHold, Evolves, Exists

\* The digest is of a tree no later than the one in place.
LEMMA HashMoves ==
  ASSUME HInv, Evolves, NEW p \in Workers, HashTree(p) PROVE Moves(p)
<1> DEFINE r == job[p].rid  j == [job[p] EXCEPT !.artifact = tree]
<1>0. pc[p] = "hash" /\ pc[p] \in ProcessSteps
  BY DEF HashTree, ProcessSteps
<1>1. /\ r \in Records /\ PlacesOK /\ job[p] \in Jobs /\ LocalsAssigned(pc[p], job[p])
      /\ state'[r] # "ABSENT" /\ document'[r] = document[r] /\ tree \in Trees
      /\ Identified(r, job[p].identity)
  BY <1>0, WorkFacts DEF WorkHolds
<1>2. j \in Jobs /\ j.rid = r /\ j.identity = job[p].identity /\ j.artifact = tree
  BY <1>1 DEF Jobs
<1>3. LocalsAssigned("scan", j) /\ "scan" \in Steps
  BY <1>0, <1>1, <1>2 DEF LocalsAssigned, Steps, ProcessSteps, DeliverSteps
<1>4. job' = [job EXCEPT ![p] = j] /\ Goto(p, "scan") /\ UNCHANGED seen
  BY DEF HashTree
<1> HIDE DEF j
<1>5. PlacesOK' /\ Others(p) /\ pc'[p] = "scan" /\ job'[p] = j
  BY HInv, <1>2, <1>3, <1>4, WorkPlaced DEF HInv
<1>6. tree <= tree'
  BY DEF Evolves
<1> QED BY <1>1, <1>2, <1>5, <1>6
        DEF Moves, WorkerHolds, WorkHolds, DeliverHolds, ProcessSteps, DeliverSteps, Exists, Identified

\* The inventory is of a tree since the digest.
LEMMA ScanMoves ==
  ASSUME HInv, Evolves, SharedOK', NEW p \in Workers, ScanTree(p) PROVE Moves(p)
<1> DEFINE r == job[p].rid
           s == [claim |-> job[p].claimed, lists |-> Inventory[tree], edited |-> FALSE]
           j == [job[p] EXCEPT !.scan = s]
<1>0. pc[p] = "scan" /\ pc[p] \in ProcessSteps
  BY DEF ScanTree, ProcessSteps
<1>1. /\ r \in Records /\ PlacesOK /\ job[p] \in Jobs /\ LocalsAssigned(pc[p], job[p])
      /\ state'[r] # "ABSENT" /\ document'[r] = document[r] /\ tree \in Trees
      /\ Identified(r, job[p].identity) /\ job[p].artifact <= tree
  BY <1>0, WorkFacts DEF WorkHolds
<1>2. s \in Scans
  BY <1>1 DEF Scans, Lists, Jobs
<1>3. s # None /\ s.lists = Inventory[tree]
  BY <1>2, NoFileAssumption
<1> HIDE DEF s
<1>4. j \in Jobs /\ j.rid = r /\ j.identity = job[p].identity /\ j.artifact = job[p].artifact /\ j.scan = s
  BY <1>1, <1>2 DEF Jobs
<1>5. LocalsAssigned("rehash", j) /\ "rehash" \in Steps
  BY <1>0, <1>1, <1>3, <1>4 DEF LocalsAssigned, Steps, ProcessSteps, DeliverSteps
<1>6. job' = [job EXCEPT ![p] = j] /\ Goto(p, "rehash") /\ UNCHANGED seen
  BY DEF ScanTree, s
<1> HIDE DEF j
<1>7. PlacesOK' /\ Others(p) /\ pc'[p] = "rehash" /\ job'[p] = j
  BY HInv, <1>4, <1>5, <1>6, WorkPlaced DEF HInv
<1>8. \E t \in Trees : j.artifact <= t /\ t <= tree' /\ j.scan.lists = Inventory[t]
  BY <1>1, <1>3, <1>4 DEF Evolves
<1> QED BY <1>1, <1>4, <1>7, <1>8
        DEF Moves, WorkerHolds, WorkHolds, DeliverHolds, ProcessSteps, DeliverSteps, Exists, Identified

\* The same digest twice: it is the inventory of that very tree.
LEMMA WriteMoves ==
  ASSUME HInv, Evolves, NEW p \in Workers, WriteScan(p) PROVE Moves(p)
<1> DEFINE r == job[p].rid  allowed == tree = job[p].artifact /\ sbom[r] = None
<1>0. pc[p] = "rehash" /\ pc[p] \in ProcessSteps
  BY DEF WriteScan, ProcessSteps
<1>1. /\ r \in Records /\ PlacesOK /\ job[p] \in Jobs /\ LocalsAssigned(pc[p], job[p])
      /\ state'[r] # "ABSENT" /\ document'[r] = document[r] /\ tree \in Trees
      /\ Identified(r, job[p].identity)
      /\ \E t \in Trees : job[p].artifact <= t /\ t <= tree /\ job[p].scan.lists = Inventory[t]
  BY <1>0, WorkFacts DEF WorkHolds
<1>2. ASSUME allowed, Keep(p, "cosign"), UNCHANGED seen
      PROVE  Moves(p)
  <2>1. job[p].scan.lists = Inventory[job[p].artifact]
    BY <1>1, <1>2 DEF Trees
  <2>2. sbom'[r] = job[p].scan /\ job[p].scan # None
    BY <1>0, <1>1, <1>2 DEF WriteScan, HInv, SharedOK, FilesTypeOK, LocalsAssigned
  <2>3. LocalsAssigned("cosign", job[p]) /\ "cosign" \in Steps
    BY <1>0, <1>1 DEF LocalsAssigned, Steps, ProcessSteps, DeliverSteps
  <2>4. PlacesOK' /\ Others(p) /\ pc'[p] = "cosign" /\ job'[p] = job[p]
    BY <1>1, <1>2, <2>3, KeepPlaced
  <2> QED BY <1>1, <2>1, <2>2, <2>4
          DEF Moves, WorkerHolds, WorkHolds, DeliverHolds, ProcessSteps, DeliverSteps, Exists,
              Identified, Kept
<1>3. Require(p, allowed, "cosign")
  BY DEF WriteScan
<1> HIDE DEF allowed
<1> QED BY <1>2, <1>3, RequireMoves

\* From one look at the file to the next.
LEMMA CosignMoves ==
  ASSUME HInv, Evolves, NEW p \in Workers, Cosign(p) \/ VerifyScan(p) PROVE Moves(p)
<1> DEFINE r == job[p].rid
<1>0. pc[p] \in {"cosign", "check"} /\ pc[p] \in ProcessSteps
  BY DEF Cosign, VerifyScan, ProcessSteps
<1>1. /\ r \in Records /\ PlacesOK /\ job[p] \in Jobs /\ LocalsAssigned(pc[p], job[p])
      /\ state'[r] # "ABSENT" /\ document'[r] = document[r]
      /\ Identified(r, job[p].identity)
      /\ job[p].scan.lists = Inventory[job[p].artifact] /\ Kept(r, job[p].scan)
  BY <1>0, WorkFacts DEF WorkHolds
<1>2. sbom'[r] # None /\ (sbom'[r].edited \/ sbom'[r] = job[p].scan)
  BY <1>1 DEF Evolves, Kept
<1>3. ASSUME NEW l \in {"check", "reread"}, Keep(p, l), UNCHANGED seen
      PROVE  Moves(p)
  <2>1. LocalsAssigned(l, job[p]) /\ l \in Steps
    BY <1>0, <1>1 DEF LocalsAssigned, Steps, ProcessSteps, DeliverSteps
  <2>2. PlacesOK' /\ Others(p) /\ pc'[p] = l /\ job'[p] = job[p]
    BY <1>1, <1>3, <2>1, KeepPlaced
  <2> QED BY <1>1, <1>2, <2>2
          DEF Moves, WorkerHolds, WorkHolds, DeliverHolds, ProcessSteps, DeliverSteps, Exists,
              Identified, Kept
<1>4. CASE Cosign(p)
  BY <1>3, <1>4 DEF Cosign
<1>5. CASE VerifyScan(p)
  <2>1. Require(p, ProvenanceValid(job[p].rid, job[p].scan), "reread")
    BY <1>5 DEF VerifyScan
  <2> QED BY <1>3, <2>1, RequireMoves
<1> QED BY <1>4, <1>5

\* The bytes may be edited, but what they say is the same.
LEMMA RereadMoves ==
  ASSUME HInv, Evolves, NEW p \in Workers, Reread(p) PROVE Moves(p)
<1> DEFINE r == job[p].rid
           i == [verified |-> job[p].identity.verified, lists |-> job[p].scan.lists,
                 certified |-> now < CertEnd, parameters |-> Parameters[bundle]]
           j == [job[p] EXCEPT !.scan = sbom[r], !.input = i]
<1>0. pc[p] = "reread" /\ pc[p] \in ProcessSteps
  BY DEF Reread, ProcessSteps
<1>1. /\ r \in Records /\ job[p] \in Jobs /\ LocalsAssigned(pc[p], job[p])
      /\ state'[r] # "ABSENT" /\ document'[r] = document[r] /\ bundle \in Bundles
      /\ Identified(r, job[p].identity)
      /\ job[p].scan.lists = Inventory[job[p].artifact] /\ Kept(r, job[p].scan)
  BY <1>0, WorkFacts DEF WorkHolds
<1>2. CASE SaysTheSame(sbom[r], job[p].scan) /\ job' = [job EXCEPT ![p] = j] /\ Goto(p, "decide")
           /\ UNCHANGED seen
  <2>1. sbom[r] \in Scans /\ sbom[r] # None
    BY <1>1 DEF HInv, SharedOK, FilesTypeOK, Kept
  <2>2. job[p].scan \in Scans /\ job[p].identity \in Identities
    BY <1>0, <1>1 DEF LocalsAssigned, Jobs, ProcessSteps
  <2>3. i \in Inputs
    <3>1. Parameters[bundle] \in Range(Parameters)
      BY <1>1, HardenedAssumption DEF Range
    <3>2. (now < CertEnd) \in BOOLEAN
      OBVIOUS
    <3> QED BY <2>2, <3>1, <3>2 DEF Inputs, Scans, Identities
  <2>4. i # None /\ i.verified = job[p].identity.verified /\ i.lists = job[p].scan.lists
    BY <2>3, NoFileAssumption
  <2> HIDE DEF i
  <2>5. j \in Jobs
    BY <1>1, <2>1, <2>3 DEF Jobs
  <2>6. j.rid = r /\ j.identity = job[p].identity /\ j.artifact = job[p].artifact /\ j.scan = sbom[r] /\ j.input = i
    BY <1>1 DEF Jobs
  <2>7. LocalsAssigned("decide", j) /\ "decide" \in Steps
    BY <1>0, <1>1, <2>1, <2>4, <2>6 DEF LocalsAssigned, Steps, ProcessSteps, DeliverSteps
  <2>8. sbom[r].lists = job[p].scan.lists
    BY <1>2 DEF SaysTheSame
  <2>9. sbom'[r] # None /\ (sbom'[r].edited \/ sbom'[r] = sbom[r])
    BY <1>1, <2>1 DEF Evolves
  <2> HIDE DEF j
  <2>10. PlacesOK' /\ Others(p) /\ pc'[p] = "decide" /\ job'[p] = j
    BY HInv, <1>2, <2>5, <2>7, WorkPlaced DEF HInv
  <2> QED BY <1>1, <2>4, <2>6, <2>8, <2>9, <2>10
          DEF Moves, WorkerHolds, WorkHolds, DeliverHolds, ProcessSteps, DeliverSteps, Exists,
              Identified, Kept
<1>3. CASE Keep(p, "fail")
  BY <1>0, <1>3, FailMoves DEF Reread
<1> QED BY <1>2, <1>3 DEF Reread

\* The receipt that a worker signs is a good one.
LEMMA ReceiptGood ==
  ASSUME HInv, Evolves, NEW p \in Workers, pc[p] = "decide", Evaluable(job[p].input)
  PROVE  LET r == job[p].rid  x == Receipt(p) IN
         /\ x.policy \in Approving /\ x.cipher = cipher[r] /\ x.sbom = job[p].scan
         /\ x.identity \in Identities /\ x.snapshot \in Snapshots
         /\ x.sbom.lists = Inventory[x.artifact]
         /\ x.decision = Verdict(x.snapshot.input)
         /\ x.snapshot.input.verified = (document[r] \in Genuine)
         /\ x.snapshot.input.lists = Inventory[x.artifact]
         /\ x.snapshot.input.parameters = Parameters[x.policy]
<1> DEFINE r == job[p].rid
<1>1. /\ r \in Records /\ job[p] \in Jobs /\ LocalsAssigned(pc[p], job[p])
      /\ Identified(r, job[p].identity) /\ bundle \in Bundles
      /\ job[p].scan.lists = Inventory[job[p].artifact]
      /\ job[p].input.verified = job[p].identity.verified /\ job[p].input.lists = job[p].scan.lists
  BY WorkFacts DEF WorkHolds, ProcessSteps
<1>2. job[p].identity \in Identities /\ job[p].input \in Inputs
  BY <1>1 DEF LocalsAssigned, Jobs, ProcessSteps
<1>3. Snapshot(p) \in Snapshots
  BY <1>1, <1>2 DEF Snapshot, Snapshots, Verdict
<1>4. Snapshot(p).input = job[p].input
  BY DEF Snapshot
<1>5. bundle \in Approving /\ job[p].input.parameters = Parameters[bundle]
  BY DEF Evaluable, ConfigurationApproved
<1>6. LET x == Receipt(p) IN
      /\ x.policy = bundle /\ x.cipher = cipher[r] /\ x.sbom = job[p].scan
      /\ x.identity = job[p].identity /\ x.snapshot = Snapshot(p) /\ x.artifact = job[p].artifact
      /\ x.decision = Verdict(job[p].input)
  BY DEF Receipt
<1>7. job[p].input.verified = (document[r] \in Genuine)
  BY <1>1 DEF Identified
<1> QED BY <1>1, <1>2, <1>3, <1>4, <1>5, <1>6, <1>7

\* The decision is of the bundle whose parameters were used.
LEMMA DecideMoves ==
  ASSUME HInv, Evolves, NEW p \in Workers, Decide(p) PROVE Moves(p)
<1> DEFINE r == job[p].rid  x == Receipt(p)  j == [job[p] EXCEPT !.receipt = x]
<1>0. pc[p] = "decide" /\ pc[p] \in ProcessSteps
  BY DEF Decide, ProcessSteps
<1>1. /\ r \in Records /\ job[p] \in Jobs /\ LocalsAssigned(pc[p], job[p])
      /\ state'[r] # "ABSENT" /\ document'[r] = document[r] /\ cipher'[r] = cipher[r]
      /\ Identified(r, job[p].identity) /\ Kept(r, job[p].scan)
  BY <1>0, WorkFacts DEF WorkHolds
<1>2. CASE Evaluable(job[p].input) /\ x \in Payloads /\ job' = [job EXCEPT ![p] = j]
           /\ Goto(p, "record") /\ UNCHANGED seen
  <2>1. /\ x.policy \in Approving /\ x.cipher = cipher[r] /\ x.sbom = job[p].scan
        /\ x.identity \in Identities /\ x.snapshot \in Snapshots
        /\ x.sbom.lists = Inventory[x.artifact]
        /\ x.decision = Verdict(x.snapshot.input)
        /\ x.snapshot.input.verified = (document[r] \in Genuine)
        /\ x.snapshot.input.lists = Inventory[x.artifact]
        /\ x.snapshot.input.parameters = Parameters[x.policy]
    BY <1>0, <1>2, ReceiptGood
  <2>2. x # None
    BY <1>2, StoreAssumption
  <2> HIDE DEF x
  <2>3. j \in Jobs /\ j.rid = r /\ j.identity = job[p].identity /\ j.receipt = x
    BY <1>1, <1>2 DEF Jobs
  <2>4. LocalsAssigned("record", j) /\ "record" \in Steps
    BY <1>0, <1>1, <2>2, <2>3 DEF LocalsAssigned, Steps, ProcessSteps, DeliverSteps
  <2>5. sbom'[r] # None /\ (sbom'[r].edited \/ sbom'[r] = x.sbom)
    BY <1>1, <2>1 DEF Evolves, Kept
  <2> HIDE DEF j
  <2>6. PlacesOK' /\ Others(p) /\ pc'[p] = "record" /\ job'[p] = j
    BY HInv, <1>2, <2>3, <2>4, WorkPlaced DEF HInv
  <2>7. /\ x.cipher = cipher'[r] /\ x.snapshot.input.verified = (document'[r] \in Genuine)
    BY <1>1, <2>1
  <2> QED BY <1>1, <2>1, <2>3, <2>5, <2>6, <2>7
          DEF Moves, WorkerHolds, WorkHolds, DeliverHolds, ProcessSteps, DeliverSteps, Exists,
              Identified, Kept, Good
<1>3. CASE Keep(p, "fail")
  BY <1>0, <1>3, FailMoves DEF Decide
<1> QED BY <1>2, <1>3 DEF Decide

\* A good receipt is one that the types of its parts and the evidence file fit.
LEMMA EvidenceType ==
  ASSUME NEW x, NEW r \in Records, Good(r, x), cipher[r] \in Ciphers
  PROVE  EvidenceFor(x) \in Evidence /\ EvidenceFor(x) # None
<1>1. EvidenceFor(x) \in Evidence
  BY DEF Good, EvidenceFor, Evidence
<1> QED BY <1>1, NoFileAssumption

\* The evidence file is new, so it is this receipt's.
LEMMA RecordMoves ==
  ASSUME HInv, Evolves, NEW p \in Workers, RecordEvidence(p) PROVE Moves(p)
<1> DEFINE r == job[p].rid  x == job[p].receipt
<1>0. pc[p] = "record" /\ pc[p] \in ProcessSteps
  BY DEF RecordEvidence, ProcessSteps
<1>1. /\ r \in Records /\ job[p] \in Jobs /\ LocalsAssigned(pc[p], job[p])
      /\ state'[r] # "ABSENT" /\ document'[r] = document[r] /\ cipher'[r] = cipher[r]
      /\ Identified(r, job[p].identity) /\ Good(r, x) /\ Kept(r, x.sbom)
  BY <1>0, WorkFacts DEF WorkHolds
<1>2. ASSUME evidence[r] = None, Keep(p, "prepare"), UNCHANGED seen
      PROVE  Moves(p)
  <2>1. EvidenceFor(x) # None
    BY <1>0, <1>1, WorkFacts, EvidenceType
  <2>2. evidence'[r] = EvidenceFor(x)
    BY <1>1, <1>2 DEF RecordEvidence, HInv, SharedOK, FilesTypeOK
  <2>3. LocalsAssigned("prepare", job[p]) /\ "prepare" \in Steps
    BY <1>0, <1>1 DEF LocalsAssigned, Steps, ProcessSteps, DeliverSteps
  <2>4. PlacesOK' /\ Others(p) /\ pc'[p] = "prepare" /\ job'[p] = job[p]
    BY HInv, <1>2, <2>3, KeepPlaced DEF HInv
  <2>5. sbom'[r] # None /\ (sbom'[r].edited \/ sbom'[r] = x.sbom)
    BY <1>1 DEF Evolves, Kept
  <2> QED BY <1>1, <2>1, <2>2, <2>4, <2>5
          DEF Moves, WorkerHolds, WorkHolds, DeliverHolds, ProcessSteps, DeliverSteps, Exists,
              Identified, Kept, Good, Backed
<1>3. Require(p, evidence[r] = None, "prepare")
  BY DEF RecordEvidence
<1> QED BY <1>2, <1>3, RequireMoves

\* The last steps end the call, or leave it to the handler.
LEMMA LastMoves ==
  ASSUME HInv, Evolves, NEW p \in Workers,
         \/ StoreReceipt(p) \/ Fail(p) \/ ToolFails(p) \/ Crash(p) \/ Insert(p)
         \/ ClaimUnanswered(p) \/ PrepareUnanswered(p) \/ FailUnrecorded(p)
  PROVE  Moves(p)
<1>1. End(p) \/ (pc[p] \in ProcessSteps /\ Keep(p, "fail") /\ UNCHANGED seen)
  BY DEF StoreReceipt, Fail, ToolFails, Crash, Insert, ClaimUnanswered, PrepareUnanswered,
         FailUnrecorded, ProcessSteps
<1> QED BY <1>1, EndMoves, FailMoves DEF HInv

\* Every step of process.
LEMMA ProcessMoves ==
  ASSUME HInv, Evolves, SharedOK', NEW p \in Workers, Process(p) PROVE Moves(p)
BY ClaimMoves, AttestMoves, HashMoves, ScanMoves, WriteMoves, CosignMoves, RereadMoves,
   DecideMoves, RecordMoves, LastMoves DEF Process

\* The start of a call.
LEMMA CalledMoves ==
  ASSUME HInv, Evolves, NEW p \in Workers, NEW r \in Records, Called(p, r) PROVE Moves(p)
<1>0. job[p] \in Jobs
  BY WorkerFacts
<1>1. ASSUME NEW d \in Documents, StartIngest(p, r, d)
      PROVE  Moves(p)
  <2> DEFINE j == [job[p] EXCEPT !.rid = r, !.doc = d]
  <2>1. j \in Jobs /\ LocalsAssigned("insert", j) /\ "insert" \in Steps
    BY <1>0, StoreAssumption DEF Jobs, LocalsAssigned, Steps, ProcessSteps, DeliverSteps
  <2>2. job' = [job EXCEPT ![p] = j] /\ Goto(p, "insert") /\ UNCHANGED seen
    BY <1>1 DEF StartIngest
  <2> HIDE DEF j
  <2>3. PlacesOK' /\ Others(p) /\ pc'[p] = "insert"
    BY HInv, <2>1, <2>2, WorkPlaced DEF HInv
  <2> QED BY <2>3 DEF Moves, WorkerHolds, WorkHolds, DeliverHolds, ProcessSteps, DeliverSteps
<1>2. ASSUME StartProcess(p, r)
      PROVE  Moves(p)
  <2> DEFINE j == [job[p] EXCEPT !.rid = r]
  <2>1. j \in Jobs /\ LocalsAssigned("claim", j) /\ "claim" \in Steps
    BY <1>0 DEF Jobs, LocalsAssigned, Steps, ProcessSteps, DeliverSteps
  <2>2. job' = [job EXCEPT ![p] = j] /\ Goto(p, "claim") /\ UNCHANGED seen
    BY <1>2 DEF StartProcess
  <2> HIDE DEF j
  <2>3. PlacesOK' /\ Others(p) /\ pc'[p] = "claim"
    BY HInv, <2>1, <2>2, WorkPlaced DEF HInv
  <2> QED BY <2>3 DEF Moves, WorkerHolds, WorkHolds, DeliverHolds, ProcessSteps, DeliverSteps
<1>3. ASSUME StartDeliver(p, r)
      PROVE  Moves(p)
  <2> DEFINE j == [job[p] EXCEPT !.rid = r, !.entry = outbox[r]]
             l == IF now < outbox[r].payload.expires THEN "row" ELSE "recover"
             s == {World(r)}
  <2>1. outbox[r] \in OutboxRows /\ outbox[r] # None
    BY <1>3 DEF StartDeliver, HInv, SharedOK, StoreTypeOK
  <2>2. j \in Jobs /\ j.rid = r /\ j.entry = outbox[r]
    BY <1>0, <2>1 DEF Jobs
  <2>3. LocalsAssigned(l, j) /\ l \in Steps /\ l \in {"row", "recover"}
    BY <2>1, <2>2 DEF LocalsAssigned, Steps, ProcessSteps, DeliverSteps
  <2>4. s \in SUBSET Worlds
    BY DEF World, Worlds, HInv, SharedOK, FilesTypeOK
  <2>5. job' = [job EXCEPT ![p] = j] /\ Goto(p, l) /\ seen' = [seen EXCEPT ![p] = s]
    BY <1>3 DEF StartDeliver
  <2>6. UNCHANGED <<outbox, bundle, tree, sbom, evidence>>
    BY <1>3 DEF StartDeliver, Reads, storeVars, outside, fileVars
  <2> HIDE DEF j, l, s
  <2>7. PlacesOK' /\ Others(p) /\ pc'[p] = l /\ job'[p] = j /\ seen'[p] = s
    BY HInv, <2>2, <2>3, <2>4, <2>5, Placed DEF HInv
  <2>8. DeliverHolds(p)'
    BY <2>1, <2>2, <2>3, <2>6, <2>7 DEF DeliverHolds, World, DeliverSteps, s
  <2> QED BY <2>3, <2>7, <2>8 DEF Moves, WorkerHolds, WorkHolds, ProcessSteps
<1> QED BY <1>1, <1>2, <1>3 DEF Called

----------------------------------------------------------------------------
(* deliver. *)

\* What a delivery relies on: its receipt is in the outbox, and what is in place is seen.
LEMMA DeliverFacts ==
  ASSUME HInv, NEW p \in Workers, pc[p] \in DeliverSteps
  PROVE  LET r == job[p].rid  x == job[p].entry.payload IN
         /\ r \in Records /\ LocalsAssigned(pc[p], job[p]) /\ DeliverHolds(p)
         /\ outbox[r] # None /\ outbox[r].payload = x
         /\ World(r) \in seen[p] /\ Good(r, x)
<1>1. job[p].rid \in Records /\ LocalsAssigned(pc[p], job[p]) /\ DeliverHolds(p)
  BY WorkerFacts DEF HInv, WorkerHolds, DeliverSteps
<1>2. outbox[job[p].rid] # None /\ outbox[job[p].rid].payload = job[p].entry.payload
      /\ World(job[p].rid) \in seen[p]
  BY <1>1 DEF DeliverHolds
<1> QED BY <1>1, <1>2 DEF HInv, OutboxHolds

\* Going on to a step that needs no more than has been compared.
LEMMA AdvanceMoves ==
  ASSUME HInv, Evolves, NEW p \in Workers, pc[p] \in DeliverSteps, NEW l \in DeliverSteps,
         Keep(p, l), UNCHANGED seen, UNCHANGED <<bundle, tree, sbom, evidence>>,
         l \in {"digest", "config", "evidence", "evaluate", "provenance", "artifact", "submit"} =>
           \E w \in seen[p] : w.bundle = job[p].entry.payload.policy,
         l \in {"config", "evidence", "evaluate", "provenance", "artifact", "submit"} =>
           \E w \in seen[p] : w.sbom = job[p].entry.payload.sbom,
         l \in {"evaluate", "provenance", "artifact", "submit"} =>
           \E w \in seen[p] : w.evidence = EvidenceFor(job[p].entry.payload),
         l = "submit" => \E w \in seen[p] : w.tree = job[p].entry.payload.artifact
  PROVE  Moves(p)
<1>1. LocalsAssigned(l, job[p]) /\ l \in Steps
  BY DeliverFacts DEF LocalsAssigned, Steps, ProcessSteps, DeliverSteps
<1>2. PlacesOK' /\ Others(p) /\ pc'[p] = l /\ job'[p] = job[p] /\ seen'[p] = seen[p]
  BY HInv, <1>1, KeepPlaced DEF HInv
<1>3. /\ outbox'[job[p].rid] # None /\ outbox'[job[p].rid].payload = job[p].entry.payload
      /\ World(job[p].rid) \in seen[p]
  BY DeliverFacts DEF Evolves
<1>4. DeliverHolds(p)'
  BY <1>2, <1>3 DEF DeliverHolds, World
<1>5. l \notin ProcessSteps
  BY DEF ProcessSteps, DeliverSteps
<1> QED BY <1>2, <1>4, <1>5 DEF Moves, WorkerHolds, WorkHolds

\* Each comparison adds the witness that the step after it asks for.
LEMMA CheckMoves ==
  ASSUME HInv, Evolves, NEW p \in Workers,
         \/ CheckRow(p) \/ CheckDigest(p) \/ CheckConfiguration(p) \/ CheckEvidence(p)
         \/ Reevaluate(p) \/ VerifyProvenance(p) \/ CheckArtifact(p)
         \/ CheckRecovery(p) \/ HistoricalCommit(p)
  PROVE  Moves(p)
<1> DEFINE r == job[p].rid  x == job[p].entry.payload
<1>0. pc[p] \in DeliverSteps /\ UNCHANGED <<bundle, tree, sbom, evidence>>
  BY DEF CheckRow, CheckDigest, CheckConfiguration, CheckEvidence, Reevaluate, VerifyProvenance,
         CheckArtifact, CheckRecovery, HistoricalCommit, DeliverSteps, Reads, outside, fileVars
<1>1. DeliverHolds(p) /\ World(r) \in seen[p]
  BY <1>0, DeliverFacts
<1>2. /\ World(r).bundle = bundle /\ World(r).tree = tree
      /\ World(r).sbom = sbom[r] /\ World(r).evidence = evidence[r]
  BY DEF World
<1>3. CASE CheckRow(p)
  <2>1. Require(p, RowCurrent(p) /\ BundleLoads /\ x.policy = bundle, "digest")
    BY <1>3 DEF CheckRow
  <2>2. ASSUME x.policy = bundle, Keep(p, "digest"), UNCHANGED seen PROVE Moves(p)
    BY <1>0, <1>1, <1>2, <2>2, AdvanceMoves DEF DeliverSteps
  <2> QED BY <2>1, <2>2, RequireMoves
<1>4. CASE CheckDigest(p)
  <2>1. Require(p, sbom[r] = x.sbom, "config") /\ pc[p] = "digest"
    BY <1>4 DEF CheckDigest
  <2>2. \E w \in seen[p] : w.bundle = x.policy
    BY <1>1, <2>1 DEF DeliverHolds, DeliverSteps
  <2>3. ASSUME sbom[r] = x.sbom, Keep(p, "config"), UNCHANGED seen PROVE Moves(p)
    BY <1>0, <1>1, <1>2, <2>2, <2>3, AdvanceMoves DEF DeliverSteps
  <2> QED BY <2>1, <2>3, RequireMoves
<1>5. CASE CheckConfiguration(p)
  <2>1. Require(p, ConfigurationApproved, "evidence") /\ pc[p] = "config"
    BY <1>5 DEF CheckConfiguration
  <2>2. (\E w \in seen[p] : w.bundle = x.policy) /\ (\E w \in seen[p] : w.sbom = x.sbom)
    BY <1>1, <2>1 DEF DeliverHolds, DeliverSteps
  <2>3. ASSUME Keep(p, "evidence"), UNCHANGED seen PROVE Moves(p)
    BY <1>0, <2>2, <2>3, AdvanceMoves DEF DeliverSteps
  <2> QED BY <2>1, <2>3, RequireMoves
<1>6. CASE CheckEvidence(p)
  <2> DEFINE intact == /\ evidence[r] = EvidenceFor(x) /\ x.cipher = cipher[r]
                       /\ DocumentValid(x.identity.issued + ReceiptLife)
                       /\ x.identity.document = x.document
                       /\ x.snapshot.identity = x.identity
  <2>1. Require(p, intact, "evaluate") /\ pc[p] = "evidence"
    BY <1>6 DEF CheckEvidence
  <2>2. (\E w \in seen[p] : w.bundle = x.policy) /\ (\E w \in seen[p] : w.sbom = x.sbom)
    BY <1>1, <2>1 DEF DeliverHolds, DeliverSteps
  <2>4. ASSUME intact, Keep(p, "evaluate"), UNCHANGED seen PROVE Moves(p)
    <3>1. World(r).evidence = EvidenceFor(x)
      BY <1>2, <2>4
    <3> QED BY <1>0, <1>1, <2>2, <2>4, <3>1, AdvanceMoves DEF DeliverSteps
  <2> HIDE DEF intact
  <2> QED BY <2>1, <2>4, RequireMoves
<1>7. CASE Reevaluate(p) \/ VerifyProvenance(p)
  <2>1. /\ (\E w \in seen[p] : w.bundle = x.policy) /\ (\E w \in seen[p] : w.sbom = x.sbom)
        /\ \E w \in seen[p] : w.evidence = EvidenceFor(x)
    BY <1>1, <1>7 DEF DeliverHolds, DeliverSteps, Reevaluate, VerifyProvenance
  <2>2. ASSUME NEW l \in {"provenance", "artifact"}, Keep(p, l), UNCHANGED seen PROVE Moves(p)
    BY <1>0, <2>1, <2>2, AdvanceMoves DEF DeliverSteps
  <2>3. CASE Reevaluate(p)
    <3> DEFINE upheld == /\ Evaluable(x.snapshot.input)
                         /\ x.policy = bundle /\ x.snapshot.policy = bundle
                         /\ x.decision = Verdict(x.snapshot.input)
    <3>1. Require(p, upheld, "provenance")
      BY <2>3 DEF Reevaluate
    <3> HIDE DEF upheld
    <3> QED BY <2>2, <3>1, RequireMoves
  <2>4. CASE VerifyProvenance(p)
    BY <2>2, <2>4, RequireMoves DEF VerifyProvenance
  <2> QED BY <1>7, <2>3, <2>4
<1>8. CASE CheckArtifact(p)
  <2>1. Require(p, tree = x.artifact, "submit") /\ pc[p] = "artifact"
    BY <1>8 DEF CheckArtifact
  <2>2. /\ (\E w \in seen[p] : w.bundle = x.policy) /\ (\E w \in seen[p] : w.sbom = x.sbom)
        /\ \E w \in seen[p] : w.evidence = EvidenceFor(x)
    BY <1>1, <2>1 DEF DeliverHolds, DeliverSteps
  <2>3. ASSUME tree = x.artifact, Keep(p, "submit"), UNCHANGED seen PROVE Moves(p)
    BY <1>0, <1>1, <1>2, <2>2, <2>3, AdvanceMoves DEF DeliverSteps
  <2> QED BY <2>1, <2>3, RequireMoves
<1>9. CASE CheckRecovery(p) \/ HistoricalCommit(p)
  <2>1. ASSUME NEW l \in {"history", "finish"}, Keep(p, l), UNCHANGED seen PROVE Moves(p)
    BY <1>0, <2>1, AdvanceMoves DEF DeliverSteps
  <2>2. CASE CheckRecovery(p)
    BY <2>1, <2>2, RequireMoves DEF CheckRecovery
  <2>3. CASE HistoricalCommit(p)
    BY <2>1, <2>3, RequireMoves DEF HistoricalCommit
  <2> QED BY <1>9, <2>2, <2>3
<1> QED BY <1>3, <1>4, <1>5, <1>6, <1>7, <1>8, <1>9

\* Every step of deliver.
LEMMA DeliverMoves ==
  ASSUME HInv, Evolves, NEW p \in Workers, Deliver(p) PROVE Moves(p)
<1>1. ASSUME Submit(p) PROVE Moves(p)
  <2>1. pc[p] \in DeliverSteps /\ UNCHANGED <<bundle, tree, sbom, evidence>>
    BY <1>1 DEF Submit, DeliverSteps, fileVars
  <2>2. ASSUME Keep(p, "finish"), UNCHANGED seen PROVE Moves(p)
    BY <2>1, <2>2, AdvanceMoves DEF DeliverSteps
  <2>3. Require(p, Recorded(p) \/ Acceptable(p), "finish")
    BY <1>1 DEF Submit
  <2> QED BY <2>2, <2>3, RequireMoves
<1>2. ASSUME SubmitUnanswered(p) \/ Finalize(p) PROVE Moves(p)
  BY <1>2, EndMoves DEF SubmitUnanswered, Finalize, HInv
<1> QED BY <1>1, <1>2, CheckMoves DEF Deliver

----------------------------------------------------------------------------
(* What each step does to the shared state. *)

\* A receipt that is new in the outbox was prepared by its worker.
Prepared ==
  \A r \in Records : outbox'[r] # None =>
    \/ outbox[r] # None
    \/ \E p \in Workers : pc[p] = "prepare" /\ job[p].rid = r /\ outbox'[r].payload = job[p].receipt

OutsideOK ==
  /\ FilesTypeOK /\ bundle \in Bundles /\ tree \in Trees
  /\ ledger \in [Records -> Payloads \cup {None}]

CountsOK == faults \in 0 .. MaxFaults /\ abandoned \subseteq Records \X Nat

StoreStep == StoreOK' /\ StoreEvolves /\ Prepared

FilesEvolve ==
  /\ tree <= tree'
  /\ \A r \in Records :
       /\ sbom[r] # None => sbom'[r] # None /\ (sbom'[r] = sbom[r] \/ sbom'[r].edited)
       /\ evidence[r] # None =>
            evidence'[r] # None /\ (evidence'[r] = evidence[r] \/ evidence'[r].edited)

SharedStep == SharedOK' /\ OutboxInStep' /\ RowsHold' /\ Evolves /\ Prepared

\* The invariant by store, files and counts.
LEMMA Parts ==
  ASSUME HInv
  PROVE  StoreOK /\ OutsideOK /\ CountsOK
BY DEF HInv, SharedOK, StoreOK, OutsideOK, CountsOK

\* A step by store, files and counts.
LEMMA Together ==
  ASSUME StoreStep, OutsideOK', FilesEvolve, CountsOK'
  PROVE  SharedStep
BY DEF StoreStep, StoreOK, OutsideOK, FilesEvolve, CountsOK, SharedStep, SharedOK, Evolves, StoreEvolves

\* The store untouched.
LEMMA StoreKept ==
  ASSUME HInv, UNCHANGED storeVars
  PROVE  StoreStep
<1>1. StoreOK /\ now \in Nat
  BY Parts DEF StoreOK, StoreTypeOK
<1> QED BY <1>1, StoreQuiet DEF storeVars, StoreStep, Prepared

\* The files untouched.
LEMMA OutsideKept ==
  ASSUME HInv, UNCHANGED outside
  PROVE  OutsideOK' /\ FilesEvolve /\ Calm
<1>1. tree <= tree
  BY Parts DEF OutsideOK, Trees
<1> QED BY <1>1, Parts DEF OutsideOK, FilesTypeOK, outside, fileVars, FilesEvolve, Calm

\* The bound of the disturbances.
LEMMA FaultCounts ==
  ASSUME HInv, Fault PROVE faults' \in 0 .. MaxFaults
BY Parts, HardenedAssumption DEF CountsOK, Fault

\* A read changes nothing that is shared.
LEMMA ReadsStep ==
  ASSUME HInv, Reads PROVE SharedStep /\ Calm
<1>1. StoreStep /\ OutsideOK' /\ FilesEvolve /\ Calm /\ CountsOK'
  BY StoreKept, OutsideKept, Parts DEF Reads, CountsOK
<1> QED BY <1>1, Together

\* A transaction of the store.
LEMMA TransactionStep ==
  ASSUME HInv, NEW p \in Workers,
         \/ Insert(p) \/ TakeClaim(p) \/ ClaimUnanswered(p) \/ StoreReceipt(p)
         \/ PrepareUnanswered(p) \/ Fail(p) \/ Finalize(p)
  PROVE  SharedStep /\ Calm
<1> DEFINE r == job[p].rid
<1>0. /\ r \in Records /\ job[p] \in Jobs /\ LocalsAssigned(pc[p], job[p]) /\ StoreOK
      /\ job[p].claimed \in Nat /\ version[r] \in Nat
  BY WorkerFacts, Parts DEF Insert, TakeClaim, ClaimUnanswered, StoreReceipt, PrepareUnanswered,
     Fail, Finalize, Jobs, StoreOK, StoreTypeOK
<1>1. OutsideOK' /\ FilesEvolve /\ Calm /\ CountsOK'
  <2>1. CountsOK'
    BY <1>0, FaultCounts, Parts DEF Insert, TakeClaim, ClaimUnanswered, StoreReceipt,
       PrepareUnanswered, Fail, Finalize, CountsOK
  <2> QED BY <2>1, OutsideKept DEF Insert, TakeClaim, ClaimUnanswered, StoreReceipt,
          PrepareUnanswered, Fail, Finalize
<1>2. CASE Insert(p)
  <2>1. job[p].doc \in Documents
    BY <1>0, <1>2 DEF Insert, Jobs, LocalsAssigned
  <2>2. ASSUME NEW c \in Ciphers, Ingest(r, job[p].doc, c) PROVE StoreStep
    BY <1>0, <2>1, <2>2, IngestEvolves DEF StoreStep, Prepared, Ingest
  <2> QED BY <1>1, <1>2, <2>2, StoreKept, Together DEF Insert
<1>3. CASE TakeClaim(p) \/ ClaimUnanswered(p)
  <2>1. ASSUME Claim(r) PROVE StoreStep
    BY <1>0, <2>1, ClaimEvolves DEF StoreStep, Prepared, Claim
  <2> QED BY <1>1, <1>3, <2>1, StoreKept, Together DEF TakeClaim, ClaimUnanswered
<1>4. CASE StoreReceipt(p) \/ PrepareUnanswered(p)
  <2>1. ASSUME Prepare(r, job[p].claimed, job[p].receipt) PROVE StoreStep
    <3>1. job[p].receipt \in Payloads
      BY <1>0, <1>4 DEF StoreReceipt, PrepareUnanswered, Jobs, LocalsAssigned
    <3>2. StoreOK' /\ StoreEvolves
      BY <1>0, <2>1, <3>1, PrepareEvolves
    <3>3. /\ outbox'[r].payload = job[p].receipt
          /\ \A q \in Records \ {r} : outbox'[q] = outbox[q]
      BY <1>0, <2>1 DEF Prepare, StoreOK, StoreTypeOK
    <3>4. pc[p] = "prepare"
      BY <1>4 DEF StoreReceipt, PrepareUnanswered
    <3> QED BY <1>0, <3>2, <3>3, <3>4 DEF StoreStep, Prepared
  <2> QED BY <1>1, <1>4, <2>1, StoreKept, Together DEF StoreReceipt, PrepareUnanswered
<1>5. CASE Fail(p)
  <2>1. ASSUME FailProcessing(r, job[p].claimed) PROVE StoreStep
    BY <1>0, <2>1, FailEvolves DEF StoreStep, Prepared, FailProcessing
  <2> QED BY <1>1, <1>5, <2>1, StoreKept, Together DEF Fail
<1>6. CASE Finalize(p)
  <2> DEFINE e == job[p].entry
  <2>1. e \in OutboxRows /\ e.snapshot \in Nat /\ e.payload \in Payloads
    BY <1>0, <1>6 DEF Finalize, Jobs, LocalsAssigned, OutboxRows, DeliverSteps
  <2>2. ASSUME NEW tx \in TxIds, Finish(r, e.snapshot, tx, e.payload) PROVE StoreStep
    <3>1. StoreOK' /\ StoreEvolves
      BY <1>0, <2>1, <2>2, FinishEvolves
    <3>2. outbox[r] # None /\ \A q \in Records \ {r} : outbox'[q] = outbox[q]
      BY <1>0, <2>2 DEF Finish, FinishAllowed, StoreOK, OutboxInStep, StoreTypeOK
    <3> QED BY <3>1, <3>2 DEF StoreStep, Prepared
  <2> QED BY <1>1, <1>6, <2>2, StoreKept, Together DEF Finalize
<1> QED BY <1>2, <1>3, <1>4, <1>5, <1>6

\* A write of one of the files, which never replaces one.
LEMMA WriteStep ==
  ASSUME HInv, NEW p \in Workers, WriteScan(p) \/ Cosign(p) \/ RecordEvidence(p)
  PROVE  SharedStep /\ Calm
<1> DEFINE r == job[p].rid
<1>0. /\ r \in Records /\ job[p] \in Jobs /\ LocalsAssigned(pc[p], job[p]) /\ OutsideOK
      /\ WorkHolds(p) /\ tree <= tree
  BY WorkerFacts, Parts DEF WriteScan, Cosign, RecordEvidence, HInv, WorkerHolds, OutsideOK, Trees
<1>1. StoreStep /\ CountsOK'
  BY StoreKept, Parts DEF WriteScan, Cosign, RecordEvidence, CountsOK
<1>2. CASE WriteScan(p)
  <2>1. job[p].scan \in Scans
    BY <1>0, <1>2 DEF WriteScan, Jobs, LocalsAssigned
  <2>2. OutsideOK' /\ FilesEvolve /\ Calm
    BY <1>0, <1>2, <2>1 DEF WriteScan, OutsideOK, FilesTypeOK, FilesEvolve, Calm
  <2> QED BY <1>1, <2>2, Together
<1>3. CASE Cosign(p)
  <2>1. OutsideOK' /\ FilesEvolve /\ Calm
    BY <1>0, <1>3 DEF Cosign, OutsideOK, FilesTypeOK, FilesEvolve, Calm
  <2> QED BY <1>1, <2>1, Together
<1>4. CASE RecordEvidence(p)
  <2>1. EvidenceFor(job[p].receipt) \in Evidence
    <3>1. Good(r, job[p].receipt) /\ Exists(r)
      BY <1>0, <1>4 DEF RecordEvidence, WorkHolds, ProcessSteps
    <3> QED BY <1>0, <3>1, EvidenceType DEF HInv, RowsHold
  <2>2. OutsideOK' /\ FilesEvolve /\ Calm
    BY <1>0, <1>4, <2>1 DEF RecordEvidence, OutsideOK, FilesTypeOK, FilesEvolve, Calm
  <2> QED BY <1>1, <2>2, Together
<1> QED BY <1>2, <1>3, <1>4

\* A submission writes the ledger only.
LEMMA SubmitStep ==
  ASSUME HInv, NEW p \in Workers, Submit(p) \/ SubmitUnanswered(p)
  PROVE  SharedStep /\ Calm
<1>0. /\ job[p].rid \in Records /\ job[p] \in Jobs /\ LocalsAssigned(pc[p], job[p]) /\ OutsideOK
      /\ tree <= tree
  BY WorkerFacts, Parts DEF Submit, SubmitUnanswered, OutsideOK, Trees
<1>1. StoreStep /\ CountsOK'
  BY StoreKept, FaultCounts, Parts DEF Submit, SubmitUnanswered, CountsOK
<1>2. job[p].entry.payload \in Payloads
  BY <1>0 DEF Submit, SubmitUnanswered, Jobs, LocalsAssigned, DeliverSteps, OutboxRows
<1>3. OutsideOK' /\ FilesEvolve /\ Calm
  BY <1>0, <1>2 DEF Submit, SubmitUnanswered, OutsideOK, FilesTypeOK, FilesEvolve, Calm, fileVars
<1> QED BY <1>1, <1>3, Together

\* Every step of a worker.
WorkerNext(p) == Insert(p) \/ Process(p) \/ Deliver(p) \/ Crash(p) \/ \E r \in Records : Called(p, r)

\* No step of a worker edits or replaces.
LEMMA WorkerStep ==
  ASSUME HInv, NEW p \in Workers, WorkerNext(p)
  PROVE  SharedStep /\ Calm
<1>1. CASE \/ Attest(p) \/ HashTree(p) \/ ScanTree(p) \/ VerifyScan(p) \/ Reread(p) \/ Decide(p)
           \/ CheckRow(p) \/ CheckDigest(p) \/ CheckConfiguration(p) \/ CheckEvidence(p)
           \/ Reevaluate(p) \/ VerifyProvenance(p) \/ CheckArtifact(p) \/ CheckRecovery(p)
           \/ HistoricalCommit(p) \/ \E r \in Records : Called(p, r)
  BY <1>1, ReadsStep
     DEF Attest, HashTree, ScanTree, VerifyScan, Reread, Decide, CheckRow, CheckDigest,
         CheckConfiguration, CheckEvidence, Reevaluate, VerifyProvenance, CheckArtifact,
         CheckRecovery, HistoricalCommit, Called, StartIngest, StartProcess, StartDeliver
<1>2. CASE ToolFails(p) \/ FailUnrecorded(p) \/ Crash(p)
  <2>1. StoreStep /\ OutsideOK' /\ FilesEvolve /\ Calm
    BY <1>2, StoreKept, OutsideKept DEF ToolFails, FailUnrecorded, Crash
  <2>2. CountsOK'
    <3>1. pc[p] # "idle" /\ job[p].rid \in Records /\ job[p].claimed \in Nat
      BY <1>2, WorkerFacts DEF ToolFails, FailUnrecorded, Crash, ProcessSteps, Jobs
    <3> QED BY <1>2, <3>1, FaultCounts, Parts DEF ToolFails, FailUnrecorded, Crash, Abandon, CountsOK
  <2> QED BY <2>1, <2>2, Together
<1> QED BY <1>1, <1>2, TransactionStep, WriteStep, SubmitStep DEF WorkerNext, Process, Deliver

\* Every step of the environment.
Environment ==
  \/ \E r \in Records : Disturb(r)
  \/ ReplaceBundle \/ ChangeTree

\* Edits and replacements are seen by the deliveries under way.
LEMMA EnvironmentStep ==
  ASSUME HInv, Environment
  PROVE  SharedStep /\ UNCHANGED <<pc, job>> /\ Witnessed
<1>0. OutsideOK /\ tree <= tree
  BY Parts DEF OutsideOK, Trees
<1>1. StoreStep /\ CountsOK' /\ UNCHANGED <<pc, job>> /\ Witnessed
  BY StoreKept, FaultCounts, Parts
     DEF Environment, Disturb, EditSbom, EditEvidence, ReplaceBundle, ChangeTree, CountsOK
<1>2. ASSUME NEW r \in Records, EditSbom(r) PROVE OutsideOK' /\ FilesEvolve
  <2>1. PICK t \in Trees :
          sbom' = [sbom EXCEPT ![r] = [sbom[r] EXCEPT !.lists = Inventory[t], !.edited = TRUE]]
    BY <1>2 DEF EditSbom
  <2>2. sbom[r] \in Scans /\ Inventory[t] \in Lists
    BY <1>0, <1>2 DEF EditSbom, OutsideOK, FilesTypeOK, Lists
  <2> DEFINE s == [sbom[r] EXCEPT !.lists = Inventory[t], !.edited = TRUE]
  <2>3. s \in Scans /\ s.edited
    BY <2>2 DEF Scans
  <2>4. s # None
    BY <2>3, NoFileAssumption
  <2>5. sbom' = [sbom EXCEPT ![r] = s]
    BY <2>1
  <2> HIDE DEF s
  <2> QED BY <1>0, <1>2, <2>3, <2>4, <2>5 DEF EditSbom, OutsideOK, FilesTypeOK, FilesEvolve
<1>3. ASSUME NEW r \in Records, EditEvidence(r) PROVE OutsideOK' /\ FilesEvolve
  <2> DEFINE e == [evidence[r] EXCEPT !.edited = TRUE]
  <2>1. evidence[r] \in Evidence
    BY <1>0, <1>3 DEF EditEvidence, OutsideOK, FilesTypeOK
  <2>2. e \in Evidence /\ e.edited
    BY <2>1 DEF Evidence
  <2>3. e # None
    BY <2>2, NoFileAssumption
  <2>4. evidence' = [evidence EXCEPT ![r] = e]
    BY <1>3 DEF EditEvidence
  <2> HIDE DEF e
  <2> QED BY <1>0, <1>3, <2>2, <2>3, <2>4 DEF EditEvidence, OutsideOK, FilesTypeOK, FilesEvolve
<1>4. ASSUME ReplaceBundle PROVE OutsideOK' /\ FilesEvolve
  BY <1>0, <1>4 DEF ReplaceBundle, OutsideOK, FilesTypeOK, FilesEvolve, fileVars
<1>5. ASSUME ChangeTree PROVE OutsideOK' /\ FilesEvolve
  BY <1>0, <1>5, HardenedAssumption DEF ChangeTree, OutsideOK, FilesTypeOK, FilesEvolve, fileVars, Trees
<1> QED BY <1>1, <1>2, <1>3, <1>4, <1>5, Together DEF Environment, Disturb

\* Leases and time concern the store only.
LEMMA ClockStep ==
  ASSUME HInv, RecoverLeases \/ Tick
  PROVE  SharedStep /\ Calm /\ UNCHANGED <<pc, job, seen>>
<1>0. OutsideOK' /\ FilesEvolve /\ Calm /\ CountsOK' /\ UNCHANGED <<pc, job, seen>>
  BY OutsideKept, Parts DEF RecoverLeases, Tick, CountsOK
<1>1. CASE RecoverLeases
  <2>1. StoreStep
    BY <1>1, RecoverEvolves, Parts DEF RecoverLeases, StoreStep, Prepared, RecoverExpired
  <2> QED BY <1>0, <2>1, Together
<1>2. CASE Tick
  <2>1. now' \in Nat
    BY <1>2, Parts DEF Tick, StoreOK, StoreTypeOK
  <2>2. StoreStep
    BY <1>2, <2>1, StoreQuiet, Parts DEF Tick, StoreStep, Prepared
  <2> QED BY <1>0, <2>2, Together
<1> QED BY <1>1, <1>2

----------------------------------------------------------------------------
(* The others: what they know stays true. *)

\* What a worker knows of its record survives what the others do.
LEMMA WorkStays ==
  ASSUME HInv, Evolves, SharedOK', NEW q \in Workers, pc'[q] = pc[q], job'[q] = job[q]
  PROVE  WorkHolds(q)'
<1> DEFINE r == job[q].rid
<1>1. SUFFICES ASSUME pc[q] \in ProcessSteps PROVE WorkHolds(q)'
  BY DEF WorkHolds
<1>2. /\ r \in Records /\ job[q] \in Jobs /\ WorkHolds(q) /\ Exists(r)
      /\ state'[r] # "ABSENT" /\ document'[r] = document[r] /\ cipher'[r] = cipher[r]
  BY <1>1, WorkFacts DEF WorkHolds
<1>3. job[q].artifact \in Nat /\ tree \in Nat /\ tree' \in Nat /\ tree <= tree'
  BY <1>2, Parts DEF Jobs, Trees, OutsideOK, Evolves, SharedOK
<1>4. \A t \in Trees : t <= tree => t <= tree'
  BY <1>3 DEF Trees
<1>5. /\ \A s : Kept(r, s) => sbom'[r] # None /\ (sbom'[r].edited \/ sbom'[r] = s)
      /\ \A x : Backed(r, x) =>
           evidence'[r] # None /\ (evidence'[r].edited \/ evidence'[r] = EvidenceFor(x))
  BY <1>2 DEF Evolves, Kept, Backed
<1>6. /\ pc[q] = "scan" => job[q].artifact <= tree'
      /\ pc[q] = "rehash" =>
           \E t \in Trees : job[q].artifact <= t /\ t <= tree' /\ job[q].scan.lists = Inventory[t]
  BY <1>1, <1>2, <1>3, <1>4 DEF WorkHolds
<1>7. /\ \A i : Identified(r, i) => i.document = document'[r] /\ i.verified = (document'[r] \in Genuine)
      /\ \A x : Good(r, x) =>
           /\ x.policy \in Approving /\ x.cipher = cipher'[r]
           /\ x.identity \in Identities /\ x.snapshot \in Snapshots
           /\ x.sbom.lists = Inventory[x.artifact]
           /\ x.decision = Verdict(x.snapshot.input)
           /\ x.snapshot.input.verified = (document'[r] \in Genuine)
           /\ x.snapshot.input.lists = Inventory[x.artifact]
           /\ x.snapshot.input.parameters = Parameters[x.policy]
  BY <1>2 DEF Identified, Good
<1>8. /\ pc[q] \notin {"attest", "fail"} => Identified(r, job[q].identity)
      /\ pc[q] \in {"cosign", "check", "reread", "decide"} =>
           job[q].scan.lists = Inventory[job[q].artifact] /\ Kept(r, job[q].scan)
      /\ pc[q] = "decide" =>
           job[q].input.verified = job[q].identity.verified /\ job[q].input.lists = job[q].scan.lists
      /\ pc[q] \in {"record", "prepare"} => Good(r, job[q].receipt) /\ Kept(r, job[q].receipt.sbom)
      /\ pc[q] = "prepare" => Backed(r, job[q].receipt)
  BY <1>1, <1>2 DEF WorkHolds
<1>9. Identified(r, job[q].identity) => Identified(job[q].rid, job[q].identity)'
  BY <1>7 DEF Identified
<1> QED BY <1>2, <1>5, <1>6, <1>7, <1>8 DEF WorkHolds, Exists, Identified, Good, Kept, Backed

\* A delivery's witnesses stay, as long as it sees what is put in place.
LEMMA DeliverStays ==
  ASSUME HInv, Evolves, NEW q \in Workers, pc'[q] = pc[q], job'[q] = job[q],
         seen[q] \subseteq seen'[q],
         pc[q] \in DeliverSteps =>
           [bundle |-> bundle', tree |-> tree', sbom |-> sbom'[job[q].rid],
            evidence |-> evidence'[job[q].rid]] \in seen'[q]
  PROVE  DeliverHolds(q)'
<1> DEFINE r == job[q].rid  x == job[q].entry.payload
<1>1. SUFFICES ASSUME pc[q] \in DeliverSteps PROVE DeliverHolds(q)'
  BY DEF DeliverHolds
<1>2. DeliverHolds(q) /\ outbox'[r] # None /\ outbox'[r].payload = x
  BY <1>1, DeliverFacts DEF Evolves
<1> QED BY <1>1, <1>2 DEF DeliverHolds, World

\* While nothing is edited or replaced, the files of a delivery stay as it saw them last.
LEMMA CalmStays ==
  ASSUME HInv, Evolves, SharedOK', Calm, NEW q \in Workers,
         pc'[q] = pc[q], job'[q] = job[q], seen'[q] = seen[q]
  PROVE  WorkerHolds(q)'
<1>1. ASSUME pc[q] \in DeliverSteps
      PROVE  [bundle |-> bundle', tree |-> tree', sbom |-> sbom'[job[q].rid],
              evidence |-> evidence'[job[q].rid]] \in seen'[q]
  <2>1. job[q].rid \in Records /\ outbox[job[q].rid] # None /\ World(job[q].rid) \in seen[q]
    BY <1>1, DeliverFacts
  <2>2. sbom[job[q].rid] # None /\ evidence[job[q].rid] # None
    BY <2>1 DEF HInv, OutboxHolds, Kept, Backed
  <2> QED BY <2>1, <2>2 DEF Calm, World
<1> QED BY <1>1, WorkStays, DeliverStays DEF WorkerHolds

\* The witnesses survive edits and replacements.
LEMMA WatchedStays ==
  ASSUME HInv, Evolves, SharedOK', UNCHANGED <<pc, job>>, Witnessed
  PROVE  PlacesOK' /\ \A q \in Workers : WorkerHolds(q)'
<1>1. ASSUME NEW q \in Workers
      PROVE  seen'[q] \in SUBSET Worlds /\ WorkerHolds(q)'
  <2> DEFINE w == [bundle |-> bundle', tree |-> tree', sbom |-> sbom'[job[q].rid],
                   evidence |-> evidence'[job[q].rid]]
  <2>1. seen'[q] = IF pc[q] \in DeliverSteps THEN seen[q] \cup {w} ELSE seen[q]
    BY DEF Witnessed
  <2>2. pc[q] \in DeliverSteps => w \in Worlds
    BY WorkerFacts DEF DeliverSteps, SharedOK, FilesTypeOK, Worlds
  <2>3. seen[q] \in SUBSET Worlds
    BY WorkerFacts
  <2> HIDE DEF w
  <2>4. seen'[q] \in SUBSET Worlds /\ seen[q] \subseteq seen'[q] /\ (pc[q] \in DeliverSteps => w \in seen'[q])
    BY <2>1, <2>2, <2>3
  <2>5. WorkerHolds(q)'
    BY <2>4, WorkStays, DeliverStays DEF WorkerHolds, w
  <2> QED BY <2>4, <2>5
<1>2. seen' = [q \in Workers |-> seen'[q]]
  BY DEF Witnessed
<1> QED BY <1>1, <1>2 DEF HInv, PlacesOK

----------------------------------------------------------------------------
(* The invariant holds. *)

\* What the outbox holds stays true, and a worker that prepares a receipt knew it of its own.
LEMMA OutboxStays ==
  ASSUME HInv, SharedStep
  PROVE  OutboxHolds'
<1> SUFFICES ASSUME NEW r \in Records, outbox'[r] # None
             PROVE  (LET x == outbox[r].payload IN Good(r, x) /\ Kept(r, x.sbom) /\ Backed(r, x))'
  BY DEF OutboxHolds
<1> DEFINE x == outbox'[r].payload
<1>1. Exists(r) /\ Good(r, x) /\ Kept(r, x.sbom) /\ Backed(r, x)
  <2>1. CASE outbox[r] # None
    <3>1. x = outbox[r].payload
      BY <2>1 DEF SharedStep, Evolves
    <3> QED BY <2>1, <3>1 DEF HInv, OutboxHolds, OutboxInStep, Exists
  <2>2. CASE outbox[r] = None
    <3>1. PICK p \in Workers : pc[p] = "prepare" /\ job[p].rid = r /\ x = job[p].receipt
      BY <2>2 DEF SharedStep, Prepared
    <3>2. WorkHolds(p) /\ pc[p] \in ProcessSteps
      BY <3>1 DEF HInv, WorkerHolds, ProcessSteps
    <3> QED BY <3>1, <3>2 DEF WorkHolds
  <2> QED BY <2>1, <2>2
<1>2. document'[r] = document[r] /\ cipher'[r] = cipher[r]
  BY <1>1 DEF SharedStep, Evolves
<1>3. /\ sbom'[r] # None /\ (sbom'[r].edited \/ sbom'[r] = x.sbom)
      /\ evidence'[r] # None /\ (evidence'[r].edited \/ evidence'[r] = EvidenceFor(x))
  BY <1>1 DEF SharedStep, Evolves, Kept, Backed
<1>4. /\ x.policy \in Approving /\ x.cipher = cipher'[r]
      /\ x.identity \in Identities /\ x.snapshot \in Snapshots
      /\ x.sbom.lists = Inventory[x.artifact]
      /\ x.decision = Verdict(x.snapshot.input)
      /\ x.snapshot.input.verified = (document'[r] \in Genuine)
      /\ x.snapshot.input.lists = Inventory[x.artifact]
      /\ x.snapshot.input.parameters = Parameters[x.policy]
  BY <1>1, <1>2 DEF Good
<1> QED BY <1>3, <1>4 DEF Good, Kept, Backed

\* Nothing is stored yet.
LEMMA HInvInit ==
  ASSUME Init PROVE HInv
<1>1. SharedOK
  <2>1. StoreTypeOK
    BY StoreInitType DEF Init
  <2>2. 0 \in Trees /\ 0 \in 0 .. MaxFaults
    BY HardenedAssumption DEF Trees
  <2> QED BY <2>1, <2>2, HardenedAssumption DEF Init, SharedOK, FilesTypeOK
<1>2. PlacesOK
  <2>1. NoJob \in Jobs /\ LocalsAssigned("idle", NoJob) /\ "idle" \in Steps /\ {} \in SUBSET Worlds
    <3>1. 0 \in Trees
      BY HardenedAssumption DEF Trees
    <3> QED BY <3>1 DEF NoJob, Jobs, LocalsAssigned, Steps, ProcessSteps, DeliverSteps
  <2> QED BY <2>1 DEF Init, PlacesOK
<1>3. OutboxInStep /\ RowsHold /\ OutboxHolds
  BY DEF Init, StoreInit, OutboxInStep, RowsHold, OutboxHolds, Exists
<1>4. \A p \in Workers : WorkerHolds(p)
  BY DEF Init, WorkerHolds, WorkHolds, DeliverHolds, ProcessSteps, DeliverSteps
<1> QED BY <1>1, <1>2, <1>3, <1>4 DEF HInv

\* Every step keeps the invariant.
LEMMA HInvStep ==
  ASSUME HInv, [Next]_vars PROVE HInv'
<1>1. ASSUME SharedStep, PlacesOK', \A q \in Workers : WorkerHolds(q)'
      PROVE  HInv'
  BY <1>1, OutboxStays DEF HInv, SharedStep
<1>2. ASSUME NEW p \in Workers, WorkerNext(p)
      PROVE  HInv'
  <2>1. SharedStep /\ Calm /\ Evolves /\ SharedOK'
    BY <1>2, WorkerStep DEF SharedStep
  <2>2. Moves(p)
    BY <1>2, <2>1, LastMoves, ProcessMoves, DeliverMoves, CalledMoves DEF WorkerNext
  <2>3. ASSUME NEW q \in Workers \ {p} PROVE WorkerHolds(q)'
    BY <2>1, <2>2, CalmStays DEF Moves, Others
  <2> QED BY <1>1, <2>1, <2>2, <2>3 DEF Moves
<1>3. CASE Environment
  BY <1>1, <1>3, EnvironmentStep, WatchedStays DEF SharedStep
<1>4. CASE RecoverLeases \/ Tick \/ UNCHANGED vars
  <2>1. SharedStep /\ Calm /\ UNCHANGED <<pc, job, seen>>
    <3>1. CASE UNCHANGED vars
      BY <3>1, ReadsStep DEF vars, Reads
    <3> QED BY <1>4, <3>1, ClockStep
  <2>2. PlacesOK'
    BY <2>1 DEF HInv, PlacesOK
  <2>3. \A q \in Workers : WorkerHolds(q)'
    BY <2>1, CalmStays DEF SharedStep
  <2> QED BY <1>1, <2>1, <2>2, <2>3
<1> QED BY <1>2, <1>3, <1>4 DEF Next, WorkerNext, Environment

\* The strengthening behind the theorems below, in every reachable state of the hardened
\* pipeline.
THEOREM HInvariant == Spec => []HInv
<1>1. Init => HInv
  BY HInvInit
<1>2. HInv /\ [Next]_vars => HInv'
  BY HInvStep
<1> QED BY <1>1, <1>2, PTL DEF Spec

----------------------------------------------------------------------------
(* What it gives. *)

\* Every step of the hardened pipeline leaves rows, files, ledger and the workers' variables
\* well formed, and each access finds the variables that its code reads assigned.
THEOREM HardenedTypeCorrect == Spec => []TypeOK
<1>1. HInv => TypeOK
  BY DEF HInv, SharedOK, PlacesOK, TypeOK
<1> QED BY <1>1, HInvariant, PTL

\* A receipt in the outbox says what its policy decides about its tree and its document.
THEOREM VerdictFollowsPolicyHolds == Spec => []VerdictFollowsPolicy
<1>1. ASSUME HInv, NEW r \in Records, outbox[r] # None
      PROVE  LET x == outbox[r].payload IN
             /\ x.policy \in Approving
             /\ x.sbom.lists = Inventory[x.artifact]
             /\ x.decision = Verdict([verified |-> document[r] \in Genuine, lists |-> Inventory[x.artifact],
                                      certified |-> x.snapshot.input.certified,
                                      parameters |-> Parameters[x.policy]])
  <2> DEFINE x == outbox[r].payload  i == x.snapshot.input
  <2>1. Good(r, x)
    BY <1>1 DEF HInv, OutboxHolds
  <2>2. i \in Inputs
    BY <2>1 DEF Good, Snapshots
  <2>3. i = [verified |-> i.verified, lists |-> i.lists, certified |-> i.certified, parameters |-> i.parameters]
    BY <2>2 DEF Inputs
  <2> HIDE DEF x
  <2>4. x.decision = Verdict([verified |-> document[r] \in Genuine, lists |-> Inventory[x.artifact],
                              certified |-> i.certified, parameters |-> Parameters[x.policy]])
    BY <2>1, <2>3 DEF Good
  <2> QED BY <2>1, <2>4 DEF Good, x
<1>2. HInv => VerdictFollowsPolicy
  BY <1>1 DEF VerdictFollowsPolicy
<1> QED BY <1>2, HInvariant, PTL

\* The SBOM and evidence files that a receipt in the outbox binds are on disk, unless edited.
THEOREM EvidenceSupportsReceiptHolds == Spec => []EvidenceSupportsReceipt
<1>1. HInv => EvidenceSupportsReceipt
  BY DEF HInv, OutboxHolds, Good, Kept, Backed, EvidenceSupportsReceipt
<1> QED BY <1>1, HInvariant, PTL

\* Everything that a receipt rests on was in place at some moment of the delivery that put it
\* on the ledger.
THEOREM CommitRevalidatedHolds == Spec => CommitRevalidated
<1> DEFINE Revalidated ==
             \A r \in Records : ledger'[r] # ledger[r] =>
               LET x == ledger'[r] IN
               \E p \in Workers :
                 /\ pc[p] = "submit" /\ job[p].rid = r
                 /\ \E w \in seen[p] : w.bundle = x.policy
                 /\ \E w \in seen[p] : w.tree = x.artifact
                 /\ \E w \in seen[p] : w.sbom = x.sbom
                 /\ \E w \in seen[p] : w.evidence = EvidenceFor(x)
<1>1. ASSUME HInv, [Next]_vars PROVE Revalidated
  <2>1. ASSUME NEW p \in Workers, Submit(p) \/ SubmitUnanswered(p) PROVE Revalidated
    <3> DEFINE r == job[p].rid  x == job[p].entry.payload
    <3>1. pc[p] = "submit" /\ pc[p] \in DeliverSteps /\ ledger' \in {ledger, [ledger EXCEPT ![r] = x]}
      BY <2>1 DEF Submit, SubmitUnanswered, DeliverSteps
    <3>2. /\ \E w \in seen[p] : w.bundle = x.policy
          /\ \E w \in seen[p] : w.tree = x.artifact
          /\ \E w \in seen[p] : w.sbom = x.sbom
          /\ \E w \in seen[p] : w.evidence = EvidenceFor(x)
      BY <1>1, <3>1 DEF HInv, WorkerHolds, DeliverHolds
    <3>3. ledger \in [Records -> Payloads \cup {None}]
      BY <1>1 DEF HInv, SharedOK
    <3>4. \A q \in Records : ledger'[q] # ledger[q] => q = r /\ ledger'[q] = x
      BY <3>1, <3>3
    <3> QED BY <3>1, <3>2, <3>4
  <2>2. ASSUME UNCHANGED ledger PROVE Revalidated
    BY <2>2
  <2> HIDE DEF Revalidated
  <2>3. ASSUME NEW p \in Workers, WorkerNext(p) PROVE Revalidated
    <3>1. CASE \/ Insert(p) \/ Process(p) \/ Crash(p) \/ \E r \in Records : Called(p, r)
      BY <2>2, <3>1
         DEF Insert, Process, Crash, Called, StartIngest, StartProcess, StartDeliver, Reads, outside,
             TakeClaim, ClaimUnanswered, Attest, HashTree, ScanTree, WriteScan, Cosign, VerifyScan,
             Reread, Decide, RecordEvidence, StoreReceipt, PrepareUnanswered, Fail, FailUnrecorded,
             ToolFails
    <3>2. CASE Deliver(p)
      BY <2>1, <2>2, <3>2
         DEF Deliver, CheckRow, CheckDigest, CheckConfiguration, CheckEvidence, Reevaluate,
             VerifyProvenance, CheckArtifact, CheckRecovery, HistoricalCommit, Finalize, Reads, outside
    <3> QED BY <2>3, <3>1, <3>2 DEF WorkerNext
  <2>4. CASE Environment \/ RecoverLeases \/ Tick \/ UNCHANGED vars
    BY <2>2, <2>4 DEF Environment, Disturb, EditSbom, EditEvidence, ReplaceBundle, ChangeTree,
                      RecoverLeases, Tick, vars, outside
  <2> QED BY <1>1, <2>3, <2>4 DEF Next, WorkerNext, Environment
<1>2. HInv /\ [Next]_vars => [Revalidated]_vars
  BY <1>1
<1> QED BY <1>2, HInvariant, PTL DEF Spec, CommitRevalidated

----------------------------------------------------------------------------
(* No claim is left without a worker. *)

\* p goes on with its claim.
GoesOn(p) ==
  pc'[p] \in ProcessSteps /\ job'[p].rid = job[p].rid /\ job'[p].claimed = job[p].claimed

\* The worker that a PROCESSING row belongs to.
Owner(p, r) == pc[p] \in ProcessSteps /\ job[p].rid = r /\ job[p].claimed = version[r]

\* Rows keep their owners while none changes and each worker goes on, held nothing
\* or is known to have gone away.
LEMMA OwnersKept ==
  ASSUME NoOrphanedClaim, NEW p \in Workers, Others(p), UNCHANGED <<state, version>>,
         abandoned \subseteq abandoned',
         pc[p] \in ProcessSteps => \/ GoesOn(p)
                                   \/ ~HoldsClaim(job[p].rid, job[p].claimed)
                                   \/ <<job[p].rid, job[p].claimed>> \in abandoned'
  PROVE  NoOrphanedClaim'
<1> SUFFICES ASSUME NEW r \in Records, state[r] = "PROCESSING", <<r, version[r]>> \notin abandoned'
             PROVE  \E q \in Workers : Owner(q, r)'
  BY DEF NoOrphanedClaim, Owner
<1>1. PICK q \in Workers : Owner(q, r)
  BY DEF NoOrphanedClaim, Owner
<1>2. CASE q = p
  BY <1>1, <1>2 DEF GoesOn, HoldsClaim, Owner
<1>3. CASE q # p
  BY <1>1, <1>3 DEF Others, Owner
<1> QED BY <1>2, <1>3

\* Only p's row changes, and it has p for its owner, or needs none.
LEMMA OwnersElsewhere ==
  ASSUME NoOrphanedClaim, NEW p \in Workers, Others(p), abandoned \subseteq abandoned',
         NEW r \in Records,
         state'[r] = "PROCESSING" => Owner(p, r)' \/ <<r, version'[r]>> \in abandoned',
         \A q \in Records \ {r} : state'[q] = state[q] /\ version'[q] = version[q],
         pc[p] \in ProcessSteps => job[p].rid = r
  PROVE  NoOrphanedClaim'
<1> SUFFICES ASSUME NEW q \in Records \ {r}, state[q] = "PROCESSING", <<q, version[q]>> \notin abandoned'
             PROVE  \E w \in Workers : pc'[w] \in ProcessSteps /\ job'[w].rid = q /\ job'[w].claimed = version[q]
  BY DEF NoOrphanedClaim, Owner
<1>1. PICK w \in Workers : pc[w] \in ProcessSteps /\ job[w].rid = q /\ job[w].claimed = version[q]
  BY DEF NoOrphanedClaim
<1> QED BY <1>1 DEF Others

\* Along process, the claim stays with its worker.
LEMMA OwnersOfProcess ==
  ASSUME HInv, NoOrphanedClaim, NEW p \in Workers, Others(p), Process(p)
  PROVE  NoOrphanedClaim'
<1> DEFINE r == job[p].rid
<1>0. /\ r \in Records /\ job[p] \in Jobs /\ job \in [Workers -> Jobs] /\ pc \in [Workers -> Steps]
      /\ state \in [Records -> States] /\ version \in [Records -> Nat]
  BY WorkerFacts, Parts DEF HInv, PlacesOK, StoreOK, StoreTypeOK, Process, TakeClaim,
     ClaimUnanswered, Attest, HashTree, ScanTree, WriteScan, Cosign, VerifyScan, Reread, Decide,
     RecordEvidence, StoreReceipt, PrepareUnanswered, Fail, FailUnrecorded, ToolFails, ProcessSteps
<1>1. CASE TakeClaim(p) \/ ClaimUnanswered(p)
  <2>1. pc[p] \notin ProcessSteps /\ abandoned \subseteq abandoned'
    BY <1>1 DEF TakeClaim, ClaimUnanswered, ProcessSteps
  <2>2. CASE Claim(r)
    <3>1. /\ version'[r] = version[r] + 1
          /\ \A q \in Records \ {r} : state'[q] = state[q] /\ version'[q] = version[q]
      BY <1>0, <2>2 DEF Claim, Advance
    <3>2. CASE job' = [job EXCEPT ![p].claimed = version[r] + 1] /\ Goto(p, "attest")
      <4>1. /\ pc'[p] \in ProcessSteps /\ job'[p].rid = r /\ job'[p].claimed = version[r] + 1
        BY <1>0, <3>2 DEF Goto, Jobs, ProcessSteps
      <4>2. SUFFICES ASSUME NEW q \in Records, q = r PROVE NoOrphanedClaim'
        BY <1>0
      <4>3. Owner(p, q)'
        BY <3>1, <4>1, <4>2 DEF Owner
      <4> QED BY <2>1, <3>1, <4>2, <4>3, OwnersElsewhere
    <3>3. CASE ClaimUnanswered(p)
      <4>1. <<r, version'[r]>> \in abandoned'
        BY <3>1, <3>3 DEF ClaimUnanswered
      <4>2. SUFFICES ASSUME NEW q \in Records, q = r PROVE NoOrphanedClaim'
        BY <1>0
      <4>3. <<q, version'[q]>> \in abandoned'
        BY <4>1, <4>2
      <4> QED BY <2>1, <3>1, <4>2, <4>3, OwnersElsewhere
    <3>4. CASE TakeClaim(p)
      BY <2>2, <3>2, <3>4 DEF TakeClaim, ClaimRefused, Claim
    <3> QED BY <1>1, <3>3, <3>4
  <2>3. CASE UNCHANGED storeVars
    BY <2>1, <2>3, OwnersKept DEF storeVars
  <2> QED BY <1>1, <2>2, <2>3 DEF TakeClaim, ClaimUnanswered
<1>2. CASE Fail(p) \/ StoreReceipt(p) \/ PrepareUnanswered(p)
  <2>1. abandoned \subseteq abandoned'
    BY <1>2 DEF Fail, StoreReceipt, PrepareUnanswered
  <2>2. CASE FailProcessing(r, job[p].claimed) \/ Prepare(r, job[p].claimed, job[p].receipt)
    <3>1. /\ state'[r] # "PROCESSING"
          /\ \A q \in Records \ {r} : state'[q] = state[q] /\ version'[q] = version[q]
      BY <1>0, <2>2 DEF FailProcessing, Prepare, Advance
    <3> QED BY <1>0, <2>1, <3>1, OwnersElsewhere
  <2>3. CASE ~HoldsClaim(r, job[p].claimed) /\ UNCHANGED storeVars
    BY <2>1, <2>3, OwnersKept DEF storeVars
  <2> QED BY <1>2, <2>2, <2>3 DEF Fail, StoreReceipt, PrepareUnanswered
<1>4. CASE FailUnrecorded(p)
  BY <1>4, OwnersKept DEF FailUnrecorded, Abandon, storeVars
<1>3. CASE \/ Attest(p) \/ HashTree(p) \/ ScanTree(p) \/ WriteScan(p) \/ Cosign(p) \/ VerifyScan(p)
           \/ Reread(p) \/ Decide(p) \/ RecordEvidence(p) \/ ToolFails(p)
  <2>1. UNCHANGED <<state, version>> /\ abandoned \subseteq abandoned'
    BY <1>3 DEF Attest, HashTree, ScanTree, WriteScan, Cosign, VerifyScan, Reread, Decide,
                RecordEvidence, ToolFails, Reads, storeVars
  <2>2. ASSUME NEW l \in ProcessSteps, Keep(p, l) PROVE GoesOn(p)
    BY <1>0, <2>2 DEF Keep, Goto, GoesOn
  <2>3. ASSUME WriteScan(p) \/ VerifyScan(p) \/ RecordEvidence(p) \/ Cosign(p) \/ ToolFails(p)
        PROVE  GoesOn(p)
    <3>1. \E l \in {"fail", "cosign", "check", "reread", "prepare"} : Keep(p, l)
      BY <2>3 DEF WriteScan, VerifyScan, RecordEvidence, Cosign, ToolFails, Require, ProcessSteps
    <3> QED BY <2>2, <3>1 DEF ProcessSteps
  <2>4. ASSUME Attest(p) PROVE GoesOn(p)
    <3> DEFINE j == [job[p] EXCEPT !.identity = [document |-> document[r],
                             verified |-> document[r] \in Genuine, issued |-> now]]
    <3>1. job' = [job EXCEPT ![p] = j] /\ Goto(p, "hash")
      BY <2>4 DEF Attest
    <3>2. j.rid = r /\ j.claimed = job[p].claimed
      BY <1>0 DEF Jobs
    <3>3. "hash" \in ProcessSteps
      BY DEF ProcessSteps
    <3> HIDE DEF j
    <3> QED BY <1>0, <3>1, <3>2, <3>3 DEF Goto, GoesOn
  <2>5. ASSUME HashTree(p) PROVE GoesOn(p)
    <3> DEFINE j == [job[p] EXCEPT !.artifact = tree]
    <3>1. job' = [job EXCEPT ![p] = j] /\ Goto(p, "scan")
      BY <2>5 DEF HashTree
    <3>2. j.rid = r /\ j.claimed = job[p].claimed
      BY <1>0 DEF Jobs
    <3>3. "scan" \in ProcessSteps
      BY DEF ProcessSteps
    <3> HIDE DEF j
    <3> QED BY <1>0, <3>1, <3>2, <3>3 DEF Goto, GoesOn
  <2>6. ASSUME ScanTree(p) PROVE GoesOn(p)
    <3> DEFINE j == [job[p] EXCEPT !.scan =
                     [claim |-> job[p].claimed, lists |-> Inventory[tree], edited |-> FALSE]]
    <3>1. job' = [job EXCEPT ![p] = j] /\ Goto(p, "rehash")
      BY <2>6 DEF ScanTree
    <3>2. j.rid = r /\ j.claimed = job[p].claimed
      BY <1>0 DEF Jobs
    <3>3. "rehash" \in ProcessSteps
      BY DEF ProcessSteps
    <3> HIDE DEF j
    <3> QED BY <1>0, <3>1, <3>2, <3>3 DEF Goto, GoesOn
  <2>7. ASSUME Reread(p) PROVE GoesOn(p)
    <3> DEFINE j == [job[p] EXCEPT !.scan = sbom[r],
                     !.input = [verified |-> job[p].identity.verified, lists |-> job[p].scan.lists,
                                certified |-> now < CertEnd, parameters |-> Parameters[bundle]]]
    <3>1. Keep(p, "fail") \/ (job' = [job EXCEPT ![p] = j] /\ Goto(p, "decide"))
      BY <2>7 DEF Reread
    <3>2. j.rid = r /\ j.claimed = job[p].claimed
      BY <1>0 DEF Jobs
    <3>3. "decide" \in ProcessSteps /\ "fail" \in ProcessSteps
      BY DEF ProcessSteps
    <3> HIDE DEF j
    <3> QED BY <1>0, <2>2, <3>1, <3>2, <3>3 DEF Goto, GoesOn
  <2>8. ASSUME Decide(p) PROVE GoesOn(p)
    <3> DEFINE j == [job[p] EXCEPT !.receipt = Receipt(p)]
    <3>1. Keep(p, "fail") \/ (job' = [job EXCEPT ![p] = j] /\ Goto(p, "record"))
      BY <2>8 DEF Decide
    <3>2. j.rid = r /\ j.claimed = job[p].claimed
      BY <1>0 DEF Jobs
    <3>3. "record" \in ProcessSteps /\ "fail" \in ProcessSteps
      BY DEF ProcessSteps
    <3> HIDE DEF j
    <3> QED BY <1>0, <2>2, <3>1, <3>2, <3>3 DEF Goto, GoesOn
  <2> QED BY <1>3, <2>1, <2>3, <2>4, <2>5, <2>6, <2>7, <2>8, OwnersKept
<1> QED BY <1>1, <1>2, <1>3, <1>4 DEF Process

\* The worker that a PROCESSING row belongs to is still at it, unless it died, never
\* heard of its claim, or could not record that it failed.
THEOREM NoOrphanedClaimHolds == Spec => []NoOrphanedClaim
<1>1. Init => NoOrphanedClaim
  BY DEF Init, StoreInit, NoOrphanedClaim
<1>2. HInv /\ NoOrphanedClaim /\ [Next]_vars => NoOrphanedClaim'
  <2> SUFFICES ASSUME HInv, NoOrphanedClaim, [Next]_vars PROVE NoOrphanedClaim'
    OBVIOUS
  <2>1. ASSUME NEW p \in Workers, WorkerNext(p) PROVE NoOrphanedClaim'
    <3>1. Others(p)
      <4>1. Evolves /\ SharedOK'
        BY <2>1, WorkerStep DEF SharedStep
      <4> QED BY <2>1, <4>1, LastMoves, ProcessMoves, DeliverMoves, CalledMoves DEF WorkerNext, Moves
    <3>2. CASE Process(p)
      BY <3>1, <3>2, OwnersOfProcess
    <3>3. CASE Crash(p)
      BY <3>1, <3>3, OwnersKept DEF Crash, Abandon, storeVars
    <3>4. CASE Insert(p)
      <4>0. /\ pc[p] \notin ProcessSteps /\ abandoned \subseteq abandoned' /\ job[p].rid \in Records
            /\ state \in [Records -> States] /\ version \in [Records -> Nat]
        BY <3>4, WorkerFacts, Parts DEF Insert, ProcessSteps, StoreOK, StoreTypeOK
      <4>1. ASSUME NEW d, NEW c, Ingest(job[p].rid, d, c) PROVE NoOrphanedClaim'
        <5>1. /\ state'[job[p].rid] # "PROCESSING"
              /\ \A q \in Records \ {job[p].rid} : state'[q] = state[q] /\ version'[q] = version[q]
          BY <4>0, <4>1 DEF Ingest, Advance
        <5> QED BY <3>1, <4>0, <5>1, OwnersElsewhere
      <4>2. CASE UNCHANGED storeVars
        BY <3>1, <4>0, <4>2, OwnersKept DEF storeVars
      <4> QED BY <3>4, <4>1, <4>2 DEF Insert
    <3>5. CASE Finalize(p)
      <4>0. /\ pc[p] \notin ProcessSteps /\ abandoned \subseteq abandoned' /\ job[p].rid \in Records
            /\ state \in [Records -> States] /\ version \in [Records -> Nat]
        BY <3>5, WorkerFacts, Parts DEF Finalize, ProcessSteps, StoreOK, StoreTypeOK
      <4>1. ASSUME NEW v, NEW tx, NEW x, Finish(job[p].rid, v, tx, x) PROVE NoOrphanedClaim'
        <5>1. /\ state'[job[p].rid] # "PROCESSING"
              /\ \A q \in Records \ {job[p].rid} : state'[q] = state[q] /\ version'[q] = version[q]
          BY <4>0, <4>1 DEF Finish, Advance
        <5> QED BY <3>1, <4>0, <5>1, OwnersElsewhere
      <4>2. CASE UNCHANGED storeVars
        BY <3>1, <4>0, <4>2, OwnersKept DEF storeVars
      <4> QED BY <3>5, <4>1, <4>2 DEF Finalize
    <3>6. CASE \/ CheckRow(p) \/ CheckDigest(p) \/ CheckConfiguration(p) \/ CheckEvidence(p)
               \/ Reevaluate(p) \/ VerifyProvenance(p) \/ CheckArtifact(p) \/ Submit(p)
               \/ SubmitUnanswered(p) \/ CheckRecovery(p) \/ HistoricalCommit(p)
               \/ \E r \in Records : Called(p, r)
      <4>1. pc[p] \notin ProcessSteps /\ UNCHANGED <<state, version>> /\ abandoned \subseteq abandoned'
        BY <3>6
           DEF CheckRow, CheckDigest, CheckConfiguration, CheckEvidence, Reevaluate, VerifyProvenance,
               CheckArtifact, Submit, SubmitUnanswered, CheckRecovery, HistoricalCommit, Called,
               StartIngest, StartProcess, StartDeliver, Reads, storeVars, ProcessSteps
      <4> QED BY <3>1, <4>1, OwnersKept
    <3> QED BY <2>1, <3>2, <3>3, <3>4, <3>5, <3>6 DEF WorkerNext, Deliver
  <2>2. CASE Environment \/ Tick \/ UNCHANGED vars
    <3>1. UNCHANGED <<state, version, abandoned, pc, job>>
      BY <2>2 DEF Environment, Disturb, EditSbom, EditEvidence, ReplaceBundle, ChangeTree, Tick, vars,
                  storeVars
    <3> QED BY <3>1 DEF NoOrphanedClaim
  <2>3. CASE RecoverLeases
    <3>1. /\ UNCHANGED <<pc, job, abandoned>>
          /\ \A r \in Records : state'[r] = "PROCESSING" => state[r] = "PROCESSING" /\ version'[r] = version[r]
      BY <2>3 DEF RecoverLeases, RecoverExpired
    <3> QED BY <3>1 DEF NoOrphanedClaim
  <2> QED BY <2>1, <2>2, <2>3 DEF Next, WorkerNext, Environment
<1> QED BY <1>1, <1>2, HInvariant, PTL DEF Spec

=============================================================================
