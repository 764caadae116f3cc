-------------------------- MODULE SubmissionStore --------------------------
(***************************************************************************)
(* The durable request store of the ingestion pipeline                     *)
(* (research/vendorchain/store.py, and postgres.py, which runs the same    *)
(* statements under an advisory lock).  Each method of Store is one        *)
(* BEGIN IMMEDIATE transaction, so each is one atomic operator here; who    *)
(* calls them, and in which order, is left to the modules that extend this *)
(* one.  A refused transaction is rolled back and changes nothing, so only *)
(* its condition appears, as a ...Refused predicate.                       *)
(*                                                                         *)
(* Data abstraction.  A payload stands for the canonical signed receipt,   *)
(* and two payloads are equal exactly when their receiptHash is.  The      *)
(* events table is one hash chain over all records; of it the model keeps  *)
(* each record's events in chain order.  Time is whole ticks.              *)
(***************************************************************************)
EXTENDS Integers, Sequences

CONSTANTS
  Records,     \* request identifiers (the primary key of submissions)
  Documents,   \* document contents, identified with their digest
  Ciphers,     \* encrypted objects, identified with their digest
  Payloads,    \* signed receipts, identified with their receiptHash
  TxIds,       \* ledger transaction identifiers
  None,        \* SQL NULL, or no row
  Retention,   \* retention_seconds; 0 stands for Python's None (no window)
  LeaseTime,   \* the 300 seconds a claim is leased for
  MaxTime      \* bound of the model: the last tick of the clock

ASSUME StoreAssumption ==
  /\ Retention \in Nat /\ LeaseTime \in Nat /\ MaxTime \in Nat
  /\ None \notin Documents \cup Ciphers \cup Payloads \cup TxIds

VARIABLES
  now,         \* time.time()
  state,       \* submissions.state, "ABSENT" when there is no row
  version,     \* submissions.version, 0 when there is no row
  lease,       \* submissions.lease_until
  document,    \* submissions.document_hash
  cipher,      \* submissions.cipher_hash
  outbox,      \* the outbox row of each record, None when there is none
  digests,     \* digest_replays: the admission of each document, or None
  audit        \* the record's part of the events table

storeVars == <<now, state, version, lease, document, cipher, outbox, digests, audit>>

States == {"ABSENT", "INGESTED", "PROCESSING", "PREPARED", "COMMITTED", "FAILED"}
EventKinds == {"INGESTED", "PROCESSING", "PREPARED", "COMMITTED", "FAILED", "LEASE_RECOVERED"}
OutboxRows == [payload : Payloads, snapshot : Nat,
               status : {"PENDING", "CONFIRMED"}, tx : TxIds \cup {None}]
Admissions == [record : Records, received : Nat]

ASSUME NoRowAssumption == None \notin OutboxRows \cup Admissions

StoreTypeOK ==
  /\ now \in Nat
  /\ state \in [Records -> States]
  /\ version \in [Records -> Nat]
  /\ lease \in [Records -> Nat]
  /\ document \in [Records -> Documents \cup {None}]
  /\ cipher \in [Records -> Ciphers \cup {None}]
  /\ outbox \in [Records -> OutboxRows \cup {None}]
  /\ digests \in [Documents -> Admissions \cup {None}]
  /\ audit \in [Records -> Seq(EventKinds)]

StoreInit ==
  /\ now = 0
  /\ state = [r \in Records |-> "ABSENT"]
  /\ version = [r \in Records |-> 0]
  /\ lease = [r \in Records |-> 0]
  /\ document = [r \in Records |-> None]
  /\ cipher = [r \in Records |-> None]
  /\ outbox = [r \in Records |-> None]
  /\ digests = [d \in Documents |-> None]
  /\ audit = [r \in Records |-> <<>>]

----------------------------------------------------------------------------
(* Helpers shared by the transactions. *)

\* The row's state and version move together in every UPDATE.
Advance(r, s) ==
  /\ state' = [state EXCEPT ![r] = s]
  /\ version' = [version EXCEPT ![r] = @ + 1]

\* event(): the audit row written by the transaction itself.
Event(r, kind) == audit' = [audit EXCEPT ![r] = Append(@, kind)]

\* Faulty variant: the lease is written one tick short.
SetLeaseShort(r, until) == lease' = [lease EXCEPT ![r] = until - 1]

SetLease(r, until) == lease' = [lease EXCEPT ![r] = until]

Exists(r) == state[r] # "ABSENT"

\* Faulty variant: admissions are purged one tick early.
RetainedTooShort(d) == /\ digests[d] # None
                       /\ digests[d].received > now - Retention + 1

\* The admission of d that the DELETE of expired digests leaves in the table.
Retained(d) == /\ digests[d] # None
               /\ digests[d].received > now - Retention

----------------------------------------------------------------------------
(* The transactions. *)

IngestRefused(r, d) == Exists(r) \/ (Retention > 0 /\ Retained(d))

Ingest(r, d, c) ==
  /\ ~IngestRefused(r, d)
  /\ digests' = IF Retention = 0 THEN digests
                ELSE [e \in Documents |->
                        IF e = d THEN [record |-> r, received |-> now]
                        ELSE IF Retained(e) THEN digests[e] ELSE None]
  /\ Advance(r, "INGESTED")
  /\ document' = [document EXCEPT ![r] = d]
  /\ cipher' = [cipher EXCEPT ![r] = c]
  /\ Event(r, "INGESTED")
  /\ UNCHANGED <<now, lease, outbox>>

\* Faulty variant: any request that is not being processed can be claimed.
ClaimRefusedIfBusy(r) == ~Exists(r) \/ state[r] = "PROCESSING"

ClaimRefused(r) == state[r] # "INGESTED"

Claim(r) ==
  /\ ~ClaimRefused(r)
  /\ Advance(r, "PROCESSING")
  /\ SetLease(r, now + LeaseTime)
  /\ Event(r, "PROCESSING")
  /\ UNCHANGED <<now, document, cipher, outbox, digests>>

\* Faulty variant: the worker's version is not compared.
HoldsAnyClaim(r, v) == state[r] = "PROCESSING" /\ version[r] >= v

\* v is the version of the row the worker was given by its claim.
HoldsClaim(r, v) == state[r] = "PROCESSING" /\ version[r] = v

\* Faulty variant: the outbox row keeps the claim's version, not the new one.
PrepareOldSnapshot(r, v, p) ==
  /\ HoldsClaim(r, v)
  /\ Advance(r, "PREPARED")
  /\ SetLease(r, 0)
  /\ outbox' = [outbox EXCEPT ![r] =
                  [payload |-> p, snapshot |-> v, status |-> "PENDING", tx |-> None]]
  /\ Event(r, "PREPARED")
  /\ UNCHANGED <<now, document, cipher, digests>>

Prepare(r, v, p) ==
  /\ HoldsClaim(r, v)
  /\ Advance(r, "PREPARED")
  /\ SetLease(r, 0)
  /\ outbox' = [outbox EXCEPT ![r] =
                  [payload |-> p, snapshot |-> v + 1, status |-> "PENDING", tx |-> None]]
  /\ Event(r, "PREPARED")
  /\ UNCHANGED <<now, document, cipher, digests>>

\* Faulty variant: a repeated confirmation is not recognised.
AlreadyFinishedNever(r, tx) == FALSE

\* Another recovery caller already completed this exact write.
AlreadyFinished(r, tx) == state[r] = "COMMITTED" /\ outbox[r].tx = tx

FinishAllowed(r, snapshot, p) ==
  /\ state[r] = "PREPARED" /\ version[r] = snapshot
  /\ outbox[r].payload = p

Finish(r, snapshot, tx, p) ==
  /\ FinishAllowed(r, snapshot, p)
  /\ outbox' = [outbox EXCEPT ![r] = [@ EXCEPT !.status = "CONFIRMED", !.tx = tx]]
  /\ Advance(r, "COMMITTED")
  /\ Event(r, "COMMITTED")
  /\ UNCHANGED <<now, lease, document, cipher, digests>>

\* Faulty variant: the worker's version is not compared when it gives up.
FailAnyClaim(r, v) ==
  /\ HoldsAnyClaim(r, v)
  /\ Advance(r, "FAILED")
  /\ SetLease(r, 0)
  /\ Event(r, "FAILED")
  /\ UNCHANGED <<now, document, cipher, outbox, digests>>

FailProcessing(r, v) ==
  /\ HoldsClaim(r, v)
  /\ Advance(r, "FAILED")
  /\ SetLease(r, 0)
  /\ Event(r, "FAILED")
  /\ UNCHANGED <<now, document, cipher, outbox, digests>>

Expired(r) == state[r] = "PROCESSING" /\ lease[r] < now

RecoverExpired ==
  /\ \E r \in Records : Expired(r)
  /\ state' = [r \in Records |-> IF Expired(r) THEN "INGESTED" ELSE state[r]]
  /\ version' = [r \in Records |-> IF Expired(r) THEN version[r] + 1 ELSE version[r]]
  /\ lease' = [r \in Records |-> IF Expired(r) THEN 0 ELSE lease[r]]
  /\ audit' = [r \in Records |->
                 IF Expired(r) THEN Append(audit[r], "LEASE_RECOVERED") ELSE audit[r]]
  /\ UNCHANGED <<now, document, cipher, outbox, digests>>

----------------------------------------------------------------------------
(* What every caller may rely on. *)

\* The outbox row and the submission row never part: a receipt is pending
\* exactly while its submission is PREPARED at the snapshot's version, and
\* confirmed with a transaction exactly when it is COMMITTED one version on.
OutboxInStep ==
  \A r \in Records :
    /\ (outbox[r] # None) <=> (state[r] \in {"PREPARED", "COMMITTED"})
    /\ state[r] = "PREPARED" =>
         /\ version[r] = outbox[r].snapshot
         /\ outbox[r].status = "PENDING" /\ outbox[r].tx = None
    /\ state[r] = "COMMITTED" =>
         /\ version[r] = outbox[r].snapshot + 1
         /\ outbox[r].status = "CONFIRMED" /\ outbox[r].tx \in TxIds

============================================================================
