------------------------------ MODULE Chaincode ------------------------------
(***************************************************************************)
(* The smart contract of chaincode/vendor.go and chaincode/evidence.go as  *)
(* functions of the world state.  A peer only simulates a function, which  *)
(* yields the keys it read and the one it would write; whether that takes  *)
(* effect is decided later.  So a function is the set of its outcomes on a *)
(* world: one outcome, or none when it refuses.                            *)
(*                                                                         *)
(* Data abstraction.  Digests and signatures are identities: a receipt has *)
(* the public key that verifies it.  The form of identifiers, digests and  *)
(* encodings is taken as valid; only well-formed calls reach the state.    *)
(***************************************************************************)
EXTENDS Integers

CONSTANTS
  Records, Vendors, WorkerKeys, EvidenceKeys, Policies,   \* identifiers
  PublicKeys,
  Intervals,     \* validity intervals administrators register, [from, until]
  HardenedReceipts, EvidenceReceipts,  \* signed receipts clients submit
  Stamps,        \* proposal timestamps, chosen by the clients
  TxIds,
  Admins, Submitters, Others,  \* client identities, by role
  ClockSkew,     \* 30 s: how far issuedAt may be ahead of the proposal
  MaxLife,       \* 3600 s: the longest life of a receipt
  None           \* nil: no value in the world state

Clients == Admins \cup Submitters \cup Others
Roles == {"identity", "decision", "policy"}

\* Composite keys of the world state.
VendorKey(id) == <<"vendor", id>>
WorkerKey(id) == <<"worker", id>>
EvidenceKey(id) == <<"evidenceKey", id>>
PolicyKey(id) == <<"policy", id>>
RecordKey(id) == <<"record", id>>
ModeKey == <<"config", "evidence-only">>

AuthorityKeys ==
  {WorkerKey(id) : id \in WorkerKeys} \cup {EvidenceKey(id) : id \in EvidenceKeys}
    \cup {PolicyKey(id) : id \in Policies}
StateKeys ==
  {VendorKey(id) : id \in Vendors} \cup AuthorityKeys
    \cup {RecordKey(id) : id \in Records} \cup {ModeKey}

VendorValues == [at : Stamps]
WorkerKeyValues == [pub : PublicKeys, from : Nat, until : Nat, revoked : BOOLEAN]
EvidenceKeyValues ==
  [pub : PublicKeys, from : Nat, until : Nat, revoked : BOOLEAN, role : Roles]
PolicyValues == [from : Nat, until : Nat, revoked : BOOLEAN]
ModeValues == [evidenceOnly : {TRUE}]
\* A v1 record holds its receipt, a v2 record the digest that binds it; both
\* name their transaction, and thereby its timestamp.
RecordValues ==
  [version : {"v1"}, receipt : HardenedReceipts, at : Stamps, tx : TxIds]
    \cup [version : {"v2"}, receipt : EvidenceReceipts, at : Stamps, tx : TxIds]
Values == VendorValues \cup WorkerKeyValues \cup EvidenceKeyValues
            \cup PolicyValues \cup ModeValues \cup RecordValues

ASSUME ChaincodeAssumption ==
  /\ Intervals \subseteq [from : Nat, until : Nat]
  /\ HardenedReceipts \subseteq
       [record : Records, key : WorkerKeys, signer : PublicKeys,
        issued : Nat, expires : Nat]
  /\ EvidenceReceipts \subseteq
       [record : Records, key : EvidenceKeys, policy : Policies,
        signer : PublicKeys, issued : Nat, expires : Nat]
  /\ Stamps \subseteq Nat
  /\ ClockSkew \in Nat /\ MaxLife \in Nat
  /\ None \notin Values

\* A world maps every key to its value; Fabric deletes nothing here.
IsWorld(w) ==
  /\ DOMAIN w = StateKeys
  /\ \A id \in Vendors : w[VendorKey(id)] \in VendorValues \cup {None}
  /\ \A id \in WorkerKeys : w[WorkerKey(id)] \in WorkerKeyValues \cup {None}
  /\ \A id \in EvidenceKeys : w[EvidenceKey(id)] \in EvidenceKeyValues \cup {None}
  /\ \A id \in Policies : w[PolicyKey(id)] \in PolicyValues \cup {None}
  /\ \A id \in Records : w[RecordKey(id)] \in RecordValues \cup {None}
  /\ w[ModeKey] \in ModeValues \cup {None}

EmptyWorld == [k \in StateKeys |-> None]
----------------------------------------------------------------------------
(* Simulation of one contract function. *)

Authorized(c, admin) == c \in Admins \/ (~admin /\ c \in Submitters)

Outcome(guard, reads, k, v) ==
  IF guard THEN {[reads |-> reads, key |-> k, value |-> v]} ELSE {}

\* Faulty variant: existence is asked of the key's history, which enters no
\* read set.
putNewByHistory(w, guard, reads, k, v) ==
  Outcome(w[k] = None /\ guard, reads, k, v)

\* `reads` are the keys the caller has read on its way.
putNew(w, guard, reads, k, v) ==
  Outcome(w[k] = None /\ guard, reads \cup {k}, k, v)

RegisterVendor(w, c, id, t) ==
  putNew(w, Authorized(c, FALSE), {}, VendorKey(id), [at |-> t])

RegisterWorkerKey(w, c, id, pub, i) ==
  putNew(w, Authorized(c, TRUE) /\ i.from < i.until, {}, WorkerKey(id),
         [pub |-> pub, from |-> i.from, until |-> i.until, revoked |-> FALSE])

RegisterEvidenceKey(w, c, id, pub, i, role) ==
  putNew(w, Authorized(c, TRUE) /\ i.from < i.until /\ role \in Roles, {}, EvidenceKey(id),
         [pub |-> pub, from |-> i.from, until |-> i.until, revoked |-> FALSE, role |-> role])

RegisterPolicyDigest(w, c, id, i) ==
  putNew(w, Authorized(c, TRUE) /\ i.from < i.until, {}, PolicyKey(id),
         [from |-> i.from, until |-> i.until, revoked |-> FALSE])

\* Faulty variant: the key is deleted, not marked.
RevokeByDelete(w, c, k) == Outcome(Authorized(c, TRUE) /\ w[k] # None, {k}, k, None)

\* RevokeWorkerKey, RevokeEvidenceKey and RevokePolicyDigest differ in the key.
Revoke(w, c, k) ==
  Outcome(Authorized(c, TRUE) /\ w[k] # None, {k}, k, [w[k] EXCEPT !.revoked = TRUE])

\* The switch is written without being read.
EnableEvidenceOnly(c) ==
  Outcome(Authorized(c, TRUE), {}, ModeKey, [evidenceOnly |-> TRUE])

Current(a, t) == ~a.revoked /\ a.from <= t /\ t < a.until

\* Faulty variant: one tick more of skew than the comparison allows.
TimelySkewed(x, key, t) ==
  /\ key.from <= x.issued /\ x.expires <= key.until
  /\ x.issued <= t + ClockSkew + 1 /\ t < x.expires
  /\ x.issued < x.expires /\ x.expires - x.issued <= MaxLife

\* The receipt is timely for a proposal of time t and within the key's validity.
Timely(x, key, t) ==
  /\ key.from <= x.issued /\ x.expires <= key.until
  /\ x.issued <= t + ClockSkew /\ t < x.expires
  /\ x.issued < x.expires /\ x.expires - x.issued <= MaxLife

\* Faulty variant: the mode comes from the peer's cache, not from GetState.
RecordHardenedCachedMode(w, c, x, t, tx) ==
  LET k == WorkerKey(x.key) IN
  putNew(w,
    /\ Authorized(c, FALSE)
    /\ w[ModeKey] = None
    /\ w[k] # None /\ Current(w[k], t) /\ Timely(x, w[k], t)
    /\ x.signer = w[k].pub,
    {k}, RecordKey(x.record),
    [version |-> "v1", receipt |-> x, at |-> t, tx |-> tx])

RecordHardened(w, c, x, t, tx) ==
  LET k == WorkerKey(x.key) IN
  putNew(w,
    /\ Authorized(c, FALSE)
    /\ w[ModeKey] = None
    /\ w[k] # None /\ Current(w[k], t) /\ Timely(x, w[k], t)
    /\ x.signer = w[k].pub,
    {ModeKey, k}, RecordKey(x.record),
    [version |-> "v1", receipt |-> x, at |-> t, tx |-> tx])

\* Faulty variant: the policy comes from the peer's cache, not from GetState.
RecordEvidenceCachedPolicy(w, c, x, t, tx) ==
  LET k == EvidenceKey(x.key)
      p == PolicyKey(x.policy) IN
  putNew(w,
    /\ Authorized(c, FALSE)
    /\ w[k] # None /\ w[k].role = "decision"
    /\ Current(w[k], t) /\ Timely(x, w[k], t)
    /\ w[p] # None /\ Current(w[p], t) /\ w[p].from <= x.issued
    /\ x.signer = w[k].pub,
    {k}, RecordKey(x.record),
    [version |-> "v2", receipt |-> x, at |-> t, tx |-> tx])

RecordEvidence(w, c, x, t, tx) ==
  LET k == EvidenceKey(x.key)
      p == PolicyKey(x.policy) IN
  putNew(w,
    /\ Authorized(c, FALSE)
    /\ w[k] # None /\ w[k].role = "decision"
    /\ Current(w[k], t) /\ Timely(x, w[k], t)
    /\ w[p] # None /\ Current(w[p], t) /\ w[p].from <= x.issued
    /\ x.signer = w[k].pub,
    {k, p}, RecordKey(x.record),
    [version |-> "v2", receipt |-> x, at |-> t, tx |-> tx])
----------------------------------------------------------------------------
\* Every outcome that some call, sent as transaction tx, can have on world w.
Outcomes(w, tx) ==
  UNION {
    UNION {RegisterVendor(w, c, id, t) : c \in Clients, id \in Vendors, t \in Stamps},
    UNION {RegisterWorkerKey(w, c, id, pub, i) :
             c \in Clients, id \in WorkerKeys, pub \in PublicKeys, i \in Intervals},
    UNION {RegisterEvidenceKey(w, c, id, pub, i, role) :
             c \in Clients, id \in EvidenceKeys, pub \in PublicKeys, i \in Intervals, role \in Roles},
    UNION {RegisterPolicyDigest(w, c, id, i) : c \in Clients, id \in Policies, i \in Intervals},
    UNION {Revoke(w, c, k) : c \in Clients, k \in AuthorityKeys},
    UNION {EnableEvidenceOnly(c) : c \in Clients},
    UNION {RecordHardened(w, c, x, t, tx) : c \in Clients, x \in HardenedReceipts, t \in Stamps},
    UNION {RecordEvidence(w, c, x, t, tx) : c \in Clients, x \in EvidenceReceipts, t \in Stamps}}

============================================================================
