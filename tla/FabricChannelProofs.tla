------------------------- MODULE FabricChannelProofs -------------------------
(***************************************************************************)
(* FabricChannel executes its transactions serially, for any set of keys,  *)
(* receipts, clients and transactions.  Comparing versions is the argument *)
(* (MVCCInv): while the versions a transaction has read are the present    *)
(* ones, its contract function would give the same outcome now.  What the  *)
(* ledger says then follows from each function alone.                      *)
(***************************************************************************)
EXTENDS FabricChannel, TLAPS

\* The kind of value each key holds.
Fits(k, v) ==
  \/ \E id \in Vendors : k = VendorKey(id) /\ v \in VendorValues
  \/ \E id \in WorkerKeys : k = WorkerKey(id) /\ v \in WorkerKeyValues
  \/ \E id \in EvidenceKeys : k = EvidenceKey(id) /\ v \in EvidenceKeyValues
  \/ \E id \in Policies : k = PolicyKey(id) /\ v \in PolicyValues
  \/ \E id \in Records : k = RecordKey(id) /\ v \in RecordValues
  \/ k = ModeKey /\ v \in ModeValues

\* An outcome comes from one of the contract's functions.
LEMMA OutcomeCases ==
  ASSUME NEW w, NEW tx, NEW o
  PROVE o \in Outcomes(w, tx) <=>
    \/ \E c \in Clients, id \in Vendors, t \in Stamps : o \in RegisterVendor(w, c, id, t)
    \/ \E c \in Clients, id \in WorkerKeys, pub \in PublicKeys, i \in Intervals :
         o \in RegisterWorkerKey(w, c, id, pub, i)
    \/ \E c \in Clients, id \in EvidenceKeys, pub \in PublicKeys, i \in Intervals,
        role \in Roles :
         o \in RegisterEvidenceKey(w, c, id, pub, i, role)
    \/ \E c \in Clients, id \in Policies, i \in Intervals :
         o \in RegisterPolicyDigest(w, c, id, i)
    \/ \E c \in Clients, k \in AuthorityKeys : o \in Revoke(w, c, k)
    \/ \E c \in Clients : o \in EnableEvidenceOnly(c)
    \/ \E c \in Clients, x \in HardenedReceipts, t \in Stamps :
         o \in RecordHardened(w, c, x, t, tx)
    \/ \E c \in Clients, x \in EvidenceReceipts, t \in Stamps :
         o \in RecordEvidence(w, c, x, t, tx)
<1> DEFINE V == UNION {RegisterVendor(w, c, id, t) :
                  c \in Clients, id \in Vendors, t \in Stamps}
           K == UNION {RegisterWorkerKey(w, c, id, pub, i) :
                  c \in Clients, id \in WorkerKeys, pub \in PublicKeys, i \in Intervals}
           E == UNION {RegisterEvidenceKey(w, c, id, pub, i, role) :
                  c \in Clients, id \in EvidenceKeys, pub \in PublicKeys, i \in Intervals,
                  role \in Roles}
           D == UNION {RegisterPolicyDigest(w, c, id, i) :
                  c \in Clients, id \in Policies, i \in Intervals}
           X == UNION {Revoke(w, c, k) : c \in Clients, k \in AuthorityKeys}
           M == UNION {EnableEvidenceOnly(c) : c \in Clients}
           H == UNION {RecordHardened(w, c, x, t, tx) :
                  c \in Clients, x \in HardenedReceipts, t \in Stamps}
           R == UNION {RecordEvidence(w, c, x, t, tx) :
                  c \in Clients, x \in EvidenceReceipts, t \in Stamps}
<1>1. Outcomes(w, tx) = UNION {V, K, E, D, X, M, H, R}
  BY DEF Outcomes
<1>2. o \in V <=> \E c \in Clients, id \in Vendors, t \in Stamps :
                     o \in RegisterVendor(w, c, id, t)
  OBVIOUS
<1>3. o \in K <=> \E c \in Clients, id \in WorkerKeys, pub \in PublicKeys, i \in Intervals :
                     o \in RegisterWorkerKey(w, c, id, pub, i)
  OBVIOUS
<1>4. o \in E <=> \E c \in Clients, id \in EvidenceKeys, pub \in PublicKeys, i \in Intervals,
                     role \in Roles :
                     o \in RegisterEvidenceKey(w, c, id, pub, i, role)
  OBVIOUS
<1>5. o \in D <=> \E c \in Clients, id \in Policies, i \in Intervals :
                     o \in RegisterPolicyDigest(w, c, id, i)
  OBVIOUS
<1>6. o \in X <=> \E c \in Clients, k \in AuthorityKeys : o \in Revoke(w, c, k)
  OBVIOUS
<1>7. o \in M <=> \E c \in Clients : o \in EnableEvidenceOnly(c)
  OBVIOUS
<1>8. o \in H <=> \E c \in Clients, x \in HardenedReceipts, t \in Stamps :
                     o \in RecordHardened(w, c, x, t, tx)
  OBVIOUS
<1>9. o \in R <=> \E c \in Clients, x \in EvidenceReceipts, t \in Stamps :
                     o \in RecordEvidence(w, c, x, t, tx)
  OBVIOUS
<1> HIDE DEF V, K, E, D, X, M, H, R
<1>10. o \in UNION {V, K, E, D, X, M, H, R} <=>
         o \in V \/ o \in K \/ o \in E \/ o \in D \/ o \in X \/ o \in M \/ o \in H \/ o \in R
  OBVIOUS
<1> QED BY <1>1, <1>2, <1>3, <1>4, <1>5, <1>6, <1>7, <1>8, <1>9, <1>10

\* Keys of different kinds differ, and each is a key of the world.
LEMMA KeysDiffer ==
  /\ \A a, b : VendorKey(a) # WorkerKey(b) /\ VendorKey(a) # EvidenceKey(b)
              /\ VendorKey(a) # PolicyKey(b) /\ VendorKey(a) # RecordKey(b)
              /\ WorkerKey(a) # EvidenceKey(b) /\ WorkerKey(a) # PolicyKey(b)
              /\ WorkerKey(a) # RecordKey(b) /\ EvidenceKey(a) # PolicyKey(b)
              /\ EvidenceKey(a) # RecordKey(b) /\ PolicyKey(a) # RecordKey(b)
  /\ \A a : ModeKey # VendorKey(a) /\ ModeKey # WorkerKey(a) /\ ModeKey # EvidenceKey(a)
           /\ ModeKey # PolicyKey(a) /\ ModeKey # RecordKey(a)
  BY DEF VendorKey, WorkerKey, EvidenceKey, PolicyKey, RecordKey, ModeKey

LEMMA KeysAreStateKeys ==
  /\ \A id \in Vendors : VendorKey(id) \in StateKeys
  /\ \A id \in WorkerKeys : WorkerKey(id) \in StateKeys
  /\ \A id \in EvidenceKeys : EvidenceKey(id) \in StateKeys
  /\ \A id \in Policies : PolicyKey(id) \in StateKeys
  /\ \A id \in Records : RecordKey(id) \in StateKeys
  /\ ModeKey \in StateKeys
  /\ AuthorityKeys \subseteq StateKeys
  BY DEF StateKeys, AuthorityKeys

LEMMA AuthorityCases ==
  ASSUME NEW k \in AuthorityKeys
  PROVE \/ \E id \in WorkerKeys : k = WorkerKey(id)
        \/ \E id \in EvidenceKeys : k = EvidenceKey(id)
        \/ \E id \in Policies : k = PolicyKey(id)
  BY DEF AuthorityKeys

\* A revocation yields a value of the same kind.
LEMMA RevokedFits ==
  ASSUME NEW w, IsWorld(w), NEW k \in AuthorityKeys, w[k] # None
  PROVE Fits(k, [w[k] EXCEPT !.revoked = TRUE])
<1>1. CASE \E id \in WorkerKeys : k = WorkerKey(id)
  <2> PICK id \in WorkerKeys : k = WorkerKey(id)
    BY <1>1
  <2>1. w[k] \in WorkerKeyValues
    BY DEF IsWorld
  <2>2. [w[k] EXCEPT !.revoked = TRUE] \in WorkerKeyValues
    BY <2>1 DEF WorkerKeyValues
  <2> QED BY <2>2 DEF Fits
<1>2. CASE \E id \in EvidenceKeys : k = EvidenceKey(id)
  <2> PICK id \in EvidenceKeys : k = EvidenceKey(id)
    BY <1>2
  <2>1. w[k] \in EvidenceKeyValues
    BY DEF IsWorld
  <2>2. [w[k] EXCEPT !.revoked = TRUE] \in EvidenceKeyValues
    BY <2>1 DEF EvidenceKeyValues
  <2> QED BY <2>2 DEF Fits
<1>3. CASE \E id \in Policies : k = PolicyKey(id)
  <2> PICK id \in Policies : k = PolicyKey(id)
    BY <1>3
  <2>1. w[k] \in PolicyValues
    BY DEF IsWorld
  <2>2. [w[k] EXCEPT !.revoked = TRUE] \in PolicyValues
    BY <2>1 DEF PolicyValues
  <2> QED BY <2>2 DEF Fits
<1> QED BY <1>1, <1>2, <1>3, AuthorityCases

\* When a v1 receipt x is accepted by a key value.
HardenedBy(x, key, t) ==
  Current(key, t) /\ Timely(x, key, t) /\ x.signer = key.pub

\* When a v2 receipt x is accepted by the values of its key and policy.
EvidencedBy(x, key, p, t) ==
  /\ key.role = "decision" /\ Current(key, t) /\ Timely(x, key, t)
  /\ Current(p, t) /\ p.from <= x.issued /\ x.signer = key.pub

\* What an outcome of each function is, and when there is one.
LEMMA RegisterVendorIs ==
  ASSUME NEW w, NEW c, NEW id, NEW t, NEW o \in RegisterVendor(w, c, id, t)
  PROVE /\ w[VendorKey(id)] = None
        /\ o = [reads |-> {VendorKey(id)}, key |-> VendorKey(id),
              value |-> [at |-> t]]
        /\ o.reads = {VendorKey(id)} /\ o.key = VendorKey(id)
        /\ o.value = [at |-> t]
<1>1. /\ w[VendorKey(id)] = None
      /\ o = [reads |-> {VendorKey(id)}, key |-> VendorKey(id),
              value |-> [at |-> t]]
  BY DEF RegisterVendor, putNew, Outcome
<1> QED BY <1>1

LEMMA RegisterWorkerKeyIs ==
  ASSUME NEW w, NEW c, NEW id, NEW pub, NEW i, NEW o \in RegisterWorkerKey(w, c, id, pub, i)
  PROVE /\ w[WorkerKey(id)] = None
        /\ o = [reads |-> {WorkerKey(id)}, key |-> WorkerKey(id),
              value |-> [pub |-> pub, from |-> i.from, until |-> i.until, revoked |-> FALSE]]
        /\ o.reads = {WorkerKey(id)} /\ o.key = WorkerKey(id)
        /\ o.value = [pub |-> pub, from |-> i.from, until |-> i.until, revoked |-> FALSE]
<1>1. /\ w[WorkerKey(id)] = None
      /\ o = [reads |-> {WorkerKey(id)}, key |-> WorkerKey(id),
              value |-> [pub |-> pub, from |-> i.from, until |-> i.until, revoked |-> FALSE]]
  BY DEF RegisterWorkerKey, putNew, Outcome
<1> QED BY <1>1

LEMMA RegisterEvidenceKeyIs ==
  ASSUME NEW w, NEW c, NEW id, NEW pub, NEW i, NEW role, NEW o \in RegisterEvidenceKey(w, c,
         id, pub, i, role)
  PROVE /\ w[EvidenceKey(id)] = None
        /\ o = [reads |-> {EvidenceKey(id)}, key |-> EvidenceKey(id),
              value |-> [pub |-> pub, from |-> i.from, until |-> i.until, revoked |-> FALSE,
                  role |-> role]]
        /\ o.reads = {EvidenceKey(id)} /\ o.key = EvidenceKey(id)
        /\ o.value = [pub |-> pub, from |-> i.from, until |-> i.until, revoked |-> FALSE,
            role |-> role]
<1>1. /\ w[EvidenceKey(id)] = None
      /\ o = [reads |-> {EvidenceKey(id)}, key |-> EvidenceKey(id),
              value |-> [pub |-> pub, from |-> i.from, until |-> i.until, revoked |-> FALSE,
                  role |-> role]]
  BY DEF RegisterEvidenceKey, putNew, Outcome
<1> QED BY <1>1

LEMMA RegisterPolicyDigestIs ==
  ASSUME NEW w, NEW c, NEW id, NEW i, NEW o \in RegisterPolicyDigest(w, c, id, i)
  PROVE /\ w[PolicyKey(id)] = None
        /\ o = [reads |-> {PolicyKey(id)}, key |-> PolicyKey(id),
              value |-> [from |-> i.from, until |-> i.until, revoked |-> FALSE]]
        /\ o.reads = {PolicyKey(id)} /\ o.key = PolicyKey(id)
        /\ o.value = [from |-> i.from, until |-> i.until, revoked |-> FALSE]
<1>1. /\ w[PolicyKey(id)] = None
      /\ o = [reads |-> {PolicyKey(id)}, key |-> PolicyKey(id),
              value |-> [from |-> i.from, until |-> i.until, revoked |-> FALSE]]
  BY DEF RegisterPolicyDigest, putNew, Outcome
<1> QED BY <1>1

LEMMA RevokeIs ==
  ASSUME NEW w, NEW c, NEW k, NEW o \in Revoke(w, c, k)
  PROVE /\ w[k] # None
        /\ o = [reads |-> {k}, key |-> k,
              value |-> [w[k] EXCEPT !.revoked = TRUE]]
        /\ o.reads = {k} /\ o.key = k
        /\ o.value = [w[k] EXCEPT !.revoked = TRUE]
<1>1. /\ w[k] # None
      /\ o = [reads |-> {k}, key |-> k,
              value |-> [w[k] EXCEPT !.revoked = TRUE]]
  BY DEF Revoke, Outcome
<1> QED BY <1>1

LEMMA EnableEvidenceOnlyIs ==
  ASSUME NEW c, NEW o \in EnableEvidenceOnly(c)
  PROVE /\ o = [reads |-> {}, key |-> ModeKey,
              value |-> [evidenceOnly |-> TRUE]]
        /\ o.reads = {} /\ o.key = ModeKey
        /\ o.value = [evidenceOnly |-> TRUE]
<1>1. /\ o = [reads |-> {}, key |-> ModeKey,
              value |-> [evidenceOnly |-> TRUE]]
  BY DEF EnableEvidenceOnly, Outcome
<1> QED BY <1>1

LEMMA RecordHardenedIs ==
  ASSUME NEW w, NEW c, NEW x, NEW t, NEW tx, NEW o \in RecordHardened(w, c, x, t, tx)
  PROVE /\ w[RecordKey(x.record)] = None
        /\ w[ModeKey] = None
        /\ w[WorkerKey(x.key)] # None
        /\ HardenedBy(x, w[WorkerKey(x.key)], t)
        /\ o = [reads |-> {ModeKey, WorkerKey(x.key), RecordKey(x.record)},
            key |-> RecordKey(x.record),
              value |-> [version |-> "v1", receipt |-> x, at |-> t, tx |-> tx]]
        /\ o.reads = {ModeKey, WorkerKey(x.key),
            RecordKey(x.record)} /\ o.key = RecordKey(x.record)
        /\ o.value = [version |-> "v1", receipt |-> x, at |-> t, tx |-> tx]
<1>1. /\ w[RecordKey(x.record)] = None
      /\ w[ModeKey] = None
      /\ w[WorkerKey(x.key)] # None
      /\ HardenedBy(x, w[WorkerKey(x.key)], t)
      /\ o = [reads |-> {ModeKey, WorkerKey(x.key), RecordKey(x.record)},
          key |-> RecordKey(x.record),
              value |-> [version |-> "v1", receipt |-> x, at |-> t, tx |-> tx]]
  BY DEF RecordHardened, HardenedBy, putNew, Outcome
<1> QED BY <1>1

LEMMA RecordEvidenceIs ==
  ASSUME NEW w, NEW c, NEW x, NEW t, NEW tx, NEW o \in RecordEvidence(w, c, x, t, tx)
  PROVE /\ w[RecordKey(x.record)] = None
        /\ w[EvidenceKey(x.key)] # None
        /\ w[PolicyKey(x.policy)] # None
        /\ EvidencedBy(x, w[EvidenceKey(x.key)], w[PolicyKey(x.policy)], t)
        /\ o = [reads |-> {EvidenceKey(x.key), PolicyKey(x.policy), RecordKey(x.record)},
            key |-> RecordKey(x.record),
              value |-> [version |-> "v2", receipt |-> x, at |-> t, tx |-> tx]]
        /\ o.reads = {EvidenceKey(x.key), PolicyKey(x.policy),
            RecordKey(x.record)} /\ o.key = RecordKey(x.record)
        /\ o.value = [version |-> "v2", receipt |-> x, at |-> t, tx |-> tx]
<1>1. /\ w[RecordKey(x.record)] = None
      /\ w[EvidenceKey(x.key)] # None
      /\ w[PolicyKey(x.policy)] # None
      /\ EvidencedBy(x, w[EvidenceKey(x.key)], w[PolicyKey(x.policy)], t)
      /\ o = [reads |-> {EvidenceKey(x.key), PolicyKey(x.policy), RecordKey(x.record)},
          key |-> RecordKey(x.record),
              value |-> [version |-> "v2", receipt |-> x, at |-> t, tx |-> tx]]
  BY DEF RecordEvidence, EvidencedBy, putNew, Outcome
<1> QED BY <1>1

WellTyped(o) ==
  /\ o = [reads |-> o.reads, key |-> o.key, value |-> o.value]
  /\ o.reads \subseteq StateKeys /\ Fits(o.key, o.value)

\* Every function reads keys of the world and writes a value of the key's kind.
LEMMA OutcomeTyped ==
  ASSUME NEW w, IsWorld(w), NEW tx \in TxIds, NEW o \in Outcomes(w, tx)
  PROVE WellTyped(o)
<1>1. ASSUME NEW c \in Clients, NEW id \in Vendors, NEW t \in Stamps,
             o \in RegisterVendor(w, c, id, t)
      PROVE WellTyped(o)
  <2>1. o = [reads |-> {VendorKey(id)}, key |-> VendorKey(id),
             value |-> [at |-> t]]
        /\ o.reads = {VendorKey(id)} /\ o.key = VendorKey(id)
        /\ o.value = [at |-> t]
    BY <1>1, RegisterVendorIs
  <2>0. o = [reads |-> o.reads, key |-> o.key, value |-> o.value]
    BY <2>1
  <2>2. [at |-> t] \in VendorValues
    BY ChaincodeAssumption DEF VendorValues
  <2>4. o.reads \subseteq StateKeys
    BY <2>1, KeysAreStateKeys
  <2> QED BY <2>0, <2>1, <2>2, <2>4 DEF WellTyped, Fits
<1>2. ASSUME NEW c \in Clients, NEW id \in WorkerKeys, NEW pub \in PublicKeys,
             NEW i \in Intervals,
             o \in RegisterWorkerKey(w, c, id, pub, i)
      PROVE WellTyped(o)
  <2>1. o = [reads |-> {WorkerKey(id)}, key |-> WorkerKey(id),
             value |-> [pub |-> pub, from |-> i.from, until |-> i.until, revoked |-> FALSE]]
        /\ o.reads = {WorkerKey(id)} /\ o.key = WorkerKey(id)
        /\ o.value = [pub |-> pub, from |-> i.from, until |-> i.until, revoked |-> FALSE]
    BY <1>2, RegisterWorkerKeyIs
  <2>0. o = [reads |-> o.reads, key |-> o.key, value |-> o.value]
    BY <2>1
  <2>2. [pub |-> pub, from |-> i.from, until |-> i.until, revoked |-> FALSE] \in WorkerKeyValues
    BY ChaincodeAssumption DEF WorkerKeyValues
  <2>4. o.reads \subseteq StateKeys
    BY <2>1, KeysAreStateKeys
  <2> QED BY <2>0, <2>1, <2>2, <2>4 DEF WellTyped, Fits
<1>3. ASSUME NEW c \in Clients, NEW id \in EvidenceKeys, NEW pub \in PublicKeys,
             NEW i \in Intervals, NEW role \in Roles,
             o \in RegisterEvidenceKey(w, c, id, pub, i, role)
      PROVE WellTyped(o)
  <2>1. o = [reads |-> {EvidenceKey(id)}, key |-> EvidenceKey(id),
             value |-> [pub |-> pub, from |-> i.from, until |-> i.until, revoked |-> FALSE,
                 role |-> role]]
        /\ o.reads = {EvidenceKey(id)} /\ o.key = EvidenceKey(id)
        /\ o.value = [pub |-> pub, from |-> i.from, until |-> i.until, revoked |-> FALSE,
            role |-> role]
    BY <1>3, RegisterEvidenceKeyIs
  <2>0. o = [reads |-> o.reads, key |-> o.key, value |-> o.value]
    BY <2>1
  <2>2. [pub |-> pub, from |-> i.from, until |-> i.until, revoked |-> FALSE,
        role |-> role] \in EvidenceKeyValues
    BY ChaincodeAssumption DEF EvidenceKeyValues
  <2>4. o.reads \subseteq StateKeys
    BY <2>1, KeysAreStateKeys
  <2> QED BY <2>0, <2>1, <2>2, <2>4 DEF WellTyped, Fits
<1>4. ASSUME NEW c \in Clients, NEW id \in Policies, NEW i \in Intervals,
             o \in RegisterPolicyDigest(w, c, id, i)
      PROVE WellTyped(o)
  <2>1. o = [reads |-> {PolicyKey(id)}, key |-> PolicyKey(id),
             value |-> [from |-> i.from, until |-> i.until, revoked |-> FALSE]]
        /\ o.reads = {PolicyKey(id)} /\ o.key = PolicyKey(id)
        /\ o.value = [from |-> i.from, until |-> i.until, revoked |-> FALSE]
    BY <1>4, RegisterPolicyDigestIs
  <2>0. o = [reads |-> o.reads, key |-> o.key, value |-> o.value]
    BY <2>1
  <2>2. [from |-> i.from, until |-> i.until, revoked |-> FALSE] \in PolicyValues
    BY ChaincodeAssumption DEF PolicyValues
  <2>4. o.reads \subseteq StateKeys
    BY <2>1, KeysAreStateKeys
  <2> QED BY <2>0, <2>1, <2>2, <2>4 DEF WellTyped, Fits
<1>5. ASSUME NEW c \in Clients, NEW k \in AuthorityKeys,
             o \in Revoke(w, c, k)
      PROVE WellTyped(o)
  <2>1. o = [reads |-> {k}, key |-> k,
             value |-> [w[k] EXCEPT !.revoked = TRUE]]
        /\ o.reads = {k} /\ o.key = k
        /\ o.value = [w[k] EXCEPT !.revoked = TRUE] /\ w[k] # None
    BY <1>5, RevokeIs
  <2>0. o = [reads |-> o.reads, key |-> o.key, value |-> o.value]
    BY <2>1
  <2> QED BY <2>0, <2>1, RevokedFits, KeysAreStateKeys DEF WellTyped
<1>6. ASSUME NEW c \in Clients,
             o \in EnableEvidenceOnly(c)
      PROVE WellTyped(o)
  <2>1. o = [reads |-> {}, key |-> ModeKey,
             value |-> [evidenceOnly |-> TRUE]]
        /\ o.reads = {} /\ o.key = ModeKey
        /\ o.value = [evidenceOnly |-> TRUE]
    BY <1>6, EnableEvidenceOnlyIs
  <2>0. o = [reads |-> o.reads, key |-> o.key, value |-> o.value]
    BY <2>1
  <2>2. [evidenceOnly |-> TRUE] \in ModeValues
    BY ChaincodeAssumption DEF ModeValues
  <2>4. o.reads \subseteq StateKeys
    BY <2>1, KeysAreStateKeys
  <2> QED BY <2>0, <2>1, <2>2, <2>4 DEF WellTyped, Fits
<1>7. ASSUME NEW c \in Clients, NEW x \in HardenedReceipts, NEW t \in Stamps,
             o \in RecordHardened(w, c, x, t, tx)
      PROVE WellTyped(o)
  <2>1. o = [reads |-> {ModeKey, WorkerKey(x.key), RecordKey(x.record)},
        key |-> RecordKey(x.record),
             value |-> [version |-> "v1", receipt |-> x, at |-> t, tx |-> tx]]
        /\ o.reads = {ModeKey, WorkerKey(x.key),
            RecordKey(x.record)} /\ o.key = RecordKey(x.record)
        /\ o.value = [version |-> "v1", receipt |-> x, at |-> t, tx |-> tx]
    BY <1>7, RecordHardenedIs
  <2>0. o = [reads |-> o.reads, key |-> o.key, value |-> o.value]
    BY <2>1
  <2>2. [version |-> "v1", receipt |-> x, at |-> t, tx |-> tx] \in RecordValues
    BY ChaincodeAssumption DEF RecordValues
  <2>3. x.record \in Records /\ x.key \in WorkerKeys
    BY ChaincodeAssumption
  <2>4. o.reads \subseteq StateKeys
    BY <2>1, KeysAreStateKeys, <2>3
  <2> QED BY <2>0, <2>1, <2>2, <2>3, <2>4 DEF WellTyped, Fits
<1>8. ASSUME NEW c \in Clients, NEW x \in EvidenceReceipts, NEW t \in Stamps,
             o \in RecordEvidence(w, c, x, t, tx)
      PROVE WellTyped(o)
  <2>1. o = [reads |-> {EvidenceKey(x.key), PolicyKey(x.policy), RecordKey(x.record)},
        key |-> RecordKey(x.record),
             value |-> [version |-> "v2", receipt |-> x, at |-> t, tx |-> tx]]
        /\ o.reads = {EvidenceKey(x.key), PolicyKey(x.policy),
            RecordKey(x.record)} /\ o.key = RecordKey(x.record)
        /\ o.value = [version |-> "v2", receipt |-> x, at |-> t, tx |-> tx]
    BY <1>8, RecordEvidenceIs
  <2>0. o = [reads |-> o.reads, key |-> o.key, value |-> o.value]
    BY <2>1
  <2>2. [version |-> "v2", receipt |-> x, at |-> t, tx |-> tx] \in RecordValues
    BY ChaincodeAssumption DEF RecordValues
  <2>3. x.record \in Records /\ x.key \in EvidenceKeys /\ x.policy \in Policies
    BY ChaincodeAssumption
  <2>4. o.reads \subseteq StateKeys
    BY <2>1, KeysAreStateKeys, <2>3
  <2> QED BY <2>0, <2>1, <2>2, <2>3, <2>4 DEF WellTyped, Fits
<1> QED BY <1>1, <1>2, <1>3, <1>4, <1>5, <1>6, <1>7, <1>8, OutcomeCases

Agree(u, w, keys) == \A k \in keys : u[k] = w[k]

\* A function depends on nothing but the keys it reads.
LEMMA ReadsDecide ==
  ASSUME NEW w, NEW u, NEW tx, NEW o \in Outcomes(w, tx), Agree(u, w, o.reads)
  PROVE o \in Outcomes(u, tx)
<1>1. ASSUME NEW c \in Clients, NEW id \in Vendors, NEW t \in Stamps,
             o \in RegisterVendor(w, c, id, t)
      PROVE o \in RegisterVendor(u, c, id, t)
  <2>1. o.reads = {VendorKey(id)} /\ o.key = VendorKey(id)
        /\ o.value = [at |-> t]
    BY <1>1, RegisterVendorIs
  <2>2. u[VendorKey(id)] = w[VendorKey(id)]
    BY <2>1 DEF Agree
  <2>3. RegisterVendor(w, c, id, t) = RegisterVendor(u, c, id, t)
    BY <2>2 DEF RegisterVendor, putNew, Outcome
  <2> QED BY <1>1, <2>3
<1>2. ASSUME NEW c \in Clients, NEW id \in WorkerKeys, NEW pub \in PublicKeys,
             NEW i \in Intervals,
             o \in RegisterWorkerKey(w, c, id, pub, i)
      PROVE o \in RegisterWorkerKey(u, c, id, pub, i)
  <2>1. o.reads = {WorkerKey(id)} /\ o.key = WorkerKey(id)
        /\ o.value = [pub |-> pub, from |-> i.from, until |-> i.until, revoked |-> FALSE]
    BY <1>2, RegisterWorkerKeyIs
  <2>2. u[WorkerKey(id)] = w[WorkerKey(id)]
    BY <2>1 DEF Agree
  <2>3. RegisterWorkerKey(w, c, id, pub, i) = RegisterWorkerKey(u, c, id, pub, i)
    BY <2>2 DEF RegisterWorkerKey, putNew, Outcome
  <2> QED BY <1>2, <2>3
<1>3. ASSUME NEW c \in Clients, NEW id \in EvidenceKeys, NEW pub \in PublicKeys,
             NEW i \in Intervals, NEW role \in Roles,
             o \in RegisterEvidenceKey(w, c, id, pub, i, role)
      PROVE o \in RegisterEvidenceKey(u, c, id, pub, i, role)
  <2>1. o.reads = {EvidenceKey(id)} /\ o.key = EvidenceKey(id)
        /\ o.value = [pub |-> pub, from |-> i.from, until |-> i.until, revoked |-> FALSE,
            role |-> role]
    BY <1>3, RegisterEvidenceKeyIs
  <2>2. /\ u[EvidenceKey(id)] = w[EvidenceKey(id)]
    BY <2>1 DEF Agree
  <2>3. RegisterEvidenceKey(w, c, id, pub, i, role) = RegisterEvidenceKey(u, c, id, pub, i,
        role)
    BY <2>2 DEF RegisterEvidenceKey, putNew, Outcome
  <2> QED BY <1>3, <2>3
<1>4. ASSUME NEW c \in Clients, NEW id \in Policies, NEW i \in Intervals,
             o \in RegisterPolicyDigest(w, c, id, i)
      PROVE o \in RegisterPolicyDigest(u, c, id, i)
  <2>1. o.reads = {PolicyKey(id)} /\ o.key = PolicyKey(id)
        /\ o.value = [from |-> i.from, until |-> i.until, revoked |-> FALSE]
    BY <1>4, RegisterPolicyDigestIs
  <2>2. u[PolicyKey(id)] = w[PolicyKey(id)]
    BY <2>1 DEF Agree
  <2>3. RegisterPolicyDigest(w, c, id, i) = RegisterPolicyDigest(u, c, id, i)
    BY <2>2 DEF RegisterPolicyDigest, putNew, Outcome
  <2> QED BY <1>4, <2>3
<1>5. ASSUME NEW c \in Clients, NEW k \in AuthorityKeys,
             o \in Revoke(w, c, k)
      PROVE o \in Revoke(u, c, k)
  <2>1. o.reads = {k} /\ o.key = k
        /\ o.value = [w[k] EXCEPT !.revoked = TRUE]
    BY <1>5, RevokeIs
  <2>2. u[k] = w[k]
    BY <2>1 DEF Agree
  <2>3. Revoke(w, c, k) = Revoke(u, c, k)
    BY <2>2 DEF Revoke, Outcome
  <2> QED BY <1>5, <2>3
<1>6. ASSUME NEW c \in Clients,
             o \in EnableEvidenceOnly(c)
      PROVE o \in EnableEvidenceOnly(c)
  BY <1>6
<1>7. ASSUME NEW c \in Clients, NEW x \in HardenedReceipts, NEW t \in Stamps,
             o \in RecordHardened(w, c, x, t, tx)
      PROVE o \in RecordHardened(u, c, x, t, tx)
  <2>1. o.reads = {ModeKey, WorkerKey(x.key),
        RecordKey(x.record)} /\ o.key = RecordKey(x.record)
        /\ o.value = [version |-> "v1", receipt |-> x, at |-> t, tx |-> tx]
    BY <1>7, RecordHardenedIs
  <2>2. /\ u[ModeKey] = w[ModeKey]
        /\ u[WorkerKey(x.key)] = w[WorkerKey(x.key)]
        /\ u[RecordKey(x.record)] = w[RecordKey(x.record)]
    BY <2>1 DEF Agree
  <2>3. RecordHardened(w, c, x, t, tx) = RecordHardened(u, c, x, t, tx)
    BY <2>2 DEF RecordHardened, putNew, Outcome
  <2> QED BY <1>7, <2>3
<1>8. ASSUME NEW c \in Clients, NEW x \in EvidenceReceipts, NEW t \in Stamps,
             o \in RecordEvidence(w, c, x, t, tx)
      PROVE o \in RecordEvidence(u, c, x, t, tx)
  <2>1. o.reads = {EvidenceKey(x.key), PolicyKey(x.policy),
        RecordKey(x.record)} /\ o.key = RecordKey(x.record)
        /\ o.value = [version |-> "v2", receipt |-> x, at |-> t, tx |-> tx]
    BY <1>8, RecordEvidenceIs
  <2>2. /\ u[EvidenceKey(x.key)] = w[EvidenceKey(x.key)]
        /\ u[PolicyKey(x.policy)] = w[PolicyKey(x.policy)]
        /\ u[RecordKey(x.record)] = w[RecordKey(x.record)]
    BY <2>1 DEF Agree
  <2>3. RecordEvidence(w, c, x, t, tx) = RecordEvidence(u, c, x, t, tx)
    BY <2>2 DEF RecordEvidence, putNew, Outcome
  <2> QED BY <1>8, <2>3
<1> QED BY <1>1, <1>2, <1>3, <1>4, <1>5, <1>6, <1>7, <1>8, OutcomeCases

LEMMA FitsIsTyped ==
  ASSUME NEW k, NEW v, Fits(k, v)
  PROVE k \in StateKeys /\ v \in Values /\ v # None
<1>1. k \in StateKeys
  BY KeysAreStateKeys DEF Fits
<1>2. v \in Values
  BY DEF Fits, Values
<1> QED BY <1>1, <1>2, ChaincodeAssumption

\* Writing a value of the key's kind leaves a world.
LEMMA WorldStep ==
  ASSUME NEW w, IsWorld(w), NEW k, NEW v, Fits(k, v)
  PROVE IsWorld([w EXCEPT ![k] = v])
<1> DEFINE u == [w EXCEPT ![k] = v]
<1>1. DOMAIN u = StateKeys /\ \A q \in StateKeys : u[q] = IF q = k THEN v ELSE w[q]
  BY FitsIsTyped DEF IsWorld
<1> HIDE DEF u
<1>2. \A id \in Vendors : u[VendorKey(id)] \in VendorValues \cup {None}
  BY <1>1, KeysAreStateKeys, KeysDiffer DEF Fits, IsWorld
<1>3. \A id \in WorkerKeys : u[WorkerKey(id)] \in WorkerKeyValues \cup {None}
  BY <1>1, KeysAreStateKeys, KeysDiffer DEF Fits, IsWorld
<1>4. \A id \in EvidenceKeys : u[EvidenceKey(id)] \in EvidenceKeyValues \cup {None}
  BY <1>1, KeysAreStateKeys, KeysDiffer DEF Fits, IsWorld
<1>5. \A id \in Policies : u[PolicyKey(id)] \in PolicyValues \cup {None}
  BY <1>1, KeysAreStateKeys, KeysDiffer DEF Fits, IsWorld
<1>6. \A id \in Records : u[RecordKey(id)] \in RecordValues \cup {None}
  BY <1>1, KeysAreStateKeys, KeysDiffer DEF Fits, IsWorld
<1>7. u[ModeKey] \in ModeValues \cup {None}
  BY <1>1, KeysAreStateKeys, KeysDiffer DEF Fits, IsWorld
<1>8. IsWorld(u)
  BY <1>1, <1>2, <1>3, <1>4, <1>5, <1>6, <1>7 DEF IsWorld
<1> QED BY <1>8 DEF u

----------------------------------------------------------------------------
(* Types and serial execution. *)

MVCCInv == \A tx \in inflight :
  /\ \A k \in tx.outcome.reads : tx.seen[k] <= version[k]
  /\ Valid(tx) => tx.outcome \in Outcomes(world, tx.id)

ChannelInv ==
  /\ TypeOK /\ MVCCInv
  /\ \A tx \in inflight : Fits(tx.outcome.key, tx.outcome.value)

LEMMA ChannelInit == Init => ChannelInv
<1> SUFFICES ASSUME Init PROVE ChannelInv
  OBVIOUS
<1>1. IsWorld(world)
  <2>1. \A k \in StateKeys : world[k] = None
    BY DEF Init, EmptyWorld
  <2>2. DOMAIN world = StateKeys
    BY DEF Init, EmptyWorld
  <2> QED BY <2>1, <2>2, KeysAreStateKeys DEF IsWorld
<1>2. version \in [StateKeys -> Nat] /\ used \subseteq TxIds /\ inflight = {}
  BY DEF Init
<1> QED BY <1>1, <1>2 DEF ChannelInv, TypeOK, MVCCInv

\* Every call of a client is the simulation of some outcome.
LEMMA CallEndorses ==
  ASSUME NEW id \in TxIds, NEW c \in Clients, Call(id, c)
  PROVE \E o \in Outcomes(world, id) : Endorse(id, {o})
  BY OutcomeCases DEF Call, Endorse

\* A new transaction satisfies the invariant: what it has seen is present.
LEMMA EndorseKeeps ==
  ASSUME ChannelInv, NEW id \in TxIds, NEW o \in Outcomes(world, id), Endorse(id, {o})
  PROVE ChannelInv'
<1> DEFINE tx == [id |-> id, outcome |-> o, seen |-> [k \in o.reads |-> version[k]]]
<1>1. inflight' = inflight \cup {tx} /\ used' = used \cup {id}
      /\ world' = world /\ version' = version
  BY DEF Endorse
<1>2. IsWorld(world) /\ version \in [StateKeys -> Nat]
  BY DEF ChannelInv, TypeOK
<1>3. o.reads \subseteq StateKeys /\ Fits(o.key, o.value) /\ o \in OutcomeType
  <2>1. WellTyped(o)
    BY <1>2, OutcomeTyped
  <2>2. o = [reads |-> o.reads, key |-> o.key, value |-> o.value]
    BY <2>1 DEF WellTyped
  <2>3. o.key \in StateKeys /\ o.value \in Values
    BY <2>1, FitsIsTyped DEF WellTyped
  <2> QED BY <2>1, <2>2, <2>3 DEF WellTyped, OutcomeType
<1>4. tx.id = id /\ tx.outcome = o /\ tx.seen \in [o.reads -> Nat]
  BY <1>2, <1>3
<1>5. \A k \in o.reads : tx.seen[k] = version[k] /\ version[k] \in Nat
  BY <1>2, <1>3
<1> HIDE DEF tx
<1>6. TypeOK'
  <2>1. IsWorld(world)'
    BY <1>1, <1>2
  <2>2. \A q \in inflight' : q.id \in used' /\ q.outcome \in OutcomeType
                             /\ q.seen \in [q.outcome.reads -> Nat]
    BY <1>1, <1>3, <1>4 DEF ChannelInv, TypeOK
  <2> QED BY <1>1, <2>1, <2>2 DEF ChannelInv, TypeOK, OutcomeType
<1>7. MVCCInv'
  <2>1. ASSUME NEW q \in inflight'
        PROVE /\ \A k \in q.outcome.reads : q.seen[k] <= version'[k]
              /\ Valid(q)' => q.outcome \in Outcomes(world', q.id)
    <3>1. CASE q = tx
      BY <3>1, <1>1, <1>4, <1>5
    <3>2. CASE q \in inflight
      BY <3>2, <1>1 DEF ChannelInv, MVCCInv, Valid
    <3> QED BY <3>1, <3>2, <1>1
  <2> QED BY <2>1 DEF MVCCInv
<1>8. \A q \in inflight' : Fits(q.outcome.key, q.outcome.value)
  BY <1>1, <1>3, <1>4 DEF ChannelInv
<1> QED BY <1>6, <1>7, <1>8 DEF ChannelInv

\* A transaction that takes effect turns the versions of its readers stale,
\* and leaves what the others have read alone.
LEMMA CommitKeeps ==
  ASSUME ChannelInv, NEW tx \in inflight, Commit(tx)
  PROVE ChannelInv'
<1> DEFINE k0 == tx.outcome.key
<1>1. /\ world' = [world EXCEPT ![k0] = tx.outcome.value]
      /\ version' = [version EXCEPT ![k0] = @ + 1]
      /\ inflight' = inflight \ {tx} /\ used' = used
  BY DEF Commit
<1>2. Fits(k0, tx.outcome.value) /\ k0 \in StateKeys
  BY FitsIsTyped DEF ChannelInv
<1>3. version \in [StateKeys -> Nat] /\ DOMAIN world = StateKeys
  BY DEF ChannelInv, TypeOK, IsWorld
<1>4. /\ version' \in [StateKeys -> Nat]
      /\ version'[k0] = version[k0] + 1 /\ version[k0] \in Nat
      /\ \A k \in StateKeys \ {k0} : version'[k] = version[k] /\ world'[k] = world[k]
  BY <1>1, <1>2, <1>3
<1>5. IsWorld(world)'
  BY <1>1, <1>2, WorldStep DEF ChannelInv, TypeOK
<1> HIDE DEF k0
<1>6. TypeOK'
  BY <1>1, <1>4, <1>5 DEF ChannelInv, TypeOK, OutcomeType
<1>7. MVCCInv'
  <2>1. ASSUME NEW q \in inflight'
        PROVE /\ \A k \in q.outcome.reads : q.seen[k] <= version'[k]
              /\ Valid(q)' => q.outcome \in Outcomes(world', q.id)
    <3>1. q \in inflight /\ q.outcome.reads \subseteq StateKeys
          /\ q.seen \in [q.outcome.reads -> Nat]
      BY <1>1 DEF ChannelInv, TypeOK, OutcomeType
    <3>2. \A k \in q.outcome.reads : q.seen[k] <= version[k]
      BY <3>1 DEF ChannelInv, MVCCInv
    <3>3. \A k \in q.outcome.reads : q.seen[k] \in Nat /\ version[k] \in Nat
      BY <3>1, <1>3
    <3>4. \A k \in q.outcome.reads : q.seen[k] <= version'[k]
      BY <3>1, <3>2, <3>3, <1>4
    <3>5. ASSUME Valid(q)' PROVE q.outcome \in Outcomes(world', q.id)
      <4>1. \A k \in q.outcome.reads : q.seen[k] = version'[k]
        BY <3>5 DEF Valid
      <4>2. k0 \notin q.outcome.reads
        BY <4>1, <3>2, <3>3, <1>4
      <4>3. \A k \in q.outcome.reads : version'[k] = version[k] /\ world'[k] = world[k]
        BY <4>2, <3>1, <1>4
      <4>4. Valid(q)
        BY <4>1, <4>3 DEF Valid
      <4>5. q.outcome \in Outcomes(world, q.id)
        BY <4>4, <3>1 DEF ChannelInv, MVCCInv
      <4>6. Agree(world', world, q.outcome.reads)
        BY <4>3 DEF Agree
      <4> QED BY <4>5, <4>6, ReadsDecide
    <3> QED BY <3>4, <3>5
  <2> QED BY <2>1 DEF MVCCInv
<1> QED BY <1>1, <1>6, <1>7 DEF ChannelInv

LEMMA ChannelStep == ChannelInv /\ [Next]_vars => ChannelInv'
<1> SUFFICES ASSUME ChannelInv, [Next]_vars PROVE ChannelInv'
  OBVIOUS
<1>1. ASSUME NEW id \in TxIds, NEW c \in Clients, Call(id, c) PROVE ChannelInv'
  <2> PICK o \in Outcomes(world, id) : Endorse(id, {o})
    BY <1>1, CallEndorses
  <2> QED BY EndorseKeeps
<1>2. ASSUME NEW tx \in inflight, Commit(tx) PROVE ChannelInv'
  BY <1>2, CommitKeeps
<1>3. ASSUME NEW tx \in inflight, Drop(tx) PROVE ChannelInv'
  <2>1. inflight' \subseteq inflight /\ world' = world /\ version' = version /\ used' = used
    BY <1>3 DEF Drop
  <2>2. TypeOK'
    BY <2>1 DEF ChannelInv, TypeOK
  <2>3. MVCCInv'
    BY <2>1 DEF ChannelInv, MVCCInv, Valid
  <2> QED BY <2>1, <2>2, <2>3 DEF ChannelInv
<1>4. ASSUME UNCHANGED vars PROVE ChannelInv'
  BY <1>4 DEF vars, ChannelInv, TypeOK, MVCCInv, Valid
<1> QED BY <1>1, <1>2, <1>3, <1>4 DEF Next

\* The world state, the versions and the transactions under way have their types.
THEOREM ChannelInvariant == Spec => []ChannelInv
<1>1. Init => ChannelInv
  BY ChannelInit
<1>2. ChannelInv /\ [Next]_vars => ChannelInv'
  BY ChannelStep
<1> QED BY <1>1, <1>2, PTL DEF Spec

\* TypeOK holds of the channel, for any set of keys, clients and transactions.
THEOREM ChannelTypeCorrect == Spec => []TypeOK
<1>1. ChannelInv => TypeOK
  BY DEF ChannelInv
<1> QED BY <1>1, ChannelInvariant, PTL

\* What a step does to the world: the effect of one outcome, or nothing.
LEMMA StepIsSerial ==
  ASSUME ChannelInv, [Next]_vars
  PROVE \/ world' = world
        \/ \E id \in TxIds : \E o \in Outcomes(world, id) :
             world' = [world EXCEPT ![o.key] = o.value]
<1>1. ASSUME NEW id \in TxIds, NEW c \in Clients, Call(id, c) PROVE world' = world
  BY <1>1, CallEndorses DEF Endorse
<1>2. ASSUME NEW tx \in inflight, Commit(tx)
      PROVE \E id \in TxIds : \E o \in Outcomes(world, id) :
              world' = [world EXCEPT ![o.key] = o.value]
  BY <1>2 DEF Commit, ChannelInv, TypeOK, MVCCInv
<1>3. ASSUME NEW tx \in inflight, Drop(tx) PROVE world' = world
  BY <1>3 DEF Drop
<1>4. ASSUME UNCHANGED vars PROVE world' = world
  BY <1>4 DEF vars
<1> QED BY <1>1, <1>2, <1>3, <1>4 DEF Next

\* Serializable: whatever is simulated, delayed, reordered and lost, the
\* channel behaves as if each transaction ran when it took effect.
THEOREM ChannelIsSerial == Spec => Serializable
<1>1. Init => Serial!Init
  BY DEF Init, Serial!Init
<1>2. ChannelInv /\ [Next]_vars => [Serial!Next]_world
  BY StepIsSerial DEF Serial!Next
<1> QED BY <1>1, <1>2, ChannelInvariant, PTL DEF Spec, Serializable, Serial!Spec

----------------------------------------------------------------------------
(* What the contract makes of serial execution. *)

\* A key that is written again keeps its registration and is revoked.
LEMMA RevokedSupersedes ==
  ASSUME NEW w, IsWorld(w), NEW k \in AuthorityKeys, w[k] # None
  PROVE Supersedes([w[k] EXCEPT !.revoked = TRUE], w[k])
<1>1. w[k] \in WorkerKeyValues \cup EvidenceKeyValues \cup PolicyValues
  BY AuthorityCases DEF IsWorld
<1> QED BY <1>1 DEF Supersedes

\* No outcome takes back what the world says.
LEMMA OutcomeSupersedes ==
  ASSUME NEW w, IsWorld(w), NEW tx \in TxIds, NEW o \in Outcomes(w, tx), w[o.key] # None
  PROVE Supersedes(o.value, w[o.key])
<1>1. ASSUME NEW c \in Clients, NEW id \in Vendors, NEW t \in Stamps,
             o \in RegisterVendor(w, c, id, t)
      PROVE Supersedes(o.value, w[o.key])
  <2>1. o = [reads |-> {VendorKey(id)}, key |-> VendorKey(id),
             value |-> [at |-> t]]
        /\ o.reads = {VendorKey(id)} /\ o.key = VendorKey(id)
        /\ o.value = [at |-> t]
        /\ w[VendorKey(id)] = None
    BY <1>1, RegisterVendorIs
  <2> QED BY <2>1
<1>2. ASSUME NEW c \in Clients, NEW id \in WorkerKeys, NEW pub \in PublicKeys,
             NEW i \in Intervals,
             o \in RegisterWorkerKey(w, c, id, pub, i)
      PROVE Supersedes(o.value, w[o.key])
  <2>1. o = [reads |-> {WorkerKey(id)}, key |-> WorkerKey(id),
             value |-> [pub |-> pub, from |-> i.from, until |-> i.until, revoked |-> FALSE]]
        /\ o.reads = {WorkerKey(id)} /\ o.key = WorkerKey(id)
        /\ o.value = [pub |-> pub, from |-> i.from, until |-> i.until, revoked |-> FALSE]
        /\ w[WorkerKey(id)] = None
    BY <1>2, RegisterWorkerKeyIs
  <2> QED BY <2>1
<1>3. ASSUME NEW c \in Clients, NEW id \in EvidenceKeys, NEW pub \in PublicKeys,
             NEW i \in Intervals, NEW role \in Roles,
             o \in RegisterEvidenceKey(w, c, id, pub, i, role)
      PROVE Supersedes(o.value, w[o.key])
  <2>1. o = [reads |-> {EvidenceKey(id)}, key |-> EvidenceKey(id),
             value |-> [pub |-> pub, from |-> i.from, until |-> i.until, revoked |-> FALSE,
                 role |-> role]]
        /\ o.reads = {EvidenceKey(id)} /\ o.key = EvidenceKey(id)
        /\ o.value = [pub |-> pub, from |-> i.from, until |-> i.until, revoked |-> FALSE,
            role |-> role]
        /\ w[EvidenceKey(id)] = None
    BY <1>3, RegisterEvidenceKeyIs
  <2> QED BY <2>1
<1>4. ASSUME NEW c \in Clients, NEW id \in Policies, NEW i \in Intervals,
             o \in RegisterPolicyDigest(w, c, id, i)
      PROVE Supersedes(o.value, w[o.key])
  <2>1. o = [reads |-> {PolicyKey(id)}, key |-> PolicyKey(id),
             value |-> [from |-> i.from, until |-> i.until, revoked |-> FALSE]]
        /\ o.reads = {PolicyKey(id)} /\ o.key = PolicyKey(id)
        /\ o.value = [from |-> i.from, until |-> i.until, revoked |-> FALSE]
        /\ w[PolicyKey(id)] = None
    BY <1>4, RegisterPolicyDigestIs
  <2> QED BY <2>1
<1>5. ASSUME NEW c \in Clients, NEW k \in AuthorityKeys,
             o \in Revoke(w, c, k)
      PROVE Supersedes(o.value, w[o.key])
  <2>1. o = [reads |-> {k}, key |-> k,
             value |-> [w[k] EXCEPT !.revoked = TRUE]]
        /\ o.reads = {k} /\ o.key = k
        /\ o.value = [w[k] EXCEPT !.revoked = TRUE]
    BY <1>5, RevokeIs
  <2> QED BY <2>1, RevokedSupersedes
<1>6. ASSUME NEW c \in Clients,
             o \in EnableEvidenceOnly(c)
      PROVE Supersedes(o.value, w[o.key])
  <2>1. o = [reads |-> {}, key |-> ModeKey,
             value |-> [evidenceOnly |-> TRUE]]
        /\ o.reads = {} /\ o.key = ModeKey
        /\ o.value = [evidenceOnly |-> TRUE]
    BY <1>6, EnableEvidenceOnlyIs
  <2>2. w[ModeKey] = [evidenceOnly |-> TRUE]
    BY <2>1 DEF IsWorld, ModeValues
  <2> QED BY <2>1, <2>2 DEF Supersedes
<1>7. ASSUME NEW c \in Clients, NEW x \in HardenedReceipts, NEW t \in Stamps,
             o \in RecordHardened(w, c, x, t, tx)
      PROVE Supersedes(o.value, w[o.key])
  <2>1. o = [reads |-> {ModeKey, WorkerKey(x.key), RecordKey(x.record)},
        key |-> RecordKey(x.record),
             value |-> [version |-> "v1", receipt |-> x, at |-> t, tx |-> tx]]
        /\ o.reads = {ModeKey, WorkerKey(x.key),
            RecordKey(x.record)} /\ o.key = RecordKey(x.record)
        /\ o.value = [version |-> "v1", receipt |-> x, at |-> t, tx |-> tx]
        /\ w[RecordKey(x.record)] = None
    BY <1>7, RecordHardenedIs
  <2> QED BY <2>1
<1>8. ASSUME NEW c \in Clients, NEW x \in EvidenceReceipts, NEW t \in Stamps,
             o \in RecordEvidence(w, c, x, t, tx)
      PROVE Supersedes(o.value, w[o.key])
  <2>1. o = [reads |-> {EvidenceKey(x.key), PolicyKey(x.policy), RecordKey(x.record)},
        key |-> RecordKey(x.record),
             value |-> [version |-> "v2", receipt |-> x, at |-> t, tx |-> tx]]
        /\ o.reads = {EvidenceKey(x.key), PolicyKey(x.policy),
            RecordKey(x.record)} /\ o.key = RecordKey(x.record)
        /\ o.value = [version |-> "v2", receipt |-> x, at |-> t, tx |-> tx]
        /\ w[RecordKey(x.record)] = None
    BY <1>8, RecordEvidenceIs
  <2> QED BY <2>1
<1> QED BY <1>1, <1>2, <1>3, <1>4, <1>5, <1>6, <1>7, <1>8, OutcomeCases

LEMMA WorldForward ==
  ASSUME NEW w, IsWorld(w), NEW tx \in TxIds, NEW o \in Outcomes(w, tx)
  PROVE \A k \in StateKeys : w[k] # None => Supersedes([w EXCEPT ![o.key] = o.value][k], w[k])
<1> SUFFICES ASSUME NEW k \in StateKeys, w[k] # None
             PROVE Supersedes([w EXCEPT ![o.key] = o.value][k], w[k])
  OBVIOUS
<1>1. DOMAIN w = StateKeys
  BY DEF IsWorld
<1>2. CASE k = o.key
  BY <1>1, <1>2, OutcomeSupersedes
<1>3. CASE k # o.key
  BY <1>1, <1>3 DEF Supersedes
<1> QED BY <1>2, <1>3

\* ForwardOnly: records, keys, policies and vendors stay as registered, what
\* is revoked stays revoked, the switch is never undone.
THEOREM ForwardOnlyHolds == Spec => ForwardOnly
<1>1. ASSUME ChannelInv, [Next]_vars
      PROVE [\A k \in StateKeys : world[k] # None => Supersedes(world'[k], world[k])]_vars
  <2>1. CASE world' = world
    BY <2>1 DEF Supersedes
  <2>2. ASSUME NEW id \in TxIds, NEW o \in Outcomes(world, id),
               world' = [world EXCEPT ![o.key] = o.value]
        PROVE \A k \in StateKeys : world[k] # None => Supersedes(world'[k], world[k])
    <3>1. IsWorld(world)
      BY <1>1 DEF ChannelInv, TypeOK
    <3>2. \A k \in StateKeys : world[k] # None =>
            Supersedes([world EXCEPT ![o.key] = o.value][k], world[k])
      BY <3>1, WorldForward
    <3> QED BY <3>2, <2>2
  <2> QED BY <1>1, <2>1, <2>2, StepIsSerial
<1> QED BY <1>1, ChannelInvariant, PTL DEF Spec, ForwardOnly

\* Where a record comes from: one of the two contracts accepted its receipt.
FromHardened(w, tx, r, v) == \E x \in HardenedReceipts, t \in Stamps :
  /\ x.record = r /\ w[ModeKey] = None /\ w[WorkerKey(x.key)] # None
  /\ HardenedBy(x, w[WorkerKey(x.key)], t)
  /\ v = [version |-> "v1", receipt |-> x, at |-> t, tx |-> tx]

FromEvidence(w, tx, r, v) == \E x \in EvidenceReceipts, t \in Stamps :
  /\ x.record = r /\ w[EvidenceKey(x.key)] # None /\ w[PolicyKey(x.policy)] # None
  /\ EvidencedBy(x, w[EvidenceKey(x.key)], w[PolicyKey(x.policy)], t)
  /\ v = [version |-> "v2", receipt |-> x, at |-> t, tx |-> tx]

LEMMA RecordOrigin ==
  ASSUME NEW w, IsWorld(w), NEW tx \in TxIds, NEW o \in Outcomes(w, tx),
         NEW r \in Records, o.key = RecordKey(r)
  PROVE FromHardened(w, tx, r, o.value) \/ FromEvidence(w, tx, r, o.value)
<1>1. ASSUME NEW c \in Clients, NEW id \in Vendors, NEW t \in Stamps,
             o \in RegisterVendor(w, c, id, t)
      PROVE FALSE
  <2>1. o = [reads |-> {VendorKey(id)}, key |-> VendorKey(id),
             value |-> [at |-> t]]
        /\ o.reads = {VendorKey(id)} /\ o.key = VendorKey(id)
        /\ o.value = [at |-> t]
    BY <1>1, RegisterVendorIs
  <2> QED BY <2>1, KeysDiffer
<1>2. ASSUME NEW c \in Clients, NEW id \in WorkerKeys, NEW pub \in PublicKeys,
             NEW i \in Intervals,
             o \in RegisterWorkerKey(w, c, id, pub, i)
      PROVE FALSE
  <2>1. o = [reads |-> {WorkerKey(id)}, key |-> WorkerKey(id),
             value |-> [pub |-> pub, from |-> i.from, until |-> i.until, revoked |-> FALSE]]
        /\ o.reads = {WorkerKey(id)} /\ o.key = WorkerKey(id)
        /\ o.value = [pub |-> pub, from |-> i.from, until |-> i.until, revoked |-> FALSE]
    BY <1>2, RegisterWorkerKeyIs
  <2> QED BY <2>1, KeysDiffer
<1>3. ASSUME NEW c \in Clients, NEW id \in EvidenceKeys, NEW pub \in PublicKeys,
             NEW i \in Intervals, NEW role \in Roles,
             o \in RegisterEvidenceKey(w, c, id, pub, i, role)
      PROVE FALSE
  <2>1. o = [reads |-> {EvidenceKey(id)}, key |-> EvidenceKey(id),
             value |-> [pub |-> pub, from |-> i.from, until |-> i.until, revoked |-> FALSE,
                 role |-> role]]
        /\ o.reads = {EvidenceKey(id)} /\ o.key = EvidenceKey(id)
        /\ o.value = [pub |-> pub, from |-> i.from, until |-> i.until, revoked |-> FALSE,
            role |-> role]
    BY <1>3, RegisterEvidenceKeyIs
  <2> QED BY <2>1, KeysDiffer
<1>4. ASSUME NEW c \in Clients, NEW id \in Policies, NEW i \in Intervals,
             o \in RegisterPolicyDigest(w, c, id, i)
      PROVE FALSE
  <2>1. o = [reads |-> {PolicyKey(id)}, key |-> PolicyKey(id),
             value |-> [from |-> i.from, until |-> i.until, revoked |-> FALSE]]
        /\ o.reads = {PolicyKey(id)} /\ o.key = PolicyKey(id)
        /\ o.value = [from |-> i.from, until |-> i.until, revoked |-> FALSE]
    BY <1>4, RegisterPolicyDigestIs
  <2> QED BY <2>1, KeysDiffer
<1>5. ASSUME NEW c \in Clients, NEW k \in AuthorityKeys,
             o \in Revoke(w, c, k)
      PROVE FALSE
  <2>1. o = [reads |-> {k}, key |-> k,
             value |-> [w[k] EXCEPT !.revoked = TRUE]]
        /\ o.reads = {k} /\ o.key = k
        /\ o.value = [w[k] EXCEPT !.revoked = TRUE]
    BY <1>5, RevokeIs
  <2> QED BY <2>1, AuthorityCases, KeysDiffer
<1>6. ASSUME NEW c \in Clients,
             o \in EnableEvidenceOnly(c)
      PROVE FALSE
  <2>1. o = [reads |-> {}, key |-> ModeKey,
             value |-> [evidenceOnly |-> TRUE]]
        /\ o.reads = {} /\ o.key = ModeKey
        /\ o.value = [evidenceOnly |-> TRUE]
    BY <1>6, EnableEvidenceOnlyIs
  <2> QED BY <2>1, KeysDiffer
<1>7. ASSUME NEW c \in Clients, NEW x \in HardenedReceipts, NEW t \in Stamps,
             o \in RecordHardened(w, c, x, t, tx)
      PROVE FromHardened(w, tx, r, o.value)
  <2>1. o = [reads |-> {ModeKey, WorkerKey(x.key), RecordKey(x.record)},
        key |-> RecordKey(x.record),
             value |-> [version |-> "v1", receipt |-> x, at |-> t, tx |-> tx]]
        /\ o.reads = {ModeKey, WorkerKey(x.key),
            RecordKey(x.record)} /\ o.key = RecordKey(x.record)
        /\ o.value = [version |-> "v1", receipt |-> x, at |-> t, tx |-> tx]
        /\ w[ModeKey] = None
        /\ w[WorkerKey(x.key)] # None
        /\ HardenedBy(x, w[WorkerKey(x.key)], t)
    BY <1>7, RecordHardenedIs
  <2>2. x.record = r
    BY <2>1 DEF RecordKey
  <2> QED BY <2>1, <2>2 DEF FromHardened
<1>8. ASSUME NEW c \in Clients, NEW x \in EvidenceReceipts, NEW t \in Stamps,
             o \in RecordEvidence(w, c, x, t, tx)
      PROVE FromEvidence(w, tx, r, o.value)
  <2>1. o = [reads |-> {EvidenceKey(x.key), PolicyKey(x.policy), RecordKey(x.record)},
        key |-> RecordKey(x.record),
             value |-> [version |-> "v2", receipt |-> x, at |-> t, tx |-> tx]]
        /\ o.reads = {EvidenceKey(x.key), PolicyKey(x.policy),
            RecordKey(x.record)} /\ o.key = RecordKey(x.record)
        /\ o.value = [version |-> "v2", receipt |-> x, at |-> t, tx |-> tx]
        /\ w[EvidenceKey(x.key)] # None
        /\ w[PolicyKey(x.policy)] # None
        /\ EvidencedBy(x, w[EvidenceKey(x.key)], w[PolicyKey(x.policy)], t)
    BY <1>8, RecordEvidenceIs
  <2>2. x.record = r
    BY <2>1 DEF RecordKey
  <2> QED BY <2>1, <2>2 DEF FromEvidence
<1> QED BY <1>1, <1>2, <1>3, <1>4, <1>5, <1>6, <1>7, <1>8, OutcomeCases

\* RevocationHolds: no record under a key or policy revoked by then, no v1
\* record after the switch, however long before it was endorsed.
THEOREM RevocationHoldsAlways == Spec => RevocationHolds
<1>1. ASSUME ChannelInv, [Next]_vars, NEW r \in Records,
             world'[RecordKey(r)] # world[RecordKey(r)]
      PROVE ~Barred(world, world'[RecordKey(r)])
  <2>1. IsWorld(world) /\ RecordKey(r) \in StateKeys /\ DOMAIN world = StateKeys
    BY <1>1, KeysAreStateKeys DEF ChannelInv, TypeOK, IsWorld
  <2> PICK id \in TxIds : \E o \in Outcomes(world, id) :
          world' = [world EXCEPT ![o.key] = o.value]
    BY <1>1, StepIsSerial
  <2>2. PICK o \in Outcomes(world, id) : world' = [world EXCEPT ![o.key] = o.value]
    OBVIOUS
  <2>3. o.key = RecordKey(r) /\ world'[RecordKey(r)] = o.value
    BY <1>1, <2>1, <2>2
  <2>4. FromHardened(world, id, r, o.value) \/ FromEvidence(world, id, r, o.value)
    BY <2>1, <2>3, RecordOrigin
  <2>5. ASSUME NEW v, FromHardened(world, id, r, v) PROVE ~Barred(world, v)
    <3>1. PICK x \in HardenedReceipts, t \in Stamps :
            /\ world[ModeKey] = None /\ HardenedBy(x, world[WorkerKey(x.key)], t)
            /\ v = [version |-> "v1", receipt |-> x, at |-> t, tx |-> id]
      BY <2>5 DEF FromHardened
    <3>2. v.version = "v1" /\ v.receipt = x
      BY <3>1
    <3>3. ~world[WorkerKey(x.key)].revoked
      BY <3>1 DEF HardenedBy, Current
    <3> QED BY <3>1, <3>2, <3>3 DEF Barred
  <2>6. ASSUME NEW v, FromEvidence(world, id, r, v) PROVE ~Barred(world, v)
    <3>1. PICK x \in EvidenceReceipts, t \in Stamps :
            /\ EvidencedBy(x, world[EvidenceKey(x.key)], world[PolicyKey(x.policy)], t)
            /\ v = [version |-> "v2", receipt |-> x, at |-> t, tx |-> id]
      BY <2>6 DEF FromEvidence
    <3>2. v.version = "v2" /\ v.receipt = x
      BY <3>1
    <3>3. ~world[EvidenceKey(x.key)].revoked /\ ~world[PolicyKey(x.policy)].revoked
      BY <3>1 DEF EvidencedBy, Current
    <3> QED BY <3>2, <3>3 DEF Barred
  <2> QED BY <2>3, <2>4, <2>5, <2>6
<1>2. ChannelInv /\ [Next]_vars =>
        [\A r \in Records : world'[RecordKey(r)] # world[RecordKey(r)]
                              => ~Barred(world, world'[RecordKey(r)])]_vars
  BY <1>1
<1> QED BY <1>2, ChannelInvariant, PTL DEF Spec, RevocationHolds

\* A later value of a key or a policy certifies what the earlier one did.
LEMMA WorkerKeyLasts ==
  ASSUME NEW old \in WorkerKeyValues, NEW new, Supersedes(new, old)
  PROVE new # None /\ new.pub = old.pub /\ new.from = old.from /\ new.until = old.until
<1>1. new \in WorkerKeyValues
      /\ new.pub = old.pub /\ new.from = old.from /\ new.until = old.until
  BY DEF Supersedes, WorkerKeyValues
<1> QED BY <1>1, ChaincodeAssumption DEF Values

LEMMA EvidenceKeyLasts ==
  ASSUME NEW old \in EvidenceKeyValues, NEW new, Supersedes(new, old)
  PROVE new # None /\ new.pub = old.pub /\ new.role = old.role
        /\ new.from = old.from /\ new.until = old.until
<1>1. new \in EvidenceKeyValues /\ new.pub = old.pub /\ new.role = old.role
      /\ new.from = old.from /\ new.until = old.until
  BY DEF Supersedes, EvidenceKeyValues
<1> QED BY <1>1, ChaincodeAssumption DEF Values

LEMMA PolicyLasts ==
  ASSUME NEW old \in PolicyValues, NEW new, Supersedes(new, old)
  PROVE new # None /\ new.from = old.from /\ new.until = old.until
<1>1. new \in PolicyValues /\ new.from = old.from /\ new.until = old.until
  BY DEF Supersedes, PolicyValues
<1> QED BY <1>1, ChaincodeAssumption DEF Values

LEMMA BackedLasts ==
  ASSUME NEW w, IsWorld(w), NEW u, NEW e \in RecordValues, Backed(w, e),
         \A k \in StateKeys : w[k] # None => Supersedes(u[k], w[k])
  PROVE Backed(u, e)
<1> DEFINE x == e.receipt
<1>1. CASE e.version = "v1"
  <2>1. x \in HardenedReceipts /\ x.key \in WorkerKeys
    <3>1. x \in HardenedReceipts
      BY <1>1 DEF RecordValues
    <3> QED BY <3>1, ChaincodeAssumption
  <2> DEFINE k == WorkerKey(x.key)
  <2>2. w[k] # None /\ x.signer = w[k].pub /\ Dated(x, w[k], e.at)
    BY <1>1 DEF Backed
  <2>3. w[k] \in WorkerKeyValues /\ Supersedes(u[k], w[k])
    BY <2>1, <2>2, KeysAreStateKeys DEF IsWorld
  <2>4. u[k] # None /\ u[k].pub = w[k].pub /\ u[k].from = w[k].from /\ u[k].until = w[k].until
    BY <2>3, WorkerKeyLasts
  <2>5. x.signer = u[k].pub /\ Dated(x, u[k], e.at)
    BY <2>2, <2>4 DEF Dated
  <2> QED BY <1>1, <2>4, <2>5 DEF Backed
<1>2. CASE e.version = "v2"
  <2>1. x \in EvidenceReceipts /\ x.key \in EvidenceKeys /\ x.policy \in Policies
    <3>1. x \in EvidenceReceipts
      BY <1>2 DEF RecordValues
    <3> QED BY <3>1, ChaincodeAssumption
  <2> DEFINE k == EvidenceKey(x.key)
             p == PolicyKey(x.policy)
  <2>2. /\ w[k] # None /\ x.signer = w[k].pub /\ w[k].role = "decision"
        /\ Dated(x, w[k], e.at)
        /\ w[p] # None /\ w[p].from <= x.issued /\ w[p].from <= e.at /\ e.at < w[p].until
    BY <1>2 DEF Backed
  <2>3. /\ w[k] \in EvidenceKeyValues /\ Supersedes(u[k], w[k])
        /\ w[p] \in PolicyValues /\ Supersedes(u[p], w[p])
    BY <2>1, <2>2, KeysAreStateKeys DEF IsWorld
  <2>4. /\ u[k] # None /\ u[k].pub = w[k].pub /\ u[k].role = w[k].role
        /\ u[k].from = w[k].from /\ u[k].until = w[k].until
    BY <2>3, EvidenceKeyLasts
  <2>5. u[p] # None /\ u[p].from = w[p].from /\ u[p].until = w[p].until
    BY <2>3, PolicyLasts
  <2>6. x.signer = u[k].pub /\ u[k].role = "decision"
        /\ Dated(x, u[k], e.at)
    BY <2>2, <2>4 DEF Dated
  <2>7. u[p].from <= x.issued /\ u[p].from <= e.at /\ e.at < u[p].until
    BY <2>2, <2>5
  <2> QED BY <1>2, <2>4, <2>5, <2>6, <2>7 DEF Backed
<1>3. e.version \in {"v1", "v2"}
  BY DEF RecordValues
<1> QED BY <1>1, <1>2, <1>3

\* A record is backed when it is written.
LEMMA NewRecordBacked ==
  ASSUME NEW w, IsWorld(w), NEW tx, NEW r, NEW v,
         FromHardened(w, tx, r, v) \/ FromEvidence(w, tx, r, v)
  PROVE v.receipt.record = r /\ Backed(w, v)
<1>1. CASE FromHardened(w, tx, r, v)
  <2>1. PICK x \in HardenedReceipts, t \in Stamps :
          /\ x.record = r /\ w[WorkerKey(x.key)] # None
          /\ HardenedBy(x, w[WorkerKey(x.key)], t)
          /\ v = [version |-> "v1", receipt |-> x, at |-> t, tx |-> tx]
    BY <1>1 DEF FromHardened
  <2>2. v.version = "v1" /\ v.receipt = x /\ v.at = t
    BY <2>1
  <2>3. "v1" # "v2"
    OBVIOUS
  <2> QED BY <2>1, <2>2, <2>3 DEF HardenedBy, Current, Timely, Dated, Backed
<1>2. CASE FromEvidence(w, tx, r, v)
  <2>1. PICK x \in EvidenceReceipts, t \in Stamps :
          /\ x.record = r /\ w[EvidenceKey(x.key)] # None /\ w[PolicyKey(x.policy)] # None
          /\ EvidencedBy(x, w[EvidenceKey(x.key)], w[PolicyKey(x.policy)], t)
          /\ v = [version |-> "v2", receipt |-> x, at |-> t, tx |-> tx]
    BY <1>2 DEF FromEvidence
  <2>2. v.version = "v2" /\ v.receipt = x /\ v.at = t
    BY <2>1
  <2> QED BY <2>1, <2>2 DEF EvidencedBy, Current, Timely, Dated, Backed
<1> QED BY <1>1, <1>2

\* RecordsVerifiable: today's keys and policies back every record there is,
\* through any races of registrations, revocations and submissions.
THEOREM RecordsVerifiableHolds == Spec => []RecordsVerifiable
<1>1. Init => RecordsVerifiable
  <2> SUFFICES ASSUME Init PROVE RecordsVerifiable
    OBVIOUS
  <2>1. \A r \in Records : world[RecordKey(r)] = None
    BY KeysAreStateKeys DEF Init, EmptyWorld
  <2> QED BY <2>1 DEF RecordsVerifiable
<1>2. ASSUME ChannelInv, RecordsVerifiable, [Next]_vars PROVE RecordsVerifiable'
  <2>1. CASE world' = world
    BY <1>2, <2>1 DEF RecordsVerifiable
  <2>2. ASSUME NEW id \in TxIds, NEW o \in Outcomes(world, id),
               world' = [world EXCEPT ![o.key] = o.value]
        PROVE RecordsVerifiable'
    <3>1. IsWorld(world) /\ DOMAIN world = StateKeys
      BY <1>2 DEF ChannelInv, TypeOK, IsWorld
    <3>2. \A k \in StateKeys : world[k] # None => Supersedes(world'[k], world[k])
      <4>1. \A k \in StateKeys : world[k] # None =>
              Supersedes([world EXCEPT ![o.key] = o.value][k], world[k])
        BY <3>1, WorldForward
      <4> QED BY <4>1, <2>2
    <3>3. IsWorld(world)'
      BY <1>2, ChannelStep DEF ChannelInv, TypeOK
    <3>4. ASSUME NEW r \in Records, world'[RecordKey(r)] # None
          PROVE /\ world'[RecordKey(r)].receipt.record = r
                /\ Backed(world', world'[RecordKey(r)])
      <4>1. RecordKey(r) \in StateKeys /\ world'[RecordKey(r)] \in RecordValues
        BY <3>3, <3>4, KeysAreStateKeys DEF IsWorld
      <4>2. /\ world'[RecordKey(r)].receipt.record = r
            /\ Backed(world, world'[RecordKey(r)])
        <5>1. CASE o.key = RecordKey(r)
          <6>1. world'[RecordKey(r)] = o.value
            BY <2>2, <3>1, <4>1, <5>1
          <6>2. FromHardened(world, id, r, o.value) \/ FromEvidence(world, id, r, o.value)
            BY <3>1, <5>1, RecordOrigin
          <6> QED BY <6>1, <6>2, <3>1, NewRecordBacked
        <5>2. CASE o.key # RecordKey(r)
          <6>1. world'[RecordKey(r)] = world[RecordKey(r)]
            BY <2>2, <3>1, <4>1, <5>2
          <6> QED BY <6>1, <3>4, <1>2 DEF RecordsVerifiable
        <5> QED BY <5>1, <5>2
      <4>3. Backed(world', world'[RecordKey(r)])
        BY <3>1, <3>2, <4>1, <4>2, BackedLasts
      <4> QED BY <4>2, <4>3
    <3> QED BY <3>4 DEF RecordsVerifiable
  <2> QED BY <1>2, <2>1, <2>2, StepIsSerial
<1> QED BY <1>1, <1>2, ChannelInvariant, PTL DEF Spec

============================================================================
