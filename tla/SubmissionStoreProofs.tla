----------------------- MODULE SubmissionStoreProofs -----------------------
(***************************************************************************)
(* Lemmas about the store's transactions, whoever calls them: each keeps   *)
(* the shape of the tables, and each keeps the outbox in step with the     *)
(* submissions.                                                            *)
(***************************************************************************)
EXTENDS SubmissionStore, TLAPS

\* Initially all tables are empty and of their declared shape.
LEMMA StoreInitType == StoreInit => StoreTypeOK
BY StoreAssumption DEF StoreInit, StoreTypeOK, States

LEMMA AdvanceType ==
  ASSUME StoreTypeOK, NEW r \in Records, NEW s \in States, Advance(r, s)
  PROVE  state' \in [Records -> States] /\ version' \in [Records -> Nat]
BY DEF Advance, StoreTypeOK

LEMMA EventType ==
  ASSUME StoreTypeOK, NEW r \in Records, NEW k \in EventKinds, Event(r, k)
  PROVE  audit' \in [Records -> Seq(EventKinds)]
BY DEF Event, StoreTypeOK

\* ingest keeps the tables well typed.
LEMMA IngestType ==
  ASSUME StoreTypeOK, NEW r \in Records, NEW d \in Documents, NEW c \in Ciphers, Ingest(r, d, c)
  PROVE  StoreTypeOK'
<1>1. digests' \in [Documents -> Admissions \cup {None}]
  BY DEF Ingest, Admissions, StoreTypeOK
<1>2. state' \in [Records -> States] /\ version' \in [Records -> Nat]
  BY AdvanceType DEF Ingest, States
<1>3. audit' \in [Records -> Seq(EventKinds)]
  BY EventType DEF Ingest, EventKinds
<1> QED BY <1>1, <1>2, <1>3 DEF Ingest, StoreTypeOK

\* claim keeps the tables well typed.
LEMMA ClaimType ==
  ASSUME StoreTypeOK, NEW r \in Records, Claim(r)
  PROVE  StoreTypeOK'
<1>1. lease' \in [Records -> Nat]
  BY StoreAssumption DEF Claim, SetLease, StoreTypeOK
<1>2. state' \in [Records -> States] /\ version' \in [Records -> Nat]
  BY AdvanceType DEF Claim, States
<1>3. audit' \in [Records -> Seq(EventKinds)]
  BY EventType DEF Claim, EventKinds
<1> QED BY <1>1, <1>2, <1>3 DEF Claim, StoreTypeOK

\* prepare keeps the tables well typed.
LEMMA PrepareType ==
  ASSUME StoreTypeOK, NEW r \in Records, NEW v \in Nat, NEW p \in Payloads, Prepare(r, v, p)
  PROVE  StoreTypeOK'
<1>1. outbox' \in [Records -> OutboxRows \cup {None}]
  BY DEF Prepare, OutboxRows, StoreTypeOK
<1>2. state' \in [Records -> States] /\ version' \in [Records -> Nat]
  BY AdvanceType DEF Prepare, States
<1>3. audit' \in [Records -> Seq(EventKinds)]
  BY EventType DEF Prepare, EventKinds
<1> QED BY <1>1, <1>2, <1>3 DEF Prepare, SetLease, StoreTypeOK

\* finish keeps the tables well typed when the record has an outbox row.
LEMMA FinishType ==
  ASSUME StoreTypeOK, NEW r \in Records, NEW s \in Nat, NEW tx \in TxIds, NEW p \in Payloads,
         outbox[r] # None, Finish(r, s, tx, p)
  PROVE  StoreTypeOK'
<1>1. outbox' \in [Records -> OutboxRows \cup {None}]
  <2>1. [outbox[r] EXCEPT !.status = "CONFIRMED", !.tx = tx] \in OutboxRows
    BY DEF OutboxRows, StoreTypeOK
  <2> QED BY <2>1 DEF Finish, StoreTypeOK
<1>2. state' \in [Records -> States] /\ version' \in [Records -> Nat]
  BY AdvanceType DEF Finish, States
<1>3. audit' \in [Records -> Seq(EventKinds)]
  BY EventType DEF Finish, EventKinds
<1> QED BY <1>1, <1>2, <1>3 DEF Finish, StoreTypeOK

\* fail_processing keeps the tables well typed.
LEMMA FailType ==
  ASSUME StoreTypeOK, NEW r \in Records, NEW v \in Nat, FailProcessing(r, v)
  PROVE  StoreTypeOK'
<1>1. state' \in [Records -> States] /\ version' \in [Records -> Nat]
  BY AdvanceType DEF FailProcessing, States
<1>2. audit' \in [Records -> Seq(EventKinds)]
  BY EventType DEF FailProcessing, EventKinds
<1> QED BY <1>1, <1>2 DEF FailProcessing, SetLease, StoreTypeOK

\* recover_expired keeps the tables well typed.
LEMMA RecoverType ==
  ASSUME StoreTypeOK, RecoverExpired
  PROVE  StoreTypeOK'
BY DEF RecoverExpired, StoreTypeOK, States, EventKinds

----------------------------------------------------------------------------
\* With no outbox rows and no submissions, the two tables agree.
LEMMA StoreInitInStep == StoreInit => OutboxInStep
BY DEF StoreInit, OutboxInStep

\* ingest adds a submission that has no outbox row.
LEMMA IngestInStep ==
  ASSUME StoreTypeOK, OutboxInStep,
         NEW r \in Records, NEW d \in Documents, NEW c \in Ciphers, Ingest(r, d, c)
  PROVE  OutboxInStep'
BY DEF Ingest, IngestRefused, Exists, Advance, StoreTypeOK, OutboxInStep

\* claim leaves PREPARED and COMMITTED rows alone.
LEMMA ClaimInStep ==
  ASSUME StoreTypeOK, OutboxInStep, NEW r \in Records, Claim(r)
  PROVE  OutboxInStep'
BY DEF Claim, ClaimRefused, Advance, StoreTypeOK, OutboxInStep

\* prepare writes both rows, the outbox row at the version it moves to.
LEMMA PrepareInStep ==
  ASSUME StoreTypeOK, OutboxInStep,
         NEW r \in Records, NEW v \in Nat, NEW p \in Payloads, Prepare(r, v, p)
  PROVE  OutboxInStep'
<1> DEFINE row == [payload |-> p, snapshot |-> v + 1, status |-> "PENDING", tx |-> None]
<1>1. row # None
  BY NoRowAssumption DEF OutboxRows
<1>2. outbox'[r] = row /\ state'[r] = "PREPARED" /\ version'[r] = v + 1
  BY DEF Prepare, HoldsClaim, Advance, StoreTypeOK
<1>3. \A q \in Records \ {r} : outbox'[q] = outbox[q] /\ state'[q] = state[q] /\ version'[q] = version[q]
  BY DEF Prepare, Advance, StoreTypeOK
<1> QED BY <1>1, <1>2, <1>3 DEF OutboxInStep

\* finish confirms a pending row and moves its submission one version on.
LEMMA FinishInStep ==
  ASSUME StoreTypeOK, OutboxInStep,
         NEW r \in Records, NEW s \in Nat, NEW tx \in TxIds, NEW p \in Payloads,
         Finish(r, s, tx, p)
  PROVE  OutboxInStep'
<1>1. outbox[r] \in OutboxRows /\ version[r] = outbox[r].snapshot
  BY DEF Finish, FinishAllowed, OutboxInStep, StoreTypeOK
<1> DEFINE row == [outbox[r] EXCEPT !.status = "CONFIRMED", !.tx = tx]
<1>2. /\ row \in OutboxRows /\ row # None
      /\ row.snapshot = outbox[r].snapshot /\ row.status = "CONFIRMED" /\ row.tx = tx
  BY <1>1, NoRowAssumption DEF OutboxRows
<1>3. outbox'[r] = row /\ state'[r] = "COMMITTED" /\ version'[r] = version[r] + 1
  BY DEF Finish, Advance, StoreTypeOK
<1>4. \A q \in Records \ {r} : outbox'[q] = outbox[q] /\ state'[q] = state[q] /\ version'[q] = version[q]
  BY DEF Finish, Advance, StoreTypeOK
<1> HIDE DEF row
<1> QED BY <1>1, <1>2, <1>3, <1>4 DEF OutboxInStep

\* fail_processing touches PROCESSING rows only.
LEMMA FailInStep ==
  ASSUME StoreTypeOK, OutboxInStep, NEW r \in Records, NEW v \in Nat, FailProcessing(r, v)
  PROVE  OutboxInStep'
BY DEF FailProcessing, HoldsClaim, Advance, StoreTypeOK, OutboxInStep

\* recover_expired touches PROCESSING rows only.
LEMMA RecoverInStep ==
  ASSUME StoreTypeOK, OutboxInStep, RecoverExpired
  PROVE  OutboxInStep'
BY DEF RecoverExpired, Expired, StoreTypeOK, OutboxInStep

============================================================================
