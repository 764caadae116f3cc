------------------------- MODULE StoreClientsProofs -------------------------
(***************************************************************************)
(* What the store guarantees for every number of requests, documents,      *)
(* receipts and clients, and every lease and retention period.             *)
(***************************************************************************)
EXTENDS StoreClients, SubmissionStoreProofs, SequenceTheorems

\* Every claim ever granted lies at or below its row's present version.
ClaimsBelow == \A row \in claims : row.version <= version[row.record]

\* The inductive invariant behind FencedPrepare and OutboxInStep.
FenceInv == TypeOK /\ OutboxInStep /\ ClaimsBelow /\ FencedPrepare

\* The inductive invariant behind FencedFailure.
FailureInv == FenceInv /\ FencedFailure

\* The digest table still covers every admission younger than the retention
\* period: the inductive invariant behind ReplayWindow.
DigestCovers ==
  Retention > 0 =>
    \A a \in admitted :
      /\ a.at <= now
      /\ a.at > now - Retention =>
           digests[a.document] # None /\ digests[a.document].received >= a.at

----------------------------------------------------------------------------
LEMMA TypeInit == Init => TypeOK
BY StoreInitType DEF Init, TypeOK

LEMMA TypeStep == TypeOK /\ [Next]_vars => TypeOK'
<1> SUFFICES ASSUME TypeOK, [Next]_vars PROVE TypeOK'
  OBVIOUS
<1>1. ASSUME NEW r \in Records, NEW d \in Documents, NEW c \in Ciphers, ClientIngest(r, d, c)
      PROVE  TypeOK'
  <2>1. StoreTypeOK'
    BY <1>1, IngestType DEF ClientIngest, TypeOK
  <2>2. admitted' \subseteq AdmittedRows /\ claims' = claims /\ givenUp' = givenUp
    BY <1>1 DEF ClientIngest, AdmittedRows, TypeOK, StoreTypeOK
  <2> QED BY <2>1, <2>2 DEF TypeOK
<1>2. ASSUME NEW r \in Records, ClientClaim(r)
      PROVE  TypeOK'
  <2>1. StoreTypeOK'
    BY <1>2, ClaimType DEF ClientClaim, TypeOK
  <2>2. claims' \subseteq ClaimRows /\ admitted' = admitted /\ givenUp' = givenUp
    BY <1>2 DEF ClientClaim, ClaimRows, TypeOK, StoreTypeOK
  <2> QED BY <2>1, <2>2 DEF TypeOK
<1>3. ASSUME NEW row \in claims, NEW p \in Payloads, ClientPrepare(row, p)
      PROVE  TypeOK'
  <2>1. row.record \in Records /\ row.version \in Nat
    BY DEF ClaimRows, TypeOK
  <2> QED BY <1>3, <2>1, PrepareType DEF ClientPrepare, TypeOK
<1>4. ASSUME NEW row \in claims, ClientFail(row)
      PROVE  TypeOK'
  <2>1. row.record \in Records /\ row.version \in Nat
    BY DEF ClaimRows, TypeOK
  <2> QED BY <1>4, <2>1, FailType DEF ClientFail, TypeOK
<1>5. ASSUME NEW r \in Records, NEW tx \in TxIds, NEW p \in Payloads, ClientFinish(r, tx, p)
      PROVE  TypeOK'
  <2>1. outbox[r].snapshot \in Nat
    BY <1>5 DEF ClientFinish, OutboxRows, TypeOK, StoreTypeOK
  <2> QED BY <1>5, <2>1, FinishType DEF ClientFinish, TypeOK
<1>6. CASE ClientRecover
  BY <1>6, RecoverType DEF ClientRecover, TypeOK
<1>7. CASE Tick
  BY <1>7 DEF Tick, TypeOK, StoreTypeOK
<1>8. CASE UNCHANGED vars
  BY <1>8 DEF vars, storeVars, TypeOK, StoreTypeOK
<1> QED BY <1>1, <1>2, <1>3, <1>4, <1>5, <1>6, <1>7, <1>8 DEF Next

\* Every reachable state of the tables, the log and the clients' rows has its
\* declared shape (the columns of store.py's schema).
THEOREM TypeCorrect == Spec => []TypeOK
BY TypeInit, TypeStep, PTL DEF Spec

----------------------------------------------------------------------------
LEMMA FenceInit == Init => FenceInv
<1> SUFFICES ASSUME Init PROVE FenceInv
  OBVIOUS
<1>1. TypeOK /\ OutboxInStep
  BY TypeInit, StoreInitInStep DEF Init
<1>2. ClaimsBelow /\ FencedPrepare
  BY DEF Init, StoreInit, ClaimsBelow, FencedPrepare
<1> QED BY <1>1, <1>2 DEF FenceInv

LEMMA FenceStep == FenceInv /\ [Next]_vars => FenceInv'
<1> SUFFICES ASSUME FenceInv, [Next]_vars PROVE FenceInv'
  OBVIOUS
<1>0. TypeOK /\ StoreTypeOK /\ OutboxInStep /\ ClaimsBelow /\ FencedPrepare /\ TypeOK'
  BY TypeStep DEF FenceInv, TypeOK
<1>c. \A row \in claims : row \in ClaimRows /\ row.record \in Records /\ row.version \in Nat
  BY <1>0 DEF ClaimRows, TypeOK
<1>1. ASSUME NEW r \in Records, NEW d \in Documents, NEW c \in Ciphers, ClientIngest(r, d, c)
      PROVE  FenceInv'
  <2>1. OutboxInStep'
    BY <1>0, <1>1, IngestInStep DEF ClientIngest
  <2>2. claims' = claims /\ outbox' = outbox /\ \A q \in Records : version'[q] >= version[q]
    BY <1>0, <1>1 DEF ClientIngest, Ingest, Advance, StoreTypeOK
  <2>3. ClaimsBelow'
    BY <1>0, <1>c, <2>2 DEF ClaimsBelow, StoreTypeOK, TypeOK
  <2>4. FencedPrepare'
    BY <1>0, <2>2 DEF FencedPrepare
  <2> QED BY <1>0, <2>1, <2>3, <2>4 DEF FenceInv
<1>2. ASSUME NEW r \in Records, ClientClaim(r)
      PROVE  FenceInv'
  <2>1. OutboxInStep'
    BY <1>0, <1>2, ClaimInStep DEF ClientClaim
  <2>2. /\ claims' = claims \cup {[record |-> r, version |-> version[r] + 1]}
        /\ outbox' = outbox
        /\ version' = [version EXCEPT ![r] = @ + 1]
        /\ outbox[r] = None
    BY <1>0, <1>2 DEF ClientClaim, Claim, ClaimRefused, Advance, OutboxInStep
  <2>3. ClaimsBelow'
    BY <1>0, <1>c, <2>2 DEF ClaimsBelow, StoreTypeOK
  <2>4. FencedPrepare'
    BY <1>0, <2>2 DEF FencedPrepare
  <2> QED BY <1>0, <2>1, <2>3, <2>4 DEF FenceInv
<1>3. ASSUME NEW row \in claims, NEW p \in Payloads, ClientPrepare(row, p)
      PROVE  FenceInv'
  <2> DEFINE r == row.record
             new == [payload |-> p, snapshot |-> row.version + 1, status |-> "PENDING", tx |-> None]
  <2>0. r \in Records /\ row.version \in Nat /\ row = [record |-> r, version |-> row.version]
    BY <1>c DEF ClaimRows
  <2>1. OutboxInStep'
    BY <1>0, <1>3, <2>0, PrepareInStep DEF ClientPrepare
  <2>2. /\ claims' = claims
        /\ outbox' = [outbox EXCEPT ![r] = new]
        /\ version' = [version EXCEPT ![r] = @ + 1]
        /\ version[r] = row.version
    BY <1>3 DEF ClientPrepare, Prepare, Advance, HoldsClaim
  <2>3. ClaimsBelow'
    BY <1>0, <1>c, <2>0, <2>2 DEF ClaimsBelow, StoreTypeOK
  <2>4. \A other \in claims : other.record = r => other.version < new.snapshot
    BY <1>0, <1>c, <2>0, <2>2 DEF ClaimsBelow
  <2>5. new.snapshot - 1 = row.version
    BY <2>0
  <2>6. outbox'[r] = new /\ \A q \in Records \ {r} : outbox'[q] = outbox[q]
    BY <1>0, <2>0, <2>2 DEF StoreTypeOK
  <2>7. FencedPrepare'
    BY <1>0, <2>0, <2>2, <2>4, <2>5, <2>6 DEF FencedPrepare
  <2> QED BY <1>0, <2>1, <2>3, <2>7 DEF FenceInv
<1>4. ASSUME NEW row \in claims, ClientFail(row)
      PROVE  FenceInv'
  <2>1. OutboxInStep'
    BY <1>0, <1>c, <1>4, FailInStep DEF ClientFail
  <2>2. claims' = claims /\ outbox' = outbox /\ \A q \in Records : version'[q] >= version[q]
    BY <1>0, <1>4 DEF ClientFail, FailProcessing, Advance, StoreTypeOK
  <2>3. ClaimsBelow'
    BY <1>0, <1>c, <2>2 DEF ClaimsBelow, StoreTypeOK, TypeOK
  <2>4. FencedPrepare'
    BY <1>0, <2>2 DEF FencedPrepare
  <2> QED BY <1>0, <2>1, <2>3, <2>4 DEF FenceInv
<1>5. ASSUME NEW r \in Records, NEW tx \in TxIds, NEW p \in Payloads, ClientFinish(r, tx, p)
      PROVE  FenceInv'
  <2>0. outbox[r] \in OutboxRows /\ outbox[r].snapshot \in Nat
    BY <1>0, <1>5 DEF ClientFinish, OutboxRows, StoreTypeOK
  <2>1. OutboxInStep'
    BY <1>0, <1>5, <2>0, FinishInStep DEF ClientFinish
  <2> DEFINE new == [outbox[r] EXCEPT !.status = "CONFIRMED", !.tx = tx]
  <2>2. /\ claims' = claims
        /\ outbox' = [outbox EXCEPT ![r] = new]
        /\ \A q \in Records : version'[q] >= version[q]
    BY <1>0, <1>5 DEF ClientFinish, Finish, Advance, StoreTypeOK
  <2>3. ClaimsBelow'
    BY <1>0, <1>c, <2>2 DEF ClaimsBelow, StoreTypeOK, TypeOK
  <2>4. new.snapshot = outbox[r].snapshot
    BY <2>0 DEF OutboxRows
  <2>5. outbox'[r] = new /\ \A q \in Records \ {r} : outbox'[q] = outbox[q]
    BY <1>0, <2>2 DEF StoreTypeOK
  <2>6. outbox[r] # None
    BY <1>5 DEF ClientFinish
  <2> HIDE DEF new
  <2>7. FencedPrepare'
    BY <1>0, <2>2, <2>4, <2>5, <2>6 DEF FencedPrepare
  <2> QED BY <1>0, <2>1, <2>3, <2>7 DEF FenceInv
<1>6. CASE ClientRecover
  <2>1. OutboxInStep'
    BY <1>0, <1>6, RecoverInStep DEF ClientRecover
  <2>2. claims' = claims /\ outbox' = outbox /\ \A q \in Records : version'[q] >= version[q]
    BY <1>0, <1>6 DEF ClientRecover, RecoverExpired, StoreTypeOK
  <2>3. ClaimsBelow'
    BY <1>0, <1>c, <2>2 DEF ClaimsBelow, StoreTypeOK, TypeOK
  <2>4. FencedPrepare'
    BY <1>0, <2>2 DEF FencedPrepare
  <2> QED BY <1>0, <2>1, <2>3, <2>4 DEF FenceInv
<1>7. CASE Tick \/ UNCHANGED vars
  <2>1. UNCHANGED <<claims, outbox, version, state>>
    BY <1>7 DEF Tick, vars, storeVars
  <2>2. OutboxInStep' /\ ClaimsBelow' /\ FencedPrepare'
    BY <1>0, <2>1 DEF OutboxInStep, ClaimsBelow, FencedPrepare
  <2> QED BY <1>0, <2>2 DEF FenceInv
<1> QED BY <1>1, <1>2, <1>3, <1>4, <1>5, <1>6, <1>7 DEF Next

\* A stale worker never gets its receipt into the outbox: prepare's version
\* guard fences every claim but the last, however claims were recovered.
THEOREM FencedPrepareHolds == Spec => []FencedPrepare
<1>1. FenceInv => FencedPrepare
  BY DEF FenceInv
<1> QED BY <1>1, FenceInit, FenceStep, PTL DEF Spec

\* The submissions and outbox tables agree after every transaction.
THEOREM OutboxInStepHolds == Spec => []OutboxInStep
<1>1. FenceInv => OutboxInStep
  BY DEF FenceInv
<1> QED BY <1>1, FenceInit, FenceStep, PTL DEF Spec

----------------------------------------------------------------------------
(* Failures. *)

LEMMA FailureStep == FailureInv /\ [Next]_vars => FailureInv'
<1> SUFFICES ASSUME FailureInv, [Next]_vars PROVE FencedFailure'
  BY FenceStep DEF FailureInv
<1>0. TypeOK /\ StoreTypeOK /\ ClaimsBelow /\ FencedFailure
  BY DEF FailureInv, FenceInv, TypeOK
<1>c. /\ \A row \in claims : row.record \in Records /\ row.version \in Nat
      /\ \A row \in givenUp : row.record \in Records
  BY <1>0 DEF ClaimRows, TypeOK
\* Nobody else touches the record of a failure, and no claim of it is granted.
<1>s. ASSUME claims' = claims, givenUp' = givenUp,
             \A r \in Records : state[r] = "FAILED" => state'[r] = "FAILED"
      PROVE  FencedFailure'
  BY <1>0, <1>c, <1>s DEF FencedFailure
<1>1. ASSUME NEW r \in Records, NEW d \in Documents, NEW c \in Ciphers, ClientIngest(r, d, c)
      PROVE  FencedFailure'
  BY <1>0, <1>1, <1>s DEF ClientIngest, Ingest, IngestRefused, Exists, Advance, StoreTypeOK
<1>2. ASSUME NEW r \in Records, ClientClaim(r)
      PROVE  FencedFailure'
  <2>1. /\ claims' = claims \cup {[record |-> r, version |-> version[r] + 1]}
        /\ givenUp' = givenUp /\ state[r] = "INGESTED" /\ state' = [state EXCEPT ![r] = "PROCESSING"]
    BY <1>2 DEF ClientClaim, Claim, ClaimRefused, Advance
  <2>2. \A row \in givenUp : row.record # r /\ state'[row.record] = "FAILED"
    BY <1>0, <1>c, <2>1 DEF FencedFailure, StoreTypeOK
  <2> QED BY <1>0, <2>1, <2>2 DEF FencedFailure
<1>3. ASSUME NEW row \in claims, NEW p \in Payloads, ClientPrepare(row, p)
      PROVE  FencedFailure'
  BY <1>0, <1>3, <1>s, <1>c DEF ClientPrepare, Prepare, HoldsClaim, Advance, StoreTypeOK
<1>4. ASSUME NEW row \in claims, ClientFail(row)
      PROVE  FencedFailure'
  <2> DEFINE r == row.record
  <2>1. /\ claims' = claims /\ givenUp' = givenUp \cup {row}
        /\ state[r] = "PROCESSING" /\ version[r] = row.version
        /\ state' = [state EXCEPT ![r] = "FAILED"]
    BY <1>4 DEF ClientFail, FailProcessing, HoldsClaim, Advance
  <2>2. state'[r] = "FAILED" /\ \A q \in Records : state[q] = "FAILED" => state'[q] = "FAILED"
    BY <1>0, <1>c, <2>1 DEF StoreTypeOK
  <2>3. \A other \in claims : other.record = r => other.version <= row.version
    BY <1>0, <2>1 DEF ClaimsBelow
  <2> QED BY <1>0, <1>c, <2>1, <2>2, <2>3 DEF FencedFailure
<1>5. ASSUME NEW r \in Records, NEW tx \in TxIds, NEW p \in Payloads, ClientFinish(r, tx, p)
      PROVE  FencedFailure'
  BY <1>0, <1>5, <1>s DEF ClientFinish, Finish, FinishAllowed, Advance, StoreTypeOK
<1>6. CASE ClientRecover
  BY <1>0, <1>6, <1>s DEF ClientRecover, RecoverExpired, Expired
<1>7. CASE Tick \/ UNCHANGED vars
  BY <1>7, <1>s DEF Tick, vars, storeVars
<1> QED BY <1>1, <1>2, <1>3, <1>4, <1>5, <1>6, <1>7 DEF Next

\* A worker that lost its lease cannot fail the request its successor works on: what is
\* FAILED was given up under its last claim, however claims were recovered.
THEOREM FencedFailureHolds == Spec => []FencedFailure
<1>1. Init => FailureInv
  <2>1. Init => FencedFailure
    BY DEF Init, FencedFailure
  <2> QED BY <2>1, FenceInit DEF FailureInv
<1>2. FailureInv => FencedFailure
  BY DEF FailureInv
<1> QED BY <1>1, <1>2, FailureStep, PTL DEF Spec

----------------------------------------------------------------------------
(* The log.  Every transaction moves a row by exactly one logged event. *)

Kept(r) == state'[r] = state[r] /\ version'[r] = version[r] /\ audit'[r] = audit[r]

Logged(r) ==
  \E k \in EventKinds :
    state'[r] = StateAfter(k) /\ version'[r] = version[r] + 1 /\ audit'[r] = Append(audit[r], k)

\* A row that advances with its event is logged, and the others are kept.
LEMMA AdvanceLogged ==
  ASSUME StoreTypeOK, NEW r \in Records, NEW k \in EventKinds, Advance(r, StateAfter(k)), Event(r, k)
  PROVE  \A q \in Records : Kept(q) \/ Logged(q)
<1>1. state'[r] = StateAfter(k) /\ version'[r] = version[r] + 1 /\ audit'[r] = Append(audit[r], k)
  BY DEF Advance, Event, StoreTypeOK
<1>2. Logged(r)
  BY <1>1 DEF Logged
<1>3. \A q \in Records \ {r} : Kept(q)
  BY DEF Advance, Event, Kept, StoreTypeOK
<1> QED BY <1>2, <1>3

LEMMA LoggedStep == TypeOK /\ [Next]_vars => \A q \in Records : Kept(q) \/ Logged(q)
<1> SUFFICES ASSUME TypeOK, [Next]_vars PROVE \A q \in Records : Kept(q) \/ Logged(q)
  OBVIOUS
<1>0. StoreTypeOK
  BY DEF TypeOK
<1>1. ASSUME NEW r \in Records, NEW d \in Documents, NEW c \in Ciphers, ClientIngest(r, d, c)
      PROVE  \A q \in Records : Kept(q) \/ Logged(q)
  <2>1. Advance(r, StateAfter("INGESTED")) /\ Event(r, "INGESTED") /\ "INGESTED" \in EventKinds
    BY <1>1 DEF ClientIngest, Ingest, StateAfter, EventKinds
  <2> QED BY <1>0, <2>1, AdvanceLogged
<1>2. ASSUME NEW r \in Records, ClientClaim(r)
      PROVE  \A q \in Records : Kept(q) \/ Logged(q)
  <2>1. Advance(r, StateAfter("PROCESSING")) /\ Event(r, "PROCESSING") /\ "PROCESSING" \in EventKinds
    BY <1>2 DEF ClientClaim, Claim, StateAfter, EventKinds
  <2> QED BY <1>0, <2>1, AdvanceLogged
<1>3. ASSUME NEW row \in claims, NEW p \in Payloads, ClientPrepare(row, p)
      PROVE  \A q \in Records : Kept(q) \/ Logged(q)
  <2>1. row.record \in Records
    BY DEF ClaimRows, TypeOK
  <2>2. /\ Advance(row.record, StateAfter("PREPARED")) /\ Event(row.record, "PREPARED")
        /\ "PREPARED" \in EventKinds
    BY <1>3 DEF ClientPrepare, Prepare, StateAfter, EventKinds
  <2> QED BY <1>0, <2>1, <2>2, AdvanceLogged
<1>4. ASSUME NEW row \in claims, ClientFail(row)
      PROVE  \A q \in Records : Kept(q) \/ Logged(q)
  <2>1. row.record \in Records
    BY DEF ClaimRows, TypeOK
  <2>2. Advance(row.record, StateAfter("FAILED")) /\ Event(row.record, "FAILED") /\ "FAILED" \in EventKinds
    BY <1>4 DEF ClientFail, FailProcessing, StateAfter, EventKinds
  <2> QED BY <1>0, <2>1, <2>2, AdvanceLogged
<1>5. ASSUME NEW r \in Records, NEW tx \in TxIds, NEW p \in Payloads, ClientFinish(r, tx, p)
      PROVE  \A q \in Records : Kept(q) \/ Logged(q)
  <2>1. Advance(r, StateAfter("COMMITTED")) /\ Event(r, "COMMITTED") /\ "COMMITTED" \in EventKinds
    BY <1>5 DEF ClientFinish, Finish, StateAfter, EventKinds
  <2> QED BY <1>0, <2>1, AdvanceLogged
<1>6. CASE ClientRecover
  <2> SUFFICES ASSUME NEW q \in Records PROVE Kept(q) \/ Logged(q)
    OBVIOUS
  <2>1. CASE Expired(q)
    <3>1. /\ state'[q] = StateAfter("LEASE_RECOVERED")
          /\ version'[q] = version[q] + 1
          /\ audit'[q] = Append(audit[q], "LEASE_RECOVERED")
      BY <1>6, <2>1 DEF ClientRecover, RecoverExpired, StateAfter
    <3> QED BY <3>1 DEF Logged, EventKinds
  <2>2. CASE ~Expired(q)
    BY <1>6, <2>2 DEF ClientRecover, RecoverExpired, Kept
  <2> QED BY <2>1, <2>2
<1>7. CASE Tick \/ UNCHANGED vars
  BY <1>7 DEF Tick, vars, storeVars, Kept
<1> QED BY <1>1, <1>2, <1>3, <1>4, <1>5, <1>6, <1>7 DEF Next

AuditInv == TypeOK /\ AuditMatchesState

LEMMA AuditStep == AuditInv /\ [Next]_vars => AuditInv'
<1> SUFFICES ASSUME AuditInv, [Next]_vars PROVE AuditMatchesState'
  BY TypeStep DEF AuditInv
<1>0. TypeOK /\ StoreTypeOK /\ AuditMatchesState
  BY DEF AuditInv, TypeOK
<1> SUFFICES ASSUME NEW r \in Records
             PROVE  /\ Len(audit'[r]) = version'[r]
                    /\ state'[r] # "ABSENT" => state'[r] = StateAfter(audit'[r][version'[r]])
  BY DEF AuditMatchesState, Exists
<1>1. /\ audit[r] \in Seq(EventKinds) /\ version[r] \in Nat
      /\ Len(audit[r]) = version[r]
      /\ state[r] # "ABSENT" => state[r] = StateAfter(audit[r][version[r]])
  BY <1>0 DEF StoreTypeOK, AuditMatchesState, Exists
<1>2. CASE Kept(r)
  BY <1>1, <1>2 DEF Kept
<1>3. ASSUME NEW k \in EventKinds, state'[r] = StateAfter(k), version'[r] = version[r] + 1,
             audit'[r] = Append(audit[r], k)
      PROVE  /\ Len(audit'[r]) = version'[r]
             /\ state'[r] # "ABSENT" => state'[r] = StateAfter(audit'[r][version'[r]])
  BY <1>1, <1>3, AppendProperties
<1> QED BY <1>0, <1>2, <1>3, LoggedStep DEF Logged

\* The audit log tells the truth: each version of a row has its event, and the last
\* event is the one that made the row what it is (event() inside each transaction).
THEOREM AuditMatchesStateHolds == Spec => []AuditMatchesState
<1>1. Init => AuditInv
  <2> SUFFICES ASSUME Init PROVE AuditInv
    OBVIOUS
  <2>1. \A r \in Records : Len(<<>>) = 0
    OBVIOUS
  <2> QED BY <2>1, TypeInit DEF Init, StoreInit, AuditInv, AuditMatchesState, Exists
<1>2. AuditInv => AuditMatchesState
  BY DEF AuditInv
<1> QED BY <1>1, <1>2, AuditStep, PTL DEF Spec

----------------------------------------------------------------------------
(* The replay window. *)

WindowInv == TypeOK /\ DigestCovers /\ ReplayWindow

\* An admission younger than the retention period keeps its document out.
LEMMA AdmittedKeepsOut ==
  ASSUME TypeOK, DigestCovers, Retention > 0, NEW a \in admitted, ~Retained(a.document)
  PROVE  a.at <= now - Retention
<1>1. a.at \in Nat /\ now \in Nat /\ Retention \in Nat /\ a.document \in Documents
  BY StoreAssumption DEF TypeOK, StoreTypeOK, AdmittedRows
<1>2. digests[a.document] \in Admissions \cup {None}
  BY <1>1 DEF TypeOK, StoreTypeOK
<1>3. digests[a.document] # None => digests[a.document].received \in Nat
  BY <1>2 DEF Admissions
<1> QED BY <1>1, <1>3 DEF Retained, DigestCovers

LEMMA WindowIngest ==
  ASSUME WindowInv, TypeOK', NEW r \in Records, NEW d \in Documents, NEW c \in Ciphers,
         ClientIngest(r, d, c), Retention > 0
  PROVE  DigestCovers' /\ ReplayWindow'
<1> DEFINE new == [record |-> r, document |-> d, at |-> now]
<1>0. TypeOK /\ DigestCovers /\ ReplayWindow /\ now \in Nat /\ Retention \in Nat
  BY StoreAssumption DEF WindowInv, TypeOK, StoreTypeOK
<1>1. /\ ~Retained(d) /\ now' = now
      /\ digests' = [e \in Documents |-> IF e = d THEN [record |-> r, received |-> now]
                                         ELSE IF Retained(e) THEN digests[e] ELSE None]
      /\ admitted' = admitted \cup {new}
  BY StoreAssumption DEF ClientIngest, Ingest, IngestRefused
<1>2. \A a \in admitted : a.at \in Nat /\ a.document \in Documents
  BY <1>0 DEF TypeOK, AdmittedRows
<1>3. digests'[d] = [record |-> r, received |-> now] /\ digests'[d] # None
  <2>1. [record |-> r, received |-> now] \in Admissions
    BY <1>0 DEF Admissions
  <2> QED BY <1>1, <2>1, NoRowAssumption
<1>4. ASSUME NEW a \in admitted
      PROVE  /\ a.at <= now
             /\ a.at > now - Retention =>
                  digests'[a.document] # None /\ digests'[a.document].received >= a.at
  <2>1. /\ a.at <= now
        /\ a.at > now - Retention =>
             digests[a.document] # None /\ digests[a.document].received >= a.at
    BY <1>0 DEF DigestCovers
  <2>2. CASE a.document = d
    BY <1>0, <1>2, <1>3, <2>1, <2>2
  <2>3. CASE a.document # d
    <3>1. ASSUME a.at > now - Retention PROVE Retained(a.document)
      <4>1. digests[a.document] \in Admissions
        BY <1>0, <1>2, <2>1, <3>1 DEF TypeOK, StoreTypeOK
      <4>2. digests[a.document].received \in Nat
        BY <4>1 DEF Admissions
      <4> QED BY <1>0, <1>2, <2>1, <3>1, <4>2 DEF Retained
    <3>2. Retained(a.document) => digests'[a.document] = digests[a.document]
      BY <1>1, <1>2, <2>3
    <3> QED BY <2>1, <3>1, <3>2
  <2> QED BY <2>2, <2>3
<1>5. DigestCovers'
  <2>1. new.at <= now /\ digests'[new.document] # None /\ digests'[new.document].received >= new.at
    BY <1>0, <1>3
  <2> QED BY <1>1, <1>4, <2>1 DEF DigestCovers
<1>6. ASSUME NEW a \in admitted, a.document = d PROVE now - a.at >= Retention
  BY <1>0, <1>1, <1>2, <1>6, AdmittedKeepsOut
<1>7. \A a, b \in admitted :
        (a.document = b.document /\ a.record # b.record) =>
          (a.at - b.at >= Retention \/ b.at - a.at >= Retention)
  BY <1>0 DEF ReplayWindow
<1>8. ReplayWindow'
  <2> HIDE DEF new
  <2>1. new.document = d /\ new.record = r /\ new.at = now
    BY DEF new
  <2> QED BY <1>1, <1>6, <1>7, <2>1 DEF ReplayWindow
<1> QED BY <1>5, <1>8

LEMMA WindowStep == WindowInv /\ [Next]_vars => WindowInv'
<1> SUFFICES ASSUME WindowInv, [Next]_vars PROVE WindowInv'
  OBVIOUS
<1>0. TypeOK /\ StoreTypeOK /\ TypeOK' /\ DigestCovers /\ ReplayWindow
  BY TypeStep DEF WindowInv, TypeOK
<1>1. CASE Retention > 0
  <2>1. ASSUME NEW r \in Records, NEW d \in Documents, NEW c \in Ciphers, ClientIngest(r, d, c)
        PROVE  WindowInv'
    BY <1>0, <1>1, <2>1, WindowIngest DEF WindowInv
  <2>2. CASE UNCHANGED <<digests, admitted>> /\ now' \in {now, now + 1}
    <3>1. now \in Nat /\ Retention \in Nat /\ \A a \in admitted : a.at \in Nat
      BY <1>0, StoreAssumption DEF TypeOK, StoreTypeOK, AdmittedRows
    <3>2. DigestCovers'
      BY <1>0, <2>2, <3>1 DEF DigestCovers
    <3>3. ReplayWindow'
      BY <1>0, <2>2 DEF ReplayWindow
    <3> QED BY <1>0, <3>2, <3>3 DEF WindowInv
  <2>3. (\E r \in Records, d \in Documents, c \in Ciphers : ClientIngest(r, d, c))
          \/ (UNCHANGED <<digests, admitted>> /\ now' \in {now, now + 1})
    BY DEF Next, ClientClaim, Claim, ClientPrepare, Prepare, ClientFail, FailProcessing, ClientFinish,
           Finish, ClientRecover, RecoverExpired, Tick, vars, storeVars
  <2> QED BY <2>1, <2>2, <2>3
<1>2. CASE ~(Retention > 0)
  BY <1>0, <1>2 DEF WindowInv, DigestCovers, ReplayWindow
<1> QED BY <1>1, <1>2

\* No document is admitted twice within the retention period, whatever was purged in
\* between: ingest deletes only what no longer counts, before it looks.
THEOREM ReplayWindowHolds == Spec => []ReplayWindow
<1>1. Init => WindowInv
  BY TypeInit DEF Init, WindowInv, DigestCovers, ReplayWindow
<1>2. WindowInv => ReplayWindow
  BY DEF WindowInv
<1> QED BY <1>1, <1>2, WindowStep, PTL DEF Spec

----------------------------------------------------------------------------
(* Nothing is undone. *)

\* What a transaction leaves of a row that is finished, and of a receipt.
Settled(r) ==
  /\ state[r] \in {"COMMITTED", "FAILED"} =>
       state'[r] = state[r] /\ version'[r] = version[r] /\ outbox'[r] = outbox[r]
  /\ outbox[r] # None =>
       outbox'[r].payload = outbox[r].payload /\ outbox'[r].snapshot = outbox[r].snapshot

\* A transaction on a row that is neither finished nor in the outbox settles all others.
LEMMA OthersSettled ==
  ASSUME StoreTypeOK, NEW r \in Records, NEW s, Advance(r, s), outbox' = outbox,
         state[r] \notin {"COMMITTED", "FAILED"}
  PROVE  \A q \in Records : Settled(q)
BY DEF Advance, Settled, StoreTypeOK

LEMMA SettledStep == TypeOK /\ OutboxInStep /\ [Next]_vars => \A q \in Records : Settled(q)
<1> SUFFICES ASSUME TypeOK, OutboxInStep, [Next]_vars PROVE \A q \in Records : Settled(q)
  OBVIOUS
<1>0. StoreTypeOK
  BY DEF TypeOK
<1>1. ASSUME NEW r \in Records, NEW d \in Documents, NEW c \in Ciphers, ClientIngest(r, d, c)
      PROVE  \A q \in Records : Settled(q)
  BY <1>0, <1>1, OthersSettled DEF ClientIngest, Ingest, IngestRefused, Exists
<1>2. ASSUME NEW r \in Records, ClientClaim(r)
      PROVE  \A q \in Records : Settled(q)
  BY <1>0, <1>2, OthersSettled DEF ClientClaim, Claim, ClaimRefused
<1>3. ASSUME NEW row \in claims, NEW p \in Payloads, ClientPrepare(row, p)
      PROVE  \A q \in Records : Settled(q)
  <2> DEFINE r == row.record
  <2>1. r \in Records
    BY DEF ClaimRows, TypeOK
  <2>2. state[r] = "PROCESSING" /\ Advance(r, "PREPARED")
        /\ \A q \in Records \ {r} : outbox'[q] = outbox[q]
    BY <1>0, <1>3 DEF ClientPrepare, Prepare, HoldsClaim, StoreTypeOK
  <2>3. outbox[r] = None
    BY <2>1, <2>2 DEF OutboxInStep
  <2> HIDE DEF r
  <2> QED BY <1>0, <2>1, <2>2, <2>3 DEF Advance, Settled, StoreTypeOK
<1>4. ASSUME NEW row \in claims, ClientFail(row)
      PROVE  \A q \in Records : Settled(q)
  <2>1. row.record \in Records
    BY DEF ClaimRows, TypeOK
  <2> QED BY <1>0, <1>4, <2>1, OthersSettled DEF ClientFail, FailProcessing, HoldsClaim
<1>5. ASSUME NEW r \in Records, NEW tx \in TxIds, NEW p \in Payloads, ClientFinish(r, tx, p)
      PROVE  \A q \in Records : Settled(q)
  <2> DEFINE new == [outbox[r] EXCEPT !.status = "CONFIRMED", !.tx = tx]
  <2>1. state[r] = "PREPARED" /\ Advance(r, "COMMITTED") /\ outbox' = [outbox EXCEPT ![r] = new]
    BY <1>5 DEF ClientFinish, Finish, FinishAllowed
  <2>2. outbox[r] \in OutboxRows
    BY <1>0, <1>5 DEF ClientFinish, StoreTypeOK
  <2>3. new.payload = outbox[r].payload /\ new.snapshot = outbox[r].snapshot
    BY <2>2 DEF OutboxRows
  <2> HIDE DEF new
  <2> QED BY <1>0, <2>1, <2>3 DEF Advance, Settled, StoreTypeOK
<1>6. CASE ClientRecover
  BY <1>6 DEF ClientRecover, RecoverExpired, Expired, Settled
<1>7. CASE Tick \/ UNCHANGED vars
  BY <1>7 DEF Tick, vars, storeVars, Settled
<1> QED BY <1>1, <1>2, <1>3, <1>4, <1>5, <1>6, <1>7 DEF Next

\* Rows only move forward, and only with their version; finished rows, receipts and
\* the log are final (the state and version guards of store.py's UPDATE statements).
THEOREM OnlyForwardHolds == Spec => OnlyForward
<1> DEFINE Body ==
      \A r \in Records :
        /\ version'[r] >= version[r]
        /\ state'[r] # state[r] => version'[r] > version[r]
        /\ state[r] \in {"COMMITTED", "FAILED"} =>
             /\ state'[r] = state[r] /\ version'[r] = version[r]
             /\ outbox'[r] = outbox[r]
        /\ outbox[r] # None =>
             /\ outbox'[r].payload = outbox[r].payload
             /\ outbox'[r].snapshot = outbox[r].snapshot
        /\ SubSeq(audit'[r], 1, Len(audit[r])) = audit[r]
<1>1. ASSUME FenceInv, [Next]_vars PROVE Body
  <2>0. TypeOK /\ StoreTypeOK /\ OutboxInStep
    BY <1>1 DEF FenceInv, TypeOK
  <2> SUFFICES ASSUME NEW r \in Records
               PROVE  /\ version'[r] >= version[r]
                      /\ state'[r] # state[r] => version'[r] > version[r]
                      /\ SubSeq(audit'[r], 1, Len(audit[r])) = audit[r]
                      /\ Settled(r)
    BY DEF Settled
  <2>1. Settled(r) /\ (Kept(r) \/ Logged(r))
    BY <1>1, <2>0, SettledStep, LoggedStep
  <2>2. audit[r] \in Seq(EventKinds) /\ version[r] \in Nat
    BY <2>0 DEF StoreTypeOK
  <2>3. CASE Kept(r)
    BY <2>1, <2>2, <2>3, SubSeqFull DEF Kept
  <2>4. ASSUME NEW k \in EventKinds, version'[r] = version[r] + 1, audit'[r] = Append(audit[r], k)
        PROVE  /\ version'[r] > version[r]
               /\ SubSeq(audit'[r], 1, Len(audit[r])) = audit[r]
    <3>1. Append(audit[r], k) = audit[r] \o <<k>> /\ <<k>> \in Seq(EventKinds) /\ Len(audit[r]) \in Nat
      BY <2>2, <2>4, AppendIsConcat
    <3>2. CASE Len(audit[r]) = 0
      <4>1. audit[r] = <<>>
        BY <2>2, <3>2
      <4> QED BY <2>2, <2>4, <3>2, <4>1, SubSeqEmpty
    <3>3. CASE Len(audit[r]) > 0
      <4>1. SubSeq(audit[r] \o <<k>>, 1, Len(audit[r])) = SubSeq(audit[r], 1, Len(audit[r]))
        BY <2>2, <3>1, <3>3, SubSeqOfConcat1
      <4> QED BY <2>2, <2>4, <3>1, <4>1, SubSeqFull
    <3> QED BY <3>1, <3>2, <3>3
  <2> QED BY <2>1, <2>2, <2>3, <2>4 DEF Logged
<1>2. FenceInv /\ [Next]_vars => [Body]_vars
  BY <1>1
<1> HIDE DEF Body
<1>3. Spec => [][Body]_vars
  BY <1>2, FenceInit, FenceStep, PTL DEF Spec
<1> QED BY <1>3 DEF Body, OnlyForward

============================================================================
