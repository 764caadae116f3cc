---------------------------- MODULE StoreClients ----------------------------
(***************************************************************************)
(* The store under every order of legal calls.  A client is any thread or  *)
(* process that holds a Store; it may call prepare and fail_processing     *)
(* with any row a claim ever returned, however stale, and finish with any  *)
(* answer of a ledger.  claims, admitted and givenUp are history: what     *)
(* claim and ingest have returned and fail_processing was told so far.     *)
(***************************************************************************)
EXTENDS SubmissionStore

VARIABLES
  claims,      \* rows returned by claim: record and version
  admitted,    \* accepted ingests: record, document and time
  givenUp      \* claims whose holder reported a failure, and was heard

vars == <<storeVars, claims, admitted, givenUp>>

ClaimRows == [record : Records, version : Nat]
AdmittedRows == [record : Records, document : Documents, at : Nat]

TypeOK ==
  /\ StoreTypeOK
  /\ claims \subseteq ClaimRows
  /\ admitted \subseteq AdmittedRows
  /\ givenUp \subseteq ClaimRows

Init == StoreInit /\ claims = {} /\ admitted = {} /\ givenUp = {}

ClientIngest(r, d, c) ==
  /\ Ingest(r, d, c)
  /\ admitted' = admitted \cup {[record |-> r, document |-> d, at |-> now]}
  /\ UNCHANGED <<claims, givenUp>>

ClientClaim(r) ==
  /\ Claim(r)
  /\ claims' = claims \cup {[record |-> r, version |-> version[r] + 1]}
  /\ UNCHANGED <<admitted, givenUp>>

ClientPrepare(row, p) ==
  Prepare(row.record, row.version, p) /\ UNCHANGED <<claims, admitted, givenUp>>

ClientFail(row) ==
  /\ FailProcessing(row.record, row.version)
  /\ givenUp' = givenUp \cup {row}
  /\ UNCHANGED <<claims, admitted>>

\* The snapshot comes from an outbox row the caller has read; it never changes.
ClientFinish(r, tx, p) ==
  /\ outbox[r] # None
  /\ Finish(r, outbox[r].snapshot, tx, p)
  /\ UNCHANGED <<claims, admitted, givenUp>>

ClientRecover == RecoverExpired /\ UNCHANGED <<claims, admitted, givenUp>>

Tick ==
  /\ now < MaxTime
  /\ now' = now + 1
  /\ UNCHANGED <<state, version, lease, document, cipher, outbox, digests, audit, claims, admitted, givenUp>>

Next ==
  \/ \E r \in Records, d \in Documents, c \in Ciphers : ClientIngest(r, d, c)
  \/ \E r \in Records : ClientClaim(r)
  \/ \E row \in claims, p \in Payloads : ClientPrepare(row, p)
  \/ \E row \in claims : ClientFail(row)
  \/ \E r \in Records, tx \in TxIds, p \in Payloads : ClientFinish(r, tx, p)
  \/ ClientRecover
  \/ Tick

Spec == Init /\ [][Next]_vars

----------------------------------------------------------------------------
(* Properties. *)

\* A stale worker is fenced off: the receipt in the outbox was prepared under
\* the most recent claim of its record, and no claim was granted afterwards
\* (prepare's version guard against recover_expired handing the request on).
FencedPrepare ==
  \A r \in Records : outbox[r] # None =>
    /\ [record |-> r, version |-> outbox[r].snapshot - 1] \in claims
    /\ \A row \in claims : row.record = r => row.version < outbox[r].snapshot

\* Only the holder of a request gives it up: when a failure was recorded, no other
\* worker had been handed the request since the claim of the one that failed, and
\* none is handed it afterwards (fail_processing's version guard against
\* recover_expired: a stale failure does not end the successor's work).
FencedFailure ==
  \A row \in givenUp :
    /\ state[row.record] = "FAILED"
    /\ \A other \in claims : other.record = row.record => other.version <= row.version

\* The state an event leaves its record in.
StateAfter(kind) == IF kind = "LEASE_RECOVERED" THEN "INGESTED" ELSE kind

\* The append-only log tells the truth: a record has one event per version,
\* and its last event is the one that put the row in its present state, so a
\* transition can be neither unlogged nor logged without having happened.
AuditMatchesState ==
  \A r \in Records :
    /\ Len(audit[r]) = version[r]
    /\ Exists(r) => state[r] = StateAfter(audit[r][version[r]])

\* Replay window: no document is admitted under two requests less than the
\* retention period apart, whatever was admitted or purged in between.
ReplayWindow ==
  Retention > 0 =>
    \A a, b \in admitted :
      (a.document = b.document /\ a.record # b.record) =>
        (a.at - b.at >= Retention \/ b.at - a.at >= Retention)

\* History is only extended: a step that touches a row moves its version up,
\* COMMITTED and FAILED rows never move again, a receipt once in the outbox is
\* never replaced, and the log only grows at its end.
OnlyForward ==
  [][\A r \in Records :
       /\ version'[r] >= version[r]
       /\ state'[r] # state[r] => version'[r] > version[r]
       /\ state[r] \in {"COMMITTED", "FAILED"} =>
            /\ state'[r] = state[r] /\ version'[r] = version[r]
            /\ outbox'[r] = outbox[r]
       /\ outbox[r] # None =>
            /\ outbox'[r].payload = outbox[r].payload
            /\ outbox'[r].snapshot = outbox[r].snapshot
       /\ SubSeq(audit'[r], 1, Len(audit[r])) = audit[r]]_vars

============================================================================
