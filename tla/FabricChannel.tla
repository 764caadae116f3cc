---------------------------- MODULE FabricChannel ----------------------------
(***************************************************************************)
(* The contract on a Fabric channel.  Clients have their calls simulated   *)
(* by peers; the transaction carries the versions of the keys it read and  *)
(* waits for the orderer, with other transactions going first in any       *)
(* order.  When its turn comes, it takes effect only if nothing it read    *)
(* has been written since.  A transaction may be lost on the way.          *)
(*                                                                         *)
(* A version counts the writes to a key.  Peers that lag behind are        *)
(* covered: what they simulate was simulated earlier and ordered later.    *)
(***************************************************************************)
EXTENDS Chaincode

VARIABLES
  world,      \* the committed world state
  version,    \* how often each key has been written
  inflight,   \* transactions simulated and not yet ordered
  used        \* transaction identifiers that have been given out

vars == <<world, version, inflight, used>>

OutcomeType == [reads : SUBSET StateKeys, key : StateKeys, value : Values]

TypeOK ==
  /\ IsWorld(world)
  /\ version \in [StateKeys -> Nat]
  /\ used \subseteq TxIds
  /\ \A tx \in inflight :
       /\ tx.id \in used
       /\ tx.outcome \in OutcomeType
       /\ tx.seen \in [tx.outcome.reads -> Nat]

Init ==
  /\ world = EmptyWorld
  /\ version = [k \in StateKeys |-> 0]
  /\ inflight = {}
  /\ used = {}

\* A peer simulated the call; the client hands the result to the orderer.
Endorse(id, outcomes) ==
  /\ id \notin used
  /\ \E o \in outcomes :
       inflight' = inflight \cup
         {[id |-> id, outcome |-> o, seen |-> [k \in o.reads |-> version[k]]]}
  /\ used' = used \cup {id}
  /\ UNCHANGED <<world, version>>

Valid(tx) == \A k \in tx.outcome.reads : tx.seen[k] = version[k]

Commit(tx) ==
  /\ Valid(tx)
  /\ world' = [world EXCEPT ![tx.outcome.key] = tx.outcome.value]
  /\ version' = [version EXCEPT ![tx.outcome.key] = @ + 1]
  /\ inflight' = inflight \ {tx}
  /\ UNCHANGED used

\* MVCC_READ_CONFLICT; also a transaction that never reaches the orderer.
Drop(tx) ==
  /\ inflight' = inflight \ {tx}
  /\ UNCHANGED <<world, version, used>>

Call(id, c) ==
  \/ \E v \in Vendors, t \in Stamps : Endorse(id, RegisterVendor(world, c, v, t))
  \/ \E k \in WorkerKeys, pub \in PublicKeys, i \in Intervals :
       Endorse(id, RegisterWorkerKey(world, c, k, pub, i))
  \/ \E k \in EvidenceKeys, pub \in PublicKeys, i \in Intervals, role \in Roles :
       Endorse(id, RegisterEvidenceKey(world, c, k, pub, i, role))
  \/ \E d \in Policies, i \in Intervals : Endorse(id, RegisterPolicyDigest(world, c, d, i))
  \/ \E k \in AuthorityKeys : Endorse(id, Revoke(world, c, k))
  \/ Endorse(id, EnableEvidenceOnly(c))
  \/ \E x \in HardenedReceipts, t \in Stamps : Endorse(id, RecordHardened(world, c, x, t, id))
  \/ \E x \in EvidenceReceipts, t \in Stamps : Endorse(id, RecordEvidence(world, c, x, t, id))

Next ==
  \/ \E id \in TxIds, c \in Clients : Call(id, c)
  \/ \E tx \in inflight : Commit(tx) \/ Drop(tx)

Spec == Init /\ [][Next]_vars
----------------------------------------------------------------------------
Serial == INSTANCE SerialChannel

\* Whatever is simulated, delayed, reordered and dropped, the channel behaves
\* as if every transaction ran its contract function when it took effect.
Serializable == Serial!Spec

\* What the dates must be: recorded while the key is valid, after the issue, give or take
\* the skew, and before the receipt's end; the receipt's life short, and within the key's.
Dated(x, key, at) ==
  /\ key.from <= at /\ at < key.until
  /\ key.from <= x.issued /\ x.issued < x.expires /\ x.expires <= key.until
  /\ x.issued <= at + ClockSkew /\ at < x.expires
  /\ x.expires - x.issued <= MaxLife

\* The authorities of w certify what record e says.
Backed(w, e) ==
  LET x == e.receipt
      k == w[IF e.version = "v1" THEN WorkerKey(x.key) ELSE EvidenceKey(x.key)] IN
  /\ k # None /\ x.signer = k.pub /\ Dated(x, k, e.at)
  /\ e.version = "v2" =>
       LET p == w[PolicyKey(x.policy)] IN
       /\ k.role = "decision"
       /\ p # None /\ p.from <= x.issued /\ p.from <= e.at /\ e.at < p.until

\* What the ledger holds of record r is backed by what it now says of the
\* record's authorities: an auditor who reads record, key and policy today,
\* after any number of racing registrations and revocations, can verify the
\* signature, the role and all dates (vendor.go RecordHardened, evidence.go
\* RecordEvidence).
RecordsVerifiable ==
  \A r \in Records :
    LET e == world[RecordKey(r)] IN e # None => e.receipt.record = r /\ Backed(world, e)

\* The channel only moves forward: a record, a key, a policy digest or a
\* vendor once written stays as it was registered, what was revoked stays
\* revoked, and the switch to evidence only is never undone
\* (putNew, the revocations, EnableEvidenceOnly).
Supersedes(new, old) ==
  \/ new = old
  \/ old \in WorkerKeyValues \cup EvidenceKeyValues \cup PolicyValues
       /\ new = [old EXCEPT !.revoked = TRUE]

ForwardOnly ==
  [][\A k \in StateKeys : world[k] # None => Supersedes(world'[k], world[k])]_vars

\* No record is created under a key or policy that is revoked by then, nor a
\* v1 record after the switch, however long before it was endorsed
\* (the comments at vendor.go:139 and evidence.go:66).
Barred(w, e) ==
  IF e.version = "v1"
  THEN w[ModeKey] # None \/ w[WorkerKey(e.receipt.key)].revoked
  ELSE w[EvidenceKey(e.receipt.key)].revoked \/ w[PolicyKey(e.receipt.policy)].revoked

RevocationHolds ==
  [][\A r \in Records :
       world'[RecordKey(r)] # world[RecordKey(r)] => ~Barred(world, world'[RecordKey(r)])]_vars

============================================================================
