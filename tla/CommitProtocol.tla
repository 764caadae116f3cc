--------------------------- MODULE CommitProtocol ---------------------------
(***************************************************************************)
(* What the ingestion pipeline promises about one request, whatever its    *)
(* workers, its store and its ledger do: a receipt is chosen once, the      *)
(* ledger is written once and with that receipt, and the request is        *)
(* confirmed locally only with what the ledger holds.                      *)
(***************************************************************************)
CONSTANTS Records, Payloads, TxIds, None

VARIABLES
  prepared,    \* the receipt chosen for each request, or None
  written,     \* the ledger's entry for each request, or None
  confirmed    \* the entry each request was confirmed with, or None

vars == <<prepared, written, confirmed>>

Init ==
  /\ prepared = [r \in Records |-> None]
  /\ written = [r \in Records |-> None]
  /\ confirmed = [r \in Records |-> None]

Choose(r, p) ==
  /\ prepared[r] = None
  /\ prepared' = [prepared EXCEPT ![r] = p]
  /\ UNCHANGED <<written, confirmed>>

Write(r, tx) ==
  /\ prepared[r] # None /\ written[r] = None
  /\ written' = [written EXCEPT ![r] = [payload |-> prepared[r], tx |-> tx]]
  /\ UNCHANGED <<prepared, confirmed>>

Confirm(r) ==
  /\ written[r] # None /\ confirmed[r] = None
  /\ confirmed' = [confirmed EXCEPT ![r] = written[r]]
  /\ UNCHANGED <<prepared, written>>

Next == \E r \in Records :
  \/ \E p \in Payloads : Choose(r, p)
  \/ \E tx \in TxIds : Write(r, tx)
  \/ Confirm(r)

Spec == Init /\ [][Next]_vars

============================================================================
