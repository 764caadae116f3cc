--------------------------- MODULE MCStoreClients ---------------------------
(***************************************************************************)
(* StoreClients on a small instance: three requests that compete for two   *)
(* documents, two possible receipts and two possible ledger answers, a     *)
(* lease shorter and a replay window longer than one tick.                 *)
(***************************************************************************)
EXTENDS StoreClients, TLC

\* Receipts, transactions and encrypted objects are only ever compared.
Symmetry == Permutations(Payloads) \cup Permutations(TxIds) \cup Permutations(Records)
============================================================================
