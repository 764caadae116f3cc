--------------------------- MODULE MCFabricChannel ---------------------------
(***************************************************************************)
(* FabricChannel on small instances: a key interval that is valid and one  *)
(* that is empty; receipts within it, issued before it, ahead of the clock *)
(* and living too long; proposals within and after the interval.           *)
(***************************************************************************)
EXTENDS FabricChannel, TLC

MCIntervals == {[from |-> 1, until |-> 4], [from |-> 2, until |-> 2]}
MCStamps == {1, 4}
Windows == {[issued |-> 2, expires |-> 3], [issued |-> 0, expires |-> 1],
            [issued |-> 3, expires |-> 4], [issued |-> 1, expires |-> 3]}

MCHardenedReceipts ==
  {[record |-> r, key |-> k, signer |-> s, issued |-> w.issued, expires |-> w.expires] :
     r \in Records, k \in WorkerKeys, s \in PublicKeys, w \in Windows}
MCEvidenceReceipts ==
  {[record |-> r, key |-> k, policy |-> d, signer |-> s, issued |-> w.issued, expires |-> w.expires] :
     r \in Records, k \in EvidenceKeys, d \in Policies, s \in PublicKeys, w \in Windows}

Symmetry == Permutations(TxIds) \cup Permutations(PublicKeys)
============================================================================
