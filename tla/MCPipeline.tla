----------------------------- MODULE MCPipeline -----------------------------
(***************************************************************************)
(* Pipeline on small instances: the worker key's validity ends with the    *)
(* clock, so a receipt that would expire later is not accepted.            *)
(***************************************************************************)
EXTENDS Pipeline, TLC

\* Claims are numbered 2, then two on for each lease recovered; MaxTime ends them.
Claims == {2, 4, 6}
MCPayloads == [record : Records, document : Documents, cipher : Uploaders,
               sbom : Claims, policy : Policies, expires : 0 .. MaxTime]

Symmetry == Permutations(TxIds) \cup Permutations(Uploaders) \cup Permutations(Reconcilers) \cup Permutations(Policies)
============================================================================
