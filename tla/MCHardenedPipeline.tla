------------------------- MODULE MCHardenedPipeline -------------------------
(***************************************************************************)
(* HardenedPipeline on small instances: one request, two bundles that      *)
(* decide differently, one that names other controls and one without a     *)
(* ceiling, a tree that takes up a banned package, and a bundle and a      *)
(* provenance key that end before the clock does.                          *)
(***************************************************************************)
EXTENDS HardenedPipeline, TLC

CONSTANTS Lenient, Strict, Foreign, Void, Harmless, Banned

MCParameters == (Lenient :> [max |-> 2, banned |-> {}]) @@ (Strict :> [max |-> 2, banned |-> {Banned}])
                  @@ (Foreign :> [max |-> 2, banned |-> {}]) @@ (Void :> [max |-> 0, banned |-> {}])
MCBundleEnd == [b \in Bundles |-> IF b = Lenient THEN 2 ELSE MaxTime + 1]
MCInventory == 0 :> {Harmless} @@ 1 :> {Harmless, Banned}

MCPayloads ==
  [record : Records, document : Documents, cipher : Ciphers, sbom : Scans, artifact : Trees,
   identity : Identities, snapshot : Snapshots, policy : Bundles, decision : {"PASS", "FAIL"},
   issued : 0 .. MaxTime, expires : 0 .. MaxTime]

Symmetry == Permutations(Workers)
============================================================================
