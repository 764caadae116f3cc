---------------------------- MODULE SerialChannel ----------------------------
(***************************************************************************)
(* What an administrator may believe of a channel and its contract: each   *)
(* transaction runs its contract function on the present world state, and  *)
(* takes effect at once or not at all.                                     *)
(***************************************************************************)
CONSTANTS
  TxIds,
  EmptyWorld,
  Outcomes(_, _)   \* the outcomes of the contract on a world, per transaction

VARIABLE world

Init == world = EmptyWorld

Next ==
  /\ world' # world
  /\ \E tx \in TxIds : \E o \in Outcomes(world, tx) :
       world' = [world EXCEPT ![o.key] = o.value]

Spec == Init /\ [][Next]_world

============================================================================
