-------------------------- MODULE MCCampaignJournal --------------------------
(***************************************************************************)
(* CampaignJournal on a small plan: two tasks, one warmup and two measured *)
(* trials of each.  In the first task the warmup or the second trial may   *)
(* measure a success and be killed all the same; the second trial of the   *)
(* other leaves no measurement.                                            *)
(***************************************************************************)
EXTENDS CampaignJournal

CONSTANTS t1, t2

Success(v) == [successful |-> TRUE, value |-> v]
Ok(v) == [measured |-> Success(v), exits |-> TRUE]
Killed(v) == [measured |-> Success(v), exits |-> FALSE]
MCBehaviours == [s \in Slots |->
  CASE s[1] = t1 -> IF s[2] = 0 THEN {Ok(1)} ELSE {Ok(3), Killed(3)}
    [] OTHER -> IF s[2] = 1 THEN {[measured |-> None, exits |-> TRUE]} ELSE {Ok(s[2] + 2)}]
MCComparisons == {[control |-> t1, treatment |-> t2]}
============================================================================
