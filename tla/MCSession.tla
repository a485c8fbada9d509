---- MODULE MCSession ----
(***************************************************************************)
(* Two agents with small, different budgets; answers may use less or more  *)
(* than was estimated.                                                     *)
(***************************************************************************)
EXTENDS Session, TLC

CONSTANTS a1, a2

BothAgents == {a1, a2}
StepCeilings == a1 :> 2 @@ a2 :> 1
TokenCeilings == a1 :> 3 @@ a2 :> 2
====
