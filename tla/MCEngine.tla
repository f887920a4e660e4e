------------------------------ MODULE MCEngine ------------------------------
(* Small instances of Engine for TLC: a pool with two vaults, and a pool     *)
(* whose quote and base vault are one account.                               *)
EXTENDS Engine, TLC

CONSTANTS p1, p2, q1, q2, v1, v2

MCTasks == {Drainer, Stream, ColdStart, Refresh} \cup Quoters

PairQuote == p1 :> v1
PairBase == p1 :> v2
PairDex == p1 :> "Raydium AMM V4"
PairActive == p1 :> TRUE
PairFirst == v1 :> 1 @@ v2 :> 1
PairVersions == v1 :> 2 @@ v2 :> 1

CurveVault == p2 :> v1
CurveDex == p2 :> "other"
CurveActive == p2 :> TRUE
CurveFirst == v1 :> 0
CurveVersions == v1 :> 2
=============================================================================
