-------------------------- MODULE MCAccountResults --------------------------
(* Small instances of the account results for TLC.                         *)
EXTENDS AccountResults

CONSTANTS f1, f2, h1, h2, kf, kg, kh

\* Every forecast of the instance is asked for under one key.
OneKeyEach == [i \in Jobs |-> IF i \in Horizon THEN kh ELSE kf]
\* The forecasts are distinct requests.
OwnKeys == [i \in Jobs |-> CASE i \in Horizon -> kh [] i = f1 -> kf [] OTHER -> kg]
OneSlotEach == [k \in {"forecast", "horizon"} |-> 1]
TwoSlotsEach == [k \in {"forecast", "horizon"} |-> 2]
=============================================================================
