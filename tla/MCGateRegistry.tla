--------------------------- MODULE MCGateRegistry ---------------------------
(* Small instances of GateRegistry: two gating roles and the loop.           *)
EXTENDS GateRegistry, TLC

BothModes == BOOLEAN
SomeTurns == [m \in Modes |-> IF m THEN 4 ELSE 2]
SomeCalls == [m \in Modes |-> IF m THEN 3 ELSE 2]
RoleSymmetry == Permutations(Role)
=============================================================================
