--------------------------- MODULE MCActiveLeases ---------------------------
(* Small instances of ActiveLeases: tasks of one branch, as the cycles of a  *)
(* run have it.  In the pool two of them work on a common file and one on    *)
(* shared files only; the loop's two tasks work on different files.          *)
EXTENDS ActiveLeases

PoolClaims == [t \in Task |-> CASE t = "t1" -> {"f1"} [] t = "t2" -> {"f1", "f2"} [] OTHER -> {}]
LoopClaims == [t \in Task |-> IF t = "t1" THEN {"f1"} ELSE {"f2"}]
OneBranch == [t \in Task |-> "branch"]
BothModes == BOOLEAN
OneLoop == {FALSE}
=============================================================================
