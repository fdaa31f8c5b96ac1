------------------------ MODULE MCTransferScheduling ------------------------
(* TransferScheduling on small sets: the constants the .cfg files refer to. *)
EXTENDS TransferScheduling, TLC

CONSTANTS t1, t2, t3

TwoTasks == {t1, t2}
ThreeTasks == {t1, t2, t3}
OneOrTwo == {1, 2}
TaskSymmetry == Permutations(Tasks)

\* Which disturbances a run allows.
NoReconnectTrouble == {"cancelTask", "stop", "cancelAll", "walkFails"}
LostServer == {"cancelTask", "reconnectFails"}
OnlyCancelAll == {"cancelAll"}
=============================================================================
