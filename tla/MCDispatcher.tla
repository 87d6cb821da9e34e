---------------------------- MODULE MCDispatcher ----------------------------
(* Small instances of TaskDispatcher for TLC. *)
EXTENDS TaskDispatcher, TLC

CONSTANTS t1, t2, w1, w2

MCTwoTasks == {t1, t2}
MCWorkers == {w1, w2}
MCOneTask == {t1}
MCNoTasks == {}

MCSymmetry == Permutations(Workers)
=============================================================================
