---------------------------- MODULE MCScheduler ----------------------------
(* Small instances of MultiLaneScheduler for TLC. *)
EXTENDS MultiLaneScheduler, TLC

CONSTANTS t1, t2, w1, w2

MCTwoTasks == {t1, t2}
MCOneTask == {t1}
MCWorkers == {w1, w2}

MCAllPriorities == Lane
MCLowest == {NumLanes - 1}

\* The tightest quotas: one task of each lane per round.
MCWeights == [l \in Lane |-> 1]

\* As in the code, the lower the lane the longer the wait.
MCAgeThreshold == [l \in Lane |-> l]
MCFlatThreshold == [l \in Lane |-> 1]

MCSymmetry == Permutations(Tasks) \cup Permutations(Workers)

\* What nobody reads any more does not tell states apart: the priority and the
\* times of a task that has left, and its token from the moment a worker was
\* given it.  From then on no guard, property or fairness condition depends on
\* them: whatever they are, the same steps follow, and every state that follows
\* has the same places, books and phases.
MCView ==
  <<lanes, base, now, consumed, gauge, active, permit, sub, left, local,
    {t \in token : t \notin left /\ ~ Given(t)},
    [t \in Tasks \ left |-> <<prio[t], created[t]>>]>>
=============================================================================
