-------------------------- MODULE MCSupervisedCycle --------------------------
(* SupervisedCycle for TLC. Bound: once nothing is promised about the       *)
(* account any more, cycles and the broker stand still and only the lock    *)
(* moves on, runs that hold it being interrupted.                           *)
EXTENDS SupervisedCycle, TLC

BoundedNext ==
    \/ \E p \in Pids : Begin(p) \/ LockStep(p) \/ Interrupt(p) \/ Die(p)
    \/ ~Excused /\ (BrokerStep \/ \E p \in Pids : Cycle(p))

\* A process that is not killed keeps running.
BoundedSpec ==
    /\ CycleInit /\ [][BoundedNext]_all
    /\ \A p \in Pids : WF_all(LockStep(p))
=============================================================================
