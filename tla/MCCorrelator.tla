---------------------------- MODULE MCCorrelator ----------------------------
(***************************************************************************)
(* Instances of Correlator for TLC.  a1 and a2 use one tuple, one after    *)
(* the other in one namespace (MCTupleOf, MCNetnsOf), or at the same time  *)
(* in the loopback of two containers (MCLoopbackNetns).                    *)
(***************************************************************************)
EXTENDS Correlator

CONSTANTS a1, a2, t1, n1, n2, l1

MCTuples == {t1}
MCNetns == {n1, n2}

MCTupleOf == [a \in Attempts |-> t1]
MCNetnsOf == [a \in Attempts |-> n1]
MCLoopbackNetns == [a \in Attempts |-> IF a = a1 THEN n1 ELSE n2]

\* The root cgroup, with the processes of the host, is inode 1.
MCCgroupOf == [l \in Locals |-> 1]

MCWallAtBoot == 10

\* /proc/stat gives the boot time exactly; the machine slept 2 seconds before
\* the monitor started, or btime is rounded down; /proc/stat could not be read
\* and the start of the monitor stands in for the boot.
MCExactBoot == {MCWallAtBoot}
MCSuspendedBoot == {MCWallAtBoot - 2}
MCAnyBoot == {MCWallAtBoot - 1, MCWallAtBoot, MCWallAtBoot + 2}
=============================================================================
