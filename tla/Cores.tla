------------------------------- MODULE Cores -------------------------------
(* The emulated cores, cm_cores of main/core.c, by their numbers. *)
EXTENDS Integers

CONSTANT cm_smp_cpus    \* how many there are

ASSUME CoresAssumption == cm_smp_cpus \in Nat \ {0}

Core == 0 .. cm_smp_cpus - 1
=============================================================================
