------------------------------- MODULE BiosSmp -------------------------------
(***************************************************************************)
(* Start of the application processors by the system BIOS (bios/seabios:   *)
(* smp.c, mtrr.c).  The boot processor records its memory type registers,  *)
(* installs a trampoline, wakes every processor at once, and waits until   *)
(* as many have counted themselves as the nvram announces.                 *)
(***************************************************************************)
EXTENDS Naturals, Sequences, FiniteSets, SequencesExt

CONSTANTS Aps,        \* the application processors
          Apics,      \* whether cpuid reports an apic
          VCounts,    \* how many variable MTRRs the processor may have
          TableSize,  \* ARRAY_SIZE(smp_mtrr)
          MaxCpus     \* what qemu_cfg_get_max_cpus may return

ASSUME SmpAssumption == TableSize \in Nat

VARIABLES bsp,          \* "mtrr", "probe", "wait", "done"
          ap,           \* each application processor: "off", "sipi", "load", "count", "hlt"
          loaded,       \* how many entries it has loaded
          msr,          \* the memory type registers of each processor
          table,        \* smp_mtrr[0 .. smp_mtrr_count - 1]
          trampoline,   \* BUILD_AP_BOOT_ADDR holds the jump to smp_ap_boot_code
          countCPUs, maxCountCPUs

smpVars == <<bsp, ap, loaded, msr, table, trampoline, countCPUs, maxCountCPUs>>
bspVars == <<bsp, table, trampoline, maxCountCPUs>>

Boot == "boot"
DefType == <<"def", 0>>
Write(kind, i, val) == [reg |-> <<kind, i>>, val |-> val]

\* mtrr_setup: the registers it writes, in order, for v variable MTRRs.
MtrrWrites(v) ==
    <<Write("def", 0, "off")>> \o [i \in 1..11 |-> Write("fix", i, "fixed")]
    \o [i \in 1..2 * v |-> Write("phys", i, "off")]
    \o <<Write("phys", 1, "uncached"), Write("phys", 2, "uncached"),
         Write("def", 0, "on")>>

Apply(regs, w) == [r \in DOMAIN regs |-> IF r = w.reg THEN w.val ELSE regs[r]]
Regs == {DefType} \cup {<<"fix", i>> : i \in 1..11} \cup {<<"phys", i>> : i \in 1..16}

\* wrmsr_smp: the entry is recorded while there is room in the table.
WrmsrSmp(t, w) == IF Len(t) >= TableSize THEN t ELSE Append(t, w)

\* smp_probe_setup.
SmpInit == /\ bsp = "mtrr"
           /\ ap = [a \in Aps |-> "off"]
           /\ loaded = [a \in Aps |-> 0]
           /\ msr = [p \in Aps \cup {Boot} |-> [r \in Regs |-> "reset"]]
           /\ table = <<>>
           /\ trampoline = FALSE
           /\ countCPUs = 0 /\ maxCountCPUs = 0

\* mtrr_setup; a processor without MTRRs (v = 0) is left alone.
MtrrSetup(v) ==
    /\ bsp = "mtrr"
    /\ IF v = 0 THEN UNCHANGED <<msr, table>>
       ELSE /\ msr' = [msr EXCEPT ![Boot] = FoldLeft(Apply, @, MtrrWrites(v))]
            /\ table' = FoldLeft(WrmsrSmp, table, MtrrWrites(v))
    /\ bsp' = "probe"
    /\ UNCHANGED <<ap, loaded, trampoline, countCPUs, maxCountCPUs>>

\* smp_probe, up to the wait: without an apic there is one processor.
SmpProbe(apic) ==
    /\ bsp = "probe"
    /\ countCPUs' = 1
    /\ IF apic
       THEN /\ trampoline' = TRUE
            /\ ap' = [a \in Aps |-> "sipi"]
            /\ bsp' = "wait"
            /\ UNCHANGED maxCountCPUs
       ELSE /\ maxCountCPUs' = 1
            /\ bsp' = "done"
            /\ UNCHANGED <<trampoline, ap>>
    /\ UNCHANGED <<loaded, msr, table>>

\* smp_ap_boot_code, reached through the trampoline.
ApStart(a) == /\ ap[a] = "sipi"
              /\ ap' = [ap EXCEPT ![a] = IF trampoline THEN "load" ELSE "lost"]
              /\ UNCHANGED <<loaded, msr, countCPUs, bspVars>>
ApLoad(a) == /\ ap[a] = "load"
             /\ IF loaded[a] = Len(table)
                THEN ap' = [ap EXCEPT ![a] = "count"] /\ UNCHANGED <<loaded, msr>>
                ELSE /\ msr' = [msr EXCEPT ![a] = Apply(@, table[loaded[a] + 1])]
                     /\ loaded' = [loaded EXCEPT ![a] = @ + 1]
                     /\ UNCHANGED ap
             /\ UNCHANGED <<countCPUs, bspVars>>
ApCount(a) == /\ ap[a] = "count"
              /\ countCPUs' = countCPUs + 1
              /\ ap' = [ap EXCEPT ![a] = "hlt"]
              /\ UNCHANGED <<loaded, msr, bspVars>>

\* Mutation of SmpWait: one processor too few is waited for.
SmpWaitShort(max) ==
    /\ bsp = "wait"
    /\ countCPUs >= Cardinality(Aps)
    /\ trampoline' = FALSE
    /\ maxCountCPUs' = IF max < countCPUs THEN countCPUs ELSE max
    /\ bsp' = "done"
    /\ UNCHANGED <<ap, loaded, msr, table, countCPUs>>

\* smp_probe, from the wait on: the nvram announces the processors present.
SmpWait(max) ==
    /\ bsp = "wait"
    /\ Cardinality(Aps) + 1 = countCPUs
    /\ trampoline' = FALSE
    /\ maxCountCPUs' = IF max < countCPUs THEN countCPUs ELSE max
    /\ bsp' = "done"
    /\ UNCHANGED <<ap, loaded, msr, table, countCPUs>>

SmpNext == \/ \E v \in VCounts : MtrrSetup(v)
           \/ \E apic \in Apics : SmpProbe(apic)
           \/ \E a \in Aps : ApStart(a) \/ ApLoad(a) \/ ApCount(a)
           \/ \E max \in MaxCpus : SmpWait(max)

SmpSpec == SmpInit /\ [][SmpNext]_smpVars

----------------------------------------------------------------------------
\* smp_probe: the original contents of the trampoline's memory come back only
\* when every processor has left it, and then each one is counted exactly once.
ProbeComplete == /\ \A a \in Aps : ap[a] # "lost"
                 /\ bsp = "done" /\ countCPUs # 1 => /\ \A a \in Aps : ap[a] = "hlt"
                                            /\ countCPUs = Cardinality(Aps) + 1
                                            /\ maxCountCPUs >= countCPUs

\* smp.c: "MTRR setup" in smp_ap_boot_code gives every processor the memory
\* types the boot processor has.
SameMemoryTypes == \A a \in Aps : ap[a] = "hlt" => msr[a] = msr[Boot]
============================================================================
