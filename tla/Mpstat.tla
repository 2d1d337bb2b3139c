------------------------------- MODULE Mpstat -------------------------------
(***************************************************************************)
(* mpstat: processors that go offline, come back or are plugged in, and    *)
(* interrupts that appear and disappear, while mpstat takes its samples.   *)
(*                                                                         *)
(* Three samples are kept: two that alternate, and the first one (2) for   *)
(* the average.  The counters of a processor are busy (user, nice, system, *)
(* irq, softirq, steal: those that go on after it was offline), iowait and *)
(* idle (those that start again from zero).  st_irqcpu is the flat array   *)
(* of the code: irqcpu_nr elements for each processor, and the names of    *)
(* the interrupts in the elements of the first processor only.             *)
(*                                                                         *)
(* The machine is SMP: with one processor, mpstat takes the "cpu" line of  *)
(* /proc/stat as it is.  Soft interrupts go through the same functions as  *)
(* interrupts.                                                             *)
(***************************************************************************)
EXTENDS Integers, Sequences, FiniteSets, FiniteSetsExt, Functions

CONSTANTS
    NCpu,           \* processors 1 .. NCpu may be present (CPU 0 .. NCpu - 1)
    NFirst,         \* those present when mpstat starts
    Node,           \* Node[c]: the NUMA node of a processor
    Names, NoName,  \* interrupts, and the empty name of an unused element
    IrqLists,       \* contents of /proc/interrupts: sequences of names
    Weight,         \* how many times an interrupt occurs when a processor works
    CpuWorks,       \* what a processor may do: <<busy, iowait, idle, interrupts>>
    Prealloc,       \* NR_IRQCPU_PREALLOC
    Filler,         \* what memory that was not initialised may hold
    IrqWidth,       \* an unsigned long long holds 0 .. IrqWidth - 1
    MpOptions,      \* command lines: [interval, P, hotplug, json, count]
    MaxReads        \* bound: number of readings of a run

ASSUME MpstatAssumption ==
    /\ NCpu \in Nat /\ NFirst \in 2..NCpu
    /\ NoName \notin Names
    /\ IrqLists \subseteq Seq(Names)
    /\ Prealloc \in Nat \ {0} /\ MaxReads \in Nat /\ IrqWidth \in Nat \ {0}

Cpus == 1..NCpu

VARIABLES
    kern,           \* [present, cpu, irqs, cnt, reg]: what the kernel shows
    first,          \* kern at the first reading
    before,         \* kern at the previous reading
    seen,           \* what it showed of each processor when last read online, before
    reads,          \* number of readings
    mpc,            \* "begin", "first", "read", "write", "pause", "average", "done"
    mopt,           \* the options of this run
    cpu_nr, irqcpu_nr,
    st_cpu,         \* three samples of CPU "all" (0) and of each processor
    st_irq,         \* three samples of the total number of interrupts
    st_irqcpu,      \* three samples of each interrupt of each processor
    mcurr,          \* which of the first two samples is the current one
    mcount,         \* reports left, -1 if unlimited
    mout            \* the last report

kernelVars == <<kern, first, seen, before, reads>>
sampleVars == <<cpu_nr, irqcpu_nr, st_cpu, st_irq, st_irqcpu>>
mpVars == <<kernelVars, mpc, mopt, sampleVars, mcurr, mcount, mout>>

(* ------------------------------ the kernel ------------------------------ *)

Idle0 == [up |-> FALSE, busy |-> 0, iowait |-> 0, idle |-> 0, boots |-> 0]

Booted == [up |-> TRUE, busy |-> 1, iowait |-> 1, idle |-> 1, boots |-> 0]

InList(irqs) == {irqs[i] : i \in DOMAIN irqs}
Online == {c \in Cpus : kern.cpu[c].up}

(* What it shows when mpstat starts, these processors being online. *)
Kernel(up, irqs) ==
    [present |-> NFirst,
     cpu |-> [c \in Cpus |-> IF c \in up THEN Booted ELSE Idle0],
     irqs |-> irqs,
     cnt |-> [n \in Names |-> [c \in Cpus |-> IF n \in InList(irqs) /\ c \in up THEN Weight[n] ELSE 0]],
     reg |-> [n \in Names |-> 0]]

Working(k, w) == [k EXCEPT !.busy = @ + w[1], !.iowait = @ + w[2], !.idle = @ + w[3]]

(* A processor that is offline keeps its busy time; iowait and idle restart. *)
CpuNext(k, w) ==
    {[k EXCEPT !.up = FALSE, !.iowait = 0, !.idle = 0]} \cup
    IF k.up THEN (IF k.iowait + w[2] < 0 THEN {} ELSE {Working(k, w)})
    ELSE IF w[2] < 0 THEN {}
         ELSE {Working([k EXCEPT !.up = TRUE, !.boots = @ + 1], w)}

(* Time passes: processors work, leave or return, one may be plugged in. *)
CpusElapse ==
    \E w \in [Cpus -> CpuWorks], irqs \in IrqLists, present \in {kern.present, NCpu} :
        \E cpu \in [Cpus -> UNION {CpuNext(kern.cpu[c], w[c]) : c \in Cpus}] :
            /\ \A c \in Cpus : cpu[c] \in IF c <= present THEN CpuNext(kern.cpu[c], w[c])
                                                          ELSE {Idle0}
            /\ cpu[1].up
            /\ kern' = [present |-> present, cpu |-> cpu, irqs |-> irqs,
                        cnt |-> [n \in Names |-> [c \in Cpus |->
                            IF n \notin InList(irqs) THEN 0
                            ELSE (IF n \in InList(kern.irqs) THEN kern.cnt[n][c] ELSE 0)
                                 + (IF cpu[c].up THEN w[c][4] * Weight[n] ELSE 0)]],
                        reg |-> [n \in Names |->
                            IF n \in InList(irqs) \ InList(kern.irqs) THEN kern.reg[n] + 1
                                                                      ELSE kern.reg[n]]]

(* ----------------------------- the samples ------------------------------ *)

NoCpu == [busy |-> 0, iowait |-> 0, idle |-> 0]
NoIrq == [name |-> NoName, val |-> 0]
Slot == 0..2

CpuCount(c) == [busy |-> kern.cpu[c].busy, iowait |-> kern.cpu[c].iowait, idle |-> kern.cpu[c].idle]

(* read_stat_cpu() in structures set to zero: only what is online is filled. *)
ReadCpus == [i \in 0..cpu_nr |-> IF i \in Online THEN CpuCount(i) ELSE NoCpu]

Elements == 0..((cpu_nr + 1) * irqcpu_nr - 1)
Row(e) == 1 + e \div irqcpu_nr
Col(e) == e % irqcpu_nr

(* The number of lines of /proc/interrupts that are read. *)
LinesRead == IF Len(kern.irqs) < irqcpu_nr THEN Len(kern.irqs) ELSE irqcpu_nr

(* Mutant of Forward: they are what this sample held two readings ago. *)
ForwardNot(cur, e) == st_irqcpu[cur][e].val

(* read_interrupts_stat(), the header line: the elements of a processor that *)
(* is offline are those of the other sample (fwd_irq_values()).              *)
Forward(cur, e) ==
    IF Row(e) <= cpu_nr /\ Row(e) \notin Online THEN st_irqcpu[1 - cur][e].val
                                                 ELSE st_irqcpu[cur][e].val

(* ... then the counters of each interrupt, for each processor online. *)
ReadIrqCpu(cur) ==
    [e \in Elements |->
        [val  |-> IF Row(e) \in Online \cap (1..cpu_nr) /\ Col(e) < LinesRead
                  THEN kern.cnt[kern.irqs[Col(e) + 1]][Row(e)]
                  ELSE Forward(cur, e),
         name |-> IF e >= irqcpu_nr THEN st_irqcpu[cur][e].name
                  ELSE IF e < LinesRead THEN kern.irqs[e + 1] ELSE NoName]]

CpuTotal(c) == SumFunction([i \in 1..LinesRead |-> kern.cnt[kern.irqs[i]][c]])

(* The total of each processor, and that of the "intr" line of /proc/stat. *)
ReadIrq(cur) ==
    [i \in 0..cpu_nr |->
        IF i = 0 THEN SumFunction([n \in Names |-> SumFunction(kern.cnt[n])])
        ELSE IF i \in Online THEN CpuTotal(i) ELSE st_irq[1 - cur][i]]

(* ----------------------------- CPU statistics --------------------------- *)

Total(s) == s.busy + s.iowait + s.idle
Delta(p, c) == IF c > p THEN c - p ELSE 0

(* The previous values get_per_cpu_interval() changes: iowait and idle have *)
(* decreased if the processor was offline, or if iowait was inaccurate.     *)
Corrected(scc, scp) ==
    [scp EXCEPT
        !.iowait = IF scc.iowait >= scp.iowait THEN @
                   ELSE IF scc.idle > scp.idle THEN scc.iowait ELSE 0,
        !.idle = IF scc.idle < scp.idle THEN 0 ELSE @]

(* get_per_cpu_interval() *)
CpuInterval(scc, scp) ==
    LET p == Corrected(scc, scp)
    IN  Delta(p.busy, scc.busy) + Delta(p.iowait, scc.iowait) + Delta(p.idle, scc.idle)

AddCpus(S, s) ==
    [busy   |-> SumFunction([i \in S |-> s[i].busy]),
     iowait |-> SumFunction([i \in S |-> s[i].iowait]),
     idle   |-> SumFunction([i \in S |-> s[i].idle])]

(* Without a value in the previous sample a processor would jump from zero. *)
Unreferenced(prev) == {i \in 1..cpu_nr : mopt.interval /\ Total(st_cpu[prev][i]) = 0}

NotRead(cur) == {i \in 1..cpu_nr : Total(st_cpu[cur][i]) = 0}

(* offline_cpu_bitmap *)
Offline(prev, cur) == NotRead(cur) \cup Unreferenced(prev)

(* Mutant of Forwarded: zeros are left for a processor that is offline. *)
ForwardedZeros(prev, cur, i) == st_cpu[cur][i]

(* get_global_cpu_mpstats(), for the current values of a processor ... *)
Forwarded(prev, cur, i) == IF i \in NotRead(cur) THEN st_cpu[prev][i] ELSE st_cpu[cur][i]

(* ... its previous values ... *)
Reference(prev, cur, i) ==
    IF i \in Unreferenced(prev) THEN st_cpu[prev][i]
    ELSE Corrected(Forwarded(prev, cur, i), st_cpu[prev][i])

(* ... and CPU "all", whose both samples are sums. *)
GlobalSample(prev, cur) ==
    LET S == (1..cpu_nr) \ Unreferenced(prev)
        now == [i \in 1..cpu_nr |-> Forwarded(prev, cur, i)]
        was == [i \in 1..cpu_nr |-> Reference(prev, cur, i)]
    IN  [st_cpu EXCEPT
            ![cur]  = [i \in 0..cpu_nr |-> IF i = 0 THEN AddCpus(S, now) ELSE now[i]],
            ![prev] = [i \in 0..cpu_nr |-> IF i = 0 THEN AddCpus(S, was) ELSE was[i]]]

(* The values of a line, from the samples got from GlobalSample(). *)
LineOf(name, scc, scp, itv) ==
    [name |-> name, busy |-> Delta(scp.busy, scc.busy), iowait |-> Delta(scp.iowait, scc.iowait),
     idle |-> Delta(scp.idle, scc.idle), itv |-> itv]

(* CPU "all" cannot be tickless. *)
GlobalInterval(prev, cur) ==
    LET itv == SumFunction([i \in (1..cpu_nr) \ Unreferenced(prev) |->
                                CpuInterval(Forwarded(prev, cur, i), st_cpu[prev][i])])
    IN  IF itv = 0 THEN 1 ELSE itv

(* write_plain_cpu_stats(): the processors selected that are not offline. *)
CpuShown(prev, cur) == IF mopt.P THEN (0..cpu_nr) \ Offline(prev, cur) ELSE {0}

(* write_json_cpu_stats() displays the same lines. *)
CpuLines(prev, cur, st) ==
    {LineOf(i, st[cur][i], st[prev][i],
            IF i = 0 THEN GlobalInterval(prev, cur) ELSE CpuInterval(st[cur][i], st[prev][i])) :
        i \in CpuShown(prev, cur)}

NodeCpus(prev, n) == {c \in (1..cpu_nr) \ Unreferenced(prev) : Node[c] = n}

(* set_node_cpu_stats(), write_plain_node_stats(): one line for each node. *)
NodeLines(prev, cur, st) ==
    {LET S == NodeCpus(prev, n)
     IN  LineOf(n, AddCpus(S, st[cur]), AddCpus(S, st[prev]),
                SumFunction([i \in S |-> CpuInterval(st[cur][i], st[prev][i])])) :
        n \in {Node[c] : c \in 1..cpu_nr}}

(* ------------------------------ interrupts ------------------------------ *)

IrqDiff(p, c) == (c - p) % IrqWidth

(* write_plain_isumcpu_stats(): 0 for a processor without ticks. *)
SumLines(prev, cur, st) ==
    {[cpu |-> i,
      val |-> IF i > 0 /\ CpuInterval(st[cur][i], st[prev][i]) = 0 THEN 0
              ELSE IrqDiff(st_irq[prev][i], st_irq[cur][i])] : i \in CpuShown(prev, cur)}

(* Where an interrupt was in the previous sample, irqcpu_nr if nowhere. *)
Offset(prev, cur, j) ==
    IF ~mopt.interval \/ st_irqcpu[cur][j].name = st_irqcpu[prev][j].name THEN j
    ELSE LET S == {k \in 0..(irqcpu_nr - 1) : st_irqcpu[prev][k].name = st_irqcpu[cur][j].name}
         IN  IF S = {} THEN irqcpu_nr ELSE Min(S)

(* Mutant of IrqValue: the position is the same in both samples. *)
IrqValueInPlace(prev, cur, c, j) ==
    LET row == (c - 1) * irqcpu_nr
    IN  IrqDiff(st_irqcpu[prev][row + j].val, st_irqcpu[cur][row + j].val)

(* write_plain_irqcpu_stats(): a new interrupt is counted from zero. *)
IrqValue(prev, cur, c, j) ==
    LET row == (c - 1) * irqcpu_nr
        k == Offset(prev, cur, j)
    IN  IrqDiff(IF k = irqcpu_nr THEN 0 ELSE st_irqcpu[prev][row + k].val,
                st_irqcpu[cur][row + j].val)

(* The names end with the first that is empty. *)
IrqColumns(cur) ==
    {j \in 0..(irqcpu_nr - 1) : \A k \in 0..j : st_irqcpu[cur][k].name # NoName}

(* write_json_irqcpu_stats(): every processor, if none is selected. *)
IrqLines(prev, cur) ==
    {[cpu |-> c, irq |-> st_irqcpu[cur][j].name, val |-> IrqValue(prev, cur, c, j)] :
        c \in (1..cpu_nr) \ Offline(prev, cur), j \in IrqColumns(cur)}

NoReport == [cpu |-> {}, node |-> {}, sum |-> {}, irq |-> {}, prev |-> 0]

(* write_stats_core() *)
WriteCore(prev, cur) ==
    LET st == GlobalSample(prev, cur)
    IN  /\ st_cpu' = st
        /\ mout' = [cpu |-> CpuLines(prev, cur, st), node |-> NodeLines(prev, cur, st),
                    sum |-> SumLines(prev, cur, st), irq |-> IrqLines(prev, cur), prev |-> prev]

(* ------------------------------- the loop ------------------------------- *)

(* The first reading.  Since boot, when there is no interval, the other     *)
(* sample is zeros.                                                          *)
ReadFirst ==
    /\ mpc = "begin"
    /\ reads' = reads + 1
    /\ first' = kern
    /\ LET cpu == ReadCpus
           all == [cpu EXCEPT ![0] = AddCpus(1..cpu_nr, cpu)]
           ref == IF mopt.interval THEN 2 ELSE 1
       IN  /\ st_cpu' = [s \in Slot |-> IF s = 0 \/ (s = 2 /\ ref = 2) THEN all ELSE st_cpu[s]]
           /\ st_irq' = [s \in Slot |-> IF s = 0 \/ (s = 2 /\ ref = 2) THEN ReadIrq(0) ELSE st_irq[s]]
           /\ st_irqcpu' = [s \in Slot |-> IF s = 0 \/ (s = 2 /\ ref = 2) THEN ReadIrqCpu(0)
                                                                         ELSE st_irqcpu[s]]
    /\ mpc' = IF mopt.interval THEN "first" ELSE "boot"
    /\ UNCHANGED <<kern, before, seen, mopt, cpu_nr, irqcpu_nr, mcurr, mcount, mout>>

WriteSinceBoot ==
    /\ mpc = "boot"
    /\ WriteCore(1, 0)
    /\ mpc' = "done"
    /\ UNCHANGED <<kernelVars, mopt, cpu_nr, irqcpu_nr, st_irq, st_irqcpu, mcurr, mcount>>

ReadStats ==
    /\ mpc = "read"
    /\ reads' = reads + 1
    /\ st_cpu' = [st_cpu EXCEPT ![mcurr] = ReadCpus]
    /\ st_irq' = [st_irq EXCEPT ![mcurr] = ReadIrq(mcurr)]
    /\ st_irqcpu' = [st_irqcpu EXCEPT ![mcurr] = ReadIrqCpu(mcurr)]
    /\ mpc' = "write"
    /\ UNCHANGED <<kern, first, before, seen, mopt, cpu_nr, irqcpu_nr, mcurr, mcount, mout>>

WriteStats ==
    /\ mpc = "write"
    /\ WriteCore(1 - mcurr, mcurr)
    /\ mcount' = IF mcount > 0 THEN mcount - 1 ELSE mcount
    /\ mpc' = IF mcount' # 0 THEN "pause" ELSE IF mopt.json THEN "done" ELSE "average"
    /\ UNCHANGED <<kernelVars, mopt, cpu_nr, irqcpu_nr, st_irq, st_irqcpu, mcurr>>

(* write_stats_avg(): not in JSON. *)
Average ==
    /\ mpc = "average"
    /\ WriteCore(2, mcurr)
    /\ mpc' = "done"
    /\ UNCHANGED <<kernelVars, mopt, cpu_nr, irqcpu_nr, st_irq, st_irqcpu, mcurr, mcount>>

(* salloc_mp_struct() for more processors: what it sets to zero starts at    *)
(* pos in every array, and is not where the elements of the new processors   *)
(* are in st_irqcpu.                                                         *)
GrownElement(st, nr, pos, ic, e, g) ==
    IF e >= pos /\ e < pos + (nr - pos) * ic THEN NoIrq
    ELSE IF e \in DOMAIN st THEN st[e] ELSE [name |-> NoName, val |-> g]

Hotplugged(new) ==
    /\ cpu_nr' = new
    /\ irqcpu_nr' = Len(kern'.irqs) + Prealloc
    /\ st_cpu' = [s \in Slot |-> [i \in 0..new |-> IF i <= cpu_nr THEN st_cpu[s][i] ELSE NoCpu]]
    /\ st_irq' = [s \in Slot |-> [i \in 0..new |-> IF i <= cpu_nr THEN st_irq[s][i] ELSE 0]]
    /\ \E g \in Filler :
        st_irqcpu' = [s \in Slot |->
            [e \in 0..((new + 1) * irqcpu_nr' - 1) |->
                GrownElement(st_irqcpu[s], new + 1, cpu_nr + 1, irqcpu_nr', e, g)]]

(* The pause, and after the first one the arrays of processors plugged in. *)
Pause ==
    /\ mpc \in {"first", "pause"} /\ reads < MaxReads
    /\ CpusElapse
    /\ before' = kern
    /\ seen' = [c \in Cpus |->
                 IF c \in Online
                 THEN [ever |-> TRUE, cpu |-> kern.cpu[c], cnt |-> [n \in Names |-> kern.cnt[n][c]]]
                 ELSE seen[c]]
    /\ mcurr' = IF mpc = "pause" THEN 1 - mcurr ELSE mcurr
    /\ IF mpc = "pause" /\ mopt.hotplug /\ kern'.present > cpu_nr
       THEN Hotplugged(kern'.present) ELSE UNCHANGED sampleVars
    /\ mout' = NoReport
    /\ mpc' = "read"
    /\ UNCHANGED <<first, reads, mopt, mcount>>

(* SIGINT or SIGTERM: no average if it arrives in the first interval. *)
Interrupted ==
    /\ \/ mpc = "first" /\ mpc' = "done" /\ UNCHANGED mcount
       \/ mpc = "pause" /\ mcount' = 0 /\ mpc' = IF mopt.json THEN "done" ELSE "average"
    /\ UNCHANGED <<kernelVars, mopt, sampleVars, mcurr, mout>>

Done == mpc = "done" /\ UNCHANGED mpVars

Init ==
    /\ \E S \in SUBSET (2..NFirst), irqs \in IrqLists : kern = Kernel({1} \cup S, irqs)
    /\ first = kern /\ before = kern
    /\ seen = [c \in Cpus |-> [ever |-> FALSE, cpu |-> Idle0, cnt |-> [n \in Names |-> 0]]]
    /\ reads = 0
    /\ mpc = "begin"
    /\ mopt \in MpOptions
    /\ cpu_nr = NFirst
    /\ irqcpu_nr = Len(kern.irqs) + Prealloc
    /\ st_cpu = [s \in Slot |-> [i \in 0..cpu_nr |-> NoCpu]]
    /\ st_irq = [s \in Slot |-> [i \in 0..cpu_nr |-> 0]]
    /\ st_irqcpu = [s \in Slot |-> [e \in Elements |-> NoIrq]]
    /\ mcurr = 1
    /\ mcount = mopt.count
    /\ mout = NoReport

Next ==
    \/ ReadFirst \/ WriteSinceBoot \/ ReadStats \/ WriteStats \/ Average
    \/ Pause \/ Interrupted \/ Done

Spec == Init /\ [][Next]_mpVars

(* ------------------------------ properties ------------------------------ *)

CpuRecords == [up: BOOLEAN, busy: Nat, iowait: Nat, idle: Nat, boots: Nat]

TypeOK ==
    /\ kern.present \in {NFirst, NCpu} /\ kern.irqs \in IrqLists
    /\ kern.cpu \in [Cpus -> CpuRecords]
    /\ mpc \in {"begin", "boot", "first", "read", "write", "pause", "average", "done"}
    /\ mopt \in MpOptions /\ cpu_nr \in {NFirst, NCpu}
    /\ \A i \in Slot :
        /\ st_cpu[i] \in [0..cpu_nr -> [busy: Nat, iowait: Nat, idle: Nat]]
        /\ st_irq[i] \in [0..cpu_nr -> Nat]
        /\ st_irqcpu[i] \in [Elements -> [name: Names \cup {NoName}, val: Nat]]
    /\ mcurr \in {0, 1} /\ reads \in 0..MaxReads

IntervalReport == mopt.interval /\ mout.prev \in {0, 1}

(* A processor that has restarted is recognised by its idle and iowait,      *)
(* which are less than they were; one that has not, by the contrary.         *)
Recognised(k, s) ==
    IF k.boots = s.boots THEN k.iowait >= s.iowait \/ k.idle > s.idle
                         ELSE k.iowait < s.iowait /\ k.idle < s.idle

(* get_global_cpu_mpstats(): a processor is displayed only if it is online   *)
(* and was seen before, and with what it did since then: its values do not   *)
(* jump from zero when it comes back, whatever the number of samples it was  *)
(* missing from, and the average counts from the first sample.               *)
CpuLinesTrue ==
    \A l \in mout.cpu : l.name > 0 =>
        LET k == kern.cpu[l.name]
            s == IF mout.prev = 2 THEN first.cpu[l.name] ELSE seen[l.name].cpu
        IN  /\ IntervalReport => k.up /\ seen[l.name].ever
            /\ mopt.interval => l.busy = k.busy - s.busy
            /\ mopt.interval /\ k.up /\ Recognised(k, s) =>
                /\ l.iowait = IF k.boots # s.boots THEN k.iowait
                              ELSE IF k.iowait < s.iowait THEN 0 ELSE k.iowait - s.iowait
                /\ l.idle = IF k.boots # s.boots THEN k.idle ELSE k.idle - s.idle

(* The line of CPU "all" is the sum of the lines of the processors, and of   *)
(* the lines of the nodes, and its interval the sum of their intervals: its  *)
(* percentages are those of the processors displayed, and add up to 100.     *)
SumsAgree ==
    \A l \in mout.cpu : l.name = 0 /\ mopt.P =>
        LET lines == {m \in mout.cpu : m.name > 0}
            itv == SumFunction([m \in lines |-> m.itv])
        IN  /\ l.busy = SumFunction([m \in lines |-> m.busy])
            /\ l.iowait = SumFunction([m \in lines |-> m.iowait])
            /\ l.idle = SumFunction([m \in lines |-> m.idle])
            /\ l.busy = SumFunction([m \in mout.node |-> m.busy])
            /\ l.idle = SumFunction([m \in mout.node |-> m.idle])
            /\ l.itv \in {1, itv} /\ itv = SumFunction([m \in mout.node |-> m.itv])
            /\ l.itv = l.busy + l.iowait + l.idle \/ (l.busy + l.iowait + l.idle = 0)

(* The processor was read along with this very list at both samples. *)
SameList(p) == kern.irqs = p.irqs /\ kern.reg = p.reg

(* The value displayed for an interrupt is how often it occurred since the   *)
(* sample compared with, whether its place in /proc/interrupts has changed   *)
(* or not, and since it exists if it is new.                                 *)
IrqTrue ==
    \A l \in mout.irq :
        LET p == IF mout.prev = 2 THEN first ELSE before
            since == IF l.irq \in InList(p.irqs) THEN p.cnt[l.irq][l.cpu] ELSE 0
        IN  /\ mopt.interval
            /\ kern.cpu[l.cpu].up /\ p.cpu[l.cpu].up
            /\ l.irq \in InList(p.irqs) => kern.reg[l.irq] = p.reg[l.irq]
            => l.val = kern.cnt[l.irq][l.cpu] - since

(* The same, as long as no processor was plugged in. *)
IrqLinesTrue == cpu_nr = NFirst => IrqTrue

(* fwd_irq_values(): as long as the list of interrupts is the same, those of *)
(* a processor that comes back do not jump from zero either; and its total   *)
(* is the sum of its interrupts.                                             *)
IrqReturns ==
    IntervalReport /\ cpu_nr = NFirst /\ SameList(first) =>
        /\ \A l \in mout.irq : seen[l.cpu].ever =>
            l.val = kern.cnt[l.irq][l.cpu] - seen[l.cpu].cnt[l.irq]
        /\ \A l \in mout.sum : l.cpu > 0 =>
            l.val \in {0, SumFunction([m \in {i \in mout.irq : i.cpu = l.cpu} |-> m.val])}
=============================================================================
