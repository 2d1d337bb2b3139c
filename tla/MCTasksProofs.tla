---------------------------- MODULE MCTasksProofs ----------------------------
(***************************************************************************)
(* Proofs about the reports of mpstat, for any number of processors,       *)
(* interrupts and nodes, whatever they do: what the lines are computed     *)
(* from, and what they add up to.  Then about those of pidstat, for any    *)
(* number of tasks: that its list of tasks is right after each reading,    *)
(* and so its reports.                                                     *)
(***************************************************************************)
EXTENDS MCTasks, SumTheorems

MpAssumptions == TimePasses /\ MpOptionsOK

-----------------------------------------------------------------------------
(* The inductive invariant of the samples of processors.                    *)

Sample == [busy: Nat, iowait: Nat, idle: Nat]
Counts(k) == [busy |-> k.busy, iowait |-> k.iowait, idle |-> k.idle]
Ran(k) == k.busy + k.idle > 0

\* What a later state of a processor has kept of an earlier one.
Later(k, s) ==
  /\ s.busy <= k.busy /\ s.boots <= k.boots
  /\ k.boots = s.boots /\ k.up => s.idle <= k.idle

\* What a reading finds of processor i, and what the first one found.
NowRead(i) == IF kern.cpu[i].up THEN Counts(kern.cpu[i]) ELSE NoCpu
FirstRead(i) == IF first.cpu[i].up THEN Counts(first.cpu[i]) ELSE NoCpu

\* x is what processor i was last seen to have, if it was.
Known(x, i) == x = NoCpu \/ (seen[i].ever /\ x = Counts(seen[i].cpu))

InInterval == {"first", "read", "write", "pause", "average"}
MpLabels == InInterval \cup {"begin", "boot", "done"}

KernelOK ==
  /\ kern.cpu \in [Cpus -> CpuRecords] /\ first.cpu \in [Cpus -> CpuRecords]
  /\ kern.present \in {NFirst, NCpu}
  /\ \A c \in Cpus : c > kern.present => kern.cpu[c] = Idle0
  /\ \A c \in Cpus :
       /\ seen[c].cpu \in CpuRecords /\ seen[c].ever \in BOOLEAN
       /\ kern.cpu[c].up => Ran(kern.cpu[c])
       /\ ~kern.cpu[c].up => kern.cpu[c].iowait = 0 /\ kern.cpu[c].idle = 0
       /\ first.cpu[c].up => Ran(first.cpu[c]) /\ c <= NFirst
       /\ seen[c].ever => Ran(seen[c].cpu)
       /\ Later(kern.cpu[c], seen[c].cpu) /\ Later(kern.cpu[c], first.cpu[c])
       /\ ~kern.cpu[c].up /\ seen[c].ever => kern.cpu[c].busy = seen[c].cpu.busy

MpType ==
  /\ mpc \in MpLabels /\ mopt \in MpOptions /\ cpu_nr \in {NFirst, NCpu} /\ mcurr \in {0, 1}
  /\ mcount \in Int
  /\ st_cpu \in [Slot -> [0..cpu_nr -> Sample]]
  /\ mpc \in InInterval => mopt.interval
  /\ mpc = "boot" => ~mopt.interval
  /\ mpc \in {"begin", "first"} => mcurr = 1
  /\ mpc \in {"begin", "boot", "first", "read", "write"} => mout = NoReport
  /\ mpc \in {"begin", "boot", "first"} => \A c \in Cpus : ~seen[c].ever
  /\ mpc = "begin" => first = kern /\ kern.present = NFirst

CpuSamples ==
  \A i \in 1..cpu_nr :
    /\ mpc = "begin" => \A s \in Slot : st_cpu[s][i] = NoCpu
    /\ mpc \in {"first", "boot"} => st_cpu[0][i] = NowRead(i)
    /\ mpc = "boot" => st_cpu[1][i] = NoCpu
    /\ mpc \in InInterval => st_cpu[2][i] = FirstRead(i)
    /\ mpc \in {"read", "write"} => Known(st_cpu[1 - mcurr][i], i)
    /\ mpc = "write" => st_cpu[mcurr][i] = NowRead(i)
    /\ mpc \in {"pause", "average"} =>
         IF kern.cpu[i].up THEN st_cpu[mcurr][i] = Counts(kern.cpu[i]) ELSE Known(st_cpu[mcurr][i], i)

MpInv == KernelOK /\ MpType /\ CpuSamples

-----------------------------------------------------------------------------
(* Processors in an interval.                                               *)

LEMMA CpuStep ==
  ASSUME TimePasses, NEW k \in CpuRecords, NEW w \in CpuWorks, NEW n \in CpuNext(k, w),
         k.up => Ran(k), ~k.up => k.iowait = 0 /\ k.idle = 0
  PROVE  /\ n \in CpuRecords
         /\ n.up => Ran(n)
         /\ ~n.up => n.iowait = 0 /\ n.idle = 0 /\ n.busy = k.busy
         /\ Later(n, k)
         /\ \A s \in CpuRecords : Later(k, s) => Later(n, s)
<1>1. w[1] \in Nat /\ w[2] \in Int /\ w[3] \in Nat /\ (w[2] >= 0 => w[1] + w[3] > 0)
  BY DEF TimePasses
<1>2. /\ k = [up |-> k.up, busy |-> k.busy, iowait |-> k.iowait, idle |-> k.idle, boots |-> k.boots]
      /\ k.up \in BOOLEAN /\ k.busy \in Nat /\ k.iowait \in Nat /\ k.idle \in Nat /\ k.boots \in Nat
  BY DEF CpuRecords
<1>3. CASE n = [k EXCEPT !.up = FALSE, !.iowait = 0, !.idle = 0]
  <2>1. n = [up |-> FALSE, busy |-> k.busy, iowait |-> 0, idle |-> 0, boots |-> k.boots]
    BY <1>2, <1>3
  <2>2. n \in CpuRecords /\ n.up = FALSE /\ n.busy = k.busy /\ n.iowait = 0 /\ n.idle = 0
        /\ n.boots = k.boots
    BY <1>2, <2>1 DEF CpuRecords
  <2>3. Later(n, k)
    BY <1>2, <2>2 DEF Later
  <2>4. ASSUME NEW s \in CpuRecords, Later(k, s) PROVE Later(n, s)
    BY <2>2, <2>4 DEF Later
  <2> QED
    BY <2>2, <2>3, <2>4
<1>4. CASE k.up /\ k.iowait + w[2] >= 0 /\ n = Working(k, w)
  <2>1. n = [up |-> k.up, busy |-> k.busy + w[1], iowait |-> k.iowait + w[2],
             idle |-> k.idle + w[3], boots |-> k.boots]
    BY <1>2, <1>4 DEF Working
  <2>2. n \in CpuRecords
    BY <1>1, <1>2, <1>4, <2>1 DEF CpuRecords
  <2>3. /\ n.up /\ n.busy = k.busy + w[1] /\ n.iowait = k.iowait + w[2] /\ n.idle = k.idle + w[3]
        /\ n.boots = k.boots
    BY <1>4, <2>1
  <2>4. Ran(n)
    BY <1>1, <1>2, <1>4, <2>3 DEF Ran
  <2>5. Later(n, k)
    BY <1>1, <1>2, <2>3 DEF Later
  <2>6. ASSUME NEW s \in CpuRecords, Later(k, s) PROVE Later(n, s)
    <3>1. s.busy \in Nat /\ s.idle \in Nat /\ s.boots \in Nat
      BY DEF CpuRecords
    <3>2. s.busy <= k.busy /\ s.boots <= k.boots /\ (k.boots = s.boots => s.idle <= k.idle)
      BY <1>4, <2>6 DEF Later
    <3> QED
      BY <1>1, <1>2, <2>3, <3>1, <3>2 DEF Later
  <2> QED
    BY <2>2, <2>3, <2>4, <2>5, <2>6
<1>5. CASE ~k.up /\ w[2] >= 0 /\ n = Working([k EXCEPT !.up = TRUE, !.boots = @ + 1], w)
  <2>1. n = [up |-> TRUE, busy |-> k.busy + w[1], iowait |-> k.iowait + w[2],
             idle |-> k.idle + w[3], boots |-> k.boots + 1]
    BY <1>2, <1>5 DEF Working
  <2>2. n \in CpuRecords
    <3>1. /\ k.busy + w[1] \in Nat /\ k.iowait + w[2] \in Nat /\ k.idle + w[3] \in Nat
          /\ k.boots + 1 \in Nat
      BY <1>1, <1>2, <1>5
    <3> QED
      BY <2>1, <3>1 DEF CpuRecords
  <2>3. /\ n.up /\ n.busy = k.busy + w[1] /\ n.idle = k.idle + w[3]
        /\ n.boots = k.boots + 1
    BY <2>1
  <2>4. Ran(n)
    BY <1>1, <1>2, <1>5, <2>3 DEF Ran
  <2>5. Later(n, k)
    BY <1>1, <1>2, <2>3 DEF Later
  <2>6. ASSUME NEW s \in CpuRecords, Later(k, s) PROVE Later(n, s)
    <3>1. s.busy \in Nat /\ s.boots \in Nat
      BY DEF CpuRecords
    <3>2. s.busy <= k.busy /\ s.boots <= k.boots
      BY <2>6 DEF Later
    <3> QED
      BY <1>1, <1>2, <2>3, <3>1, <3>2 DEF Later
  <2> QED
    BY <2>2, <2>3, <2>4, <2>5, <2>6
<1>6. \/ n = [k EXCEPT !.up = FALSE, !.iowait = 0, !.idle = 0]
      \/ k.up /\ ~(k.iowait + w[2] < 0) /\ n = Working(k, w)
      \/ ~k.up /\ ~(w[2] < 0) /\ n = Working([k EXCEPT !.up = TRUE, !.boots = @ + 1], w)
  BY Zenon DEF CpuNext
<1> QED
  BY <1>1, <1>2, <1>3, <1>4, <1>5, <1>6

\* What the kernel shows after an interval.
Passed(w, irqs, present, cpu) ==
  /\ \A c \in Cpus : cpu[c] \in IF c <= present THEN CpuNext(kern.cpu[c], w[c]) ELSE {Idle0}
  /\ cpu[1].up
  /\ kern' = [present |-> present, cpu |-> cpu, irqs |-> irqs,
              cnt |-> [n \in Names |-> [c \in Cpus |->
                  IF n \notin InList(irqs) THEN 0
                  ELSE (IF n \in InList(kern.irqs) THEN kern.cnt[n][c] ELSE 0)
                       + (IF cpu[c].up THEN w[c][4] * Weight[n] ELSE 0)]],
              reg |-> [n \in Names |->
                  IF n \in InList(irqs) \ InList(kern.irqs) THEN kern.reg[n] + 1 ELSE kern.reg[n]]]

LEMMA ElapsedCpus ==
  CpusElapse <=>
    \E w \in [Cpus -> CpuWorks], irqs \in IrqLists, present \in {kern.present, NCpu} :
      \E cpu \in [Cpus -> UNION {CpuNext(kern.cpu[c], w[c]) : c \in Cpus}] :
        Passed(w, irqs, present, cpu)
  BY Zenon DEF CpusElapse, Passed

\* What is left of the processors after an interval.
CpusLater ==
  /\ kern'.present \in {NFirst, NCpu}
  /\ kern'.cpu \in [Cpus -> CpuRecords]
  /\ \A c \in Cpus : c > kern'.present => kern'.cpu[c] = Idle0
  /\ \A c \in Cpus :
       /\ kern'.cpu[c].up => Ran(kern'.cpu[c])
       /\ ~kern'.cpu[c].up => /\ kern'.cpu[c].iowait = 0 /\ kern'.cpu[c].idle = 0
                             /\ kern'.cpu[c].busy = kern.cpu[c].busy
       /\ Later(kern'.cpu[c], kern.cpu[c])
       /\ \A s \in CpuRecords : Later(kern.cpu[c], s) => Later(kern'.cpu[c], s)

LEMMA CpusStep ==
  ASSUME TimePasses, KernelOK, CpusElapse
  PROVE  CpusLater
<1>1. PICK w \in [Cpus -> CpuWorks], irqs \in IrqLists, present \in {kern.present, NCpu} :
        \E cpu \in [Cpus -> UNION {CpuNext(kern.cpu[c], w[c]) : c \in Cpus}] :
          Passed(w, irqs, present, cpu)
  BY ElapsedCpus
<1>2. PICK cpu \in [Cpus -> UNION {CpuNext(kern.cpu[c], w[c]) : c \in Cpus}] :
            /\ \A c \in Cpus : cpu[c] \in IF c <= present THEN CpuNext(kern.cpu[c], w[c]) ELSE {Idle0}
            /\ kern'.cpu = cpu /\ kern'.present = present
  BY <1>1 DEF Passed
<1>3. present \in {NFirst, NCpu} /\ present >= kern.present
  BY MpstatAssumption DEF KernelOK
<1>4. ASSUME NEW c \in Cpus
      PROVE  /\ cpu[c] \in CpuRecords
             /\ cpu[c].up => Ran(cpu[c])
             /\ ~cpu[c].up => cpu[c].iowait = 0 /\ cpu[c].idle = 0 /\ cpu[c].busy = kern.cpu[c].busy
             /\ Later(cpu[c], kern.cpu[c])
             /\ \A s \in CpuRecords : Later(kern.cpu[c], s) => Later(cpu[c], s)
  <2>1. /\ kern.cpu[c] \in CpuRecords /\ w[c] \in CpuWorks
        /\ kern.cpu[c].up => Ran(kern.cpu[c])
        /\ ~kern.cpu[c].up => kern.cpu[c].iowait = 0 /\ kern.cpu[c].idle = 0
        /\ c > kern.present => kern.cpu[c] = Idle0
    BY DEF KernelOK
  <2>2. CASE c <= present
    <3>1. cpu[c] \in CpuNext(kern.cpu[c], w[c])
      BY <1>2, <2>2
    <3> QED
      BY <2>1, <3>1, CpuStep
  <2>3. CASE ~(c <= present)
    <3>1. cpu[c] = Idle0
      BY <1>2, <2>3
    <3>2. c > kern.present
      BY <1>3, <2>3, MpstatAssumption DEF Cpus
    <3>3. kern.cpu[c] = Idle0
      BY <2>1, <3>2
    <3>4. Idle0 \in CpuRecords /\ ~Idle0.up /\ Idle0.iowait = 0 /\ Idle0.idle = 0
      BY DEF Idle0, CpuRecords
    <3> QED
      BY <3>1, <3>3, <3>4 DEF Later, CpuRecords
  <2> QED
    BY <2>2, <2>3
<1>5. cpu \in [Cpus -> CpuRecords]
  BY <1>2, <1>4
<1>6. \A c \in Cpus : c > present => cpu[c] = Idle0
  <2> SUFFICES ASSUME NEW c \in Cpus, c > present PROVE cpu[c] = Idle0
    OBVIOUS
  <2>1. ~(c <= present)
    BY <1>3, MpstatAssumption DEF Cpus
  <2> QED
    BY <1>2, <2>1
<1> QED
  BY <1>2, <1>3, <1>4, <1>5, <1>6 DEF CpusLater

-----------------------------------------------------------------------------
(* The samples of a report.                                                 *)

LEMMA CorrectedOK ==
  ASSUME NEW c \in Sample, NEW p \in Sample
  PROVE  /\ Corrected(c, p) \in Sample
         /\ Corrected(c, p).busy = p.busy
         /\ Corrected(c, p).iowait = IF c.iowait >= p.iowait THEN p.iowait
                                     ELSE IF c.idle > p.idle THEN c.iowait ELSE 0
         /\ Corrected(c, p).idle = IF c.idle < p.idle THEN 0 ELSE p.idle
<1> DEFINE io == IF c.iowait >= p.iowait THEN p.iowait
                 ELSE IF c.idle > p.idle THEN c.iowait ELSE 0
           id == IF c.idle < p.idle THEN 0 ELSE p.idle
<1>1. /\ p = [busy |-> p.busy, iowait |-> p.iowait, idle |-> p.idle]
      /\ p.busy \in Nat /\ p.iowait \in Nat /\ p.idle \in Nat /\ c.iowait \in Nat
  BY DEF Sample
<1>2. io \in Nat /\ id \in Nat
  BY <1>1
<1>3. Corrected(c, p) = [p EXCEPT !.iowait = io, !.idle = id]
  BY DEF Corrected
<1> HIDE DEF io, id
<1>4. Corrected(c, p) = [busy |-> p.busy, iowait |-> io, idle |-> id]
  BY <1>1, <1>3
<1>5. Corrected(c, p) \in Sample
  BY <1>1, <1>2, <1>4 DEF Sample
<1> QED
  BY <1>4, <1>5 DEF io, id

LEMMA AddCpusIs ==
  ASSUME NEW S, IsFiniteSet(S), NEW s, \A i \in S : s[i] \in Sample
  PROVE  /\ AddCpus(S, s) \in Sample
         /\ AddCpus(S, s).busy = SumFunctionOnSet([i \in S |-> s[i].busy], S)
         /\ AddCpus(S, s).iowait = SumFunctionOnSet([i \in S |-> s[i].iowait], S)
         /\ AddCpus(S, s).idle = SumFunctionOnSet([i \in S |-> s[i].idle], S)
<1> DEFINE b == [i \in S |-> s[i].busy]
           w == [i \in S |-> s[i].iowait]
           d == [i \in S |-> s[i].idle]
<1>1. DOMAIN b = S /\ DOMAIN w = S /\ DOMAIN d = S
  OBVIOUS
<1>2. Nats(b, S) /\ Nats(w, S) /\ Nats(d, S)
  BY DEF Nats, Sample
<1> HIDE DEF b, w, d
<1>3. AddCpus(S, s) = [busy |-> SumFunctionOnSet(b, S), iowait |-> SumFunctionOnSet(w, S),
                      idle |-> SumFunctionOnSet(d, S)]
  BY <1>1, Zenon DEF AddCpus, SumFunction, b, w, d
<1>4. SumFunctionOnSet(b, S) \in Nat /\ SumFunctionOnSet(w, S) \in Nat /\ SumFunctionOnSet(d, S) \in Nat
  BY <1>2, SumIsNat
<1>5. AddCpus(S, s) \in Sample
  BY <1>3, <1>4 DEF Sample
<1>6. /\ AddCpus(S, s).busy = SumFunctionOnSet(b, S) /\ AddCpus(S, s).iowait = SumFunctionOnSet(w, S)
      /\ AddCpus(S, s).idle = SumFunctionOnSet(d, S)
  BY <1>3
<1> QED
  BY <1>5, <1>6 DEF b, w, d

LEMMA Numbers ==
  /\ NCpu \in Nat /\ NFirst \in Nat /\ NFirst <= NCpu /\ 2 <= NFirst /\ 1 \in Cpus
  /\ \A n \in {NFirst, NCpu} : n \in Nat /\ 1..n \subseteq Cpus /\ IsFiniteSet(1..n)
<1>1. \A n \in Nat : IsFiniteSet(1..n)
  BY FS_Interval
<1> QED
  BY <1>1, MpstatAssumption DEF Cpus

\* The processors that CPU "all" is the sum of, and their values.
Measured(prev) == (1..cpu_nr) \ Unreferenced(prev)
NowOf(prev, cur) == [i \in 1..cpu_nr |-> Forwarded(prev, cur, i)]
WasOf(prev, cur) == [i \in 1..cpu_nr |-> Reference(prev, cur, i)]

LEMMA ValuesOf ==
  ASSUME MpType, NEW prev \in Slot, NEW cur \in Slot, NEW i \in 1..cpu_nr
  PROVE  /\ st_cpu[prev][i] \in Sample /\ st_cpu[cur][i] \in Sample
         /\ Forwarded(prev, cur, i) \in Sample /\ Reference(prev, cur, i) \in Sample
<1>1. i \in 0..cpu_nr
  BY Numbers DEF MpType
<1>2. st_cpu[prev][i] \in Sample /\ st_cpu[cur][i] \in Sample
  BY <1>1 DEF MpType
<1>3. Forwarded(prev, cur, i) \in Sample
  BY <1>2 DEF Forwarded
<1> QED
  BY <1>2, <1>3, CorrectedOK DEF Reference

LEMMA GlobalIs ==
  ASSUME MpType, NEW prev \in Slot, NEW cur \in Slot, prev # cur
  PROVE  LET st == GlobalSample(prev, cur)
         IN  /\ st \in [Slot -> [0..cpu_nr -> Sample]]
             /\ \A i \in 1..cpu_nr : /\ st[cur][i] = Forwarded(prev, cur, i)
                                     /\ st[prev][i] = Reference(prev, cur, i)
             /\ st[cur][0] = AddCpus(Measured(prev), NowOf(prev, cur))
             /\ st[prev][0] = AddCpus(Measured(prev), WasOf(prev, cur))
             /\ \A s \in Slot \ {prev, cur} : st[s] = st_cpu[s]
<1> DEFINE now == [i \in 0..cpu_nr |-> IF i = 0 THEN AddCpus(Measured(prev), NowOf(prev, cur))
                                                ELSE NowOf(prev, cur)[i]]
           was == [i \in 0..cpu_nr |-> IF i = 0 THEN AddCpus(Measured(prev), WasOf(prev, cur))
                                                ELSE WasOf(prev, cur)[i]]
<1>1. cpu_nr \in Nat /\ IsFiniteSet(1..cpu_nr)
  BY Numbers DEF MpType
<1>2. GlobalSample(prev, cur) = [st_cpu EXCEPT ![cur] = now, ![prev] = was]
  BY Zenon DEF GlobalSample, Measured, NowOf, WasOf
<1>3. IsFiniteSet(Measured(prev)) /\ Measured(prev) \subseteq 1..cpu_nr
  BY <1>1, FS_Subset DEF Measured
<1>4. \A i \in 1..cpu_nr : /\ Forwarded(prev, cur, i) \in Sample /\ Reference(prev, cur, i) \in Sample
                          /\ NowOf(prev, cur)[i] = Forwarded(prev, cur, i)
                          /\ WasOf(prev, cur)[i] = Reference(prev, cur, i)
  BY ValuesOf DEF NowOf, WasOf
<1>5. /\ AddCpus(Measured(prev), NowOf(prev, cur)) \in Sample
      /\ AddCpus(Measured(prev), WasOf(prev, cur)) \in Sample
  BY <1>3, <1>4, AddCpusIs
<1>6. now \in [0..cpu_nr -> Sample] /\ was \in [0..cpu_nr -> Sample]
  BY <1>1, <1>4, <1>5
<1>7. /\ now[0] = AddCpus(Measured(prev), NowOf(prev, cur))
      /\ was[0] = AddCpus(Measured(prev), WasOf(prev, cur))
      /\ \A i \in 1..cpu_nr : now[i] = Forwarded(prev, cur, i) /\ was[i] = Reference(prev, cur, i)
  BY <1>1, <1>4
<1> HIDE DEF now, was
<1>8. st_cpu \in [Slot -> [0..cpu_nr -> Sample]]
  BY DEF MpType
<1>9. /\ GlobalSample(prev, cur) \in [Slot -> [0..cpu_nr -> Sample]]
      /\ GlobalSample(prev, cur)[cur] = now /\ GlobalSample(prev, cur)[prev] = was
      /\ \A s \in Slot \ {prev, cur} : GlobalSample(prev, cur)[s] = st_cpu[s]
  BY <1>2, <1>6, <1>8
<1> QED
  BY <1>7, <1>9

-----------------------------------------------------------------------------
(* The lines of processors.                                                 *)

\* What CpuLinesTrue says of a line l, k being the processor and s what it was.
CpuTold(l, k, s) ==
  /\ l.busy = k.busy - s.busy
  /\ k.up /\ Recognised(k, s) =>
       /\ l.iowait = IF k.boots # s.boots THEN k.iowait
                     ELSE IF k.iowait < s.iowait THEN 0 ELSE k.iowait - s.iowait
       /\ l.idle = IF k.boots # s.boots THEN k.idle ELSE k.idle - s.idle

LEMMA CountsOK ==
  ASSUME NEW k \in CpuRecords
  PROVE  /\ Counts(k) \in Sample
         /\ Counts(k).busy = k.busy /\ Counts(k).iowait = k.iowait /\ Counts(k).idle = k.idle
         /\ Ran(k) => Total(Counts(k)) # 0
  BY DEF CpuRecords, Counts, Sample, Ran, Total

LEMMA LineTells ==
  ASSUME NEW k \in CpuRecords, NEW s \in CpuRecords, Later(k, s), NEW c \in Sample, c.busy = k.busy,
         k.up => c = Counts(k), NEW i, NEW itv
  PROVE  CpuTold(LineOf(i, c, Corrected(c, Counts(s)), itv), k, s)
<1> DEFINE p == Corrected(c, Counts(s))
           l == LineOf(i, c, p, itv)
<1>1. /\ p \in Sample /\ p.busy = s.busy
      /\ p.iowait = IF c.iowait >= s.iowait THEN s.iowait ELSE IF c.idle > s.idle THEN c.iowait ELSE 0
      /\ p.idle = IF c.idle < s.idle THEN 0 ELSE s.idle
  BY CorrectedOK, CountsOK
<1> HIDE DEF p
<1>2. l.busy = Delta(p.busy, c.busy) /\ l.iowait = Delta(p.iowait, c.iowait) /\ l.idle = Delta(p.idle, c.idle)
  BY DEF LineOf
<1> HIDE DEF l
<1>3. /\ k.busy \in Nat /\ k.iowait \in Nat /\ k.idle \in Nat /\ k.boots \in Nat
      /\ s.busy \in Nat /\ s.iowait \in Nat /\ s.idle \in Nat /\ s.boots \in Nat
  BY DEF CpuRecords
<1>4. s.busy <= k.busy
  BY DEF Later
<1>5. l.busy = k.busy - s.busy
  BY <1>1, <1>2, <1>3, <1>4 DEF Delta
<1>6. ASSUME k.up, Recognised(k, s)
      PROVE  /\ l.iowait = IF k.boots # s.boots THEN k.iowait
                           ELSE IF k.iowait < s.iowait THEN 0 ELSE k.iowait - s.iowait
             /\ l.idle = IF k.boots # s.boots THEN k.idle ELSE k.idle - s.idle
  <2>1. c.iowait = k.iowait /\ c.idle = k.idle
    BY <1>6, CountsOK
  <2>2. CASE k.boots = s.boots
    <3>1. (k.iowait >= s.iowait \/ k.idle > s.idle) /\ s.idle <= k.idle
      BY <1>6, <2>2 DEF Recognised, Later
    <3> QED
      BY <1>1, <1>2, <1>3, <2>1, <2>2, <3>1 DEF Delta
  <2>3. CASE k.boots # s.boots
    <3>1. k.iowait < s.iowait /\ k.idle < s.idle
      BY <1>6, <2>3 DEF Recognised
    <3> QED
      BY <1>1, <1>2, <1>3, <2>1, <2>3, <3>1 DEF Delta
  <2> QED
    BY <2>2, <2>3
<1> QED
  BY <1>5, <1>6 DEF CpuTold, l, p

\* The line of a processor in a report.
LEMMA ShownLine ==
  ASSUME MpType, NEW prev \in Slot, NEW cur \in Slot, prev # cur,
         NEW l \in CpuLines(prev, cur, GlobalSample(prev, cur)), l.name > 0
  PROVE  \E i \in 1..cpu_nr :
           /\ l.name = i /\ Total(st_cpu[cur][i]) # 0 /\ (mopt.interval => Total(st_cpu[prev][i]) # 0)
           /\ \E itv : l = LineOf(i, st_cpu[cur][i], Corrected(st_cpu[cur][i], st_cpu[prev][i]), itv)
<1> DEFINE st == GlobalSample(prev, cur)
<1>1. PICK i \in CpuShown(prev, cur) :
        l = LineOf(i, st[cur][i], st[prev][i],
                   IF i = 0 THEN GlobalInterval(prev, cur) ELSE CpuInterval(st[cur][i], st[prev][i]))
  BY Zenon DEF CpuLines
<1>2. PICK itv : l = LineOf(i, st[cur][i], st[prev][i], itv)
  BY <1>1
<1>3. l.name = i
  BY <1>2 DEF LineOf
<1>4. i \in 1..cpu_nr /\ i \notin Offline(prev, cur)
  <2>1. i # 0
    BY <1>3
  <2>2. mopt.P /\ i \in (0..cpu_nr) \ Offline(prev, cur)
    BY <2>1 DEF CpuShown
  <2> QED
    BY <2>1, <2>2, Numbers DEF MpType
<1>5. i \notin NotRead(cur) /\ i \notin Unreferenced(prev)
  BY <1>4 DEF Offline
<1>6. Total(st_cpu[cur][i]) # 0 /\ (mopt.interval => Total(st_cpu[prev][i]) # 0)
  BY <1>4, <1>5 DEF NotRead, Unreferenced
<1>7. Forwarded(prev, cur, i) = st_cpu[cur][i]
  BY <1>5 DEF Forwarded
<1>8. Reference(prev, cur, i) = Corrected(st_cpu[cur][i], st_cpu[prev][i])
  BY <1>5, <1>7 DEF Reference
<1>9. st[cur][i] = Forwarded(prev, cur, i) /\ st[prev][i] = Reference(prev, cur, i)
  BY <1>4, GlobalIs
<1> HIDE DEF st
<1>10. l = LineOf(i, st_cpu[cur][i], Corrected(st_cpu[cur][i], st_cpu[prev][i]), itv)
  BY <1>2, <1>7, <1>8, <1>9
<1> QED
  BY <1>3, <1>4, <1>6, <1>10

\* The report of an interval, and the average.
LEMMA IntervalLines ==
  ASSUME MpInv, mpc = "write", NEW l \in CpuLines(1 - mcurr, mcurr, GlobalSample(1 - mcurr, mcurr)), l.name > 0
  PROVE  /\ l.name \in Cpus /\ kern.cpu[l.name].up /\ seen[l.name].ever
         /\ CpuTold(l, kern.cpu[l.name], seen[l.name].cpu)
<1>1. MpType /\ KernelOK /\ mopt.interval /\ mcurr \in {0, 1}
  BY DEF MpInv, MpType, InInterval
<1>2. mcurr \in Slot /\ 1 - mcurr \in Slot /\ mcurr # 1 - mcurr
  BY <1>1 DEF Slot
<1>3. PICK i \in 1..cpu_nr :
        /\ l.name = i /\ Total(st_cpu[mcurr][i]) # 0 /\ Total(st_cpu[1 - mcurr][i]) # 0
        /\ \E itv : l = LineOf(i, st_cpu[mcurr][i], Corrected(st_cpu[mcurr][i], st_cpu[1 - mcurr][i]), itv)
  BY <1>1, <1>2, ShownLine
<1>4. i \in Cpus
  BY <1>1, Numbers DEF MpType
<1>5. st_cpu[mcurr][i] = NowRead(i) /\ Known(st_cpu[1 - mcurr][i], i)
  BY DEF MpInv, CpuSamples
<1>6. Total(NoCpu) = 0
  BY DEF Total, NoCpu
<1>7. kern.cpu[i].up /\ st_cpu[mcurr][i] = Counts(kern.cpu[i])
  BY <1>3, <1>5, <1>6 DEF NowRead
<1>8. seen[i].ever /\ st_cpu[1 - mcurr][i] = Counts(seen[i].cpu)
  BY <1>3, <1>5, <1>6 DEF Known
<1>9. kern.cpu[i] \in CpuRecords /\ seen[i].cpu \in CpuRecords /\ Later(kern.cpu[i], seen[i].cpu)
  BY <1>1, <1>4 DEF KernelOK
<1>10. CpuTold(l, kern.cpu[i], seen[i].cpu)
  BY <1>3, <1>7, <1>8, <1>9, CountsOK, LineTells
<1> QED
  BY <1>3, <1>4, <1>7, <1>8, <1>10

LEMMA AverageLines ==
  ASSUME MpInv, mpc = "average", NEW l \in CpuLines(2, mcurr, GlobalSample(2, mcurr)), l.name > 0
  PROVE  l.name \in Cpus /\ CpuTold(l, kern.cpu[l.name], first.cpu[l.name])
<1>1. MpType /\ KernelOK /\ mopt.interval /\ mcurr \in {0, 1}
  BY DEF MpInv, MpType, InInterval
<1>2. mcurr \in Slot /\ 2 \in Slot /\ mcurr # 2
  BY <1>1 DEF Slot
<1>3. PICK i \in 1..cpu_nr :
        /\ l.name = i /\ Total(st_cpu[mcurr][i]) # 0 /\ Total(st_cpu[2][i]) # 0
        /\ \E itv : l = LineOf(i, st_cpu[mcurr][i], Corrected(st_cpu[mcurr][i], st_cpu[2][i]), itv)
  BY <1>1, <1>2, ShownLine
<1>4. i \in Cpus
  BY <1>1, Numbers DEF MpType
<1>5. /\ st_cpu[2][i] = FirstRead(i)
      /\ IF kern.cpu[i].up THEN st_cpu[mcurr][i] = Counts(kern.cpu[i]) ELSE Known(st_cpu[mcurr][i], i)
  BY DEF MpInv, CpuSamples, InInterval
<1>6. Total(NoCpu) = 0
  BY DEF Total, NoCpu
<1>7. st_cpu[2][i] = Counts(first.cpu[i])
  BY <1>3, <1>5, <1>6 DEF FirstRead
<1>8. /\ kern.cpu[i] \in CpuRecords /\ first.cpu[i] \in CpuRecords /\ Later(kern.cpu[i], first.cpu[i])
      /\ seen[i].cpu \in CpuRecords
      /\ ~kern.cpu[i].up /\ seen[i].ever => kern.cpu[i].busy = seen[i].cpu.busy
  BY <1>1, <1>4 DEF KernelOK
<1>9. st_cpu[mcurr][i] \in Sample /\ st_cpu[mcurr][i].busy = kern.cpu[i].busy
  <2>1. CASE kern.cpu[i].up
    BY <1>5, <1>8, <2>1, CountsOK
  <2>2. CASE ~kern.cpu[i].up
    <3>1. seen[i].ever /\ st_cpu[mcurr][i] = Counts(seen[i].cpu)
      BY <1>3, <1>5, <1>6, <2>2 DEF Known
    <3> QED
      BY <1>8, <2>2, <3>1, CountsOK
  <2> QED
    BY <2>1, <2>2
<1>10. CpuTold(l, kern.cpu[i], first.cpu[i])
  BY <1>3, <1>5, <1>7, <1>8, <1>9, LineTells
<1> QED
  BY <1>3, <1>4, <1>10

-----------------------------------------------------------------------------
(* The invariant is inductive.                                              *)

LEMMA ReadCpusIs ==
  ASSUME KernelOK, MpType
  PROVE  /\ ReadCpus \in [0..cpu_nr -> Sample]
         /\ \A i \in 1..cpu_nr : ReadCpus[i] = NowRead(i)
<1>1. cpu_nr \in Nat /\ 1..cpu_nr \subseteq Cpus
  BY Numbers DEF MpType
<1>2. NoCpu \in Sample
  BY DEF NoCpu, Sample
<1>3. \A c \in Cpus : CpuCount(c) = Counts(kern.cpu[c]) /\ Counts(kern.cpu[c]) \in Sample
  BY CountsOK DEF KernelOK, CpuCount, Counts
<1>4. \A i \in 0..cpu_nr : ReadCpus[i] = IF i \in Online THEN CpuCount(i) ELSE NoCpu
  BY DEF ReadCpus
<1>5. \A i \in 0..cpu_nr : ReadCpus[i] \in Sample
  BY <1>2, <1>3, <1>4 DEF Online
<1>6. ASSUME NEW i \in 1..cpu_nr PROVE ReadCpus[i] = NowRead(i)
  <2>1. i \in Cpus /\ i \in 0..cpu_nr
    BY <1>1
  <2> QED
    BY <1>3, <1>4, <2>1 DEF Online, NowRead
<1>7. ReadCpus \in [0..cpu_nr -> Sample]
  BY <1>5 DEF ReadCpus
<1> QED
  BY <1>6, <1>7

LEMMA InitOK ==
  ASSUME MpAssumptions, Init
  PROVE  MpInv
<1>1. PICK S \in SUBSET (2..NFirst), irqs \in IrqLists : kern = Kernel({1} \cup S, irqs)
  BY Zenon DEF Init
<1> DEFINE up == {1} \cup S
<1>2. \A c \in up : c <= NFirst
  BY Numbers
<1> HIDE DEF up
<1>3. /\ kern.present = NFirst
      /\ kern.cpu = [c \in Cpus |-> IF c \in up THEN Booted ELSE Idle0]
  BY <1>1 DEF Kernel, up
<1>4. ASSUME NEW c \in Cpus
      PROVE  /\ kern.cpu[c] \in CpuRecords
             /\ c > NFirst => kern.cpu[c] = Idle0
             /\ kern.cpu[c].up => Ran(kern.cpu[c]) /\ c <= NFirst
             /\ ~kern.cpu[c].up => kern.cpu[c].iowait = 0 /\ kern.cpu[c].idle = 0
             /\ Later(kern.cpu[c], Idle0) /\ Later(kern.cpu[c], kern.cpu[c])
  <2>1. CASE c \in up
    <3>1. kern.cpu[c] = [up |-> TRUE, busy |-> 1, iowait |-> 1, idle |-> 1, boots |-> 0]
      BY <1>3, <2>1 DEF Booted
    <3>2. c <= NFirst /\ ~(c > NFirst)
      BY <1>2, <2>1, Numbers DEF Cpus
    <3> QED
      BY <3>1, <3>2 DEF CpuRecords, Ran, Later, Idle0
  <2>2. CASE c \notin up
    <3>1. kern.cpu[c] = [up |-> FALSE, busy |-> 0, iowait |-> 0, idle |-> 0, boots |-> 0]
      BY <1>3, <2>2 DEF Idle0
    <3> QED
      BY <3>1 DEF CpuRecords, Ran, Later, Idle0
  <2> QED
    BY <2>1, <2>2
<1>5. first = kern /\ \A c \in Cpus : seen[c].cpu = Idle0 /\ seen[c].ever = FALSE
  BY DEF Init
<1>6. Idle0 \in CpuRecords
  BY DEF Idle0, CpuRecords
<1>7. kern.cpu \in [Cpus -> CpuRecords]
  BY <1>3, <1>4
<1>8. KernelOK
  BY <1>3, <1>4, <1>5, <1>6, <1>7 DEF KernelOK
<1>9. /\ mpc = "begin" /\ mopt \in MpOptions /\ cpu_nr = NFirst /\ mcurr = 1 /\ mout = NoReport
      /\ mcount = mopt.count /\ st_cpu = [s \in Slot |-> [i \in 0..cpu_nr |-> NoCpu]]
  BY DEF Init
<1>10. mcount \in Int
  BY <1>9 DEF MpAssumptions, MpOptionsOK
<1>11. NoCpu \in Sample
  BY DEF NoCpu, Sample
<1>12. MpType
  BY <1>3, <1>5, <1>9, <1>10, <1>11 DEF MpType, MpLabels, InInterval
<1>13. CpuSamples
  BY <1>9, Numbers DEF CpuSamples, InInterval
<1> QED
  BY <1>8, <1>12, <1>13 DEF MpInv

LEMMA ReadFirstOK ==
  ASSUME MpInv, ReadFirst
  PROVE  MpInv'
<1>1. KernelOK /\ MpType /\ CpuSamples
  BY DEF MpInv
<1>2. /\ mpc = "begin" /\ first' = kern
      /\ mpc' = IF mopt.interval THEN "first" ELSE "boot"
      /\ UNCHANGED <<kern, seen, mopt, cpu_nr, mcurr, mcount, mout>>
  BY Zenon DEF ReadFirst
<1> DEFINE all == [ReadCpus EXCEPT ![0] = AddCpus(1..cpu_nr, ReadCpus)]
           ref == IF mopt.interval THEN 2 ELSE 1
<1>3. st_cpu' = [s \in Slot |-> IF s = 0 \/ (s = 2 /\ ref = 2) THEN all ELSE st_cpu[s]]
  BY Zenon DEF ReadFirst
<1>4. cpu_nr \in Nat /\ IsFiniteSet(1..cpu_nr)
  BY <1>1, Numbers DEF MpType
<1>5. AddCpus(1..cpu_nr, ReadCpus) \in Sample
  <2>1. \A i \in 1..cpu_nr : ReadCpus[i] \in Sample
    BY <1>1, <1>4, ReadCpusIs
  <2> QED
    BY <1>4, <2>1, AddCpusIs
<1>6. all \in [0..cpu_nr -> Sample] /\ \A i \in 1..cpu_nr : all[i] = NowRead(i)
  BY <1>1, <1>4, <1>5, ReadCpusIs
<1> HIDE DEF all
<1>7. /\ st_cpu' \in [Slot -> [0..cpu_nr -> Sample]]
      /\ st_cpu'[0] = all
      /\ mopt.interval => st_cpu'[2] = all
      /\ ~mopt.interval => st_cpu'[1] = st_cpu[1]
  BY <1>1, <1>3, <1>6 DEF MpType, Slot
<1>8. KernelOK'
  <2>1. ASSUME NEW c \in Cpus PROVE Later(kern.cpu[c], kern.cpu[c])
    BY <1>1 DEF KernelOK, CpuRecords, Later
  <2>2. \A c \in Cpus : kern.cpu[c].up => c <= NFirst
    BY <1>1, <1>2 DEF KernelOK, MpType
  <2> QED
    BY <1>1, <1>2, <2>1, <2>2 DEF KernelOK
<1>9. MpType'
  BY <1>1, <1>2, <1>7 DEF MpType, MpLabels, InInterval
<1>10. CpuSamples'
  <2> SUFFICES ASSUME NEW i \in 1..cpu_nr
               PROVE  /\ st_cpu'[0][i] = NowRead(i)
                      /\ ~mopt.interval => st_cpu'[1][i] = NoCpu
                      /\ mopt.interval => st_cpu'[2][i] = NowRead(i)
    BY <1>2 DEF CpuSamples, InInterval, NowRead, FirstRead
  <2>1. st_cpu[1][i] = NoCpu
    BY <1>1, <1>2 DEF CpuSamples, Slot
  <2> QED
    BY <1>6, <1>7, <2>1
<1> QED
  BY <1>8, <1>9, <1>10 DEF MpInv

LEMMA ReadStatsOK ==
  ASSUME MpInv, ReadStats
  PROVE  MpInv'
<1>1. KernelOK /\ MpType /\ CpuSamples
  BY DEF MpInv
<1>2. /\ mpc = "read" /\ mpc' = "write" /\ st_cpu' = [st_cpu EXCEPT ![mcurr] = ReadCpus]
      /\ UNCHANGED <<kern, first, seen, mopt, cpu_nr, mcurr, mcount, mout>>
  BY Zenon DEF ReadStats
<1>3. mcurr \in Slot /\ 1 - mcurr \in Slot /\ mcurr # 1 - mcurr /\ mcurr # 2
  BY <1>1 DEF MpType, Slot
<1>4. /\ st_cpu' \in [Slot -> [0..cpu_nr -> Sample]]
      /\ st_cpu'[mcurr] = ReadCpus /\ st_cpu'[2] = st_cpu[2] /\ st_cpu'[1 - mcurr] = st_cpu[1 - mcurr]
  BY <1>1, <1>2, <1>3, ReadCpusIs DEF MpType, Slot
<1>5. KernelOK'
  BY <1>1, <1>2 DEF KernelOK
<1>6. MpType'
  BY <1>1, <1>2, <1>4 DEF MpType, MpLabels, InInterval
<1>7. CpuSamples'
  <2> SUFFICES ASSUME NEW i \in 1..cpu_nr
               PROVE  /\ st_cpu'[2][i] = FirstRead(i) /\ Known(st_cpu'[1 - mcurr][i], i)
                      /\ st_cpu'[mcurr][i] = NowRead(i)
    BY <1>2 DEF CpuSamples, InInterval, NowRead, FirstRead, Known
  <2>1. st_cpu[2][i] = FirstRead(i) /\ Known(st_cpu[1 - mcurr][i], i)
    BY <1>1, <1>2 DEF CpuSamples, InInterval
  <2> QED
    BY <1>1, <1>4, <2>1, ReadCpusIs
<1> QED
  BY <1>5, <1>6, <1>7 DEF MpInv

LEMMA WriteStatsOK ==
  ASSUME MpInv, WriteStats
  PROVE  MpInv'
<1>1. KernelOK /\ MpType /\ CpuSamples
  BY DEF MpInv
<1>2. /\ mpc = "write" /\ st_cpu' = GlobalSample(1 - mcurr, mcurr)
      /\ mcount' = IF mcount > 0 THEN mcount - 1 ELSE mcount
      /\ mpc' \in {"pause", "done", "average"}
      /\ UNCHANGED <<kern, first, seen, mopt, cpu_nr, mcurr>>
  BY Zenon DEF WriteStats, WriteCore, kernelVars
<1>3. mcurr \in Slot /\ 1 - mcurr \in Slot /\ mcurr # 1 - mcurr /\ 2 \in Slot \ {1 - mcurr, mcurr}
  BY <1>1 DEF MpType, Slot
<1>4. /\ st_cpu' \in [Slot -> [0..cpu_nr -> Sample]]
      /\ \A i \in 1..cpu_nr : st_cpu'[mcurr][i] = Forwarded(1 - mcurr, mcurr, i)
      /\ st_cpu'[2] = st_cpu[2]
  BY <1>1, <1>2, <1>3, GlobalIs
<1>5. KernelOK'
  BY <1>1, <1>2 DEF KernelOK
<1>6. MpType'
  BY <1>1, <1>2, <1>4 DEF MpType, MpLabels, InInterval
<1>7. CpuSamples'
  <2> SUFFICES ASSUME NEW i \in 1..cpu_nr
               PROVE  /\ st_cpu'[2][i] = FirstRead(i)
                      /\ IF kern.cpu[i].up THEN st_cpu'[mcurr][i] = Counts(kern.cpu[i])
                                           ELSE Known(st_cpu'[mcurr][i], i)
    BY <1>2 DEF CpuSamples, InInterval, FirstRead, Known
  <2>1. /\ st_cpu[2][i] = FirstRead(i) /\ Known(st_cpu[1 - mcurr][i], i)
        /\ st_cpu[mcurr][i] = NowRead(i)
    BY <1>1, <1>2 DEF CpuSamples, InInterval
  <2>2. i \in Cpus
    BY <1>1, Numbers DEF MpType
  <2>3. st_cpu'[mcurr][i] = IF Total(st_cpu[mcurr][i]) = 0 THEN st_cpu[1 - mcurr][i] ELSE st_cpu[mcurr][i]
    BY <1>4 DEF Forwarded, NotRead
  <2>4. CASE kern.cpu[i].up
    <3>1. st_cpu[mcurr][i] = Counts(kern.cpu[i]) /\ Total(Counts(kern.cpu[i])) # 0
      BY <1>1, <2>1, <2>2, <2>4, CountsOK DEF NowRead, KernelOK
    <3> QED
      BY <1>4, <2>1, <2>3, <2>4, <3>1
  <2>5. CASE ~kern.cpu[i].up
    <3>1. Total(st_cpu[mcurr][i]) = 0
      BY <2>1, <2>5 DEF NowRead, NoCpu, Total
    <3> QED
      BY <1>4, <2>1, <2>3, <2>5, <3>1
  <2> QED
    BY <2>4, <2>5
<1> QED
  BY <1>5, <1>6, <1>7 DEF MpInv

\* The last report: nothing depends on the samples after it.
LEMMA LastReportOK ==
  ASSUME MpInv, WriteSinceBoot \/ Average
  PROVE  MpInv'
<1>1. KernelOK /\ MpType
  BY DEF MpInv
<1>2. /\ mpc' = "done"
      /\ UNCHANGED <<kern, first, seen, mopt, cpu_nr, mcurr, mcount>>
      /\ st_cpu' = GlobalSample(1, 0) \/ st_cpu' = GlobalSample(2, mcurr)
  BY Zenon DEF WriteSinceBoot, Average, WriteCore, kernelVars
<1>3. mcurr \in Slot /\ mcurr # 2 /\ 0 \in Slot /\ 1 \in Slot /\ 2 \in Slot
  BY <1>1 DEF MpType, Slot
<1>4. st_cpu' \in [Slot -> [0..cpu_nr -> Sample]]
  BY <1>1, <1>2, <1>3, GlobalIs
<1>5. KernelOK' /\ MpType'
  BY <1>1, <1>2, <1>4 DEF KernelOK, MpType, MpLabels, InInterval
<1>6. CpuSamples'
  BY <1>2 DEF CpuSamples, InInterval
<1> QED
  BY <1>5, <1>6 DEF MpInv

LEMMA PauseOK ==
  ASSUME TimePasses, MpInv, Pause
  PROVE  MpInv'
<1>1. KernelOK /\ MpType /\ CpuSamples
  BY DEF MpInv
<1>2. /\ mpc \in {"first", "pause"} /\ mpc' = "read" /\ mout' = NoReport /\ CpusElapse
      /\ mcurr' = IF mpc = "pause" THEN 1 - mcurr ELSE mcurr
      /\ UNCHANGED <<first, mopt, mcount>>
  BY Zenon DEF Pause
<1>3. \A c \in Cpus : IF kern.cpu[c].up THEN seen'[c].ever /\ seen'[c].cpu = kern.cpu[c]
                                        ELSE seen'[c] = seen[c]
  <2>1. seen' = [c \in Cpus |->
                 IF c \in Online
                 THEN [ever |-> TRUE, cpu |-> kern.cpu[c], cnt |-> [n \in Names |-> kern.cnt[n][c]]]
                 ELSE seen[c]]
    BY Zenon DEF Pause
  <2> QED
    BY <2>1 DEF Online
<1>4. \/ UNCHANGED <<cpu_nr, st_cpu>>
      \/ /\ cpu_nr' = kern'.present /\ kern'.present > cpu_nr
         /\ st_cpu' = [s \in Slot |-> [i \in 0..cpu_nr' |-> IF i <= cpu_nr THEN st_cpu[s][i] ELSE NoCpu]]
  BY Zenon DEF Pause, Hotplugged, sampleVars
<1>5. CpusLater
  BY <1>1, <1>2, CpusStep
<1>6. KernelOK'
  <2> SUFFICES ASSUME NEW c \in Cpus
               PROVE  /\ seen'[c].cpu \in CpuRecords /\ seen'[c].ever \in BOOLEAN
                      /\ seen'[c].ever => Ran(seen'[c].cpu)
                      /\ Later(kern'.cpu[c], seen'[c].cpu) /\ Later(kern'.cpu[c], first.cpu[c])
                      /\ ~kern'.cpu[c].up /\ seen'[c].ever => kern'.cpu[c].busy = seen'[c].cpu.busy
    BY <1>1, <1>2, <1>5 DEF KernelOK, CpusLater
  <2>1. /\ kern.cpu[c] \in CpuRecords /\ seen[c].cpu \in CpuRecords /\ first.cpu[c] \in CpuRecords
        /\ seen[c].ever \in BOOLEAN
        /\ kern.cpu[c].up => Ran(kern.cpu[c])
        /\ seen[c].ever => Ran(seen[c].cpu)
        /\ Later(kern.cpu[c], seen[c].cpu) /\ Later(kern.cpu[c], first.cpu[c])
        /\ ~kern.cpu[c].up /\ seen[c].ever => kern.cpu[c].busy = seen[c].cpu.busy
    BY <1>1 DEF KernelOK
  <2>2. CASE kern.cpu[c].up
    BY <1>3, <1>5, <2>1, <2>2 DEF CpusLater
  <2>3. CASE ~kern.cpu[c].up
    BY <1>3, <1>5, <2>1, <2>3 DEF CpusLater
  <2> QED
    BY <2>2, <2>3
<1>7. MpType'
  <2>1. cpu_nr' \in {NFirst, NCpu} /\ mcurr' \in {0, 1}
    BY <1>1, <1>2, <1>4, <1>5 DEF MpType, CpusLater
  <2>2. NoCpu \in Sample
    BY DEF NoCpu, Sample
  <2>3. st_cpu' \in [Slot -> [0..cpu_nr' -> Sample]]
    <3>1. st_cpu \in [Slot -> [0..cpu_nr -> Sample]] /\ cpu_nr \in Nat
      BY <1>1, Numbers DEF MpType
    <3>2. CASE UNCHANGED <<cpu_nr, st_cpu>>
      BY <3>1, <3>2
    <3>3. CASE st_cpu' = [s \in Slot |-> [i \in 0..cpu_nr' |-> IF i <= cpu_nr THEN st_cpu[s][i] ELSE NoCpu]]
      <4>1. \A s \in Slot, i \in 0..cpu_nr' : i <= cpu_nr => st_cpu[s][i] \in Sample
        BY <3>1
      <4> QED
        BY <2>2, <3>3, <4>1
    <3> QED
      BY <1>4, <3>2, <3>3
  <2> QED
    BY <1>1, <1>2, <2>1, <2>3 DEF MpType, MpLabels, InInterval
<1> DEFINE x(i) == st_cpu[1 - mcurr'][i]
<1>8. ASSUME NEW i \in 1..cpu_nr
      PROVE  /\ st_cpu[2][i] = FirstRead(i)
             /\ x(i) = NoCpu \/ (seen'[i].ever /\ x(i) = Counts(seen'[i].cpu))
  <2>1. i \in Cpus
    BY <1>1, Numbers DEF MpType
  <2>2. st_cpu[2][i] = FirstRead(i)
    BY <1>1, <1>2 DEF CpuSamples, InInterval
  <2>3. IF kern.cpu[i].up THEN x(i) = Counts(kern.cpu[i]) ELSE Known(x(i), i)
    <3>1. CASE mpc = "first"
      <4>1. 1 - mcurr' = 0
        BY <1>1, <1>2, <3>1 DEF MpType
      <4> QED
        BY <1>1, <3>1, <4>1 DEF CpuSamples, NowRead, Known
    <3>2. CASE mpc = "pause"
      <4>1. 1 - mcurr' = mcurr
        BY <1>1, <1>2, <3>2 DEF MpType
      <4> QED
        BY <1>1, <3>2, <4>1 DEF CpuSamples
    <3> QED
      BY <1>2, <3>1, <3>2
  <2> HIDE DEF x
  <2>4. CASE kern.cpu[i].up
    BY <1>3, <2>1, <2>2, <2>3, <2>4
  <2>5. CASE ~kern.cpu[i].up
    BY <1>3, <2>1, <2>2, <2>3, <2>5 DEF Known
  <2> QED
    BY <2>4, <2>5
<1>9. 1 - mcurr' \in Slot /\ 2 \in Slot
  <2>1. mcurr \in {0, 1}
    BY <1>1 DEF MpType
  <2>2. mcurr' = mcurr \/ mcurr' = 1 - mcurr
    BY <1>2
  <2> QED
    BY <2>1, <2>2 DEF Slot
<1>10. CpuSamples'
  <2> SUFFICES ASSUME NEW i \in 1..cpu_nr'
               PROVE  /\ st_cpu'[2][i] = FirstRead(i)
                      /\ \/ st_cpu'[1 - mcurr'][i] = NoCpu
                         \/ seen'[i].ever /\ st_cpu'[1 - mcurr'][i] = Counts(seen'[i].cpu)
    BY <1>2 DEF CpuSamples, InInterval, FirstRead, Known
  <2>1. CASE UNCHANGED <<cpu_nr, st_cpu>>
    BY <1>8, <2>1
  <2>2. CASE /\ cpu_nr' = kern'.present /\ kern'.present > cpu_nr
             /\ st_cpu' = [s \in Slot |-> [j \in 0..cpu_nr' |-> IF j <= cpu_nr THEN st_cpu[s][j] ELSE NoCpu]]
    <3>1. i \in 0..cpu_nr' /\ i \in Cpus /\ cpu_nr \in Nat /\ cpu_nr' \in Nat
      BY <1>1, <1>7, Numbers DEF MpType
    <3>2. \A s \in Slot : st_cpu'[s][i] = IF i <= cpu_nr THEN st_cpu[s][i] ELSE NoCpu
      BY <2>2, <3>1
    <3>3. CASE i <= cpu_nr
      BY <1>8, <1>9, <3>1, <3>2, <3>3
    <3>4. CASE ~(i <= cpu_nr)
      <4>1. ~(i <= NFirst)
        BY <1>1, <3>1, <3>4, Numbers DEF MpType
      <4>2. FirstRead(i) = NoCpu
        BY <1>1, <3>1, <4>1 DEF FirstRead, KernelOK
      <4> QED
        BY <1>9, <3>2, <3>4, <4>2
    <3> QED
      BY <3>3, <3>4
  <2> QED
    BY <1>4, <2>1, <2>2
<1> QED
  BY <1>6, <1>7, <1>10 DEF MpInv

LEMMA InterruptedOK ==
  ASSUME MpInv, Interrupted
  PROVE  MpInv'
<1>1. /\ \/ mpc = "first" /\ mpc' = "done" /\ UNCHANGED mcount
         \/ mpc = "pause" /\ mcount' = 0 /\ mpc' \in {"done", "average"}
      /\ UNCHANGED <<kern, first, seen, mopt, cpu_nr, st_cpu, mcurr, mout>>
  BY Zenon DEF Interrupted, kernelVars, sampleVars
<1>2. KernelOK' /\ MpType'
  BY <1>1 DEF MpInv, KernelOK, MpType, MpLabels, InInterval
<1>3. CpuSamples'
  BY <1>1 DEF MpInv, CpuSamples, InInterval, FirstRead, Known
<1> QED
  BY <1>2, <1>3 DEF MpInv

LEMMA MpStep ==
  ASSUME MpAssumptions, MpInv, Next
  PROVE  MpInv'
<1>1. CASE Done
  <2>1. UNCHANGED <<kern, first, seen, mpc, mopt, cpu_nr, st_cpu, mcurr, mcount, mout>>
    BY <1>1, Zenon DEF Done, mpVars, kernelVars, sampleVars
  <2>2. KernelOK' /\ MpType' /\ CpuSamples'
    BY <2>1 DEF MpInv, KernelOK, MpType, CpuSamples, NowRead, FirstRead, Known
  <2> QED
    BY <2>2 DEF MpInv
<1>2. TimePasses
  BY DEF MpAssumptions
<1> QED
  BY <1>1, <1>2, ReadFirstOK, LastReportOK, ReadStatsOK, WriteStatsOK, PauseOK, InterruptedOK DEF Next

-----------------------------------------------------------------------------
(* The lines of processors hold, whatever happens to the processors.        *)

LEMMA NoLines ==
  ASSUME mout = NoReport PROVE CpuLinesTrue
  BY DEF NoReport, CpuLinesTrue

LEMMA CpuLinesStep ==
  ASSUME MpAssumptions, MpInv, CpuLinesTrue, Next
  PROVE  CpuLinesTrue'
<1>1. CASE ReadFirst
  <2>1. mout' = NoReport
    BY <1>1 DEF ReadFirst, MpInv, MpType
  <2> QED
    BY <2>1 DEF NoReport, CpuLinesTrue
<1>2. CASE Pause
  <2>1. mout' = NoReport
    BY <1>2, Zenon DEF Pause
  <2> QED
    BY <2>1 DEF NoReport, CpuLinesTrue
<1>3. CASE ReadStats \/ Interrupted \/ Done
  <2>1. UNCHANGED <<kern, first, seen, mopt, mout>>
    BY <1>3, Zenon DEF ReadStats, Interrupted, Done, mpVars, kernelVars
  <2> QED
    BY <2>1 DEF CpuLinesTrue, IntervalReport
<1>4. CASE WriteSinceBoot
  <2>1. UNCHANGED mopt /\ ~mopt.interval
    <3>1. mpc = "boot" /\ UNCHANGED mopt
      BY <1>4, Zenon DEF WriteSinceBoot
    <3> QED
      BY <3>1 DEF MpInv, MpType
  <2> QED
    BY <2>1 DEF CpuLinesTrue, IntervalReport
<1>5. CASE WriteStats
  <2>1. mpc = "write" /\ UNCHANGED <<kern, first, seen, mopt>>
    BY <1>5, Zenon DEF WriteStats, kernelVars
  <2>2. /\ mout'.cpu = CpuLines(1 - mcurr, mcurr, GlobalSample(1 - mcurr, mcurr))
        /\ mout'.prev = 1 - mcurr
    BY <1>5 DEF WriteStats, WriteCore
  <2>3. 1 - mcurr # 2
    BY DEF MpInv, MpType
  <2> SUFFICES ASSUME NEW l \in mout'.cpu, l.name > 0
               PROVE  /\ kern.cpu[l.name].up /\ seen[l.name].ever
                      /\ CpuTold(l, kern.cpu[l.name], seen[l.name].cpu)
    BY <2>1, <2>2, <2>3, Zenon DEF CpuLinesTrue, CpuTold
  <2> QED
    BY <2>1, <2>2, IntervalLines
<1>6. CASE Average
  <2>1. mpc = "average" /\ UNCHANGED <<kern, first, seen, mopt>>
    BY <1>6, Zenon DEF Average, kernelVars
  <2>2. mout'.cpu = CpuLines(2, mcurr, GlobalSample(2, mcurr)) /\ mout'.prev = 2
    BY <1>6 DEF Average, WriteCore
  <2>3. ~(2 \in {0, 1})
    OBVIOUS
  <2> SUFFICES ASSUME NEW l \in mout'.cpu, l.name > 0
               PROVE  CpuTold(l, kern.cpu[l.name], first.cpu[l.name])
    BY <2>1, <2>2, <2>3, Zenon DEF CpuLinesTrue, CpuTold, IntervalReport
  <2> QED
    BY <2>1, <2>2, AverageLines
<1> QED
  BY <1>1, <1>2, <1>3, <1>4, <1>5, <1>6 DEF Next

-----------------------------------------------------------------------------
(* What the lines of a report add up to.                                    *)

\* What each processor that is measured has done between two samples.
DoneBusy(prev, cur) ==
  [i \in Measured(prev) |-> Delta(Reference(prev, cur, i).busy, Forwarded(prev, cur, i).busy)]
DoneIowait(prev, cur) ==
  [i \in Measured(prev) |-> Delta(Reference(prev, cur, i).iowait, Forwarded(prev, cur, i).iowait)]
DoneIdle(prev, cur) ==
  [i \in Measured(prev) |-> Delta(Reference(prev, cur, i).idle, Forwarded(prev, cur, i).idle)]
DoneTotal(prev, cur) ==
  [i \in Measured(prev) |-> CpuInterval(Forwarded(prev, cur, i), Reference(prev, cur, i))]

\* The time that only goes on has gone on.
Ahead(prev, cur) ==
  \A i \in Measured(prev) : st_cpu[prev][i].busy <= Forwarded(prev, cur, i).busy

LEMMA CorrectedTwice ==
  ASSUME NEW c \in Sample, NEW p \in Sample
  PROVE  Corrected(c, Corrected(c, p)) = Corrected(c, p)
<1> DEFINE q == Corrected(c, p)
           r == Corrected(c, q)
<1>1. /\ c.iowait \in Nat /\ c.idle \in Nat /\ p.iowait \in Nat /\ p.idle \in Nat
  BY DEF Sample
<1>2. /\ q \in Sample /\ q.busy = p.busy
      /\ q.iowait = IF c.iowait >= p.iowait THEN p.iowait ELSE IF c.idle > p.idle THEN c.iowait ELSE 0
      /\ q.idle = IF c.idle < p.idle THEN 0 ELSE p.idle
  BY CorrectedOK
<1> HIDE DEF q
<1>3. /\ r \in Sample /\ r.busy = q.busy
      /\ r.iowait = IF c.iowait >= q.iowait THEN q.iowait ELSE IF c.idle > q.idle THEN c.iowait ELSE 0
      /\ r.idle = IF c.idle < q.idle THEN 0 ELSE q.idle
  BY <1>2, CorrectedOK
<1> HIDE DEF r
<1>4. c.iowait >= q.iowait /\ ~(c.idle < q.idle)
  BY <1>1, <1>2
<1>5. r.busy = q.busy /\ r.iowait = q.iowait /\ r.idle = q.idle
  BY <1>3, <1>4
<1>6. /\ r = [busy |-> r.busy, iowait |-> r.iowait, idle |-> r.idle]
      /\ q = [busy |-> q.busy, iowait |-> q.iowait, idle |-> q.idle]
  BY <1>2, <1>3 DEF Sample
<1> QED
  BY <1>5, <1>6 DEF q, r

LEMMA Differences ==
  ASSUME MpType, NEW prev \in Slot, NEW cur \in Slot, Ahead(prev, cur), NEW i \in Measured(prev)
  PROVE  /\ Forwarded(prev, cur, i) \in Sample /\ Reference(prev, cur, i) \in Sample
         /\ Reference(prev, cur, i).busy <= Forwarded(prev, cur, i).busy
         /\ Reference(prev, cur, i).iowait <= Forwarded(prev, cur, i).iowait
         /\ Reference(prev, cur, i).idle <= Forwarded(prev, cur, i).idle
         /\ DoneBusy(prev, cur)[i] \in Nat /\ DoneIowait(prev, cur)[i] \in Nat
         /\ DoneIdle(prev, cur)[i] \in Nat
         /\ DoneTotal(prev, cur)[i]
              = DoneBusy(prev, cur)[i] + DoneIowait(prev, cur)[i] + DoneIdle(prev, cur)[i]
         /\ CpuInterval(Forwarded(prev, cur, i), st_cpu[prev][i]) = DoneTotal(prev, cur)[i]
         /\ i \in NotRead(cur) => /\ DoneBusy(prev, cur)[i] = 0 /\ DoneIowait(prev, cur)[i] = 0
                                  /\ DoneIdle(prev, cur)[i] = 0
<1> DEFINE p == st_cpu[prev][i]
           f == Forwarded(prev, cur, i)
           r == Reference(prev, cur, i)
<1>1. i \in 1..cpu_nr /\ i \notin Unreferenced(prev)
  BY DEF Measured
<1>2. p \in Sample /\ f \in Sample /\ r \in Sample
  BY <1>1, ValuesOf
<1>3. r = Corrected(f, p)
  BY <1>1 DEF Reference
<1>4. p.busy <= f.busy
  BY DEF Ahead
<1>5. i \in NotRead(cur) => f = p
  BY <1>1 DEF Forwarded
<1>6. /\ DoneBusy(prev, cur)[i] = Delta(r.busy, f.busy) /\ DoneIowait(prev, cur)[i] = Delta(r.iowait, f.iowait)
      /\ DoneIdle(prev, cur)[i] = Delta(r.idle, f.idle) /\ DoneTotal(prev, cur)[i] = CpuInterval(f, r)
  BY DEF DoneBusy, DoneIowait, DoneIdle, DoneTotal
<1> HIDE DEF p, f, r
<1>7. /\ f.busy \in Nat /\ f.iowait \in Nat /\ f.idle \in Nat /\ p.busy \in Nat /\ p.iowait \in Nat
      /\ p.idle \in Nat /\ r.busy \in Nat /\ r.iowait \in Nat /\ r.idle \in Nat
  BY <1>2 DEF Sample
<1>8. /\ r.busy = p.busy
      /\ r.iowait = IF f.iowait >= p.iowait THEN p.iowait ELSE IF f.idle > p.idle THEN f.iowait ELSE 0
      /\ r.idle = IF f.idle < p.idle THEN 0 ELSE p.idle
  BY <1>2, <1>3, CorrectedOK
<1>9. r.busy <= f.busy /\ r.iowait <= f.iowait /\ r.idle <= f.idle
  BY <1>4, <1>7, <1>8
<1>10. /\ Delta(r.busy, f.busy) \in Nat /\ Delta(r.iowait, f.iowait) \in Nat /\ Delta(r.idle, f.idle) \in Nat
  BY <1>7 DEF Delta
<1>11. Corrected(f, r) = r
  BY <1>2, <1>3, CorrectedTwice
<1>12. CpuInterval(f, r) = Delta(r.busy, f.busy) + Delta(r.iowait, f.iowait) + Delta(r.idle, f.idle)
  BY <1>11 DEF CpuInterval
<1>13. CpuInterval(f, p) = CpuInterval(f, r)
  BY <1>3, <1>12 DEF CpuInterval
<1>14. ASSUME i \in NotRead(cur)
       PROVE  Delta(r.busy, f.busy) = 0 /\ Delta(r.iowait, f.iowait) = 0 /\ Delta(r.idle, f.idle) = 0
  <2>1. r.busy = f.busy /\ r.iowait = f.iowait /\ r.idle = f.idle
    BY <1>5, <1>7, <1>8, <1>14
  <2> QED
    BY <1>7, <2>1 DEF Delta
<1>15. /\ f \in Sample /\ r \in Sample /\ r.busy <= f.busy /\ r.iowait <= f.iowait /\ r.idle <= f.idle
       /\ DoneBusy(prev, cur)[i] \in Nat /\ DoneIowait(prev, cur)[i] \in Nat
       /\ DoneIdle(prev, cur)[i] \in Nat
       /\ DoneTotal(prev, cur)[i]
            = DoneBusy(prev, cur)[i] + DoneIowait(prev, cur)[i] + DoneIdle(prev, cur)[i]
       /\ CpuInterval(f, p) = DoneTotal(prev, cur)[i]
       /\ i \in NotRead(cur) => /\ DoneBusy(prev, cur)[i] = 0 /\ DoneIowait(prev, cur)[i] = 0
                                /\ DoneIdle(prev, cur)[i] = 0
  BY <1>2, <1>6, <1>9, <1>10, <1>12, <1>13, <1>14
<1> QED
  BY <1>15 DEF p, f, r

\* A difference of sums is the sum of the differences.
LEMMA SumOfDeltas ==
  ASSUME NEW S, IsFiniteSet(S), NEW f, Nats(f, S), NEW r, Nats(r, S), NEW d,
         \A i \in S : r[i] <= f[i] /\ d[i] = Delta(r[i], f[i])
  PROVE  Delta(SumFunctionOnSet(r, S), SumFunctionOnSet(f, S)) = SumFunctionOnSet(d, S)
<1>1. \A i \in S : d[i] \in Nat /\ f[i] = r[i] + d[i]
  BY DEF Nats, Delta
<1>2. Nats(d, S)
  BY <1>1 DEF Nats
<1>3. SumFunctionOnSet(f, S) = SumFunctionOnSet(r, S) + SumFunctionOnSet(d, S)
  BY <1>1, <1>2, SumPlus
<1>4. SumFunctionOnSet(r, S) \in Nat /\ SumFunctionOnSet(d, S) \in Nat
  BY <1>2, SumIsNat
<1> QED
  BY <1>3, <1>4 DEF Delta

\* The line of a group of processors.
LEMMA GroupLine ==
  ASSUME MpType, NEW prev \in Slot, NEW cur \in Slot, Ahead(prev, cur),
         NEW S \in SUBSET Measured(prev), NEW a, NEW b,
         \A i \in S : a[i] = Forwarded(prev, cur, i) /\ b[i] = Reference(prev, cur, i),
         NEW name, NEW itv, NEW l, l = LineOf(name, AddCpus(S, a), AddCpus(S, b), itv)
  PROVE  /\ l.name = name /\ l.itv = itv
         /\ l.busy = SumFunctionOnSet(DoneBusy(prev, cur), S)
         /\ l.iowait = SumFunctionOnSet(DoneIowait(prev, cur), S)
         /\ l.idle = SumFunctionOnSet(DoneIdle(prev, cur), S)
<1>1. IsFiniteSet(S)
  <2>1. IsFiniteSet(1..cpu_nr) /\ S \subseteq 1..cpu_nr
    BY Numbers DEF MpType, Measured
  <2> QED
    BY <2>1, FS_Subset
<1>2. \A i \in S : a[i] \in Sample /\ b[i] \in Sample
  BY Differences
<1>3. \A i \in S : /\ b[i].busy <= a[i].busy /\ b[i].iowait <= a[i].iowait /\ b[i].idle <= a[i].idle
                   /\ DoneBusy(prev, cur)[i] = Delta(b[i].busy, a[i].busy)
                   /\ DoneIowait(prev, cur)[i] = Delta(b[i].iowait, a[i].iowait)
                   /\ DoneIdle(prev, cur)[i] = Delta(b[i].idle, a[i].idle)
  BY Differences DEF DoneBusy, DoneIowait, DoneIdle
<1>4. /\ l.name = name /\ l.itv = itv
      /\ l.busy = Delta(AddCpus(S, b).busy, AddCpus(S, a).busy)
      /\ l.iowait = Delta(AddCpus(S, b).iowait, AddCpus(S, a).iowait)
      /\ l.idle = Delta(AddCpus(S, b).idle, AddCpus(S, a).idle)
  BY DEF LineOf
<1>5. l.busy = SumFunctionOnSet(DoneBusy(prev, cur), S)
  <2> DEFINE f == [i \in S |-> a[i].busy]
             r == [i \in S |-> b[i].busy]
  <2>1. AddCpus(S, a).busy = SumFunctionOnSet(f, S) /\ AddCpus(S, b).busy = SumFunctionOnSet(r, S)
    BY <1>1, <1>2, AddCpusIs
  <2>2. Nats(f, S) /\ Nats(r, S) /\ \A i \in S : r[i] <= f[i] /\ DoneBusy(prev, cur)[i] = Delta(r[i], f[i])
    BY <1>2, <1>3 DEF Nats, Sample
  <2> HIDE DEF f, r
  <2> QED
    BY <1>1, <1>4, <2>1, <2>2, SumOfDeltas
<1>6. l.iowait = SumFunctionOnSet(DoneIowait(prev, cur), S)
  <2> DEFINE f == [i \in S |-> a[i].iowait]
             r == [i \in S |-> b[i].iowait]
  <2>1. AddCpus(S, a).iowait = SumFunctionOnSet(f, S) /\ AddCpus(S, b).iowait = SumFunctionOnSet(r, S)
    BY <1>1, <1>2, AddCpusIs
  <2>2. Nats(f, S) /\ Nats(r, S) /\ \A i \in S : r[i] <= f[i] /\ DoneIowait(prev, cur)[i] = Delta(r[i], f[i])
    BY <1>2, <1>3 DEF Nats, Sample
  <2> HIDE DEF f, r
  <2> QED
    BY <1>1, <1>4, <2>1, <2>2, SumOfDeltas
<1>7. l.idle = SumFunctionOnSet(DoneIdle(prev, cur), S)
  <2> DEFINE f == [i \in S |-> a[i].idle]
             r == [i \in S |-> b[i].idle]
  <2>1. AddCpus(S, a).idle = SumFunctionOnSet(f, S) /\ AddCpus(S, b).idle = SumFunctionOnSet(r, S)
    BY <1>1, <1>2, AddCpusIs
  <2>2. Nats(f, S) /\ Nats(r, S) /\ \A i \in S : r[i] <= f[i] /\ DoneIdle(prev, cur)[i] = Delta(r[i], f[i])
    BY <1>2, <1>3 DEF Nats, Sample
  <2> HIDE DEF f, r
  <2> QED
    BY <1>1, <1>4, <2>1, <2>2, SumOfDeltas
<1> QED
  BY <1>4, <1>5, <1>6, <1>7

\* Sums over lines are sums over what they are the lines of.
LEMMA SumOfLines ==
  ASSUME NEW S, IsFiniteSet(S), NEW v, Nats(v, S), NEW L, NEW g \in [S -> L],
         \A x, y \in S : g[x] = g[y] => x = y, \A l \in L : \E x \in S : g[x] = l,
         NEW u, DOMAIN u = L, \A x \in S : u[g[x]] = v[x]
  PROVE  SumFunction(u) = SumFunctionOnSet(v, S)
<1>1. IsFiniteSet(L)
  BY FS_Surjection DEF Surjection
<1> QED
  BY <1>1, SumRenamed DEF SumFunction

\* The sums over the processors measured.
BusyOf(prev, cur) == SumFunctionOnSet(DoneBusy(prev, cur), Measured(prev))
IowaitOf(prev, cur) == SumFunctionOnSet(DoneIowait(prev, cur), Measured(prev))
IdleOf(prev, cur) == SumFunctionOnSet(DoneIdle(prev, cur), Measured(prev))
TotalOf(prev, cur) == SumFunctionOnSet(DoneTotal(prev, cur), Measured(prev))

LEMMA DoneOK ==
  ASSUME MpType, NEW prev \in Slot, NEW cur \in Slot, Ahead(prev, cur)
  PROVE  /\ IsFiniteSet(Measured(prev)) /\ Measured(prev) \subseteq 1..cpu_nr
         /\ Nats(DoneBusy(prev, cur), Measured(prev)) /\ Nats(DoneIowait(prev, cur), Measured(prev))
         /\ Nats(DoneIdle(prev, cur), Measured(prev)) /\ Nats(DoneTotal(prev, cur), Measured(prev))
         /\ TotalOf(prev, cur) = BusyOf(prev, cur) + IowaitOf(prev, cur) + IdleOf(prev, cur)
         /\ TotalOf(prev, cur) \in Nat
<1> DEFINE M == Measured(prev)
           db == DoneBusy(prev, cur)
           dw == DoneIowait(prev, cur)
           dd == DoneIdle(prev, cur)
           dt == DoneTotal(prev, cur)
           bw == [i \in M |-> db[i] + dw[i]]
<1>1. IsFiniteSet(M) /\ M \subseteq 1..cpu_nr
  <2>1. IsFiniteSet(1..cpu_nr) /\ M \subseteq 1..cpu_nr
    BY Numbers DEF MpType, Measured
  <2> QED
    BY <2>1, FS_Subset
<1>2. \A i \in M : db[i] \in Nat /\ dw[i] \in Nat /\ dd[i] \in Nat /\ dt[i] = db[i] + dw[i] + dd[i]
  BY Differences
<1> HIDE DEF M, db, dw, dd, dt
<1>3. Nats(db, M) /\ Nats(dw, M) /\ Nats(dd, M) /\ Nats(dt, M) /\ Nats(bw, M)
  BY <1>2 DEF Nats
<1>4. \A i \in M : bw[i] = db[i] + dw[i] /\ dt[i] = bw[i] + dd[i]
  BY <1>2
<1> HIDE DEF bw
<1>5. SumFunctionOnSet(bw, M) = SumFunctionOnSet(db, M) + SumFunctionOnSet(dw, M)
  <2>1. IsFiniteSet(M) /\ Nats(db, M) /\ Nats(dw, M) /\ \A i \in M : bw[i] = db[i] + dw[i]
    BY <1>1, <1>3, <1>4
  <2> QED
    BY ONLY <2>1, SumPlus
<1>6. SumFunctionOnSet(dt, M) = SumFunctionOnSet(bw, M) + SumFunctionOnSet(dd, M)
  <2>1. IsFiniteSet(M) /\ Nats(bw, M) /\ Nats(dd, M) /\ \A i \in M : dt[i] = bw[i] + dd[i]
    BY <1>1, <1>3, <1>4
  <2> QED
    BY ONLY <2>1, SumPlus
<1>7. SumFunctionOnSet(dt, M) \in Nat
  BY <1>1, <1>3, SumIsNat
<1> QED
  BY <1>1, <1>3, <1>5, <1>6, <1>7 DEF M, db, dw, dd, dt, BusyOf, IowaitOf, IdleOf, TotalOf

\* The processors that have a line, the others having done nothing.
Shown(prev, cur) == (1..cpu_nr) \ Offline(prev, cur)

LEMMA ShownIs ==
  ASSUME MpType, NEW prev \in Slot, NEW cur \in Slot, Ahead(prev, cur)
  PROVE  /\ Shown(prev, cur) \subseteq Measured(prev) /\ IsFiniteSet(Shown(prev, cur))
         /\ SumFunctionOnSet(DoneBusy(prev, cur), Shown(prev, cur)) = BusyOf(prev, cur)
         /\ SumFunctionOnSet(DoneIowait(prev, cur), Shown(prev, cur)) = IowaitOf(prev, cur)
         /\ SumFunctionOnSet(DoneIdle(prev, cur), Shown(prev, cur)) = IdleOf(prev, cur)
         /\ SumFunctionOnSet(DoneTotal(prev, cur), Shown(prev, cur)) = TotalOf(prev, cur)
<1>1. Shown(prev, cur) \in SUBSET Measured(prev)
  BY DEF Shown, Offline, Measured
<1>2. ASSUME NEW i \in Measured(prev) \ Shown(prev, cur)
      PROVE  /\ DoneBusy(prev, cur)[i] = 0 /\ DoneIowait(prev, cur)[i] = 0 /\ DoneIdle(prev, cur)[i] = 0
             /\ DoneTotal(prev, cur)[i] = 0
  <2>1. i \in NotRead(cur)
    BY DEF Shown, Offline, Measured
  <2> QED
    BY <2>1, Differences
<1>3. IsFiniteSet(Shown(prev, cur))
  BY <1>1, DoneOK, FS_Subset
<1> QED
  BY <1>1, <1>2, <1>3, DoneOK, SumOfPart DEF BusyOf, IowaitOf, IdleOf, TotalOf

\* The line of processor i, and those of all.
LineFor(prev, cur, i) ==
  LineOf(i, Forwarded(prev, cur, i), Reference(prev, cur, i), DoneTotal(prev, cur)[i])

LEMMA ShownLines ==
  ASSUME MpType, NEW prev \in Slot, NEW cur \in Slot, prev # cur, Ahead(prev, cur), mopt.P
  PROVE  LET L == CpuLines(prev, cur, GlobalSample(prev, cur))
         IN  /\ {m \in L : m.name > 0} = {LineFor(prev, cur, i) : i \in Shown(prev, cur)}
             /\ \A l \in L : l.name = 0 =>
                  l = LineOf(0, AddCpus(Measured(prev), NowOf(prev, cur)),
                                AddCpus(Measured(prev), WasOf(prev, cur)), GlobalInterval(prev, cur))
<1> DEFINE st == GlobalSample(prev, cur)
           L == CpuLines(prev, cur, st)
           line(i) == LineOf(i, st[cur][i], st[prev][i],
                        IF i = 0 THEN GlobalInterval(prev, cur) ELSE CpuInterval(st[cur][i], st[prev][i]))
<1>1. L = {line(i) : i \in (0..cpu_nr) \ Offline(prev, cur)}
  BY Zenon DEF CpuLines, CpuShown
<1>2. /\ st[cur][0] = AddCpus(Measured(prev), NowOf(prev, cur))
      /\ st[prev][0] = AddCpus(Measured(prev), WasOf(prev, cur))
      /\ \A i \in 1..cpu_nr : st[cur][i] = Forwarded(prev, cur, i) /\ st[prev][i] = Reference(prev, cur, i)
  BY GlobalIs
<1> HIDE DEF st
<1>3. cpu_nr \in Nat
  BY Numbers DEF MpType
<1>4. \A i \in (0..cpu_nr) \ Offline(prev, cur) : i # 0 => i \in Shown(prev, cur)
  BY <1>3 DEF Shown
<1>5. \A i : line(i).name = i
  BY DEF LineOf
<1>6. \A i \in Shown(prev, cur) : line(i) = LineFor(prev, cur, i)
  <2> SUFFICES ASSUME NEW i \in Shown(prev, cur) PROVE line(i) = LineFor(prev, cur, i)
    OBVIOUS
  <2>1. i \in Measured(prev) /\ i \in 1..cpu_nr /\ i # 0
    <3>1. Shown(prev, cur) \subseteq Measured(prev)
      BY ShownIs
    <3>2. i \in 1..cpu_nr
      BY DEF Shown
    <3> QED
      BY <1>3, <3>1, <3>2
  <2>2. DoneTotal(prev, cur)[i] = CpuInterval(Forwarded(prev, cur, i), Reference(prev, cur, i))
    BY <2>1 DEF DoneTotal
  <2> QED
    BY <1>2, <2>1, <2>2 DEF LineFor
<1>7. line(0) = LineOf(0, AddCpus(Measured(prev), NowOf(prev, cur)),
                          AddCpus(Measured(prev), WasOf(prev, cur)), GlobalInterval(prev, cur))
  BY <1>2
<1> HIDE DEF line
<1>8. \A i \in Shown(prev, cur) : i > 0 /\ i \in (0..cpu_nr) \ Offline(prev, cur)
  BY <1>3 DEF Shown
<1>9. {m \in L : m.name > 0} = {LineFor(prev, cur, i) : i \in Shown(prev, cur)}
  <2>1. ASSUME NEW m \in L, m.name > 0 PROVE \E i \in Shown(prev, cur) : m = LineFor(prev, cur, i)
    <3>1. PICK i \in (0..cpu_nr) \ Offline(prev, cur) : m = line(i)
      BY <1>1
    <3>2. i \in Shown(prev, cur)
      BY <1>4, <1>5, <2>1, <3>1
    <3> QED
      BY <1>6, <3>1, <3>2
  <2>2. ASSUME NEW i \in Shown(prev, cur) PROVE LineFor(prev, cur, i) \in L /\ LineFor(prev, cur, i).name > 0
    <3>1. line(i) \in L
      BY <1>1, <1>8
    <3> QED
      BY <1>5, <1>6, <1>8, <3>1
  <2> HIDE DEF L
  <2> QED
    BY <2>1, <2>2
<1>10. ASSUME NEW l \in L, l.name = 0 PROVE l = line(0)
  <2>1. PICK i \in (0..cpu_nr) \ Offline(prev, cur) : l = line(i)
    BY <1>1
  <2> QED
    BY <1>5, <1>10, <2>1
<1> QED
  BY <1>7, <1>9, <1>10 DEF st

LEMMA SumOfShown ==
  ASSUME MpType, NEW prev \in Slot, NEW cur \in Slot, prev # cur, Ahead(prev, cur), mopt.P
  PROVE  LET lines == {m \in CpuLines(prev, cur, GlobalSample(prev, cur)) : m.name > 0}
         IN  /\ SumFunction([m \in lines |-> m.busy]) = BusyOf(prev, cur)
             /\ SumFunction([m \in lines |-> m.iowait]) = IowaitOf(prev, cur)
             /\ SumFunction([m \in lines |-> m.idle]) = IdleOf(prev, cur)
             /\ SumFunction([m \in lines |-> m.itv]) = TotalOf(prev, cur)
<1> DEFINE lines == {m \in CpuLines(prev, cur, GlobalSample(prev, cur)) : m.name > 0}
           D == Shown(prev, cur)
           g == [i \in D |-> LineFor(prev, cur, i)]
<1>1. lines = {LineFor(prev, cur, i) : i \in D}
  BY ShownLines
<1>2. /\ D \subseteq Measured(prev) /\ IsFiniteSet(D)
      /\ SumFunctionOnSet(DoneBusy(prev, cur), D) = BusyOf(prev, cur)
      /\ SumFunctionOnSet(DoneIowait(prev, cur), D) = IowaitOf(prev, cur)
      /\ SumFunctionOnSet(DoneIdle(prev, cur), D) = IdleOf(prev, cur)
      /\ SumFunctionOnSet(DoneTotal(prev, cur), D) = TotalOf(prev, cur)
  BY ShownIs
<1>3. /\ Nats(DoneBusy(prev, cur), D) /\ Nats(DoneIowait(prev, cur), D)
      /\ Nats(DoneIdle(prev, cur), D) /\ Nats(DoneTotal(prev, cur), D)
  BY <1>2, DoneOK DEF Nats
<1>4. ASSUME NEW i \in D
      PROVE  /\ LineFor(prev, cur, i).name = i /\ LineFor(prev, cur, i).busy = DoneBusy(prev, cur)[i]
             /\ LineFor(prev, cur, i).iowait = DoneIowait(prev, cur)[i]
             /\ LineFor(prev, cur, i).idle = DoneIdle(prev, cur)[i]
             /\ LineFor(prev, cur, i).itv = DoneTotal(prev, cur)[i]
  BY <1>2 DEF LineFor, LineOf, DoneBusy, DoneIowait, DoneIdle
<1> HIDE DEF lines, D
<1>5. /\ g \in [D -> lines]
      /\ \A x, y \in D : g[x] = g[y] => x = y
      /\ \A l \in lines : \E x \in D : g[x] = l
  BY <1>1, <1>4
<1>6. \A i \in D : /\ g[i].busy = DoneBusy(prev, cur)[i] /\ g[i].iowait = DoneIowait(prev, cur)[i]
                   /\ g[i].idle = DoneIdle(prev, cur)[i] /\ g[i].itv = DoneTotal(prev, cur)[i]
  BY <1>4
<1> HIDE DEF g
<1>7. ASSUME NEW u, NEW v, Nats(v, D), DOMAIN u = lines, \A x \in D : u[g[x]] = v[x]
      PROVE  SumFunction(u) = SumFunctionOnSet(v, D)
  BY <1>2, <1>5, <1>7, SumOfLines
<1>8. \A x \in D : g[x] \in lines
  BY <1>5
<1>9. SumFunction([m \in lines |-> m.busy]) = BusyOf(prev, cur)
  BY <1>2, <1>3, <1>6, <1>7, <1>8
<1>10. SumFunction([m \in lines |-> m.iowait]) = IowaitOf(prev, cur)
  BY <1>2, <1>3, <1>6, <1>7, <1>8
<1>11. SumFunction([m \in lines |-> m.idle]) = IdleOf(prev, cur)
  BY <1>2, <1>3, <1>6, <1>7, <1>8
<1>12. SumFunction([m \in lines |-> m.itv]) = TotalOf(prev, cur)
  BY <1>2, <1>3, <1>6, <1>7, <1>8
<1> QED
  BY <1>9, <1>10, <1>11, <1>12 DEF lines

LEMMA GlobalLine ==
  ASSUME MpType, NEW prev \in Slot, NEW cur \in Slot, prev # cur, Ahead(prev, cur), mopt.P,
         NEW l \in CpuLines(prev, cur, GlobalSample(prev, cur)), l.name = 0
  PROVE  /\ l.busy = BusyOf(prev, cur) /\ l.iowait = IowaitOf(prev, cur) /\ l.idle = IdleOf(prev, cur)
         /\ l.itv = IF TotalOf(prev, cur) = 0 THEN 1 ELSE TotalOf(prev, cur)
<1> DEFINE M == Measured(prev)
           itvs == [i \in M |-> CpuInterval(Forwarded(prev, cur, i), st_cpu[prev][i])]
<1>1. l = LineOf(0, AddCpus(M, NowOf(prev, cur)), AddCpus(M, WasOf(prev, cur)), GlobalInterval(prev, cur))
  BY ShownLines
<1>2. \A i \in M : /\ NowOf(prev, cur)[i] = Forwarded(prev, cur, i)
                   /\ WasOf(prev, cur)[i] = Reference(prev, cur, i)
  BY DEF NowOf, WasOf, Measured
<1>3. \A i \in M : itvs[i] = DoneTotal(prev, cur)[i]
  BY Differences
<1>4. DOMAIN itvs = M
  OBVIOUS
<1>5. GlobalInterval(prev, cur) = IF SumFunction(itvs) = 0 THEN 1 ELSE SumFunction(itvs)
  BY Zenon DEF GlobalInterval, Measured
<1> HIDE DEF itvs
<1>6. SumFunction(itvs) = TotalOf(prev, cur)
  <2>1. IsFiniteSet(M) /\ Nats(DoneTotal(prev, cur), M)
    BY DoneOK
  <2>2. SumFunctionOnSet(DoneTotal(prev, cur), M) = SumFunctionOnSet(itvs, M)
    BY <1>3, <2>1, SumIsSame
  <2> QED
    BY <1>4, <2>2 DEF SumFunction, TotalOf
<1>8. /\ l.busy = SumFunctionOnSet(DoneBusy(prev, cur), M) /\ l.iowait = SumFunctionOnSet(DoneIowait(prev, cur), M)
      /\ l.idle = SumFunctionOnSet(DoneIdle(prev, cur), M) /\ l.itv = GlobalInterval(prev, cur)
  <2> DEFINE a == NowOf(prev, cur)
             b == WasOf(prev, cur)
             itv == GlobalInterval(prev, cur)
  <2>1. l = LineOf(0, AddCpus(M, a), AddCpus(M, b), itv)
    BY <1>1
  <2>2. M \in SUBSET Measured(prev) /\ \A i \in M : a[i] = Forwarded(prev, cur, i) /\ b[i] = Reference(prev, cur, i)
    BY <1>2
  <2> HIDE DEF M, a, b, itv
  <2>3. /\ l.itv = itv /\ l.busy = SumFunctionOnSet(DoneBusy(prev, cur), M)
        /\ l.iowait = SumFunctionOnSet(DoneIowait(prev, cur), M)
        /\ l.idle = SumFunctionOnSet(DoneIdle(prev, cur), M)
    BY <2>1, <2>2, GroupLine
  <2> QED
    BY <2>3 DEF itv
<1> QED
  BY <1>5, <1>6, <1>8 DEF M, BusyOf, IowaitOf, IdleOf

\* The lines of the nodes.
LEMMA NodeLinesAre ==
  ASSUME MpType, NEW prev \in Slot, NEW cur \in Slot, prev # cur, Ahead(prev, cur)
  PROVE  LET lines == NodeLines(prev, cur, GlobalSample(prev, cur))
         IN  /\ SumFunction([m \in lines |-> m.busy]) = BusyOf(prev, cur)
             /\ SumFunction([m \in lines |-> m.idle]) = IdleOf(prev, cur)
             /\ SumFunction([m \in lines |-> m.itv]) = TotalOf(prev, cur)
<1> DEFINE st == GlobalSample(prev, cur)
           lines == NodeLines(prev, cur, st)
           M == Measured(prev)
           T == {Node[c] : c \in 1..cpu_nr}
           node == [i \in M |-> Node[i]]
           itvs(n) == [i \in NodeCpus(prev, n) |-> CpuInterval(st[cur][i], st[prev][i])]
           line(n) == LineOf(n, AddCpus(NodeCpus(prev, n), st[cur]), AddCpus(NodeCpus(prev, n), st[prev]),
                             SumFunction(itvs(n)))
           g == [n \in T |-> line(n)]
<1>1. lines = {line(n) : n \in T}
  BY Zenon DEF NodeLines
<1>2. \A i \in M : st[cur][i] = Forwarded(prev, cur, i) /\ st[prev][i] = Reference(prev, cur, i)
  BY GlobalIs DEF Measured
<1>3. \A n : NodeCpus(prev, n) = Fibre(node, M, n) /\ NodeCpus(prev, n) \in SUBSET M
  BY DEF NodeCpus, Fibre, Measured
<1>4. /\ IsFiniteSet(M) /\ Nats(DoneBusy(prev, cur), M) /\ Nats(DoneIowait(prev, cur), M)
      /\ Nats(DoneIdle(prev, cur), M) /\ Nats(DoneTotal(prev, cur), M) /\ M \subseteq 1..cpu_nr
  BY DoneOK
<1>5. IsFiniteSet(T)
  <2>1. IsFiniteSet(1..cpu_nr)
    BY Numbers DEF MpType
  <2>2. [c \in 1..cpu_nr |-> Node[c]] \in Surjection(1..cpu_nr, T)
    BY DEF Surjection
  <2> QED
    BY <2>1, <2>2, FS_Surjection
<1>6. node \in [M -> T]
  BY <1>4
<1>7. ASSUME NEW n
      PROVE  /\ DOMAIN itvs(n) = NodeCpus(prev, n)
             /\ \A i \in NodeCpus(prev, n) : itvs(n)[i] = DoneTotal(prev, cur)[i]
  BY <1>2, <1>3 DEF DoneTotal
<1>8. ASSUME NEW n
      PROVE  /\ line(n).name = n
             /\ line(n).busy = SumFunctionOnSet(DoneBusy(prev, cur), Fibre(node, M, n))
             /\ line(n).idle = SumFunctionOnSet(DoneIdle(prev, cur), Fibre(node, M, n))
             /\ line(n).itv = SumFunctionOnSet(DoneTotal(prev, cur), Fibre(node, M, n))
  <2> DEFINE S == NodeCpus(prev, n)
             d == itvs(n)
  <2>1. /\ S \in SUBSET Measured(prev) /\ S = Fibre(node, M, n)
        /\ \A i \in S : st[cur][i] = Forwarded(prev, cur, i) /\ st[prev][i] = Reference(prev, cur, i)
    BY <1>2, <1>3
  <2>2. IsFiniteSet(S) /\ Nats(DoneTotal(prev, cur), S)
    <3>1. S \in SUBSET M
      BY <2>1
    <3> HIDE DEF M, S
    <3> QED
      BY <1>4, <3>1, FS_Subset DEF Nats
  <2>3. DOMAIN d = S /\ \A i \in S : d[i] = DoneTotal(prev, cur)[i]
    BY <1>7
  <2>4. line(n) = LineOf(n, AddCpus(S, st[cur]), AddCpus(S, st[prev]), SumFunction(d))
    BY Zenon
  <2> HIDE DEF S, st, d, line, itvs
  <2>5. SumFunction(d) = SumFunctionOnSet(DoneTotal(prev, cur), S)
    <3>1. SumFunctionOnSet(DoneTotal(prev, cur), S) = SumFunctionOnSet(d, S)
      BY <2>2, <2>3, SumIsSame
    <3> QED
      BY <2>3, <3>1 DEF SumFunction
  <2>6. /\ line(n).name = n /\ line(n).itv = SumFunction(d)
        /\ line(n).busy = SumFunctionOnSet(DoneBusy(prev, cur), S)
        /\ line(n).idle = SumFunctionOnSet(DoneIdle(prev, cur), S)
    BY <2>1, <2>4, GroupLine
  <2> QED
    BY <2>1, <2>5, <2>6
<1> HIDE DEF st, line, itvs
<1>9. /\ g \in [T -> lines]
      /\ \A x, y \in T : g[x] = g[y] => x = y
      /\ \A l \in lines : \E x \in T : g[x] = l
  <2>1. \A n \in T : line(n) \in lines
    BY <1>1
  <2>2. \A l \in lines : \E n \in T : l = line(n)
    BY <1>1
  <2>3. \A n : line(n).name = n
    BY <1>8
  <2>4. \A n \in T : g[n] = line(n)
    OBVIOUS
  <2>5. g = [n \in T |-> g[n]]
    OBVIOUS
  <2> HIDE DEF lines, T, g
  <2> QED
    BY <2>1, <2>2, <2>3, <2>4, <2>5
<1>10. \A n \in T : g[n] = line(n)
  OBVIOUS
<1> HIDE DEF lines, M, T, g, node
<1>11. ASSUME NEW u, NEW v, Nats(v, M), DOMAIN u = lines,
              \A n \in T : u[g[n]] = SumFunctionOnSet(v, Fibre(node, M, n))
       PROVE  SumFunction(u) = SumFunctionOnSet(v, M)
  <2> DEFINE s == FibreSums(node, v, M, T)
  <2>1. \A n \in T : s[n] = SumFunctionOnSet(v, Fibre(node, M, n))
    BY DEF FibreSums
  <2>2. SumFunctionOnSet(s, T) = SumFunctionOnSet(v, M)
    BY <1>4, <1>5, <1>6, <1>11, SumOfSums
  <2>3. Nats(s, T)
    <3> SUFFICES ASSUME NEW n \in T PROVE SumFunctionOnSet(v, Fibre(node, M, n)) \in Nat
      BY <2>1 DEF Nats
    <3>1. IsFiniteSet(Fibre(node, M, n)) /\ Nats(v, Fibre(node, M, n))
      <4>1. Fibre(node, M, n) \subseteq M
        BY DEF Fibre
      <4> QED
        BY <1>4, <1>11, <4>1, FS_Subset DEF Nats
    <3> QED
      BY <3>1, SumIsNat
  <2> HIDE DEF s
  <2>4. SumFunction(u) = SumFunctionOnSet(s, T)
    BY <1>5, <1>9, <1>11, <2>1, <2>3, SumOfLines
  <2> QED
    BY <2>2, <2>4
<1>12. \A n \in T : g[n] \in lines
  BY <1>9
<1>13. SumFunction([m \in lines |-> m.busy]) = BusyOf(prev, cur)
  BY <1>4, <1>8, <1>10, <1>11, <1>12 DEF BusyOf, M
<1>14. SumFunction([m \in lines |-> m.idle]) = IdleOf(prev, cur)
  BY <1>4, <1>8, <1>10, <1>11, <1>12 DEF IdleOf, M
<1>15. SumFunction([m \in lines |-> m.itv]) = TotalOf(prev, cur)
  BY <1>4, <1>8, <1>10, <1>11, <1>12 DEF TotalOf, M
<1> QED
  BY <1>13, <1>14, <1>15 DEF lines, st

\* The samples of a report are in the order they were taken.
LEMMA AheadOK ==
  ASSUME MpInv
  PROVE  /\ mpc = "write" => Ahead(1 - mcurr, mcurr)
         /\ mpc = "average" => Ahead(2, mcurr)
         /\ mpc = "boot" => Ahead(1, 0)
<1>1. KernelOK /\ MpType /\ CpuSamples
  BY DEF MpInv
<1>2. Total(NoCpu) = 0 /\ NoCpu.busy = 0
  BY DEF Total, NoCpu
<1>3. ASSUME NEW prev \in Slot, NEW cur \in Slot, NEW i \in Measured(prev)
      PROVE  /\ i \in 1..cpu_nr /\ i \in Cpus /\ (mopt.interval => st_cpu[prev][i] # NoCpu)
             /\ st_cpu[prev][i] \in Sample /\ st_cpu[cur][i] \in Sample
             /\ Forwarded(prev, cur, i) = IF Total(st_cpu[cur][i]) = 0 THEN st_cpu[prev][i] ELSE st_cpu[cur][i]
  <2>1. i \in 1..cpu_nr
    BY DEF Measured
  <2>2. i \in Cpus
    BY <1>1, <2>1, Numbers DEF MpType
  <2>3. mopt.interval => Total(st_cpu[prev][i]) # 0
    BY <2>1 DEF Measured, Unreferenced
  <2> QED
    BY <1>1, <1>2, <2>1, <2>2, <2>3, ValuesOf DEF Forwarded, NotRead
<1>4. \A x \in Sample : x.busy \in Nat /\ x.busy <= x.busy
  BY DEF Sample
<1>5. \A c \in Cpus : /\ kern.cpu[c] \in CpuRecords /\ seen[c].cpu \in CpuRecords /\ first.cpu[c] \in CpuRecords
                      /\ seen[c].cpu.busy <= kern.cpu[c].busy /\ first.cpu[c].busy <= kern.cpu[c].busy
                      /\ ~kern.cpu[c].up /\ seen[c].ever => kern.cpu[c].busy = seen[c].cpu.busy
  BY <1>1 DEF KernelOK, Later
<1>6. ASSUME mpc = "write" PROVE Ahead(1 - mcurr, mcurr)
  <2>1. mcurr \in Slot /\ 1 - mcurr \in Slot /\ mopt.interval
    BY <1>1, <1>6 DEF MpType, Slot, InInterval
  <2> SUFFICES ASSUME NEW i \in Measured(1 - mcurr)
               PROVE  st_cpu[1 - mcurr][i].busy <= Forwarded(1 - mcurr, mcurr, i).busy
    BY DEF Ahead
  <2> DEFINE p == st_cpu[1 - mcurr][i]
             c == st_cpu[mcurr][i]
             f == Forwarded(1 - mcurr, mcurr, i)
  <2>2. /\ i \in 1..cpu_nr /\ i \in Cpus /\ p # NoCpu /\ p \in Sample /\ c \in Sample
        /\ f = IF Total(c) = 0 THEN p ELSE c
    BY <1>3, <2>1
  <2>3. c = NowRead(i) /\ Known(p, i)
    BY <1>1, <1>6, <2>2 DEF CpuSamples
  <2> HIDE DEF p, c, f
  <2>4. seen[i].ever /\ p = Counts(seen[i].cpu)
    BY <2>2, <2>3 DEF Known
  <2>5. CASE c = NoCpu
    BY <1>2, <1>4, <2>2, <2>5 DEF p, f
  <2>6. CASE c # NoCpu
    <3>1. c = Counts(kern.cpu[i])
      BY <2>3, <2>6 DEF NowRead
    <3>2. p.busy = seen[i].cpu.busy /\ c.busy = kern.cpu[i].busy
      BY <1>5, <2>2, <2>4, <3>1, CountsOK
    <3>3. p.busy <= c.busy /\ p.busy <= p.busy
      BY <1>4, <1>5, <2>2, <3>2
    <3> QED
      BY <2>2, <3>3 DEF p, f
  <2> QED
    BY <2>5, <2>6
<1>7. ASSUME mpc = "average" PROVE Ahead(2, mcurr)
  <2>1. mcurr \in Slot /\ 2 \in Slot /\ mopt.interval
    BY <1>1, <1>7 DEF MpType, Slot, InInterval
  <2> SUFFICES ASSUME NEW i \in Measured(2)
               PROVE  st_cpu[2][i].busy <= Forwarded(2, mcurr, i).busy
    BY DEF Ahead
  <2> DEFINE p == st_cpu[2][i]
             c == st_cpu[mcurr][i]
             f == Forwarded(2, mcurr, i)
  <2>2. /\ i \in 1..cpu_nr /\ i \in Cpus /\ p # NoCpu /\ p \in Sample /\ c \in Sample
        /\ f = IF Total(c) = 0 THEN p ELSE c
    BY <1>3, <2>1
  <2>3. /\ p = FirstRead(i)
        /\ IF kern.cpu[i].up THEN c = Counts(kern.cpu[i]) ELSE Known(c, i)
    BY <1>1, <1>7, <2>2 DEF CpuSamples, InInterval
  <2> HIDE DEF p, c, f
  <2>4. p = Counts(first.cpu[i])
    BY <2>2, <2>3 DEF FirstRead
  <2>5. CASE c = NoCpu
    BY <1>2, <1>4, <2>2, <2>5 DEF p, f
  <2>6. CASE c # NoCpu
    <3>1. p.busy = first.cpu[i].busy /\ c.busy = kern.cpu[i].busy
      <4>1. CASE kern.cpu[i].up
        BY <1>5, <2>2, <2>3, <2>4, <4>1, CountsOK
      <4>2. CASE ~kern.cpu[i].up
        <5>1. seen[i].ever /\ c = Counts(seen[i].cpu)
          BY <2>3, <2>6, <4>2 DEF Known
        <5> QED
          BY <1>5, <2>2, <2>4, <4>2, <5>1, CountsOK
      <4> QED
        BY <4>1, <4>2
    <3>2. p.busy <= c.busy /\ p.busy <= p.busy
      BY <1>4, <1>5, <2>2, <3>1
    <3> QED
      BY <2>2, <3>2 DEF p, f
  <2> QED
    BY <2>5, <2>6
<1>8. ASSUME mpc = "boot" PROVE Ahead(1, 0)
  <2>1. 0 \in Slot /\ 1 \in Slot
    BY DEF Slot
  <2> SUFFICES ASSUME NEW i \in Measured(1)
               PROVE  st_cpu[1][i].busy <= Forwarded(1, 0, i).busy
    BY DEF Ahead
  <2>2. i \in 1..cpu_nr /\ st_cpu[1][i] \in Sample /\ st_cpu[0][i] \in Sample
    BY <1>3, <2>1
  <2>3. Forwarded(1, 0, i) \in Sample
    BY <1>1, <2>1, <2>2, ValuesOf
  <2>4. st_cpu[1][i] = NoCpu
    BY <1>1, <1>8, <2>2 DEF CpuSamples
  <2> QED
    BY <1>2, <1>4, <2>3, <2>4 DEF Sample
<1> QED
  BY <1>6, <1>7, <1>8

LEMMA ReportAgrees ==
  ASSUME MpType, NEW prev \in Slot, NEW cur \in Slot, prev # cur, Ahead(prev, cur),
         WriteCore(prev, cur), UNCHANGED mopt
  PROVE  SumsAgree'
<1> DEFINE st == GlobalSample(prev, cur)
           lines == {m \in CpuLines(prev, cur, st) : m.name > 0}
           nodes == NodeLines(prev, cur, st)
<1>1. mout'.cpu = CpuLines(prev, cur, st) /\ mout'.node = nodes
  BY DEF WriteCore
<1> SUFFICES ASSUME NEW l \in CpuLines(prev, cur, st), l.name = 0, mopt.P
             PROVE  LET itv == SumFunction([m \in lines |-> m.itv])
                    IN  /\ l.busy = SumFunction([m \in lines |-> m.busy])
                        /\ l.iowait = SumFunction([m \in lines |-> m.iowait])
                        /\ l.idle = SumFunction([m \in lines |-> m.idle])
                        /\ l.busy = SumFunction([m \in nodes |-> m.busy])
                        /\ l.idle = SumFunction([m \in nodes |-> m.idle])
                        /\ l.itv \in {1, itv} /\ itv = SumFunction([m \in nodes |-> m.itv])
                        /\ l.itv = l.busy + l.iowait + l.idle \/ (l.busy + l.iowait + l.idle = 0)
  <2> HIDE DEF st, nodes
  <2> QED
    BY <1>1, Zenon DEF SumsAgree
<1>2. /\ SumFunction([m \in lines |-> m.busy]) = BusyOf(prev, cur)
      /\ SumFunction([m \in lines |-> m.iowait]) = IowaitOf(prev, cur)
      /\ SumFunction([m \in lines |-> m.idle]) = IdleOf(prev, cur)
      /\ SumFunction([m \in lines |-> m.itv]) = TotalOf(prev, cur)
  BY SumOfShown
<1>3. /\ SumFunction([m \in nodes |-> m.busy]) = BusyOf(prev, cur)
      /\ SumFunction([m \in nodes |-> m.idle]) = IdleOf(prev, cur)
      /\ SumFunction([m \in nodes |-> m.itv]) = TotalOf(prev, cur)
  BY NodeLinesAre
<1>4. /\ l.busy = BusyOf(prev, cur) /\ l.iowait = IowaitOf(prev, cur) /\ l.idle = IdleOf(prev, cur)
      /\ l.itv = IF TotalOf(prev, cur) = 0 THEN 1 ELSE TotalOf(prev, cur)
  BY GlobalLine
<1>5. TotalOf(prev, cur) = BusyOf(prev, cur) + IowaitOf(prev, cur) + IdleOf(prev, cur)
  BY DoneOK
<1> HIDE DEF st, lines, nodes
<1> QED
  BY <1>2, <1>3, <1>4, <1>5

LEMMA SumsStep ==
  ASSUME MpInv, SumsAgree, Next
  PROVE  SumsAgree'
<1>1. CASE ReadFirst \/ ReadStats \/ Interrupted \/ Done
  <2>1. UNCHANGED <<mopt, mout>>
    BY <1>1, Zenon DEF ReadFirst, ReadStats, Interrupted, Done, mpVars
  <2> QED
    BY <2>1, Zenon DEF SumsAgree
<1>2. CASE Pause
  <2>1. mout'.cpu = {}
    BY <1>2 DEF Pause, NoReport
  <2> QED
    BY <2>1, Zenon DEF SumsAgree
<1>3. MpType /\ mcurr \in Slot /\ 1 - mcurr \in Slot /\ 2 \in Slot /\ 0 \in Slot /\ 1 \in Slot
      /\ mcurr # 2 /\ mcurr # 1 - mcurr
  BY DEF MpInv, MpType, Slot
<1>4. CASE WriteSinceBoot
  <2>1. mpc = "boot" /\ WriteCore(1, 0) /\ UNCHANGED mopt
    BY <1>4, Zenon DEF WriteSinceBoot
  <2> QED
    BY <1>3, <2>1, AheadOK, ReportAgrees
<1>5. CASE WriteStats
  <2>1. mpc = "write" /\ WriteCore(1 - mcurr, mcurr) /\ UNCHANGED mopt
    BY <1>5, Zenon DEF WriteStats
  <2> QED
    BY <1>3, <2>1, AheadOK, ReportAgrees
<1>6. CASE Average
  <2>1. mpc = "average" /\ WriteCore(2, mcurr) /\ UNCHANGED mopt
    BY <1>6, Zenon DEF Average
  <2> QED
    BY <1>3, <2>1, AheadOK, ReportAgrees
<1> QED
  BY <1>1, <1>2, <1>4, <1>5, <1>6 DEF Next

-----------------------------------------------------------------------------
(* The inductive invariant of the samples of interrupts.                    *)

\* How many intervals have interrupts that may be counted now.
Used == IF mpc = "read" THEN reads + 2 ELSE reads + 1

\* The counters of an interrupt that has not left the list have not decreased.
IrqLater(p) ==
  \A n \in Names :
    /\ p.reg[n] <= kern.reg[n]
    /\ n \in InList(kern.irqs) \cap InList(p.irqs) /\ kern.reg[n] = p.reg[n] =>
         \A c \in Cpus : p.cnt[n][c] <= kern.cnt[n][c]

IrqNumbers(k) ==
  /\ k.irqs \in IrqLists /\ k.reg \in [Names -> Nat] /\ k.cnt \in [Names -> [Cpus -> Nat]]

IrqKernel(Top) ==
  /\ IrqNumbers(kern) /\ IrqNumbers(first) /\ IrqNumbers(before)
  /\ IrqLater(first) /\ IrqLater(before)
  /\ reads \in 0..(MaxReads + 1) /\ (mpc = "read" => reads < MaxReads) /\ (mpc = "begin" => reads = 0)
  /\ \A n \in Names, c \in Cpus : kern.cnt[n][c] <= Used * Top
  /\ \A n \in InList(kern.irqs) \ InList(first.irqs) : first.reg[n] < kern.reg[n]

\* The element of processor c for the interrupt of line k, from 0.
Elem(c, k) == (c - 1) * irqcpu_nr + k

\* What a sample read from this state of the kernel holds.
ReadIs(s, k) ==
  /\ \A e \in 0..(irqcpu_nr - 1) :
       st_irqcpu[s][e].name = IF e < Len(k.irqs) THEN k.irqs[e + 1] ELSE NoName
  /\ \A c \in 1..cpu_nr : k.cpu[c].up =>
       \A j \in 0..(Len(k.irqs) - 1) : st_irqcpu[s][Elem(c, j)].val = k.cnt[k.irqs[j + 1]][c]

IrqSamples ==
  /\ DOMAIN st_irqcpu = Slot /\ DOMAIN st_irq = Slot
  /\ st_irqcpu = [s \in Slot |-> st_irqcpu[s]] /\ st_irq = [s \in Slot |-> st_irq[s]]
  /\ cpu_nr = NFirst =>
       /\ irqcpu_nr \in Nat \ {0}
       /\ \A irqs \in IrqLists : Len(irqs) <= irqcpu_nr
       /\ mpc \in InInterval => ReadIs(2, first)
       /\ mpc = "first" => ReadIs(0, kern)
       /\ mpc \in {"read", "write"} => ReadIs(1 - mcurr, before)
       /\ mpc \in {"write", "pause", "average"} => ReadIs(mcurr, kern)

IrqInv(Top) == IrqKernel(Top) /\ IrqSamples

-----------------------------------------------------------------------------
(* The inductive invariant of what is kept of processors that are offline.  *)

\* A sample has these counters for processor c, and their sum for its total.
HeldAs(s, c, cnt) ==
  /\ \A j \in 0..(Len(first.irqs) - 1) : st_irqcpu[s][Elem(c, j)].val = cnt[first.irqs[j + 1]]
  /\ st_irq[s][c] = SumFunction([i \in 1..Len(first.irqs) |-> cnt[first.irqs[i]]])

CountsOf(c) == [n \in Names |-> kern.cnt[n][c]]

NowHeld(s, c) ==
  IF kern.cpu[c].up THEN HeldAs(s, c, CountsOf(c)) ELSE (seen[c].ever => HeldAs(s, c, seen[c].cnt))

HeldInv ==
  /\ \A c \in Cpus : seen[c].ever => seen[c].cnt \in [Names -> Nat]
  /\ SameList(first) /\ mpc \in {"read", "write"} => before.irqs = first.irqs
  /\ SameList(first) => \A c \in Cpus : seen[c].ever =>
       \A n \in InList(first.irqs) : seen[c].cnt[n] <= kern.cnt[n][c]
  /\ SameList(first) /\ cpu_nr = NFirst => \A c \in 1..cpu_nr :
       /\ mpc = "first" => NowHeld(0, c)
       /\ mpc \in {"read", "write"} => (seen[c].ever => HeldAs(1 - mcurr, c, seen[c].cnt))
       /\ mpc \in {"write", "pause", "average"} => NowHeld(mcurr, c)

-----------------------------------------------------------------------------
(* Interrupts in an interval.                                               *)

\* What is left of the counters of interrupts after an interval.
IrqStep(Top) ==
  /\ IrqNumbers(kern)'
  /\ \A n \in Names :
       /\ kern.reg[n] <= kern'.reg[n]
       /\ n \in InList(kern'.irqs) \ InList(kern.irqs) => kern.reg[n] < kern'.reg[n]
       /\ \A c \in Cpus : /\ kern'.cnt[n][c] <= kern.cnt[n][c] + Top
                          /\ n \in InList(kern.irqs) \cap InList(kern'.irqs) => kern.cnt[n][c] <= kern'.cnt[n][c]

LEMMA ListOK ==
  ASSUME NEW irqs \in IrqLists
  PROVE  /\ irqs \in Seq(Names) /\ Len(irqs) \in Nat /\ DOMAIN irqs = 1..Len(irqs)
         /\ \A i \in 1..Len(irqs) : irqs[i] \in Names /\ irqs[i] \in InList(irqs)
         /\ InList(irqs) \subseteq Names
         /\ \A n \in InList(irqs) : \E i \in 1..Len(irqs) : n = irqs[i]
<1>1. irqs \in Seq(Names)
  BY MpstatAssumption
<1> QED
  BY <1>1 DEF InList

LEMMA IrqElapsed ==
  ASSUME TimePasses, NEW Top, Counted(Top), IrqNumbers(kern), CpusElapse
  PROVE  IrqStep(Top)
<1>1. PICK w \in [Cpus -> CpuWorks], irqs \in IrqLists, present \in {kern.present, NCpu} :
        \E cpu \in [Cpus -> UNION {CpuNext(kern.cpu[c], w[c]) : c \in Cpus}] :
          Passed(w, irqs, present, cpu)
  BY ElapsedCpus
<1>2. PICK cpu : Passed(w, irqs, present, cpu)
  BY <1>1
<1> DEFINE more(n, c) == IF cpu[c].up THEN w[c][4] * Weight[n] ELSE 0
<1>3. /\ kern'.irqs = irqs
      /\ kern'.cnt = [n \in Names |-> [c \in Cpus |->
                        IF n \notin InList(irqs) THEN 0
                        ELSE (IF n \in InList(kern.irqs) THEN kern.cnt[n][c] ELSE 0) + more(n, c)]]
      /\ kern'.reg = [n \in Names |->
                        IF n \in InList(irqs) \ InList(kern.irqs) THEN kern.reg[n] + 1 ELSE kern.reg[n]]
  BY <1>2 DEF Passed
<1>4. \A n \in Names, c \in Cpus : more(n, c) \in Nat /\ more(n, c) <= Top
  <2> SUFFICES ASSUME NEW n \in Names, NEW c \in Cpus PROVE more(n, c) \in Nat /\ more(n, c) <= Top
    OBVIOUS
  <2>1. w[c] \in CpuWorks /\ w[c][4] \in Nat /\ Weight[n] \in Nat /\ w[c][4] * Weight[n] <= Top /\ Top \in Nat
    BY DEF TimePasses, Counted
  <2>2. w[c][4] * Weight[n] \in Nat
    BY <2>1
  <2> QED
    BY <2>1, <2>2
<1> HIDE DEF more
<1>5. /\ kern.reg \in [Names -> Nat] /\ kern.cnt \in [Names -> [Cpus -> Nat]] /\ Top \in Nat
  BY DEF IrqNumbers, Counted
<1>6. ASSUME NEW n \in Names
      PROVE  /\ kern'.reg[n] \in Nat /\ kern.reg[n] <= kern'.reg[n]
             /\ n \in InList(kern'.irqs) \ InList(kern.irqs) => kern.reg[n] < kern'.reg[n]
  <2>1. kern'.reg[n] = IF n \in InList(irqs) \ InList(kern.irqs) THEN kern.reg[n] + 1 ELSE kern.reg[n]
    BY <1>3
  <2> QED
    BY <1>3, <1>5, <2>1
<1>7. ASSUME NEW n \in Names, NEW c \in Cpus
      PROVE  /\ kern'.cnt[n][c] \in Nat /\ kern'.cnt[n][c] <= kern.cnt[n][c] + Top
             /\ n \in InList(kern.irqs) \cap InList(kern'.irqs) => kern.cnt[n][c] <= kern'.cnt[n][c]
  <2>1. kern'.cnt[n][c] = IF n \notin InList(irqs) THEN 0
                          ELSE (IF n \in InList(kern.irqs) THEN kern.cnt[n][c] ELSE 0) + more(n, c)
    BY <1>3
  <2>2. kern.cnt[n][c] \in Nat /\ more(n, c) \in Nat /\ more(n, c) <= Top
    BY <1>4, <1>5
  <2> QED
    BY <1>3, <1>5, <2>1, <2>2
<1>8. kern'.reg \in [Names -> Nat] /\ kern'.cnt \in [Names -> [Cpus -> Nat]]
  <2>1. kern'.reg = [n \in Names |-> kern'.reg[n]]
    BY <1>3
  <2>2. kern'.cnt = [n \in Names |-> [c \in Cpus |-> kern'.cnt[n][c]]]
    BY <1>3
  <2> QED
    BY <1>6, <1>7, <2>1, <2>2
<1>9. IrqNumbers(kern)'
  BY <1>3, <1>8 DEF IrqNumbers
<1> QED
  BY <1>6, <1>7, <1>9 DEF IrqStep

LEMMA IrqInitOK ==
  ASSUME NEW Top, Counted(Top), Init
  PROVE  IrqKernel(Top)
<1>1. PICK S \in SUBSET (2..NFirst), irqs \in IrqLists : kern = Kernel({1} \cup S, irqs)
  BY Zenon DEF Init
<1>2. first = kern /\ before = kern /\ reads = 0 /\ mpc = "begin"
  BY DEF Init
<1>3. /\ kern.irqs = irqs /\ kern.reg = [n \in Names |-> 0]
      /\ kern.cnt = [n \in Names |-> [c \in Cpus |->
                      IF n \in InList(irqs) /\ c \in {1} \cup S THEN Weight[n] ELSE 0]]
  BY <1>1 DEF Kernel
<1>4. /\ Weight \in [Names -> Nat] /\ Top \in Nat
  BY DEF Counted
<1>5. kern.reg \in [Names -> Nat] /\ kern.cnt \in [Names -> [Cpus -> Nat]]
  BY <1>3, <1>4
<1>6. IrqNumbers(kern) /\ IrqNumbers(first) /\ IrqNumbers(before)
  BY <1>2, <1>3, <1>5 DEF IrqNumbers
<1>7. IrqLater(first) /\ IrqLater(before)
  <2> SUFFICES ASSUME NEW n \in Names
               PROVE  kern.reg[n] <= kern.reg[n] /\ \A c \in Cpus : kern.cnt[n][c] <= kern.cnt[n][c]
    BY <1>2 DEF IrqLater
  <2> QED
    BY <1>5
<1>8. ASSUME NEW n \in Names, NEW c \in Cpus PROVE kern.cnt[n][c] <= Used * Top
  <2>1. kern.cnt[n][c] = Weight[n] \/ kern.cnt[n][c] = 0
    BY <1>3
  <2>2. Weight[n] \in Nat /\ Weight[n] <= Top
    BY <1>4 DEF Counted
  <2>3. Used * Top = Top
    BY <1>2, <1>4 DEF Used
  <2> QED
    BY <1>4, <2>1, <2>2, <2>3
<1>9. reads \in 0..(MaxReads + 1) /\ (mpc = "read" => reads < MaxReads) /\ (mpc = "begin" => reads = 0)
  BY <1>2, MpstatAssumption
<1>10. \A n \in InList(kern.irqs) \ InList(first.irqs) : first.reg[n] < kern.reg[n]
  BY <1>2
<1> QED
  BY <1>6, <1>7, <1>8, <1>9, <1>10 DEF IrqKernel

LEMMA IrqPause ==
  ASSUME TimePasses, NEW Top, Counted(Top), IrqKernel(Top), Pause
  PROVE  IrqKernel(Top)'
<1>1. /\ CpusElapse /\ before' = kern /\ mpc' = "read" /\ reads < MaxReads
      /\ UNCHANGED <<first, reads>> /\ mpc # "read"
  BY Zenon DEF Pause
<1>2. IrqStep(Top)
  BY <1>1, IrqElapsed DEF IrqKernel
<1>3. IrqNumbers(kern)' /\ IrqNumbers(first)' /\ IrqNumbers(before)'
  BY <1>1, <1>2 DEF IrqStep, IrqKernel, IrqNumbers
<1>4. \A n \in Names :
        /\ kern.reg[n] \in Nat /\ first.reg[n] \in Nat /\ kern'.reg[n] \in Nat
        /\ \A c \in Cpus : kern.cnt[n][c] \in Nat /\ first.cnt[n][c] \in Nat /\ kern'.cnt[n][c] \in Nat
  BY <1>3 DEF IrqKernel, IrqNumbers
<1>5. \A n \in Names :
        /\ kern.reg[n] <= kern'.reg[n]
        /\ n \in InList(kern'.irqs) \ InList(kern.irqs) => kern.reg[n] < kern'.reg[n]
        /\ \A c \in Cpus : /\ kern'.cnt[n][c] <= kern.cnt[n][c] + Top
                           /\ n \in InList(kern.irqs) \cap InList(kern'.irqs) => kern.cnt[n][c] <= kern'.cnt[n][c]
  BY <1>2 DEF IrqStep
<1>6. \A n \in Names :
        /\ first.reg[n] <= kern.reg[n]
        /\ n \in InList(kern.irqs) \cap InList(first.irqs) /\ kern.reg[n] = first.reg[n] =>
             \A c \in Cpus : first.cnt[n][c] <= kern.cnt[n][c]
  BY DEF IrqKernel, IrqLater
<1>7. ASSUME NEW n \in Names
      PROVE  /\ first.reg[n] <= kern'.reg[n]
             /\ n \in InList(kern'.irqs) \cap InList(first.irqs) /\ kern'.reg[n] = first.reg[n] =>
                  \A c \in Cpus : first.cnt[n][c] <= kern'.cnt[n][c]
             /\ n \in InList(kern'.irqs) \cap InList(kern.irqs) /\ kern'.reg[n] = kern.reg[n] =>
                  \A c \in Cpus : kern.cnt[n][c] <= kern'.cnt[n][c]
  <2>1. first.reg[n] <= kern'.reg[n]
    BY <1>4, <1>5, <1>6
  <2>2. ASSUME n \in InList(kern'.irqs) \cap InList(first.irqs), kern'.reg[n] = first.reg[n], NEW c \in Cpus
        PROVE  first.cnt[n][c] <= kern'.cnt[n][c]
    <3>1. kern.reg[n] = first.reg[n] /\ n \in InList(kern.irqs)
      BY <1>4, <1>5, <1>6, <2>2
    <3>2. first.cnt[n][c] <= kern.cnt[n][c] /\ kern.cnt[n][c] <= kern'.cnt[n][c]
      BY <1>5, <1>6, <2>2, <3>1
    <3> QED
      BY <1>4, <3>2
  <2> QED
    BY <1>5, <2>1, <2>2
<1>8. IrqLater(first)' /\ IrqLater(before)'
  BY <1>1, <1>5, <1>7 DEF IrqLater
<1>9. ASSUME NEW n \in Names, NEW c \in Cpus PROVE kern'.cnt[n][c] <= (reads + 2) * Top
  <2>1. kern.cnt[n][c] <= (reads + 1) * Top
    BY <1>1 DEF IrqKernel, Used
  <2>2. reads \in Nat /\ Top \in Nat
    BY DEF IrqKernel, Counted
  <2>3. (reads + 2) * Top = (reads + 1) * Top + Top /\ (reads + 1) * Top \in Nat
    BY <2>2
  <2> QED
    BY <1>4, <1>5, <2>1, <2>2, <2>3
<1>10. \A n \in Names, c \in Cpus : kern'.cnt[n][c] <= Used' * Top
  BY <1>1, <1>9 DEF Used
<1>11. \A n \in InList(kern'.irqs) \ InList(first.irqs) : first.reg[n] < kern'.reg[n]
  <2> SUFFICES ASSUME NEW n \in InList(kern'.irqs) \ InList(first.irqs) PROVE first.reg[n] < kern'.reg[n]
    OBVIOUS
  <2>1. n \in Names
    BY <1>3, ListOK DEF IrqNumbers
  <2>2. CASE n \in InList(kern.irqs)
    <3>1. first.reg[n] < kern.reg[n]
      BY <2>2 DEF IrqKernel
    <3> QED
      BY <1>4, <1>5, <2>1, <3>1
  <2>3. CASE n \notin InList(kern.irqs)
    BY <1>4, <1>5, <1>6, <2>1, <2>3
  <2> QED
    BY <2>2, <2>3
<1>12. reads' \in 0..(MaxReads + 1) /\ reads' < MaxReads
  BY <1>1 DEF IrqKernel
<1> QED
  BY <1>1, <1>3, <1>8, <1>10, <1>11, <1>12 DEF IrqKernel

LEMMA IrqReading ==
  ASSUME NEW Top \in Nat, IrqKernel(Top), ReadFirst \/ ReadStats
  PROVE  IrqKernel(Top)'
<1>1. /\ UNCHANGED <<kern, before>> /\ reads' = reads + 1
      /\ \/ mpc = "begin" /\ first' = kern /\ mpc' \in {"first", "boot"}
         \/ mpc = "read" /\ first' = first /\ mpc' = "write"
  BY Zenon DEF ReadFirst, ReadStats
<1>2. /\ reads \in 0..(MaxReads + 1) /\ (mpc = "read" => reads < MaxReads) /\ (mpc = "begin" => reads = 0)
      /\ MaxReads \in Nat
  BY MpstatAssumption DEF IrqKernel
<1>3. /\ reads' \in 0..(MaxReads + 1) /\ (mpc' = "read" => reads' < MaxReads)
      /\ (mpc' = "begin" => reads' = 0)
  BY <1>1, <1>2
<1>4. IrqLater(first)' /\ IrqLater(before)'
  <2>1. IrqLater(before)' /\ (first' = first => IrqLater(first)')
    BY <1>1 DEF IrqKernel, IrqLater
  <2>2. ASSUME first' = kern, NEW n \in Names
        PROVE  kern.reg[n] <= kern.reg[n] /\ \A c \in Cpus : kern.cnt[n][c] <= kern.cnt[n][c]
    BY DEF IrqKernel, IrqNumbers
  <2> QED
    BY <1>1, <2>1, <2>2 DEF IrqLater
<1>5. ASSUME NEW n \in Names, NEW c \in Cpus PROVE kern.cnt[n][c] <= Used' * Top
  <2>1. kern.cnt[n][c] <= Used * Top
    BY DEF IrqKernel
  <2>2. CASE mpc = "read"
    BY <1>1, <1>2, <2>1, <2>2 DEF Used
  <2>3. CASE mpc = "begin"
    <3>1. Used = 1 /\ Used' = 2
      BY <1>1, <1>2, <2>3 DEF Used
    <3>2. Top \in Nat /\ kern.cnt[n][c] \in Nat
      BY DEF IrqKernel, IrqNumbers
    <3> QED
      BY <2>1, <3>1, <3>2
  <2> QED
    BY <1>1, <2>2, <2>3
<1>6. IrqNumbers(kern)' /\ IrqNumbers(first)' /\ IrqNumbers(before)'
  BY <1>1 DEF IrqKernel, IrqNumbers
<1>7. \A n \in InList(kern.irqs) \ InList(first'.irqs) : first'.reg[n] < kern.reg[n]
  BY <1>1 DEF IrqKernel
<1> QED
  BY <1>1, <1>3, <1>4, <1>5, <1>6, <1>7 DEF IrqKernel

LEMMA IrqKernelSame ==
  ASSUME NEW Top, IrqKernel(Top), WriteSinceBoot \/ WriteStats \/ Average \/ Interrupted \/ Done
  PROVE  IrqKernel(Top)'
<1>1. /\ UNCHANGED <<kern, first, before, reads>>
      /\ mpc' = mpc \/ (mpc # "read" /\ mpc' \in {"done", "pause", "average"})
  BY Zenon DEF WriteSinceBoot, WriteStats, Average, Interrupted, Done, kernelVars, mpVars
<1>2. Used' = Used
  BY <1>1 DEF Used
<1> QED
  BY <1>1, <1>2 DEF IrqKernel, IrqNumbers, IrqLater

-----------------------------------------------------------------------------
(* The elements of st_irqcpu.                                               *)

LEMMA Division ==
  ASSUME NEW q \in Nat, NEW N \in Nat, NEW x \in 0..(N - 1)
  PROVE  (q * N + x) \div N = q /\ (q * N + x) % N = x
  OBVIOUS

LEMMA InRows ==
  ASSUME NEW q \in Nat, NEW n \in Nat, NEW N \in Nat, NEW x \in 0..(N - 1), q + 1 <= n
  PROVE  q * N + x \in 0..((n + 1) * N - 1)
<1> DEFINE a == q * N
           b == n * N
           d == (n + 1) * N
<1>1. a + N <= b /\ b + N = d /\ a \in Nat /\ b \in Nat /\ d \in Nat
  <2>1. q * N + N <= n * N
    OBVIOUS
  <2>2. n * N + N = (n + 1) * N
    OBVIOUS
  <2>3. q * N \in Nat /\ n * N \in Nat /\ (n + 1) * N \in Nat
    OBVIOUS
  <2> QED
    BY <2>1, <2>2, <2>3
<1> HIDE DEF a, b, d
<1>2. a + x \in 0..(d - 1)
  BY <1>1
<1> QED
  BY <1>2 DEF a, d

\* The first row has the names.
LEMMA ElemIs ==
  ASSUME cpu_nr \in Nat, irqcpu_nr \in Nat, NEW c \in 1..cpu_nr, NEW j \in 0..(irqcpu_nr - 1)
  PROVE  /\ Elem(c, j) \in Elements /\ Row(Elem(c, j)) = c /\ Col(Elem(c, j)) = j
         /\ j \in Elements
<1>1. c - 1 \in Nat /\ (c - 1) + 1 <= cpu_nr
  OBVIOUS
<1>2. /\ (c - 1) * irqcpu_nr + j \in 0..((cpu_nr + 1) * irqcpu_nr - 1)
      /\ ((c - 1) * irqcpu_nr + j) \div irqcpu_nr = c - 1
      /\ ((c - 1) * irqcpu_nr + j) % irqcpu_nr = j
  BY <1>1, Division, InRows
<1>3. 0 * irqcpu_nr + j \in 0..((cpu_nr + 1) * irqcpu_nr - 1)
  <2>1. 0 \in Nat /\ 0 + 1 <= cpu_nr
    OBVIOUS
  <2> QED
    BY <2>1, InRows
<1>4. 0 * irqcpu_nr + j = j
  OBVIOUS
<1>5. 1 + (c - 1) = c
  OBVIOUS
<1> DEFINE e == (c - 1) * irqcpu_nr + j
<1>6. e = Elem(c, j)
  BY DEF Elem
<1> HIDE DEF e
<1>7. e \div irqcpu_nr = c - 1 /\ e % irqcpu_nr = j /\ e \in Elements
  BY <1>2 DEF e, Elements
<1>8. j \in Elements
  BY <1>3, <1>4 DEF Elements
<1> QED
  BY <1>5, <1>6, <1>7, <1>8 DEF Row, Col

\* The samples of interrupts can hold every list.
Roomy == /\ irqcpu_nr \in Nat \ {0} /\ \A irqs \in IrqLists : Len(irqs) <= irqcpu_nr
         /\ cpu_nr \in Nat \ {0} /\ 1..cpu_nr \subseteq Cpus /\ kern.irqs \in IrqLists

LEMMA ReadIrqIs ==
  ASSUME Roomy, NEW cur
  PROVE  /\ LinesRead = Len(kern.irqs)
         /\ \A e \in 0..(irqcpu_nr - 1) : 
              ReadIrqCpu(cur)[e].name = IF e < Len(kern.irqs) THEN kern.irqs[e + 1] ELSE NoName
         /\ \A c \in 1..cpu_nr, j \in 0..(Len(kern.irqs) - 1) :
              ReadIrqCpu(cur)[Elem(c, j)].val =
                IF kern.cpu[c].up THEN kern.cnt[kern.irqs[j + 1]][c] ELSE st_irqcpu[1 - cur][Elem(c, j)].val
         /\ \A c \in 1..cpu_nr : ReadIrq(cur)[c] = IF kern.cpu[c].up THEN CpuTotal(c) ELSE st_irq[1 - cur][c]
<1>1. Len(kern.irqs) \in Nat /\ Len(kern.irqs) <= irqcpu_nr /\ irqcpu_nr \in Nat /\ 0 < irqcpu_nr
  BY ListOK DEF Roomy
<1>2. LinesRead = Len(kern.irqs)
  BY <1>1 DEF LinesRead
<1>3. \A c \in 1..cpu_nr : c \in Online <=> kern.cpu[c].up
  BY DEF Roomy, Online
<1>4. ASSUME NEW e \in 0..(irqcpu_nr - 1)
      PROVE  ReadIrqCpu(cur)[e].name = IF e < Len(kern.irqs) THEN kern.irqs[e + 1] ELSE NoName
  <2>1. e \in Elements /\ ~(e >= irqcpu_nr)
    <3>1. 1 \in 1..cpu_nr /\ cpu_nr \in Nat
      BY DEF Roomy
    <3> QED
      BY <1>1, <3>1, ElemIs
  <2> QED
    BY <1>2, <2>1 DEF ReadIrqCpu
<1>5. ASSUME NEW c \in 1..cpu_nr, NEW j \in 0..(Len(kern.irqs) - 1)
      PROVE  ReadIrqCpu(cur)[Elem(c, j)].val =
               IF kern.cpu[c].up THEN kern.cnt[kern.irqs[j + 1]][c] ELSE st_irqcpu[1 - cur][Elem(c, j)].val
  <2> DEFINE e == Elem(c, j)
  <2>1. j \in 0..(irqcpu_nr - 1) /\ j < Len(kern.irqs) /\ cpu_nr \in Nat /\ c <= cpu_nr
    BY <1>1 DEF Roomy
  <2>2. e \in Elements /\ Row(e) = c /\ Col(e) = j
    BY <1>1, <2>1, ElemIs
  <2> HIDE DEF e
  <2>3. ReadIrqCpu(cur)[e].val = IF c \in Online \cap (1..cpu_nr) /\ j < LinesRead
                                 THEN kern.cnt[kern.irqs[j + 1]][c] ELSE Forward(cur, e)
    BY <2>2 DEF ReadIrqCpu
  <2>4. Forward(cur, e) = IF c <= cpu_nr /\ c \notin Online THEN st_irqcpu[1 - cur][e].val
                                                           ELSE st_irqcpu[cur][e].val
    BY <2>2 DEF Forward
  <2> QED
    BY <1>2, <1>3, <2>1, <2>3, <2>4 DEF e
<1>6. ASSUME NEW c \in 1..cpu_nr
      PROVE  ReadIrq(cur)[c] = IF kern.cpu[c].up THEN CpuTotal(c) ELSE st_irq[1 - cur][c]
  <2>1. c \in 0..cpu_nr /\ c # 0
    BY DEF Roomy
  <2>2. ReadIrq(cur)[c] = IF c \in Online THEN CpuTotal(c) ELSE st_irq[1 - cur][c]
    BY <2>1 DEF ReadIrq
  <2> QED
    BY <1>3, <2>2
<1> QED
  BY <1>2, <1>4, <1>5, <1>6

LEMMA ReadGives ==
  ASSUME Roomy, NEW cur, NEW s, st_irqcpu'[s] = ReadIrqCpu(cur), UNCHANGED <<irqcpu_nr, cpu_nr, kern>>
  PROVE  ReadIs(s, kern)'
<1>1. /\ \A e \in 0..(irqcpu_nr - 1) :
            st_irqcpu'[s][e].name = IF e < Len(kern.irqs) THEN kern.irqs[e + 1] ELSE NoName
      /\ \A c \in 1..cpu_nr : kern.cpu[c].up => \A j \in 0..(Len(kern.irqs) - 1) :
            st_irqcpu'[s][Elem(c, j)].val = kern.cnt[kern.irqs[j + 1]][c]
  BY ReadIrqIs
<1>2. \A c, j : Elem(c, j)' = Elem(c, j)
  BY DEF Elem
<1> QED
  BY <1>1, <1>2 DEF ReadIs

LEMMA IsRoomy ==
  ASSUME MpType, NEW Top, IrqKernel(Top), IrqSamples, cpu_nr = NFirst
  PROVE  Roomy
<1>1. cpu_nr \in Nat /\ cpu_nr # 0 /\ 1..cpu_nr \subseteq Cpus
  BY Numbers DEF MpType
<1> QED
  BY <1>1 DEF Roomy, IrqKernel, IrqNumbers, IrqSamples

LEMMA SamplesInitOK ==
  ASSUME RoomForIrqs, Init
  PROVE  IrqSamples
<1>1. /\ mpc = "begin" /\ irqcpu_nr = Len(kern.irqs) + Prealloc
      /\ st_irq = [s \in Slot |-> [i \in 0..cpu_nr |-> 0]]
      /\ st_irqcpu = [s \in Slot |-> [e \in Elements |-> NoIrq]]
  BY DEF Init
<1>2. PICK S \in SUBSET (2..NFirst), irqs \in IrqLists : kern = Kernel({1} \cup S, irqs)
  BY Zenon DEF Init
<1>3. kern.irqs = irqs
  BY <1>2 DEF Kernel
<1>4. irqcpu_nr \in Nat \ {0} /\ \A l \in IrqLists : Len(l) <= irqcpu_nr
  BY <1>1, <1>3, ListOK, MpstatAssumption DEF RoomForIrqs
<1> QED
  BY <1>1, <1>4 DEF IrqSamples, InInterval

LEMMA SamplesReadFirst ==
  ASSUME MpType, NEW Top, IrqKernel(Top), IrqSamples, ReadFirst
  PROVE  IrqSamples'
<1> DEFINE ref == IF mopt.interval THEN 2 ELSE 1
           new(s) == IF s = 0 \/ (s = 2 /\ ref = 2) THEN ReadIrqCpu(0) ELSE st_irqcpu[s]
<1>1. /\ mpc = "begin" /\ first' = kern /\ mpc' = IF mopt.interval THEN "first" ELSE "boot"
      /\ UNCHANGED <<kern, cpu_nr, irqcpu_nr>>
      /\ st_irqcpu' = [s \in Slot |-> new(s)]
      /\ st_irq' = [s \in Slot |-> IF s = 0 \/ (s = 2 /\ ref = 2) THEN ReadIrq(0) ELSE st_irq[s]]
  BY Zenon DEF ReadFirst
<1>2. 0 \in Slot /\ 2 \in Slot
  BY DEF Slot
<1>3. /\ st_irqcpu'[0] = ReadIrqCpu(0)
      /\ mopt.interval => st_irqcpu'[2] = ReadIrqCpu(0)
  BY <1>1, <1>2
<1>4. DOMAIN st_irqcpu' = Slot /\ st_irqcpu' = [s \in Slot |-> st_irqcpu'[s]]
  BY <1>1
<1>5. DOMAIN st_irq' = Slot /\ st_irq' = [s \in Slot |-> st_irq'[s]]
  BY <1>1
<1>6. ASSUME cpu_nr = NFirst, mopt.interval PROVE ReadIs(0, kern)' /\ ReadIs(2, first)'
  <2>1. Roomy
    BY <1>6, IsRoomy
  <2>2. ReadIs(0, kern)' /\ ReadIs(2, kern)'
    BY <1>1, <1>3, <1>6, <2>1, ReadGives
  <2>3. first' = kern'
    BY <1>1
  <2> QED
    BY ONLY <2>2, <2>3, Zenon DEF ReadIs
<1>7. cpu_nr = NFirst => irqcpu_nr \in Nat \ {0} /\ \A irqs \in IrqLists : Len(irqs) <= irqcpu_nr
  BY DEF IrqSamples
<1> HIDE DEF new
<1> QED
  BY <1>1, <1>4, <1>5, <1>6, <1>7 DEF IrqSamples, InInterval

LEMMA SamplesReadStats ==
  ASSUME MpType, NEW Top, IrqKernel(Top), IrqSamples, ReadStats
  PROVE  IrqSamples'
<1>1. /\ mpc = "read" /\ mpc' = "write" /\ UNCHANGED <<kern, first, before, cpu_nr, irqcpu_nr, mcurr>>
      /\ st_irqcpu' = [st_irqcpu EXCEPT ![mcurr] = ReadIrqCpu(mcurr)]
      /\ st_irq' = [st_irq EXCEPT ![mcurr] = ReadIrq(mcurr)]
  BY Zenon DEF ReadStats
<1>2. mcurr \in Slot /\ 1 - mcurr \in Slot /\ 2 \in Slot /\ 1 - mcurr # mcurr /\ 2 # mcurr
  BY DEF MpType, Slot
<1>3. DOMAIN st_irqcpu = Slot /\ DOMAIN st_irq = Slot
  BY DEF IrqSamples
<1>4. st_irqcpu'[mcurr] = ReadIrqCpu(mcurr) /\ \A s \in Slot \ {mcurr} : st_irqcpu'[s] = st_irqcpu[s]
  BY <1>1, <1>2, <1>3
<1>5. DOMAIN st_irqcpu' = Slot /\ st_irqcpu' = [s \in Slot |-> st_irqcpu'[s]]
  BY <1>1, <1>3
<1>6. DOMAIN st_irq' = Slot /\ st_irq' = [s \in Slot |-> st_irq'[s]]
  BY <1>1, <1>3
<1>7. ASSUME cpu_nr = NFirst
      PROVE  ReadIs(2, first)' /\ ReadIs(1 - mcurr, before)' /\ ReadIs(mcurr, kern)'
  <2>1. ReadIs(2, first) /\ ReadIs(1 - mcurr, before)
    BY <1>1, <1>7 DEF IrqSamples, InInterval
  <2>2. st_irqcpu'[2] = st_irqcpu[2] /\ st_irqcpu'[1 - mcurr] = st_irqcpu[1 - mcurr]
    BY <1>2, <1>4
  <2>3. \A c, j : Elem(c, j)' = Elem(c, j)
    BY <1>1 DEF Elem
  <2>4. ReadIs(2, first)' /\ ReadIs(1 - mcurr, before)'
    BY <1>1, <2>1, <2>2, <2>3 DEF ReadIs
  <2>5. Roomy
    BY <1>7, IsRoomy
  <2>6. \A s : s = mcurr => ReadIs(s, kern)'
    BY <1>1, <1>4, <2>5, ReadGives
  <2> QED
    BY <1>1, <2>4, <2>6 DEF ReadIs
<1>8. cpu_nr = NFirst => irqcpu_nr \in Nat \ {0} /\ \A irqs \in IrqLists : Len(irqs) <= irqcpu_nr
  BY DEF IrqSamples
<1> QED
  BY <1>1, <1>5, <1>6, <1>7, <1>8 DEF IrqSamples, InInterval

LEMMA SamplesPause ==
  ASSUME MpType, MpType', IrqSamples, Pause
  PROVE  IrqSamples'
<1>1. /\ mpc \in {"first", "pause"} /\ mpc' = "read" /\ before' = kern /\ first' = first
      /\ mcurr' = IF mpc = "pause" THEN 1 - mcurr ELSE mcurr
  BY Zenon DEF Pause
<1>2. CASE UNCHANGED sampleVars
  <2>1. UNCHANGED <<cpu_nr, irqcpu_nr, st_irq, st_irqcpu>>
    BY <1>2, Zenon DEF sampleVars
  <2>2. \A c, j : Elem(c, j)' = Elem(c, j)
    BY <2>1 DEF Elem
  <2>3. ASSUME cpu_nr = NFirst PROVE ReadIs(2, first)' /\ ReadIs(1 - mcurr, before)'
    <3>1. ReadIs(2, first)
      BY <1>1, <2>3 DEF IrqSamples, InInterval
    <3>2. ReadIs(2, first)'
      BY <1>1, <2>1, <2>2, <3>1 DEF ReadIs
    <3>3. ReadIs(1 - mcurr', kern)
      <4>1. CASE mpc = "first"
        <5>1. 1 - mcurr' = 0
          BY <1>1, <4>1 DEF MpType
        <5> QED
          BY <2>3, <4>1, <5>1 DEF IrqSamples
      <4>2. CASE mpc = "pause"
        <5>1. 1 - mcurr' = mcurr
          BY <1>1, <4>2 DEF MpType
        <5> QED
          BY <2>3, <4>2, <5>1 DEF IrqSamples
      <4> QED
        BY <1>1, <4>1, <4>2
    <3>4. ReadIs(1 - mcurr, before)'
      BY <1>1, <2>1, <2>2, <3>3 DEF ReadIs
    <3> QED
      BY <3>2, <3>4
  <2> QED
    BY <1>1, <2>1, <2>3 DEF IrqSamples
<1>3. CASE Hotplugged(kern'.present) /\ kern'.present > cpu_nr
  <2>1. cpu_nr' = kern'.present
    BY <1>3, Zenon DEF Hotplugged
  <2>2. cpu_nr' # NFirst
    BY <1>3, <2>1, Numbers DEF MpType
  <2>3. DOMAIN st_irqcpu' = Slot /\ st_irqcpu' = [s \in Slot |-> st_irqcpu'[s]]
    <3>1. PICK g \in Filler :
            st_irqcpu' = [s \in Slot |->
              [e \in 0..((kern'.present + 1) * irqcpu_nr' - 1) |->
                GrownElement(st_irqcpu[s], kern'.present + 1, cpu_nr + 1, irqcpu_nr', e, g)]]
      BY <1>3, Zenon DEF Hotplugged
    <3> QED
      BY <3>1
  <2>4. DOMAIN st_irq' = Slot /\ st_irq' = [s \in Slot |-> st_irq'[s]]
    <3>1. st_irq' = [s \in Slot |-> [i \in 0..kern'.present |-> IF i <= cpu_nr THEN st_irq[s][i] ELSE 0]]
      BY <1>3, Zenon DEF Hotplugged
    <3> QED
      BY <3>1
  <2> QED
    BY <2>2, <2>3, <2>4 DEF IrqSamples
<1> QED
  BY <1>2, <1>3, Zenon DEF Pause

LEMMA SamplesSame ==
  ASSUME MpType, IrqSamples, WriteSinceBoot \/ WriteStats \/ Average \/ Interrupted \/ Done
  PROVE  IrqSamples'
<1>1. /\ UNCHANGED <<kern, first, before, cpu_nr, irqcpu_nr, st_irq, st_irqcpu, mcurr>>
      /\ \/ mpc' = "done"
         \/ mpc = "write" /\ mpc' \in {"pause", "average"}
         \/ mpc = "pause" /\ mpc' = "average"
         \/ mpc' = mpc
  BY Zenon DEF WriteSinceBoot, WriteStats, Average, Interrupted, Done, kernelVars, mpVars, sampleVars
<1>2. \A c, j : Elem(c, j)' = Elem(c, j)
  BY <1>1 DEF Elem
<1>3. /\ ReadIs(2, first) => ReadIs(2, first)'
      /\ ReadIs(0, kern) => ReadIs(0, kern)'
      /\ ReadIs(1 - mcurr, before) => ReadIs(1 - mcurr, before)'
      /\ ReadIs(mcurr, kern) => ReadIs(mcurr, kern)'
  BY <1>1, <1>2 DEF ReadIs
<1> QED
  BY <1>1, <1>3 DEF IrqSamples, InInterval

-----------------------------------------------------------------------------
(* The lines of interrupts.                                                 *)

\* No counter has come back to zero.
LEMMA CountBelow ==
  ASSUME NEW Top, Counted(Top), IrqKernel(Top), NEW irqs \in IrqLists
  PROVE  /\ (MaxReads + 2) * Top \in Nat
         /\ \A n \in Names, c \in Cpus : kern.cnt[n][c] <= (MaxReads + 2) * Top
         /\ (MaxReads + 2) * Top < IrqWidth
         /\ Len(irqs) * ((MaxReads + 2) * Top) < IrqWidth
<1> DEFINE B == (MaxReads + 2) * Top
           m == Len(irqs)
<1>1. Top \in Nat /\ MaxReads \in Nat /\ reads \in 0..(MaxReads + 1) /\ (mpc = "read" => reads < MaxReads)
      /\ IrqWidth \in Nat
  BY MpstatAssumption DEF Counted, IrqKernel
<1>2. Used \in Nat /\ Used <= MaxReads + 2
  BY <1>1 DEF Used
<1>3. Used * Top <= B /\ B \in Nat /\ Used * Top \in Nat
  BY <1>1, <1>2
<1>4. m \in Nat
  BY ListOK
<1>5. (m + 1) * B < IrqWidth
  BY DEF Counted
<1> HIDE DEF B, m
<1>6. (m + 1) * B = m * B + B /\ m * B \in Nat
  BY <1>3, <1>4
<1>7. B < IrqWidth /\ m * B < IrqWidth
  <2> DEFINE mb == m * B
  <2>1. mb \in Nat /\ mb + B < IrqWidth
    BY <1>5, <1>6
  <2> HIDE DEF mb
  <2>2. mb < IrqWidth /\ B < IrqWidth
    BY <1>1, <1>3, <2>1
  <2> QED
    BY <2>2 DEF mb
<1>8. ASSUME NEW n \in Names, NEW c \in Cpus PROVE kern.cnt[n][c] <= B
  <2>1. kern.cnt[n][c] <= Used * Top /\ kern.cnt[n][c] \in Nat
    BY DEF IrqKernel, IrqNumbers
  <2> QED
    BY <1>3, <2>1
<1> QED
  BY <1>3, <1>7, <1>8 DEF B, m

LEMMA DiffIs ==
  ASSUME NEW a \in Nat, NEW b \in Nat, a <= b, b < IrqWidth
  PROVE  IrqDiff(a, b) = b - a
<1>1. IrqWidth \in Nat
  BY MpstatAssumption
<1>2. \A x, w \in Nat : x < w => x % w = x
  OBVIOUS
<1>3. b - a \in Nat /\ b - a < IrqWidth
  BY <1>1
<1> QED
  BY <1>1, <1>2, <1>3 DEF IrqDiff

\* Lists of distinct names: where a name is in the sample compared with.
LEMMA OffsetIs ==
  ASSUME Roomy, mopt.interval, NEW prev, NEW cur, NEW p, p.irqs \in IrqLists, ReadIs(prev, p),
         NEW j \in 0..(irqcpu_nr - 1), NEW n \in Names, st_irqcpu[cur][j].name = n
  PROVE  IF n \in InList(p.irqs)
         THEN /\ Offset(prev, cur, j) \in 0..(Len(p.irqs) - 1)
              /\ p.irqs[Offset(prev, cur, j) + 1] = n
              /\ Offset(prev, cur, j) # irqcpu_nr
         ELSE Offset(prev, cur, j) = irqcpu_nr
<1> DEFINE S == {k \in 0..(irqcpu_nr - 1) : st_irqcpu[prev][k].name = n}
           o == Offset(prev, cur, j)
<1>1. irqcpu_nr \in Nat /\ NoName \notin Names
  BY MpstatAssumption DEF Roomy
<1>2. /\ Len(p.irqs) \in Nat /\ Len(p.irqs) <= irqcpu_nr
      /\ \A m \in InList(p.irqs) : \E i \in 1..Len(p.irqs) : m = p.irqs[i]
      /\ \A i \in 1..Len(p.irqs) : p.irqs[i] \in InList(p.irqs)
  BY ListOK DEF Roomy
<1>3. \A e \in 0..(irqcpu_nr - 1) :
        st_irqcpu[prev][e].name = IF e < Len(p.irqs) THEN p.irqs[e + 1] ELSE NoName
  BY DEF ReadIs
<1>4. \A e \in S : e < Len(p.irqs) /\ p.irqs[e + 1] = n
  BY <1>1, <1>3
<1>5. \A e \in S : n \in InList(p.irqs)
  <2> SUFFICES ASSUME NEW e \in S PROVE n \in InList(p.irqs)
    OBVIOUS
  <2>1. e + 1 \in 1..Len(p.irqs) /\ p.irqs[e + 1] = n
    BY <1>1, <1>2, <1>4
  <2> QED
    BY <1>2, <2>1
<1>6. n \in InList(p.irqs) => S # {}
  <2> SUFFICES ASSUME n \in InList(p.irqs) PROVE \E e : e \in S
    OBVIOUS
  <2>1. PICK i \in 1..Len(p.irqs) : n = p.irqs[i]
    BY <1>2
  <2>2. i - 1 \in 0..(irqcpu_nr - 1) /\ i - 1 < Len(p.irqs) /\ (i - 1) + 1 = i
    BY <1>1, <1>2
  <2>3. st_irqcpu[prev][i - 1].name = n
    BY <1>3, <2>1, <2>2
  <2> QED
    BY <2>2, <2>3
<1>7. o = IF st_irqcpu[cur][j].name = st_irqcpu[prev][j].name THEN j
          ELSE IF S = {} THEN irqcpu_nr ELSE Min(S)
  BY Zenon DEF Offset
<1>8. S # {} => Min(S) \in S
  <2> SUFFICES ASSUME S # {} PROVE Min(S) \in S
    OBVIOUS
  <2>1. S \subseteq Nat
    BY <1>1
  <2> HIDE DEF S
  <2>2. \E x \in S : \A y \in S : x <= y
    BY <2>1, LowestNumber
  <2> QED
    BY <2>2, Zenon DEF Min
<1>9. CASE n \in InList(p.irqs)
  <2>1. o \in S
    BY <1>6, <1>7, <1>8, <1>9
  <2> HIDE DEF o
  <2>2. o \in 0..(irqcpu_nr - 1) /\ o < Len(p.irqs) /\ p.irqs[o + 1] = n
    BY <1>4, <2>1
  <2>3. o \in 0..(Len(p.irqs) - 1) /\ o # irqcpu_nr
    BY <1>1, <1>2, <2>2
  <2> QED
    BY <1>9, <2>2, <2>3 DEF o
<1>10. CASE n \notin InList(p.irqs)
  <2>1. S = {} /\ j \notin S
    BY <1>5, <1>10
  <2>2. st_irqcpu[prev][j].name # n
    BY <2>1
  <2> HIDE DEF o, S
  <2> QED
    BY <1>7, <1>10, <2>1, <2>2 DEF o
<1> QED
  BY <1>9, <1>10

\* A line: the interrupt of line j of /proc/interrupts, for processor c.
LEMMA IrqLineIs ==
  ASSUME Roomy, mopt.interval, NEW prev, NEW cur, NEW p, p.irqs \in IrqLists, ReadIs(prev, p),
         ReadIs(cur, kern), NEW l \in IrqLines(prev, cur)
  PROVE  \E c \in (1..cpu_nr) \ Offline(prev, cur), j \in 0..(Len(kern.irqs) - 1) :
           /\ l.cpu = c /\ l.irq = kern.irqs[j + 1] /\ l.irq \in Names
           /\ IF l.irq \in InList(p.irqs)
              THEN \E k \in 0..(Len(p.irqs) - 1) :
                     /\ p.irqs[k + 1] = l.irq
                     /\ l.val = IrqDiff(st_irqcpu[prev][Elem(c, k)].val, st_irqcpu[cur][Elem(c, j)].val)
              ELSE l.val = IrqDiff(0, st_irqcpu[cur][Elem(c, j)].val)
<1>1. PICK c \in (1..cpu_nr) \ Offline(prev, cur), j \in IrqColumns(cur) :
        l = [cpu |-> c, irq |-> st_irqcpu[cur][j].name, val |-> IrqValue(prev, cur, c, j)]
  BY DEF IrqLines
<1>2. irqcpu_nr \in Nat /\ kern.irqs \in IrqLists
  BY DEF Roomy
<1>3. j \in 0..(irqcpu_nr - 1) /\ st_irqcpu[cur][j].name # NoName
  BY <1>2 DEF IrqColumns
<1>4. j < Len(kern.irqs) /\ st_irqcpu[cur][j].name = kern.irqs[j + 1]
  BY <1>3 DEF ReadIs
<1>5. j \in 0..(Len(kern.irqs) - 1) /\ j + 1 \in 1..Len(kern.irqs) /\ kern.irqs[j + 1] \in Names
  BY <1>2, <1>3, <1>4, ListOK
<1>6. l.cpu = c /\ l.irq = kern.irqs[j + 1] /\ l.val = IrqValue(prev, cur, c, j)
  BY <1>1, <1>4
<1> DEFINE o == Offset(prev, cur, j)
<1>7. l.val = IrqDiff(IF o = irqcpu_nr THEN 0 ELSE st_irqcpu[prev][Elem(c, o)].val,
                      st_irqcpu[cur][Elem(c, j)].val)
  BY <1>6, Zenon DEF IrqValue, Elem
<1>8. IF l.irq \in InList(p.irqs)
      THEN o \in 0..(Len(p.irqs) - 1) /\ p.irqs[o + 1] = l.irq /\ o # irqcpu_nr
      ELSE o = irqcpu_nr
  <2> DEFINE n == l.irq
  <2>1. n \in Names /\ st_irqcpu[cur][j].name = n
    BY <1>4, <1>5, <1>6
  <2> HIDE DEF n
  <2>2. IF n \in InList(p.irqs)
        THEN o \in 0..(Len(p.irqs) - 1) /\ p.irqs[o + 1] = n /\ o # irqcpu_nr
        ELSE o = irqcpu_nr
    BY <1>3, <2>1, OffsetIs
  <2> QED
    BY <2>2 DEF n
<1> HIDE DEF o
<1> QED
  BY <1>5, <1>6, <1>7, <1>8

\* What IrqTrue says of a line.
IrqTold(l, p) ==
  /\ kern.cpu[l.cpu].up /\ p.cpu[l.cpu].up
  /\ l.irq \in InList(p.irqs) => kern.reg[l.irq] = p.reg[l.irq]
  => l.val = kern.cnt[l.irq][l.cpu] - (IF l.irq \in InList(p.irqs) THEN p.cnt[l.irq][l.cpu] ELSE 0)

LEMMA IrqLineTells ==
  ASSUME Roomy, mopt.interval, NEW Top, Counted(Top), IrqKernel(Top), NEW prev, NEW cur,
         NEW p, IrqNumbers(p), IrqLater(p), ReadIs(prev, p), ReadIs(cur, kern), NEW l \in IrqLines(prev, cur)
  PROVE  IrqTold(l, p)
<1> SUFFICES ASSUME kern.cpu[l.cpu].up, p.cpu[l.cpu].up,
                    l.irq \in InList(p.irqs) => kern.reg[l.irq] = p.reg[l.irq]
             PROVE  l.val = kern.cnt[l.irq][l.cpu]
                            - (IF l.irq \in InList(p.irqs) THEN p.cnt[l.irq][l.cpu] ELSE 0)
  BY DEF IrqTold
<1>1. PICK c \in (1..cpu_nr) \ Offline(prev, cur), j \in 0..(Len(kern.irqs) - 1) :
           /\ l.cpu = c /\ l.irq = kern.irqs[j + 1] /\ l.irq \in Names
           /\ IF l.irq \in InList(p.irqs)
              THEN \E k \in 0..(Len(p.irqs) - 1) :
                     /\ p.irqs[k + 1] = l.irq
                     /\ l.val = IrqDiff(st_irqcpu[prev][Elem(c, k)].val, st_irqcpu[cur][Elem(c, j)].val)
              ELSE l.val = IrqDiff(0, st_irqcpu[cur][Elem(c, j)].val)
  BY IrqLineIs DEF IrqNumbers
<1> DEFINE n == l.irq
           now == kern.cnt[n][c]
           since == p.cnt[n][c]
<1>2. st_irqcpu[cur][Elem(c, j)].val = now
  BY <1>1 DEF ReadIs
<1>3. c \in Cpus /\ kern.irqs \in IrqLists
  BY DEF Roomy
<1>4. now \in Nat /\ since \in Nat /\ now < IrqWidth
  <2>1. kern.cnt[n][c] \in Nat /\ p.cnt[n][c] \in Nat
    BY <1>1, <1>3 DEF IrqKernel, IrqNumbers
  <2>2. /\ kern.cnt[n][c] <= (MaxReads + 2) * Top /\ (MaxReads + 2) * Top < IrqWidth
        /\ (MaxReads + 2) * Top \in Nat
    BY <1>1, <1>3, CountBelow
  <2> DEFINE B == (MaxReads + 2) * Top
  <2> HIDE DEF B
  <2>3. kern.cnt[n][c] <= B /\ B < IrqWidth /\ B \in Nat
    BY <2>2 DEF B
  <2> QED
    BY <2>1, <2>3, MpstatAssumption
<1>5. CASE n \in InList(p.irqs)
  <2>1. PICK k \in 0..(Len(p.irqs) - 1) :
              /\ p.irqs[k + 1] = n
              /\ l.val = IrqDiff(st_irqcpu[prev][Elem(c, k)].val, st_irqcpu[cur][Elem(c, j)].val)
    BY <1>1, <1>5
  <2>2. st_irqcpu[prev][Elem(c, k)].val = since
    BY <1>1, <2>1 DEF ReadIs
  <2>3. n \in InList(kern.irqs)
    <3>1. j + 1 \in 1..Len(kern.irqs)
      BY <1>3, ListOK
    <3> QED
      BY <1>1, <1>3, <3>1, ListOK
  <2>4. since <= now
    BY <1>1, <1>3, <1>5, <2>3 DEF IrqLater
  <2> HIDE DEF now, since
  <2>5. l.val = now - since
    BY <1>2, <1>4, <2>1, <2>2, <2>4, DiffIs
  <2> QED
    BY <1>1, <1>5, <2>5 DEF now, since
<1>6. CASE n \notin InList(p.irqs)
  <2>1. l.val = IrqDiff(0, now)
    BY <1>1, <1>2, <1>6
  <2> HIDE DEF now
  <2>2. l.val = now - 0
    BY <1>4, <2>1, DiffIs
  <2> QED
    BY <1>1, <1>6, <2>2 DEF now
<1> QED
  BY <1>5, <1>6

LEMMA IrqLinesStep ==
  ASSUME NEW Top, Counted(Top), MpInv, IrqInv(Top), IrqLinesTrue, Next
  PROVE  IrqLinesTrue'
<1>1. CASE ReadFirst
  <2>1. mout'.irq = {}
    BY <1>1 DEF ReadFirst, MpInv, MpType, NoReport
  <2> QED
    BY <2>1, Zenon DEF IrqLinesTrue, IrqTrue
<1>2. CASE Pause
  <2>1. mout'.irq = {}
    BY <1>2 DEF Pause, NoReport
  <2> QED
    BY <2>1, Zenon DEF IrqLinesTrue, IrqTrue
<1>3. CASE ReadStats \/ Interrupted \/ Done
  <2>1. UNCHANGED <<kern, first, before, mopt, mout, cpu_nr>>
    BY <1>3, Zenon DEF ReadStats, Interrupted, Done, mpVars, kernelVars, sampleVars
  <2> QED
    BY <2>1, Zenon DEF IrqLinesTrue, IrqTrue
<1>4. CASE WriteSinceBoot
  <2>1. UNCHANGED mopt /\ ~mopt.interval
    <3>1. mpc = "boot" /\ UNCHANGED mopt
      BY <1>4, Zenon DEF WriteSinceBoot
    <3> QED
      BY <3>1 DEF MpInv, MpType
  <2>2. ~mopt'.interval
    BY <2>1
  <2> QED
    BY <2>2, Zenon DEF IrqLinesTrue, IrqTrue
<1>5. MpType /\ IrqKernel(Top) /\ IrqSamples
  BY DEF MpInv, IrqInv
<1>6. CASE WriteStats
  <2>1. mpc = "write" /\ UNCHANGED <<kern, first, before, mopt, cpu_nr>>
    BY <1>6, Zenon DEF WriteStats, kernelVars
  <2>2. mout'.irq = IrqLines(1 - mcurr, mcurr) /\ mout'.prev = 1 - mcurr
    BY <1>6 DEF WriteStats, WriteCore
  <2>3. 1 - mcurr # 2 /\ mopt.interval
    BY <1>5, <2>1 DEF MpType, InInterval
  <2> SUFFICES ASSUME cpu_nr = NFirst, NEW l \in IrqLines(1 - mcurr, mcurr) PROVE IrqTold(l, before)
    BY <2>1, <2>2, <2>3, Zenon DEF IrqLinesTrue, IrqTrue, IrqTold
  <2>4. ReadIs(1 - mcurr, before) /\ ReadIs(mcurr, kern)
    BY <1>5, <2>1 DEF IrqSamples
  <2>5. IrqNumbers(before) /\ IrqLater(before)
    BY <1>5 DEF IrqKernel
  <2>6. Roomy
    BY <1>5, IsRoomy
  <2> QED
    BY <1>5, <2>3, <2>4, <2>5, <2>6, IrqLineTells
<1>7. CASE Average
  <2>1. mpc = "average" /\ UNCHANGED <<kern, first, before, mopt, cpu_nr>>
    BY <1>7, Zenon DEF Average, kernelVars
  <2>2. mout'.irq = IrqLines(2, mcurr) /\ mout'.prev = 2
    BY <1>7 DEF Average, WriteCore
  <2>3. mopt.interval
    BY <1>5, <2>1 DEF MpType, InInterval
  <2> SUFFICES ASSUME cpu_nr = NFirst, NEW l \in IrqLines(2, mcurr) PROVE IrqTold(l, first)
    BY <2>1, <2>2, <2>3, Zenon DEF IrqLinesTrue, IrqTrue, IrqTold
  <2>4. ReadIs(2, first) /\ ReadIs(mcurr, kern)
    BY <1>5, <2>1 DEF IrqSamples, InInterval
  <2>5. IrqNumbers(first) /\ IrqLater(first)
    BY <1>5 DEF IrqKernel
  <2>6. Roomy
    BY <1>5, IsRoomy
  <2> QED
    BY <1>5, <2>3, <2>4, <2>5, <2>6, IrqLineTells
<1> QED
  BY <1>1, <1>2, <1>3, <1>4, <1>6, <1>7 DEF Next

-----------------------------------------------------------------------------
(* What is kept of processors that are offline.                             *)

\* A list that is the one of the first reading has been so since.
LEMMA SameListBack ==
  ASSUME IrqsInOrder, NEW Top, IrqKernel(Top), IrqStep(Top), UNCHANGED first, SameList(first)'
  PROVE  SameList(first)
<1>1. kern'.irqs = first.irqs /\ kern'.reg = first.reg
  BY DEF SameList
<1>2. /\ kern.reg \in [Names -> Nat] /\ first.reg \in [Names -> Nat]
      /\ kern.irqs \in IrqLists /\ first.irqs \in IrqLists
  BY DEF IrqKernel, IrqNumbers
<1>3. \A n \in Names : kern.reg[n] = first.reg[n]
  <2> SUFFICES ASSUME NEW n \in Names PROVE kern.reg[n] = first.reg[n]
    OBVIOUS
  <2>1. first.reg[n] <= kern.reg[n] /\ kern.reg[n] <= kern'.reg[n]
    BY DEF IrqKernel, IrqLater, IrqStep
  <2> QED
    BY <1>1, <1>2, <2>1
<1>4. kern.reg = first.reg
  BY <1>2, <1>3
<1>5. InList(kern.irqs) \subseteq InList(first.irqs)
  <2> SUFFICES ASSUME NEW n \in InList(kern.irqs), n \notin InList(first.irqs) PROVE FALSE
    OBVIOUS
  <2>1. n \in Names
    BY <1>2, ListOK
  <2>2. first.reg[n] < kern.reg[n]
    BY DEF IrqKernel
  <2> QED
    BY <1>2, <1>3, <2>1, <2>2
<1>6. InList(first.irqs) \subseteq InList(kern.irqs)
  <2> SUFFICES ASSUME NEW n \in InList(first.irqs), n \notin InList(kern.irqs) PROVE FALSE
    OBVIOUS
  <2>1. n \in Names
    BY <1>2, ListOK
  <2>2. kern.reg[n] < kern'.reg[n]
    BY <1>1, <2>1 DEF IrqStep
  <2> QED
    BY <1>1, <1>2, <1>3, <2>1, <2>2
<1>7. kern.irqs = first.irqs
  <2>1. InList(kern.irqs) = InList(first.irqs)
    BY <1>5, <1>6
  <2> QED
    BY <1>2, <2>1 DEF IrqsInOrder
<1> QED
  BY <1>4, <1>7 DEF SameList

\* What a reading finds of a processor that is online.
LEMMA HeldRead ==
  ASSUME Roomy, IrqNumbers(kern), NEW cur, NEW c \in 1..cpu_nr, kern.cpu[c].up
  PROVE  /\ \A j \in 0..(Len(kern.irqs) - 1) : ReadIrqCpu(cur)[Elem(c, j)].val = CountsOf(c)[kern.irqs[j + 1]]
         /\ ReadIrq(cur)[c] = SumFunction([i \in 1..Len(kern.irqs) |-> CountsOf(c)[kern.irqs[i]]])
<1>1. kern.irqs \in IrqLists
  BY DEF Roomy
<1>2. \A i \in 1..Len(kern.irqs) : kern.cnt[kern.irqs[i]][c] = CountsOf(c)[kern.irqs[i]]
  BY <1>1, ListOK DEF CountsOf
<1>3. ASSUME NEW j \in 0..(Len(kern.irqs) - 1)
      PROVE  ReadIrqCpu(cur)[Elem(c, j)].val = CountsOf(c)[kern.irqs[j + 1]]
  <2>1. j + 1 \in 1..Len(kern.irqs)
    BY <1>1, ListOK
  <2>2. ReadIrqCpu(cur)[Elem(c, j)].val = kern.cnt[kern.irqs[j + 1]][c]
    BY ReadIrqIs
  <2> DEFINE i == j + 1
  <2>3. kern.cnt[kern.irqs[i]][c] = CountsOf(c)[kern.irqs[i]]
    BY <1>2, <2>1
  <2> QED
    BY <2>2, <2>3
<1>4. ReadIrq(cur)[c] = CpuTotal(c) /\ LinesRead = Len(kern.irqs)
  BY ReadIrqIs
<1>5. CpuTotal(c) = SumFunction([i \in 1..Len(kern.irqs) |-> kern.cnt[kern.irqs[i]][c]])
  BY <1>4, Zenon DEF CpuTotal
<1>6. [i \in 1..Len(kern.irqs) |-> kern.cnt[kern.irqs[i]][c]]
        = [i \in 1..Len(kern.irqs) |-> CountsOf(c)[kern.irqs[i]]]
  BY <1>2
<1> QED
  BY <1>3, <1>4, <1>5, <1>6

LEMMA HeldInitOK ==
  ASSUME Init PROVE HeldInv
<1>1. mpc = "begin"
  BY DEF Init
<1>2. \A c \in Cpus : seen[c].ever = FALSE
  BY DEF Init
<1> QED
  BY <1>1, <1>2 DEF HeldInv

LEMMA HeldGives ==
  ASSUME Roomy, IrqNumbers(kern), NEW cur, NEW s, st_irqcpu'[s] = ReadIrqCpu(cur), st_irq'[s] = ReadIrq(cur),
         UNCHANGED <<irqcpu_nr, cpu_nr, kern>>, first'.irqs = kern.irqs, NEW c \in 1..cpu_nr, kern.cpu[c].up
  PROVE  HeldAs(s, c, CountsOf(c))'
<1>1. /\ \A j \in 0..(Len(kern.irqs) - 1) : ReadIrqCpu(cur)[Elem(c, j)].val = CountsOf(c)[kern.irqs[j + 1]]
      /\ ReadIrq(cur)[c] = SumFunction([i \in 1..Len(kern.irqs) |-> CountsOf(c)[kern.irqs[i]]])
  BY HeldRead
<1>2. CountsOf(c)' = CountsOf(c) /\ \A j : Elem(c, j)' = Elem(c, j)
  BY DEF CountsOf, Elem
<1> QED
  BY <1>1, <1>2 DEF HeldAs

LEMMA HeldReadFirst ==
  ASSUME MpType, NEW Top, IrqKernel(Top), IrqSamples, HeldInv, ReadFirst
  PROVE  HeldInv'
<1>1. /\ mpc = "begin" /\ first' = kern /\ mpc' = IF mopt.interval THEN "first" ELSE "boot"
      /\ UNCHANGED <<kern, seen, cpu_nr, irqcpu_nr>>
  BY Zenon DEF ReadFirst
<1>2. st_irqcpu'[0] = ReadIrqCpu(0) /\ st_irq'[0] = ReadIrq(0)
  BY DEF ReadFirst, Slot
<1>3. \A c \in Cpus : ~seen[c].ever
  BY <1>1 DEF MpType
<1>4. ASSUME cpu_nr = NFirst, NEW c \in 1..cpu_nr PROVE NowHeld(0, c)'
  <2>1. Roomy
    BY <1>4, IsRoomy
  <2>2. c \in Cpus
    BY <2>1 DEF Roomy
  <2>3. CASE kern.cpu[c].up
    <3>1. IrqNumbers(kern)
      BY DEF IrqKernel
    <3>2. HeldAs(0, c, CountsOf(c))'
      BY <1>1, <1>2, <2>1, <2>3, <3>1, HeldGives
    <3> QED
      BY <1>1, <2>3, <3>2 DEF NowHeld
  <2> QED
    BY <1>1, <1>3, <2>2, <2>3 DEF NowHeld
<1> QED
  BY <1>1, <1>3, <1>4 DEF HeldInv

LEMMA HeldReadStats ==
  ASSUME MpType, NEW Top, IrqKernel(Top), IrqSamples, HeldInv, ReadStats
  PROVE  HeldInv'
<1>1. /\ mpc = "read" /\ mpc' = "write"
      /\ UNCHANGED <<kern, first, before, seen, cpu_nr, irqcpu_nr, mcurr>>
      /\ st_irqcpu' = [st_irqcpu EXCEPT ![mcurr] = ReadIrqCpu(mcurr)]
      /\ st_irq' = [st_irq EXCEPT ![mcurr] = ReadIrq(mcurr)]
  BY Zenon DEF ReadStats
<1>2. mcurr \in Slot /\ 1 - mcurr \in Slot /\ 1 - mcurr # mcurr /\ DOMAIN st_irqcpu = Slot /\ DOMAIN st_irq = Slot
  BY DEF MpType, Slot, IrqSamples
<1>3. /\ st_irqcpu'[mcurr] = ReadIrqCpu(mcurr) /\ st_irqcpu'[1 - mcurr] = st_irqcpu[1 - mcurr]
      /\ st_irq'[mcurr] = ReadIrq(mcurr) /\ st_irq'[1 - mcurr] = st_irq[1 - mcurr]
  BY <1>1, <1>2
<1>4. /\ \A c, j : Elem(c, j)' = Elem(c, j)
      /\ SameList(first)' <=> SameList(first)
  BY <1>1 DEF Elem, SameList
<1>5. ASSUME SameList(first), cpu_nr = NFirst, NEW c \in 1..cpu_nr
      PROVE  /\ seen[c].ever => HeldAs(1 - mcurr, c, seen[c].cnt)'
             /\ NowHeld(mcurr, c)'
  <2>1. seen[c].ever => HeldAs(1 - mcurr, c, seen[c].cnt)
    BY <1>1, <1>5 DEF HeldInv
  <2>2. seen[c].ever => HeldAs(1 - mcurr, c, seen[c].cnt)'
    BY <1>1, <1>3, <1>4, <2>1 DEF HeldAs
  <2>3. Roomy /\ IrqNumbers(kern) /\ first'.irqs = kern.irqs
    BY <1>1, <1>5, IsRoomy DEF IrqKernel, SameList
  <2>4. CASE kern.cpu[c].up
    <3>1. \A s : s = mcurr => HeldAs(s, c, CountsOf(c))'
      BY <1>1, <1>3, <2>3, <2>4, HeldGives
    <3>2. \A s : s = mcurr => NowHeld(s, c)'
      BY <1>1, <2>4, <3>1 DEF NowHeld
    <3> QED
      BY <1>1, <2>2, <3>2 DEF NowHeld
  <2>5. CASE ~kern.cpu[c].up
    <3>1. /\ \A j \in 0..(Len(kern.irqs) - 1) :
                 ReadIrqCpu(mcurr)[Elem(c, j)].val = st_irqcpu[1 - mcurr][Elem(c, j)].val
          /\ ReadIrq(mcurr)[c] = st_irq[1 - mcurr][c]
      BY <2>3, <2>5, ReadIrqIs
    <3>2. \A s : s = mcurr /\ seen[c].ever => HeldAs(s, c, seen[c].cnt)'
      BY <1>1, <1>3, <1>4, <2>1, <2>3, <3>1 DEF HeldAs
    <3>3. \A s : s = mcurr => NowHeld(s, c)'
      BY <1>1, <2>5, <3>2 DEF NowHeld
    <3> QED
      BY <1>1, <2>2, <3>3 DEF NowHeld
  <2> QED
    BY <2>4, <2>5
<1> QED
  BY <1>1, <1>4, <1>5 DEF HeldInv

LEMMA HeldPause ==
  ASSUME TimePasses, IrqsInOrder, NEW Top, Counted(Top), MpType, MpType', IrqKernel(Top), IrqSamples,
         HeldInv, Pause
  PROVE  HeldInv'
<1>1. /\ CpusElapse /\ mpc \in {"first", "pause"} /\ mpc' = "read" /\ before' = kern /\ first' = first
      /\ mcurr' = IF mpc = "pause" THEN 1 - mcurr ELSE mcurr
      /\ seen' = [c \in Cpus |->
                    IF c \in Online
                    THEN [ever |-> TRUE, cpu |-> kern.cpu[c], cnt |-> [n \in Names |-> kern.cnt[n][c]]]
                    ELSE seen[c]]
  BY Zenon DEF Pause
<1>2. IrqStep(Top)
  BY <1>1, IrqElapsed DEF IrqKernel
<1>3. IrqNumbers(kern) /\ IrqNumbers(kern)' /\ first.irqs \in IrqLists
  BY <1>2 DEF IrqKernel, IrqNumbers, IrqStep
<1>4. SameList(first)' => SameList(first)
  BY <1>1, <1>2, SameListBack
<1>5. ASSUME NEW c \in Cpus
      PROVE  IF kern.cpu[c].up THEN seen'[c].ever /\ seen'[c].cnt = CountsOf(c) ELSE seen'[c] = seen[c]
  <2>1. c \in Online <=> kern.cpu[c].up
    BY DEF Online
  <2>2. seen'[c] = IF c \in Online
                   THEN [ever |-> TRUE, cpu |-> kern.cpu[c], cnt |-> [n \in Names |-> kern.cnt[n][c]]]
                   ELSE seen[c]
    BY <1>1
  <2> QED
    BY <2>1, <2>2 DEF CountsOf
<1>6. ASSUME NEW c \in Cpus PROVE CountsOf(c) \in [Names -> Nat]
  BY <1>3 DEF CountsOf, IrqNumbers
<1>7. ASSUME NEW c \in Cpus, seen'[c].ever PROVE seen'[c].cnt \in [Names -> Nat]
  BY <1>5, <1>6, <1>7 DEF HeldInv
<1>8. ASSUME SameList(first)', NEW c \in Cpus, seen'[c].ever, NEW n \in InList(first.irqs)
      PROVE  seen'[c].cnt[n] <= kern'.cnt[n][c]
  <2>1. n \in Names /\ kern.irqs = first.irqs /\ kern'.irqs = first.irqs
    BY <1>1, <1>3, <1>4, <1>8, ListOK DEF SameList
  <2>2. kern.cnt[n][c] <= kern'.cnt[n][c] /\ kern.cnt[n][c] \in Nat /\ kern'.cnt[n][c] \in Nat
    BY <1>2, <1>3, <1>8, <2>1 DEF IrqStep, IrqNumbers
  <2>3. CASE kern.cpu[c].up
    <3>1. seen'[c].cnt[n] = kern.cnt[n][c]
      BY <1>5, <2>1, <2>3 DEF CountsOf
    <3> QED
      BY <2>2, <3>1
  <2>4. CASE ~kern.cpu[c].up
    <3>1. seen[c].ever /\ seen'[c].cnt = seen[c].cnt
      BY <1>5, <1>8, <2>4
    <3>2. seen[c].cnt[n] <= kern.cnt[n][c] /\ seen[c].cnt[n] \in Nat
      BY <1>4, <1>8, <2>1, <3>1 DEF HeldInv
    <3> QED
      BY <2>2, <3>1, <3>2
  <2> QED
    BY <2>3, <2>4
<1>9. SameList(first)' => before'.irqs = first'.irqs
  BY <1>1, <1>4 DEF SameList
<1>10. ASSUME SameList(first)', cpu_nr' = NFirst, NEW c \in 1..cpu_nr', seen'[c].ever
       PROVE  HeldAs(1 - mcurr, c, seen[c].cnt)'
  <2>1. UNCHANGED <<cpu_nr, irqcpu_nr, st_irq, st_irqcpu>>
    <3>1. CASE UNCHANGED sampleVars
      BY <3>1, Zenon DEF sampleVars
    <3>2. CASE Hotplugged(kern'.present) /\ kern'.present > cpu_nr
      <4>1. cpu_nr' = kern'.present
        BY <3>2, Zenon DEF Hotplugged
      <4> QED
        BY <1>10, <3>2, <4>1, Numbers DEF MpType
    <3> QED
      BY <3>1, <3>2, Zenon DEF Pause
  <2>2. cpu_nr = NFirst /\ c \in 1..cpu_nr /\ c \in Cpus /\ SameList(first)
    <3>1. Roomy
      BY <1>10, <2>1, IsRoomy
    <3> QED
      BY <1>4, <1>10, <2>1, <3>1 DEF Roomy
  <2>3. NowHeld(1 - mcurr', c)
    <3>1. CASE mpc = "first"
      <4>1. 1 - mcurr' = 0
        BY <1>1, <3>1 DEF MpType
      <4>2. NowHeld(0, c)
        BY <2>2, <3>1 DEF HeldInv
      <4> QED
        BY <4>1, <4>2
    <3>2. CASE mpc = "pause"
      <4>1. 1 - mcurr' = mcurr
        BY <1>1, <3>2 DEF MpType
      <4>2. NowHeld(mcurr, c)
        BY <2>2, <3>2 DEF HeldInv
      <4> QED
        BY <4>1, <4>2
    <3> QED
      BY <1>1, <3>1, <3>2
  <2> DEFINE s == 1 - mcurr'
             cnt == seen'[c].cnt
  <2>4. HeldAs(s, c, cnt)
    BY <1>5, <1>10, <2>2, <2>3 DEF NowHeld
  <2>5. \A j : Elem(c, j)' = Elem(c, j)
    BY <2>1 DEF Elem
  <2>6. /\ \A j \in 0..(Len(first.irqs) - 1) : st_irqcpu[s][Elem(c, j)].val = cnt[first.irqs[j + 1]]
        /\ st_irq[s][c] = SumFunction([i \in 1..Len(first.irqs) |-> cnt[first.irqs[i]]])
    BY <2>4, Zenon DEF HeldAs
  <2> QED
    BY <1>1, <2>1, <2>5, <2>6 DEF HeldAs
<1> QED
  BY <1>1, <1>7, <1>8, <1>9, <1>10 DEF HeldInv

LEMMA HeldSame ==
  ASSUME MpType, HeldInv, WriteSinceBoot \/ WriteStats \/ Average \/ Interrupted \/ Done
  PROVE  HeldInv'
<1>1. /\ UNCHANGED <<kern, first, before, seen, cpu_nr, irqcpu_nr, st_irq, st_irqcpu, mcurr>>
      /\ \/ mpc' = "done"
         \/ mpc = "write" /\ mpc' \in {"pause", "average"}
         \/ mpc = "pause" /\ mpc' = "average"
         \/ mpc' = mpc
  BY Zenon DEF WriteSinceBoot, WriteStats, Average, Interrupted, Done, kernelVars, mpVars, sampleVars
<1>2. /\ \A c, j : Elem(c, j)' = Elem(c, j)
      /\ \A c : CountsOf(c)' = CountsOf(c)
      /\ SameList(first)' <=> SameList(first)
  BY <1>1 DEF Elem, CountsOf, SameList
<1>3. /\ \A s, c, cnt : HeldAs(s, c, cnt)' <=> HeldAs(s, c, cnt)
  BY <1>1, <1>2 DEF HeldAs
<1>4. /\ \A s, c : NowHeld(s, c)' <=> NowHeld(s, c)
      /\ \A c : HeldAs(1 - mcurr, c, seen[c].cnt)' <=> HeldAs(1 - mcurr, c, seen[c].cnt)
      /\ \A c : NowHeld(mcurr, c)' <=> NowHeld(mcurr, c)
  <2>1. \A s, c : NowHeld(s, c)' <=> NowHeld(s, c)
    BY <1>1, <1>2, <1>3 DEF NowHeld
  <2>2. \A c : HeldAs(1 - mcurr, c, seen[c].cnt)' <=> HeldAs(1 - mcurr, c, seen[c].cnt)
    BY <1>1, <1>2 DEF HeldAs
  <2>3. \A c : NowHeld(mcurr, c)' <=> NowHeld(mcurr, c)
    BY <1>1, <1>2 DEF NowHeld, HeldAs
  <2> QED
    BY <2>1, <2>2, <2>3
<1>5. /\ \A c \in Cpus : seen'[c].ever => seen'[c].cnt \in [Names -> Nat]
      /\ SameList(first)' /\ mpc' \in {"read", "write"} => before'.irqs = first'.irqs
      /\ SameList(first)' => \A c \in Cpus : seen'[c].ever =>
           \A n \in InList(first'.irqs) : seen'[c].cnt[n] <= kern'.cnt[n][c]
  BY <1>1, <1>2 DEF HeldInv
<1>6. ASSUME SameList(first)', cpu_nr' = NFirst, NEW c \in 1..cpu_nr'
      PROVE  /\ mpc' = "first" => NowHeld(0, c)'
             /\ mpc' \in {"read", "write"} => (seen'[c].ever => HeldAs(1 - mcurr, c, seen[c].cnt)')
             /\ mpc' \in {"write", "pause", "average"} => NowHeld(mcurr, c)'
  <2>1. SameList(first) /\ cpu_nr = NFirst /\ c \in 1..cpu_nr
    BY <1>1, <1>2, <1>6
  <2>2. /\ mpc = "first" => NowHeld(0, c)
        /\ mpc \in {"read", "write"} => (seen[c].ever => HeldAs(1 - mcurr, c, seen[c].cnt))
        /\ mpc \in {"write", "pause", "average"} => NowHeld(mcurr, c)
    BY <2>1 DEF HeldInv
  <2> QED
    BY <1>1, <1>4, <2>2
<1> QED
  BY <1>5, <1>6 DEF HeldInv

LEMMA HeldStep ==
  ASSUME MpAssumptions, IrqsInOrder, NEW Top, Counted(Top), MpInv, MpInv', IrqInv(Top), HeldInv, Next
  PROVE  HeldInv'
<1>1. TimePasses /\ MpType /\ MpType' /\ IrqKernel(Top) /\ IrqSamples
  BY DEF MpAssumptions, MpInv, IrqInv
<1>2. CASE ReadFirst
  BY <1>1, <1>2, HeldReadFirst
<1>3. CASE ReadStats
  BY <1>1, <1>3, HeldReadStats
<1>4. CASE Pause
  BY <1>1, <1>4, HeldPause
<1>5. CASE WriteSinceBoot \/ WriteStats \/ Average \/ Interrupted \/ Done
  BY <1>1, <1>5, HeldSame
<1> QED
  BY <1>2, <1>3, <1>4, <1>5 DEF Next

LEMMA IrqInvStep ==
  ASSUME MpAssumptions, NEW Top, Counted(Top), MpInv, MpInv', IrqInv(Top), Next
  PROVE  IrqInv(Top)'
<1>1. TimePasses /\ MpType /\ MpType' /\ IrqKernel(Top) /\ IrqSamples /\ Top \in Nat
  BY DEF MpAssumptions, MpInv, IrqInv, Counted
<1>2. CASE ReadFirst
  BY <1>1, <1>2, IrqReading, SamplesReadFirst DEF IrqInv
<1>3. CASE ReadStats
  BY <1>1, <1>3, IrqReading, SamplesReadStats DEF IrqInv
<1>4. CASE Pause
  BY <1>1, <1>4, IrqPause, SamplesPause DEF IrqInv
<1>5. CASE WriteSinceBoot \/ WriteStats \/ Average \/ Interrupted \/ Done
  BY <1>1, <1>5, IrqKernelSame, SamplesSame DEF IrqInv
<1> QED
  BY <1>2, <1>3, <1>4, <1>5 DEF Next

-----------------------------------------------------------------------------
(* The lines of interrupts as long as their list is the same.               *)

\* How often each has occurred on processor c since it was last seen.
IrqRise(c) == [i \in 1..Len(kern.irqs) |-> kern.cnt[kern.irqs[i]][c] - seen[c].cnt[kern.irqs[i]]]

\* The processors displayed have been read, now and before.
ShownHeld(prev, cur) ==
  \A c \in (1..cpu_nr) \ Offline(prev, cur) :
    /\ seen[c].ever /\ seen[c].cnt \in [Names -> Nat]
    /\ \A n \in InList(kern.irqs) : seen[c].cnt[n] <= kern.cnt[n][c]
    /\ HeldAs(prev, c, seen[c].cnt) /\ HeldAs(cur, c, CountsOf(c))

\* The state in which a report is written, the list being that of the first reading.
SameLists(prev, cur) ==
  /\ Roomy /\ mopt.interval /\ SameList(first) /\ before.irqs = first.irqs
  /\ ReadIs(prev, before) /\ ReadIs(cur, kern) /\ ShownHeld(prev, cur)

LEMMA RiseOK ==
  ASSUME Roomy, NEW Top, Counted(Top), IrqKernel(Top), NEW prev, NEW cur, ShownHeld(prev, cur),
         NEW c \in (1..cpu_nr) \ Offline(prev, cur)
  PROVE  \A i \in 1..Len(kern.irqs) :
           /\ kern.irqs[i] \in Names /\ kern.irqs[i] \in InList(kern.irqs)
           /\ kern.cnt[kern.irqs[i]][c] \in Nat /\ seen[c].cnt[kern.irqs[i]] \in Nat
           /\ seen[c].cnt[kern.irqs[i]] <= kern.cnt[kern.irqs[i]][c]
           /\ kern.cnt[kern.irqs[i]][c] <= (MaxReads + 2) * Top
           /\ kern.cnt[kern.irqs[i]][c] < IrqWidth
           /\ CountsOf(c)[kern.irqs[i]] = kern.cnt[kern.irqs[i]][c]
           /\ IrqRise(c)[i] \in Nat
<1>1. kern.irqs \in IrqLists /\ c \in Cpus
  BY DEF Roomy
<1> SUFFICES ASSUME NEW n \in InList(kern.irqs), n \in Names
             PROVE  /\ kern.cnt[n][c] \in Nat /\ seen[c].cnt[n] \in Nat
                    /\ seen[c].cnt[n] <= kern.cnt[n][c]
                    /\ kern.cnt[n][c] <= (MaxReads + 2) * Top
                    /\ kern.cnt[n][c] < IrqWidth
                    /\ CountsOf(c)[n] = kern.cnt[n][c]
                    /\ kern.cnt[n][c] - seen[c].cnt[n] \in Nat
  BY <1>1, ListOK DEF IrqRise
<1>2. kern.cnt[n][c] \in Nat /\ seen[c].cnt[n] \in Nat /\ seen[c].cnt[n] <= kern.cnt[n][c]
  BY <1>1 DEF IrqKernel, IrqNumbers, ShownHeld
<1> DEFINE B == (MaxReads + 2) * Top
<1>3. kern.cnt[n][c] <= B /\ B \in Nat /\ B < IrqWidth
  BY <1>1, CountBelow
<1> HIDE DEF B
<1>4. kern.cnt[n][c] < IrqWidth
  BY <1>2, <1>3, MpstatAssumption
<1>5. CountsOf(c)[n] = kern.cnt[n][c] /\ kern.cnt[n][c] - seen[c].cnt[n] \in Nat
  BY <1>2 DEF CountsOf
<1> QED
  BY <1>2, <1>3, <1>4, <1>5 DEF B

\* A line is what an interrupt has done since its processor was seen.
LEMMA LineRises ==
  ASSUME NEW Top, Counted(Top), IrqKernel(Top), NEW prev, NEW cur, SameLists(prev, cur),
         NEW l \in IrqLines(prev, cur)
  PROVE  /\ l.cpu \in (1..cpu_nr) \ Offline(prev, cur)
         /\ \E i \in 1..Len(kern.irqs) :
              l.irq = kern.irqs[i] /\ l.val = IrqRise(l.cpu)[i]
<1>1. /\ Roomy /\ mopt.interval /\ before.irqs = kern.irqs /\ first.irqs = kern.irqs
      /\ ReadIs(prev, before) /\ ReadIs(cur, kern) /\ ShownHeld(prev, cur)
      /\ kern.irqs \in IrqLists /\ before.irqs \in IrqLists
  BY DEF SameLists, SameList, Roomy
<1>2. PICK c \in (1..cpu_nr) \ Offline(prev, cur), j \in 0..(Len(kern.irqs) - 1) :
           /\ l.cpu = c /\ l.irq = kern.irqs[j + 1] /\ l.irq \in Names
           /\ IF l.irq \in InList(before.irqs)
              THEN \E k \in 0..(Len(before.irqs) - 1) :
                     /\ before.irqs[k + 1] = l.irq
                     /\ l.val = IrqDiff(st_irqcpu[prev][Elem(c, k)].val, st_irqcpu[cur][Elem(c, j)].val)
              ELSE l.val = IrqDiff(0, st_irqcpu[cur][Elem(c, j)].val)
  BY <1>1, IrqLineIs
<1> DEFINE i == j + 1
           n == kern.irqs[i]
<1>3. i \in 1..Len(kern.irqs)
  BY <1>1, ListOK
<1>4. n \in InList(before.irqs)
  BY <1>1, <1>3, ListOK
<1>5. PICK k \in 0..(Len(kern.irqs) - 1) :
           /\ kern.irqs[k + 1] = n
           /\ l.val = IrqDiff(st_irqcpu[prev][Elem(c, k)].val, st_irqcpu[cur][Elem(c, j)].val)
  BY <1>1, <1>2, <1>4
<1>6. HeldAs(prev, c, seen[c].cnt) /\ HeldAs(cur, c, CountsOf(c))
  BY <1>1 DEF ShownHeld
<1>7. st_irqcpu[prev][Elem(c, k)].val = seen[c].cnt[n]
  BY <1>1, <1>5, <1>6 DEF HeldAs
<1>8. st_irqcpu[cur][Elem(c, j)].val = CountsOf(c)[n]
  BY <1>1, <1>6 DEF HeldAs
<1>9. /\ kern.cnt[n][c] \in Nat /\ seen[c].cnt[n] \in Nat /\ seen[c].cnt[n] <= kern.cnt[n][c]
      /\ kern.cnt[n][c] < IrqWidth /\ CountsOf(c)[n] = kern.cnt[n][c]
  BY <1>1, <1>3, RiseOK
<1>10. l.val = kern.cnt[n][c] - seen[c].cnt[n]
  <2> HIDE DEF n
  <2> QED
    BY <1>5, <1>7, <1>8, <1>9, DiffIs
<1>11. IrqRise(c)[i] = kern.cnt[n][c] - seen[c].cnt[n]
  BY <1>3 DEF IrqRise
<1> QED
  BY <1>2, <1>3, <1>10, <1>11

\* The total of a processor has risen by what its interrupts have.
LEMMA TotalRises ==
  ASSUME NEW Top, Counted(Top), IrqKernel(Top), NEW prev, NEW cur, SameLists(prev, cur),
         NEW c \in (1..cpu_nr) \ Offline(prev, cur)
  PROVE  IrqDiff(st_irq[prev][c], st_irq[cur][c]) = SumFunctionOnSet(IrqRise(c), 1..Len(kern.irqs))
<1> DEFINE L == Len(kern.irqs)
           D == 1..L
           now == [i \in D |-> CountsOf(c)[kern.irqs[i]]]
           was == [i \in D |-> seen[c].cnt[kern.irqs[i]]]
           rise == IrqRise(c)
           B == (MaxReads + 2) * Top
<1>1. /\ Roomy /\ first.irqs = kern.irqs /\ ShownHeld(prev, cur) /\ kern.irqs \in IrqLists
  BY DEF SameLists, SameList, Roomy
<1>2. L \in Nat /\ IsFiniteSet(D) /\ Cardinality(D) = L
  <2>1. L \in Nat
    BY <1>1, ListOK
  <2> HIDE DEF L
  <2>2. IsFiniteSet(1..L) /\ Cardinality(1..L) = IF 1 > L THEN 0 ELSE L - 1 + 1
    BY <2>1, FS_Interval
  <2> QED
    BY <2>1, <2>2
<1>3. st_irq[cur][c] = SumFunction(now) /\ st_irq[prev][c] = SumFunction(was)
  BY <1>1 DEF ShownHeld, HeldAs
<1>4. \A i \in D :
        /\ now[i] \in Nat /\ was[i] \in Nat /\ was[i] <= now[i] /\ now[i] <= B
        /\ rise[i] \in Nat /\ now[i] = was[i] + rise[i]
  <2> SUFFICES ASSUME NEW i \in D
               PROVE  /\ now[i] \in Nat /\ was[i] \in Nat /\ was[i] <= now[i] /\ now[i] <= B
                      /\ rise[i] \in Nat /\ now[i] = was[i] + rise[i]
    OBVIOUS
  <2> DEFINE n == kern.irqs[i]
  <2>1. /\ kern.cnt[n][c] \in Nat /\ seen[c].cnt[n] \in Nat /\ seen[c].cnt[n] <= kern.cnt[n][c]
        /\ kern.cnt[n][c] <= B /\ CountsOf(c)[n] = kern.cnt[n][c] /\ IrqRise(c)[i] \in Nat
    BY <1>1, RiseOK
  <2>2. IrqRise(c)[i] = kern.cnt[n][c] - seen[c].cnt[n]
    BY DEF IrqRise
  <2>3. now[i] = kern.cnt[n][c] /\ was[i] = seen[c].cnt[n]
    BY <2>1
  <2> HIDE DEF n, now, was, B, D
  <2> QED
    BY <2>1, <2>2, <2>3
<1>5. B \in Nat /\ L * B < IrqWidth
  BY <1>1, CountBelow
<1>6. SumFunction(now) = SumFunctionOnSet(now, D) /\ SumFunction(was) = SumFunctionOnSet(was, D)
  BY DEF SumFunction
<1> HIDE DEF L, D, now, was, rise, B
<1>7. Nats(now, D) /\ Nats(was, D) /\ Nats(rise, D)
  BY <1>4 DEF Nats
<1> DEFINE sn == SumFunctionOnSet(now, D)
           sw == SumFunctionOnSet(was, D)
           sr == SumFunctionOnSet(rise, D)
           LB == L * B
<1>8. sn \in Nat /\ sw \in Nat /\ sr \in Nat
  BY <1>2, <1>7, SumIsNat
<1>9. sn = sw + sr
  BY <1>2, <1>4, <1>7, SumPlus
<1>10. sn <= LB
  <2>1. \A i \in D : now[i] \in 0..B
    BY <1>4, <1>5
  <2>2. sn <= Cardinality(D) * B
    BY <1>2, <1>5, <2>1, SumBounded
  <2> QED
    BY <1>2, <2>2
<1>11. LB \in Nat /\ LB < IrqWidth
  BY <1>2, <1>5
<1> HIDE DEF sn, sw, sr, LB
<1>12. sw <= sn /\ sn < IrqWidth
  BY <1>8, <1>9, <1>10, <1>11, MpstatAssumption
<1>13. IrqDiff(sw, sn) = sn - sw
  BY <1>8, <1>12, DiffIs
<1>14. IrqDiff(st_irq[prev][c], st_irq[cur][c]) = sr
  BY <1>3, <1>6, <1>8, <1>9, <1>13 DEF sn, sw
<1> QED
  BY <1>14 DEF sr, rise, D, L

\* The lines of a processor are those of all interrupts of the list.
LEMMA LinesRise ==
  ASSUME RoomForIrqs, NEW Top, Counted(Top), IrqKernel(Top), NEW prev, NEW cur, SameLists(prev, cur),
         NEW c \in (1..cpu_nr) \ Offline(prev, cur)
  PROVE  SumFunction([m \in {l \in IrqLines(prev, cur) : l.cpu = c} |-> m.val])
           = SumFunctionOnSet(IrqRise(c), 1..Len(kern.irqs))
<1> DEFINE lines == {l \in IrqLines(prev, cur) : l.cpu = c}
           D == 1..Len(kern.irqs)
           g == [i \in D |-> [cpu |-> c, irq |-> kern.irqs[i], val |-> IrqRise(c)[i]]]
           u == [m \in lines |-> m.val]
<1>1. /\ Roomy /\ ReadIs(cur, kern) /\ ShownHeld(prev, cur) /\ kern.irqs \in IrqLists
      /\ irqcpu_nr \in Nat /\ Len(kern.irqs) <= irqcpu_nr /\ Len(kern.irqs) \in Nat
  BY ListOK DEF SameLists, Roomy
<1>2. \A x, y \in D : kern.irqs[x] = kern.irqs[y] => x = y
  BY <1>1, ListOK DEF RoomForIrqs
<1>3. ASSUME NEW l \in lines PROVE \E x \in D : g[x] = l
  <2>1. l.cpu = c /\ l \in IrqLines(prev, cur)
    OBVIOUS
  <2>2. PICK i \in D : l.irq = kern.irqs[i] /\ l.val = IrqRise(c)[i]
    BY <2>1, LineRises
  <2>3. l = [cpu |-> l.cpu, irq |-> l.irq, val |-> l.val]
    BY <2>1 DEF IrqLines
  <2> QED
    BY <2>1, <2>2, <2>3
<1>4. ASSUME NEW i \in D PROVE g[i] \in lines
  <2>1. ASSUME NEW k \in 0..(i - 1) PROVE st_irqcpu[cur][k].name = kern.irqs[k + 1] /\ kern.irqs[k + 1] \in Names
    <3>1. k \in 0..(irqcpu_nr - 1) /\ k < Len(kern.irqs) /\ k + 1 \in 1..Len(kern.irqs)
      BY <1>1
    <3> QED
      BY <1>1, <3>1, ListOK DEF ReadIs
  <2> DEFINE j == i - 1
  <2>2. j \in 0..(irqcpu_nr - 1) /\ j + 1 = i /\ j \in 0..(i - 1)
    BY <1>1
  <2>3. j \in IrqColumns(cur)
    <3>1. \A k \in 0..j : st_irqcpu[cur][k].name # NoName
      BY <2>1, MpstatAssumption
    <3> QED
      BY <2>2, <3>1 DEF IrqColumns
  <2>4. st_irqcpu[cur][j].name = kern.irqs[i]
    BY <2>1, <2>2
  <2> DEFINE l == [cpu |-> c, irq |-> st_irqcpu[cur][j].name, val |-> IrqValue(prev, cur, c, j)]
  <2>5. l \in IrqLines(prev, cur)
    BY <2>3 DEF IrqLines
  <2>6. l.cpu = c /\ l.irq = kern.irqs[i]
    BY <2>4
  <2>7. l = [cpu |-> l.cpu, irq |-> l.irq, val |-> l.val]
    OBVIOUS
  <2> HIDE DEF l
  <2>8. PICK x \in D : l.irq = kern.irqs[x] /\ l.val = IrqRise(c)[x]
    BY <2>5, <2>6, LineRises
  <2>9. x = i
    BY <1>2, <2>6, <2>8
  <2>10. l = g[i]
    BY <2>6, <2>7, <2>8, <2>9
  <2> QED
    BY <2>5, <2>6, <2>10
<1>5. ASSUME NEW i \in D PROVE g[i].irq = kern.irqs[i] /\ u[g[i]] = IrqRise(c)[i]
  <2>1. u[g[i]] = g[i].val
    BY <1>4
  <2> QED
    BY <2>1
<1>6. g \in [D -> lines]
  BY <1>4
<1>7. \A x, y \in D : g[x] = g[y] => x = y
  BY <1>2, <1>5
<1>8. Nats(IrqRise(c), D) /\ IsFiniteSet(D)
  <2>1. IsFiniteSet(D)
    BY <1>1, FS_Interval
  <2> QED
    BY <1>1, <2>1, RiseOK DEF Nats
<1>9. DOMAIN u = lines
  OBVIOUS
<1>10. \A l \in lines : \E x \in D : g[x] = l
  BY <1>3
<1>11. \A x \in D : u[g[x]] = IrqRise(c)[x]
  BY <1>5
<1> DEFINE v == IrqRise(c)
<1>12. Nats(v, D) /\ \A x \in D : u[g[x]] = v[x]
  BY <1>8, <1>11
<1> HIDE DEF g, u, lines, D, v
<1>13. SumFunction(u) = SumFunctionOnSet(v, D)
  BY <1>6, <1>7, <1>8, <1>9, <1>10, <1>12, SumOfLines
<1> QED
  BY <1>13 DEF u, v, lines, D

\* The samples of a report written in an interval are of processors seen before.
LEMMA ReportHeld ==
  ASSUME MpInv, NEW Top, IrqInv(Top), HeldInv, mpc = "write", cpu_nr = NFirst, SameList(first)
  PROVE  SameLists(1 - mcurr, mcurr)
<1>1. MpType /\ IrqKernel(Top) /\ IrqSamples /\ mopt.interval
  BY DEF MpInv, IrqInv, MpType, InInterval
<1>2. Roomy
  BY <1>1, IsRoomy
<1>3. ReadIs(1 - mcurr, before) /\ ReadIs(mcurr, kern)
  BY <1>1 DEF IrqSamples
<1>4. before.irqs = first.irqs
  BY DEF HeldInv
<1>5. ASSUME NEW c \in (1..cpu_nr) \ Offline(1 - mcurr, mcurr)
      PROVE  /\ seen[c].ever /\ seen[c].cnt \in [Names -> Nat]
             /\ \A n \in InList(kern.irqs) : seen[c].cnt[n] <= kern.cnt[n][c]
             /\ HeldAs(1 - mcurr, c, seen[c].cnt) /\ HeldAs(mcurr, c, CountsOf(c))
  <2>1. c \in Cpus
    BY <1>2 DEF Roomy
  <2>2. Total(st_cpu[mcurr][c]) # 0 /\ Total(st_cpu[1 - mcurr][c]) # 0
    BY <1>1 DEF Offline, NotRead, Unreferenced
  <2>3. st_cpu[mcurr][c] = NowRead(c) /\ Known(st_cpu[1 - mcurr][c], c)
    BY DEF MpInv, CpuSamples
  <2>4. Total(NoCpu) = 0
    BY DEF Total, NoCpu
  <2>5. kern.cpu[c].up /\ seen[c].ever
    BY <2>2, <2>3, <2>4 DEF NowRead, Known
  <2>6. NowHeld(mcurr, c) /\ HeldAs(1 - mcurr, c, seen[c].cnt)
    BY <2>5 DEF HeldInv
  <2>7. HeldAs(mcurr, c, CountsOf(c))
    BY <2>5, <2>6 DEF NowHeld
  <2>8. seen[c].cnt \in [Names -> Nat] /\ \A n \in InList(kern.irqs) : seen[c].cnt[n] <= kern.cnt[n][c]
    BY <2>1, <2>5 DEF HeldInv, SameList
  <2> QED
    BY <2>5, <2>6, <2>7, <2>8
<1> QED
  BY <1>1, <1>2, <1>3, <1>4, <1>5 DEF SameLists, ShownHeld

LEMMA IrqReturnsStep ==
  ASSUME RoomForIrqs, NEW Top, Counted(Top), MpInv, IrqInv(Top), HeldInv, IrqReturns, Next
  PROVE  IrqReturns'
<1>1. CASE ReadFirst \/ Pause
  <2>1. mout'.irq = {} /\ mout'.sum = {}
    BY <1>1 DEF ReadFirst, Pause, MpInv, MpType, NoReport
  <2> QED
    BY <2>1, Zenon DEF IrqReturns
<1>2. CASE ReadStats \/ Interrupted \/ Done
  <2>1. UNCHANGED <<kern, first, seen, mopt, mout, cpu_nr>>
    BY <1>2, Zenon DEF ReadStats, Interrupted, Done, mpVars, kernelVars, sampleVars
  <2> QED
    BY <2>1, Zenon DEF IrqReturns, IntervalReport, SameList
<1>3. CASE WriteSinceBoot
  <2>1. mpc = "boot" /\ UNCHANGED mopt
    BY <1>3, Zenon DEF WriteSinceBoot
  <2>2. ~mopt'.interval
    BY <2>1 DEF MpInv, MpType
  <2> QED
    BY <2>2, Zenon DEF IrqReturns, IntervalReport
<1>4. CASE Average
  <2>1. mout'.prev = 2
    BY <1>4 DEF Average, WriteCore
  <2>2. mout'.prev \notin {0, 1}
    BY <2>1
  <2> QED
    BY <2>2, Zenon DEF IrqReturns, IntervalReport
<1>5. CASE WriteStats
  <2> DEFINE prev == 1 - mcurr
             lines == IrqLines(prev, mcurr)
             sums == SumLines(prev, mcurr, GlobalSample(prev, mcurr))
  <2>1. mpc = "write" /\ UNCHANGED <<kern, first, before, seen, mopt, cpu_nr>>
    BY <1>5, Zenon DEF WriteStats, kernelVars
  <2>2. mout'.irq = lines /\ mout'.sum = sums
    BY <1>5 DEF WriteStats, WriteCore
  <2>3. IrqKernel(Top) /\ MpType
    BY DEF IrqInv, MpInv
  <2> SUFFICES ASSUME cpu_nr = NFirst, SameList(first)
               PROVE  /\ \A l \in lines : seen[l.cpu].ever =>
                           l.val = kern.cnt[l.irq][l.cpu] - seen[l.cpu].cnt[l.irq]
                      /\ \A l \in sums : l.cpu > 0 =>
                           l.val \in {0, SumFunction([m \in {i \in lines : i.cpu = l.cpu} |-> m.val])}
    <3> HIDE DEF lines, sums
    <3> QED
      BY <2>1, <2>2, Zenon DEF IrqReturns, SameList
  <2>4. SameLists(prev, mcurr)
    BY <2>1, ReportHeld
  <2> HIDE DEF prev
  <2>5. ASSUME NEW l \in lines
        PROVE  l.val = kern.cnt[l.irq][l.cpu] - seen[l.cpu].cnt[l.irq]
    <3>1. PICK i \in 1..Len(kern.irqs) : l.irq = kern.irqs[i] /\ l.val = IrqRise(l.cpu)[i]
      BY <2>3, <2>4, LineRises
    <3> QED
      BY <3>1 DEF IrqRise
  <2>6. ASSUME NEW l \in sums, l.cpu > 0
        PROVE  l.val \in {0, SumFunction([m \in {i \in lines : i.cpu = l.cpu} |-> m.val])}
    <3>1. PICK c \in CpuShown(prev, mcurr) :
            l.cpu = c /\ (l.val = 0 \/ l.val = IrqDiff(st_irq[prev][c], st_irq[mcurr][c]))
      BY DEF SumLines
    <3>2. c \in (1..cpu_nr) \ Offline(prev, mcurr)
      <4>1. cpu_nr \in Nat
        BY <2>3, Numbers DEF MpType
      <4> QED
        BY <2>6, <3>1, <4>1 DEF CpuShown
    <3> DEFINE mine == {i \in lines : i.cpu = c}
    <3>3. IrqDiff(st_irq[prev][c], st_irq[mcurr][c]) = SumFunctionOnSet(IrqRise(c), 1..Len(kern.irqs))
      BY <2>3, <2>4, <3>2, TotalRises
    <3>4. SumFunction([m \in mine |-> m.val]) = SumFunctionOnSet(IrqRise(c), 1..Len(kern.irqs))
      BY <2>3, <2>4, <3>2, LinesRise
    <3>5. l.val = 0 \/ l.val = SumFunction([m \in mine |-> m.val])
      BY <3>1, <3>3, <3>4
    <3> QED
      BY <3>1, <3>5
  <2> QED
    BY <2>5, <2>6
<1> QED
  BY <1>1, <1>2, <1>3, <1>4, <1>5 DEF Next

-----------------------------------------------------------------------------
(* The theorems, of runs of either tool.                                    *)

LEMMA NoReportTrue ==
  ASSUME mout = NoReport
  PROVE  CpuLinesTrue /\ SumsAgree /\ IrqLinesTrue /\ IrqReturns
<1>1. mout.cpu = {} /\ mout.irq = {} /\ mout.sum = {}
  BY DEF NoReport
<1> QED
  BY <1>1, Zenon DEF CpuLinesTrue, SumsAgree, IrqLinesTrue, IrqTrue, IrqReturns

\* Which tool runs, and that it is the only one to take steps.
LEMMA ToolSteps ==
  ASSUME [MCNext]_mcVars
  PROVE  \/ tool = "mpstat" /\ tool' = tool /\ Next
         \/ tool' = tool /\ UNCHANGED mpVars
  BY Zenon DEF MCNext, OfMpstat, OfPidstat, mcVars

LEMMA ToolStarts ==
  ASSUME MCInit
  PROVE  (tool = "mpstat" /\ Init) \/ (tool = "pidstat" /\ mout = NoReport)
  BY Zenon DEF MCInit, NoCpus

CpuReports == IF tool = "mpstat" THEN MpInv /\ CpuLinesTrue /\ SumsAgree ELSE mout = NoReport

LEMMA CpuReportsSame ==
  ASSUME CpuReports, tool' = tool, UNCHANGED mpVars
  PROVE  CpuReports'
<1>1. UNCHANGED <<kern, first, before, seen, reads, mpc, mopt, cpu_nr, irqcpu_nr, st_cpu, st_irq,
                  st_irqcpu, mcurr, mcount, mout>>
  BY Zenon DEF mpVars, kernelVars, sampleVars
<1>2. CASE tool = "mpstat"
  <2>1. MpInv' /\ CpuLinesTrue' /\ SumsAgree'
    <3>1. MpInv /\ CpuLinesTrue /\ SumsAgree
      BY <1>2 DEF CpuReports
    <3>2. MpInv'
      BY <1>1, <3>1 DEF MpInv, KernelOK, MpType, CpuSamples, NowRead, FirstRead, Known
    <3>3. CpuLinesTrue'
      BY <1>1, <3>1, Zenon DEF CpuLinesTrue, IntervalReport
    <3>4. SumsAgree'
      BY <1>1, <3>1, Zenon DEF SumsAgree
    <3> QED
      BY <3>2, <3>3, <3>4
  <2> QED
    BY <1>2, <2>1 DEF CpuReports
<1>3. CASE tool # "mpstat"
  BY <1>1, <1>3 DEF CpuReports
<1> QED
  BY <1>2, <1>3

LEMMA CpuReportsAlways == MpAssumptions => (MCSpec => []CpuReports)
<1> SUFFICES ASSUME MpAssumptions PROVE MCSpec => []CpuReports
  OBVIOUS
<1>1. MCInit => CpuReports
  <2> SUFFICES ASSUME MCInit PROVE CpuReports
    OBVIOUS
  <2>1. CASE tool = "mpstat" /\ Init
    <3>1. MpInv
      BY <2>1, InitOK
    <3>2. mout = NoReport
      BY <2>1 DEF Init
    <3> QED
      BY <2>1, <3>1, <3>2, NoReportTrue DEF CpuReports
  <2>2. CASE tool = "pidstat" /\ mout = NoReport
    BY <2>2 DEF CpuReports
  <2> QED
    BY <2>1, <2>2, ToolStarts
<1>2. CpuReports /\ [MCNext]_mcVars => CpuReports'
  <2> SUFFICES ASSUME CpuReports, [MCNext]_mcVars PROVE CpuReports'
    OBVIOUS
  <2>1. CASE tool = "mpstat" /\ tool' = tool /\ Next
    <3>1. MpInv /\ CpuLinesTrue /\ SumsAgree
      BY <2>1 DEF CpuReports
    <3>2. MpInv' /\ CpuLinesTrue' /\ SumsAgree'
      BY <2>1, <3>1, MpStep, CpuLinesStep, SumsStep
    <3> QED
      BY <2>1, <3>2 DEF CpuReports
  <2>2. CASE tool' = tool /\ UNCHANGED mpVars
    BY <2>2, CpuReportsSame
  <2> QED
    BY <2>1, <2>2, ToolSteps
<1> QED
  BY <1>1, <1>2, PTL DEF MCSpec

IrqReports(Top) == tool = "mpstat" => IrqInv(Top) /\ IrqLinesTrue

HeldReports == tool = "mpstat" => HeldInv /\ IrqReturns

LEMMA IrqReportsSame ==
  ASSUME tool' = tool, UNCHANGED mpVars
  PROVE  /\ \A Top : IrqReports(Top) => IrqReports(Top)'
         /\ HeldReports => HeldReports'
<1>1. UNCHANGED <<kern, first, before, seen, reads, mpc, mopt, cpu_nr, irqcpu_nr, st_irq,
                  st_irqcpu, mcurr, mout>>
  BY Zenon DEF mpVars, kernelVars, sampleVars
<1>2. /\ \A c, j : Elem(c, j)' = Elem(c, j)
      /\ \A c : CountsOf(c)' = CountsOf(c)
      /\ SameList(first)' <=> SameList(first)
      /\ Used' = Used
  BY <1>1, Zenon DEF Elem, CountsOf, SameList, Used
<1>3. ASSUME NEW Top, IrqKernel(Top) PROVE IrqKernel(Top)'
  BY <1>1, <1>2, <1>3 DEF IrqKernel, IrqNumbers, IrqLater
<1>4. ASSUME IrqSamples PROVE IrqSamples'
  BY <1>1, <1>2, <1>4, Zenon DEF IrqSamples, ReadIs
<1>5. IrqLinesTrue => IrqLinesTrue'
  BY <1>1, Zenon DEF IrqLinesTrue, IrqTrue
<1>6. IrqReturns => IrqReturns'
  BY <1>1, Zenon DEF IrqReturns, IntervalReport, SameList
<1>7. ASSUME HeldInv PROVE HeldInv'
  <2>1. /\ \A s, c, cnt : HeldAs(s, c, cnt)' <=> HeldAs(s, c, cnt)
        /\ \A c : HeldAs(1 - mcurr, c, seen[c].cnt)' <=> HeldAs(1 - mcurr, c, seen[c].cnt)
    BY <1>1, <1>2 DEF HeldAs
  <2>2. /\ \A s, c : NowHeld(s, c)' <=> NowHeld(s, c)
        /\ \A c : NowHeld(mcurr, c)' <=> NowHeld(mcurr, c)
    BY <1>1, <1>2 DEF NowHeld, HeldAs
  <2> QED
    BY <1>1, <1>2, <1>7, <2>1, <2>2, Zenon DEF HeldInv
<1> QED
  BY <1>1, <1>3, <1>4, <1>5, <1>6, <1>7 DEF IrqReports, HeldReports, IrqInv

LEMMA IrqReportsAlways ==
  ASSUME NEW Top
  PROVE  MpAssumptions /\ RoomForIrqs /\ Counted(Top) => (MCSpec => []IrqReports(Top))
<1> SUFFICES ASSUME MpAssumptions, RoomForIrqs, Counted(Top) PROVE MCSpec => []IrqReports(Top)
  OBVIOUS
<1>1. MCInit => IrqReports(Top)
  <2> SUFFICES ASSUME MCInit, tool = "mpstat" PROVE IrqInv(Top) /\ IrqLinesTrue
    BY DEF IrqReports
  <2>1. Init
    BY ToolStarts
  <2>2. mout = NoReport
    BY <2>1 DEF Init
  <2> QED
    BY <2>1, <2>2, IrqInitOK, SamplesInitOK, NoReportTrue DEF IrqInv
<1>2. CpuReports /\ CpuReports' /\ IrqReports(Top) /\ [MCNext]_mcVars => IrqReports(Top)'
  <2> SUFFICES ASSUME CpuReports, CpuReports', IrqReports(Top), [MCNext]_mcVars PROVE IrqReports(Top)'
    OBVIOUS
  <2>1. CASE tool = "mpstat" /\ tool' = tool /\ Next
    <3>1. MpInv /\ MpInv' /\ IrqInv(Top) /\ IrqLinesTrue
      BY <2>1 DEF CpuReports, IrqReports
    <3>2. IrqInv(Top)' /\ IrqLinesTrue'
      BY <2>1, <3>1, IrqInvStep, IrqLinesStep
    <3> QED
      BY <3>2 DEF IrqReports
  <2>2. CASE tool' = tool /\ UNCHANGED mpVars
    BY <2>2, IrqReportsSame
  <2> QED
    BY <2>1, <2>2, ToolSteps
<1>3. MCSpec => []CpuReports
  BY CpuReportsAlways
<1> QED
  BY <1>1, <1>2, <1>3, PTL DEF MCSpec

\* The line of CPU "all" adds up with those of the processors and of the nodes
\* (write_stats_core() of mpstat), for any number of processors and of nodes.
THEOREM MCSumsAgree == MpAssumptions => (MCSpec => []SumsAgree)
<1> SUFFICES ASSUME MpAssumptions PROVE MCSpec => []SumsAgree
  OBVIOUS
<1>1. MCSpec => []CpuReports
  BY CpuReportsAlways
<1>2. CpuReports => SumsAgree
  BY NoReportTrue DEF CpuReports
<1> QED
  BY <1>1, <1>2, PTL

\* A line of mpstat is what its processor, or its interrupt, has done since the
\* sample it is compared with: processors leave, return and are plugged in,
\* interrupts appear, leave and change places.
THEOREM MCReportsTrue == MpAssumptions /\ RoomForIrqs /\ CountsFit => (MCSpec => []MCLinesTrue)
<1> SUFFICES ASSUME MpAssumptions, RoomForIrqs, CountsFit PROVE MCSpec => []MCLinesTrue
  OBVIOUS
<1>1. PICK Top : Counted(Top)
  BY DEF CountsFit
<1>2. MCSpec => []CpuReports
  BY CpuReportsAlways
<1>3. MCSpec => []IrqReports(Top)
  BY <1>1, IrqReportsAlways
<1>4. CpuReports /\ IrqReports(Top) => MCLinesTrue
  BY DEF CpuReports, IrqReports, MCLinesTrue
<1> QED
  BY <1>2, <1>3, <1>4, PTL

\* As long as the list of interrupts stays the same, their lines do not jump for
\* a processor that comes back, and the total of a processor is their sum.
THEOREM MCIrqsReturn ==
  MpAssumptions /\ RoomForIrqs /\ IrqsInOrder /\ CountsFit => (MCSpec => []MCIrqReturns)
<1> SUFFICES ASSUME MpAssumptions, RoomForIrqs, IrqsInOrder, CountsFit PROVE MCSpec => []MCIrqReturns
  OBVIOUS
<1>1. PICK Top : Counted(Top)
  BY DEF CountsFit
<1>2. MCInit => HeldReports
  <2> SUFFICES ASSUME MCInit, tool = "mpstat" PROVE HeldInv /\ IrqReturns
    BY DEF HeldReports
  <2>1. Init
    BY ToolStarts
  <2>2. mout = NoReport
    BY <2>1 DEF Init
  <2> QED
    BY <2>1, <2>2, HeldInitOK, NoReportTrue
<1>3. CpuReports /\ CpuReports' /\ IrqReports(Top) /\ HeldReports /\ [MCNext]_mcVars => HeldReports'
  <2> SUFFICES ASSUME CpuReports, CpuReports', IrqReports(Top), HeldReports, [MCNext]_mcVars
               PROVE  HeldReports'
    OBVIOUS
  <2>1. CASE tool = "mpstat" /\ tool' = tool /\ Next
    <3>1. MpInv /\ MpInv' /\ IrqInv(Top) /\ HeldInv /\ IrqReturns
      BY <2>1 DEF CpuReports, IrqReports, HeldReports
    <3>2. HeldInv' /\ IrqReturns'
      BY <1>1, <2>1, <3>1, HeldStep, IrqReturnsStep
    <3> QED
      BY <3>2 DEF HeldReports
  <2>2. CASE tool' = tool /\ UNCHANGED mpVars
    BY <2>2, IrqReportsSame
  <2> QED
    BY <2>1, <2>2, ToolSteps
<1>4. MCSpec => []CpuReports
  BY CpuReportsAlways
<1>5. MCSpec => []IrqReports(Top)
  BY <1>1, IrqReportsAlways
<1>6. HeldReports => MCIrqReturns
  BY DEF HeldReports, MCIrqReturns
<1> QED
  BY <1>2, <1>3, <1>4, <1>5, <1>6, PTL DEF MCSpec

-----------------------------------------------------------------------------
(* Greatest numbers, loops over numbers, and sequences with one more element. *)

\* A set of numbers that has one, and none above another number, has a greatest.
LEMMA GreatestNumber ==
  ASSUME NEW S, S \subseteq Nat, S # {}, NEW b \in Nat, \A x \in S : x <= b
  PROVE  \E x \in S : \A y \in S : x >= y
<1> DEFINE Bounds == {m \in Nat : \A x \in S : x <= m}
<1>1. PICK m \in Bounds : \A y \in Bounds : m <= y
  <2>1. Bounds \subseteq Nat /\ b \in Bounds
    OBVIOUS
  <2> QED
    BY <2>1, LowestNumber
<1>2. CASE m \in S
  BY <1>2
<1>3. CASE m \notin S
  <2>1. \A x \in S : x < m
    BY <1>1, <1>3
  <2>2. m - 1 \in Nat
    <3>1. PICK x \in S : x < m
      BY <2>1
    <3>2. x \in Nat /\ m \in Nat
      BY <1>1
    <3> QED
      BY <3>1, <3>2
  <2>3. m - 1 \in Bounds
    BY <1>1, <2>1, <2>2
  <2> QED
    BY <1>1, <2>3
<1> QED
  BY <1>2, <1>3

\* A finite set of numbers has a greatest one.
LEMMA GreatestOfFinite ==
  ASSUME NEW S, S \subseteq Nat, IsFiniteSet(S), S # {}
  PROVE  \E x \in S : \A y \in S : x >= y
<1> DEFINE X == {s \in SUBSET S : s # {} => \E x \in s : \A y \in s : x >= y}
<1>1. ASSUME NEW s \in SUBSET S, \A x \in s : s \ {x} \in X PROVE s \in X
  <2> SUFFICES ASSUME s # {} PROVE \E x \in s : \A y \in s : x >= y
    OBVIOUS
  <2>1. PICK z \in s : TRUE
    OBVIOUS
  <2>2. CASE s \ {z} = {}
    BY <2>1, <2>2
  <2>3. CASE s \ {z} # {}
    <3>1. PICK x \in s \ {z} : \A y \in s \ {z} : x >= y
      BY <1>1, <2>1, <2>3
    <3>2. x \in Nat /\ z \in Nat
      BY <2>1, <3>1
    <3>3. CASE x >= z
      BY <3>1, <3>3
    <3>4. CASE z > x
      BY <2>1, <3>1, <3>2, <3>4
    <3> QED
      BY <3>2, <3>3, <3>4
  <2> QED
    BY <2>2, <2>3
<1>2. X \subseteq SUBSET S
  OBVIOUS
<1> HIDE DEF X
<1>3. X = SUBSET S
  BY <1>1, <1>2, AllSubsets
<1>4. S \in X
  BY <1>3
<1> QED
  BY <1>4 DEF X

\* The values of a loop of n turns: x, and what each turn makes of the one
\* before.  Turn i takes the values of G[i - 1] to values of G[i].
Loop(n, X, G, x, turn) ==
  /\ n \in Nat /\ G \in [0..n -> SUBSET X] /\ x \in G[0] /\ turn \in [(1..n) \X X -> X]
  /\ \A i \in 1..n : \A y \in G[i - 1] : turn[<<i, y>>] \in G[i]

LEMMA LoopValues ==
  ASSUME NEW n, NEW X, NEW G, NEW x, NEW turn, Loop(n, X, G, x, turn)
  PROVE  \E u \in [0..n -> X] :
            \A i \in 0..n : u[i] \in G[i] /\ u[i] = IF i = 0 THEN x ELSE turn[<<i, u[i - 1]>>]
<1> DEFINE Is(u, i) == u[i] = IF i = 0 THEN x ELSE turn[<<i, u[i - 1]>>]
           Upto(m) == \E u \in [0..n -> X] : \A i \in 0..m : i <= n => Is(u, i) /\ u[i] \in G[i]
           S == {m \in Nat : Upto(m)}
<1> n \in Nat /\ G \in [0..n -> SUBSET X] /\ x \in G[0] /\ turn \in [(1..n) \X X -> X]
  BY DEF Loop
<1> \A i \in 1..n : \A y \in G[i - 1] : turn[<<i, y>>] \in G[i]
  BY DEF Loop
<1>1. x \in X
  OBVIOUS
<1>2. 0 \in S
  <2> DEFINE w == [i \in 0..n |-> x]
  <2>1. w \in [0..n -> X]
    BY <1>1
  <2>2. \A i \in 0..0 : i <= n => Is(w, i) /\ w[i] \in G[i]
    OBVIOUS
  <2> QED
    BY <2>1, <2>2
<1>3. ASSUME NEW m \in Nat, m \in S PROVE m + 1 \in S
  <2>1. PICK u \in [0..n -> X] : \A i \in 0..m : i <= n => Is(u, i) /\ u[i] \in G[i]
    BY <1>3
  <2>2. CASE m + 1 > n
    <3>1. \A i \in 0..(m + 1) : i <= n => i \in 0..m
      BY <2>2
    <3>2. \A i \in 0..(m + 1) : i <= n => Is(u, i) /\ u[i] \in G[i]
      BY <2>1, <3>1
    <3> HIDE DEF Is
    <3> QED
      BY <3>2
  <2>3. CASE m + 1 <= n
    <3> DEFINE y == turn[<<m + 1, u[m]>>]
               v == [i \in 0..n |-> IF i = m + 1 THEN y ELSE u[i]]
    <3>1. m \in 0..m /\ m <= n /\ m + 1 \in 1..n /\ (m + 1) - 1 = m
      BY <2>3
    <3>2. u[m] \in G[m] /\ u[m] \in X
      <4> HIDE DEF Is
      <4>1. u[m] \in G[m]
        BY <2>1, <3>1
      <4>2. m \in 0..n
        BY <2>3
      <4> QED
        BY <4>1, <4>2
    <3>3. y \in G[m + 1]
      BY <3>1, <3>2
    <3>4. G[m + 1] \subseteq X
      BY <3>1
    <3> HIDE DEF y
    <3>5. v \in [0..n -> X]
      BY <3>3, <3>4
    <3>6. ASSUME NEW i \in 0..(m + 1), i <= n PROVE Is(v, i) /\ v[i] \in G[i]
      <4>1. CASE i = m + 1
        <5>1. v[i] = y /\ v[i - 1] = u[m] /\ i # 0
          BY <3>1, <4>1
        <5> QED
          BY <3>3, <4>1, <5>1 DEF y
      <4>2. CASE i # m + 1
        <5>1. i \in 0..m /\ v[i] = u[i] /\ (i # 0 => v[i - 1] = u[i - 1])
          BY <3>6, <4>2
        <5>2. Is(u, i) /\ u[i] \in G[i]
          BY <2>1, <3>6, <5>1
        <5> HIDE DEF v
        <5> QED
          BY <5>1, <5>2
      <4> QED
        BY <4>1, <4>2
    <3> HIDE DEF v, Is
    <3> QED
      BY <3>5, <3>6
  <2>4. m + 1 > n \/ m + 1 <= n
    OBVIOUS
  <2> HIDE DEF S
  <2> QED
    BY <2>2, <2>3, <2>4
<1>4. n \in S
  <2> HIDE DEF S
  <2> QED
    BY <1>2, <1>3, EveryNumber
<1>5. PICK u \in [0..n -> X] : \A i \in 0..n : Is(u, i) /\ u[i] \in G[i]
  BY <1>4
<1> QED
  BY <1>5

\* Two loops that start alike and take the same turns end alike.
LEMMA LoopsAlike ==
  ASSUME NEW n \in Nat, NEW u, NEW v, u[0] = v[0],
         \A i \in 1..n : u[i - 1] = v[i - 1] => u[i] = v[i]
  PROVE  u[n] = v[n]
<1> DEFINE S == {m \in Nat : m <= n => u[m] = v[m]}
<1>1. 0 \in S
  OBVIOUS
<1>2. ASSUME NEW m \in Nat, m \in S PROVE m + 1 \in S
  <2>1. CASE m + 1 <= n
    <3>1. m + 1 \in 1..n /\ (m + 1) - 1 = m /\ m <= n
      BY <2>1
    <3> QED
      BY <1>2, <3>1
  <2>2. CASE ~(m + 1 <= n)
    BY <2>2
  <2> QED
    BY <2>1, <2>2
<1>3. n \in S
  <2> HIDE DEF S
  <2> QED
    BY <1>1, <1>2, EveryNumber
<1> QED
  BY <1>3

-----------------------------------------------------------------------------
(* pidstat.  The list of tasks: in order, its entries are told from one     *)
(* another by their identifiers, and threads point to their process.         *)

Ids == Pids \X (Nat \ {0})
Entries(V, T) ==
  [id: Ids, pid: Pids, tgid: Ids \cup {P!NoEntry}, exist: BOOLEAN, st: [0..2 -> V], total: T, asum: T]
IsList(l) == \E V, T : l \in Seq(Entries(V, T))

\* An entry is that of a process (0), or of a thread of a process.
Kind(e) == IF e.tgid = P!NoEntry THEN 0 ELSE e.tgid[1]
Kinds == Pids \cup {0}
Of(n, k) == IF k = 0 THEN n ELSE k

\* The order of the entries: a process, its threads, the next process.
Top(e) == Of(e.pid, Kind(e))
Before(e, f) ==
  \/ Top(e) < Top(f)
  \/ Top(e) = Top(f) /\ f.tgid # P!NoEntry /\ (e.tgid = P!NoEntry \/ e.pid < f.pid)

Ordered(l) == \A i, j \in DOMAIN l : i < j => Before(l[i], l[j])
Identified(l) ==
  /\ \A i \in DOMAIN l : l[i].id[1] = l[i].pid
  /\ \A i, j \in DOMAIN l : l[i].id = l[j].id => i = j
Leads(e, f) == e.tgid = P!NoEntry /\ e.pid = Kind(f) /\ e.id = f.tgid
Linked(l) == \A i \in DOMAIN l : l[i].tgid # P!NoEntry => \E j \in DOMAIN l : Leads(l[j], l[i])
GoodList(l) == Ordered(l) /\ Identified(l) /\ Linked(l)

\* What a list holds of task n, as a process or as a thread.
NoStats == [i \in 0..2 |-> P!NoSample]
TaskRow(there, exist, st, total, asum) ==
  [there |-> there, exist |-> exist, st |-> st, total |-> total, asum |-> asum]
NoRow == TaskRow(FALSE, FALSE, NoStats, 0, 0)
Present(row) == TaskRow(TRUE, row.exist, row.st, row.total, row.asum)
RowOf(e) == TaskRow(TRUE, e.exist, e.st, e.total, e.asum)
Places(l, n, k) == {i \in DOMAIN l : l[i].pid = n /\ Kind(l[i]) = k}
RowIn(l, n, k) == IF Places(l, n, k) = {} THEN NoRow ELSE RowOf(l[CHOOSE i \in Places(l, n, k) : TRUE])

-----------------------------------------------------------------------------
(* The inductive invariant of pidstat.                                       *)

TaskFields == {"tgid", "cpu", "sw", "mem", "group", "birth"}
TasksAre(t) ==
  /\ DOMAIN t = Pids
  /\ \A n \in Pids : /\ DOMAIN t[n] = TaskFields
                     /\ t[n].tgid \in Kinds /\ t[n].birth \in Nat
                     /\ t[n].tgid # 0 => t[t[n].tgid].tgid = t[n].tgid

\* Tasks u come after tasks t: a number that is used again has another birth.
Follow(t, u) ==
  \A n \in Pids : /\ t[n].birth <= u[n].birth
                  /\ u[n].tgid # 0 /\ u[n].birth = t[n].birth => t[n].tgid = u[n].tgid

TaskKernel ==
  /\ TasksAre(task) /\ TasksAre(task0) /\ TasksAre(task1)
  /\ Follow(task0, task1) /\ Follow(task1, task)
  /\ ppc \in {"begin", "boot", "first"} => task0 = task /\ task1 = task

\* What a reading of tasks t finds of task n, as a process or as a thread.
SampleIn(t, n, k) ==
  IF t[n].tgid # Of(n, k) THEN P!NoSample
  ELSE [cpu |-> IF k # 0 THEN t[n].cpu ELSE t[n].group,
        sw |-> t[n].sw, mem |-> t[t[n].tgid].mem]

\* Task n is in the list after a reading of tasks t.
ListedIn(t, n, k) ==
  /\ t[n].tgid = Of(n, k)
  /\ popt.all \/ t[n].tgid \in popt.pids \ lost
  /\ k # 0 => popt.tid

GaugesOK ==
  DOMAIN gauge = Pids /\ \A n \in Pids : gauge[n].n \in Nat /\ (gauge[n].n = 0 => gauge[n].total = 0)

PidType ==
  /\ ppc \in {"begin", "boot", "first", "read", "write", "pause", "average", "done"}
  /\ popt \in PidOptions /\ pcurr \in {0, 1} /\ lost \subseteq Pids
  /\ GaugesOK /\ IsList(pid_list) /\ GoodList(pid_list)
  /\ ppc \in {"begin", "first"} => pcurr = 1
  /\ ppc = "begin" => lost = {}
  /\ ppc \in {"first", "read", "write", "pause", "average"} => popt.interval
  /\ ppc = "boot" => ~popt.interval
  /\ ppc = "average" => ~popt.json /\ ~popt.oneline
  /\ ppc \in {"begin", "boot", "first", "read", "write"} => pout = {}

\* What is known of tasks t, the ones last read: the processes that were never
\* missed, which tasks are in the list, and their first samples.
AsRead(t) ==
  /\ \A n \in Pids \ lost : t[n].tgid = n
  /\ \A n \in Pids, k \in Kinds :
       LET row == RowIn(pid_list, n, k)
       IN  IF ListedIn(t, n, k)
           THEN /\ row.there /\ row.exist
                /\ task0[n].birth = t[n].birth \/ task0[n].tgid # t[n].tgid =>
                     row.st[2] = SampleIn(task0, n, k)
           ELSE row = NoRow

\* Slot c of the samples is that of tasks t.
SlotIs(c, t) ==
  \A n \in Pids, k \in Kinds :
    RowIn(pid_list, n, k).there => RowIn(pid_list, n, k).st[c] = SampleIn(t, n, k)

\* The gauges of the reports made: those of the task, or of others too.
Averaged(n, total, asum) ==
  /\ n \notin mixed => total = gauge[n].total /\ asum = gauge[n].n
  /\ n \in mixed => asum > gauge[n].n
GaugesAre ==
  P!Summing =>
    \A n \in Pids, k \in Kinds :
      RowIn(pid_list, n, k).there =>
        /\ RowIn(pid_list, n, k).asum \in Nat
        /\ Averaged(n, RowIn(pid_list, n, k).total, RowIn(pid_list, n, k).asum)

\* The same, before the report in progress.
GaugesWere ==
  P!Summing =>
    \A n \in Pids, k \in Kinds :
      RowIn(pid_list, n, k).there =>
        /\ RowIn(pid_list, n, k).asum \in Nat
        /\ Averaged(n, RowIn(pid_list, n, k).total + task[task[n].tgid].mem,
                    RowIn(pid_list, n, k).asum + 1)

ListInv ==
  /\ ppc = "begin" =>
       /\ mixed = {} /\ \A n \in Pids : gauge[n] = P!NoReports
       /\ \A n \in Pids, k \in Kinds :
            RowIn(pid_list, n, k) = IF k = 0 /\ n \in popt.pids THEN Present(NoRow)
                                    ELSE NoRow
  /\ ppc = "first" => AsRead(task) /\ SlotIs(0, task) /\ GaugesAre
  /\ ppc = "read" => AsRead(task1) /\ SlotIs(1 - pcurr, task1) /\ GaugesAre
  /\ ppc = "write" => AsRead(task) /\ SlotIs(pcurr, task) /\ SlotIs(1 - pcurr, task1) /\ GaugesWere
  /\ ppc \in {"pause", "average"} => AsRead(task) /\ SlotIs(pcurr, task) /\ GaugesAre

PidInv == TaskKernel /\ PidType /\ ListInv

-----------------------------------------------------------------------------
(* The operators on lists.                                                   *)

LEMMA LastPidIs ==
  ASSUME PidsOK
  PROVE  P!LastPid \in Pids /\ P!LastPid \in Nat /\ \A n \in Pids : n \in 1..P!LastPid
<1>1. Pids \subseteq Nat /\ \A n \in Pids : n \in Nat /\ n >= 1
  BY DEF PidsOK
<1>2. \E x \in Pids : \A y \in Pids : x >= y
  BY <1>1, GreatestOfFinite DEF PidsOK
<1>3. P!LastPid \in Pids /\ \A y \in Pids : P!LastPid >= y
  BY <1>2 DEF P!LastPid, P!Max
<1> QED
  BY <1>1, <1>3

LEMMA FirstIs ==
  ASSUME NEW X, NEW l \in Seq(X), NEW S, S \subseteq DOMAIN l
  PROVE  /\ P!FirstOf(S, l) \in 1..(Len(l) + 1)
         /\ P!FirstOf(S, l) <= Len(l) => P!FirstOf(S, l) \in S
         /\ \A i \in S : P!FirstOf(S, l) <= i
<1>1. DOMAIN l = 1..Len(l) /\ Len(l) \in Nat
  OBVIOUS
<1>2. CASE S = {}
  BY <1>1, <1>2 DEF P!FirstOf
<1>3. CASE S # {}
  <2>1. S \subseteq Nat /\ \A i \in S : i \in 1..Len(l)
    BY <1>1
  <2>2. \E x \in S : \A y \in S : x <= y
    BY <1>3, <2>1, LowestNumber
  <2>3. P!Min(S) \in S /\ \A y \in S : P!Min(S) <= y
    BY <2>2 DEF P!Min
  <2> QED
    BY <1>1, <1>3, <2>1, <2>3 DEF P!FirstOf
<1> QED
  BY <1>2, <1>3

\* A new entry is told from the others.
LEMMA NewIdIs ==
  ASSUME NEW V, NEW T, NEW l \in Seq(Entries(V, T)), NEW n \in Pids
  PROVE  /\ P!NewId(l, n) \in Ids /\ P!NewId(l, n)[1] = n
         /\ \A i \in DOMAIN l : l[i].id # P!NewId(l, n)
<1> DEFINE ids == {0} \cup {l[i].id[2] : i \in DOMAIN l}
           Bounded(m) == \E b \in Nat : \A i \in DOMAIN l : i <= m => l[i].id[2] <= b
           S == {m \in Nat : Bounded(m)}
<1>1. DOMAIN l = 1..Len(l) /\ Len(l) \in Nat /\ \A i \in DOMAIN l : l[i].id[2] \in Nat
  <2>1. DOMAIN l = 1..Len(l) /\ Len(l) \in Nat /\ \A i \in DOMAIN l : l[i] \in Entries(V, T)
    OBVIOUS
  <2>2. \A f \in Entries(V, T) : f.id[2] \in Nat
    BY DEF Entries, Ids
  <2> QED
    BY <2>1, <2>2
<1>2. 0 \in S
  BY <1>1
<1>3. ASSUME NEW m \in Nat, m \in S PROVE m + 1 \in S
  <2>1. PICK b \in Nat : \A i \in DOMAIN l : i <= m => l[i].id[2] <= b
    BY <1>3
  <2>2. CASE m + 1 \in DOMAIN l
    <3> DEFINE c == IF l[m + 1].id[2] > b THEN l[m + 1].id[2] ELSE b
    <3>1. c \in Nat /\ c >= b /\ c >= l[m + 1].id[2]
      BY <1>1, <2>2
    <3> HIDE DEF c
    <3>2. ASSUME NEW i \in DOMAIN l, i <= m + 1 PROVE l[i].id[2] <= c
      <4>1. i = m + 1 \/ i <= m
        BY <1>1, <3>2
      <4>2. l[i].id[2] \in Nat
        BY <1>1
      <4> QED
        BY <2>1, <3>1, <4>1, <4>2
    <3> QED
      BY <3>1, <3>2
  <2>3. CASE m + 1 \notin DOMAIN l
    <3>1. \A i \in DOMAIN l : i <= m + 1 => i <= m
      BY <1>1, <2>3
    <3> QED
      BY <2>1, <3>1
  <2> QED
    BY <2>2, <2>3
<1>4. Len(l) \in S
  <2> HIDE DEF S
  <2> QED
    BY <1>1, <1>2, <1>3, EveryNumber
<1>5. PICK b \in Nat : \A i \in DOMAIN l : l[i].id[2] <= b
  BY <1>1, <1>4
<1>6. ids \subseteq Nat /\ ids # {} /\ \A x \in ids : x <= b
  BY <1>1, <1>5
<1>7. \E x \in ids : \A y \in ids : x >= y
  <2> HIDE DEF ids
  <2> QED
    BY <1>6, GreatestNumber
<1>8. P!Max(ids) \in ids /\ \A y \in ids : P!Max(ids) >= y
  <2> HIDE DEF ids
  <2> QED
    BY <1>7 DEF P!Max
<1>9. P!NewId(l, n) = <<n, 1 + P!Max(ids)>>
  BY DEF P!NewId
<1>10. P!Max(ids) \in Nat
  BY <1>6, <1>8
<1>11. \A i \in DOMAIN l : l[i].id[2] <= P!Max(ids)
  BY <1>1, <1>8
<1> HIDE DEF ids
<1>12. P!NewId(l, n) \in Ids /\ P!NewId(l, n)[1] = n /\ P!NewId(l, n)[2] = 1 + P!Max(ids)
  BY <1>9, <1>10 DEF Ids
<1>13. \A i \in DOMAIN l : l[i].id[2] # P!NewId(l, n)[2]
  BY <1>1, <1>10, <1>11, <1>12
<1> QED
  BY <1>12, <1>13, Zenon

\* A sequence with one more element.
LEMMA InsertIs ==
  ASSUME NEW X, NEW l \in Seq(X), NEW e \in X, NEW k \in 1..(Len(l) + 1)
  PROVE  /\ P!InsertAt(l, k, e) \in Seq(X) /\ Len(P!InsertAt(l, k, e)) = Len(l) + 1
         /\ DOMAIN P!InsertAt(l, k, e) = 1..(Len(l) + 1)
         /\ P!InsertAt(l, k, e)[k] = e
         /\ \A i \in 1..(k - 1) : P!InsertAt(l, k, e)[i] = l[i]
         /\ \A i \in (k + 1)..(Len(l) + 1) : P!InsertAt(l, k, e)[i] = l[i - 1]
<1> DEFINE a == SubSeq(l, 1, k - 1)
           c == SubSeq(l, k, Len(l))
           r == a \o <<e>> \o c
<1>1. Len(l) \in Nat /\ k \in Nat
  OBVIOUS
<1>2. a \in Seq(X) /\ Len(a) = k - 1 /\ \A i \in 1..(k - 1) : a[i] = l[i]
  BY <1>1
<1>3. c \in Seq(X) /\ Len(c) = Len(l) - k + 1 /\ \A i \in 1..(Len(l) - k + 1) : c[i] = l[k + i - 1]
  BY <1>1
<1>4. P!InsertAt(l, k, e) = r
  BY DEF P!InsertAt
<1> HIDE DEF a, c
<1> DEFINE d == a \o <<e>>
<1>5. d \in Seq(X) /\ Len(d) = k /\ d[k] = e /\ \A i \in 1..(k - 1) : d[i] = a[i]
  BY <1>1, <1>2
<1> HIDE DEF d
<1>6. d \o c \in Seq(X) /\ Len(d \o c) = Len(l) + 1
  BY <1>1, <1>3, <1>5
<1>7. \A i \in 1..(Len(l) + 1) : (d \o c)[i] = IF i <= k THEN d[i] ELSE c[i - k]
  BY <1>1, <1>3, <1>5
<1>8. P!InsertAt(l, k, e) = d \o c
  BY <1>4 DEF d
<1>9. \A i \in (k + 1)..(Len(l) + 1) : (d \o c)[i] = l[i - 1]
  <2> TAKE i \in (k + 1)..(Len(l) + 1)
  <2>1. (d \o c)[i] = c[i - k]
    <3>1. i \in 1..(Len(l) + 1) /\ ~(i <= k)
      BY <1>1
    <3> QED
      BY <1>7, <3>1
  <2>2. i - k \in 1..(Len(l) - k + 1) /\ k + (i - k) - 1 = i - 1
    BY <1>1
  <2> QED
    BY <1>3, <2>1, <2>2
<1> QED
  BY <1>1, <1>2, <1>5, <1>6, <1>7, <1>8, <1>9

-----------------------------------------------------------------------------
(* Lists in order.                                                           *)

-----------------------------------------------------------------------------
(* Lists in order.                                                           *)

LEMMA EntryIs ==
  ASSUME PidsOK, NEW V, NEW T, NEW e \in Entries(V, T)
  PROVE  /\ e.id \in Ids /\ e.tgid \in Ids \cup {P!NoEntry} /\ e.pid \in Pids /\ e.pid \in Nat \ {0}
         /\ Kind(e) \in Kinds /\ Kind(e) \in Nat /\ Top(e) \in Nat /\ Top(e) \in Pids
         /\ Kind(e) = 0 <=> e.tgid = P!NoEntry
         /\ e.st \in [0..2 -> V] /\ e.total \in T /\ e.asum \in T
<1>1. /\ e.id \in Ids /\ e.tgid \in Ids \cup {P!NoEntry} /\ e.pid \in Pids
      /\ e.st \in [0..2 -> V] /\ e.total \in T /\ e.asum \in T
  BY DEF Entries
<1>2. e.pid \in Nat \ {0} /\ Pids \subseteq Nat \ {0}
  BY <1>1 DEF PidsOK
<1>3. CASE e.tgid = P!NoEntry
  BY <1>1, <1>2, <1>3 DEF Kind, Kinds, Top, Of
<1>4. CASE e.tgid # P!NoEntry
  <2>1. e.tgid[1] \in Pids
    BY <1>1, <1>4 DEF Ids
  <2>2. Kind(e) = e.tgid[1] /\ Kind(e) # 0
    BY <1>2, <1>4, <2>1 DEF Kind
  <2> QED
    BY <1>1, <1>2, <1>4, <2>1, <2>2 DEF Kinds, Top, Of
<1> QED
  BY <1>3, <1>4

LEMMA BeforeIs ==
  ASSUME PidsOK, NEW V, NEW T, NEW e \in Entries(V, T), NEW f \in Entries(V, T), Before(e, f)
  PROVE  /\ ~(e.pid = f.pid /\ Kind(e) = Kind(f))
         /\ ~Before(f, e)
         /\ \A g \in Entries(V, T) : Before(f, g) => Before(e, g)
<1>1. \A g \in Entries(V, T) : /\ g.pid \in Nat /\ Top(g) \in Nat
                               /\ Top(g) = IF Kind(g) = 0 THEN g.pid ELSE Kind(g)
                               /\ Kind(g) = 0 <=> g.tgid = P!NoEntry
  BY EntryIs, Zenon DEF Top, Of
<1>2. ~(e.pid = f.pid /\ Kind(e) = Kind(f))
  BY <1>1 DEF Before
<1>3. ~Before(f, e)
  BY <1>1 DEF Before
<1>4. ASSUME NEW g \in Entries(V, T), Before(f, g) PROVE Before(e, g)
  BY <1>1, <1>4 DEF Before
<1> QED
  BY <1>2, <1>3, <1>4

\* A list has an entry at most for each number and kind.
LEMMA RowAt ==
  ASSUME PidsOK, NEW V, NEW T, NEW l \in Seq(Entries(V, T)), Ordered(l),
         NEW n, NEW k, NEW i \in Places(l, n, k)
  PROVE  /\ Places(l, n, k) = {i} /\ RowIn(l, n, k) = RowOf(l[i])
         /\ i \in DOMAIN l /\ l[i].pid = n /\ Kind(l[i]) = k
<1>1. DOMAIN l = 1..Len(l) /\ Len(l) \in Nat /\ \A j \in DOMAIN l : l[j] \in Entries(V, T)
  OBVIOUS
<1>2. i \in DOMAIN l /\ l[i].pid = n /\ Kind(l[i]) = k
  BY DEF Places
<1>3. ASSUME NEW j \in Places(l, n, k) PROVE j = i
  <2>1. j \in DOMAIN l /\ l[j].pid = n /\ Kind(l[j]) = k
    BY DEF Places
  <2>2. CASE i < j
    <3>1. Before(l[i], l[j])
      BY <1>2, <2>1, <2>2 DEF Ordered
    <3> QED
      BY <1>1, <1>2, <2>1, <3>1, BeforeIs
  <2>3. CASE j < i
    <3>1. Before(l[j], l[i])
      BY <1>2, <2>1, <2>3 DEF Ordered
    <3> QED
      BY <1>1, <1>2, <2>1, <3>1, BeforeIs
  <2> QED
    BY <1>1, <1>2, <2>1, <2>2, <2>3
<1>4. Places(l, n, k) = {i}
  BY <1>3
<1>5. RowIn(l, n, k) = RowOf(l[i])
  <2>1. (CHOOSE j \in Places(l, n, k) : TRUE) = i
    BY <1>4
  <2> QED
    BY <1>4, <2>1, Zenon DEF RowIn
<1> QED
  BY <1>2, <1>4, <1>5

\* The other way round.
LEMMA RowHas ==
  ASSUME PidsOK, NEW V, NEW T, NEW l \in Seq(Entries(V, T)), Ordered(l), NEW n, NEW k
  PROVE  /\ RowIn(l, n, k) = NoRow <=> Places(l, n, k) = {}
         /\ RowIn(l, n, k).there <=> Places(l, n, k) # {}
         /\ \A i \in DOMAIN l : i \in Places(l, l[i].pid, Kind(l[i]))
<1>3. \A i \in DOMAIN l : i \in Places(l, l[i].pid, Kind(l[i]))
  BY DEF Places
<1>4. ~NoRow.there
  BY DEF NoRow, TaskRow
<1>1. CASE Places(l, n, k) = {}
  <2>1. RowIn(l, n, k) = NoRow
    BY <1>1 DEF RowIn
  <2> QED
    BY <1>1, <1>3, <1>4, <2>1, Zenon
<1>2. CASE Places(l, n, k) # {}
  <2>1. PICK i \in Places(l, n, k) : TRUE
    BY <1>2
  <2>2. RowIn(l, n, k) = RowOf(l[i])
    BY <2>1, RowAt
  <2>3. RowIn(l, n, k).there
    BY <2>2 DEF RowOf, TaskRow
  <2>4. RowIn(l, n, k) # NoRow
    BY <1>4, <2>3, Zenon
  <2> QED
    BY <1>2, <1>3, <2>3, <2>4, Zenon
<1> QED
  BY <1>1, <1>2

\* An entry inserted where it belongs.
LEMMA InsertGood ==
  ASSUME PidsOK, NEW V, NEW T, NEW l \in Seq(Entries(V, T)), GoodList(l),
         NEW e \in Entries(V, T), NEW k \in 1..(Len(l) + 1),
         \A i \in 1..(k - 1) : Before(l[i], e), \A i \in k..Len(l) : Before(e, l[i]),
         \A i \in DOMAIN l : l[i].id # e.id, e.id[1] = e.pid, e.tgid # P!NoEntry => \E j \in DOMAIN l : Leads(l[j], e)
  PROVE  LET r == P!InsertAt(l, k, e)
         IN  /\ r \in Seq(Entries(V, T)) /\ GoodList(r)
             /\ \A n, kd : RowIn(r, n, kd) = IF n = e.pid /\ kd = Kind(e) THEN RowOf(e) ELSE RowIn(l, n, kd)
<1> DEFINE r == P!InsertAt(l, k, e)
<1>1. DOMAIN l = 1..Len(l) /\ Len(l) \in Nat /\ \A i \in DOMAIN l : l[i] \in Entries(V, T)
  OBVIOUS
<1>2. /\ r \in Seq(Entries(V, T)) /\ DOMAIN r = 1..(Len(l) + 1) /\ r[k] = e
      /\ \A i \in 1..(k - 1) : r[i] = l[i]
      /\ \A i \in (k + 1)..(Len(l) + 1) : r[i] = l[i - 1]
  BY InsertIs
<1> HIDE DEF r
<1>3. ASSUME NEW j \in DOMAIN r
      PROVE  \/ j < k /\ j \in 1..(k - 1) /\ j \in DOMAIN l /\ r[j] = l[j]
             \/ j = k /\ r[j] = e
             \/ j > k /\ j - 1 \in k..Len(l) /\ j - 1 \in DOMAIN l /\ r[j] = l[j - 1]
  <2>1. j \in 1..(Len(l) + 1)
    BY <1>2
  <2>2. CASE j < k
    <3>1. j \in 1..(k - 1) /\ j \in DOMAIN l
      BY <1>1, <2>1, <2>2
    <3> QED
      BY <1>2, <2>2, <3>1
  <2>3. CASE j > k
    <3>1. j \in (k + 1)..(Len(l) + 1) /\ j - 1 \in k..Len(l) /\ j - 1 \in DOMAIN l
      BY <1>1, <2>1, <2>3
    <3> QED
      BY <1>2, <2>3, <3>1
  <2>4. CASE j = k
    BY <1>2, <2>4
  <2> QED
    BY <2>1, <2>2, <2>3, <2>4
<1>4. ASSUME NEW i \in DOMAIN l PROVE \E j \in DOMAIN r : r[j] = l[i]
  <2>1. CASE i < k
    <3>1. i \in 1..(k - 1) /\ i \in DOMAIN r
      BY <1>1, <1>2, <2>1
    <3> QED
      BY <1>2, <3>1
  <2>2. CASE i >= k
    <3>1. i + 1 \in (k + 1)..(Len(l) + 1) /\ i + 1 \in DOMAIN r /\ (i + 1) - 1 = i
      BY <1>1, <1>2, <2>2
    <3>2. r[i + 1] = l[i]
      BY <1>2, <3>1
    <3> QED
      BY <3>1, <3>2
  <2> QED
    BY <1>1, <2>1, <2>2
<1>5. Ordered(r)
  <2> SUFFICES ASSUME NEW i \in DOMAIN r, NEW j \in DOMAIN r, i < j PROVE Before(r[i], r[j])
    BY DEF Ordered
  <2>1. \A a, b \in DOMAIN l : a < b => Before(l[a], l[b])
    BY DEF GoodList, Ordered
  <2>2. i \in Nat /\ j \in Nat
    BY <1>1, <1>2
  <2>3. CASE j < k
    <3>1. i < k
      BY <2>2, <2>3
    <3>2. i \in DOMAIN l /\ j \in DOMAIN l /\ r[i] = l[i] /\ r[j] = l[j]
      BY <1>3, <2>2, <2>3, <3>1
    <3> QED
      BY <2>1, <3>2
  <2>4. CASE j = k
    <3>1. i \in 1..(k - 1) /\ r[i] = l[i] /\ r[j] = e
      BY <1>3, <2>2, <2>4
    <3> QED
      BY <3>1
  <2>5. CASE j > k
    <3>1. j - 1 \in k..Len(l) /\ j - 1 \in DOMAIN l /\ r[j] = l[j - 1]
      BY <1>3, <2>2, <2>5
    <3>2. CASE i < k
      <4>1. i \in DOMAIN l /\ r[i] = l[i] /\ i < j - 1
        BY <1>3, <2>2, <2>5, <3>2
      <4> QED
        BY <2>1, <3>1, <4>1
    <3>3. CASE i = k
      <4>1. r[i] = e
        BY <1>3, <3>3
      <4> QED
        BY <3>1, <4>1
    <3>4. CASE i > k
      <4>1. i - 1 \in DOMAIN l /\ r[i] = l[i - 1]
        BY <1>3, <2>2, <3>4
      <4>2. i - 1 < j - 1
        BY <2>2
      <4> QED
        BY <2>1, <3>1, <4>1, <4>2
    <3> QED
      BY <2>2, <3>2, <3>3, <3>4
  <2> QED
    BY <2>2, <2>3, <2>4, <2>5
<1>6. Identified(r)
  <2>5. \A i \in DOMAIN r : r[i].id[1] = r[i].pid
    BY <1>3 DEF GoodList, Identified
  <2> SUFFICES ASSUME NEW i \in DOMAIN r, NEW j \in DOMAIN r, r[i].id = r[j].id PROVE i = j
    BY <2>5 DEF Identified
  <2>1. \A a, b \in DOMAIN l : l[a].id = l[b].id => a = b
    BY DEF GoodList, Identified
  <2>2. i \in Nat /\ j \in Nat
    BY <1>1, <1>2
  <2>3. CASE r[i] = e
    <3>1. r[j] # e => j # k /\ r[j].id # e.id
      BY <1>3
    <3>2. i = k
      BY <1>3, <2>3
    <3> QED
      BY <1>3, <2>3, <3>1, <3>2
  <2>4. CASE r[i] # e
    <3>1. i # k /\ r[i].id # e.id
      BY <1>3, <2>4
    <3>2. j # k
      BY <1>3, <3>1
    <3>3. PICK a \in DOMAIN l : r[i] = l[a] /\ ((i < k /\ a = i) \/ (i > k /\ a = i - 1 /\ a >= k))
      BY <1>3, <2>2, <3>1
    <3>4. PICK b \in DOMAIN l : r[j] = l[b] /\ ((j < k /\ b = j) \/ (j > k /\ b = j - 1 /\ b >= k))
      BY <1>3, <2>2, <3>2
    <3>5. a = b
      BY <2>1, <3>3, <3>4
    <3> QED
      BY <2>2, <3>3, <3>4, <3>5
  <2> QED
    BY <2>3, <2>4
<1>7. Linked(r)
  <2> SUFFICES ASSUME NEW i \in DOMAIN r, r[i].tgid # P!NoEntry PROVE \E j \in DOMAIN r : Leads(r[j], r[i])
    BY DEF Linked
  <2>1. \E a \in DOMAIN l : Leads(l[a], r[i])
    <3>1. CASE r[i] = e
      BY <3>1
    <3>2. CASE r[i] # e
      <4>1. PICK a \in DOMAIN l : r[i] = l[a]
        BY <1>3, <3>2
      <4> QED
        BY <4>1 DEF GoodList, Linked
    <3> QED
      BY <3>1, <3>2
  <2> QED
    BY <1>4, <2>1
<1>8. ASSUME NEW n, NEW kd
      PROVE  RowIn(r, n, kd) = IF n = e.pid /\ kd = Kind(e) THEN RowOf(e) ELSE RowIn(l, n, kd)
  <2>1. CASE n = e.pid /\ kd = Kind(e)
    <3>1. k \in Places(r, n, kd)
      BY <1>2, <2>1 DEF Places
    <3>2. RowIn(r, n, kd) = RowOf(r[k])
      BY <1>2, <1>5, <3>1, RowAt
    <3> QED
      BY <1>2, <2>1, <3>2
  <2>2. CASE ~(n = e.pid /\ kd = Kind(e))
    <3>1. CASE Places(l, n, kd) = {}
      <4>1. ASSUME NEW j \in Places(r, n, kd) PROVE FALSE
        <5>1. j \in DOMAIN r /\ r[j].pid = n /\ Kind(r[j]) = kd
          BY DEF Places
        <5>2. PICK a \in DOMAIN l : r[j] = l[a]
          BY <1>3, <2>2, <5>1
        <5>3. a \in Places(l, n, kd)
          BY <5>1, <5>2 DEF Places
        <5> QED
          BY <3>1, <5>3
      <4>2. Places(r, n, kd) = {}
        BY <4>1
      <4> QED
        BY <2>2, <3>1, <4>2 DEF RowIn
    <3>2. CASE Places(l, n, kd) # {}
      <4>1. PICK a \in Places(l, n, kd) : TRUE
        BY <3>2
      <4>2. RowIn(l, n, kd) = RowOf(l[a]) /\ a \in DOMAIN l /\ l[a].pid = n /\ Kind(l[a]) = kd
        BY <4>1, RowAt DEF GoodList
      <4>3. PICK j \in DOMAIN r : r[j] = l[a]
        BY <1>4, <4>2
      <4>4. j \in Places(r, n, kd)
        BY <4>2, <4>3 DEF Places
      <4>5. RowIn(r, n, kd) = RowOf(r[j])
        BY <1>2, <1>5, <4>4, RowAt
      <4> QED
        BY <2>2, <4>2, <4>3, <4>5
    <3> QED
      BY <3>1, <3>2
  <2> QED
    BY <2>1, <2>2
<1> QED
  BY <1>2, <1>5, <1>6, <1>7, <1>8 DEF r, GoodList

\* The same entries, with other samples.
LEMMA SameEntries ==
  ASSUME PidsOK, NEW V, NEW T, NEW l \in Seq(Entries(V, T)), GoodList(l),
         NEW r, DOMAIN r = DOMAIN l,
         \A i \in DOMAIN l : r[i].id = l[i].id /\ r[i].pid = l[i].pid /\ r[i].tgid = l[i].tgid
  PROVE  GoodList(r) /\ \A n, k : Places(r, n, k) = Places(l, n, k)
<1>1. /\ \A i \in DOMAIN l : Kind(r[i]) = Kind(l[i]) /\ Top(r[i]) = Top(l[i])
      /\ \A i, j \in DOMAIN l : Before(l[i], l[j]) => Before(r[i], r[j])
      /\ \A i, j \in DOMAIN l : Leads(l[i], l[j]) => Leads(r[i], r[j])
  BY Zenon DEF Kind, Top, Before, Leads
<1>2. \A n, k : Places(r, n, k) = Places(l, n, k)
  BY <1>1, Zenon DEF Places
<1>3. Ordered(r)
  BY <1>1, Zenon DEF Ordered, GoodList
<1>4. Identified(r)
  BY <1>1, Zenon DEF Identified, GoodList
<1>5. Linked(r)
  <2> SUFFICES ASSUME NEW i \in DOMAIN r, r[i].tgid # P!NoEntry PROVE \E j \in DOMAIN r : Leads(r[j], r[i])
    BY DEF Linked
  <2>1. i \in DOMAIN l /\ l[i].tgid # P!NoEntry
    OBVIOUS
  <2>2. PICK j \in DOMAIN l : Leads(l[j], l[i])
    BY <2>1 DEF Linked, GoodList
  <2> QED
    BY <1>1, <2>1, <2>2
<1> QED
  BY <1>2, <1>3, <1>4, <1>5 DEF GoodList

\* An entry that is between those before it and those after it is a new one.
LEMMA NewPlace ==
  ASSUME PidsOK, NEW V, NEW T, NEW l \in Seq(Entries(V, T)), GoodList(l),
         NEW e \in Entries(V, T), NEW k \in 1..(Len(l) + 1),
         \A i \in 1..(k - 1) : Before(l[i], e), \A i \in k..Len(l) : Before(e, l[i])
  PROVE  Places(l, e.pid, Kind(e)) = {} /\ RowIn(l, e.pid, Kind(e)) = NoRow
<1>1. DOMAIN l = 1..Len(l) /\ Len(l) \in Nat /\ \A i \in DOMAIN l : l[i] \in Entries(V, T)
  OBVIOUS
<1>2. ASSUME NEW i \in Places(l, e.pid, Kind(e)) PROVE FALSE
  <2>1. i \in DOMAIN l /\ l[i].pid = e.pid /\ Kind(l[i]) = Kind(e)
    BY DEF Places
  <2>2. i \in 1..(k - 1) \/ i \in k..Len(l)
    BY <1>1, <2>1
  <2>3. Before(l[i], e) \/ Before(e, l[i])
    BY <2>2
  <2> QED
    BY <1>1, <2>1, <2>3, BeforeIs
<1>3. Places(l, e.pid, Kind(e)) = {}
  BY <1>2
<1> QED
  BY <1>3 DEF RowIn

\* The process of a thread comes before it.
LEMMA LeaderBefore ==
  ASSUME PidsOK, NEW V, NEW T, NEW l \in Seq(Entries(V, T)), GoodList(l),
         NEW i \in DOMAIN l, l[i].tgid # P!NoEntry
  PROVE  \E j \in DOMAIN l : j < i /\ Leads(l[j], l[i])
<1>1. PICK j \in DOMAIN l : Leads(l[j], l[i])
  BY DEF GoodList, Linked
<1>2. l[j].tgid = P!NoEntry /\ l[j].pid = Kind(l[i])
  BY <1>1 DEF Leads
<1>3. DOMAIN l = 1..Len(l) /\ Len(l) \in Nat /\ l[i] \in Entries(V, T) /\ l[j] \in Entries(V, T)
  OBVIOUS
<1>4. Top(l[i]) = Top(l[j]) /\ Top(l[i]) \in Nat
  BY <1>2, <1>3, EntryIs DEF Top, Of
<1>5. ~Before(l[i], l[j])
  BY <1>2, <1>4 DEF Before
<1>6. i # j
  BY <1>2
<1>7. ~(i < j)
  BY <1>5 DEF GoodList, Ordered
<1> QED
  BY <1>1, <1>3, <1>6, <1>7

Empty(V, T) == P!NoSample \in V /\ 0 \in T

LEMMA NewEntryIs ==
  ASSUME PidsOK, NEW V, NEW T, Empty(V, T), NEW l \in Seq(Entries(V, T)), NEW n \in Pids,
         NEW t \in Ids \cup {P!NoEntry}
  PROVE  LET e == P!Entry(P!NewId(l, n), n, t)
         IN  /\ e \in Entries(V, T) /\ e.pid = n /\ e.id[1] = n /\ e.tgid = t /\ RowOf(e) = Present(NoRow)
             /\ \A i \in DOMAIN l : l[i].id # e.id
<1> DEFINE e == P!Entry(P!NewId(l, n), n, t)
<1>1. e = [id |-> P!NewId(l, n), pid |-> n, tgid |-> t, exist |-> FALSE, st |-> NoStats, total |-> 0, asum |-> 0]
  BY DEF P!Entry, NoStats
<1> HIDE DEF e
<1>2. /\ P!NewId(l, n) \in Ids /\ P!NewId(l, n)[1] = n
      /\ \A i \in DOMAIN l : l[i].id # P!NewId(l, n)
  BY NewIdIs
<1>3. NoStats \in [0..2 -> V]
  BY DEF NoStats, Empty
<1>4. e \in Entries(V, T)
  BY <1>1, <1>2, <1>3 DEF Entries, Empty
<1>5. e.pid = n /\ e.tgid = t /\ e.id = P!NewId(l, n)
  BY <1>1
<1>6. RowOf(e) = Present(NoRow)
  BY <1>1 DEF RowOf, NoRow, TaskRow, Present
<1> QED
  BY <1>2, <1>4, <1>5, <1>6 DEF e

\* What a list holds of a process that is added to it.
LEMMA AddProcessIs ==
  ASSUME PidsOK, NEW V, NEW T, Empty(V, T), NEW l \in Seq(Entries(V, T)), GoodList(l),
         NEW n \in Pids
  PROVE  LET r == P!AddProcess(l, n)
         IN  /\ r \in Seq(Entries(V, T)) /\ GoodList(r)
             /\ \A m, k : RowIn(r, m, k) = IF m = n /\ k = 0 THEN Present(RowIn(l, m, k))
                                           ELSE RowIn(l, m, k)
<1> DEFINE r == P!AddProcess(l, n)
           S == {i \in DOMAIN l : l[i].tgid = P!NoEntry /\ l[i].pid >= n}
           i == P!ProcessPlace(l, n)
           e == P!Entry(P!NewId(l, n), n, P!NoEntry)
<1>1. DOMAIN l = 1..Len(l) /\ Len(l) \in Nat /\ \A j \in DOMAIN l : l[j] \in Entries(V, T)
  OBVIOUS
<1>2. i \in 1..(Len(l) + 1) /\ (i <= Len(l) => i \in S) /\ \A j \in S : i <= j
  <2>1. i = P!FirstOf(S, l) /\ S \subseteq DOMAIN l
    BY DEF P!ProcessPlace
  <2> HIDE DEF S, i
  <2> QED
    BY <2>1, FirstIs
<1>3. r = IF i <= Len(l) /\ l[i].pid = n THEN l ELSE P!InsertAt(l, i, e)
  BY DEF P!AddProcess
<1>4. e \in Entries(V, T) /\ e.pid = n /\ e.id[1] = n /\ e.tgid = P!NoEntry /\ RowOf(e) = Present(NoRow)
      /\ \A j \in DOMAIN l : l[j].id # e.id
  BY NewEntryIs
<1> HIDE DEF e, i, r
<1>5. n \in Nat /\ Top(e) = n /\ Kind(e) = 0
  BY <1>4, EntryIs DEF Top, Of
<1>6. CASE i <= Len(l) /\ l[i].pid = n
  <2>1. i \in DOMAIN l /\ l[i].tgid = P!NoEntry
    BY <1>1, <1>2, <1>6
  <2>2. i \in Places(l, n, 0)
    BY <1>6, <2>1 DEF Places, Kind
  <2>3. RowIn(l, n, 0) = RowOf(l[i])
    BY <2>2, RowAt DEF GoodList
  <2>4. Present(RowOf(l[i])) = RowOf(l[i])
    BY DEF RowOf, TaskRow, Present
  <2>5. r = l
    BY <1>3, <1>6
  <2> QED
    BY <2>3, <2>4, <2>5 DEF r
<1>7. CASE ~(i <= Len(l) /\ l[i].pid = n)
  <2>1. r = P!InsertAt(l, i, e)
    BY <1>3, <1>7
  <2>2. ASSUME NEW j \in 1..(i - 1) PROVE Before(l[j], e)
    <3>1. j \in DOMAIN l /\ j \in Nat /\ j < i /\ i \in Nat /\ l[j] \in Entries(V, T)
      BY <1>1, <1>2
    <3>2. l[j].pid \in Nat /\ Top(l[j]) \in Nat /\ (Kind(l[j]) = 0 <=> l[j].tgid = P!NoEntry)
      BY <3>1, EntryIs
    <3>3. CASE l[j].tgid = P!NoEntry
      <4>1. j \notin S
        BY <1>2, <3>1
      <4>2. l[j].pid < n
        BY <1>5, <3>1, <3>2, <3>3, <4>1
      <4> QED
        BY <1>5, <3>2, <3>3, <4>2 DEF Before, Top, Of
    <3>4. CASE l[j].tgid # P!NoEntry
      <4>1. PICK a \in DOMAIN l : a < j /\ Leads(l[a], l[j])
        BY <3>1, <3>4, LeaderBefore
      <4>2. l[a].tgid = P!NoEntry /\ l[a].pid = Top(l[j])
        BY <3>2, <3>4, <4>1 DEF Leads, Top, Of
      <4>3. a \notin S
        BY <1>1, <1>2, <3>1, <4>1
      <4>4. Top(l[j]) < n
        BY <1>5, <3>2, <4>2, <4>3
      <4> QED
        BY <1>5, <4>4 DEF Before
    <3> QED
      BY <3>3, <3>4
  <2>3. ASSUME NEW j \in i..Len(l) PROVE Before(e, l[j])
    <3>1. i \in S /\ j \in DOMAIN l /\ i \in DOMAIN l /\ l[j] \in Entries(V, T) /\ l[i] \in Entries(V, T)
      BY <1>1, <1>2
    <3>2. l[i].pid # n
      BY <1>1, <1>2, <1>7
    <3>3. Top(l[i]) \in Nat /\ Top(l[j]) \in Nat
      BY <3>1, EntryIs
    <3>4. n < Top(l[i])
      BY <1>5, <3>1, <3>2, <3>3, EntryIs DEF Top, Of
    <3>5. i = j \/ Before(l[i], l[j])
      BY <1>1, <1>2, <3>1 DEF GoodList, Ordered
    <3>6. Top(l[i]) <= Top(l[j])
      BY <3>3, <3>5 DEF Before
    <3>7. n < Top(l[j])
      BY <1>5, <3>3, <3>4, <3>6
    <3> QED
      BY <1>5, <3>7 DEF Before
  <2>4. RowIn(l, n, 0) = NoRow
    BY <1>2, <1>4, <1>5, <2>2, <2>3, NewPlace
  <2>5. /\ r \in Seq(Entries(V, T)) /\ GoodList(r)
        /\ \A m, k : RowIn(r, m, k) = IF m = e.pid /\ k = Kind(e) THEN RowOf(e) ELSE RowIn(l, m, k)
    BY <1>2, <1>4, <2>1, <2>2, <2>3, InsertGood
  <2> QED
    BY <1>4, <1>5, <2>4, <2>5 DEF r
<1> QED
  BY <1>6, <1>7

\* No entry of task p as a thread of another process.
Alone(l, p) == \A k \in Pids \ {p} : ~RowIn(l, p, k).there

\* The first entry with the number of a process is that of the process.
LEMMA LeaderIs ==
  ASSUME PidsOK, NEW V, NEW T, NEW l \in Seq(Entries(V, T)), GoodList(l),
         NEW p \in Pids, Alone(l, p), RowIn(l, p, 0).there
  PROVE  /\ P!LeaderOf(l, p) \in DOMAIN l
         /\ l[P!LeaderOf(l, p)].pid = p /\ l[P!LeaderOf(l, p)].tgid = P!NoEntry
         /\ Places(l, p, 0) = {P!LeaderOf(l, p)}
<1> DEFINE S == {i \in DOMAIN l : l[i].pid = p}
           i == P!LeaderOf(l, p)
<1>1. DOMAIN l = 1..Len(l) /\ Len(l) \in Nat /\ \A j \in DOMAIN l : l[j] \in Entries(V, T)
  OBVIOUS
<1>2. i \in 1..(Len(l) + 1) /\ (i <= Len(l) => i \in S) /\ \A j \in S : i <= j
  <2>1. i = P!FirstOf(S, l) /\ S \subseteq DOMAIN l
    BY DEF P!LeaderOf
  <2> HIDE DEF S, i
  <2> QED
    BY <2>1, FirstIs
<1> HIDE DEF i
<1>3. PICK a \in Places(l, p, 0) : TRUE
  BY RowHas DEF GoodList
<1>4. a \in DOMAIN l /\ l[a].pid = p /\ Kind(l[a]) = 0 /\ Places(l, p, 0) = {a}
  BY RowAt DEF GoodList
<1>5. l[a].tgid = P!NoEntry
  BY <1>1, <1>4, EntryIs
<1>6. i \in DOMAIN l /\ l[i].pid = p /\ i <= a
  BY <1>1, <1>2, <1>4
<1>7. i = a
  <2> SUFFICES ASSUME i < a PROVE FALSE
    BY <1>1, <1>4, <1>6
  <2>1. Before(l[i], l[a])
    BY <1>4, <1>6 DEF GoodList, Ordered
  <2>4. Kind(l[i]) \in {0, p}
    <3>1. Kind(l[i]) \in Kinds
      BY <1>1, <1>6, EntryIs
    <3>2. i \in Places(l, p, Kind(l[i]))
      BY <1>6 DEF Places
    <3>3. RowIn(l, p, Kind(l[i])).there
      BY <3>2, RowHas DEF GoodList
    <3> QED
      BY <3>1, <3>3 DEF Alone, Kinds
  <2>2. Top(l[i]) = p /\ Top(l[a]) = p
    BY <1>4, <1>6, <2>4 DEF Top, Of
  <2>3. p \in Nat
    BY DEF PidsOK
  <2> QED
    BY <1>5, <2>1, <2>2, <2>3 DEF Before
<1> QED
  BY <1>4, <1>5, <1>6, <1>7 DEF i

\* The place of a thread among those of its process: it is there, or is to be
\* inserted there.
LEMMA ThreadPlaceIs ==
  ASSUME PidsOK, NEW V, NEW T, NEW l \in Seq(Entries(V, T)), GoodList(l),
         NEW n \in Pids, NEW p \in Pids, Alone(l, p), RowIn(l, p, 0).there
  PROVE  LET i == P!LeaderOf(l, p)
             k == P!ThreadPlace(l, n, p)
         IN  /\ k \in 1..(Len(l) + 1)
             /\ P!IsThread(l, n, p, k) => k \in Places(l, n, p)
             /\ ~P!IsThread(l, n, p, k) =>
                  \A e \in Entries(V, T) : e.pid = n /\ e.tgid = l[i].id =>
                    /\ \A j \in 1..(k - 1) : Before(l[j], e)
                    /\ \A j \in k..Len(l) : Before(e, l[j])
<1> DEFINE i == P!LeaderOf(l, p)
           k == P!ThreadPlace(l, n, p)
           S == {j \in DOMAIN l : j > i /\ (l[j].tgid # l[i].id \/ l[j].pid >= n)}
<1>1. DOMAIN l = 1..Len(l) /\ Len(l) \in Nat /\ \A j \in DOMAIN l : l[j] \in Entries(V, T)
  OBVIOUS
<1>2. k \in 1..(Len(l) + 1) /\ (k <= Len(l) => k \in S) /\ \A j \in S : k <= j
  <2>1. k = P!FirstOf(S, l) /\ S \subseteq DOMAIN l
    BY DEF P!ThreadPlace
  <2> HIDE DEF S, k
  <2> QED
    BY <2>1, FirstIs
<1>3. i \in DOMAIN l /\ l[i].pid = p /\ l[i].tgid = P!NoEntry /\ Places(l, p, 0) = {i}
  BY LeaderIs
<1>4. P!IsThread(l, n, p, k) <=> k <= Len(l) /\ l[k].tgid = l[i].id /\ l[k].pid = n
  BY DEF P!IsThread
<1> HIDE DEF i, k
<1>5. /\ \A j \in DOMAIN l : /\ l[j].id # P!NoEntry /\ l[j].id[1] = l[j].pid /\ l[j].pid \in Nat
                             /\ (Kind(l[j]) = 0 <=> l[j].tgid = P!NoEntry)
                             /\ Top(l[j]) \in Nat /\ j \in Nat
      /\ n \in Nat /\ p \in Nat /\ i \in Nat
  <2>1. \A j \in DOMAIN l : l[j].id \in Ids /\ l[j].id # P!NoEntry
    BY <1>1, EntryIs DEF PidsOK, Ids, P!NoEntry
  <2>2. \A j \in DOMAIN l : l[j].id[1] = l[j].pid
    BY DEF GoodList, Identified
  <2> QED
    BY <1>1, <1>3, <2>1, <2>2, EntryIs DEF PidsOK
<1>6. ASSUME NEW j \in DOMAIN l, l[j].tgid # P!NoEntry, l[j].tgid = l[i].id \/ Top(l[j]) = p
      PROVE  l[j].tgid = l[i].id /\ Top(l[j]) = p /\ i < j
  <2>1. PICK a \in DOMAIN l : a < j /\ Leads(l[a], l[j])
    BY <1>6, LeaderBefore
  <2>2. l[a].tgid = P!NoEntry /\ l[a].pid = Top(l[j]) /\ l[a].id = l[j].tgid
    BY <1>5, <1>6, <2>1 DEF Leads, Top, Of
  <2>3. CASE l[j].tgid = l[i].id
    <3>1. a = i
      BY <1>3, <2>2, <2>3 DEF GoodList, Identified
    <3> QED
      BY <1>3, <2>1, <2>2, <2>3, <3>1
  <2>4. CASE Top(l[j]) = p
    <3>1. a \in Places(l, p, 0)
      BY <1>5, <2>2, <2>4 DEF Places
    <3>2. a = i
      BY <1>3, <3>1
    <3> QED
      BY <2>1, <2>2, <2>4, <3>2
  <2> QED
    BY <1>6, <2>3, <2>4
<1>7. ASSUME P!IsThread(l, n, p, k) PROVE k \in Places(l, n, p)
  <2>1. k \in DOMAIN l /\ l[k].tgid = l[i].id /\ l[k].pid = n
    BY <1>1, <1>2, <1>4, <1>7
  <2>2. l[k].tgid # P!NoEntry /\ l[k].tgid[1] = p
    BY <1>3, <1>5, <2>1
  <2> QED
    BY <2>1, <2>2 DEF Places, Kind
<1>8. ASSUME ~P!IsThread(l, n, p, k), NEW e \in Entries(V, T), e.pid = n, e.tgid = l[i].id
      PROVE  /\ \A j \in 1..(k - 1) : Before(l[j], e)
             /\ \A j \in k..Len(l) : Before(e, l[j])
  <2>1. Top(e) = p /\ e.tgid # P!NoEntry
    BY <1>3, <1>5, <1>8, EntryIs DEF Top, Of, Kind
  <2>2. Before(l[i], e)
    BY <1>3, <1>5, <2>1 DEF Before, Top, Of
  <2>3. ASSUME NEW j \in 1..(k - 1) PROVE Before(l[j], e)
    <3>1. j \in DOMAIN l /\ j < k /\ k \in Nat
      BY <1>1, <1>2
    <3>2. j \notin S
      BY <1>2, <1>5, <3>1
    <3>3. CASE j < i
      <4>1. Before(l[j], l[i])
        BY <1>3, <3>1, <3>3 DEF GoodList, Ordered
      <4> QED
        BY <1>1, <1>3, <2>2, <3>1, <4>1, BeforeIs
    <3>4. CASE j = i
      BY <2>2, <3>4
    <3>5. CASE j > i
      <4>1. l[j].tgid = l[i].id /\ l[j].pid < n
        BY <1>5, <3>1, <3>2, <3>5
      <4>2. l[j].tgid # P!NoEntry
        BY <1>3, <1>5, <4>1
      <4>3. Top(l[j]) = p
        BY <1>6, <3>1, <4>1, <4>2
      <4> QED
        BY <1>8, <2>1, <4>1, <4>3 DEF Before
    <3> QED
      BY <1>5, <3>1, <3>3, <3>4, <3>5
  <2>4. ASSUME k <= Len(l) PROVE Before(e, l[k])
    <3>1. k \in S /\ k \in DOMAIN l /\ k > i
      BY <1>2, <2>4
    <3>2. CASE l[k].tgid = l[i].id
      <4>1. l[k].pid > n
        BY <1>4, <1>5, <1>8, <2>4, <3>1, <3>2
      <4>2. l[k].tgid # P!NoEntry
        BY <1>3, <1>5, <3>2
      <4>3. Top(l[k]) = p
        BY <1>6, <3>1, <3>2, <4>2
      <4> QED
        BY <1>8, <2>1, <4>1, <4>2, <4>3 DEF Before
    <3>3. CASE l[k].tgid # l[i].id
      <4>1. Before(l[i], l[k])
        BY <1>3, <1>5, <3>1 DEF GoodList, Ordered
      <4>2. Top(l[i]) = p
        BY <1>3, <1>5 DEF Top, Of
      <4>3. ~(l[k].tgid # P!NoEntry /\ Top(l[k]) = p)
        BY <1>6, <3>1, <3>3
      <4>4. p < Top(l[k])
        BY <4>1, <4>2, <4>3 DEF Before
      <4> QED
        BY <2>1, <4>4 DEF Before
    <3> QED
      BY <3>2, <3>3
  <2>5. ASSUME NEW j \in k..Len(l) PROVE Before(e, l[j])
    <3>1. k <= Len(l) /\ j \in DOMAIN l /\ k \in DOMAIN l
      BY <1>1, <1>2
    <3>2. Before(e, l[k])
      BY <2>4, <3>1
    <3>3. k = j \/ Before(l[k], l[j])
      BY <1>5, <3>1 DEF GoodList, Ordered
    <3> QED
      BY <1>1, <3>1, <3>2, <3>3, BeforeIs
  <2> QED
    BY <2>3, <2>5
<1> QED
  BY <1>2, <1>7, <1>8 DEF i, k

\* What a list holds of a thread that is added to it, and where.
LEMMA AddThreadIs ==
  ASSUME PidsOK, NEW V, NEW T, Empty(V, T), NEW l \in Seq(Entries(V, T)), GoodList(l),
         NEW n \in Pids, NEW p \in Pids, Alone(l, p), RowIn(l, p, 0).there
  PROVE  LET r == P!AddThread(l, n, p)
         IN  /\ r \in Seq(Entries(V, T)) /\ GoodList(r)
             /\ \A m, k : RowIn(r, m, k) = IF m = n /\ k = p THEN Present(RowIn(l, m, k))
                                           ELSE RowIn(l, m, k)
             /\ P!ThreadPlace(r, n, p) \in Places(r, n, p) /\ Alone(r, p)
<1> DEFINE r == P!AddThread(l, n, p)
           i == P!LeaderOf(l, p)
           k == P!ThreadPlace(l, n, p)
           e == P!Entry(P!NewId(l, n), n, l[i].id)
<1>1. DOMAIN l = 1..Len(l) /\ Len(l) \in Nat /\ \A j \in DOMAIN l : l[j] \in Entries(V, T)
  OBVIOUS
<1>2. i \in DOMAIN l /\ l[i].pid = p /\ l[i].tgid = P!NoEntry
      /\ l[i].id \in Ids /\ l[i].id # P!NoEntry /\ l[i].id[1] = p
  <2>1. i \in DOMAIN l /\ l[i].pid = p /\ l[i].tgid = P!NoEntry
    BY LeaderIs
  <2>2. l[i].id \in Ids
    BY <1>1, <2>1, EntryIs
  <2>3. l[i].id[1] = p
    BY <2>1 DEF GoodList, Identified
  <2> QED
    BY <2>1, <2>2, <2>3 DEF PidsOK, Ids, P!NoEntry
<1>3. r = IF P!IsThread(l, n, p, k) THEN l ELSE P!InsertAt(l, k, e)
  BY DEF P!AddThread
<1>4. e \in Entries(V, T) /\ e.pid = n /\ e.id[1] = n /\ e.tgid = l[i].id /\ RowOf(e) = Present(NoRow)
      /\ \A j \in DOMAIN l : l[j].id # e.id
  BY <1>2, NewEntryIs
<1>5. /\ k \in 1..(Len(l) + 1)
      /\ P!IsThread(l, n, p, k) => k \in Places(l, n, p)
      /\ ~P!IsThread(l, n, p, k) => /\ \A j \in 1..(k - 1) : Before(l[j], e)
                                    /\ \A j \in k..Len(l) : Before(e, l[j])
  BY <1>4, ThreadPlaceIs
<1> HIDE DEF e, i, k, r
<1>6. e.tgid # P!NoEntry /\ Kind(e) = p /\ Leads(l[i], e)
  BY <1>2, <1>4 DEF Kind, Leads
<1>7. /\ r \in Seq(Entries(V, T)) /\ GoodList(r)
      /\ \A m, kd : RowIn(r, m, kd) = IF m = n /\ kd = p THEN Present(RowIn(l, m, kd)) ELSE RowIn(l, m, kd)
  <2>1. CASE P!IsThread(l, n, p, k)
    <3>1. k \in Places(l, n, p)
      BY <1>5, <2>1
    <3>2. RowIn(l, n, p) = RowOf(l[k])
      BY <3>1, RowAt DEF GoodList
    <3>3. Present(RowOf(l[k])) = RowOf(l[k])
      BY DEF Present, RowOf, TaskRow
    <3>4. r = l
      BY <1>3, <2>1
    <3> QED
      BY <3>2, <3>3, <3>4
  <2>2. CASE ~P!IsThread(l, n, p, k)
    <3>1. r = P!InsertAt(l, k, e)
      BY <1>3, <2>2
    <3>2. RowIn(l, n, p) = NoRow
      BY <1>4, <1>5, <1>6, <2>2, NewPlace
    <3>4. \E j \in DOMAIN l : Leads(l[j], e)
      BY <1>2, <1>6
    <3>5. k \in 1..(Len(l) + 1) /\ \A j \in 1..(k - 1) : Before(l[j], e)
      BY <1>5, <2>2
    <3>6. \A j \in k..Len(l) : Before(e, l[j])
      BY <1>5, <2>2
    <3>3. /\ r \in Seq(Entries(V, T)) /\ GoodList(r)
          /\ \A m, kd : RowIn(r, m, kd) = IF m = e.pid /\ kd = Kind(e) THEN RowOf(e) ELSE RowIn(l, m, kd)
      BY <1>4, <3>1, <3>4, <3>5, <3>6, InsertGood
    <3> QED
      BY <1>4, <1>6, <3>2, <3>3
  <2> QED
    BY <2>1, <2>2
<1>9. Alone(r, p)
  BY <1>7 DEF Alone
<1>8. P!ThreadPlace(r, n, p) \in Places(r, n, p)
  <2> DEFINE h == P!LeaderOf(r, p)
             q == P!ThreadPlace(r, n, p)
  <2>1. RowIn(r, p, 0).there /\ RowIn(r, n, p).there
    BY <1>7 DEF Present, TaskRow
  <2>2. h \in DOMAIN r /\ r[h].id \in Ids /\ r[h].id # P!NoEntry /\ r[h].id[1] = p
    <3>1. h \in DOMAIN r /\ r[h].pid = p
      BY <1>7, <1>9, <2>1, LeaderIs
    <3>2. r[h] \in Entries(V, T)
      BY <1>7, <3>1
    <3>3. r[h].id \in Ids
      BY <3>1, <3>2, EntryIs
    <3>4. r[h].id[1] = p
      BY <1>7, <3>1 DEF GoodList, Identified
    <3> QED
      BY <3>1, <3>3, <3>4 DEF PidsOK, Ids, P!NoEntry
  <2>3. /\ q \in 1..(Len(r) + 1)
        /\ P!IsThread(r, n, p, q) => q \in Places(r, n, p)
        /\ ~P!IsThread(r, n, p, q) =>
             \A f \in Entries(V, T) : f.pid = n /\ f.tgid = r[h].id =>
                    /\ \A j \in 1..(q - 1) : Before(r[j], f)
                    /\ \A j \in q..Len(r) : Before(f, r[j])
    BY <1>7, <1>9, <2>1, ThreadPlaceIs
  <2> DEFINE f == P!Entry(P!NewId(r, n), n, r[h].id)
  <2>4. f \in Entries(V, T) /\ f.pid = n /\ f.tgid = r[h].id
    BY <1>7, <2>2, NewEntryIs
  <2> HIDE DEF f, h, q
  <2>5. Kind(f) = p
    BY <2>2, <2>4 DEF Kind
  <2>6. ASSUME ~P!IsThread(r, n, p, q) PROVE FALSE
    <3>1. Places(r, f.pid, Kind(f)) = {}
      BY <1>7, <2>3, <2>4, <2>6, NewPlace
    <3>2. Places(r, n, p) # {}
      BY <1>7, <2>1, RowHas DEF GoodList
    <3> QED
      BY <2>4, <2>5, <3>1, <3>2
  <2> QED
    BY <2>3, <2>6 DEF q
<1> QED
  BY <1>7, <1>8, <1>9 DEF r

\* The rows of lists that have the same entries in the same places.
LEMMA SameRows ==
  ASSUME PidsOK, NEW V, NEW T, NEW l \in Seq(Entries(V, T)), GoodList(l),
         NEW V2, NEW T2, NEW r \in Seq(Entries(V2, T2)), DOMAIN r = DOMAIN l,
         \A i \in DOMAIN l : r[i].id = l[i].id /\ r[i].pid = l[i].pid /\ r[i].tgid = l[i].tgid
  PROVE  /\ GoodList(r)
         /\ \A n, k : \/ RowIn(l, n, k) = NoRow /\ RowIn(r, n, k) = NoRow
                      \/ \E i \in DOMAIN l : /\ Places(l, n, k) = {i} /\ l[i].pid = n /\ Kind(l[i]) = k
                                             /\ RowIn(l, n, k) = RowOf(l[i]) /\ RowIn(r, n, k) = RowOf(r[i])
<1>1. GoodList(r) /\ \A n, k : Places(r, n, k) = Places(l, n, k)
  BY SameEntries
<1>2. ASSUME NEW n, NEW k, Places(l, n, k) = {} PROVE RowIn(l, n, k) = NoRow /\ RowIn(r, n, k) = NoRow
  BY <1>1, <1>2 DEF RowIn
<1>3. ASSUME NEW n, NEW k, NEW i \in Places(l, n, k)
      PROVE  /\ i \in DOMAIN l /\ Places(l, n, k) = {i} /\ l[i].pid = n /\ Kind(l[i]) = k
             /\ RowIn(l, n, k) = RowOf(l[i]) /\ RowIn(r, n, k) = RowOf(r[i])
  <2>1. i \in Places(r, n, k)
    BY <1>1
  <2> QED
    BY <1>1, <2>1, RowAt DEF GoodList
<1> QED
  BY <1>1, <1>2, <1>3

Filled(row, c, s) == TaskRow(TRUE, TRUE, [row.st EXCEPT ![c] = s], row.total, row.asum)
Unset(row) == TaskRow(row.there, FALSE, row.st, row.total, row.asum)

WithSample(e, c, s) == [e EXCEPT !.exist = TRUE, !.st[c] = s]

\* An entry with another sample, or marked as that of a task not found yet.
LEMMA FilledEntry ==
  ASSUME NEW V, NEW T, NEW e \in Entries(V, T), NEW c \in 0..2, NEW s \in V
  PROVE  LET f == WithSample(e, c, s)
         IN  /\ f \in Entries(V, T) /\ f.id = e.id /\ f.pid = e.pid /\ f.tgid = e.tgid
             /\ RowOf(f) = Filled(RowOf(e), c, s)
<1> DEFINE f == [e EXCEPT !.exist = TRUE, !.st[c] = s]
<1>1. f \in Entries(V, T)
  BY DEF Entries
<1>2. f.id = e.id /\ f.pid = e.pid /\ f.tgid = e.tgid
  BY DEF Entries
<1>3. f.exist = TRUE /\ f.total = e.total /\ f.asum = e.asum
  BY DEF Entries
<1>4. f.st = [e.st EXCEPT ![c] = s]
  BY DEF Entries
<1> HIDE DEF f
<1>5. RowOf(e).st = e.st /\ RowOf(e).total = e.total /\ RowOf(e).asum = e.asum
  BY DEF RowOf, TaskRow
<1>6. RowOf(f) = Filled(RowOf(e), c, s)
  BY <1>3, <1>4, <1>5 DEF RowOf, Filled
<1> QED
  BY <1>1, <1>2, <1>6 DEF f, WithSample

LEMMA UnsetEntry ==
  ASSUME NEW V, NEW T, NEW e \in Entries(V, T)
  PROVE  LET f == [e EXCEPT !.exist = FALSE]
         IN  /\ f \in Entries(V, T) /\ f.id = e.id /\ f.pid = e.pid /\ f.tgid = e.tgid
             /\ RowOf(f) = Unset(RowOf(e))
<1> DEFINE f == [e EXCEPT !.exist = FALSE]
<1>1. f \in Entries(V, T)
  BY DEF Entries
<1>2. f.id = e.id /\ f.pid = e.pid /\ f.tgid = e.tgid
  BY DEF Entries
<1>3. f.exist = FALSE /\ f.total = e.total /\ f.asum = e.asum /\ f.st = e.st
  BY DEF Entries
<1> HIDE DEF f
<1>4. RowOf(f) = Unset(RowOf(e))
  BY <1>3 DEF RowOf, Unset, TaskRow
<1> QED
  BY <1>1, <1>2, <1>4 DEF f

\* What a list holds of a task once it has been read.
LEMMA FillIs ==
  ASSUME PidsOK, NEW V, NEW T, NEW l \in Seq(Entries(V, T)), GoodList(l),
         NEW n \in Pids, NEW q, NEW k \in Places(l, n, q), NEW c \in 0..2, NEW b, P!Sampled(n, b) \in V
  PROVE  LET r == P!Fill(l, k, c, b)
         IN  /\ r \in Seq(Entries(V, T)) /\ GoodList(r)
             /\ \A m, kd : RowIn(r, m, kd) = IF m = n /\ kd = q THEN Filled(RowIn(l, m, kd), c, P!Sampled(n, b))
                                             ELSE RowIn(l, m, kd)
<1> DEFINE r == P!Fill(l, k, c, b)
           e == [l[k] EXCEPT !.exist = TRUE, !.st[c] = P!Sampled(n, b)]
<1>1. DOMAIN l = 1..Len(l) /\ Len(l) \in Nat /\ \A j \in DOMAIN l : l[j] \in Entries(V, T)
  OBVIOUS
<1>2. k \in DOMAIN l /\ l[k].pid = n /\ Kind(l[k]) = q
  BY DEF Places
<1>5. /\ e \in Entries(V, T) /\ e.id = l[k].id /\ e.pid = l[k].pid /\ e.tgid = l[k].tgid
      /\ RowOf(e) = Filled(RowOf(l[k]), c, P!Sampled(n, b))
  <2>1. l[k] \in Entries(V, T)
    BY <1>1, <1>2
  <2>2. e = WithSample(l[k], c, P!Sampled(n, b))
    BY DEF WithSample
  <2> HIDE DEF e
  <2> QED
    BY <2>1, <2>2, FilledEntry
<1>4. r = [i \in DOMAIN l |-> IF i # k THEN l[i] ELSE e]
  <2>1. r = [i \in DOMAIN l |-> IF i # k THEN l[i] ELSE [l[i] EXCEPT !.exist = TRUE, !.st[c] = P!Sampled(l[i].pid, b)]]
    BY DEF P!Fill
  <2>2. \A i \in DOMAIN l : i = k => [l[i] EXCEPT !.exist = TRUE, !.st[c] = P!Sampled(l[i].pid, b)] = e
    BY <1>2
  <2> HIDE DEF e, r
  <2> QED
    BY <2>1, <2>2
<1> HIDE DEF e, r
<1>7. r \in Seq(Entries(V, T)) /\ DOMAIN r = DOMAIN l /\ r[k] = e /\ \A i \in DOMAIN l : i # k => r[i] = l[i]
  <2>1. DOMAIN r = 1..Len(l) /\ \A i \in DOMAIN l : r[i] = IF i # k THEN l[i] ELSE e
    BY <1>1, <1>4
  <2>2. r = [i \in 1..Len(l) |-> IF i # k THEN l[i] ELSE e]
    BY <1>1, <1>4
  <2>3. \A i \in 1..Len(l) : (IF i # k THEN l[i] ELSE e) \in Entries(V, T)
    BY <1>1, <1>5
  <2>4. r \in Seq(Entries(V, T))
    BY <1>1, <2>2, <2>3
  <2> QED
    BY <1>1, <1>2, <2>1, <2>4
<1>8. \A i \in DOMAIN l : r[i].id = l[i].id /\ r[i].pid = l[i].pid /\ r[i].tgid = l[i].tgid
  BY <1>5, <1>7
<1>9. /\ GoodList(r)
      /\ \A m, kd : \/ RowIn(l, m, kd) = NoRow /\ RowIn(r, m, kd) = NoRow
                    \/ \E i \in DOMAIN l : /\ Places(l, m, kd) = {i} /\ l[i].pid = m /\ Kind(l[i]) = kd
                                           /\ RowIn(l, m, kd) = RowOf(l[i]) /\ RowIn(r, m, kd) = RowOf(r[i])
  BY <1>7, <1>8, SameRows
<1>10. /\ RowIn(l, n, q) = RowOf(l[k]) /\ Places(l, n, q) = {k}
       /\ RowIn(l, n, q) # NoRow
  <2>1. RowIn(l, n, q) = RowOf(l[k]) /\ Places(l, n, q) = {k}
    BY RowAt DEF GoodList
  <2>2. RowOf(l[k]).there /\ ~NoRow.there
    BY DEF RowOf, NoRow, TaskRow
  <2> QED
    BY <2>1, <2>2, Zenon
<1>12. ASSUME NEW m, NEW kd
       PROVE  RowIn(r, m, kd) = IF m = n /\ kd = q THEN Filled(RowIn(l, m, kd), c, P!Sampled(n, b))
                                ELSE RowIn(l, m, kd)
  <2>1. CASE m = n /\ kd = q
    <3>4. \/ RowIn(l, n, q) = NoRow
          \/ \E i \in DOMAIN l : Places(l, n, q) = {i} /\ RowIn(r, n, q) = RowOf(r[i])
      <4>1. \A m2, kd2 : \/ RowIn(l, m2, kd2) = NoRow
                         \/ \E i \in DOMAIN l : Places(l, m2, kd2) = {i} /\ RowIn(r, m2, kd2) = RowOf(r[i])
        BY <1>9
      <4> QED
        BY <4>1
    <3>2. PICK i \in DOMAIN l : Places(l, n, q) = {i} /\ RowIn(r, n, q) = RowOf(r[i])
      BY <1>10, <3>4
    <3>3. i = k
      BY <1>10, <3>2
    <3>1. RowIn(r, n, q) = RowOf(r[k])
      BY <3>2, <3>3, Zenon
    <3> QED
      BY <1>5, <1>7, <1>10, <2>1, <3>1
  <2>2. CASE ~(m = n /\ kd = q)
    <3>1. ASSUME NEW i \in DOMAIN l, Places(l, m, kd) = {i}, l[i].pid = m, Kind(l[i]) = kd PROVE r[i] = l[i]
      BY <1>2, <1>7, <2>2, <3>1
    <3>2. RowIn(r, m, kd) = RowIn(l, m, kd)
      BY <1>9, <3>1
    <3> QED
      BY <2>2, <3>2
  <2> QED
    BY <2>1, <2>2
<1> QED
  BY <1>7, <1>9, <1>12 DEF r

\* All the entries marked as those of tasks not found yet.
LEMMA NonexistentIs ==
  ASSUME PidsOK, NEW V, NEW T, NEW l \in Seq(Entries(V, T)), GoodList(l)
  PROVE  LET r == P!Nonexistent(l)
         IN  /\ r \in Seq(Entries(V, T)) /\ GoodList(r)
             /\ \A m, kd : RowIn(r, m, kd) = Unset(RowIn(l, m, kd))
<1> DEFINE r == P!Nonexistent(l)
           e(i) == [l[i] EXCEPT !.exist = FALSE]
<1>1. DOMAIN l = 1..Len(l) /\ Len(l) \in Nat /\ \A j \in DOMAIN l : l[j] \in Entries(V, T)
  OBVIOUS
<1>2. ASSUME NEW i \in DOMAIN l PROVE e(i) \in Entries(V, T)
  BY <1>1, UnsetEntry
<1>3. r = [i \in DOMAIN l |-> e(i)]
  BY DEF P!Nonexistent
<1>4. \A i \in DOMAIN l : /\ e(i).id = l[i].id /\ e(i).pid = l[i].pid /\ e(i).tgid = l[i].tgid
                          /\ RowOf(e(i)) = Unset(RowOf(l[i]))
  <2> SUFFICES ASSUME NEW i \in DOMAIN l
               PROVE  /\ e(i).id = l[i].id /\ e(i).pid = l[i].pid /\ e(i).tgid = l[i].tgid
                      /\ RowOf(e(i)) = Unset(RowOf(l[i]))
    OBVIOUS
  <2>1. l[i] \in Entries(V, T)
    BY <1>1
  <2> QED
    BY <2>1, UnsetEntry
<1> HIDE DEF e, r
<1>5. DOMAIN r = DOMAIN l /\ \A i \in DOMAIN l : r[i] = e(i)
  BY <1>3
<1>6. r \in Seq(Entries(V, T))
  <2>1. r = [i \in 1..Len(l) |-> e(i)]
    BY <1>1, <1>2, <1>3
  <2>2. \A i \in 1..Len(l) : e(i) \in Entries(V, T)
    BY <1>1, <1>2
  <2> QED
    BY <1>1, <2>1, <2>2
<1>7. \A i \in DOMAIN l : r[i].id = l[i].id /\ r[i].pid = l[i].pid /\ r[i].tgid = l[i].tgid
  BY <1>4, <1>5
<1>8. /\ GoodList(r)
      /\ \A m, kd : \/ RowIn(l, m, kd) = NoRow /\ RowIn(r, m, kd) = NoRow
                    \/ \E i \in DOMAIN l : RowIn(l, m, kd) = RowOf(l[i]) /\ RowIn(r, m, kd) = RowOf(r[i])
  BY <1>5, <1>6, <1>7, SameRows
<1>9. Unset(NoRow) = NoRow
  BY DEF Unset, NoRow, TaskRow
<1>10. ASSUME NEW m, NEW kd PROVE RowIn(r, m, kd) = Unset(RowIn(l, m, kd))
  <2>1. CASE RowIn(l, m, kd) = NoRow /\ RowIn(r, m, kd) = NoRow
    BY <1>9, <2>1
  <2>2. ASSUME NEW i \in DOMAIN l, RowIn(l, m, kd) = RowOf(l[i]), RowIn(r, m, kd) = RowOf(r[i])
        PROVE  RowIn(r, m, kd) = Unset(RowIn(l, m, kd))
    BY <1>4, <1>5, <2>2
  <2> QED
    BY <1>8, <2>1, <2>2
<1> QED
  BY <1>6, <1>8, <1>10 DEF r

-----------------------------------------------------------------------------
(* The loops.                                                                *)

\* sfree_pid() keeps the entries that exist, and threads have their process.
LEMMA FreeUnusedIs ==
  ASSUME PidsOK, NEW V, NEW T, NEW l \in Seq(Entries(V, T)), GoodList(l),
         \A n \in Pids, q \in Pids : RowIn(l, n, q).exist => RowIn(l, q, 0).exist
  PROVE  LET r == P!FreeUnused(l)
         IN  /\ r \in Seq(Entries(V, T)) /\ GoodList(r)
             /\ \A m, kd : RowIn(r, m, kd) = IF RowIn(l, m, kd).exist THEN RowIn(l, m, kd) ELSE NoRow
<1> DEFINE N == Len(l)
           X == Seq(Entries(V, T))
           Has(s, i) == /\ \A j \in 1..i : l[j].exist => \E h \in DOMAIN s : s[h] = l[j]
                        /\ \A h \in DOMAIN s : \E j \in 1..i : l[j].exist /\ s[h] = l[j]
                        /\ Ordered(s)
           G == [i \in 0..N |-> {s \in X : Has(s, i)}]
           Body(i, y) == IF l[i].exist THEN Append(y, l[i]) ELSE y
           turn == [iy \in (1..N) \X X |-> Body(iy[1], iy[2])]
           upTo == CHOOSE g : g = [i \in 0..N |-> IF i = 0 THEN <<>> ELSE
                                     IF l[i].exist THEN Append(g[i - 1], l[i]) ELSE g[i - 1]]
<1>1. DOMAIN l = 1..N /\ N \in Nat /\ \A j \in DOMAIN l : l[j] \in Entries(V, T)
  OBVIOUS
<1>2. \A i \in 1..N, y \in X : Body(i, y) \in X
  BY <1>1
<1>3. turn \in [(1..N) \X X -> X] /\ \A i \in 1..N, y \in X : turn[<<i, y>>] = Body(i, y)
  <2> HIDE DEF Body, X
  <2> QED
    BY <1>2
<1>4. <<>> \in X /\ Has(<<>>, 0)
  BY DEF Ordered
<1>5. ASSUME NEW i \in 1..N, NEW y \in X, Has(y, i - 1) PROVE Has(Body(i, y), i)
  <2>1. CASE l[i].exist
    <3> DEFINE s == Append(y, l[i])
    <3>1. s \in X /\ Len(s) = Len(y) + 1 /\ s[Len(y) + 1] = l[i] /\ \A h \in 1..Len(y) : s[h] = y[h]
      BY <1>1
    <3>2. DOMAIN s = 1..(Len(y) + 1) /\ DOMAIN y = 1..Len(y) /\ Len(y) \in Nat
      BY <3>1
    <3> HIDE DEF s, X
    <3>3. ASSUME NEW j \in 1..i, l[j].exist PROVE \E h \in DOMAIN s : s[h] = l[j]
      <4>1. CASE j = i
        BY <3>1, <3>2, <4>1
      <4>2. CASE j # i
        <5>1. PICK h \in DOMAIN y : y[h] = l[j]
          BY <1>1, <1>5, <3>3, <4>2
        <5> QED
          BY <3>1, <3>2, <5>1
      <4> QED
        BY <4>1, <4>2
    <3>4. ASSUME NEW h \in DOMAIN s PROVE \E j \in 1..i : l[j].exist /\ s[h] = l[j]
      <4>1. CASE h = Len(y) + 1
        BY <2>1, <3>1, <4>1
      <4>2. CASE h # Len(y) + 1
        <5>1. h \in DOMAIN y /\ s[h] = y[h]
          BY <3>1, <3>2, <4>2
        <5>2. PICK j \in 1..(i - 1) : l[j].exist /\ y[h] = l[j]
          BY <1>5, <5>1
        <5> QED
          BY <5>1, <5>2
      <4> QED
        BY <4>1, <4>2
    <3>5. ASSUME NEW g \in DOMAIN s, NEW h \in DOMAIN s, g < h PROVE Before(s[g], s[h])
      <4>1. g \in DOMAIN y /\ s[g] = y[g]
        BY <3>1, <3>2, <3>5
      <4>2. CASE h = Len(y) + 1
        <5>1. PICK j \in 1..(i - 1) : y[g] = l[j]
          BY <1>5, <4>1
        <5>2. j \in DOMAIN l /\ i \in DOMAIN l /\ j < i
          BY <1>1
        <5>3. Before(l[j], l[i])
          BY <5>2 DEF GoodList, Ordered
        <5> QED
          BY <3>1, <4>1, <4>2, <5>1, <5>3
      <4>3. CASE h # Len(y) + 1
        <5>1. h \in DOMAIN y /\ s[h] = y[h]
          BY <3>1, <3>2, <4>3
        <5> QED
          BY <1>5, <3>5, <4>1, <5>1 DEF Ordered
      <4> QED
        BY <4>2, <4>3
    <3>6. Body(i, y) = s
      BY <2>1 DEF s
    <3> QED
      BY <3>3, <3>4, <3>5, <3>6 DEF Ordered
  <2>2. CASE ~l[i].exist
    <3>1. Body(i, y) = y /\ \A j \in 1..i : j # i => j \in 1..(i - 1)
      BY <1>1, <2>2
    <3>2. \A j \in 1..(i - 1) : j \in 1..i
      BY <1>1
    <3>3. \A j \in 1..i : l[j].exist => j \in 1..(i - 1)
      BY <2>2, <3>1
    <3> HIDE DEF Body
    <3> QED
      BY <1>5, <3>1, <3>2, <3>3
  <2> QED
    BY <2>1, <2>2
<1> HIDE DEF Has, Body
<1>6. G \in [0..N -> SUBSET X] /\ <<>> \in G[0]
  BY <1>1, <1>4
<1>7. \A i \in 1..N : \A y \in G[i - 1] : turn[<<i, y>>] \in G[i]
  <2> HIDE DEF turn
  <2>1. ASSUME NEW i \in 1..N, NEW y \in G[i - 1] PROVE turn[<<i, y>>] \in G[i]
    <3>1. i - 1 \in 0..N /\ i \in 0..N
      BY <1>1
    <3>2. y \in X /\ Has(y, i - 1)
      BY <3>1
    <3>3. Has(Body(i, y), i) /\ Body(i, y) \in X
      BY <1>2, <1>5, <3>2
    <3>4. turn[<<i, y>>] = Body(i, y)
      BY <1>3, <3>2
    <3> QED
      BY <3>1, <3>3, <3>4
  <2> QED
    BY <2>1
<1> HIDE DEF G, X, turn
<1>8. PICK u \in [0..N -> X] :
        \A i \in 0..N : u[i] \in G[i] /\ u[i] = IF i = 0 THEN <<>> ELSE turn[<<i, u[i - 1]>>]
  <2>1. Loop(N, X, G, <<>>, turn)
    BY <1>1, <1>3, <1>6, <1>7 DEF Loop
  <2> QED
    BY <2>1, LoopValues
<1>9. u = [i \in 0..N |-> IF i = 0 THEN <<>> ELSE IF l[i].exist THEN Append(u[i - 1], l[i]) ELSE u[i - 1]]
  <2>1. ASSUME NEW i \in 0..N, i # 0 PROVE turn[<<i, u[i - 1]>>] = Body(i, u[i - 1])
    <3>1. i \in 1..N /\ i - 1 \in 0..N
      BY <1>1, <2>1
    <3> QED
      BY <1>3, <1>8, <3>1
  <2>2. \A i \in 0..N : u[i] = IF i = 0 THEN <<>> ELSE Body(i, u[i - 1])
    BY <1>8, <2>1
  <2> QED
    BY <2>2 DEF Body
<1>10. upTo = [i \in 0..N |-> IF i = 0 THEN <<>> ELSE
                                     IF l[i].exist THEN Append(upTo[i - 1], l[i]) ELSE upTo[i - 1]]
  BY <1>9
<1> HIDE DEF upTo
<1>11. P!FreeUnused(l) = upTo[N]
  BY Zenon DEF P!FreeUnused, upTo
<1>12. u[0] = <<>> /\ \A i \in 1..N : u[i] = Body(i, u[i - 1])
  <2>1. 0 \in 0..N /\ \A i \in 1..N : i \in 0..N /\ i # 0
    BY <1>1
  <2> QED
    BY <1>9, <2>1 DEF Body
<1>13. upTo[0] = <<>> /\ \A i \in 1..N : upTo[i] = Body(i, upTo[i - 1])
  <2>1. 0 \in 0..N /\ \A i \in 1..N : i \in 0..N /\ i # 0
    BY <1>1
  <2> QED
    BY <1>10, <2>1 DEF Body
<1>14. upTo[N] = u[N]
  <2>1. \A i \in 1..N : u[i - 1] = upTo[i - 1] => u[i] = upTo[i]
    BY <1>12, <1>13
  <2>2. u[0] = upTo[0] /\ N \in Nat
    BY <1>1, <1>12, <1>13
  <2> HIDE DEF N
  <2> QED
    BY <2>1, <2>2, LoopsAlike, Zenon
<1> DEFINE r == P!FreeUnused(l)
<1>15. r \in X /\ Has(r, N)
  BY <1>1, <1>8, <1>11, <1>14 DEF G
<1> HIDE DEF r
<1>16. r \in Seq(Entries(V, T)) /\ Ordered(r)
  BY <1>15 DEF X, Has
<1>17. \A j \in DOMAIN l : l[j].exist => \E h \in DOMAIN r : r[h] = l[j]
  BY <1>1, <1>15 DEF Has
<1>18. \A h \in DOMAIN r : \E j \in DOMAIN l : l[j].exist /\ r[h] = l[j]
  BY <1>1, <1>15 DEF Has
<1>19. Identified(r)
  <2> SUFFICES ASSUME NEW g \in DOMAIN r, NEW h \in DOMAIN r, r[g].id = r[h].id, g < h PROVE FALSE
    <3>1. DOMAIN r = 1..Len(r)
      BY <1>16
    <3>2. \A g, h \in DOMAIN r : g < h \/ h < g \/ g = h
      BY <3>1
    <3>3. \A h \in DOMAIN r : r[h].id[1] = r[h].pid
      BY <1>18 DEF GoodList, Identified
    <3> QED
      BY <3>2, <3>3 DEF Identified
  <2>1. PICK i \in DOMAIN l : r[g] = l[i]
    BY <1>18
  <2>2. PICK j \in DOMAIN l : r[h] = l[j]
    BY <1>18
  <2>3. i = j
    BY <2>1, <2>2 DEF GoodList, Identified
  <2>4. Before(r[g], r[h])
    BY <1>16 DEF Ordered
  <2> QED
    BY <1>1, <2>1, <2>2, <2>3, <2>4, BeforeIs
<1>20. \A i \in DOMAIN l : RowOf(l[i]).exist = l[i].exist
  BY DEF RowOf, TaskRow
<1>21. Linked(r)
  <2> SUFFICES ASSUME NEW h \in DOMAIN r, r[h].tgid # P!NoEntry PROVE \E g \in DOMAIN r : Leads(r[g], r[h])
    BY DEF Linked
  <2>1. PICK i \in DOMAIN l : l[i].exist /\ r[h] = l[i]
    BY <1>18
  <2>2. PICK j \in DOMAIN l : Leads(l[j], l[i])
    BY <2>1 DEF GoodList, Linked
  <2> DEFINE q == Kind(l[i])
  <2>3. /\ i \in Places(l, l[i].pid, q) /\ j \in Places(l, q, 0)
        /\ l[i].pid \in Pids /\ q \in Pids
    <3>1. l[i] \in Entries(V, T) /\ l[j] \in Entries(V, T)
      BY <1>1
    <3>2. l[i].pid \in Pids /\ q \in Kinds /\ q # 0
      BY <2>1, <3>1, EntryIs
    <3>3. l[j].pid = q /\ Kind(l[j]) = 0
      BY <2>2, <3>1, EntryIs DEF Leads
    <3> QED
      BY <3>2, <3>3 DEF Places, Kinds
  <2> HIDE DEF q
  <2>4. RowIn(l, l[i].pid, q).exist
    BY <1>20, <2>1, <2>3, RowAt DEF GoodList
  <2>5. l[j].exist
    BY <1>20, <2>3, <2>4, RowAt DEF GoodList
  <2>6. PICK g \in DOMAIN r : r[g] = l[j]
    BY <1>17, <2>5
  <2> QED
    BY <2>1, <2>2, <2>6
<1>22. ASSUME NEW m, NEW kd
       PROVE  RowIn(r, m, kd) = IF RowIn(l, m, kd).exist THEN RowIn(l, m, kd) ELSE NoRow
  <2>1. CASE Places(r, m, kd) = {}
    <3>1. RowIn(r, m, kd) = NoRow
      BY <2>1 DEF RowIn
    <3>2. ASSUME RowIn(l, m, kd).exist PROVE FALSE
      <4>1. ~NoRow.exist
        BY DEF NoRow, TaskRow
      <4>2. PICK i \in Places(l, m, kd) : TRUE
        BY <3>2, <4>1 DEF RowIn
      <4>3. l[i].exist /\ i \in DOMAIN l /\ l[i].pid = m /\ Kind(l[i]) = kd
        BY <1>20, <3>2, RowAt DEF GoodList
      <4>4. PICK h \in DOMAIN r : r[h] = l[i]
        BY <1>17, <4>3
      <4> QED
        BY <2>1, <4>3, <4>4 DEF Places
    <3> QED
      BY <3>1, <3>2
  <2>2. CASE Places(r, m, kd) # {}
    <3>1. PICK h \in Places(r, m, kd) : TRUE
      BY <2>2
    <3>2. RowIn(r, m, kd) = RowOf(r[h]) /\ h \in DOMAIN r /\ r[h].pid = m /\ Kind(r[h]) = kd
      BY <1>16, RowAt
    <3>3. PICK i \in DOMAIN l : l[i].exist /\ r[h] = l[i]
      BY <1>18, <3>2
    <3>4. i \in Places(l, m, kd)
      BY <3>2, <3>3 DEF Places
    <3>5. RowIn(l, m, kd) = RowOf(l[i])
      BY <3>4, RowAt DEF GoodList
    <3> QED
      BY <1>20, <3>2, <3>3, <3>5
  <2> QED
    BY <2>1, <2>2
<1> QED
  BY <1>16, <1>19, <1>21, <1>22 DEF r, GoodList

\* The samples that a reading takes are of the set V.
TakenFrom(V) == \A n \in Pids, b \in BOOLEAN : P!Sampled(n, b) \in V

\* What a list holds of a task that has been read.
WhenRead(row, c, n, k) == Filled(row, c, P!Sampled(n, k # 0))

\* The place of a process that is in a list.
LEMMA ProcessPlaceIs ==
  ASSUME PidsOK, NEW V, NEW T, NEW l \in Seq(Entries(V, T)), GoodList(l),
         NEW n \in Pids, RowIn(l, n, 0).there
  PROVE  P!ProcessPlace(l, n) \in Places(l, n, 0)
<1> DEFINE S == {i \in DOMAIN l : l[i].tgid = P!NoEntry /\ l[i].pid >= n}
           k == P!FirstOf(S, l)
<1>1. DOMAIN l = 1..Len(l) /\ Len(l) \in Nat /\ \A j \in DOMAIN l : l[j] \in Entries(V, T)
  OBVIOUS
<1>2. PICK i \in Places(l, n, 0) : TRUE
  BY RowHas DEF GoodList
<1>3. i \in DOMAIN l /\ l[i].pid = n /\ l[i].tgid = P!NoEntry /\ n \in Nat
  <2>1. i \in DOMAIN l /\ l[i].pid = n /\ Kind(l[i]) = 0
    BY DEF Places
  <2>2. l[i] \in Entries(V, T)
    BY <1>1, <2>1
  <2> QED
    BY <2>1, <2>2, EntryIs DEF PidsOK
<1>4. i \in S /\ S \subseteq DOMAIN l
  BY <1>3
<1>5. k \in S /\ k <= i
  <2> HIDE DEF S
  <2>1. k \in 1..(Len(l) + 1) /\ (k <= Len(l) => k \in S) /\ k <= i
    BY <1>4, FirstIs
  <2> QED
    BY <1>1, <1>4, <2>1
<1>6. k = i
  <2> SUFFICES ASSUME k < i PROVE FALSE
    BY <1>1, <1>4, <1>5
  <2>1. Before(l[k], l[i])
    BY <1>4, <1>5 DEF GoodList, Ordered
  <2>2. l[k].tgid = P!NoEntry /\ l[k].pid >= n /\ l[k].pid \in Nat
    <3>1. l[k] \in Entries(V, T)
      BY <1>1, <1>5
    <3>2. l[k].pid \in Nat
      BY <3>1, EntryIs
    <3> QED
      BY <1>5, <3>2
  <2> HIDE DEF k
  <2> QED
    BY <1>3, <2>1, <2>2 DEF Before, Top, Of, Kind
<1> QED
  BY <1>2, <1>6 DEF P!ProcessPlace

\* A thread that is read.
LEMMA ReadTaskIs ==
  ASSUME PidsOK, NEW V, NEW T, Empty(V, T), TakenFrom(V),
         NEW l \in Seq(Entries(V, T)), GoodList(l), NEW c \in 0..2,
         NEW n \in Pids, NEW p \in Pids, Alone(l, p), RowIn(l, p, 0).there
  PROVE  LET r == P!ReadTask(l, n, p, c)
         IN  /\ r \in Seq(Entries(V, T)) /\ GoodList(r)
             /\ \A m, k : RowIn(r, m, k) = IF m = n /\ k = p
                                           THEN WhenRead(RowIn(l, m, k), c, n, p)
                                           ELSE RowIn(l, m, k)
<1> DEFINE a == P!AddThread(l, n, p)
           q == P!ThreadPlace(a, n, p)
           r == P!Fill(a, q, c, TRUE)
<1>1. /\ a \in Seq(Entries(V, T)) /\ GoodList(a)
      /\ \A m, k : RowIn(a, m, k) = IF m = n /\ k = p THEN Present(RowIn(l, m, k)) ELSE RowIn(l, m, k)
      /\ q \in Places(a, n, p)
  BY AddThreadIs
<1> HIDE DEF a, q
<1>2. P!Sampled(n, TRUE) \in V
  BY DEF TakenFrom
<1>3. /\ r \in Seq(Entries(V, T)) /\ GoodList(r)
      /\ \A m, k : RowIn(r, m, k) = IF m = n /\ k = p
                                    THEN Filled(RowIn(a, m, k), c, P!Sampled(n, TRUE))
                                    ELSE RowIn(a, m, k)
  <2>1. \A b : P!Sampled(n, b) \in V =>
           LET f == P!Fill(a, q, c, b)
           IN  /\ f \in Seq(Entries(V, T)) /\ GoodList(f)
               /\ \A m, kd : RowIn(f, m, kd) = IF m = n /\ kd = p THEN Filled(RowIn(a, m, kd), c, P!Sampled(n, b))
                                                ELSE RowIn(a, m, kd)
    BY <1>1, FillIs
  <2> QED
    BY <1>2, <2>1, Zenon
<1>4. P!ReadTask(l, n, p, c) = r
  BY DEF P!ReadTask, a, q
<1> HIDE DEF r
<1>5. \A row, s : Filled(Present(row), c, s) = Filled(row, c, s)
  BY DEF Filled, Present, TaskRow
<1>6. \A m, k : RowIn(r, m, k) = IF m = n /\ k = p THEN WhenRead(RowIn(l, m, k), c, n, p)
                                 ELSE RowIn(l, m, k)
  <2>1. \A m, k : RowIn(r, m, k) = IF m = n /\ k = p THEN Filled(RowIn(l, m, k), c, P!Sampled(n, TRUE))
                                   ELSE RowIn(l, m, k)
    BY <1>1, <1>3, <1>5
  <2>2. \A row : WhenRead(row, c, n, p) = Filled(row, c, P!Sampled(n, TRUE))
    <3>1. (p # 0) = TRUE
      BY DEF PidsOK
    <3> QED
      BY <3>1, Zenon DEF WhenRead
  <2> QED
    BY <2>1, <2>2
<1> QED
  BY <1>3, <1>4, <1>6

\* The threads of a process that are read.
LEMMA ReadTasksIs ==
  ASSUME PidsOK, NEW V, NEW T, Empty(V, T), TakenFrom(V),
         NEW l \in Seq(Entries(V, T)), GoodList(l), NEW c \in 0..2,
         NEW p \in Pids, Alone(l, p), RowIn(l, p, 0).there
  PROVE  LET r == P!ReadTasks(l, p, c)
         IN  /\ r \in Seq(Entries(V, T)) /\ GoodList(r)
             /\ \A m, k : RowIn(r, m, k) = IF m \in P!Threads(p) /\ k = p
                                           THEN WhenRead(RowIn(l, m, k), c, m, p)
                                           ELSE RowIn(l, m, k)
<1> DEFINE N == P!LastPid
           X == Seq(Entries(V, T))
           Has(s, i) == /\ GoodList(s)
                        /\ \A m, k : RowIn(s, m, k) = IF m \in P!Threads(p) /\ k = p /\ m <= i
                                                      THEN WhenRead(RowIn(l, m, k), c, m, p)
                                                      ELSE RowIn(l, m, k)
           G == [i \in 0..N |-> {s \in X : Has(s, i)}]
           Body(i, y) == IF i \in P!Threads(p) THEN P!ReadTask(y, i, p, c) ELSE y
           turn == [iy \in (1..N) \X X |-> IF Has(iy[2], iy[1] - 1) THEN Body(iy[1], iy[2]) ELSE iy[2]]
           upTo == CHOOSE g : g = [i \in 0..N |-> IF i = 0 THEN l ELSE
                                     IF i \in P!Threads(p) THEN P!ReadTask(g[i - 1], i, p, c) ELSE g[i - 1]]
<1>1. N \in Nat /\ \A n \in Pids : n \in 1..N
  BY LastPidIs
<1>2. \A n \in P!Threads(p) : n \in Pids /\ n \in Nat /\ n # 0
  BY DEF P!Threads, PidsOK
<1>3. l \in X /\ Has(l, 0)
  <2>1. \A m \in P!Threads(p) : ~(m <= 0)
    BY <1>2
  <2> QED
    BY <2>1
<1>4. ASSUME NEW i \in 1..N, NEW y \in X, Has(y, i - 1) PROVE Body(i, y) \in X /\ Has(Body(i, y), i)
  <2>1. CASE i \in P!Threads(p)
    <3> DEFINE r == P!ReadTask(y, i, p, c)
    <3>1. i \in Pids /\ p # 0
      BY <1>2, <2>1 DEF PidsOK
    <3>2. RowIn(y, p, 0).there /\ Alone(y, p)
      <4>1. \A k : k # p => RowIn(y, p, k) = RowIn(l, p, k)
        BY <1>4
      <4>2. RowIn(y, p, 0) = RowIn(l, p, 0)
        BY <3>1, <4>1
      <4> QED
        BY <4>1, <4>2 DEF Alone
    <3>3. /\ r \in Seq(Entries(V, T)) /\ GoodList(r)
          /\ \A m, k : RowIn(r, m, k) = IF m = i /\ k = p
                                        THEN WhenRead(RowIn(y, m, k), c, i, p)
                                        ELSE RowIn(y, m, k)
      <4>1. y \in Seq(Entries(V, T)) /\ GoodList(y)
        BY <1>4
      <4> HIDE DEF Has, Body, turn, upTo, G, X
      <4> QED
        BY <3>1, <3>2, <4>1, ReadTaskIs
    <3>4. Body(i, y) = r
      BY <2>1
    <3> HIDE DEF r, Body
    <3>5. \A m \in P!Threads(p) : m <= i <=> m <= i - 1 \/ m = i
      BY <1>1, <1>2
    <3>7. ~(i <= i - 1)
      BY <1>1
    <3>6. ASSUME NEW m, NEW k
          PROVE  RowIn(r, m, k) = IF m \in P!Threads(p) /\ k = p /\ m <= i
                                  THEN WhenRead(RowIn(l, m, k), c, m, p)
                                  ELSE RowIn(l, m, k)
      <4>1. RowIn(y, m, k) = IF m \in P!Threads(p) /\ k = p /\ m <= i - 1
                             THEN WhenRead(RowIn(l, m, k), c, m, p)
                             ELSE RowIn(l, m, k)
        BY <1>4
      <4>2. CASE m = i /\ k = p
        <5>1. RowIn(y, m, k) = RowIn(l, m, k) /\ m \in P!Threads(p) /\ m <= i
          BY <2>1, <3>5, <3>7, <4>1, <4>2
        <5> QED
          BY <3>3, <4>2, <5>1
      <4>3. CASE ~(m = i /\ k = p)
        BY <3>3, <3>5, <4>1, <4>3
      <4> QED
        BY <4>2, <4>3
    <3> QED
      BY <3>3, <3>4, <3>6
  <2>2. CASE i \notin P!Threads(p)
    <3>1. Body(i, y) = y
      BY <2>2
    <3>2. \A m \in P!Threads(p) : m <= i <=> m <= i - 1
      BY <1>1, <1>2, <2>2
    <3> HIDE DEF Body
    <3> QED
      BY <1>4, <3>1, <3>2
  <2> QED
    BY <2>1, <2>2
<1> HIDE DEF Has, Body
<1>5. turn \in [(1..N) \X X -> X] /\ \A i \in 1..N, y \in X : Has(y, i - 1) => turn[<<i, y>>] = Body(i, y)
  <2> HIDE DEF X
  <2> QED
    BY <1>4
<1>6. Loop(N, X, G, l, turn)
  <2> HIDE DEF turn, X
  <2>1. G \in [0..N -> SUBSET X] /\ l \in G[0] /\ N \in Nat
    BY <1>1, <1>3
  <2>2. ASSUME NEW i \in 1..N, NEW y \in G[i - 1] PROVE turn[<<i, y>>] \in G[i]
    <3>1. i - 1 \in 0..N /\ i \in 0..N
      BY <1>1
    <3>2. y \in X /\ Has(y, i - 1)
      BY <3>1
    <3>3. Has(Body(i, y), i) /\ Body(i, y) \in X
      BY <1>4, <3>2
    <3> QED
      BY <1>5, <3>1, <3>2, <3>3
  <2> HIDE DEF G
  <2> QED
    BY <1>5, <2>1, <2>2 DEF Loop
<1> HIDE DEF G, X, turn
<1>7. PICK u \in [0..N -> X] :
        \A i \in 0..N : u[i] \in G[i] /\ u[i] = IF i = 0 THEN l ELSE turn[<<i, u[i - 1]>>]
  BY <1>6, LoopValues
<1>8. u = [i \in 0..N |-> IF i = 0 THEN l ELSE IF i \in P!Threads(p) THEN P!ReadTask(u[i - 1], i, p, c) ELSE u[i - 1]]
  <2>1. ASSUME NEW i \in 0..N, i # 0 PROVE turn[<<i, u[i - 1]>>] = Body(i, u[i - 1])
    <3>1. i \in 1..N /\ i - 1 \in 0..N
      BY <1>1, <2>1
    <3>2. u[i - 1] \in X /\ Has(u[i - 1], i - 1)
      BY <1>7, <3>1 DEF G
    <3> QED
      BY <1>5, <3>1, <3>2
  <2>2. \A i \in 0..N : u[i] = IF i = 0 THEN l ELSE Body(i, u[i - 1])
    BY <1>7, <2>1
  <2> QED
    BY <2>2 DEF Body
<1>9. upTo = [i \in 0..N |-> IF i = 0 THEN l ELSE
                               IF i \in P!Threads(p) THEN P!ReadTask(upTo[i - 1], i, p, c) ELSE upTo[i - 1]]
  BY <1>8
<1> HIDE DEF upTo
<1>10. P!ReadTasks(l, p, c) = upTo[N]
  BY Zenon DEF P!ReadTasks, upTo
<1>11. upTo[N] \in X /\ Has(upTo[N], N)
  <2>1. u[0] = l /\ \A i \in 1..N : u[i] = Body(i, u[i - 1])
    <3>1. 0 \in 0..N /\ \A i \in 1..N : i \in 0..N /\ i # 0
      BY <1>1
    <3> QED
      BY <1>8, <3>1 DEF Body
  <2>2. upTo[0] = l /\ \A i \in 1..N : upTo[i] = Body(i, upTo[i - 1])
    <3>1. 0 \in 0..N /\ \A i \in 1..N : i \in 0..N /\ i # 0
      BY <1>1
    <3> QED
      BY <1>9, <3>1 DEF Body
  <2>3. \A i \in 1..N : u[i - 1] = upTo[i - 1] => u[i] = upTo[i]
    BY <2>1, <2>2
  <2>4. u[0] = upTo[0] /\ N \in Nat
    BY <1>1, <2>1, <2>2
  <2>5. u[N] = upTo[N]
    BY <2>3, <2>4, LoopsAlike, Zenon
  <2>6. N \in 0..N
    BY <1>1
  <2>7. u[N] \in G[N]
    BY <1>7, <2>6
  <2> QED
    BY <2>5, <2>6, <2>7 DEF G
<1> QED
  <2>1. \A m \in P!Threads(p) : m <= N
    BY <1>1, <1>2
  <2> QED
    BY <1>10, <1>11, <2>1 DEF X, Has

\* Task m is found, as k, when process p is read.
FoundWith(p, m, k) == (k = 0 /\ m = p) \/ (k = p /\ popt.tid /\ m \in P!Threads(p))

\* A process that is read, with its threads.
LEMMA ReadProcessIs ==
  ASSUME PidsOK, NEW V, NEW T, Empty(V, T), TakenFrom(V),
         NEW l \in Seq(Entries(V, T)), GoodList(l), NEW c \in 0..2,
         NEW p \in Pids, Alone(l, p), RowIn(l, p, 0).there
  PROVE  LET r == P!ReadProcess(l, p, c)
         IN  /\ r \in Seq(Entries(V, T)) /\ GoodList(r)
             /\ \A m, k : RowIn(r, m, k) = IF FoundWith(p, m, k) THEN WhenRead(RowIn(l, m, k), c, m, k)
                                           ELSE RowIn(l, m, k)
<1> DEFINE q == P!ProcessPlace(l, p)
           f == P!Fill(l, q, c, FALSE)
           r == IF popt.tid THEN P!ReadTasks(f, p, c) ELSE f
<1>1. q \in Places(l, p, 0)
  BY ProcessPlaceIs
<1> HIDE DEF q
<1>2. /\ f \in Seq(Entries(V, T)) /\ GoodList(f)
      /\ \A m, k : RowIn(f, m, k) = IF m = p /\ k = 0
                                    THEN WhenRead(RowIn(l, m, k), c, p, 0)
                                    ELSE RowIn(l, m, k)
  <2>1. \A b : P!Sampled(p, b) \in V =>
           LET g == P!Fill(l, q, c, b)
           IN  /\ g \in Seq(Entries(V, T)) /\ GoodList(g)
               /\ \A m, kd : RowIn(g, m, kd) = IF m = p /\ kd = 0 THEN Filled(RowIn(l, m, kd), c, P!Sampled(p, b))
                                                ELSE RowIn(l, m, kd)
    BY <1>1, FillIs
  <2>2. P!Sampled(p, FALSE) \in V
    BY DEF TakenFrom
  <2>3. /\ f \in Seq(Entries(V, T)) /\ GoodList(f)
        /\ \A m, kd : RowIn(f, m, kd) = IF m = p /\ kd = 0 THEN Filled(RowIn(l, m, kd), c, P!Sampled(p, FALSE))
                                        ELSE RowIn(l, m, kd)
    BY <2>1, <2>2, Zenon
  <2>4. (0 # 0) = FALSE
    OBVIOUS
  <2>5. \A row : WhenRead(row, c, p, 0) = Filled(row, c, P!Sampled(p, FALSE))
    BY <2>4, Zenon DEF WhenRead
  <2> HIDE DEF f
  <2> QED
    BY <2>3, <2>5
<1> HIDE DEF f
<1>6. Alone(f, p) /\ p # 0
  <2>1. p # 0 /\ \A k \in Pids \ {p} : k # 0
    BY DEF PidsOK
  <2>2. \A k \in Pids \ {p} : RowIn(f, p, k) = RowIn(l, p, k)
    BY <1>2, <2>1
  <2> QED
    BY <2>1, <2>2 DEF Alone
<1>3. P!ReadProcess(l, p, c) = r
  BY DEF P!ReadProcess, f, q
<1>4. CASE popt.tid
  <2>1. r = P!ReadTasks(f, p, c)
    BY <1>4
  <2>2. RowIn(f, p, 0).there
    <3>1. RowIn(f, p, 0) = WhenRead(RowIn(l, p, 0), c, p, 0)
      BY <1>2
    <3> QED
      BY <3>1 DEF WhenRead, Filled, TaskRow
  <2>3. /\ P!ReadTasks(f, p, c) \in Seq(Entries(V, T)) /\ GoodList(P!ReadTasks(f, p, c))
        /\ \A m, k : RowIn(P!ReadTasks(f, p, c), m, k) = IF m \in P!Threads(p) /\ k = p
                                    THEN WhenRead(RowIn(f, m, k), c, m, p)
                                    ELSE RowIn(f, m, k)
    BY <1>2, <1>6, <2>2, ReadTasksIs
  <2> HIDE DEF r
  <2>4. \A m, k : RowIn(r, m, k) = IF FoundWith(p, m, k) THEN WhenRead(RowIn(l, m, k), c, m, k)
                                   ELSE RowIn(l, m, k)
    BY <1>2, <1>4, <1>6, <2>1, <2>3 DEF FoundWith
  <2> QED
    BY <1>3, <2>1, <2>3, <2>4
<1>5. CASE ~popt.tid
  <2>1. r = f
    BY <1>5
  <2> HIDE DEF r
  <2>2. \A m, k : RowIn(r, m, k) = IF FoundWith(p, m, k) THEN WhenRead(RowIn(l, m, k), c, m, k)
                                   ELSE RowIn(l, m, k)
    BY <1>2, <1>5, <1>6, <2>1 DEF FoundWith
  <2> QED
    BY <1>2, <1>3, <2>1, <2>2
<1> QED
  BY <1>4, <1>5

\* Task m is found, as k, by a reading.
IsFound(l, m, k) ==
  /\ m \in Pids /\ task[m].tgid = Of(m, k) /\ P!IsRead(l, task[m].tgid)
  /\ k # 0 => popt.tid

\* No process has an entry that is that of a thread of another one.
NoStray(l) == \A p \in P!Processes : Alone(l, p)

\* What a list holds after a reading.
LEMMA ReadListIs ==
  ASSUME PidsOK, TasksAre(task), NEW V, NEW T, Empty(V, T), TakenFrom(V),
         NEW l \in Seq(Entries(V, T)), GoodList(l), NoStray(l), NEW c \in 0..2,
         \A m, k : ~RowIn(l, m, k).exist
  PROVE  LET r == P!ReadList(l, c)
         IN  /\ r \in Seq(Entries(V, T)) /\ GoodList(r)
             /\ \A m, k : RowIn(r, m, k) = IF IsFound(l, m, k) THEN WhenRead(RowIn(l, m, k), c, m, k)
                                           ELSE NoRow
<1> DEFINE N == P!LastPid
           X == Seq(Entries(V, T))
           Now(m, k, i) == IsFound(l, m, k) /\ task[m].tgid <= i
           Has(s, i) == /\ GoodList(s)
                        /\ \A m, k : /\ Now(m, k, i) => RowIn(s, m, k) = WhenRead(RowIn(l, m, k), c, m, k)
                                     /\ ~Now(m, k, i) => RowIn(s, m, k) = RowIn(l, m, k)
           G == [i \in 0..N |-> {s \in X : Has(s, i)}]
           With(i, y) == IF popt.all THEN P!AddProcess(y, i) ELSE y
           Body(i, y) == IF ~P!IsRead(l, i) THEN y ELSE P!ReadProcess(With(i, y), i, c)
           turn == [iy \in (1..N) \X X |-> IF Has(iy[2], iy[1] - 1) THEN Body(iy[1], iy[2]) ELSE iy[2]]
           upTo == CHOOSE g : g = [i \in 0..N |-> IF i = 0 THEN l ELSE
                                     IF ~P!IsRead(l, i) THEN g[i - 1]
                                     ELSE P!ReadProcess(IF popt.all THEN P!AddProcess(g[i - 1], i) ELSE g[i - 1], i, c)]
<1>1. N \in Nat /\ \A n \in Pids : n \in 1..N
  BY LastPidIs
<1>3. \A p : P!IsRead(l, p) => /\ p \in Pids /\ p \in 1..N /\ p # 0 /\ task[p].tgid = p
                               /\ Alone(l, p)
  BY <1>1 DEF P!IsRead, P!Processes, NoStray, PidsOK
<1>2. \A m, k : IsFound(l, m, k) => /\ m \in Pids /\ task[m].tgid \in Pids /\ task[m].tgid \in 1..N
                                    /\ P!IsRead(l, task[m].tgid)
                                    /\ (k = 0 => task[m].tgid = m) /\ (k # 0 => task[m].tgid = k)
  BY <1>3 DEF IsFound, Of
<1>4. l \in X /\ Has(l, 0)
  <2>1. \A m, k : ~Now(m, k, 0)
    BY <1>1, <1>2
  <2> QED
    BY <2>1
<1>5. \A p, m, k : P!IsRead(l, p) => (FoundWith(p, m, k) <=> IsFound(l, m, k) /\ task[m].tgid = p)
  <2> SUFFICES ASSUME NEW p, NEW m, NEW k, P!IsRead(l, p)
               PROVE  FoundWith(p, m, k) <=> IsFound(l, m, k) /\ task[m].tgid = p
    OBVIOUS
  <2>1. p \in Pids /\ task[p].tgid = p /\ p # 0
    BY <1>3
  <2>2. ASSUME FoundWith(p, m, k) PROVE IsFound(l, m, k) /\ task[m].tgid = p
    <3>1. m \in Pids /\ task[m].tgid = p
      BY <2>1, <2>2 DEF FoundWith, P!Threads
    <3> QED
      BY <2>1, <2>2, <3>1 DEF FoundWith, IsFound, Of
  <2>3. ASSUME IsFound(l, m, k), task[m].tgid = p PROVE FoundWith(p, m, k)
    <3>1. m \in Pids /\ (k = 0 => m = p) /\ (k # 0 => k = p /\ popt.tid)
      BY <1>2, <2>3 DEF IsFound
    <3> QED
      BY <2>3, <3>1 DEF FoundWith, P!Threads
  <2> QED
    BY <2>2, <2>3
<1>6. ASSUME NEW i \in 1..N, NEW y \in X, Has(y, i - 1) PROVE Body(i, y) \in X /\ Has(Body(i, y), i)
  <2>0. \A j \in Nat : j <= i <=> j <= i - 1 \/ j = i
    BY <1>1
  <2>1. CASE P!IsRead(l, i)
    <3> DEFINE a == With(i, y)
               r == P!ReadProcess(a, i, c)
    <3>1. i \in Pids /\ i # 0 /\ ~(i <= i - 1) /\ task[i].tgid = i
      BY <1>1, <1>3, <2>1
    <3>2. y \in Seq(Entries(V, T)) /\ GoodList(y)
      BY <1>6
    <3>3. /\ a \in Seq(Entries(V, T)) /\ GoodList(a) /\ RowIn(a, i, 0).there
          /\ \A m, k : RowIn(a, m, k) = RowIn(y, m, k) \/
                       (m = i /\ k = 0 /\ RowIn(a, m, k) = Present(RowIn(y, m, k)))
      <4>1. CASE popt.all
        <5>1. a = P!AddProcess(y, i)
          BY <4>1
        <5> HIDE DEF a
        <5>2. /\ a \in Seq(Entries(V, T)) /\ GoodList(a)
              /\ \A m, k : RowIn(a, m, k) = IF m = i /\ k = 0 THEN Present(RowIn(y, m, k))
                                            ELSE RowIn(y, m, k)
          BY <3>1, <3>2, <5>1, AddProcessIs
        <5>3. \A row : Present(row).there
          BY DEF Present, TaskRow
        <5> QED
          BY <5>2, <5>3
      <4>2. CASE ~popt.all
        <5>1. a = y
          BY <4>2
        <5>2. PICK j \in DOMAIN l : l[j].tgid = P!NoEntry /\ l[j].pid = i
          BY <2>1, <4>2 DEF P!IsRead
        <5>3. j \in Places(l, i, 0)
          BY <5>2 DEF Places, Kind
        <5>4. RowIn(l, i, 0).there
          BY <5>3, RowHas DEF GoodList
        <5>5. RowIn(y, i, 0).there
          <6>1. ~Now(i, 0, i - 1)
            BY <3>1
          <6>2. RowIn(y, i, 0) = RowIn(l, i, 0)
            BY <1>6, <6>1
          <6> QED
            BY <5>4, <6>2
        <5> HIDE DEF a
        <5> QED
          BY <3>2, <5>1, <5>5
      <4> QED
        BY <4>1, <4>2
    <3> HIDE DEF a
    <3>8. Alone(a, i)
      <4> SUFFICES ASSUME NEW k \in Pids \ {i} PROVE ~RowIn(a, i, k).there
        BY DEF Alone
      <4>1. k # 0
        BY DEF PidsOK
      <4>2. ~Now(i, k, i - 1)
        BY <3>1
      <4>3. RowIn(a, i, k) = RowIn(l, i, k)
        BY <1>6, <3>3, <4>1, <4>2
      <4> QED
        BY <1>3, <2>1, <4>3 DEF Alone
    <3>4. /\ r \in Seq(Entries(V, T)) /\ GoodList(r)
          /\ \A m, k : RowIn(r, m, k) = IF FoundWith(i, m, k) THEN WhenRead(RowIn(a, m, k), c, m, k)
                                        ELSE RowIn(a, m, k)
      BY <3>1, <3>3, <3>8, ReadProcessIs
    <3>5. Body(i, y) = r
      BY <2>1 DEF a
    <3> HIDE DEF r, Body
    <3>6. \A row, m, k : WhenRead(Present(row), c, m, k) = WhenRead(row, c, m, k)
      BY DEF WhenRead, Filled, Present, TaskRow
    <3>7. ASSUME NEW m, NEW k
          PROVE  /\ Now(m, k, i) => RowIn(r, m, k) = WhenRead(RowIn(l, m, k), c, m, k)
                 /\ ~Now(m, k, i) => RowIn(r, m, k) = RowIn(l, m, k)
      <4>1. CASE FoundWith(i, m, k)
        <5>1. Now(m, k, i) /\ ~Now(m, k, i - 1)
          BY <1>5, <2>0, <2>1, <3>1, <4>1
        <5>2. RowIn(y, m, k) = RowIn(l, m, k)
          BY <1>6, <5>1
        <5>3. RowIn(r, m, k) = WhenRead(RowIn(a, m, k), c, m, k)
          BY <3>4, <4>1
        <5> QED
          BY <3>3, <3>6, <5>1, <5>2, <5>3
      <4>2. CASE ~FoundWith(i, m, k)
        <5>1. Now(m, k, i) <=> Now(m, k, i - 1)
          BY <1>2, <1>5, <2>0, <2>1, <4>2
        <5>2. ~(m = i /\ k = 0)
          BY <4>2 DEF FoundWith
        <5>3. RowIn(r, m, k) = RowIn(y, m, k)
          BY <3>3, <3>4, <4>2, <5>2
        <5> HIDE DEF Now
        <5> QED
          BY <1>6, <5>1, <5>3
      <4> QED
        BY <4>1, <4>2
    <3> HIDE DEF Now
    <3> QED
      BY <3>4, <3>5, <3>7
  <2>2. CASE ~P!IsRead(l, i)
    <3>1. Body(i, y) = y
      BY <2>2
    <3>2. \A m, k : Now(m, k, i) <=> Now(m, k, i - 1)
      BY <1>2, <2>0, <2>2
    <3> HIDE DEF Body, Now
    <3> QED
      BY <1>6, <3>1, <3>2
  <2> QED
    BY <2>1, <2>2
<1> HIDE DEF Has, Body
<1>7. turn \in [(1..N) \X X -> X] /\ \A i \in 1..N, y \in X : Has(y, i - 1) => turn[<<i, y>>] = Body(i, y)
  <2> HIDE DEF X
  <2> QED
    BY <1>6
<1>8. Loop(N, X, G, l, turn)
  <2> HIDE DEF turn, X
  <2>1. G \in [0..N -> SUBSET X] /\ l \in G[0] /\ N \in Nat
    BY <1>1, <1>4
  <2>2. ASSUME NEW i \in 1..N, NEW y \in G[i - 1] PROVE turn[<<i, y>>] \in G[i]
    <3>1. i - 1 \in 0..N /\ i \in 0..N
      BY <1>1
    <3>2. y \in X /\ Has(y, i - 1)
      BY <3>1
    <3>3. Has(Body(i, y), i) /\ Body(i, y) \in X
      BY <1>6, <3>2
    <3> QED
      BY <1>7, <3>1, <3>2, <3>3
  <2> HIDE DEF G
  <2> QED
    BY <1>7, <2>1, <2>2 DEF Loop
<1> HIDE DEF G, X, turn
<1>9. PICK u \in [0..N -> X] :
        \A i \in 0..N : u[i] \in G[i] /\ u[i] = IF i = 0 THEN l ELSE turn[<<i, u[i - 1]>>]
  BY <1>8, LoopValues
<1>10. u = [i \in 0..N |-> IF i = 0 THEN l ELSE
                             IF ~P!IsRead(l, i) THEN u[i - 1]
                             ELSE P!ReadProcess(IF popt.all THEN P!AddProcess(u[i - 1], i) ELSE u[i - 1], i, c)]
  <2>1. ASSUME NEW i \in 0..N, i # 0 PROVE turn[<<i, u[i - 1]>>] = Body(i, u[i - 1])
    <3>1. i \in 1..N /\ i - 1 \in 0..N
      BY <1>1, <2>1
    <3>2. u[i - 1] \in X /\ Has(u[i - 1], i - 1)
      BY <1>9, <3>1 DEF G
    <3> QED
      BY <1>7, <3>1, <3>2
  <2>2. \A i \in 0..N : u[i] = IF i = 0 THEN l ELSE Body(i, u[i - 1])
    BY <1>9, <2>1
  <2> QED
    BY <2>2 DEF Body
<1>11. upTo = [i \in 0..N |-> IF i = 0 THEN l ELSE
                             IF ~P!IsRead(l, i) THEN upTo[i - 1]
                             ELSE P!ReadProcess(IF popt.all THEN P!AddProcess(upTo[i - 1], i) ELSE upTo[i - 1], i, c)]
  BY <1>10
<1> HIDE DEF upTo
<1>12. P!ReadList(l, c) = P!FreeUnused(upTo[N])
  BY Zenon DEF P!ReadList, upTo
<1>13. upTo[N] \in X /\ Has(upTo[N], N)
  <2>1. u[0] = l /\ \A i \in 1..N : u[i] = Body(i, u[i - 1])
    <3>1. 0 \in 0..N /\ \A i \in 1..N : i \in 0..N /\ i # 0
      BY <1>1
    <3> QED
      BY <1>10, <3>1 DEF Body
  <2>2. upTo[0] = l /\ \A i \in 1..N : upTo[i] = Body(i, upTo[i - 1])
    <3>1. 0 \in 0..N /\ \A i \in 1..N : i \in 0..N /\ i # 0
      BY <1>1
    <3> QED
      BY <1>11, <3>1 DEF Body
  <2>3. \A i \in 1..N : u[i - 1] = upTo[i - 1] => u[i] = upTo[i]
    BY <2>1, <2>2
  <2>4. u[0] = upTo[0] /\ N \in Nat
    BY <1>1, <2>1, <2>2
  <2>5. u[N] = upTo[N]
    BY <2>3, <2>4, LoopsAlike, Zenon
  <2>6. N \in 0..N
    BY <1>1
  <2>7. u[N] \in G[N]
    BY <1>9, <2>6
  <2> QED
    BY <2>5, <2>6, <2>7 DEF G
<1> DEFINE s == upTo[N]
<1>14. /\ s \in Seq(Entries(V, T)) /\ GoodList(s)
       /\ \A m, k : /\ IsFound(l, m, k) => RowIn(s, m, k) = WhenRead(RowIn(l, m, k), c, m, k)
                    /\ ~IsFound(l, m, k) => RowIn(s, m, k) = RowIn(l, m, k)
  <2>1. \A m, k : Now(m, k, N) <=> IsFound(l, m, k)
    BY <1>1, <1>2
  <2> HIDE DEF Now
  <2> QED
    BY <1>13, <2>1 DEF X, Has
<1> HIDE DEF s
<1>15. \A row, m, k : WhenRead(row, c, m, k).exist
  BY DEF WhenRead, Filled, TaskRow
<1>16. \A m, k : RowIn(s, m, k).exist <=> IsFound(l, m, k)
  BY <1>14, <1>15
<1>17. ASSUME NEW m \in Pids, NEW q \in Pids, RowIn(s, m, q).exist PROVE RowIn(s, q, 0).exist
  <2>1. IsFound(l, m, q) /\ q # 0
    BY <1>16, <1>17 DEF PidsOK
  <2>2. P!IsRead(l, q)
    BY <1>2, <2>1
  <2>3. task[q].tgid = q
    BY <1>3, <2>2
  <2>4. IsFound(l, q, 0)
    BY <2>2, <2>3 DEF IsFound, Of
  <2> QED
    BY <1>16, <2>4
<1> DEFINE r == P!FreeUnused(s)
<1>18. /\ r \in Seq(Entries(V, T)) /\ GoodList(r)
       /\ \A m, kd : RowIn(r, m, kd) = IF RowIn(s, m, kd).exist THEN RowIn(s, m, kd) ELSE NoRow
  BY <1>14, <1>17, FreeUnusedIs
<1>19. P!ReadList(l, c) = r
  BY <1>12 DEF s
<1> HIDE DEF r
<1> QED
  BY <1>14, <1>16, <1>18, <1>19

\* The list of the processes of the command line.
LEMMA RequestedIs ==
  ASSUME PidsOK, popt.pids \subseteq Pids, NEW V, NEW T, Empty(V, T)
  PROVE  LET r == P!Requested
         IN  /\ r \in Seq(Entries(V, T)) /\ GoodList(r)
             /\ \A m, k : RowIn(r, m, k) = IF m \in popt.pids /\ k = 0 THEN Present(NoRow)
                                           ELSE NoRow
<1> DEFINE N == P!LastPid
           X == Seq(Entries(V, T))
           Now(m, k, i) == m \in popt.pids /\ k = 0 /\ m <= i
           Has(s, i) == /\ GoodList(s)
                        /\ \A m, k : RowIn(s, m, k) = IF Now(m, k, i) THEN Present(NoRow) ELSE NoRow
           G == [i \in 0..N |-> {s \in X : Has(s, i)}]
           Body(i, y) == IF i \in popt.pids THEN P!AddProcess(y, i) ELSE y
           turn == [iy \in (1..N) \X X |-> IF Has(iy[2], iy[1] - 1) THEN Body(iy[1], iy[2]) ELSE iy[2]]
           upTo == CHOOSE g : g = [i \in 0..N |-> IF i = 0 THEN <<>> ELSE
                                     IF i \in popt.pids THEN P!AddProcess(g[i - 1], i) ELSE g[i - 1]]
<1>1. N \in Nat /\ \A n \in Pids : n \in 1..N
  BY LastPidIs
<1>2. \A m \in popt.pids : m \in Pids /\ m \in 1..N
  BY <1>1
<1>3. <<>> \in X /\ Has(<<>>, 0)
  <2>1. \A m, k : ~Now(m, k, 0)
    BY <1>1, <1>2
  <2>2. \A m, k : Places(<<>>, m, k) = {}
    BY DEF Places
  <2>3. \A m, k : RowIn(<<>>, m, k) = NoRow
    BY <2>2 DEF RowIn
  <2>4. GoodList(<<>>)
    BY DEF GoodList, Ordered, Identified, Linked
  <2> QED
    BY <2>1, <2>3, <2>4
<1>4. ASSUME NEW i \in 1..N, NEW y \in X, Has(y, i - 1) PROVE Body(i, y) \in X /\ Has(Body(i, y), i)
  <2>0. \A j \in Nat : j <= i <=> j <= i - 1 \/ j = i
    BY <1>1
  <2>1. CASE i \in popt.pids
    <3> DEFINE r == P!AddProcess(y, i)
    <3>1. i \in Pids /\ ~(i <= i - 1)
      BY <1>1, <1>2, <2>1
    <3>2. y \in Seq(Entries(V, T)) /\ GoodList(y)
      BY <1>4
    <3>3. /\ r \in Seq(Entries(V, T)) /\ GoodList(r)
          /\ \A m, k : RowIn(r, m, k) = IF m = i /\ k = 0 THEN Present(RowIn(y, m, k))
                                        ELSE RowIn(y, m, k)
      BY <3>1, <3>2, AddProcessIs
    <3>4. Body(i, y) = r
      BY <2>1
    <3> HIDE DEF r, Body
    <3>5. ASSUME NEW m, NEW k
          PROVE  RowIn(r, m, k) = IF Now(m, k, i) THEN Present(NoRow) ELSE NoRow
      <4>1. CASE m = i /\ k = 0
        <5>1. Now(m, k, i) /\ ~Now(m, k, i - 1)
          BY <1>1, <2>1, <3>1, <4>1
        <5> QED
          BY <1>4, <3>3, <4>1, <5>1
      <4>2. CASE ~(m = i /\ k = 0)
        <5>1. Now(m, k, i) <=> Now(m, k, i - 1)
          BY <1>2, <2>0, <4>2
        <5> HIDE DEF Now
        <5> QED
          BY <1>4, <3>3, <4>2, <5>1
      <4> QED
        BY <4>1, <4>2
    <3> HIDE DEF Now
    <3> QED
      BY <3>3, <3>4, <3>5
  <2>2. CASE i \notin popt.pids
    <3>1. Body(i, y) = y
      BY <2>2
    <3>2. \A m, k : Now(m, k, i) <=> Now(m, k, i - 1)
      BY <1>2, <2>0, <2>2
    <3> HIDE DEF Body, Now
    <3> QED
      BY <1>4, <3>1, <3>2
  <2> QED
    BY <2>1, <2>2
<1> HIDE DEF Has, Body
<1>5. turn \in [(1..N) \X X -> X] /\ \A i \in 1..N, y \in X : Has(y, i - 1) => turn[<<i, y>>] = Body(i, y)
  <2> HIDE DEF X
  <2> QED
    BY <1>4
<1>6. Loop(N, X, G, <<>>, turn)
  <2> HIDE DEF turn, X
  <2>1. G \in [0..N -> SUBSET X] /\ <<>> \in G[0] /\ N \in Nat
    BY <1>1, <1>3
  <2>2. ASSUME NEW i \in 1..N, NEW y \in G[i - 1] PROVE turn[<<i, y>>] \in G[i]
    <3>1. i - 1 \in 0..N /\ i \in 0..N
      BY <1>1
    <3>2. y \in X /\ Has(y, i - 1)
      BY <3>1
    <3>3. Has(Body(i, y), i) /\ Body(i, y) \in X
      BY <1>4, <3>2
    <3> QED
      BY <1>5, <3>1, <3>2, <3>3
  <2> HIDE DEF G
  <2> QED
    BY <1>5, <2>1, <2>2 DEF Loop
<1> HIDE DEF G, X, turn
<1>7. PICK u \in [0..N -> X] :
        \A i \in 0..N : u[i] \in G[i] /\ u[i] = IF i = 0 THEN <<>> ELSE turn[<<i, u[i - 1]>>]
  BY <1>6, LoopValues
<1>8. u = [i \in 0..N |-> IF i = 0 THEN <<>> ELSE
                            IF i \in popt.pids THEN P!AddProcess(u[i - 1], i) ELSE u[i - 1]]
  <2>1. ASSUME NEW i \in 0..N, i # 0 PROVE turn[<<i, u[i - 1]>>] = Body(i, u[i - 1])
    <3>1. i \in 1..N /\ i - 1 \in 0..N
      BY <1>1, <2>1
    <3>2. u[i - 1] \in X /\ Has(u[i - 1], i - 1)
      BY <1>7, <3>1 DEF G
    <3> QED
      BY <1>5, <3>1, <3>2
  <2>2. \A i \in 0..N : u[i] = IF i = 0 THEN <<>> ELSE Body(i, u[i - 1])
    BY <1>7, <2>1
  <2> QED
    BY <2>2 DEF Body
<1>9. upTo = [i \in 0..N |-> IF i = 0 THEN <<>> ELSE
                               IF i \in popt.pids THEN P!AddProcess(upTo[i - 1], i) ELSE upTo[i - 1]]
  BY <1>8
<1> HIDE DEF upTo
<1>10. P!Requested = upTo[N]
  BY Zenon DEF P!Requested, upTo
<1>11. upTo[N] \in X /\ Has(upTo[N], N)
  <2>1. u[0] = <<>> /\ \A i \in 1..N : u[i] = Body(i, u[i - 1])
    <3>1. 0 \in 0..N /\ \A i \in 1..N : i \in 0..N /\ i # 0
      BY <1>1
    <3> QED
      BY <1>8, <3>1 DEF Body
  <2>2. upTo[0] = <<>> /\ \A i \in 1..N : upTo[i] = Body(i, upTo[i - 1])
    <3>1. 0 \in 0..N /\ \A i \in 1..N : i \in 0..N /\ i # 0
      BY <1>1
    <3> QED
      BY <1>9, <3>1 DEF Body
  <2>3. \A i \in 1..N : u[i - 1] = upTo[i - 1] => u[i] = upTo[i]
    BY <2>1, <2>2
  <2>4. u[0] = upTo[0] /\ N \in Nat
    BY <1>1, <2>1, <2>2
  <2>5. u[N] = upTo[N]
    BY <2>3, <2>4, LoopsAlike, Zenon
  <2>6. N \in 0..N
    BY <1>1
  <2>7. u[N] \in G[N]
    BY <1>7, <2>6
  <2> QED
    BY <2>5, <2>6, <2>7 DEF G
<1> DEFINE r == upTo[N]
<1>12. \A m, k : Now(m, k, N) <=> m \in popt.pids /\ k = 0
  BY <1>1, <1>2
<1>13. /\ r \in Seq(Entries(V, T)) /\ GoodList(r)
       /\ \A m, k : RowIn(r, m, k) = IF m \in popt.pids /\ k = 0 THEN Present(NoRow) ELSE NoRow
  <2> HIDE DEF Now
  <2> QED
    BY <1>11, <1>12 DEF X, Has
<1> QED
  BY <1>10, <1>13

-----------------------------------------------------------------------------
(* The steps.                                                                *)

\* The values in a list are among others.
LEMMA MoreValues ==
  ASSUME NEW l, IsList(l), NEW W, NEW U
  PROVE  \E V, T : W \subseteq V /\ U \subseteq T /\ l \in Seq(Entries(V, T))
<1>1. PICK V, T : l \in Seq(Entries(V, T))
  BY DEF IsList
<1> DEFINE V2 == V \cup W
           T2 == T \cup U
<1>2. Entries(V, T) \subseteq Entries(V2, T2)
  BY DEF Entries
<1> HIDE DEF V2, T2
<1>3. l \in Seq(Entries(V2, T2))
  <2>1. l = [i \in 1..Len(l) |-> l[i]] /\ Len(l) \in Nat /\ \A i \in 1..Len(l) : l[i] \in Entries(V, T)
    BY <1>1
  <2>2. \A i \in 1..Len(l) : l[i] \in Entries(V2, T2)
    BY <1>2, <2>1
  <2> QED
    BY <2>1, <2>2
<1>4. W \subseteq V2 /\ U \subseteq T2
  BY DEF V2, T2
<1> QED
  BY <1>3, <1>4

\* A list that a reading can be made of.
LEMMA ListTyped ==
  ASSUME NEW l, IsList(l)
  PROVE  \E V, T : Empty(V, T) /\ TakenFrom(V) /\ l \in Seq(Entries(V, T))
<1> DEFINE W == {P!NoSample} \cup {P!Sampled(n, b) : n \in Pids, b \in BOOLEAN}
           U == {0}
<1> HIDE DEF W, U
<1>1. PICK V, T : W \subseteq V /\ U \subseteq T /\ l \in Seq(Entries(V, T))
  BY MoreValues
<1>2. Empty(V, T)
  BY <1>1 DEF Empty, W, U
<1>3. TakenFrom(V)
  <2>1. ASSUME NEW n \in Pids, NEW b \in BOOLEAN PROVE P!Sampled(n, b) \in W
    <3> DEFINE S == {P!Sampled(m, d) : m \in Pids, d \in BOOLEAN}
    <3>1. P!Sampled(n, b) \in S
      OBVIOUS
    <3> QED
      BY <3>1 DEF W
  <2> QED
    BY <1>1, <2>1, Zenon DEF TakenFrom
<1> QED
  BY <1>1, <1>2, <1>3

LEMMA ReadingIs ==
  ASSUME PidsOK, TasksAre(task), NEW l, IsList(l), GoodList(l), NoStray(l), NEW c \in 0..2,
         \A m, k : ~RowIn(l, m, k).exist
  PROVE  LET r == P!ReadList(l, c)
         IN  /\ IsList(r) /\ GoodList(r)
             /\ \A m, k : RowIn(r, m, k) = IF IsFound(l, m, k) THEN WhenRead(RowIn(l, m, k), c, m, k)
                                           ELSE NoRow
<1>1. PICK V, T : Empty(V, T) /\ TakenFrom(V) /\ l \in Seq(Entries(V, T))
  BY ListTyped
<1> DEFINE r == P!ReadList(l, c)
<1>2. /\ r \in Seq(Entries(V, T)) /\ GoodList(r)
      /\ \A m, k : RowIn(r, m, k) = IF IsFound(l, m, k) THEN WhenRead(RowIn(l, m, k), c, m, k)
                                    ELSE NoRow
  BY <1>1, ReadListIs
<1>3. IsList(r)
  BY <1>2 DEF IsList
<1> QED
  BY <1>2, <1>3

\* Lists with the same entries and other samples or totals.
LEMMA RowsAlike ==
  ASSUME PidsOK, NEW l, IsList(l), GoodList(l), NEW r, IsList(r), DOMAIN r = DOMAIN l,
         \A i \in DOMAIN l : r[i].id = l[i].id /\ r[i].pid = l[i].pid /\ r[i].tgid = l[i].tgid
  PROVE  /\ GoodList(r)
         /\ \A n, k : \/ RowIn(l, n, k) = NoRow /\ RowIn(r, n, k) = NoRow
                      \/ \E i \in DOMAIN l : /\ Places(l, n, k) = {i} /\ l[i].pid = n /\ Kind(l[i]) = k
                                             /\ RowIn(l, n, k) = RowOf(l[i]) /\ RowIn(r, n, k) = RowOf(r[i])
<1>1. PICK V, T : l \in Seq(Entries(V, T))
  BY DEF IsList
<1>2. PICK V2, T2 : r \in Seq(Entries(V2, T2))
  BY DEF IsList
<1> QED
  BY <1>1, <1>2, SameRows

LEMMA UnsetIs ==
  ASSUME PidsOK, NEW l, IsList(l), GoodList(l)
  PROVE  LET r == P!Nonexistent(l)
         IN  /\ IsList(r) /\ GoodList(r)
             /\ \A m, k : RowIn(r, m, k) = Unset(RowIn(l, m, k))
<1>1. PICK V, T : l \in Seq(Entries(V, T))
  BY DEF IsList
<1> DEFINE r == P!Nonexistent(l)
<1>2. /\ r \in Seq(Entries(V, T)) /\ GoodList(r)
      /\ \A m, k : RowIn(r, m, k) = Unset(RowIn(l, m, k))
  BY <1>1, NonexistentIs
<1>3. IsList(r)
  BY <1>2 DEF IsList
<1> QED
  BY <1>2, <1>3

\* The row of a task that is in the list.
LEMMA ListRow ==
  ASSUME PidsOK, NEW l, IsList(l), GoodList(l), NEW i \in DOMAIN l
  PROVE  /\ l[i].pid \in Pids /\ Kind(l[i]) \in Kinds
         /\ RowIn(l, l[i].pid, Kind(l[i])) = RowOf(l[i])
         /\ RowIn(l, l[i].pid, Kind(l[i])).there
<1>1. PICK V, T : l \in Seq(Entries(V, T))
  BY DEF IsList
<1>2. l[i] \in Entries(V, T)
  BY <1>1
<1>3. l[i].pid \in Pids /\ Kind(l[i]) \in Kinds
  BY <1>2, EntryIs
<1>4. i \in Places(l, l[i].pid, Kind(l[i]))
  BY DEF Places
<1>5. RowIn(l, l[i].pid, Kind(l[i])) = RowOf(l[i])
  BY <1>1, <1>4, RowAt DEF GoodList
<1> QED
  BY <1>3, <1>5 DEF RowOf, TaskRow

\* A task that is in the list has a place in it.
LEMMA RowPlace ==
  ASSUME PidsOK, NEW l, IsList(l), GoodList(l), NEW n, NEW k, RowIn(l, n, k).there
  PROVE  \E i \in DOMAIN l : l[i].pid = n /\ Kind(l[i]) = k /\ RowIn(l, n, k) = RowOf(l[i])
<1>1. PICK V, T : l \in Seq(Entries(V, T))
  BY DEF IsList
<1>2. PICK i \in Places(l, n, k) : TRUE
  BY <1>1, RowHas DEF GoodList
<1> QED
  BY <1>1, <1>2, RowAt DEF GoodList

\* In a list, a process is there when it has an entry.
LEMMA HasProcess ==
  ASSUME PidsOK, NEW l, IsList(l), GoodList(l), NEW p
  PROVE  (\E i \in DOMAIN l : l[i].tgid = P!NoEntry /\ l[i].pid = p) <=> RowIn(l, p, 0).there
<1>1. ASSUME NEW i \in DOMAIN l, l[i].tgid = P!NoEntry, l[i].pid = p PROVE RowIn(l, p, 0).there
  <2>1. Kind(l[i]) = 0
    BY <1>1 DEF Kind
  <2> QED
    BY <1>1, <2>1, ListRow
<1>2. ASSUME RowIn(l, p, 0).there
      PROVE  \E i \in DOMAIN l : l[i].tgid = P!NoEntry /\ l[i].pid = p
  <2>1. PICK i \in DOMAIN l : l[i].pid = p /\ Kind(l[i]) = 0
    BY <1>2, RowPlace
  <2>2. l[i].tgid = P!NoEntry
    <3>1. PICK V, T : l \in Seq(Entries(V, T))
      BY DEF IsList
    <3>2. l[i] \in Entries(V, T)
      BY <3>1
    <3> QED
      BY <2>1, <3>2, EntryIs
  <2> QED
    BY <2>1, <2>2
<1> QED
  BY <1>1, <1>2

\* What is not a task has no row.
LEMMA NoOtherRow ==
  ASSUME PidsOK, NEW l, IsList(l), GoodList(l), NEW n, NEW k, ~(n \in Pids /\ k \in Kinds)
  PROVE  RowIn(l, n, k) = NoRow
<1>1. PICK V, T : l \in Seq(Entries(V, T))
  BY DEF IsList
<1>2. CASE Places(l, n, k) = {}
  BY <1>2 DEF RowIn
<1>3. CASE Places(l, n, k) # {}
  <2>1. PICK i \in DOMAIN l : l[i].pid = n /\ Kind(l[i]) = k
    BY <1>3 DEF Places
  <2>2. l[i] \in Entries(V, T)
    BY <1>1
  <2> QED
    BY <2>1, <2>2, EntryIs
<1> QED
  BY <1>2, <1>3

\* The first sample is kept.
Kept(e) == [e EXCEPT !.st[2] = e.st[0]]
KeptRow(row) == TaskRow(row.there, row.exist, [row.st EXCEPT ![2] = row.st[0]], row.total, row.asum)

LEMMA KeptEntry ==
  ASSUME NEW V, NEW T, NEW e \in Entries(V, T)
  PROVE  /\ Kept(e) \in Entries(V, T) /\ Kept(e).id = e.id /\ Kept(e).pid = e.pid /\ Kept(e).tgid = e.tgid
         /\ RowOf(Kept(e)) = KeptRow(RowOf(e))
<1> DEFINE f == [e EXCEPT !.st[2] = e.st[0]]
<1>1. f \in Entries(V, T)
  BY DEF Entries
<1>2. f.id = e.id /\ f.pid = e.pid /\ f.tgid = e.tgid
  BY DEF Entries
<1>3. f.exist = e.exist /\ f.total = e.total /\ f.asum = e.asum
  BY DEF Entries
<1>4. f.st = [e.st EXCEPT ![2] = e.st[0]]
  BY DEF Entries
<1> HIDE DEF f
<1>5. RowOf(e).there /\ RowOf(e).exist = e.exist /\ RowOf(e).st = e.st /\ RowOf(e).total = e.total
      /\ RowOf(e).asum = e.asum
  BY DEF RowOf, TaskRow
<1>6. RowOf(f) = KeptRow(RowOf(e))
  <2>1. RowOf(e).there = TRUE
    BY DEF RowOf, TaskRow
  <2> QED
    BY <1>3, <1>4, <1>5, <2>1 DEF RowOf, KeptRow
<1> QED
  BY <1>1, <1>2, <1>6 DEF f, Kept

KeepFirst(l) == [i \in DOMAIN l |-> Kept(l[i])]

LEMMA KeptIs ==
  ASSUME PidsOK, NEW l, IsList(l), GoodList(l)
  PROVE  LET r == KeepFirst(l)
         IN  /\ IsList(r) /\ GoodList(r)
             /\ \A m, k : RowIn(r, m, k) = KeptRow(RowIn(l, m, k))
<1> DEFINE r == KeepFirst(l)
<1>1. PICK V, T : l \in Seq(Entries(V, T))
  BY DEF IsList
<1>2. DOMAIN l = 1..Len(l) /\ Len(l) \in Nat /\ \A j \in DOMAIN l : l[j] \in Entries(V, T)
  BY <1>1
<1>3. DOMAIN r = DOMAIN l /\ \A i \in DOMAIN l : r[i] = Kept(l[i])
  BY DEF KeepFirst
<1>4. \A i \in DOMAIN l : /\ r[i] \in Entries(V, T) /\ r[i].id = l[i].id /\ r[i].pid = l[i].pid
                          /\ r[i].tgid = l[i].tgid /\ RowOf(r[i]) = KeptRow(RowOf(l[i]))
  BY <1>2, <1>3, KeptEntry
<1>5. IsList(r)
  <2>1. r = [i \in 1..Len(l) |-> Kept(l[i])]
    BY <1>2 DEF KeepFirst
  <2>2. \A i \in 1..Len(l) : Kept(l[i]) \in Entries(V, T)
    BY <1>2, <1>3, <1>4
  <2>3. r \in Seq(Entries(V, T))
    BY <1>2, <2>1, <2>2
  <2> QED
    BY <2>3 DEF IsList
<1> HIDE DEF r
<1>6. KeptRow(NoRow) = NoRow
  <2>1. [NoStats EXCEPT ![2] = NoStats[0]] = NoStats
    BY DEF NoStats
  <2> QED
    BY <2>1 DEF KeptRow, NoRow, TaskRow
<1>7. /\ GoodList(r)
      /\ \A m, k : \/ RowIn(l, m, k) = NoRow /\ RowIn(r, m, k) = NoRow
                   \/ \E i \in DOMAIN l : RowIn(l, m, k) = RowOf(l[i]) /\ RowIn(r, m, k) = RowOf(r[i])
  BY <1>3, <1>4, <1>5, RowsAlike
<1>8. ASSUME NEW m, NEW k PROVE RowIn(r, m, k) = KeptRow(RowIn(l, m, k))
  BY <1>4, <1>6, <1>7
<1> QED
  BY <1>5, <1>7, <1>8 DEF r

LEMMA OptionsTyped ==
  ASSUME PidOptionsOK, popt \in PidOptions
  PROVE  /\ popt.all \in BOOLEAN /\ popt.active \in BOOLEAN /\ popt.tid \in BOOLEAN /\ popt.match \in BOOLEAN
         /\ popt.G \subseteq Pids /\ popt.pids \subseteq Pids /\ popt.acts \subseteq {"cpu", "sw", "mem"}
         /\ popt.oneline \in BOOLEAN /\ popt.json \in BOOLEAN /\ popt.interval \in BOOLEAN
<1>1. popt \in [all: BOOLEAN, active: BOOLEAN, tid: BOOLEAN, match: BOOLEAN, G: SUBSET Pids,
                pids: SUBSET Pids, acts: SUBSET {"cpu", "sw", "mem"}, oneline: BOOLEAN,
                json: BOOLEAN, interval: BOOLEAN, count: Int]
  BY DEF PidOptionsOK
<1> QED
  BY <1>1

\* What a reading finds is what is said to be listed, when the processes in the
\* list before were those of the command line never missed before.
LEMMA FoundListed ==
  ASSUME PidsOK, TasksAre(task), NEW l, IsList(l), GoodList(l), NEW missed,
         ~popt.all => \A p \in Pids : task[p].tgid = p =>
                        (RowIn(l, p, 0).there <=> p \in popt.pids \ missed),
         NEW n \in Pids, NEW k \in Kinds
  PROVE  IsFound(l, n, k) <=> /\ task[n].tgid = Of(n, k)
                              /\ popt.all \/ task[n].tgid \in popt.pids \ missed
                              /\ k # 0 => popt.tid
<1>1. CASE task[n].tgid # Of(n, k)
  BY <1>1 DEF IsFound
<1>2. CASE task[n].tgid = Of(n, k)
  <2> DEFINE p == task[n].tgid
  <2>1. p \in Pids /\ task[p].tgid = p
    <3>1. p \in Pids /\ p # 0
      BY <1>2 DEF Of, Kinds, PidsOK
    <3> QED
      BY <3>1 DEF TasksAre
  <2>2. P!IsRead(l, p) <=> popt.all \/ RowIn(l, p, 0).there
    BY <2>1, HasProcess DEF P!IsRead, P!Processes
  <2>3. P!IsRead(l, p) <=> popt.all \/ p \in popt.pids \ missed
    BY <2>1, <2>2
  <2> QED
    BY <1>2, <2>3 DEF IsFound
<1> QED
  BY <1>1, <1>2

\* The first reading.
LEMMA ReadFirstKeeps ==
  ASSUME PidsOK, PidOptionsOK, PidInv, P!ReadFirst
  PROVE  PidInv'
<1> DEFINE r == P!ReadList(pid_list, 0)
<1>1. /\ ppc = "begin" /\ task0' = task /\ lost' = Pids \ P!Processes
      /\ pid_list' = IF popt.interval THEN [i \in DOMAIN r |-> [r[i] EXCEPT !.st[2] = r[i].st[0]]] ELSE r
      /\ ppc' = IF popt.interval THEN "first" ELSE "boot"
      /\ task' = task /\ task1' = task1 /\ gauge' = gauge /\ mixed' = mixed /\ popt' = popt /\ pcurr' = pcurr /\ pout' = pout
  BY DEF P!ReadFirst
<1>2. /\ TaskKernel /\ popt \in PidOptions /\ pcurr = 1 /\ GaugesOK /\ pout = {}
      /\ IsList(pid_list) /\ GoodList(pid_list) /\ TasksAre(task) /\ task1 = task
      /\ mixed = {} /\ \A n \in Pids : gauge[n] = P!NoReports
      /\ \A n \in Pids, k \in Kinds :
           RowIn(pid_list, n, k) = IF k = 0 /\ n \in popt.pids THEN Present(NoRow) ELSE NoRow
  BY <1>1 DEF PidInv, PidType, TaskKernel, ListInv
<1>3. popt.pids \subseteq Pids /\ popt.interval \in BOOLEAN /\ popt.tid \in BOOLEAN /\ popt.all \in BOOLEAN
  BY <1>2, OptionsTyped
<1>4. ~Present(NoRow).exist /\ ~NoRow.exist /\ Present(NoRow).there /\ ~NoRow.there
  BY DEF Present, NoRow, TaskRow
<1>5. \A m, k : ~RowIn(pid_list, m, k).exist
  <2>1. \A m, k : m \in Pids /\ k \in Kinds => ~RowIn(pid_list, m, k).exist
    BY <1>2, <1>4
  <2>2. \A m, k : ~(m \in Pids /\ k \in Kinds) => ~RowIn(pid_list, m, k).exist
    BY <1>2, <1>4, NoOtherRow
  <2> QED
    BY <2>1, <2>2
<1>6. /\ IsList(r) /\ GoodList(r)
      /\ \A m, k : RowIn(r, m, k) = IF IsFound(pid_list, m, k) THEN WhenRead(RowIn(pid_list, m, k), 0, m, k)
                                    ELSE NoRow
  <2>1. NoStray(pid_list)
    <3>1. \A p, k \in Pids : ~RowIn(pid_list, p, k).there
      <4>1. \A k \in Pids : k # 0 /\ k \in Kinds
        BY DEF PidsOK, Kinds
      <4> QED
        BY <1>2, <1>4, <4>1
    <3> QED
      BY <3>1 DEF NoStray, Alone, P!Processes
  <2> QED
    BY <1>2, <1>5, <2>1, ReadingIs
<1> HIDE DEF r
<1>7. TaskKernel'
  <2>1. Follow(task, task) /\ TasksAre(task)
    BY <1>2 DEF Follow, TaskKernel, TasksAre
  <2>2. task0' = task' /\ task1' = task' /\ task' = task
    BY <1>1, <1>2
  <2>3. TasksAre(task') /\ Follow(task', task')
    BY <2>1, <2>2
  <2> QED
    BY <2>2, <2>3 DEF TaskKernel
<1>8. ASSUME NEW n \in Pids PROVE (n \notin lost' <=> task[n].tgid = n)
  BY <1>1 DEF P!Processes
<1>9. ASSUME NEW n \in Pids, NEW k \in Kinds
      PROVE  IsFound(pid_list, n, k) <=> /\ task[n].tgid = Of(n, k)
                                         /\ popt.all \/ task[n].tgid \in popt.pids \ lost'
                                         /\ k # 0 => popt.tid
  <2>1. ASSUME NEW p \in Pids, task[p].tgid = p
        PROVE  RowIn(pid_list, p, 0).there <=> p \in popt.pids \ lost'
    <3>2. p \notin lost'
      BY <1>8, <2>1
    <3>3. RowIn(pid_list, p, 0) = IF p \in popt.pids THEN Present(NoRow) ELSE NoRow
      BY <1>2 DEF Kinds
    <3> QED
      BY <1>4, <3>2, <3>3
  <2> QED
    <3>1. ~popt.all => \A p \in Pids : task[p].tgid = p =>
                          (RowIn(pid_list, p, 0).there <=> p \in popt.pids \ lost')
      BY <2>1
    <3> DEFINE missed == lost'
    <3> HIDE DEF missed
    <3>2. ~popt.all => \A p \in Pids : task[p].tgid = p =>
                          (RowIn(pid_list, p, 0).there <=> p \in popt.pids \ missed)
      BY <3>1 DEF missed
    <3>3. IsFound(pid_list, n, k) <=> /\ task[n].tgid = Of(n, k)
                                      /\ popt.all \/ task[n].tgid \in popt.pids \ missed
                                      /\ k # 0 => popt.tid
      BY <1>2, <3>2, FoundListed
    <3> QED
      BY <3>3 DEF missed
<1>10. CASE popt.interval
  <2>1. ppc' = "first"
    BY <1>1, <1>10
  <2>2. pid_list' = KeepFirst(r)
    BY <1>1, <1>10 DEF KeepFirst, Kept
  <2>3. /\ IsList(pid_list') /\ GoodList(pid_list')
        /\ \A m, k : RowIn(pid_list', m, k) = KeptRow(RowIn(r, m, k))
    BY <1>6, <2>2, KeptIs
  <2>4. PidType'
    <3>1. lost' \subseteq Pids
      BY <1>1
    <3> QED
      BY <1>1, <1>2, <1>10, <2>1, <2>3, <3>1 DEF PidType, GaugesOK
  <2>5. KeptRow(NoRow) = NoRow
    <3>1. [NoStats EXCEPT ![2] = NoStats[0]] = NoStats
      BY DEF NoStats
    <3> QED
      BY <3>1 DEF KeptRow, NoRow, TaskRow
  <2>6. ASSUME NEW n \in Pids, NEW k \in Kinds
        PROVE  IF ListedIn(task, n, k)'
               THEN /\ RowIn(pid_list', n, k).there /\ RowIn(pid_list', n, k).exist
                    /\ RowIn(pid_list', n, k).st[2] = SampleIn(task, n, k)
                    /\ RowIn(pid_list', n, k).st[0] = SampleIn(task, n, k)
                    /\ RowIn(pid_list', n, k).total = 0 /\ RowIn(pid_list', n, k).asum = 0
               ELSE RowIn(pid_list', n, k) = NoRow
    <3>1. ListedIn(task, n, k)' <=> IsFound(pid_list, n, k)
      BY <1>1, <1>9 DEF ListedIn
    <3>2. CASE ~IsFound(pid_list, n, k)
      BY <1>6, <2>3, <2>5, <3>1, <3>2
    <3>3. CASE IsFound(pid_list, n, k)
      <4> DEFINE row == RowIn(pid_list, n, k)
      <4>1. RowIn(pid_list', n, k) = KeptRow(WhenRead(row, 0, n, k))
        BY <1>6, <2>3, <3>3
      <4>2. row.st = NoStats /\ row.total = 0 /\ row.asum = 0
        BY <1>2 DEF Present, NoRow, TaskRow
      <4>3. task[n].tgid = Of(n, k)
        BY <1>9, <3>3
      <4>4. P!Sampled(n, k # 0) = SampleIn(task, n, k)
        BY <4>3 DEF P!Sampled, SampleIn
      <4>5. WhenRead(row, 0, n, k) = TaskRow(TRUE, TRUE, [NoStats EXCEPT ![0] = SampleIn(task, n, k)], 0, 0)
        BY <4>2, <4>4 DEF WhenRead, Filled
      <4> DEFINE st == [NoStats EXCEPT ![0] = SampleIn(task, n, k)]
      <4>6. st[0] = SampleIn(task, n, k) /\ st = [i \in 0..2 |-> st[i]]
        BY DEF NoStats
      <4>7. [st EXCEPT ![2] = st[0]][2] = SampleIn(task, n, k) /\ [st EXCEPT ![2] = st[0]][0] = SampleIn(task, n, k)
        BY <4>6 DEF NoStats
      <4> HIDE DEF st, row
      <4>8. RowIn(pid_list', n, k) = TaskRow(TRUE, TRUE, [st EXCEPT ![2] = st[0]], 0, 0)
        <5>1. WhenRead(row, 0, n, k) = TaskRow(TRUE, TRUE, st, 0, 0)
          BY <4>5 DEF st
        <5>2. KeptRow(TaskRow(TRUE, TRUE, st, 0, 0)) = TaskRow(TRUE, TRUE, [st EXCEPT ![2] = st[0]], 0, 0)
          BY DEF KeptRow, TaskRow
        <5> QED
          BY <4>1, <5>1, <5>2
      <4> QED
        BY <3>1, <3>3, <4>7, <4>8 DEF TaskRow
    <3> QED
      BY <3>2, <3>3
  <2>7. AsRead(task)'
    <3>1. \A n \in Pids \ lost' : task'[n].tgid = n
      BY <1>1, <1>8
    <3> QED
      BY <1>1, <2>6, <3>1 DEF AsRead, SampleIn
  <2>8. SlotIs(0, task)' /\ GaugesAre'
    <3>1. ~NoRow.there
      BY <1>4
    <3>2. SlotIs(0, task)'
      BY <1>1, <2>6, <3>1 DEF SlotIs, SampleIn
    <3>3. P!NoReports.total = 0 /\ P!NoReports.n = 0
      BY DEF P!NoReports
    <3>4. GaugesAre'
      <4> SUFFICES ASSUME NEW n \in Pids, NEW k \in Kinds, RowIn(pid_list', n, k).there
                   PROVE  /\ RowIn(pid_list', n, k).asum \in Nat
                          /\ Averaged(n, RowIn(pid_list, n, k).total, RowIn(pid_list, n, k).asum)'
        BY DEF GaugesAre
      <4>1. RowIn(pid_list', n, k).total = 0 /\ RowIn(pid_list', n, k).asum = 0
        BY <2>6, <3>1
      <4> QED
        BY <1>1, <1>2, <3>3, <4>1 DEF Averaged
    <3> QED
      BY <3>2, <3>4
  <2> QED
    BY <1>7, <2>1, <2>4, <2>7, <2>8 DEF PidInv, ListInv
<1>11. CASE ~popt.interval
  <2>1. ppc' = "boot" /\ pid_list' = r
    BY <1>1, <1>11
  <2>2. PidType'
    <3>1. lost' \subseteq Pids
      BY <1>1
    <3> QED
      BY <1>1, <1>2, <1>6, <1>11, <2>1, <3>1 DEF PidType, GaugesOK
  <2> QED
    BY <1>7, <2>1, <2>2 DEF PidInv, ListInv
<1> QED
  BY <1>10, <1>11

\* A task found by a reading was found by the one before, if its number was in
\* the same process then.
LEMMA ListedBefore ==
  ASSUME NEW n \in Pids, NEW k \in Kinds, task[n].tgid = Of(n, k), task1[n].tgid = task[n].tgid,
         popt.all \/ task[n].tgid \in popt.pids \ lost, k # 0 => popt.tid
  PROVE  ListedIn(task1, n, k)
BY DEF ListedIn

\* The next readings, while no number of a thread becomes that of a process.
LEMMA ReadStatsKeeps ==
  ASSUME PidsOK, PidOptionsOK, PidInv, P!ReadStats, ~promoted'
  PROVE  PidInv'
<1> DEFINE l == P!Nonexistent(pid_list)
           r == P!ReadList(l, pcurr)
           Counted0(n) == IF P!Same(task1, n) THEN gauge[n] ELSE P!NoReports
<1>1. /\ ppc = "read" /\ lost' = lost \cup (Pids \ P!Processes)
      /\ gauge' = [n \in Pids |-> IF P!Alive(n) THEN [total |-> Counted0(n).total + task[task[n].tgid].mem,
                                                      n |-> Counted0(n).n + 1]
                                  ELSE P!NoReports]
      /\ mixed' = {n \in Pids : /\ P!Alive(n) /\ task1[n].tgid = task[n].tgid
                                /\ n \in mixed \/ (~P!Same(task1, n) /\ gauge[n].n # 0)}
      /\ promoted' = (promoted \/ \E n \in P!Processes : popt.tid /\ task1[n].tgid \notin {0, n})
      /\ pid_list' = r /\ ppc' = "write"
      /\ task' = task /\ task0' = task0 /\ task1' = task1 /\ popt' = popt /\ pcurr' = pcurr /\ pout' = pout
  BY DEF P!ReadStats
<1>2. /\ TaskKernel /\ popt \in PidOptions /\ pcurr \in {0, 1} /\ lost \subseteq Pids /\ pout = {}
      /\ IsList(pid_list) /\ GoodList(pid_list) /\ TasksAre(task) /\ popt.interval
      /\ AsRead(task1) /\ SlotIs(1 - pcurr, task1) /\ GaugesAre /\ GaugesOK
  BY <1>1 DEF PidInv, PidType, TaskKernel, ListInv
<1>3. popt.pids \subseteq Pids /\ popt.tid \in BOOLEAN /\ popt.all \in BOOLEAN
  BY <1>2, OptionsTyped
<1>4. /\ IsList(l) /\ GoodList(l)
      /\ \A m, k : RowIn(l, m, k) = Unset(RowIn(pid_list, m, k))
  BY <1>2, UnsetIs
<1> HIDE DEF l
<1>5. \A m, k : /\ ~RowIn(l, m, k).exist /\ RowIn(l, m, k).there = RowIn(pid_list, m, k).there
                /\ RowIn(l, m, k).st = RowIn(pid_list, m, k).st
                /\ RowIn(l, m, k).total = RowIn(pid_list, m, k).total
                /\ RowIn(l, m, k).asum = RowIn(pid_list, m, k).asum
  BY <1>4 DEF Unset, TaskRow
<1>24. ~NoRow.there /\ NoRow.st = NoStats /\ NoRow.total = 0 /\ NoRow.asum = 0
  BY DEF NoRow, TaskRow
<1>10. ASSUME NEW n \in Pids, NEW k \in Kinds
       PROVE  /\ RowIn(pid_list, n, k).there <=> ListedIn(task1, n, k)
              /\ ~RowIn(pid_list, n, k).there => RowIn(pid_list, n, k) = NoRow
  BY <1>2, <1>24 DEF AsRead
<1>25. NoStray(l)
  <2> SUFFICES ASSUME NEW p \in Pids, task[p].tgid = p, NEW k \in Pids \ {p}, RowIn(l, p, k).there PROVE FALSE
    BY DEF NoStray, Alone, P!Processes
  <2>1. ListedIn(task1, p, k) /\ k # 0
    BY <1>5, <1>10 DEF Kinds, PidsOK
  <2>2. popt.tid /\ task1[p].tgid = k
    BY <2>1 DEF ListedIn, Of
  <2>3. p \in P!Processes /\ task1[p].tgid \notin {0, p}
    BY <2>1, <2>2 DEF P!Processes
  <2> QED
    BY <1>1, <2>2, <2>3
<1>6. /\ IsList(r) /\ GoodList(r)
      /\ \A m, k : RowIn(r, m, k) = IF IsFound(l, m, k) THEN WhenRead(RowIn(l, m, k), pcurr, m, k)
                                    ELSE NoRow
  <2>1. pcurr \in 0..2
    BY <1>2
  <2> QED
    BY <1>2, <1>4, <1>5, <1>25, <2>1, ReadingIs
<1> HIDE DEF r
<1>7. TaskKernel'
  BY <1>1, <1>2 DEF TaskKernel
<1>8. ASSUME NEW n \in Pids PROVE n \in lost' <=> n \in lost \/ task[n].tgid # n
  BY <1>1 DEF P!Processes
<1>11. ASSUME NEW p \in Pids, task[p].tgid = p PROVE p # 0 /\ (p \in lost' <=> p \in lost)
  BY <1>8, <1>11 DEF PidsOK
<1>12. ASSUME NEW n \in Pids, NEW k \in Kinds
      PROVE  IsFound(l, n, k) <=> /\ task[n].tgid = Of(n, k)
                                  /\ popt.all \/ task[n].tgid \in popt.pids \ lost'
                                  /\ k # 0 => popt.tid
  <2>1. ASSUME ~popt.all, NEW p \in Pids, task[p].tgid = p
        PROVE  RowIn(l, p, 0).there <=> p \in popt.pids \ lost'
    <3>1. RowIn(l, p, 0).there <=> ListedIn(task1, p, 0)
      BY <1>5, <1>10 DEF Kinds
    <3>2. ListedIn(task1, p, 0) => p \in popt.pids \ lost'
      BY <1>11, <2>1 DEF ListedIn, Of
    <3>3. ASSUME p \in popt.pids \ lost' PROVE ListedIn(task1, p, 0)
      <4>1. p \notin lost
        BY <1>8, <3>3
      <4>2. task1[p].tgid = p
        BY <1>2, <4>1 DEF AsRead
      <4> QED
        BY <3>3, <4>1, <4>2 DEF ListedIn, Of
    <3> QED
      BY <3>1, <3>2, <3>3
  <2> QED
    <3> DEFINE missed == lost'
    <3>1. ~popt.all => \A p \in Pids : task[p].tgid = p =>
                          (RowIn(l, p, 0).there <=> p \in popt.pids \ missed)
      BY <2>1
    <3> HIDE DEF missed
    <3>2. IsFound(l, n, k) <=> /\ task[n].tgid = Of(n, k)
                               /\ popt.all \/ task[n].tgid \in popt.pids \ missed
                               /\ k # 0 => popt.tid
      BY <1>2, <1>4, <3>1, FoundListed
    <3> QED
      BY <3>2 DEF missed
<1>13. ASSUME NEW n \in Pids, NEW k \in Kinds, IsFound(l, n, k)
       PROVE  /\ task[n].tgid = Of(n, k) /\ task[n].tgid # 0 /\ P!Alive(n)
              /\ task1[n].tgid = task[n].tgid => ListedIn(task1, n, k)
              /\ task1[n].tgid # task[n].tgid => RowIn(pid_list, n, k) = NoRow
  <2>1. /\ task[n].tgid = Of(n, k)
        /\ popt.all \/ task[n].tgid \in popt.pids \ lost'
        /\ k # 0 => popt.tid
    BY <1>12, <1>13
  <2>2. popt.all \/ task[n].tgid \in popt.pids \ lost
    BY <1>1, <2>1
  <2>3. task[n].tgid # 0 /\ P!Alive(n)
    BY <2>1 DEF P!Alive, PidsOK, Kinds, Of
  <2>4. task1[n].tgid # task[n].tgid => RowIn(pid_list, n, k) = NoRow
    BY <1>10, <2>1 DEF ListedIn
  <2> QED
    BY <2>1, <2>2, <2>3, <2>4, ListedBefore
<1>14. ASSUME NEW n \in Pids, NEW k \in Kinds, IsFound(l, n, k)
       PROVE  /\ RowIn(pid_list', n, k).there /\ RowIn(pid_list', n, k).exist
              /\ RowIn(pid_list', n, k).st[pcurr] = SampleIn(task, n, k)
              /\ RowIn(pid_list', n, k).st[1 - pcurr] = RowIn(pid_list, n, k).st[1 - pcurr]
              /\ RowIn(pid_list', n, k).st[2] = RowIn(pid_list, n, k).st[2]
              /\ RowIn(pid_list', n, k).total = RowIn(pid_list, n, k).total
              /\ RowIn(pid_list', n, k).asum = RowIn(pid_list, n, k).asum
  <2>1. RowIn(pid_list', n, k) = WhenRead(RowIn(l, n, k), pcurr, n, k)
    BY <1>1, <1>6, <1>14
  <2>2. P!Sampled(n, k # 0) = SampleIn(task, n, k)
    BY <1>13, <1>14 DEF P!Sampled, SampleIn
  <2> DEFINE st == RowIn(pid_list, n, k).st
  <2>3. DOMAIN st = 0..2
    <3>1. CASE ~RowIn(pid_list, n, k).there
      BY <1>24, <1>10, <3>1 DEF NoStats
    <3>2. CASE RowIn(pid_list, n, k).there
      <4>1. PICK i \in DOMAIN pid_list : RowIn(pid_list, n, k) = RowOf(pid_list[i])
        BY <1>2, <3>2, RowPlace
      <4>2. PICK V, T : pid_list \in Seq(Entries(V, T))
        BY <1>2 DEF IsList
      <4>3. pid_list[i] \in Entries(V, T)
        BY <4>2
      <4>4. pid_list[i].st \in [0..2 -> V]
        BY <4>3, EntryIs
      <4> QED
        BY <4>1, <4>4 DEF RowOf, TaskRow
    <3> QED
      BY <3>1, <3>2
  <2> HIDE DEF st
  <2>4. /\ pcurr \in 0..2 /\ 1 - pcurr \in 0..2 /\ 2 \in 0..2 /\ 1 - pcurr # pcurr /\ 2 # pcurr
    BY <1>2
  <2> DEFINE new == [st EXCEPT ![pcurr] = SampleIn(task, n, k)]
  <2>5. new[pcurr] = SampleIn(task, n, k) /\ new[1 - pcurr] = st[1 - pcurr] /\ new[2] = st[2]
    BY <2>3, <2>4
  <2>6. RowIn(pid_list', n, k) = TaskRow(TRUE, TRUE, new, RowIn(pid_list, n, k).total, RowIn(pid_list, n, k).asum)
    BY <1>5, <2>1, <2>2 DEF WhenRead, Filled, st
  <2> HIDE DEF new
  <2> QED
    BY <2>5, <2>6 DEF TaskRow, st
<1>15. ASSUME NEW n \in Pids, NEW k \in Kinds, ~IsFound(l, n, k) PROVE RowIn(pid_list', n, k) = NoRow
  BY <1>1, <1>6, <1>15
<1>16. PidType'
  <2>1. lost' \subseteq Pids /\ GaugesOK'
    <3>1. lost' \subseteq Pids /\ DOMAIN gauge' = Pids
      BY <1>1, <1>2
    <3>2. ASSUME NEW n \in Pids PROVE gauge'[n].n \in Nat /\ (gauge'[n].n = 0 => gauge'[n].total = 0)
      <4>1. P!NoReports.n = 0 /\ P!NoReports.total = 0
        BY DEF P!NoReports
      <4>2. Counted0(n).n \in Nat
        BY <1>2, <4>1 DEF GaugesOK
      <4> HIDE DEF Counted0
      <4>3. CASE P!Alive(n)
        <5>1. gauge'[n] = [total |-> Counted0(n).total + task[task[n].tgid].mem, n |-> Counted0(n).n + 1]
          BY <1>1, <4>3
        <5>2. gauge'[n].n = Counted0(n).n + 1
          BY <5>1
        <5> QED
          BY <4>2, <5>2
      <4>4. CASE ~P!Alive(n)
        BY <1>1, <4>1, <4>4
      <4> QED
        BY <4>3, <4>4
    <3> QED
      BY <3>1, <3>2 DEF GaugesOK
  <2> QED
    BY <1>1, <1>2, <1>6, <2>1 DEF PidType
<1>17. ASSUME NEW n \in Pids, NEW k \in Kinds PROVE ListedIn(task, n, k)' <=> IsFound(l, n, k)
  BY <1>1, <1>12 DEF ListedIn
<1>26. ASSUME NEW n \in Pids, task[n].tgid # 0, task[n].birth = task1[n].birth PROVE task1[n].tgid = task[n].tgid
  BY <1>2, <1>26 DEF TaskKernel, Follow
<1>18. ASSUME NEW n \in Pids, NEW k \in Kinds, IsFound(l, n, k),
              task0[n].birth = task[n].birth \/ task0[n].tgid # task[n].tgid
       PROVE  RowIn(pid_list, n, k).st[2] = SampleIn(task0, n, k)
  <2>1. /\ task0[n].birth \in Nat /\ task1[n].birth \in Nat /\ task[n].birth \in Nat
        /\ task0[n].birth <= task1[n].birth /\ task1[n].birth <= task[n].birth
    BY <1>2 DEF TaskKernel, TasksAre, Follow
  <2>2. CASE task1[n].tgid = task[n].tgid
    <3>1. ListedIn(task1, n, k)
      BY <1>13, <1>18, <2>2
    <3>2. task0[n].birth = task1[n].birth \/ task0[n].tgid # task1[n].tgid
      BY <1>18, <2>1, <2>2
    <3> QED
      BY <1>2, <3>1, <3>2 DEF AsRead
  <2>3. CASE task1[n].tgid # task[n].tgid
    <3>1. task0[n].tgid # Of(n, k)
      BY <1>13, <1>18, <1>26, <2>1, <2>3
    <3>2. RowIn(pid_list, n, k) = NoRow
      BY <1>13, <1>18, <2>3
    <3>3. NoStats[2] = P!NoSample
      BY DEF NoStats
    <3> QED
      BY <1>24, <3>1, <3>2, <3>3 DEF SampleIn
  <2> QED
    BY <2>2, <2>3
<1>19. ASSUME NEW n \in Pids, NEW k \in Kinds, IsFound(l, n, k)
       PROVE  RowIn(pid_list, n, k).st[1 - pcurr] = SampleIn(task1, n, k)
  <2>1. CASE task1[n].tgid = task[n].tgid
    <3>1. RowIn(pid_list, n, k).there
      BY <1>10, <1>13, <1>19, <2>1
    <3> QED
      BY <1>2, <3>1 DEF SlotIs
  <2>2. CASE task1[n].tgid # task[n].tgid
    <3>1. RowIn(pid_list, n, k) = NoRow /\ task1[n].tgid # Of(n, k)
      BY <1>13, <1>19, <2>2
    <3>2. NoStats[1 - pcurr] = P!NoSample
      BY <1>2 DEF NoStats
    <3> QED
      BY <1>24, <3>1, <3>2 DEF SampleIn
  <2> QED
    BY <2>1, <2>2
<1>20. ASSUME NEW n \in Pids, NEW k \in Kinds, IsFound(l, n, k), P!Summing
       PROVE  LET total == RowIn(pid_list, n, k).total + task[task[n].tgid].mem
                  asum == RowIn(pid_list, n, k).asum + 1
              IN  /\ RowIn(pid_list, n, k).asum \in Nat
                  /\ n \notin mixed' => total = gauge'[n].total /\ asum = gauge'[n].n
                  /\ n \in mixed' => asum > gauge'[n].n
  <2> DEFINE mem == task[task[n].tgid].mem
             row == RowIn(pid_list, n, k)
  <2>3. /\ gauge'[n].total = Counted0(n).total + mem /\ gauge'[n].n = Counted0(n).n + 1
        /\ n \in mixed' <=> /\ task1[n].tgid = task[n].tgid
                            /\ n \in mixed \/ (~P!Same(task1, n) /\ gauge[n].n # 0)
    <3>1. P!Alive(n)
      BY <1>13, <1>20
    <3> HIDE DEF Counted0, mem
    <3>2. gauge'[n] = [total |-> Counted0(n).total + mem, n |-> Counted0(n).n + 1]
      BY <1>1, <3>1 DEF mem
    <3> QED
      BY <1>1, <3>1, <3>2
  <2>4. P!NoReports.n = 0 /\ P!NoReports.total = 0
    BY DEF P!NoReports
  <2>5. gauge[n].n \in Nat /\ (gauge[n].n = 0 => gauge[n].total = 0)
    BY <1>2 DEF GaugesOK
  <2> HIDE DEF mem, row
  <2>1. CASE task1[n].tgid = task[n].tgid
    <3>1. row.there
      BY <1>10, <1>13, <1>20, <2>1 DEF row
    <3>2. /\ row.asum \in Nat
          /\ n \notin mixed => row.total = gauge[n].total /\ row.asum = gauge[n].n
          /\ n \in mixed => row.asum > gauge[n].n
      BY <1>2, <1>20, <3>1 DEF GaugesAre, Averaged, row
    <3>3. CASE P!Same(task1, n)
      <4>1. Counted0(n) = gauge[n]
        BY <3>3
      <4> HIDE DEF Counted0
      <4>2. n \in mixed' <=> n \in mixed
        BY <2>1, <2>3, <3>3
      <4>3. n \notin mixed' => row.total + mem = gauge'[n].total /\ row.asum + 1 = gauge'[n].n
        BY <2>3, <3>2, <4>1, <4>2
      <4>4. n \in mixed' => row.asum + 1 > gauge'[n].n
        BY <2>3, <2>5, <3>2, <4>1, <4>2
      <4> QED
        BY <3>2, <4>3, <4>4 DEF row, mem
    <3>4. CASE ~P!Same(task1, n)
      <4>1. Counted0(n).n = 0 /\ Counted0(n).total = 0
        BY <2>4, <3>4
      <4> HIDE DEF Counted0
      <4>2. n \in mixed' <=> n \in mixed \/ gauge[n].n # 0
        BY <2>1, <2>3, <3>4
      <4>3. n \notin mixed' => row.total = 0 /\ row.asum = 0
        BY <2>5, <3>2, <4>2
      <4>5. n \notin mixed' => row.total + mem = gauge'[n].total /\ row.asum + 1 = gauge'[n].n
        BY <2>3, <4>1, <4>3
      <4>4. n \in mixed' => row.asum + 1 > gauge'[n].n
        BY <2>3, <2>5, <3>2, <4>1, <4>2
      <4> QED
        BY <3>2, <4>4, <4>5 DEF row, mem
    <3> QED
      BY <3>3, <3>4
  <2>2. CASE task1[n].tgid # task[n].tgid
    <3>1. row.total = 0 /\ row.asum = 0
      BY <1>13, <1>20, <1>24, <2>2 DEF row
    <3>2. ~P!Same(task1, n)
      BY <1>13, <1>20, <1>26, <2>2 DEF P!Same
    <3>3. Counted0(n).n = 0 /\ Counted0(n).total = 0
      BY <2>4, <3>2
    <3> HIDE DEF Counted0
    <3>4. n \notin mixed'
      BY <2>2, <2>3
    <3>5. row.total + mem = gauge'[n].total /\ row.asum + 1 = gauge'[n].n /\ row.asum \in Nat
      BY <2>3, <3>1, <3>3
    <3> QED
      BY <3>4, <3>5 DEF row, mem
  <2> QED
    BY <2>1, <2>2
<1>21. AsRead(task)'
  <2>1. \A n \in Pids \ lost' : task'[n].tgid = n
    BY <1>1, <1>8
  <2>3. ASSUME NEW n \in Pids, NEW k \in Kinds
        PROVE  IF ListedIn(task, n, k)'
               THEN /\ RowIn(pid_list', n, k).there /\ RowIn(pid_list', n, k).exist
                    /\ task0[n].birth = task[n].birth \/ task0[n].tgid # task[n].tgid =>
                         RowIn(pid_list', n, k).st[2] = SampleIn(task0, n, k)
               ELSE RowIn(pid_list', n, k) = NoRow
    BY <1>14, <1>15, <1>17, <1>18
  <2> QED
    BY <1>1, <2>1, <2>3 DEF AsRead, SampleIn
<1>22. SlotIs(pcurr, task)' /\ SlotIs(1 - pcurr, task1)'
  <2>1. ASSUME NEW n \in Pids, NEW k \in Kinds, RowIn(pid_list', n, k).there
        PROVE  /\ RowIn(pid_list', n, k).st[pcurr] = SampleIn(task, n, k)
               /\ RowIn(pid_list', n, k).st[1 - pcurr] = SampleIn(task1, n, k)
    BY <1>24, <1>14, <1>15, <1>19, <2>1
  <2>2. \A n \in Pids, k \in Kinds : SampleIn(task, n, k)' = SampleIn(task, n, k)
    BY <1>1 DEF SampleIn
  <2>3. \A n \in Pids, k \in Kinds : SampleIn(task1, n, k)' = SampleIn(task1, n, k)
    BY <1>1 DEF SampleIn
  <2>4. SlotIs(pcurr, task)'
    BY <1>1, <2>1, <2>2 DEF SlotIs
  <2>5. SlotIs(1 - pcurr, task1)'
    BY <1>1, <2>1, <2>3 DEF SlotIs
  <2> QED
    BY <2>4, <2>5
<1>23. GaugesWere'
  <2> SUFFICES ASSUME P!Summing', NEW n \in Pids, NEW k \in Kinds, RowIn(pid_list', n, k).there
               PROVE  LET total == RowIn(pid_list', n, k).total + task[task[n].tgid].mem
                          asum == RowIn(pid_list', n, k).asum + 1
                      IN  /\ RowIn(pid_list', n, k).asum \in Nat
                          /\ n \notin mixed' => total = gauge'[n].total /\ asum = gauge'[n].n
                          /\ n \in mixed' => asum > gauge'[n].n
    BY <1>1 DEF GaugesWere, Averaged
  <2>1. IsFound(l, n, k)
    BY <1>24, <1>15
  <2>2. P!Summing
    BY <1>1 DEF P!Summing
  <2>3. /\ RowIn(pid_list', n, k).total = RowIn(pid_list, n, k).total
        /\ RowIn(pid_list', n, k).asum = RowIn(pid_list, n, k).asum
    BY <1>14, <2>1
  <2> QED
    BY <1>20, <2>1, <2>2, <2>3
<1> QED
  BY <1>1, <1>7, <1>16, <1>21, <1>22, <1>23 DEF PidInv, ListInv

\* A report counted for the averages of gauges.
SummedRow(row, c) ==
  IF P!Summing /\ row.exist
  THEN TaskRow(row.there, row.exist, row.st, row.total + row.st[c].mem, row.asum + 1)
  ELSE row

LEMMA SummedEntry ==
  ASSUME NEW V, NEW T, NEW e \in Entries(V, T), NEW c,
         e.total + e.st[c].mem \in T, e.asum + 1 \in T
  PROVE  LET f == P!AddGauge(e, c)
         IN  /\ f \in Entries(V, T) /\ f.id = e.id /\ f.pid = e.pid /\ f.tgid = e.tgid
             /\ f.exist = e.exist /\ f.st = e.st
             /\ f.total = e.total + e.st[c].mem /\ f.asum = e.asum + 1
<1> DEFINE x == e.total + e.st[c].mem
           y == e.asum + 1
           f == [e EXCEPT !.total = x, !.asum = y]
<1>1. P!AddGauge(e, c) = f
  BY DEF P!AddGauge, Entries
<1> HIDE DEF x, y
<1>2. x \in T /\ y \in T
  BY DEF x, y
<1>3. f \in Entries(V, T)
  BY <1>2 DEF Entries
<1>4. f.id = e.id /\ f.pid = e.pid /\ f.tgid = e.tgid /\ f.exist = e.exist /\ f.st = e.st
  BY DEF Entries
<1>5. f.total = x /\ f.asum = y
  BY DEF Entries
<1> HIDE DEF f
<1> QED
  BY <1>1, <1>3, <1>4, <1>5 DEF x, y

LEMMA SummedIs ==
  ASSUME PidsOK, NEW l, IsList(l), GoodList(l), NEW c
  PROVE  LET r == P!Summed(l, c)
         IN  /\ IsList(r) /\ GoodList(r)
             /\ \A m, k : RowIn(r, m, k) = SummedRow(RowIn(l, m, k), c)
<1> DEFINE r == P!Summed(l, c)
           U == {l[i].total + l[i].st[c].mem : i \in DOMAIN l} \cup {l[i].asum + 1 : i \in DOMAIN l}
           W == {}
<1> HIDE DEF U, W
<1>1. PICK V, T : W \subseteq V /\ U \subseteq T /\ l \in Seq(Entries(V, T))
  BY MoreValues
<1>2. DOMAIN l = 1..Len(l) /\ Len(l) \in Nat /\ \A j \in DOMAIN l : l[j] \in Entries(V, T)
  BY <1>1
<1>3. \A i \in DOMAIN l : l[i].total + l[i].st[c].mem \in T /\ l[i].asum + 1 \in T
  BY <1>1 DEF U
<1>4. ASSUME NEW i \in DOMAIN l
      PROVE  LET f == P!AddGauge(l[i], c)
             IN  /\ f \in Entries(V, T) /\ f.id = l[i].id /\ f.pid = l[i].pid /\ f.tgid = l[i].tgid
                 /\ f.exist = l[i].exist /\ f.st = l[i].st
                 /\ f.total = l[i].total + l[i].st[c].mem /\ f.asum = l[i].asum + 1
  BY <1>2, <1>3, SummedEntry
<1> DEFINE new(i) == IF P!Summing /\ l[i].exist THEN P!AddGauge(l[i], c) ELSE l[i]
<1>5. DOMAIN r = DOMAIN l /\ \A i \in DOMAIN l : r[i] = new(i)
  BY DEF P!Summed
<1>6. r = [i \in 1..Len(l) |-> new(i)]
  BY <1>2 DEF P!Summed
<1>7. ASSUME NEW i \in DOMAIN l
      PROVE  /\ new(i) \in Entries(V, T) /\ new(i).id = l[i].id /\ new(i).pid = l[i].pid
             /\ new(i).tgid = l[i].tgid /\ RowOf(new(i)) = SummedRow(RowOf(l[i]), c)
  <2> DEFINE f == P!AddGauge(l[i], c)
  <2>1. RowOf(l[i]).there = TRUE /\ RowOf(l[i]).exist = l[i].exist /\ RowOf(l[i]).st = l[i].st
        /\ RowOf(l[i]).total = l[i].total /\ RowOf(l[i]).asum = l[i].asum
    BY DEF RowOf, TaskRow
  <2>2. CASE P!Summing /\ l[i].exist
    <3>1. new(i) = f
      BY <2>2
    <3>2. RowOf(f) = SummedRow(RowOf(l[i]), c)
      <4>1. SummedRow(RowOf(l[i]), c) = TaskRow(TRUE, l[i].exist, l[i].st, l[i].total + l[i].st[c].mem, l[i].asum + 1)
        BY <2>1, <2>2 DEF SummedRow
      <4>2. RowOf(f) = TaskRow(TRUE, l[i].exist, l[i].st, l[i].total + l[i].st[c].mem, l[i].asum + 1)
        BY <1>4 DEF RowOf
      <4> QED
        BY <4>1, <4>2
    <3> HIDE DEF new, f
    <3> QED
      BY <1>4, <3>1, <3>2 DEF f
  <2>3. CASE ~(P!Summing /\ l[i].exist)
    <3>1. new(i) = l[i]
      BY <2>3
    <3>2. SummedRow(RowOf(l[i]), c) = RowOf(l[i])
      BY <2>1, <2>3 DEF SummedRow
    <3> HIDE DEF new
    <3> QED
      BY <1>2, <3>1, <3>2
  <2> HIDE DEF new
  <2> QED
    BY <2>2, <2>3
<1> HIDE DEF new, r
<1>8. IsList(r)
  <2>1. \A i \in 1..Len(l) : new(i) \in Entries(V, T)
    BY <1>2, <1>7
  <2>2. r \in Seq(Entries(V, T))
    BY <1>2, <1>6, <2>1
  <2> QED
    BY <2>2 DEF IsList
<1>9. \A i \in DOMAIN l : /\ r[i].id = l[i].id /\ r[i].pid = l[i].pid /\ r[i].tgid = l[i].tgid
                          /\ RowOf(r[i]) = SummedRow(RowOf(l[i]), c)
  BY <1>5, <1>7
<1>10. SummedRow(NoRow, c) = NoRow
  <2>1. ~NoRow.exist
    BY DEF NoRow, TaskRow
  <2> QED
    BY <2>1 DEF SummedRow
<1>11. /\ GoodList(r)
       /\ \A m, k : \/ RowIn(l, m, k) = NoRow /\ RowIn(r, m, k) = NoRow
                    \/ \E i \in DOMAIN l : RowIn(l, m, k) = RowOf(l[i]) /\ RowIn(r, m, k) = RowOf(r[i])
  BY <1>5, <1>8, <1>9, RowsAlike
<1>12. ASSUME NEW m, NEW k PROVE RowIn(r, m, k) = SummedRow(RowIn(l, m, k), c)
  BY <1>9, <1>10, <1>11
<1> QED
  BY <1>8, <1>11, <1>12 DEF r

LEMMA WriteSinceBootKeeps ==
  ASSUME PidsOK, PidInv, P!WriteSinceBoot
  PROVE  PidInv'
<1>1. /\ ppc = "boot" /\ pid_list' = P!Summed(pid_list, 0) /\ ppc' = "done"
      /\ task' = task /\ task0' = task0 /\ task1' = task1 /\ lost' = lost /\ gauge' = gauge
      /\ mixed' = mixed /\ popt' = popt /\ pcurr' = pcurr
  BY DEF P!WriteSinceBoot, P!taskVars
<1>2. /\ TaskKernel /\ popt \in PidOptions /\ pcurr \in {0, 1} /\ lost \subseteq Pids /\ GaugesOK
      /\ IsList(pid_list) /\ GoodList(pid_list)
  BY DEF PidInv, PidType
<1>3. TaskKernel'
  BY <1>1, <1>2 DEF TaskKernel
<1>4. IsList(pid_list') /\ GoodList(pid_list')
  BY <1>1, <1>2, SummedIs
<1>5. PidType'
  BY <1>1, <1>2, <1>4 DEF PidType, GaugesOK
<1> QED
  BY <1>1, <1>3, <1>5 DEF PidInv, ListInv

LEMMA WriteStatsKeeps ==
  ASSUME PidsOK, PidOptionsOK, PidInv, P!WriteStats
  PROVE  PidInv'
<1>1. /\ ppc = "write" /\ pid_list' = P!Summed(pid_list, pcurr) /\ ppc' \in {"pause", "average", "done"}
      /\ ppc' = "average" => ~(popt.json \/ popt.oneline)
      /\ task' = task /\ task0' = task0 /\ task1' = task1 /\ lost' = lost /\ gauge' = gauge
      /\ mixed' = mixed /\ popt' = popt /\ pcurr' = pcurr
  BY DEF P!WriteStats, P!taskVars
<1>2. /\ TaskKernel /\ popt \in PidOptions /\ pcurr \in {0, 1} /\ lost \subseteq Pids /\ GaugesOK
      /\ IsList(pid_list) /\ GoodList(pid_list) /\ popt.interval
      /\ AsRead(task) /\ SlotIs(pcurr, task) /\ GaugesWere
  BY <1>1 DEF PidInv, PidType, ListInv
<1>3. TaskKernel'
  BY <1>1, <1>2 DEF TaskKernel
<1>4. /\ IsList(pid_list') /\ GoodList(pid_list')
      /\ \A m, k : RowIn(pid_list', m, k) = SummedRow(RowIn(pid_list, m, k), pcurr)
  BY <1>1, <1>2, SummedIs
<1>5. PidType'
  BY <1>1, <1>2, <1>4 DEF PidType, GaugesOK
<1>6. \A m, k : LET row == RowIn(pid_list, m, k)
                    new == RowIn(pid_list', m, k)
                IN  /\ new.there = row.there /\ new.exist = row.exist /\ new.st = row.st
                    /\ ~row.exist => new = row
                    /\ P!Summing /\ row.exist => new.total = row.total + row.st[pcurr].mem /\ new.asum = row.asum + 1
  <2> SUFFICES ASSUME NEW row
               PROVE  LET new == SummedRow(row, pcurr)
                      IN  /\ new.there = row.there /\ new.exist = row.exist /\ new.st = row.st
                          /\ ~row.exist => new = row
                          /\ P!Summing /\ row.exist => new.total = row.total + row.st[pcurr].mem /\ new.asum = row.asum + 1
    BY <1>4
  <2>1. CASE P!Summing /\ row.exist
    BY <2>1 DEF SummedRow, TaskRow
  <2>2. CASE ~(P!Summing /\ row.exist)
    BY <2>2 DEF SummedRow
  <2> QED
    BY <2>1, <2>2
<1>7. ~NoRow.exist /\ ~NoRow.there
  BY DEF NoRow, TaskRow
<1>8. AsRead(task)'
  <2>1. ASSUME NEW n \in Pids, NEW k \in Kinds
        PROVE  IF ListedIn(task, n, k)
               THEN /\ RowIn(pid_list', n, k).there /\ RowIn(pid_list', n, k).exist
                    /\ task0[n].birth = task[n].birth \/ task0[n].tgid # task[n].tgid =>
                         RowIn(pid_list', n, k).st[2] = SampleIn(task0, n, k)
               ELSE RowIn(pid_list', n, k) = NoRow
    BY <1>2, <1>6, <1>7 DEF AsRead
  <2> QED
    BY <1>1, <1>2, <2>1 DEF AsRead, SampleIn, ListedIn
<1>9. SlotIs(pcurr, task)'
  BY <1>1, <1>2, <1>6 DEF SlotIs, SampleIn
<1>10. GaugesAre'
  <2> SUFFICES ASSUME P!Summing', NEW n \in Pids, NEW k \in Kinds, RowIn(pid_list', n, k).there
               PROVE  /\ RowIn(pid_list', n, k).asum \in Nat
                      /\ n \notin mixed => /\ RowIn(pid_list', n, k).total = gauge[n].total
                                           /\ RowIn(pid_list', n, k).asum = gauge[n].n
                      /\ n \in mixed => RowIn(pid_list', n, k).asum > gauge[n].n
    BY <1>1 DEF GaugesAre, Averaged
  <2> DEFINE row == RowIn(pid_list, n, k)
  <2>1. P!Summing /\ row.there
    BY <1>1, <1>6 DEF P!Summing
  <2>2. ListedIn(task, n, k) /\ row.exist
    BY <1>2, <1>7, <2>1 DEF AsRead
  <2>3. row.st[pcurr].mem = task[task[n].tgid].mem
    <3>1. row.st[pcurr] = SampleIn(task, n, k)
      BY <1>2, <2>1 DEF SlotIs
    <3> QED
      BY <2>2, <3>1 DEF ListedIn, SampleIn
  <2>4. /\ row.asum \in Nat
        /\ n \notin mixed => row.total + task[task[n].tgid].mem = gauge[n].total /\ row.asum + 1 = gauge[n].n
        /\ n \in mixed => row.asum + 1 > gauge[n].n
    BY <1>2, <2>1 DEF GaugesWere, Averaged
  <2>5. RowIn(pid_list', n, k).total = row.total + row.st[pcurr].mem /\ RowIn(pid_list', n, k).asum = row.asum + 1
    BY <1>6, <2>1, <2>2
  <2> HIDE DEF row
  <2> QED
    BY <2>3, <2>4, <2>5
<1> QED
  BY <1>1, <1>3, <1>5, <1>8, <1>9, <1>10 DEF PidInv, ListInv

LEMMA AverageKeeps ==
  ASSUME PidInv, P!Average
  PROVE  PidInv'
<1>1. /\ ppc = "average" /\ ppc' = "done" /\ pid_list' = pid_list
      /\ task' = task /\ task0' = task0 /\ task1' = task1 /\ lost' = lost /\ gauge' = gauge
      /\ mixed' = mixed /\ popt' = popt /\ pcurr' = pcurr
  BY DEF P!Average, P!taskVars
<1>2. /\ TaskKernel /\ popt \in PidOptions /\ pcurr \in {0, 1} /\ lost \subseteq Pids /\ GaugesOK
      /\ IsList(pid_list) /\ GoodList(pid_list)
  BY DEF PidInv, PidType
<1>3. TaskKernel'
  BY <1>1, <1>2 DEF TaskKernel
<1>4. PidType'
  BY <1>1, <1>2 DEF PidType, GaugesOK
<1> QED
  BY <1>1, <1>3, <1>4 DEF PidInv, ListInv

\* What happens to the tasks in an interval.
LEMMA TasksElapsed ==
  ASSUME PidsOK, TasksAre(task), P!TasksElapse
  PROVE  TasksAre(task') /\ Follow(task, task')
<1>1. PICK f \in [Pids -> P!Fates] :
        /\ \A n \in Pids : P!Possible(n, f[n])
        /\ LET t == [n \in Pids |-> P!TaskNext(n, f[n])]
           IN  /\ \A n \in Pids : t[n].tgid # 0 =>
                    /\ t[t[n].tgid].tgid = t[n].tgid
                    /\ P!Same(t, n) => P!Same(t, t[n].tgid)
               /\ task' = [p \in Pids |->
                    IF t[p].tgid # p THEN t[p]
                    ELSE [t[p] EXCEPT !.group = @ + P!MapThenSumSet(
                            LAMBDA n : t[n].cpu - IF P!Same(t, n) THEN task[n].cpu ELSE 0,
                            {n \in Pids : t[n].tgid = p})]]
  BY DEF P!TasksElapse
<1> DEFINE t == [n \in Pids |-> P!TaskNext(n, f[n])]
           g(p) == P!MapThenSumSet(LAMBDA n : t[n].cpu - IF P!Same(t, n) THEN task[n].cpu ELSE 0,
                                   {n \in Pids : t[n].tgid = p})
<1>2. \A n \in Pids : t[n].tgid # 0 => t[t[n].tgid].tgid = t[n].tgid
  BY <1>1
<1>3. task' = [p \in Pids |-> IF t[p].tgid # p THEN t[p] ELSE [t[p] EXCEPT !.group = @ + g(p)]]
  BY <1>1, Zenon
<1>4. ASSUME NEW n \in Pids
      PROVE  /\ DOMAIN t[n] = TaskFields /\ t[n].birth \in Nat /\ task[n].birth <= t[n].birth
             /\ t[n].tgid \in Kinds
             /\ t[n].tgid # 0 /\ t[n].birth = task[n].birth => task[n].tgid = t[n].tgid
  <2>1. t[n] = P!TaskNext(n, f[n]) /\ f[n] \in P!Fates /\ P!Possible(n, f[n])
    BY <1>1
  <2>2. /\ DOMAIN task[n] = TaskFields /\ task[n].tgid \in Kinds /\ task[n].birth \in Nat
    BY DEF TasksAre
  <2> DEFINE h == f[n]
  <2>3. h[1] \in {"lives", "ends", "starts"}
    BY <2>1 DEF P!Fates
  <2> HIDE DEF h, t
  <2>4. CASE h[1] = "lives"
    <3>1. task[n].tgid # 0
      BY <2>1, <2>4 DEF P!Possible, h
    <3> DEFINE x == task[n].cpu + h[3][1]
               y == task[n].sw + h[3][2]
               z == h[3][3]
    <3>2. t[n] = [task[n] EXCEPT !.cpu = x, !.sw = y, !.mem = z]
      BY <2>1, <2>4 DEF P!TaskNext, h
    <3> HIDE DEF x, y, z
    <3>3. DOMAIN t[n] = DOMAIN task[n] /\ t[n].birth = task[n].birth /\ t[n].tgid = task[n].tgid
      BY <2>2, <3>2 DEF TaskFields
    <3> QED
      BY <2>2, <3>1, <3>3
  <2>5. CASE h[1] = "ends"
    <3>1. t[n] = P!Ended(task[n].birth)
      BY <2>1, <2>5 DEF P!TaskNext, h
    <3> QED
      BY <2>2, <3>1 DEF P!Ended, P!Born, TaskFields, Kinds
  <2>6. CASE h[1] = "starts"
    <3>1. t[n] = P!Born(h[2], h[3], task[n].birth + 1) /\ h[2] \in MayBe[n]
      BY <2>1, <2>6 DEF P!TaskNext, P!Possible, h
    <3>2. h[2] \in Kinds
      BY <3>1 DEF PidsOK, Kinds
    <3> QED
      BY <2>2, <3>1, <3>2 DEF P!Born, TaskFields
  <2> QED
    BY <2>3, <2>4, <2>5, <2>6
<1> HIDE DEF t, g
<1>5. ASSUME NEW n \in Pids
      PROVE  DOMAIN task'[n] = TaskFields /\ task'[n].birth = t[n].birth /\ task'[n].tgid = t[n].tgid
  <2>1. DOMAIN t[n] = TaskFields
    BY <1>4
  <2>2. CASE t[n].tgid # n
    BY <1>3, <2>1, <2>2
  <2>3. CASE t[n].tgid = n
    <3>1. task'[n] = [t[n] EXCEPT !.group = t[n].group + g(n)]
      BY <1>3, <2>3
    <3> QED
      BY <2>1, <3>1 DEF TaskFields
  <2> QED
    BY <2>2, <2>3
<1>6. DOMAIN task' = Pids
  BY <1>3
<1>7. TasksAre(task')
  <2>1. ASSUME NEW n \in Pids, task'[n].tgid # 0 PROVE task'[task'[n].tgid].tgid = task'[n].tgid
    <3>1. task'[n].tgid = t[n].tgid /\ t[n].tgid \in Pids
      BY <1>4, <1>5, <2>1 DEF Kinds
    <3>2. t[t[n].tgid].tgid = t[n].tgid
      BY <1>2, <2>1, <3>1
    <3> QED
      BY <1>5, <3>1, <3>2
  <2> QED
    BY <1>4, <1>5, <1>6, <2>1 DEF TasksAre
<1>8. Follow(task, task')
  BY <1>4, <1>5 DEF Follow
<1> QED
  BY <1>7, <1>8

LEMMA FollowOn ==
  ASSUME NEW t, NEW u, NEW v, TasksAre(t), TasksAre(u), TasksAre(v), Follow(t, u), Follow(u, v)
  PROVE  Follow(t, v)
<1> SUFFICES ASSUME NEW n \in Pids
             PROVE  /\ t[n].birth <= v[n].birth
                    /\ v[n].tgid # 0 /\ v[n].birth = t[n].birth => t[n].tgid = v[n].tgid
  BY DEF Follow
<1>1. t[n].birth \in Nat /\ u[n].birth \in Nat /\ v[n].birth \in Nat
  BY DEF TasksAre
<1>2. t[n].birth <= u[n].birth /\ u[n].birth <= v[n].birth
  BY DEF Follow
<1>3. u[n].tgid # 0 /\ u[n].birth = t[n].birth => t[n].tgid = u[n].tgid
  BY DEF Follow
<1>4. v[n].tgid # 0 /\ v[n].birth = u[n].birth => u[n].tgid = v[n].tgid
  BY DEF Follow
<1> QED
  BY <1>1, <1>2, <1>3, <1>4

LEMMA PauseKeeps ==
  ASSUME PidsOK, PidInv, P!Pause
  PROVE  PidInv'
<1>1. /\ ppc \in {"first", "pause"} /\ P!TasksElapse /\ task1' = task
      /\ pcurr' = IF ppc = "pause" THEN 1 - pcurr ELSE pcurr
      /\ pout' = {} /\ ppc' = "read"
      /\ task0' = task0 /\ lost' = lost /\ gauge' = gauge /\ mixed' = mixed /\ popt' = popt
      /\ pid_list' = pid_list
  BY DEF P!Pause
<1>2. /\ TaskKernel /\ popt \in PidOptions /\ pcurr \in {0, 1} /\ lost \subseteq Pids /\ GaugesOK
      /\ IsList(pid_list) /\ GoodList(pid_list) /\ popt.interval /\ (ppc = "first" => pcurr = 1)
      /\ AsRead(task) /\ GaugesAre /\ SlotIs(IF ppc = "first" THEN 0 ELSE pcurr, task)
  BY <1>1 DEF PidInv, PidType, ListInv
<1>3. TaskKernel'
  <2>1. TasksAre(task) /\ TasksAre(task0) /\ TasksAre(task1) /\ Follow(task0, task1) /\ Follow(task1, task)
    BY <1>2 DEF TaskKernel
  <2>2. TasksAre(task') /\ Follow(task, task')
    BY <1>1, <2>1, TasksElapsed
  <2>3. Follow(task0, task)
    BY <2>1, FollowOn
  <2> QED
    BY <1>1, <2>1, <2>2, <2>3 DEF TaskKernel
<1>4. PidType'
  BY <1>1, <1>2 DEF PidType, GaugesOK
<1>5. AsRead(task1)'
  BY <1>1, <1>2 DEF AsRead, ListedIn, SampleIn
<1>6. 1 - pcurr' = IF ppc = "first" THEN 0 ELSE pcurr
  BY <1>1, <1>2
<1>7. SlotIs(1 - pcurr, task1)'
  BY <1>1, <1>2, <1>6 DEF SlotIs, SampleIn
<1>8. GaugesAre'
  BY <1>1, <1>2 DEF GaugesAre, Averaged, P!Summing
<1> QED
  BY <1>1, <1>3, <1>4, <1>5, <1>7, <1>8 DEF PidInv, ListInv

LEMMA InterruptedKeeps ==
  ASSUME PidInv, P!Interrupted
  PROVE  PidInv'
<1>1. /\ \/ ppc = "first" /\ ppc' = "done"
         \/ ppc = "pause" /\ ppc' = IF popt.json \/ popt.oneline THEN "done" ELSE "average"
      /\ pid_list' = pid_list /\ pout' = pout
      /\ task' = task /\ task0' = task0 /\ task1' = task1 /\ lost' = lost /\ gauge' = gauge
      /\ mixed' = mixed /\ popt' = popt /\ pcurr' = pcurr
  BY DEF P!Interrupted, P!taskVars
<1>2. /\ TaskKernel /\ popt \in PidOptions /\ pcurr \in {0, 1} /\ lost \subseteq Pids /\ GaugesOK
      /\ IsList(pid_list) /\ GoodList(pid_list) /\ popt.interval
  BY <1>1 DEF PidInv, PidType
<1>3. TaskKernel'
  BY <1>1, <1>2 DEF TaskKernel
<1>4. PidType'
  BY <1>1, <1>2 DEF PidType, GaugesOK
<1>5. CASE ppc' = "done"
  BY <1>3, <1>4, <1>5 DEF PidInv, ListInv
<1>6. CASE ppc' = "average"
  <2>1. AsRead(task) /\ SlotIs(pcurr, task) /\ GaugesAre
    BY <1>1, <1>6 DEF PidInv, ListInv
  <2>2. AsRead(task)'
    BY <1>1, <2>1 DEF AsRead, ListedIn, SampleIn
  <2>3. SlotIs(pcurr, task)'
    BY <1>1, <2>1 DEF SlotIs, SampleIn
  <2>4. GaugesAre'
    BY <1>1, <2>1 DEF GaugesAre, Averaged, P!Summing
  <2> QED
    BY <1>3, <1>4, <1>6, <2>2, <2>3, <2>4 DEF PidInv, ListInv
<1> QED
  BY <1>1, <1>5, <1>6

LEMMA PidStutters ==
  ASSUME PidInv, UNCHANGED pidVars
  PROVE  PidInv'
<1>1. /\ pid_list' = pid_list /\ pout' = pout /\ ppc' = ppc
      /\ task' = task /\ task0' = task0 /\ task1' = task1 /\ lost' = lost /\ gauge' = gauge
      /\ mixed' = mixed /\ popt' = popt /\ pcurr' = pcurr
  BY DEF pidVars
<1>2. TaskKernel' /\ PidType'
  BY <1>1 DEF PidInv, TaskKernel, PidType, GaugesOK
<1>3. AsRead(task)' = AsRead(task) /\ AsRead(task1)' = AsRead(task1)
  BY <1>1 DEF AsRead, ListedIn, SampleIn
<1>4. /\ SlotIs(0, task)' = SlotIs(0, task) /\ SlotIs(pcurr, task)' = SlotIs(pcurr, task)
      /\ SlotIs(1 - pcurr, task1)' = SlotIs(1 - pcurr, task1)
  BY <1>1 DEF SlotIs, SampleIn
<1>5. GaugesAre' = GaugesAre /\ GaugesWere' = GaugesWere
  BY <1>1 DEF GaugesAre, GaugesWere, Averaged, P!Summing
<1>6. ListInv'
  BY <1>1, <1>3, <1>4, <1>5 DEF PidInv, ListInv
<1> QED
  BY <1>2, <1>6 DEF PidInv

LEMMA PidStarts ==
  ASSUME PidsOK, PidOptionsOK, P!Init
  PROVE  PidInv
<1>1. PICK of \in [Pids -> Pids \cup {0}] :
        /\ \A n \in Pids : of[n] # 0 => of[n] \in MayBe[n] /\ of[of[n]] = of[n]
        /\ task = [n \in Pids |->
                    IF of[n] = 0 THEN P!Ended(0)
                    ELSE [P!Born(of[n], <<1, 1, 1>>, 0) EXCEPT
                            !.group = IF of[n] = n THEN P!Cardinality({m \in Pids : of[m] = n}) ELSE 0]]
  BY Zenon DEF P!Init
<1>2. /\ task0 = task /\ task1 = task
      /\ lost = {} /\ gauge = [n \in Pids |-> P!NoReports] /\ mixed = {}
      /\ ppc = "begin" /\ popt \in PidOptions /\ pid_list = P!Requested /\ pcurr = 1 /\ pout = {}
  BY DEF P!Init
<1>3. ASSUME NEW n \in Pids
      PROVE  DOMAIN task[n] = TaskFields /\ task[n].birth = 0 /\ task[n].tgid = of[n]
  <2>1. CASE of[n] = 0
    <3>1. task[n] = P!Ended(0)
      BY <1>1, <2>1
    <3> QED
      BY <2>1, <3>1 DEF P!Ended, P!Born, TaskFields
  <2>2. CASE of[n] # 0
    <3> DEFINE g == IF of[n] = n THEN P!Cardinality({m \in Pids : of[m] = n}) ELSE 0
               b == P!Born(of[n], <<1, 1, 1>>, 0)
    <3>1. task[n] = [b EXCEPT !.group = g]
      BY <1>1, <2>2
    <3>2. b = [b EXCEPT !.group = b.group] /\ DOMAIN b = TaskFields /\ b.birth = 0 /\ b.tgid = of[n]
      BY DEF P!Born, TaskFields
    <3> HIDE DEF b, g
    <3> QED
      BY <3>1, <3>2 DEF TaskFields
  <2> QED
    BY <2>1, <2>2
<1>4. TasksAre(task)
  <2>1. DOMAIN task = Pids
    BY <1>1
  <2>2. \A n \in Pids : of[n] \in Kinds /\ (of[n] # 0 => of[n] \in Pids /\ of[of[n]] = of[n])
    BY <1>1 DEF PidsOK, Kinds
  <2> QED
    BY <1>3, <2>1, <2>2 DEF TasksAre
<1>5. TaskKernel
  <2>1. Follow(task, task)
    BY <1>3 DEF Follow
  <2> QED
    BY <1>2, <1>4, <2>1 DEF TaskKernel
<1>6. /\ IsList(pid_list) /\ GoodList(pid_list)
      /\ \A m, k : RowIn(pid_list, m, k) = IF m \in popt.pids /\ k = 0 THEN Present(NoRow)
                                           ELSE NoRow
  <2>1. popt.pids \subseteq Pids
    BY <1>2, OptionsTyped
  <2> DEFINE V == {P!NoSample}
             T == {0}
  <2>2. Empty(V, T)
    BY DEF Empty
  <2> HIDE DEF V, T
  <2>3. /\ P!Requested \in Seq(Entries(V, T)) /\ GoodList(P!Requested)
        /\ \A m, k : RowIn(P!Requested, m, k) = IF m \in popt.pids /\ k = 0 THEN Present(NoRow)
                                                ELSE NoRow
    BY <2>1, <2>2, RequestedIs
  <2> QED
    BY <1>2, <2>3 DEF IsList
<1>7. PidType
  <2>1. GaugesOK
    BY <1>2 DEF GaugesOK, P!NoReports
  <2> QED
    BY <1>2, <1>6, <2>1 DEF PidType
<1>8. ListInv
  BY <1>2, <1>6 DEF ListInv
<1> QED
  BY <1>5, <1>7, <1>8 DEF PidInv

-----------------------------------------------------------------------------
(* The reports.                                                              *)

\* What a line is about.
LEMMA LineIs ==
  ASSUME NEW prev, NEW cur, NEW g, NEW l \in P!Lines(prev, cur, g)
  PROVE  \E i \in DOMAIN pid_list, a \in popt.acts :
           /\ pid_list[i].exist
           /\ l = [act |-> a, pid |-> pid_list[i].pid, thread |-> pid_list[i].tgid # P!NoEntry,
                   val |-> P!Value(pid_list[i], a, prev, cur),
                   n |-> IF prev = 2 THEN pid_list[i].asum ELSE 1, prev |-> prev]
<1>1. ASSUME NEW acts, l \in P!TaskLines(acts, prev, cur, g)
      PROVE  \E i \in DOMAIN pid_list, a \in acts :
               /\ pid_list[i].exist
               /\ l = [act |-> a, pid |-> pid_list[i].pid, thread |-> pid_list[i].tgid # P!NoEntry,
                       val |-> P!Value(pid_list[i], a, prev, cur),
                       n |-> IF prev = 2 THEN pid_list[i].asum ELSE 1, prev |-> prev]
  <2>1. \A i \in DOMAIN pid_list : P!IsDisplayed(pid_list[i], acts, prev, cur, g) => pid_list[i].exist
    BY DEF P!IsDisplayed
  <2> DEFINE K == {k \in DOMAIN pid_list : P!IsDisplayed(pid_list[k], acts, prev, cur, g)}
  <2>2. PICK a \in acts, i \in K :
           l = [act |-> a, pid |-> pid_list[i].pid, thread |-> pid_list[i].tgid # P!NoEntry,
                val |-> P!Value(pid_list[i], a, prev, cur),
                n |-> IF prev = 2 THEN pid_list[i].asum ELSE 1, prev |-> prev]
    <3>1. l \in {[act |-> b, pid |-> pid_list[i].pid, thread |-> pid_list[i].tgid # P!NoEntry,
                  val |-> P!Value(pid_list[i], b, prev, cur),
                  n |-> IF prev = 2 THEN pid_list[i].asum ELSE 1, prev |-> prev] : b \in acts, i \in K}
      BY <1>1 DEF P!TaskLines
    <3> HIDE DEF K
    <3> QED
      BY <3>1
  <2>3. i \in DOMAIN pid_list /\ pid_list[i].exist
    BY <2>1, <2>2
  <2> QED
    BY <2>2, <2>3, Zenon
<1>2. CASE popt.oneline
  <2>1. l \in P!TaskLines(popt.acts, prev, cur, g)
    BY <1>2 DEF P!Lines
  <2> QED
    BY <1>1, <2>1
<1>3. CASE ~popt.oneline
  <2>1. PICK a \in popt.acts : l \in P!TaskLines({a}, prev, cur, g)
    BY <1>3 DEF P!Lines
  <2> QED
    BY <1>1, <2>1
<1> QED
  BY <1>2, <1>3

\* The same, for the properties.
IsLineOf(l, n, k, a, prev) ==
  l.act = a /\ l.pid = n /\ (l.thread <=> k # 0) /\ l.prev = prev

LEMMA LineRow ==
  ASSUME PidsOK, IsList(pid_list), GoodList(pid_list),
         NEW prev, NEW cur, NEW g, NEW l \in P!Lines(prev, cur, g)
  PROVE  \E n \in Pids, k \in Kinds, a \in popt.acts :
           LET row == RowIn(pid_list, n, k)
           IN  /\ row.there /\ row.exist /\ IsLineOf(l, n, k, a, prev)
               /\ a = "cpu" => l.val = row.st[cur].cpu - row.st[prev].cpu
               /\ a = "sw" => l.val = row.st[cur].sw - row.st[prev].sw
               /\ a = "mem" /\ prev = 2 => l.val = row.total /\ l.n = row.asum
<1>1. PICK i \in DOMAIN pid_list, a \in popt.acts :
           /\ pid_list[i].exist
           /\ l = [act |-> a, pid |-> pid_list[i].pid, thread |-> pid_list[i].tgid # P!NoEntry,
                   val |-> P!Value(pid_list[i], a, prev, cur),
                   n |-> IF prev = 2 THEN pid_list[i].asum ELSE 1, prev |-> prev]
  BY LineIs
<1> DEFINE e == pid_list[i]
           n == e.pid
           k == Kind(e)
           row == RowIn(pid_list, n, k)
<1>2. n \in Pids /\ k \in Kinds /\ row.there /\ row = RowOf(e)
  BY ListRow
<1>3. row.exist /\ row.st = e.st /\ row.total = e.total /\ row.asum = e.asum
  BY <1>1, <1>2 DEF RowOf, TaskRow
<1>4. IsLineOf(l, n, k, a, prev)
  <2>1. l.act = a /\ l.pid = n /\ l.prev = prev
    BY <1>1
  <2>2. l.thread = (e.tgid # P!NoEntry)
    BY <1>1, Zenon
  <2>3. (e.tgid # P!NoEntry) <=> k # 0
    <3>1. PICK V, T : pid_list \in Seq(Entries(V, T))
      BY DEF IsList
    <3>2. e \in Entries(V, T)
      BY <3>1
    <3>3. e.tgid \in Ids \cup {P!NoEntry}
      BY <3>2 DEF Entries
    <3>4. e.tgid \in Ids => e.tgid[1] \in Pids /\ e.tgid # P!NoEntry
      BY DEF Ids, P!NoEntry, PidsOK
    <3> QED
      BY <3>3, <3>4 DEF Kind, PidsOK
  <2> HIDE DEF e, n, k
  <2> QED
    BY <2>1, <2>2, <2>3 DEF IsLineOf
<1>5. l.val = P!Value(e, a, prev, cur) /\ (prev = 2 => l.n = e.asum)
  BY <1>1
<1>6. /\ a = "cpu" => l.val = row.st[cur].cpu - row.st[prev].cpu
      /\ a = "sw" => l.val = row.st[cur].sw - row.st[prev].sw
      /\ a = "mem" /\ prev = 2 => l.val = row.total /\ l.n = row.asum
  BY <1>3, <1>5 DEF P!Value, P!CpuValue, P!SwitchValue, P!MemoryValue
<1> HIDE DEF e, n, k, row
<1> QED
  BY <1>2, <1>3, <1>4, <1>6 DEF row

\* What a task has done since then, from the two samples.
LEMMA SinceIs ==
  ASSUME NEW n \in Pids, NEW k \in Kinds, task[n].tgid = Of(n, k), NEW then, NEW b, b <=> k # 0,
         P!NotReplaced(n, then), P!Same(then, n) => then[n].tgid = task[n].tgid
  PROVE  /\ P!Since(n, "cpu", b, then) = SampleIn(task, n, k).cpu - SampleIn(then, n, k).cpu
         /\ P!Since(n, "sw", b, then) = SampleIn(task, n, k).sw - SampleIn(then, n, k).sw
<1>1. CASE P!Same(then, n)
  BY <1>1 DEF P!Since, SampleIn
<1>2. CASE ~P!Same(then, n)
  <2>1. then[n].tgid # Of(n, k)
    BY <1>2 DEF P!NotReplaced
  <2> QED
    BY <1>2, <2>1 DEF P!Since, SampleIn, P!NoSample
<1> QED
  BY <1>1, <1>2

\* The properties, of a line.
CountersTrue(l) ==
  LET then == IF l.prev = 2 THEN task0 ELSE task1
  IN  l.act # "mem" /\ popt.interval /\ P!NotReplaced(l.pid, then) =>
        l.val = P!Since(l.pid, l.act, l.thread, then)
GaugeTrue(l) ==
  l.act = "mem" /\ l.prev = 2 =>
    (l.val = gauge[l.pid].total /\ l.n = gauge[l.pid].n <=> l.pid \notin mixed)

LEMMA CountersOf ==
  ASSUME PidsOK, PidOptionsOK, IsList(pid_list), GoodList(pid_list), popt \in PidOptions,
         TaskKernel, AsRead(task), NEW prev, NEW cur, NEW g, NEW l \in P!Lines(prev, cur, g), SlotIs(cur, task),
         prev # 2 => SlotIs(prev, task1)
  PROVE  CountersTrue(l)
<1>1. PICK n \in Pids, k \in Kinds, a \in popt.acts :
           LET row == RowIn(pid_list, n, k)
           IN  /\ row.there /\ row.exist /\ IsLineOf(l, n, k, a, prev)
               /\ a = "cpu" => l.val = row.st[cur].cpu - row.st[prev].cpu
               /\ a = "sw" => l.val = row.st[cur].sw - row.st[prev].sw
               /\ a = "mem" /\ prev = 2 => l.val = row.total /\ l.n = row.asum
  BY LineRow
<1> DEFINE row == RowIn(pid_list, n, k)
           then == IF l.prev = 2 THEN task0 ELSE task1
<1>2. l.act = a /\ l.pid = n /\ (l.thread <=> k # 0) /\ l.prev = prev
  BY <1>1 DEF IsLineOf
<1>3. popt.acts \subseteq {"cpu", "sw", "mem"}
  BY OptionsTyped
<1>4. ~NoRow.there
  BY DEF NoRow, TaskRow
<1>5. ListedIn(task, n, k) /\ task[n].tgid = Of(n, k) /\ task[n].tgid # 0
  <2>1. ListedIn(task, n, k)
    BY <1>1, <1>4 DEF AsRead
  <2> QED
    BY <2>1 DEF ListedIn, Of, PidsOK
<1> SUFFICES ASSUME l.act # "mem", P!NotReplaced(l.pid, then)
             PROVE  l.val = P!Since(l.pid, l.act, l.thread, then)
  BY DEF CountersTrue
<1>6. row.st[cur] = SampleIn(task, n, k)
  BY <1>1 DEF SlotIs
<1>7. row.st[prev] = SampleIn(then, n, k)
  <2>1. CASE prev = 2
    <3>1. then = task0
      BY <1>2, <2>1
    <3>2. task0[n].birth = task[n].birth \/ task0[n].tgid # task[n].tgid
      BY <1>2, <3>1 DEF P!NotReplaced, P!Same
    <3> QED
      BY <1>5, <2>1, <3>1, <3>2 DEF AsRead
  <2>2. CASE prev # 2
    <3>1. then = task1
      BY <1>2, <2>2
    <3> QED
      BY <1>1, <2>2, <3>1 DEF SlotIs
  <2> QED
    BY <2>1, <2>2
<1>11. P!Same(then, n) => then[n].tgid = task[n].tgid
  <2>1. Follow(task1, task) /\ Follow(task0, task)
    BY FollowOn DEF TaskKernel
  <2> QED
    BY <1>5, <2>1 DEF Follow, P!Same
<1> HIDE DEF then, row
<1>8. /\ P!Since(n, "cpu", l.thread, then) = SampleIn(task, n, k).cpu - SampleIn(then, n, k).cpu
      /\ P!Since(n, "sw", l.thread, then) = SampleIn(task, n, k).sw - SampleIn(then, n, k).sw
  BY <1>2, <1>5, <1>11, SinceIs
<1>9. CASE a = "cpu"
  BY <1>1, <1>2, <1>6, <1>7, <1>8, <1>9 DEF row
<1>10. CASE a = "sw"
  BY <1>1, <1>2, <1>6, <1>7, <1>8, <1>10 DEF row
<1> QED
  BY <1>2, <1>3, <1>9, <1>10

LEMMA GaugesOf ==
  ASSUME PidsOK, PidOptionsOK, IsList(pid_list), GoodList(pid_list), popt \in PidOptions,
         GaugesOK, GaugesAre, ~popt.json, ~popt.oneline,
         NEW prev, NEW cur, NEW g, NEW l \in P!Lines(prev, cur, g)
  PROVE  GaugeTrue(l)
<1>1. PICK n \in Pids, k \in Kinds, a \in popt.acts :
           LET row == RowIn(pid_list, n, k)
           IN  /\ row.there /\ row.exist /\ IsLineOf(l, n, k, a, prev)
               /\ a = "cpu" => l.val = row.st[cur].cpu - row.st[prev].cpu
               /\ a = "sw" => l.val = row.st[cur].sw - row.st[prev].sw
               /\ a = "mem" /\ prev = 2 => l.val = row.total /\ l.n = row.asum
  BY LineRow
<1>2. l.act = a /\ l.pid = n /\ l.prev = prev
  BY <1>1 DEF IsLineOf
<1> SUFFICES ASSUME a = "mem", prev = 2 PROVE l.val = gauge[n].total /\ l.n = gauge[n].n <=> n \notin mixed
  BY <1>2 DEF GaugeTrue
<1>3. P!Summing
  BY DEF P!Summing
<1>4. l.val = RowIn(pid_list, n, k).total /\ l.n = RowIn(pid_list, n, k).asum
  BY <1>1
<1>5. /\ RowIn(pid_list, n, k).asum \in Nat
      /\ Averaged(n, RowIn(pid_list, n, k).total, RowIn(pid_list, n, k).asum)
  BY <1>1, <1>3 DEF GaugesAre
<1>6. gauge[n].n \in Nat
  BY DEF GaugesOK
<1> QED
  BY <1>4, <1>5, <1>6 DEF Averaged

\* Without -p ACTIVE, a task of the list is displayed unless it is not of a
\* process whose name is asked for.
LEMMA DisplayedIs ==
  ASSUME PidsOK, IsList(pid_list), GoodList(pid_list), PidOptionsOK, popt \in PidOptions,
         ~popt.active, NEW i \in DOMAIN pid_list, NEW acts, NEW prev, NEW cur, NEW g
  PROVE  P!IsDisplayed(pid_list[i], acts, prev, cur, g)
           <=> pid_list[i].exist /\ (popt.match => Top(pid_list[i]) \in popt.G)
<1> DEFINE e == pid_list[i]
<1>1. \A f : P!IsActive(f, acts, prev, cur)
  BY DEF P!IsActive
<1>2. CASE e.tgid = P!NoEntry
  BY <1>1, <1>2 DEF P!IsDisplayed, Top, Kind, Of
<1>3. CASE e.tgid # P!NoEntry
  <2>1. PICK j \in DOMAIN pid_list : Leads(pid_list[j], e)
    BY <1>3 DEF GoodList, Linked
  <2>2. {m \in DOMAIN pid_list : pid_list[m].id = e.tgid} = {j}
    BY <2>1 DEF Leads, GoodList, Identified
  <2>3. P!LeaderShown(e, acts, prev, cur, g) <=> pid_list[j].pid \in popt.G
    BY <1>1, <2>2 DEF P!LeaderShown
  <2>4. pid_list[j].pid = Top(e)
    <3>1. PICK V, T : pid_list \in Seq(Entries(V, T))
      BY DEF IsList
    <3>2. pid_list[j] \in Entries(V, T)
      BY <3>1
    <3>3. pid_list[j].pid # 0
      BY <3>2 DEF Entries, PidsOK
    <3> QED
      BY <2>1, <3>3 DEF Leads, Top, Of
  <2> HIDE DEF e
  <2>5. P!IsDisplayed(e, acts, prev, cur, g) <=> e.exist /\ (popt.match => P!LeaderShown(e, acts, prev, cur, g))
    BY <1>1, <1>3 DEF P!IsDisplayed
  <2> QED
    BY <2>3, <2>4, <2>5 DEF e
<1> QED
  BY <1>2, <1>3

\* The tasks that the lines of an activity are about.
Reported(a, out) == {<<l.pid, l.thread>> : l \in {m \in out : m.act = a}}

LEMMA ReportedIs ==
  ASSUME PidsOK, IsList(pid_list), GoodList(pid_list), PidOptionsOK, popt \in PidOptions,
         ~popt.active, NEW a \in popt.acts, NEW prev, NEW cur, NEW g
  PROVE  Reported(a, P!Lines(prev, cur, g)) =
           {<<pid_list[i].pid, pid_list[i].tgid # P!NoEntry>> :
              i \in {j \in DOMAIN pid_list : /\ pid_list[j].exist
                                             /\ popt.match => Top(pid_list[j]) \in popt.G}}
<1> DEFINE D == {j \in DOMAIN pid_list : pid_list[j].exist /\ (popt.match => Top(pid_list[j]) \in popt.G)}
           line(b, i) == [act |-> b, pid |-> pid_list[i].pid, thread |-> pid_list[i].tgid # P!NoEntry,
                          val |-> P!Value(pid_list[i], b, prev, cur),
                          n |-> IF prev = 2 THEN pid_list[i].asum ELSE 1, prev |-> prev]
           who(i) == <<pid_list[i].pid, pid_list[i].tgid # P!NoEntry>>
<1>1. ASSUME NEW acts
      PROVE  P!TaskLines(acts, prev, cur, g) = {line(b, i) : b \in acts, i \in D}
  <2>1. {k \in DOMAIN pid_list : P!IsDisplayed(pid_list[k], acts, prev, cur, g)} = D
    BY DisplayedIs
  <2> DEFINE S == {k \in DOMAIN pid_list : P!IsDisplayed(pid_list[k], acts, prev, cur, g)}
  <2>2. P!TaskLines(acts, prev, cur, g) = {line(b, i) : b \in acts, i \in S}
    <3> HIDE DEF S
    <3>1. P!TaskLines(acts, prev, cur, g) =
            {[act |-> b, pid |-> pid_list[i].pid, thread |-> pid_list[i].tgid # P!NoEntry,
              val |-> P!Value(pid_list[i], b, prev, cur),
              n |-> IF prev = 2 THEN pid_list[i].asum ELSE 1, prev |-> prev] : b \in acts, i \in S}
      BY DEF P!TaskLines, S
    <3> QED
      BY <3>1
  <2> HIDE DEF line, D, S
  <2> QED
    BY <2>1, <2>2 DEF S
<1>2. \A b, i : line(b, i).act = b /\ <<line(b, i).pid, line(b, i).thread>> = who(i)
  <2> SUFFICES ASSUME NEW b, NEW i PROVE line(b, i).act = b /\ <<line(b, i).pid, line(b, i).thread>> = who(i)
    OBVIOUS
  <2>1. line(b, i).act = b
    OBVIOUS
  <2>2. line(b, i).pid = pid_list[i].pid
    OBVIOUS
  <2>3. line(b, i).thread = (pid_list[i].tgid # P!NoEntry)
    BY Zenon
  <2> QED
    BY <2>1, <2>2, <2>3, Zenon
<1> HIDE DEF line, who, D
<1>3. P!Lines(prev, cur, g) = {line(b, i) : b \in popt.acts, i \in D}
  <2>1. CASE popt.oneline
    BY <1>1, <2>1 DEF P!Lines
  <2>2. CASE ~popt.oneline
    <3>1. P!Lines(prev, cur, g) = UNION {P!TaskLines({b}, prev, cur, g) : b \in popt.acts}
      BY <2>2 DEF P!Lines
    <3>2. \A b : P!TaskLines({b}, prev, cur, g) = {line(b, i) : i \in D}
      <4>1. \A b : P!TaskLines({b}, prev, cur, g) = {line(d, i) : d \in {b}, i \in D}
        BY <1>1
      <4>2. \A b : {line(d, i) : d \in {b}, i \in D} = {line(b, i) : i \in D}
        OBVIOUS
      <4> QED
        BY <4>1, <4>2
    <3>3. \A x : x \in P!Lines(prev, cur, g) <=> \E b \in popt.acts : x \in P!TaskLines({b}, prev, cur, g)
      BY <3>1
    <3>4. \A x : x \in P!Lines(prev, cur, g) <=> \E b \in popt.acts : x \in {line(b, i) : i \in D}
      BY <3>2, <3>3
    <3>5. \A x : x \in P!Lines(prev, cur, g) <=> x \in {line(b, i) : b \in popt.acts, i \in D}
      BY <3>4
    <3> QED
      BY <3>5
  <2> QED
    BY <2>1, <2>2
<1>4. Reported(a, P!Lines(prev, cur, g)) = {who(i) : i \in D}
  <2> DEFINE A == {m \in P!Lines(prev, cur, g) : m.act = a}
  <2>1. A = {line(a, i) : i \in D}
    BY <1>2, <1>3
  <2>2. Reported(a, P!Lines(prev, cur, g)) = {<<l.pid, l.thread>> : l \in A}
    BY Zenon DEF Reported
  <2> HIDE DEF A
  <2>3. {<<l.pid, l.thread>> : l \in A} = {who(i) : i \in D}
    BY <1>2, <2>1
  <2> QED
    BY <2>2, <2>3
<1> QED
  BY <1>4 DEF who, D

\* The tasks that a report has to be about.
LEMMA ReportWhole ==
  ASSUME PidsOK, IsList(pid_list), GoodList(pid_list), PidOptionsOK, popt \in PidOptions,
         TasksAre(task), AsRead(task), ~popt.active, NEW a \in popt.acts, NEW prev, NEW cur, NEW g
  PROVE  Reported(a, P!Lines(prev, cur, g)) =
            {<<n, FALSE>> : n \in {p \in P!Processes : P!Listed(p) /\ (popt.match => p \in popt.G)}}
            \cup {<<n, TRUE>> : n \in {t \in Pids : popt.tid /\ task[t].tgid # 0
                    /\ P!Listed(task[t].tgid) /\ (popt.match => task[t].tgid \in popt.G)}}
<1> DEFINE D == {j \in DOMAIN pid_list : pid_list[j].exist /\ (popt.match => Top(pid_list[j]) \in popt.G)}
           who(i) == <<pid_list[i].pid, pid_list[i].tgid # P!NoEntry>>
           Ps == {p \in P!Processes : P!Listed(p) /\ (popt.match => p \in popt.G)}
           Ts == {t \in Pids : popt.tid /\ task[t].tgid # 0
                    /\ P!Listed(task[t].tgid) /\ (popt.match => task[t].tgid \in popt.G)}
<1>1. Reported(a, P!Lines(prev, cur, g)) = {who(i) : i \in D}
  BY ReportedIs
<1>2. ASSUME NEW n \in Pids
      PROVE  /\ ListedIn(task, n, 0) <=> n \in P!Processes /\ P!Listed(n)
             /\ \A k \in Pids : ListedIn(task, n, k) <=> /\ popt.tid /\ task[n].tgid = k
                                                         /\ P!Listed(task[n].tgid)
  <2>1. n # 0 /\ 0 \notin Pids
    BY DEF PidsOK
  <2> QED
    BY <2>1 DEF ListedIn, Of, P!Processes, P!Listed
<1>3. ~NoRow.there
  BY DEF NoRow, TaskRow
<1>10. \A i \in DOMAIN pid_list : Kind(pid_list[i]) = 0 <=> pid_list[i].tgid = P!NoEntry
  <2>1. PICK V, T : pid_list \in Seq(Entries(V, T))
    BY DEF IsList
  <2>2. \A i \in DOMAIN pid_list : pid_list[i] \in Entries(V, T)
    BY <2>1
  <2> QED
    BY <2>2, EntryIs
<1>4. ASSUME NEW i \in D
      PROVE  \/ pid_list[i].tgid = P!NoEntry /\ pid_list[i].pid \in Ps
             \/ pid_list[i].tgid # P!NoEntry /\ pid_list[i].pid \in Ts
  <2> DEFINE n == pid_list[i].pid
  <2>1. n \in Pids /\ Kind(pid_list[i]) \in Kinds /\ RowIn(pid_list, n, Kind(pid_list[i])).there
    BY ListRow
  <2>2. ListedIn(task, n, Kind(pid_list[i]))
    BY <1>3, <2>1 DEF AsRead
  <2>3. popt.match => Top(pid_list[i]) \in popt.G
    OBVIOUS
  <2>4. CASE pid_list[i].tgid = P!NoEntry
    BY <1>2, <2>1, <2>2, <2>3, <2>4 DEF Kind, Top, Of
  <2>5. CASE pid_list[i].tgid # P!NoEntry
    <3>1. Kind(pid_list[i]) \in Pids /\ Kind(pid_list[i]) # 0
      BY <1>10, <2>1, <2>5 DEF Kinds
    <3>2. Top(pid_list[i]) = Kind(pid_list[i])
      BY <3>1 DEF Top, Of
    <3> QED
      BY <1>2, <2>1, <2>2, <2>3, <2>5, <3>1, <3>2
  <2> QED
    BY <2>4, <2>5
<1>5. ASSUME NEW n \in Pids, NEW k \in Kinds, ListedIn(task, n, k), popt.match => task[n].tgid \in popt.G
      PROVE  \E i \in D : pid_list[i].pid = n /\ Kind(pid_list[i]) = k
  <2>1. RowIn(pid_list, n, k).there /\ RowIn(pid_list, n, k).exist
    BY <1>5 DEF AsRead
  <2>2. PICK i \in DOMAIN pid_list : pid_list[i].pid = n /\ Kind(pid_list[i]) = k
                                     /\ RowIn(pid_list, n, k) = RowOf(pid_list[i])
    BY <2>1, RowPlace
  <2>3. pid_list[i].exist
    BY <2>1, <2>2 DEF RowOf, TaskRow
  <2>4. Top(pid_list[i]) = task[n].tgid
    <3>1. task[n].tgid = Of(n, k)
      BY <1>5 DEF ListedIn
    <3> QED
      BY <2>2, <3>1 DEF Top
  <2> QED
    BY <1>5, <2>2, <2>3, <2>4
<1> HIDE DEF D
<1>6. \A i \in D : /\ pid_list[i].tgid = P!NoEntry => who(i) = <<pid_list[i].pid, FALSE>>
                   /\ pid_list[i].tgid # P!NoEntry => who(i) = <<pid_list[i].pid, TRUE>>
  <2> SUFFICES ASSUME NEW i \in D
               PROVE  /\ pid_list[i].tgid = P!NoEntry => who(i) = <<pid_list[i].pid, FALSE>>
                      /\ pid_list[i].tgid # P!NoEntry => who(i) = <<pid_list[i].pid, TRUE>>
    OBVIOUS
  <2>1. ASSUME pid_list[i].tgid = P!NoEntry PROVE (pid_list[i].tgid # P!NoEntry) = FALSE
    BY <2>1 DEF P!NoEntry
  <2>2. ASSUME pid_list[i].tgid # P!NoEntry PROVE (pid_list[i].tgid # P!NoEntry) = TRUE
    BY <2>2 DEF P!NoEntry
  <2> QED
    BY <2>1, <2>2, Zenon
<1>7. ASSUME NEW n \in Ps PROVE <<n, FALSE>> \in {who(i) : i \in D}
  <2>1. n \in Pids /\ task[n].tgid = n
    BY DEF P!Processes
  <2>2. ListedIn(task, n, 0)
    BY <1>2, <2>1
  <2>3. PICK i \in D : pid_list[i].pid = n /\ Kind(pid_list[i]) = 0
    BY <1>5, <2>1, <2>2 DEF Kinds
  <2>4. who(i) = <<n, FALSE>>
    BY <1>6, <1>10, <2>3 DEF D
  <2> HIDE DEF who
  <2> QED
    BY <2>4
<1>8. ASSUME NEW n \in Ts PROVE <<n, TRUE>> \in {who(i) : i \in D}
  <2>1. n \in Pids /\ task[n].tgid \in Pids /\ task[n].tgid # 0
    BY DEF TasksAre, Kinds
  <2>4. ListedIn(task, n, task[n].tgid)
    BY <1>2, <2>1
  <2>2. PICK i \in D : pid_list[i].pid = n /\ Kind(pid_list[i]) # 0
    BY <1>5, <2>1, <2>4 DEF Kinds
  <2>3. who(i) = <<n, TRUE>>
    BY <1>6, <1>10, <2>2 DEF D
  <2> HIDE DEF who
  <2> QED
    BY <2>3
<1> HIDE DEF who, Ps, Ts
<1>9. {who(i) : i \in D} = {<<n, FALSE>> : n \in Ps} \cup {<<n, TRUE>> : n \in Ts}
  <2>1. ASSUME NEW i \in D PROVE who(i) \in {<<n, FALSE>> : n \in Ps} \cup {<<n, TRUE>> : n \in Ts}
    BY <1>4, <1>6
  <2> QED
    BY <1>7, <1>8, <2>1
<1> QED
  BY <1>1, <1>9 DEF Ps, Ts

-----------------------------------------------------------------------------
(* What every report says of the tasks.                                      *)

LinesTrue == \A l \in pout : CountersTrue(l) /\ GaugeTrue(l)

\* The tasks that there are to report.
ToReport ==
  {<<n, FALSE>> : n \in {p \in P!Processes : P!Listed(p) /\ (popt.match => p \in popt.G)}}
  \cup {<<n, TRUE>> : n \in {t \in Pids : popt.tid /\ task[t].tgid # 0
          /\ P!Listed(task[t].tgid) /\ (popt.match => task[t].tgid \in popt.G)}}
WholeReport == ppc = "pause" /\ ~popt.active => \A a \in popt.acts : Reported(a, pout) = ToReport

PidReports == PidInv /\ LinesTrue /\ WholeReport

LEMMA ReportsMean ==
  ASSUME promoted \/ PidReports
  PROVE  P!TaskLinesTrue /\ P!TasksReported /\ P!GaugesAveraged
<1>4. CASE promoted
  BY <1>4 DEF P!TaskLinesTrue, P!TasksReported, P!GaugesAveraged
<1> SUFFICES ASSUME PidReports PROVE P!TaskLinesTrue /\ P!TasksReported /\ P!GaugesAveraged
  BY <1>4
<1>1. P!TaskLinesTrue
  BY DEF PidReports, LinesTrue, CountersTrue, P!TaskLinesTrue
<1>2. P!GaugesAveraged
  BY DEF PidReports, LinesTrue, GaugeTrue, P!GaugesAveraged
<1>3. P!TasksReported
  BY Zenon DEF PidReports, WholeReport, ToReport, Reported, P!TasksReported
<1> QED
  BY <1>1, <1>2, <1>3

\* A step that neither reads nor writes anything.
LEMMA LinesSame ==
  ASSUME LinesTrue, pout' = pout, popt' = popt, gauge' = gauge, mixed' = mixed,
         task' = task, task0' = task0, task1' = task1
  PROVE  LinesTrue'
<1> SUFFICES ASSUME NEW l \in pout PROVE CountersTrue(l)' /\ GaugeTrue(l)'
  BY DEF LinesTrue
<1>1. CountersTrue(l) /\ GaugeTrue(l)
  BY DEF LinesTrue
<1>2. CountersTrue(l)'
  BY <1>1 DEF CountersTrue, P!NotReplaced, P!Same, P!Since
<1>3. GaugeTrue(l)'
  BY <1>1 DEF GaugeTrue
<1> QED
  BY <1>2, <1>3

\* A step that leaves all of what the lines are about but the list.
LEMMA LinesWritten ==
  ASSUME NEW prev, NEW cur, NEW g, pout' = P!Lines(prev, cur, g), popt' = popt, gauge' = gauge, mixed' = mixed,
         task' = task, task0' = task0, task1' = task1,
         \A l \in P!Lines(prev, cur, g) : CountersTrue(l) /\ GaugeTrue(l)
  PROVE  LinesTrue'
<1> SUFFICES ASSUME NEW l \in P!Lines(prev, cur, g) PROVE CountersTrue(l)' /\ GaugeTrue(l)'
  BY DEF LinesTrue
<1>1. CountersTrue(l)'
  BY DEF CountersTrue, P!NotReplaced, P!Same, P!Since
<1>2. GaugeTrue(l)'
  BY DEF GaugeTrue
<1> QED
  BY <1>1, <1>2

LEMMA SinceBootReports ==
  ASSUME PidsOK, PidReports, P!WriteSinceBoot
  PROVE  PidReports'
<1>1. PICK g \in BOOLEAN : pout' = P!Lines(1, 0, g)
  BY DEF P!WriteSinceBoot
<1>2. /\ ppc = "boot" /\ ppc' = "done" /\ popt' = popt /\ gauge' = gauge /\ mixed' = mixed
      /\ task' = task /\ task0' = task0 /\ task1' = task1
  BY DEF P!WriteSinceBoot, P!taskVars
<1>3. ~popt.interval /\ PidInv'
  BY <1>2, WriteSinceBootKeeps DEF PidReports, PidInv, PidType
<1>4. ASSUME NEW l \in P!Lines(1, 0, g) PROVE CountersTrue(l) /\ GaugeTrue(l)
  <2>1. l.prev = 1 /\ 1 # 2
    BY LineIs
  <2> QED
    BY <1>3, <2>1 DEF CountersTrue, GaugeTrue
<1>5. LinesTrue'
  BY <1>1, <1>2, <1>4, LinesWritten
<1> QED
  BY <1>2, <1>3, <1>5 DEF PidReports, WholeReport

LEMMA WriteReports ==
  ASSUME PidsOK, PidOptionsOK, PidReports, P!WriteStats
  PROVE  PidReports'
<1>1. PICK g \in BOOLEAN : pout' = P!Lines(1 - pcurr, pcurr, g)
  BY DEF P!WriteStats
<1>2. /\ ppc = "write" /\ popt' = popt /\ gauge' = gauge /\ mixed' = mixed /\ lost' = lost
      /\ task' = task /\ task0' = task0 /\ task1' = task1
  BY DEF P!WriteStats, P!taskVars
<1>3. /\ IsList(pid_list) /\ GoodList(pid_list) /\ popt \in PidOptions /\ pcurr \in {0, 1}
      /\ AsRead(task) /\ SlotIs(pcurr, task) /\ SlotIs(1 - pcurr, task1)
      /\ TaskKernel /\ TasksAre(task)
  BY <1>2 DEF PidReports, PidInv, PidType, ListInv, TaskKernel
<1>4. ASSUME NEW l \in P!Lines(1 - pcurr, pcurr, g) PROVE CountersTrue(l) /\ GaugeTrue(l)
  <2>1. 1 - pcurr # 2 /\ l.prev = 1 - pcurr
    BY <1>3, LineIs
  <2>2. CountersTrue(l)
    BY <1>3, CountersOf
  <2> QED
    BY <2>1, <2>2 DEF GaugeTrue
<1>5. LinesTrue'
  BY <1>1, <1>2, <1>4, LinesWritten
<1>6. ASSUME ~popt.active, NEW a \in popt.acts PROVE Reported(a, pout)' = ToReport
  <2>1. Reported(a, P!Lines(1 - pcurr, pcurr, g)) = ToReport
    BY <1>3, <1>6, ReportWhole DEF ToReport
  <2> QED
    BY <1>1, <2>1, Zenon DEF Reported
<1>7. ToReport' = ToReport
  BY <1>2 DEF ToReport, P!Processes, P!Listed
<1>8. WholeReport'
  BY <1>2, <1>6, <1>7 DEF WholeReport, Reported
<1>9. PidInv'
  BY WriteStatsKeeps DEF PidReports
<1> QED
  BY <1>5, <1>8, <1>9 DEF PidReports

LEMMA AverageReports ==
  ASSUME PidsOK, PidOptionsOK, PidReports, P!Average
  PROVE  PidReports'
<1>1. PICK g \in BOOLEAN : pout' = P!Lines(2, pcurr, g)
  BY DEF P!Average
<1>2. /\ ppc = "average" /\ ppc' = "done" /\ popt' = popt /\ gauge' = gauge /\ mixed' = mixed
      /\ task' = task /\ task0' = task0 /\ task1' = task1
  BY DEF P!Average, P!taskVars
<1>3. /\ IsList(pid_list) /\ GoodList(pid_list) /\ popt \in PidOptions
      /\ AsRead(task) /\ SlotIs(pcurr, task) /\ TaskKernel /\ GaugesOK /\ GaugesAre /\ ~popt.json /\ ~popt.oneline
  BY <1>2 DEF PidReports, PidInv, PidType, ListInv
<1>4. ASSUME NEW l \in P!Lines(2, pcurr, g) PROVE CountersTrue(l) /\ GaugeTrue(l)
  BY <1>3, CountersOf, GaugesOf
<1>5. LinesTrue'
  BY <1>1, <1>2, <1>4, LinesWritten
<1>6. PidInv'
  BY AverageKeeps DEF PidReports
<1> QED
  BY <1>2, <1>5, <1>6 DEF PidReports, WholeReport

LEMMA PidReportsSame ==
  ASSUME PidReports, UNCHANGED pidVars
  PROVE  PidReports'
<1>1. /\ pout' = pout /\ popt' = popt /\ gauge' = gauge /\ mixed' = mixed /\ ppc' = ppc /\ lost' = lost
      /\ task' = task /\ task0' = task0 /\ task1' = task1
  BY DEF pidVars
<1>2. PidInv' /\ LinesTrue'
  BY <1>1, PidStutters, LinesSame DEF PidReports
<1>3. WholeReport'
  BY <1>1 DEF PidReports, WholeReport, ToReport, Reported, P!Processes, P!Listed
<1> QED
  BY <1>2, <1>3 DEF PidReports

LEMMA PidReportsStep ==
  ASSUME PidsOK, PidOptionsOK, PidReports, P!Next, ~promoted'
  PROVE  PidReports'
<1>1. CASE P!ReadFirst
  <2>1. ppc' \in {"first", "boot"}
    BY <1>1 DEF P!ReadFirst
  <2>2. PidInv'
    BY <1>1, ReadFirstKeeps DEF PidReports
  <2>3. pout' = {}
    BY <2>1, <2>2 DEF PidInv, PidType
  <2> QED
    BY <2>1, <2>2, <2>3 DEF PidReports, LinesTrue, WholeReport
<1>2. CASE P!WriteSinceBoot
  BY <1>2, SinceBootReports
<1>3. CASE P!ReadStats
  <2>1. ppc' = "write"
    BY <1>3 DEF P!ReadStats
  <2>2. PidInv'
    BY <1>3, ReadStatsKeeps DEF PidReports
  <2>3. pout' = {}
    BY <2>1, <2>2 DEF PidInv, PidType
  <2> QED
    BY <2>1, <2>2, <2>3 DEF PidReports, LinesTrue, WholeReport
<1>4. CASE P!WriteStats
  BY <1>4, WriteReports
<1>5. CASE P!Average
  BY <1>5, AverageReports
<1>6. CASE P!Pause
  <2>1. ppc' = "read" /\ pout' = {}
    BY <1>6 DEF P!Pause
  <2>2. PidInv'
    BY <1>6, PauseKeeps DEF PidReports
  <2> QED
    BY <2>1, <2>2 DEF PidReports, LinesTrue, WholeReport
<1>7. CASE P!Interrupted
  <2>1. /\ ppc' \in {"done", "average"} /\ pout' = pout /\ popt' = popt /\ gauge' = gauge /\ mixed' = mixed
        /\ task' = task /\ task0' = task0 /\ task1' = task1
    BY <1>7 DEF P!Interrupted, P!taskVars
  <2>2. PidInv' /\ LinesTrue'
    BY <1>7, <2>1, InterruptedKeeps, LinesSame DEF PidReports
  <2> QED
    BY <2>1, <2>2 DEF PidReports, WholeReport
<1>8. CASE P!Done
  <2>1. UNCHANGED pidVars
    BY <1>8 DEF P!Done, P!pidVars, P!taskVars, pidVars
  <2> QED
    BY <2>1, PidReportsSame
<1> QED
  BY <1>1, <1>2, <1>3, <1>4, <1>5, <1>6, <1>7, <1>8 DEF P!Next

\* A thread comes after its process, or after another thread of it.
LEMMA Following ==
  ASSUME PidsOK, IsList(pid_list), GoodList(pid_list)
  PROVE  P!ThreadsFollow
<1>1. PICK V, T : pid_list \in Seq(Entries(V, T))
  BY DEF IsList
<1>2. /\ DOMAIN pid_list = 1..Len(pid_list) /\ Len(pid_list) \in Nat
      /\ \A i \in DOMAIN pid_list : pid_list[i] \in Entries(V, T)
  BY <1>1
<1>3. /\ Ordered(pid_list)
      /\ \A i \in DOMAIN pid_list : /\ pid_list[i].pid \in Nat /\ Top(pid_list[i]) \in Nat
                                    /\ pid_list[i].pid # 0
                                    /\ Kind(pid_list[i]) = 0 <=> pid_list[i].tgid = P!NoEntry
  BY <1>1, <1>2, EntryIs DEF GoodList
<1> SUFFICES ASSUME NEW i \in DOMAIN pid_list, pid_list[i].tgid # P!NoEntry
             PROVE  /\ i > 1
                    /\ \/ pid_list[i - 1].id = pid_list[i].tgid
                       \/ /\ pid_list[i - 1].tgid = pid_list[i].tgid
                          /\ pid_list[i - 1].pid < pid_list[i].pid
  BY Zenon DEF P!ThreadsFollow
<1> DEFINE e == pid_list[i]
           b == pid_list[i - 1]
<1>4. PICK j \in DOMAIN pid_list : j < i /\ Leads(pid_list[j], e)
  BY <1>1, LeaderBefore DEF GoodList
<1>5. i > 1 /\ i - 1 \in DOMAIN pid_list /\ j <= i - 1
  BY <1>2, <1>4
<1>6. CASE j = i - 1
  BY <1>4, <1>5, <1>6 DEF Leads
<1>7. CASE j # i - 1
  <2>1. j < i - 1 /\ i - 1 < i
    BY <1>2, <1>5, <1>7
  <2>2. Before(pid_list[j], b) /\ Before(b, e)
    BY <1>3, <1>5, <2>1 DEF Ordered
  <2>3. Top(pid_list[j]) = Top(e) /\ pid_list[j].tgid = P!NoEntry
    BY <1>3, <1>4 DEF Leads, Top, Of
  <2>4. b.tgid # P!NoEntry /\ Top(b) = Top(e) /\ b.pid < e.pid
    BY <1>3, <1>5, <2>2, <2>3 DEF Before
  <2>5. PICK m \in DOMAIN pid_list : Leads(pid_list[m], b)
    BY <1>5, <2>4 DEF GoodList, Linked
  <2>6. pid_list[m].pid = pid_list[j].pid /\ pid_list[m].tgid = P!NoEntry /\ pid_list[m].id = b.tgid
    BY <1>3, <1>4, <1>5, <2>4, <2>5 DEF Leads, Top, Of
  <2>7. m \in Places(pid_list, pid_list[j].pid, 0) /\ j \in Places(pid_list, pid_list[j].pid, 0)
    BY <2>3, <2>6 DEF Places, Kind
  <2>8. m = j
    BY <1>1, <1>3, <2>7, RowAt
  <2>9. b.tgid = e.tgid
    BY <1>4, <2>6, <2>8 DEF Leads
  <2> QED
    BY <1>5, <2>4, <2>9
<1> QED
  BY <1>6, <1>7

\* The number of a thread has become that of a process: from then on.
LEMMA PromotedStays == ASSUME P!Next, promoted PROVE promoted'
<1>1. P!ReadStats => promoted'
  BY DEF P!ReadStats
<1>2. ~P!ReadStats => promoted' = promoted
  BY DEF P!Next, P!ReadFirst, P!WriteSinceBoot, P!WriteStats, P!Average, P!Pause, P!Interrupted, P!Done,
         P!taskVars, P!pidVars
<1> QED
  BY <1>1, <1>2

\* pidstat's reports, of a run of either tool.
LEMMA PidToolSteps ==
  ASSUME [MCNext]_mcVars
  PROVE  \/ tool = "pidstat" /\ tool' = tool /\ P!Next
         \/ tool' = tool /\ UNCHANGED pidVars
  BY Zenon DEF MCNext, OfMpstat, OfPidstat, mcVars

TaskReports == tool = "pidstat" => promoted \/ PidReports

LEMMA TaskReportsAlways == PidsOK /\ PidOptionsOK => (MCSpec => []TaskReports)
<1> SUFFICES ASSUME PidsOK, PidOptionsOK PROVE MCSpec => []TaskReports
  OBVIOUS
<1>1. MCInit => TaskReports
  <2> SUFFICES ASSUME MCInit, tool = "pidstat" PROVE PidReports
    BY DEF TaskReports
  <2>1. P!Init
    BY Zenon DEF MCInit
  <2>2. PidInv /\ pout = {} /\ ppc = "begin"
    BY <2>1, PidStarts DEF P!Init
  <2> QED
    BY <2>2 DEF PidReports, LinesTrue, WholeReport
<1>2. TaskReports /\ [MCNext]_mcVars => TaskReports'
  <2> SUFFICES ASSUME TaskReports, [MCNext]_mcVars, tool' = "pidstat", ~promoted' PROVE PidReports'
    BY DEF TaskReports
  <2>1. CASE tool = "pidstat" /\ tool' = tool /\ P!Next
    <3>1. ~promoted
      BY <2>1, PromotedStays
    <3> QED
      BY <2>1, <3>1, PidReportsStep DEF TaskReports
  <2>2. CASE tool' = tool /\ UNCHANGED pidVars
    <3>1. ~promoted
      BY <2>2 DEF pidVars
    <3> QED
      BY <2>2, <3>1, PidReportsSame DEF TaskReports
  <2> QED
    BY <2>1, <2>2, PidToolSteps
<1> QED
  BY <1>1, <1>2, PTL DEF MCSpec

\* pidstat displays for each task what it did since the sample before, the
\* first one for the averages, or since it started: the samples that read_stats()
\* and read_task_stats() leave in the list, of whatever tasks there are.  Numbers
\* are used again for any task, by the same process or by another one, as long as
\* that of a thread does not become that of a process.
THEOREM MCTaskLinesTrue == PidsOK /\ PidOptionsOK => (MCSpec => []TaskLinesTrue)
<1>1. TaskReports => TaskLinesTrue
  BY ReportsMean DEF TaskReports, TaskLinesTrue
<1> QED
  BY <1>1, TaskReportsAlways, PTL

\* A report is about each task that is there, and no other: what add_list_pid()
\* and sfree_pid() do to the list, and get_pid_to_display() to its entries,
\* until the number of a thread becomes that of a process.
THEOREM MCTasksReported == PidsOK /\ PidOptionsOK => (MCSpec => []TasksReported)
<1>1. TaskReports => TasksReported
  BY ReportsMean DEF TaskReports, TasksReported
<1> QED
  BY <1>1, TaskReportsAlways, PTL

\* The averages of gauges are of all the reports since the task was found, and of
\* no other task, but for the numbers that another task of the same process has
\* taken over between two readings, whose averages are of both: the totals of
\* write_pid_task_memory_stats(), which are freed with the entry, and only then.
THEOREM MCGaugesAveraged == PidsOK /\ PidOptionsOK => (MCSpec => []GaugesAveraged)
<1>1. TaskReports => GaugesAveraged
  BY ReportsMean DEF TaskReports, GaugesAveraged
<1> QED
  BY <1>1, TaskReportsAlways, PTL

\* The threads of a process follow it, in order, as the comment of
\* add_list_pid() says: for as long as the number of a thread has not become that
\* of a process, and whatever else happens to the numbers.
THEOREM MCThreadsFollow ==
  PidsOK /\ PidOptionsOK => (MCSpec => [](tool = "pidstat" /\ ~promoted => P!ThreadsFollow))
<1> SUFFICES ASSUME PidsOK, PidOptionsOK PROVE MCSpec => [](tool = "pidstat" /\ ~promoted => P!ThreadsFollow)
  OBVIOUS
<1>1. TaskReports => (tool = "pidstat" /\ ~promoted => P!ThreadsFollow)
  BY Following DEF TaskReports, PidReports, PidInv, PidType
<1> QED
  BY <1>1, TaskReportsAlways, PTL
=============================================================================
