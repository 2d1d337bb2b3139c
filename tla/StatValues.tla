----------------------------- MODULE StatValues -----------------------------
(***************************************************************************)
(* The values that sar and sadf display, and how they are computed from    *)
(* two samples of an activity.                                             *)
(*                                                                         *)
(* A sample is a sequence of structures, one for each item (a disk, a      *)
(* processor, or the only structure of an activity without items), and a   *)
(* structure maps its fields to integers, and "name" to the identity of    *)
(* the item.  A value is a fraction <<numerator, denominator>>: intervals  *)
(* are in seconds, and the factor 100 of percentages is left out.  A value *)
(* with denominator 0 is not a number.                                     *)
(***************************************************************************)
EXTENDS Integers, Sequences, FiniteSets, FiniteSetsExt, SequencesExt, TLC

CONSTANTS
    Width,      \* a counter holds 0 .. Width - 1
    Margin      \* how near its limit a counter overflows (0x7ffff + 1)

ASSUME WidthAssumption == Width \in Nat \ {0} /\ Margin \in 0..Width

Zero == <<0, 1>>
Gauge(n) == <<n, 1>>
Scaled(v, k) == <<v[1], v[2] * k>>
IsNumber(v) == v[2] # 0

\* An interface that receives and sends at the same time.
C_DUPLEX_FULL == 2
\* The number of states of a battery that are known.
BAT_STS_NR == 5

\* Comparisons as the C operators make them: never true of what is not a
\* number.
Less(v, w) == IsNumber(v) /\ IsNumber(w) /\ v[1] * w[2] < w[1] * v[2]
Same(v, w) == IsNumber(v) /\ IsNumber(w) /\ v[1] * w[2] = w[1] * v[2]

\* The macros S_VALUE and SP_VALUE.
S_VALUE(m, n, itv) == <<(n - m) % Width, itv>>
SP_VALUE(m, n, p) == <<n - m, p>>
\* "total ? value : 0.0"
Guarded(total, v) == IF total = 0 THEN Zero ELSE v
\* "now < before ? 0.0 : S_VALUE(...)"
Increase(m, n, itv) == IF n < m THEN Zero ELSE S_VALUE(m, n, itv)
\* The same for the processors, whose intervals are sums of counters.
ll_sp_value(m, n, p) == IF n < m THEN Zero ELSE SP_VALUE(m, n, p)

\* Columns or members f, each from its own field.
Rates(p, c, itv, f) == [k \in DOMAIN f |-> S_VALUE(p[f[k]], c[f[k]], itv)]
Increases(p, c, itv, f) == [k \in DOMAIN f |-> Increase(p[f[k]], c[f[k]], itv)]
Gauges(c, f) == [k \in DOMAIN f |-> Gauge(c[f[k]])]

\* What an activity without items displays, and what one with items does:
\* f gives a value for each index in c that is displayed.
Alone(v) == "-" :> v
Nothing == << >>
ByName(c, f) ==
    [n \in {c[i].name : i \in DOMAIN f} |-> f[CHOOSE i \in DOMAIN f : c[i].name = n]]

(***************************************************************************)
(* Items.                                                                  *)
(***************************************************************************)
\* The items of c that a list given on the command line keeps.
Listed(c, sel) == {i \in DOMAIN c : sel = {} \/ c[i].name \in sel}

\* The same item in the previous sample: the search starts at the same place
\* and goes round the list.
SameItem(p, c, i) == {j \in DOMAIN p : p[j].name = c[i].name}
\* A structure whose counters are all zero.
ZeroOf(s) == [f \in DOMAIN s |-> IF f = "name" THEN s[f] ELSE 0]
PrevOrZero(p, c, i) ==
    IF SameItem(p, c, i) = {} THEN ZeroOf(c[i]) ELSE p[CHOOSE j \in SameItem(p, c, i) : TRUE]

\* check_disk_reg(), check_net_dev_reg() and check_net_edev_reg(): with what
\* a device is compared, nothing when it is new or was registered again.
DiskRegistered(p, c, i) ==
    LET d == p[CHOOSE j \in SameItem(p, c, i) : TRUE]
        Restarted(f) == d[f] = 0 \/ c[i][f] < d[f]
    IN  SameItem(p, c, i) # {}
        /\ ~(c[i].nr_ios < d.nr_ios /\ Restarted("rd_sect") /\ Restarted("wr_sect")
             /\ Restarted("dc_sect"))
check_disk_reg(p, c, i) == IF DiskRegistered(p, c, i) THEN PrevOrZero(p, c, i) ELSE ZeroOf(c[i])

NetDevRegistered(p, c, i) ==
    LET d == PrevOrZero(p, c, i)
        Decreased(f) == c[i][f] < d[f]
        \* f overflowed: its partner g went on, and f was beyond half of what it holds
        Overflow(f, g) == Decreased(f) /\ c[i][g] > d[g] /\ 2 * d[f] >= Width
    IN  /\ SameItem(p, c, i) # {}
        /\ \/ \A f \in {"rx_packets", "tx_packets", "rx_bytes", "tx_bytes", "rx_compressed",
                       "tx_compressed", "multicast"} : ~Decreased(f)
           \/ Overflow("rx_bytes", "rx_packets") \/ Overflow("tx_bytes", "tx_packets")
           \/ Overflow("rx_packets", "rx_bytes") \/ Overflow("tx_packets", "tx_bytes")
check_net_dev_reg(p, c, i) == IF NetDevRegistered(p, c, i) THEN PrevOrZero(p, c, i) ELSE ZeroOf(c[i])

NetEdevRegistered(p, c, i) ==
    /\ SameItem(p, c, i) # {}
    /\ \A f \in {"tx_errors", "collisions", "rx_dropped", "tx_dropped", "rx_fifo_errors",
                 "tx_fifo_errors", "rx_frame_errors", "tx_carrier_errors"} :
            c[i][f] >= PrevOrZero(p, c, i)[f]
check_net_edev_reg(p, c, i) == IF NetEdevRegistered(p, c, i) THEN PrevOrZero(p, c, i) ELSE ZeroOf(c[i])

(***************************************************************************)
(* Disks and network interfaces.                                           *)
(***************************************************************************)
\* Utilization, await and size of the requests between d and s.
compute_ext_disk_stats(s, d, itv) ==
    LET Per(F) == IF s.nr_ios > d.nr_ios
                  THEN <<MapThenSumSet(LAMBDA f : s[f] - d[f], F), s.nr_ios - d.nr_ios>>
                  ELSE Zero
    IN  [util |-> Increase(d.tot_ticks, s.tot_ticks, itv),
         await |-> Per({"rd_ticks", "wr_ticks", "dc_ticks"}),
         arqsz |-> Per({"rd_sect", "wr_sect", "dc_sect"})]

\* How busy an interface is, from bytes received and sent per second: of the
\* busiest direction of the two when they do not share the link.
Plus(v, w) == <<v[1] * w[2] + w[1] * v[2], v[2] * w[2]>>
compute_ifutil(s, rx, tx) ==
    LET busy == IF s.duplex # C_DUPLEX_FULL THEN Plus(rx, tx) ELSE IF Less(tx, rx) THEN rx ELSE tx
    IN  Guarded(s.speed, <<8 * busy[1], busy[2] * s.speed>>)

(***************************************************************************)
(* Processors: structure 1 is CPU "all", the others a processor each, all  *)
(* zeros while it is offline.                                              *)
(***************************************************************************)
CpuBusy(s) ==
    s.cpu_user + s.cpu_nice + s.cpu_sys + s.cpu_idle + s.cpu_iowait + s.cpu_hardirq
        + s.cpu_steal + s.cpu_softirq

\* What the previous counters become when idle or iowait went backwards: the
\* processor came back online, or iowait was corrected by the kernel.
CpuPrevious(s, d) ==
    LET Backwards(f) == s[f] < d[f] /\ d[f] < Width - Margin
    IN  [d EXCEPT !.cpu_iowait =
                     IF ~Backwards("cpu_iowait") THEN @
                     ELSE IF s.cpu_idle > d.cpu_idle \/ d.cpu_idle >= Width - Margin
                          THEN s.cpu_iowait ELSE 0,
                  !.cpu_idle = IF Backwards("cpu_idle") THEN 0 ELSE @]

\* get_cpu_interval_delta(): a counter that went backwards counts for nothing.
Delta(m, n) == IF n < m THEN 0 ELSE n - m

\* Mutant of get_per_cpu_interval: the counters of guests are not looked at.
MutPerCpuInterval(s, d) ==
    MapThenSumSet(LAMBDA f : Delta(d[f], s[f]),
        {"cpu_user", "cpu_nice", "cpu_sys", "cpu_iowait", "cpu_idle", "cpu_steal", "cpu_hardirq",
         "cpu_softirq"})
\* The time between d, corrected, and s, with what guest counters that grew
\* more than the counters that include them take away from user and nice.
get_per_cpu_interval(s, d) ==
    LET Shift(f, g) == IF s[f] >= d[f] THEN Delta(s[f] - s[g], d[f] - d[g]) ELSE 0
    IN  MapThenSumSet(LAMBDA f : Delta(d[f], s[f]),
            {"cpu_user", "cpu_nice", "cpu_sys", "cpu_iowait", "cpu_idle", "cpu_steal",
             "cpu_hardirq", "cpu_softirq"})
        + Shift("cpu_user", "cpu_guest") + Shift("cpu_nice", "cpu_guest_nice")

\* The sum of structures i in I of a sample, as structure 1 of it.
Total(s, I) == [f \in DOMAIN s[1] |-> IF f = "name" THEN s[1].name
                                      ELSE MapThenSumSet(LAMBDA i : s[i][f], I)]

\* The two samples as they are left for the display, the processors that are
\* not displayed, and the time of CPU "all".
get_global_cpu_statistics(p, c) ==
    LET cpus == 2..Len(c)
        gone == {i \in cpus : CpuBusy(c[i]) = 0}
        unknown == {i \in cpus : CpuBusy(p[i]) = 0}
        c1 == [i \in DOMAIN c |-> IF i \in gone THEN p[i] ELSE c[i]]
        p1 == [i \in DOMAIN c |-> IF i \in cpus \ unknown THEN CpuPrevious(c1[i], p[i]) ELSE p[i]]
        known == cpus \ unknown
    IN  [p |-> [p1 EXCEPT ![1] = Total(p1, known)], c |-> [c1 EXCEPT ![1] = Total(c1, known)],
         off |-> gone \cup unknown,
         itv |-> MapThenSumSet(LAMBDA i : get_per_cpu_interval(c1[i], p1[i]), known)]

\* On a machine with one processor, CPU "all" is this processor.
SingleCpu(s, d) == [p |-> <<d>>, c |-> <<s>>, off |-> {}, itv |-> get_per_cpu_interval(s, d)]
\* The samples and intervals of the processors that are displayed, g being
\* what the samples have become.
CpuIntervals(g, shown) ==
    [p |-> g.p, c |-> g.c, shown |-> shown \ g.off,
     itv |-> [i \in DOMAIN g.c |-> IF i = 1 THEN (IF g.itv = 0 THEN 1 ELSE g.itv)
                                   ELSE get_per_cpu_interval(g.c[i], g.p[i])]]
CpuSamples(p, c, sel) ==
    CpuIntervals(IF Len(c) > 1 THEN get_global_cpu_statistics(p, c)
                 ELSE SingleCpu(c[1], CpuPrevious(c[1], p[1])),
                 Listed(c, sel))

\* Percentages of a processor: of a counter, of several, and of a counter
\* without the guests it includes.
CpuPct(d, s, f, t) == ll_sp_value(d[f], s[f], t)
CpuPctOf(d, s, F, t) == ll_sp_value(MapThenSumSet(LAMBDA f : d[f], F), MapThenSumSet(LAMBDA f : s[f], F), t)
CpuPctNoGuest(d, s, f, g, t) == ll_sp_value(d[f] - d[g], s[f] - s[g], t)
AllSystem == {"cpu_sys", "cpu_hardirq", "cpu_softirq"}

\* Softnet: CPU "all" is the sum of the others, one that has done nothing at
\* all in a sample is offline.
Idle(s) == \A f \in DOMAIN s \ {"name"} : s[f] = 0
get_global_soft_statistics(p, c) ==
    LET cpus == 2..Len(c)
        unknown == {i \in cpus : Idle(p[i])}
        gone == {i \in cpus \ unknown : Idle(c[i])}
        c1 == [i \in DOMAIN c |-> IF i \in gone THEN p[i] ELSE c[i]]
    IN  [p |-> [p EXCEPT ![1] = Total(p, cpus \ unknown)],
         c |-> [c1 EXCEPT ![1] = Total(c1, cpus \ unknown)], off |-> gone \cup unknown]

\* Interrupts: structure i holds one count for each interrupt, the first one
\* being their sum; a processor whose sum is zero in a sample is masked.
get_global_int_statistics(p, c, sel) ==
    LET unknown == {i \in DOMAIN c : p[i].irq_nr[1] = 0} \cup (DOMAIN c \ Listed(c, sel))
        gone == {i \in DOMAIN c \ unknown : c[i].irq_nr[1] = 0}
    IN  [c |-> [i \in DOMAIN c |-> IF i \in gone THEN p[i] ELSE c[i]], masked |-> unknown \cup gone]
=============================================================================
