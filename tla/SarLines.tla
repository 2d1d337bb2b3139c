------------------------------ MODULE SarLines ------------------------------
(***************************************************************************)
(* What sar prints for each activity (pr_stats.c), and the smallest and    *)
(* greatest values it keeps to print them at the end.                      *)
(*                                                                         *)
(* print_X_stats(p, c, x) is the display of activity X from the previous   *)
(* sample p and the current one c, with the options x: a function from the *)
(* items displayed to a record of the values of the line, in the order     *)
(* they are printed, and of what is saved in spmin and spmax: the values   *)
(* of "saved", by place from "base" on.  For the average (x.avg) p is the  *)
(* first sample; the functions whose names begin with stub_print also use  *)
(* the sums kept of the samples displayed, x.shown.                        *)
(***************************************************************************)
EXTENDS StatValues, Activities

Item(line, base, saved) == [line |-> line, base |-> base, saved |-> saved]

\* save_extrema() with both samples, and with the current one only: field
\* fields[m] goes to place g_fields[m], or nowhere when that is -1.
SaveExtrema(fields, g_fields, p, c, itv) ==
    [k \in {g_fields[m] : m \in DOMAIN g_fields} \ {-1} |->
        LET f == fields[CHOOSE m \in DOMAIN g_fields : g_fields[m] = k]
        IN  Increase(p[f], c[f], itv)]
SaveGauges(fields, g_fields, c) ==
    [k \in {g_fields[m] : m \in DOMAIN g_fields} \ {-1} |->
        Gauge(c[fields[CHOOSE m \in DOMAIN g_fields : g_fields[m] = k]])]
InOrder(fields) == [m \in DOMAIN fields |-> m - 1]
\* A call of save_minmax() for each value of the line, in its order.
SaveAll(line) == [k \in 0..Len(line) - 1 |-> line[k + 1]]

\* add_list_item(): the items for which extreme values are kept, in the order
\* they were first displayed, and the place of one in that list.
\* Mutant of add_list_item: new items are put first.
MutAddListItem(list, name) ==
    IF \E k \in DOMAIN list : list[k] = name THEN list ELSE <<name>> \o list
add_list_item(list, name) ==
    IF \E k \in DOMAIN list : list[k] = name THEN list ELSE Append(list, name)
Devices(x, c, I) ==
    FoldLeft(LAMBDA list, i : IF i \in I THEN add_list_item(list, c[i].name) ELSE list,
             x.xdev, [i \in DOMAIN c |-> i])
Place(list, name) == (CHOOSE k \in DOMAIN list : list[k] = name) - 1

\* -z leaves out what has not changed.
Omitted(x, d, s) == x.omit /\ d = s

\* The sums of the stub_print functions, divided by the number of samples.
Samples(c, x) == IF x.avg THEN x.shown ELSE <<c>>
SumOf(s, i, f) ==
    FoldLeft(LAMBDA t, e : t + (IF i \in DOMAIN e THEN e[i][f] ELSE 0), 0, s)
Mean(s, i, f) == <<SumOf(s, i, f), Len(s)>>
Minus(v, w) == <<v[1] * w[2] - w[1] * v[2], v[2] * w[2]>>
Ratio(v, w) == IF w[1] = 0 THEN Zero ELSE <<v[1] * w[2], v[2] * w[1]>>

(***************************************************************************)
(* Activities without items that print rates.                              *)
(***************************************************************************)
RateLine(p, c, x, cols, fields, g_fields) ==
    Alone(Item(Rates(p[1], c[1], x.itv, cols), 0, SaveExtrema(fields, g_fields, p[1], c[1], x.itv)))

print_pcsw_stats(p, c, x) ==
    RateLine(p, c, x, <<"processes", "context_switch">>, stats_pcsw, <<1, 0>>)
print_swap_stats(p, c, x) ==
    RateLine(p, c, x, <<"pswpin", "pswpout">>, stats_swap, InOrder(stats_swap))
print_paging_stats(p, c, x) ==
    RateLine(p, c, x, <<"pgpgin", "pgpgout", "pgfault", "pgmajfault", "pgfree", "pgscan_kswapd",
        "pgscan_direct", "pgsteal", "pgpromote", "pgdemote">>, stats_paging,
        InOrder(stats_paging))
print_io_stats(p, c, x) ==
    Alone(Item(Increases(p[1], c[1], x.itv,
                   <<"dk_drive", "dk_drive_rio", "dk_drive_wio", "dk_drive_dio", "dk_drive_rblk",
                     "dk_drive_wblk", "dk_drive_dblk">>), 0,
               SaveExtrema(stats_io, <<0, 1, 2, 4, 5, 3, 6>>, p[1], c[1], x.itv)))
print_net_nfs_stats(p, c, x) ==
    RateLine(p, c, x, <<"nfs_rpccnt", "nfs_rpcretrans", "nfs_readcnt", "nfs_writecnt",
        "nfs_accesscnt", "nfs_getattcnt">>, stats_net_nfs, InOrder(stats_net_nfs))
print_net_nfsd_stats(p, c, x) ==
    RateLine(p, c, x, <<"nfsd_rpccnt", "nfsd_rpcbad", "nfsd_netcnt", "nfsd_netudpcnt",
        "nfsd_nettcpcnt", "nfsd_rchits", "nfsd_rcmisses", "nfsd_readcnt", "nfsd_writecnt",
        "nfsd_accesscnt", "nfsd_getattcnt">>, stats_net_nfsd, InOrder(stats_net_nfsd))
print_net_ip_stats(p, c, x) ==
    RateLine(p, c, x, <<"InReceives", "ForwDatagrams", "InDelivers", "OutRequests",
        "ReasmReqds", "ReasmOKs", "FragOKs", "FragCreates">>, stats_net_ip,
        InOrder(stats_net_ip))
print_net_eip_stats(p, c, x) ==
    RateLine(p, c, x, <<"InHdrErrors", "InAddrErrors", "InUnknownProtos", "InDiscards",
        "OutDiscards", "OutNoRoutes", "ReasmFails", "FragFails">>, stats_net_eip,
        InOrder(stats_net_eip))
print_net_icmp_stats(p, c, x) ==
    RateLine(p, c, x, <<"InMsgs", "OutMsgs", "InEchos", "InEchoReps", "OutEchos", "OutEchoReps",
        "InTimestamps", "InTimestampReps", "OutTimestamps", "OutTimestampReps", "InAddrMasks",
        "InAddrMaskReps", "OutAddrMasks", "OutAddrMaskReps">>, stats_net_icmp,
        InOrder(stats_net_icmp))
print_net_eicmp_stats(p, c, x) ==
    RateLine(p, c, x, <<"InErrors", "OutErrors", "InDestUnreachs", "OutDestUnreachs",
        "InTimeExcds", "OutTimeExcds", "InParmProbs", "OutParmProbs", "InSrcQuenchs",
        "OutSrcQuenchs", "InRedirects", "OutRedirects">>, stats_net_eicmp,
        InOrder(stats_net_eicmp))
print_net_tcp_stats(p, c, x) ==
    RateLine(p, c, x, <<"ActiveOpens", "PassiveOpens", "InSegs", "OutSegs">>, stats_net_tcp,
        InOrder(stats_net_tcp))
print_net_etcp_stats(p, c, x) ==
    RateLine(p, c, x, <<"AttemptFails", "EstabResets", "RetransSegs", "InErrs", "OutRsts">>,
        stats_net_etcp, InOrder(stats_net_etcp))
print_net_udp_stats(p, c, x) ==
    RateLine(p, c, x, <<"InDatagrams", "OutDatagrams", "NoPorts", "InErrors">>, stats_net_udp,
        InOrder(stats_net_udp))
print_net_ip6_stats(p, c, x) ==
    RateLine(p, c, x, <<"InReceives6", "OutForwDatagrams6", "InDelivers6", "OutRequests6",
        "ReasmReqds6", "ReasmOKs6", "InMcastPkts6", "OutMcastPkts6", "FragOKs6",
        "FragCreates6">>, stats_net_ip6, InOrder(stats_net_ip6))
print_net_eip6_stats(p, c, x) ==
    RateLine(p, c, x, <<"InHdrErrors6", "InAddrErrors6", "InUnknownProtos6", "InTooBigErrors6",
        "InDiscards6", "OutDiscards6", "InNoRoutes6", "OutNoRoutes6", "ReasmFails6",
        "FragFails6", "InTruncatedPkts6">>, stats_net_eip6, InOrder(stats_net_eip6))
print_net_icmp6_stats(p, c, x) ==
    RateLine(p, c, x, <<"InMsgs6", "OutMsgs6", "InEchos6", "InEchoReplies6", "OutEchoReplies6",
        "InGroupMembQueries6", "InGroupMembResponses6", "OutGroupMembResponses6",
        "InGroupMembReductions6", "OutGroupMembReductions6", "InRouterSolicits6",
        "OutRouterSolicits6", "InRouterAdvertisements6", "InNeighborSolicits6",
        "OutNeighborSolicits6", "InNeighborAdvertisements6", "OutNeighborAdvertisements6">>,
        stats_net_icmp6, InOrder(stats_net_icmp6))
print_net_eicmp6_stats(p, c, x) ==
    RateLine(p, c, x, <<"InErrors6", "InDestUnreachs6", "OutDestUnreachs6", "InTimeExcds6",
        "OutTimeExcds6", "InParmProblems6", "OutParmProblems6", "InRedirects6", "OutRedirects6",
        "InPktTooBigs6", "OutPktTooBigs6">>, stats_net_eicmp6, InOrder(stats_net_eicmp6))
print_net_udp6_stats(p, c, x) ==
    RateLine(p, c, x, <<"InDatagrams6", "OutDatagrams6", "NoPorts6", "InErrors6">>,
        stats_net_udp6, InOrder(stats_net_udp6))

(***************************************************************************)
(* Processors.                                                             *)
(***************************************************************************)
print_oneline_cpu_stats(x, i, t, d, s) ==
    LET Pct(f) == CpuPct(d, s, f, t)
    IN  IF i # 1 /\ t = 0
        \* A tickless processor that was idle all along.
        THEN [k \in 1..(IF x.full THEN 9 ELSE 5) |-> Zero] \o <<Gauge(1)>>
        ELSE IF ~x.full
        THEN <<Pct("cpu_user"), Pct("cpu_nice"), CpuPctOf(d, s, AllSystem, t), Pct("cpu_iowait"),
               Pct("cpu_steal"), Pct("cpu_idle")>>
        ELSE <<CpuPctNoGuest(d, s, "cpu_user", "cpu_guest", t),
               CpuPctNoGuest(d, s, "cpu_nice", "cpu_guest_nice", t), Pct("cpu_sys"),
               Pct("cpu_iowait"), Pct("cpu_steal"), Pct("cpu_hardirq"), Pct("cpu_softirq"),
               Pct("cpu_guest"), Pct("cpu_guest_nice"), Pct("cpu_idle")>>

\* The test is on CPU "all", whose time is never zero here: the values of a
\* tickless processor are then divided by zero.
save_cpu_xstats(x, i, t, d, s) ==
    LET Pct(f) == CpuPct(d, s, f, t)
    IN  IF i = 1 /\ t = 0
        THEN [k \in 0..(IF x.full THEN 8 ELSE 4) |-> Zero] @@ 9 :> Gauge(1)
        ELSE (3 :> Pct("cpu_iowait") @@ 4 :> Pct("cpu_steal") @@ 9 :> Pct("cpu_idle"))
             @@ (IF ~x.full
                 THEN 0 :> Pct("cpu_user") @@ 1 :> Pct("cpu_nice")
                      @@ 2 :> CpuPctOf(d, s, AllSystem, t)
                 ELSE 0 :> CpuPctNoGuest(d, s, "cpu_user", "cpu_guest", t)
                      @@ 1 :> CpuPctNoGuest(d, s, "cpu_nice", "cpu_guest_nice", t)
                      @@ 2 :> Pct("cpu_sys") @@ 5 :> Pct("cpu_hardirq") @@ 6 :> Pct("cpu_softirq")
                      @@ 7 :> Pct("cpu_guest") @@ 8 :> Pct("cpu_guest_nice"))

CpuItems(c, g, x) ==
    ByName(c, [i \in g.shown |->
        Item(print_oneline_cpu_stats(x, i, g.itv[i], g.p[i], g.c[i]), (i - 1) * cpu_act.xnr,
             save_cpu_xstats(x, i, g.itv[i], g.p[i], g.c[i]))])
print_cpu_stats(p, c, x) == CpuItems(c, CpuSamples(p, c, x.sel), x)

\* Interrupts: a line for each interrupt, a column for each processor that is
\* not masked; CPU "all" is the first one.
print_irq_stats(p, c, x) ==
    LET g == get_global_int_statistics(p, c, x.sel)
        nr2 == Len(c[1].irq_name)
        cpus == DOMAIN c \ g.masked
        Kept(n) == x.items = {} \/ c[1].irq_name[n] \in x.items
        lines == {n \in 1..nr2 : Kept(n) /\ ~(x.omit /\ c[1].irq_nr[n] = p[1].irq_nr[n])}
        Value(k, n) == IF k = 1 THEN Increase(p[k].irq_nr[n], g.c[k].irq_nr[n], x.itv)
                       ELSE S_VALUE(p[k].irq_nr[n], g.c[k].irq_nr[n], x.itv)
        Line(n) == Item([m \in {c[k].name : k \in cpus} |->
                            Value(CHOOSE k \in cpus : c[k].name = m, n)], 0,
                        [i \in {((k - 1) * nr2 + n - 1) * irq_act.xnr : k \in cpus} |->
                            Value(i \div nr2 + 1, n)])
    IN  [m \in {c[1].irq_name[n] : n \in lines} |-> Line(CHOOSE n \in lines : c[1].irq_name[n] = m)]

stub_print_softnet_stats(p, c, x) ==
    LET g == get_global_soft_statistics(p, c)
        shown == {i \in Listed(c, x.sel) \ g.off : ~Omitted(x, g.p[i], g.c[i])}
        Line(i) == Item(Rates(g.p[i], g.c[i], x.itv,
                              <<"processed", "dropped", "time_squeeze", "received_rps", "flow_limit">>)
                            \o <<IF x.avg THEN Mean(x.shown, i, "backlog_len")
                                 ELSE Gauge(g.c[i].backlog_len)>>,
                        (i - 1) * softnet_act.xnr,
                        SaveExtrema(stats_softnet, <<0, 1, 2, 3, 4>>, g.p[i], g.c[i], x.itv)
                            @@ 5 :> Gauge(g.c[i].backlog_len))
    IN  ByName(c, [i \in shown |-> Line(i)])
print_softnet_stats(p, c, x) == stub_print_softnet_stats(p, c, x)

\* A processor whose frequency is not known is left out.
stub_print_pwr_cpufreq_stats(c, x) ==
    LET Line(i) == Item(<<Scaled(Mean(Samples(c, x), i, "cpufreq"), 100)>>,
                        (i - 1) * pwr_cpufreq_act.xnr, 0 :> <<c[i].cpufreq, 100>>)
    IN  ByName(c, [i \in {k \in Listed(c, x.sel) : c[k].cpufreq # 0} |-> Line(i)])
print_pwr_cpufreq_stats(p, c, x) == stub_print_pwr_cpufreq_stats(c, x)

\* The frequencies of a processor (freq, a sequence that a zero ends) weighted
\* by the time spent in each of them (time_in_state).
WeightedFreq(d, s) ==
    LET used == {k \in DOMAIN s.freq : \A j \in 1..k : s.freq[j] # 0}
        Tis(k) == s.time_in_state[k] - d.time_in_state[k]
    IN  Guarded(MapThenSumSet(Tis, used),
                <<MapThenSumSet(LAMBDA k : (s.freq[k] \div 1000) * Tis(k), used),
                  MapThenSumSet(Tis, used)>>)
print_pwr_wghfreq_stats(p, c, x) ==
    ByName(c, [i \in Listed(c, x.sel) |->
        LET w == <<WeightedFreq(p[i], c[i])>>
        IN  Item(w, (i - 1) * pwr_wghfreq_act.xnr, SaveAll(w))])

(***************************************************************************)
(* Memory, kernel tables, queues, sockets, huge pages, pressure.           *)
(***************************************************************************)
print_ram_memory_stats(c, x) ==
    LET s == Samples(c, x)
        M(f) == Mean(s, 1, f)
        \* The averages inside the percentages are those of integers.
        Whole(f) == Gauge(SumOf(s, 1, f) \div Len(s))
        total == Gauge(c[1].tlmkb)
    IN  <<M("frmkb"), M("availablekb"), Minus(total, M("availablekb")),
          Ratio(Minus(total, Whole("availablekb")), total), M("bufkb"), M("camkb"), M("comkb"),
          Ratio(Whole("comkb"), Gauge(c[1].tlmkb + c[1].tlskb)), M("activekb"), M("inactkb"),
          M("dirtykb"), M("shmemkb")>>
        \o (IF x.full THEN <<M("anonpgkb"), M("slabkb"), M("kstackkb"), M("pgtblkb"), M("vmusedkb")>>
            ELSE <<>>)
stub_print_ram_memory_stats(c, x) ==
    LET m == c[1]
    IN  [line |-> print_ram_memory_stats(c, x),
         saved |->
            SaveGauges(stats_memory,
                       <<0, 4, 5, -1, -1, -1, -1, 7, 9, 10, 11, 12, 13, 14, 15, 16, 1, 6>>, m)
            @@ 3 :> Guarded(m.tlmkb, SP_VALUE(m.availablekb, m.tlmkb, m.tlmkb))
            @@ 8 :> Guarded(m.tlmkb + m.tlskb, SP_VALUE(0, m.comkb, m.tlmkb + m.tlskb))
            @@ 2 :> Gauge(m.tlmkb - m.availablekb)]
print_swap_memory_stats(c, x) ==
    LET M(f) == Mean(Samples(c, x), 1, f)
        used == Minus(M("tlskb"), M("frskb"))
    IN  <<M("frskb"), used, Ratio(used, M("tlskb")), M("caskb"), Ratio(M("caskb"), used)>>
stub_print_swap_memory_stats(c, x) ==
    LET m == c[1]
        used == m.tlskb - m.frskb
    IN  [line |-> print_swap_memory_stats(c, x),
         saved |->
            SaveGauges(stats_memory, <<-1, -1, -1, -1, 17, -1, 20>>, m)
            @@ 19 :> Guarded(m.tlskb, SP_VALUE(m.frskb, m.tlskb, m.tlskb))
            @@ 21 :> Guarded(used, SP_VALUE(0, m.caskb, used)) @@ 18 :> Gauge(used)]
stub_print_memory_stats(c, x) ==
    LET none == [line |-> <<>>, saved |-> <<>>]
        ram == IF "ram" \in x.mem THEN stub_print_ram_memory_stats(c, x) ELSE none
        swap == IF "swap" \in x.mem THEN stub_print_swap_memory_stats(c, x) ELSE none
    IN  Alone(Item(ram.line \o swap.line, 0, ram.saved @@ swap.saved))
print_memory_stats(p, c, x) == stub_print_memory_stats(c, x)

\* A line of gauges.
GaugeLine(c, x, cols, fields, g_fields) ==
    Alone(Item([k \in DOMAIN cols |-> Mean(Samples(c, x), 1, cols[k])], 0,
               SaveGauges(fields, g_fields, c[1])))
stub_print_ktables_stats(c, x) ==
    GaugeLine(c, x, <<"dentry_stat", "file_used", "inode_used", "pty_nr">>, stats_ktables,
              <<1, 2, 0, 3>>)
print_ktables_stats(p, c, x) == stub_print_ktables_stats(c, x)
stub_print_net_sock_stats(c, x) ==
    GaugeLine(c, x, <<"sock_inuse", "tcp_inuse", "udp_inuse", "raw_inuse", "frag_inuse", "tcp_tw">>,
              stats_net_sock, <<0, 1, 5, 2, 3, 4>>)
print_net_sock_stats(p, c, x) == stub_print_net_sock_stats(c, x)
stub_print_net_sock6_stats(c, x) ==
    GaugeLine(c, x, <<"tcp6_inuse", "udp6_inuse", "raw6_inuse", "frag6_inuse">>, stats_net_sock6,
              InOrder(stats_net_sock6))
print_net_sock6_stats(p, c, x) == stub_print_net_sock6_stats(c, x)

stub_print_queue_stats(c, x) ==
    LET M(f) == Mean(Samples(c, x), 1, f)
    IN  Alone(Item(<<M("nr_running"), M("nr_threads"), Scaled(M("load_avg_1"), 100),
                     Scaled(M("load_avg_5"), 100), Scaled(M("load_avg_15"), 100),
                     M("procs_blocked")>>, 0,
                   SaveGauges(stats_queue, <<0, 5, 1, 2, 3, 4>>, c[1])))
print_queue_stats(p, c, x) == stub_print_queue_stats(c, x)

stub_print_huge_stats(c, x) ==
    LET M(f) == Mean(Samples(c, x), 1, f)
        m == c[1]
        used == Minus(M("tlhkb"), M("frhkb"))
    IN  Alone(Item(<<M("frhkb"), used, Ratio(used, M("tlhkb")), M("rsvdhkb"), M("surphkb")>>, 0,
                   SaveGauges(stats_huge, <<0, -1, 3, 4>>, m) @@ 1 :> Gauge(m.tlhkb - m.frhkb)
                   @@ 2 :> Guarded(m.tlhkb, SP_VALUE(m.frhkb, m.tlhkb, m.tlhkb))))
print_huge_stats(p, c, x) == stub_print_huge_stats(c, x)

\* Pressure: averages that the kernel computes, and the time spent waiting.
PsiLine(c, x, aver, pct) ==
    [k \in 1..3 |-> Scaled(Mean(Samples(c, x), 1, aver[k]), 100)] \o <<pct>>
PsiSaved(c, aver, pct) == [k \in 1..3 |-> <<c[1][aver[k]], 100>>] \o <<pct>>
PsiPct(p, c, x, f) == <<c[1][f] - p[1][f], 10000 * x.itv>>

stub_print_psicpu_stats(p, c, x) ==
    LET aver == <<"some_acpu_10", "some_acpu_60", "some_acpu_300">>
        pct == PsiPct(p, c, x, "some_cpu_total")
    IN  Alone(Item(PsiLine(c, x, aver, pct), 0, SaveAll(PsiSaved(c, aver, pct))))
print_psicpu_stats(p, c, x) == stub_print_psicpu_stats(p, c, x)
stub_print_psiio_stats(p, c, x) ==
    LET some == <<"some_aio_10", "some_aio_60", "some_aio_300">>
        full == <<"full_aio_10", "full_aio_60", "full_aio_300">>
        sio == PsiPct(p, c, x, "some_io_total")
        fio == PsiPct(p, c, x, "full_io_total")
    IN  Alone(Item(PsiLine(c, x, some, sio) \o PsiLine(c, x, full, fio), 0,
                   SaveAll(PsiSaved(c, some, sio) \o PsiSaved(c, full, fio))))
print_psiio_stats(p, c, x) == stub_print_psiio_stats(p, c, x)
stub_print_psimem_stats(p, c, x) ==
    LET some == <<"some_amem_10", "some_amem_60", "some_amem_300">>
        full == <<"full_amem_10", "full_amem_60", "full_amem_300">>
        smem == PsiPct(p, c, x, "some_mem_total")
        fmem == PsiPct(p, c, x, "full_mem_total")
    IN  Alone(Item(PsiLine(c, x, some, smem) \o PsiLine(c, x, full, fmem), 0,
                   SaveAll(PsiSaved(c, some, smem) \o PsiSaved(c, full, fmem))))
print_psimem_stats(p, c, x) == stub_print_psimem_stats(p, c, x)

(***************************************************************************)
(* Devices: extreme values are kept by place in the list of those already  *)
(* displayed.                                                              *)
(***************************************************************************)
\* A line that is not in the previous sample is left out.
print_serial_stats(p, c, x) ==
    LET I == {i \in DOMAIN c : SameItem(p, c, i) # {} /\ ~Omitted(x, PrevOrZero(p, c, i), c[i])}
        Line(i) == LET d == PrevOrZero(p, c, i)
                   IN  Item(Rates(d, c[i], x.itv, <<"rx", "tx", "frame", "parity", "brk", "overrun">>),
                            Place(Devices(x, c, I), c[i].name) * serial_act.xnr,
                            SaveExtrema(stats_serial, <<0, 1, 2, 3, 4, 5>>, d, c[i], x.itv))
    IN  ByName(c, [i \in I |-> Line(i)])

print_disk_stats(p, c, x) ==
    LET I == {i \in Listed(c, x.sel) : ~Omitted(x, check_disk_reg(p, c, i), c[i])}
        Line(i) ==
            LET d == check_disk_reg(p, c, i)
                xds == compute_ext_disk_stats(c[i], d, x.itv)
                KB(f) == Scaled(S_VALUE(d[f], c[i][f], x.itv), 2)
                v == <<KB("rd_sect"), KB("wr_sect"), KB("dc_sect"), Scaled(xds.arqsz, 2),
                       Scaled(S_VALUE(d.rq_ticks, c[i].rq_ticks, x.itv), 1000), xds.await,
                       Scaled(xds.util, 10)>>
            IN  Item(<<S_VALUE(d.nr_ios, c[i].nr_ios, x.itv)>> \o v,
                     Place(Devices(x, c, I), c[i].name) * disk_act.xnr,
                     SaveExtrema(stats_disk, <<0>>, d, c[i], x.itv) @@ [k \in 1..7 |-> v[k]])
    IN  ByName(c, [i \in I |-> Line(i)])

print_net_dev_stats(p, c, x) ==
    LET I == {i \in Listed(c, x.sel) : ~Omitted(x, check_net_dev_reg(p, c, i), c[i])}
        Line(i) ==
            LET d == check_net_dev_reg(p, c, i)
                rxkb == S_VALUE(d.rx_bytes, c[i].rx_bytes, x.itv)
                txkb == S_VALUE(d.tx_bytes, c[i].tx_bytes, x.itv)
                ifutil == compute_ifutil(c[i], rxkb, txkb)
            IN  Item(Rates(d, c[i], x.itv, <<"rx_packets", "tx_packets">>)
                         \o <<Scaled(rxkb, 1024), Scaled(txkb, 1024)>>
                         \o Rates(d, c[i], x.itv, <<"rx_compressed", "tx_compressed", "multicast">>)
                         \o <<ifutil>>,
                     Place(Devices(x, c, I), c[i].name) * net_dev_act.xnr,
                     SaveExtrema(stats_net_dev, <<0, 1, 2, 3, 4, 5, 6>>, d, c[i], x.itv)
                         @@ 7 :> ifutil)
    IN  ByName(c, [i \in I |-> Line(i)])

print_net_edev_stats(p, c, x) ==
    LET I == {i \in Listed(c, x.sel) : ~Omitted(x, check_net_edev_reg(p, c, i), c[i])}
        Line(i) ==
            LET d == check_net_edev_reg(p, c, i)
            IN  Item(Rates(d, c[i], x.itv,
                           <<"rx_errors", "tx_errors", "collisions", "rx_dropped", "tx_dropped",
                             "tx_carrier_errors", "rx_frame_errors", "rx_fifo_errors",
                             "tx_fifo_errors">>),
                     Place(Devices(x, c, I), c[i].name) * net_edev_act.xnr,
                     SaveExtrema(stats_net_edev, <<2, 0, 1, 3, 4, 7, 8, 6, 5>>, d, c[i], x.itv))
    IN  ByName(c, [i \in I |-> Line(i)])

print_fchost_stats(p, c, x) ==
    LET Line(i) ==
            LET d == PrevOrZero(p, c, i)
            IN  Item(Rates(d, c[i], x.itv, <<"f_rxframes", "f_txframes", "f_rxwords", "f_txwords">>),
                     Place(Devices(x, c, DOMAIN c), c[i].name) * fchost_act.xnr,
                     SaveExtrema(stats_fchost, <<0, 1, 2, 3>>, d, c[i], x.itv))
    IN  ByName(c, [i \in DOMAIN c |-> Line(i)])

\* The summary of the filesystems is their last values, kept in buf2.
filesystem_summary(buf2, c, I) ==
    FoldLeft(LAMBDA b, i :
                 LET same == {j \in DOMAIN b : b[j].name = c[i].name \/ b[j].f_blocks = 0}
                 IN  IF i \notin I THEN b
                     ELSE IF same = {} THEN Append(b, c[i])
                     ELSE [b EXCEPT ![CHOOSE j \in same : \A k \in same : j <= k] = c[i]],
             buf2, [i \in DOMAIN c |-> i])
stub_print_filesystem_stats(p, c, x) ==
    LET I == {i \in Listed(c, x.sel) :
                  x.avg \/ SameItem(p, c, i) = {} \/ ~Omitted(x, PrevOrZero(p, c, i), c[i])}
        Line(i) ==
            LET f == c[i]
                line == <<<<f.f_bfree, 1024 * 1024>>, <<f.f_blocks - f.f_bfree, 1024 * 1024>>,
                          Guarded(f.f_blocks, SP_VALUE(f.f_bfree, f.f_blocks, f.f_blocks)),
                          Guarded(f.f_blocks, SP_VALUE(f.f_bavail, f.f_blocks, f.f_blocks)),
                          Gauge(f.f_ffree), Gauge(f.f_files - f.f_ffree),
                          Guarded(f.f_files, SP_VALUE(f.f_ffree, f.f_files, f.f_files))>>
            IN  Item(line, Place(Devices(x, c, I), f.name) * filesystem_act.xnr, SaveAll(line))
    IN  ByName(c, [i \in I |-> Line(i)])
print_filesystem_stats(p, c, x) ==
    stub_print_filesystem_stats(p, IF x.avg THEN x.buf2 ELSE c, x)

\* So is that of the USB devices, which have no extreme values.
usb_summary(buf2, c) ==
    FoldLeft(LAMBDA b, d :
                 IF \E j \in DOMAIN b : /\ b[j].bus_nr = d.bus_nr /\ b[j].vendor_id = d.vendor_id
                                        /\ b[j].product_id = d.product_id
                 THEN b ELSE Append(b, d), buf2, c)
stub_print_pwr_usb_stats(c) ==
    ByName(c, [i \in DOMAIN c |->
        Item(<<Gauge(c[i].vendor_id), Gauge(c[i].product_id), Gauge(2 * c[i].bmaxpower)>>, 0, <<>>)])
print_pwr_usb_stats(p, c, x) == stub_print_pwr_usb_stats(IF x.avg THEN x.buf2 ELSE c)

(***************************************************************************)
(* Sensors.                                                                *)
(***************************************************************************)
stub_print_pwr_fan_stats(c, x) ==
    LET M(i, f) == Mean(Samples(c, x), i, f)
        Line(i) == Item(<<M(i, "rpm"), Minus(M(i, "rpm"), M(i, "rpm_min"))>>, (i - 1) * pwr_fan_act.xnr,
                        SaveAll(<<Gauge(c[i].rpm), Gauge(c[i].rpm - c[i].rpm_min)>>))
    IN  ByName(c, [i \in DOMAIN c |-> Line(i)])
print_pwr_fan_stats(p, c, x) == stub_print_pwr_fan_stats(c, x)

\* A value, and where it lies between the limits of the sensor.
SensorLine(c, i, v, low, high) == <<v, Ratio(Minus(v, Gauge(c[i][low])), Gauge(c[i][high] - c[i][low]))>>
stub_print_pwr_temp_stats(c, x) ==
    LET Line(i) == Item(SensorLine(c, i, Mean(Samples(c, x), i, "temp"), "temp_min", "temp_max"),
                        (i - 1) * pwr_temp_act.xnr,
                        SaveAll(SensorLine(c, i, Gauge(c[i].temp), "temp_min", "temp_max")))
    IN  ByName(c, [i \in DOMAIN c |-> Line(i)])
print_pwr_temp_stats(p, c, x) == stub_print_pwr_temp_stats(c, x)
stub_print_pwr_in_stats(c, x) ==
    LET Line(i) == Item(SensorLine(c, i, Mean(Samples(c, x), i, "in"), "in_min", "in_max"),
                        (i - 1) * pwr_in_act.xnr,
                        SaveAll(SensorLine(c, i, Gauge(c[i].in), "in_min", "in_max")))
    IN  ByName(c, [i \in DOMAIN c |-> Line(i)])
print_pwr_in_stats(p, c, x) == stub_print_pwr_in_stats(c, x)

\* An arrow, or "?" (0).
BatteryStatus(s) == Gauge(IF s.status \in 1..BAT_STS_NR - 1 THEN s.status ELSE 0)
\* Batteries are compared with the one at the same index; their status is not
\* part of the average.
stub_print_pwr_bat_stats(p, c, x) ==
    LET Line(i) ==
            LET capmin == <<(c[i].capacity - p[i].capacity) * 60, x.itv>>
            IN  Item(<<Mean(Samples(c, x), i, "capacity"), capmin>>
                         \o (IF x.avg THEN <<>> ELSE <<BatteryStatus(c[i])>>),
                     Place(Devices(x, c, DOMAIN c), c[i].name) * pwr_bat_act.xnr,
                     SaveAll(<<Gauge(c[i].capacity), capmin>>))
    IN  ByName(c, [i \in DOMAIN c |-> Line(i)])
print_pwr_bat_stats(p, c, x) == stub_print_pwr_bat_stats(p, c, x)

(***************************************************************************)
(* The lines of extreme values (pr_xstats.c): for each column the place of *)
(* its value, after those of the items before, and what it is divided by.  *)
(***************************************************************************)
Columns(places) == [k \in DOMAIN places |-> <<places[k], 1>>]
FirstPlaces(nr) == [k \in 1..nr |-> <<k - 1, 1>>]

print_cpu_xstats(full) ==
    Columns(IF full THEN <<0, 1, 2, 3, 4, 5, 6, 7, 8, 9>> ELSE <<0, 1, 2, 3, 4, 9>>)
print_genf_xstats(nr) == FirstPlaces(nr)
print_genu64_xstats(nr) == FirstPlaces(nr)
\* One value for each processor k that is not masked, of interrupt n.
print_irq_xstats(c, cpus, n) ==
    [m \in {c[k].name : k \in cpus} |->
        <<(((CHOOSE k \in cpus : c[k].name = m) - 1) * Len(c[1].irq_name) + n - 1) * irq_act.xnr, 1>>]
print_ram_memory_xstats(full) ==
    Columns(<<0, 1, 2, 3, 4, 5, 7, 8, 9, 10, 11, 6>>
            \o (IF full THEN <<12, 13, 14, 15, 16>> ELSE <<>>))
print_swap_memory_xstats == Columns(<<17, 18, 19, 20, 21>>)
print_queue_xstats == <<<<0, 1>>, <<1, 1>>, <<2, 100>>, <<3, 100>>, <<4, 100>>, <<5, 1>>>>
print_serial_xstats == FirstPlaces(6)
print_disk_xstats == FirstPlaces(8)
print_net_dev_xstats ==
    <<<<0, 1>>, <<1, 1>>, <<2, 1024>>, <<3, 1024>>, <<4, 1>>, <<5, 1>>, <<6, 1>>, <<7, 1>>>>
print_net_edev_xstats == FirstPlaces(9)
print_pwr_cpufreq_xstats == FirstPlaces(1)
print_pwr_fan_xstats == FirstPlaces(2)
print_pwr_sensor_xstats == FirstPlaces(2)
print_huge_xstats == FirstPlaces(5)
print_pwr_wghfreq_xstats == FirstPlaces(1)
print_filesystem_xstats == FirstPlaces(7)
print_fchost_xstats == FirstPlaces(4)
print_softnet_xstats == FirstPlaces(6)
print_psi_xstats(nr) == FirstPlaces(nr)
print_pwr_bat_xstats == FirstPlaces(2)
=============================================================================
