------------------------------ MODULE SvgLines ------------------------------
(***************************************************************************)
(* The graphs of sadf -g (svg_stats.c).  svg_print_X_stats(p, c, x) is     *)
(* what the function of activity X does with the previous sample p and the *)
(* current one c:                                                          *)
(*   - plot: for each item plotted, the points added to its curves, which  *)
(*     are the arrays out + pos, out + pos + 1, ..., and the values saved  *)
(*     at spmin + posp, spmin + posp + 1, ..., for the captions (F_MAIN);  *)
(*   - title and per: the titles of the curves, and what their captions    *)
(*     are divided by before they are drawn (F_END).                       *)
(* x.restart is svg_p->restart, set until a first sample has been plotted; *)
(* x.xdev is the list of the items that have graphs, in the order of their *)
(* first points; x.seen the items plotted the last time, x.ran whether     *)
(* there was such a time.                                                  *)
(***************************************************************************)
EXTENDS SarLines

(***************************************************************************)
(* Points.                                                                 *)
(***************************************************************************)
\* lnappend() and lniappend(): the line goes to the value, or begins there.
lnappend(v, restart) == <<[kind |-> IF restart THEN "M" ELSE "L", v |-> v]>>

\* brappend(): a bar above offset, which does not go beyond whole (100%) and
\* is not drawn when it is flat.  A bar may be higher when hval is set.
Highest(v, w) == IF Less(w, v) THEN w ELSE v
brappend(offset, v, whole) ==
    IF v[1] = 0 THEN <<>> ELSE <<[kind |-> "B", v |-> Highest(v, Minus(whole, offset))]>>
brappend_hval(v) == IF v[1] = 0 THEN <<>> ELSE <<[kind |-> "B", v |-> v]>>
Fraction == Gauge(1)
Percent == Gauge(100)

\* recappend(): a step from value w of the previous sample to v.
recappend(w, v, restart) ==
    (IF restart THEN <<[kind |-> "M", v |-> w]>> ELSE <<>>) \o <<[kind |-> "L", v |-> w]>>
        \o (IF Same(w, v) THEN <<>> ELSE <<[kind |-> "L", v |-> v]>>)

(***************************************************************************)
(* Graphs.                                                                 *)
(***************************************************************************)
Plot(pos, posp, curve, saved) == [pos |-> pos, posp |-> posp, curve |-> curve, saved |-> saved]
Svg(title, per, plot) == [title |-> title, per |-> per, plot |-> plot]
\* Titles of the curves from array o on; divisor d of the captions of some.
Titles(s, o) == [k \in o..o + Len(s) - 1 |-> s[k - o + 1]]
Per(d, arrays) == [k \in arrays |-> d]
\* Lines through values v, from array o on.
Lines(v, o, restart) == [k \in o..o + Len(v) - 1 |-> lnappend(v[k - o + 1], restart)]

\* A device was marked as unregistered when it was not plotted the last time,
\* if there was one: its line is then broken, as it is for a device that is
\* not in the previous sample, or was registered again in the meantime.
Unregistered(x, name) == x.ran /\ name \notin x.seen

(***************************************************************************)
(* Activities without items.                                               *)
(***************************************************************************)
SvgRates(p, c, x, titles, cols, fields, g_fields) ==
    Svg(Titles(titles, 0), << >>,
        Alone(Plot(0, 0, Lines(Rates(p[1], c[1], x.itv, cols), 0, x.restart),
                   SaveExtrema(fields, g_fields, p[1], c[1], x.itv))))

svg_print_pcsw_stats(p, c, x) ==
    SvgRates(p, c, x, <<"proc", "cswch">>, <<"processes", "context_switch">>, stats_pcsw, <<1, 0>>)
svg_print_swap_stats(p, c, x) ==
    SvgRates(p, c, x, <<"pswpin", "pswpout">>, <<"pswpin", "pswpout">>, stats_swap, <<0, 1>>)
svg_print_paging_stats(p, c, x) ==
    SvgRates(p, c, x,
        <<"pgpgin", "pgpgout", "fault", "majflt", "pgfree", "pgscank", "pgscand", "pgsteal",
          "pgprom", "pgdem">>,
        <<"pgpgin", "pgpgout", "pgfault", "pgmajfault", "pgfree", "pgscan_kswapd",
          "pgscan_direct", "pgsteal", "pgpromote", "pgdemote">>,
        stats_paging, InOrder(stats_paging))
svg_print_io_stats(p, c, x) ==
    Svg(Titles(<<"tps", "rtps", "wtps", "dtps", "bread", "bwrtn", "bdscd">>, 0), << >>,
        Alone(Plot(0, 0,
            Lines(Increases(p[1], c[1], x.itv,
                      <<"dk_drive", "dk_drive_rio", "dk_drive_wio", "dk_drive_dio",
                        "dk_drive_rblk", "dk_drive_wblk", "dk_drive_dblk">>), 0, x.restart),
            SaveExtrema(stats_io, <<0, 1, 2, 4, 5, 3, 6>>, p[1], c[1], x.itv))))
svg_print_net_nfs_stats(p, c, x) ==
    SvgRates(p, c, x, <<"call", "retrans", "read", "write", "access", "getatt">>,
        <<"nfs_rpccnt", "nfs_rpcretrans", "nfs_readcnt", "nfs_writecnt", "nfs_accesscnt",
          "nfs_getattcnt">>, stats_net_nfs, InOrder(stats_net_nfs))
svg_print_net_nfsd_stats(p, c, x) ==
    SvgRates(p, c, x,
        <<"scall", "badcall", "packet", "udp", "tcp", "hit", "miss", "sread", "swrite",
          "saccess", "sgetatt">>,
        <<"nfsd_rpccnt", "nfsd_rpcbad", "nfsd_netcnt", "nfsd_netudpcnt", "nfsd_nettcpcnt",
          "nfsd_rchits", "nfsd_rcmisses", "nfsd_readcnt", "nfsd_writecnt", "nfsd_accesscnt",
          "nfsd_getattcnt">>, stats_net_nfsd, InOrder(stats_net_nfsd))
svg_print_net_ip_stats(p, c, x) ==
    SvgRates(p, c, x,
        <<"irec", "fwddgm", "idel", "orq", "asmrq", "asmok", "fragok", "fragcrt">>,
        <<"InReceives", "ForwDatagrams", "InDelivers", "OutRequests", "ReasmReqds", "ReasmOKs",
          "FragOKs", "FragCreates">>, stats_net_ip, InOrder(stats_net_ip))
svg_print_net_eip_stats(p, c, x) ==
    SvgRates(p, c, x,
        <<"ihdrerr", "iadrerr", "iukwnpr", "idisc", "odisc", "onort", "asmf", "fragf">>,
        <<"InHdrErrors", "InAddrErrors", "InUnknownProtos", "InDiscards", "OutDiscards",
          "OutNoRoutes", "ReasmFails", "FragFails">>, stats_net_eip, InOrder(stats_net_eip))
svg_print_net_icmp_stats(p, c, x) ==
    SvgRates(p, c, x,
        <<"imsg", "omsg", "iech", "iechr", "oech", "oechr", "itm", "itmr", "otm", "otmr",
          "iadrmk", "iadrmkr", "oadrmk", "oadrmkr">>,
        <<"InMsgs", "OutMsgs", "InEchos", "InEchoReps", "OutEchos", "OutEchoReps",
          "InTimestamps", "InTimestampReps", "OutTimestamps", "OutTimestampReps", "InAddrMasks",
          "InAddrMaskReps", "OutAddrMasks", "OutAddrMaskReps">>,
        stats_net_icmp, InOrder(stats_net_icmp))
svg_print_net_eicmp_stats(p, c, x) ==
    SvgRates(p, c, x,
        <<"ierr", "oerr", "idstunr", "odstunr", "itmex", "otmex", "iparmpb", "oparmpb", "isrcq",
          "osrcq", "iredir", "oredir">>,
        <<"InErrors", "OutErrors", "InDestUnreachs", "OutDestUnreachs", "InTimeExcds",
          "OutTimeExcds", "InParmProbs", "OutParmProbs", "InSrcQuenchs", "OutSrcQuenchs",
          "InRedirects", "OutRedirects">>, stats_net_eicmp, InOrder(stats_net_eicmp))
svg_print_net_tcp_stats(p, c, x) ==
    SvgRates(p, c, x, <<"active", "passive", "iseg", "oseg">>,
        <<"ActiveOpens", "PassiveOpens", "InSegs", "OutSegs">>, stats_net_tcp,
        InOrder(stats_net_tcp))
svg_print_net_etcp_stats(p, c, x) ==
    SvgRates(p, c, x, <<"atmptf", "estres", "retrseg", "isegerr", "orsts">>,
        <<"AttemptFails", "EstabResets", "RetransSegs", "InErrs", "OutRsts">>, stats_net_etcp,
        InOrder(stats_net_etcp))
svg_print_net_udp_stats(p, c, x) ==
    SvgRates(p, c, x, <<"idgm", "odgm", "noport", "idgmerr">>,
        <<"InDatagrams", "OutDatagrams", "NoPorts", "InErrors">>, stats_net_udp,
        InOrder(stats_net_udp))
svg_print_net_ip6_stats(p, c, x) ==
    SvgRates(p, c, x,
        <<"irec6", "fwddgm6", "idel6", "orq6", "asmrq6", "asmok6", "imcpck6", "omcpck6",
          "fragok6", "fragcr6">>,
        <<"InReceives6", "OutForwDatagrams6", "InDelivers6", "OutRequests6", "ReasmReqds6",
          "ReasmOKs6", "InMcastPkts6", "OutMcastPkts6", "FragOKs6", "FragCreates6">>,
        stats_net_ip6, InOrder(stats_net_ip6))
svg_print_net_eip6_stats(p, c, x) ==
    SvgRates(p, c, x,
        <<"ihdrer6", "iadrer6", "iukwnp6", "i2big6", "idisc6", "odisc6", "inort6", "onort6",
          "asmf6", "fragf6", "itrpck6">>,
        <<"InHdrErrors6", "InAddrErrors6", "InUnknownProtos6", "InTooBigErrors6",
          "InDiscards6", "OutDiscards6", "InNoRoutes6", "OutNoRoutes6", "ReasmFails6",
          "FragFails6", "InTruncatedPkts6">>, stats_net_eip6, InOrder(stats_net_eip6))
svg_print_net_icmp6_stats(p, c, x) ==
    SvgRates(p, c, x,
        <<"imsg6", "omsg6", "iech6", "iechr6", "oechr6", "igmbq6", "igmbr6", "ogmbr6",
          "igmbrd6", "ogmbrd6", "irtsol6", "ortsol6", "irtad6", "inbsol6", "onbsol6",
          "inbad6", "onbad6">>,
        <<"InMsgs6", "OutMsgs6", "InEchos6", "InEchoReplies6", "OutEchoReplies6",
          "InGroupMembQueries6", "InGroupMembResponses6", "OutGroupMembResponses6",
          "InGroupMembReductions6", "OutGroupMembReductions6", "InRouterSolicits6",
          "OutRouterSolicits6", "InRouterAdvertisements6", "InNeighborSolicits6",
          "OutNeighborSolicits6", "InNeighborAdvertisements6", "OutNeighborAdvertisements6">>,
        stats_net_icmp6, InOrder(stats_net_icmp6))
svg_print_net_eicmp6_stats(p, c, x) ==
    SvgRates(p, c, x,
        <<"ierr6", "idtunr6", "odtunr6", "itmex6", "otmex6", "iprmpb6", "oprmpb6", "iredir6",
          "oredir6", "ipck2b6", "opck2b6">>,
        <<"InErrors6", "InDestUnreachs6", "OutDestUnreachs6", "InTimeExcds6", "OutTimeExcds6",
          "InParmProblems6", "OutParmProblems6", "InRedirects6", "OutRedirects6",
          "InPktTooBigs6", "OutPktTooBigs6">>, stats_net_eicmp6, InOrder(stats_net_eicmp6))
svg_print_net_udp6_stats(p, c, x) ==
    SvgRates(p, c, x, <<"idgm6", "odgm6", "noport6", "idgmer6">>,
        <<"InDatagrams6", "OutDatagrams6", "NoPorts6", "InErrors6">>, stats_net_udp6,
        InOrder(stats_net_udp6))

SvgGauges(c, x, titles, cols, fields, g_fields) ==
    Svg(Titles(titles, 0), << >>,
        Alone(Plot(0, 0, Lines(Gauges(c[1], cols), 0, x.restart), SaveGauges(fields, g_fields, c[1]))))
svg_print_ktables_stats(p, c, x) ==
    SvgGauges(c, x, <<"dentunusd", "file_nr", "inode_nr", "pty_nr">>,
        <<"dentry_stat", "file_used", "inode_used", "pty_nr">>, stats_ktables, <<1, 2, 0, 3>>)
svg_print_net_sock_stats(p, c, x) ==
    SvgGauges(c, x, <<"totsck", "tcpsck", "udpsck", "rawsck", "ip_frag", "tcp_tw">>,
        <<"sock_inuse", "tcp_inuse", "udp_inuse", "raw_inuse", "frag_inuse", "tcp_tw">>,
        stats_net_sock, <<0, 1, 5, 2, 3, 4>>)
svg_print_net_sock6_stats(p, c, x) ==
    SvgGauges(c, x, <<"tcp6sck", "udp6sck", "raw6sck", "ip6_frag">>,
        <<"tcp6_inuse", "udp6_inuse", "raw6_inuse", "frag6_inuse">>, stats_net_sock6,
        <<0, 1, 2, 3>>)

svg_print_queue_stats(p, c, x) ==
    LET s == c[1]
    IN  Svg(Titles(<<"runq_sz", "blocked", "plist_sz", "ldavg_1", "ldavg_5", "ldavg_15">>, 0),
            Per(100, 3..5),
            Alone(Plot(0, 0,
                Lines(<<Gauge(s.nr_running), Gauge(s.procs_blocked), Gauge(s.nr_threads),
                        <<s.load_avg_1, 100>>, <<s.load_avg_5, 100>>, <<s.load_avg_15, 100>>>>,
                      0, x.restart),
                SaveGauges(stats_queue, <<0, 1, 2, 3, 4, 5>>, s))))

\* Memory used is saved in MB, what the kernel gives in kB.
ram_g_fields == <<0, 4, 5, -1, -1, -1, -1, 7, 9, 10, 11, 12, 13, 14, 15, 16, 1, 6>>
svg_print_ram_memory_stats(m, x) ==
    LET mupct == Guarded(m.tlmkb, SP_VALUE(m.availablekb, m.tlmkb, m.tlmkb))
        copct == Guarded(m.tlmkb + m.tlskb, SP_VALUE(0, m.comkb, m.tlmkb + m.tlskb))
        mu == <<m.tlmkb - m.availablekb, 1024>>
        MB(f) == <<m[f], 1024>>
    IN  Svg(Titles(<<"MBmemfree", "MBavail", "MBmemused", "pct_memused", "MBbuffers", "MBcached",
                     "MBshared", "MBcommit", "pct_commit", "MBactive", "MBinact", "MBdirty">>
                   \o (IF x.full
                       THEN <<"MBanonpg", "MBslab", "MBkstack", "MBpgtbl", "MBvmused">> ELSE <<>>), 0),
            Per(1024, {g \in Range(ram_g_fields) : g >= 0}),
            [curve |->
                Lines(<<MB("frmkb"), MB("availablekb"), mu>>, 0, x.restart)
                @@ 3 :> brappend(Zero, mupct, Fraction)
                @@ Lines(<<MB("bufkb"), MB("camkb"), MB("shmemkb"), MB("comkb")>>, 4, x.restart)
                @@ 8 :> brappend_hval(copct)
                @@ Lines(<<MB("activekb"), MB("inactkb"), MB("dirtykb"), MB("anonpgkb"),
                           MB("slabkb"), MB("kstackkb"), MB("pgtblkb"), MB("vmusedkb")>>, 9, x.restart),
             saved |-> SaveGauges(stats_memory, ram_g_fields, m)
                       @@ 3 :> mupct @@ 8 :> copct @@ 2 :> mu])
\* The curves of the swap space are in other arrays, and their captions 17
\* places after those of memory.
svg_print_swap_memory_stats(m, x) ==
    LET used == m.tlskb - m.frskb
        supct == Guarded(m.tlskb, SP_VALUE(m.frskb, m.tlskb, m.tlskb))
        scpct == Guarded(used, SP_VALUE(0, m.caskb, used))
        su == <<used, 1024>>
    IN  Svg(Titles(<<"MBswpfree", "MBswpused", "MBswpcad", "pct_swpused", "pct_swpcad">>, 17),
            Per(1024, {17, 19}),
            [curve |-> Lines(<<<<m.frskb, 1024>>, su, <<m.caskb, 1024>>>>, 17, x.restart)
                       @@ 20 :> brappend(Zero, supct, Fraction) @@ 21 :> brappend(Zero, scpct, Fraction),
             saved |-> SaveGauges(stats_memory, <<-1, -1, -1, -1, 17, -1, 19>>, m)
                       @@ 20 :> supct @@ 21 :> scpct @@ 18 :> su])
svg_print_memory_stats(p, c, x) ==
    LET none == Svg(<<>>, << >>, [curve |-> << >>, saved |-> << >>])
        ram == IF "ram" \in x.mem THEN svg_print_ram_memory_stats(c[1], x) ELSE none
        swap == IF "swap" \in x.mem THEN svg_print_swap_memory_stats(c[1], x) ELSE none
    IN  Svg(ram.title @@ swap.title, ram.per @@ swap.per,
            Alone(Plot(0, 0, ram.plot.curve @@ swap.plot.curve, ram.plot.saved @@ swap.plot.saved)))

svg_print_huge_stats(p, c, x) ==
    LET m == c[1]
        used == Gauge(m.tlhkb - m.frhkb)
        tval == Guarded(m.tlhkb, SP_VALUE(m.frhkb, m.tlhkb, m.tlhkb))
    IN  Svg(Titles(<<"kbhugfree", "kbhugused", "kbhugrsvd", "kbhugsurp", "pct_hugused">>, 0), << >>,
            Alone(Plot(0, 0,
                Lines(<<Gauge(m.frhkb), used, Gauge(m.rsvdhkb), Gauge(m.surphkb)>>, 0, x.restart)
                    @@ 4 :> brappend(Zero, tval, Fraction),
                SaveGauges(stats_huge, <<0, -1, 2, 3>>, m) @@ 1 :> used @@ 4 :> tval)))

\* Pressure: three averages and the time spent waiting, from array o on.
PsiCurves(c, x, aver, tval, o) ==
    Lines([k \in 1..3 |-> <<c[1][aver[k]], 100>>], o, x.restart) @@ o + 3 :> brappend(Zero, tval, Percent)
PsiMinmax(c, aver, tval, o) ==
    [k \in o..o + 2 |-> Gauge(c[1][aver[k - o + 1]])] @@ o + 3 :> tval
svg_print_psicpu_stats(p, c, x) ==
    LET aver == <<"some_acpu_10", "some_acpu_60", "some_acpu_300">>
        tval == PsiPct(p, c, x, "some_cpu_total")
    IN  Svg(Titles(<<"pct_scpu_10", "pct_scpu_60", "pct_scpu_300", "pct_scpu">>, 0), Per(100, 0..2),
            Alone(Plot(0, 0, PsiCurves(c, x, aver, tval, 0), PsiMinmax(c, aver, tval, 0))))
svg_print_psiio_stats(p, c, x) ==
    LET some == <<"some_aio_10", "some_aio_60", "some_aio_300">>
        full == <<"full_aio_10", "full_aio_60", "full_aio_300">>
        tvals == PsiPct(p, c, x, "some_io_total")
        tvalf == PsiPct(p, c, x, "full_io_total")
    IN  Svg(Titles(<<"pct_sio_10", "pct_sio_60", "pct_sio_300", "pct_sio", "pct_fio_10",
                     "pct_fio_60", "pct_fio_300", "pct_fio">>, 0), Per(100, {0, 1, 2, 4, 5, 6}),
            Alone(Plot(0, 0, PsiCurves(c, x, some, tvals, 0) @@ PsiCurves(c, x, full, tvalf, 4),
                       PsiMinmax(c, some, tvals, 0) @@ PsiMinmax(c, full, tvalf, 4))))
svg_print_psimem_stats(p, c, x) ==
    LET some == <<"some_amem_10", "some_amem_60", "some_amem_300">>
        full == <<"full_amem_10", "full_amem_60", "full_amem_300">>
        tvals == PsiPct(p, c, x, "some_mem_total")
        tvalf == PsiPct(p, c, x, "full_mem_total")
    IN  Svg(Titles(<<"pct_smem_10", "pct_smem_60", "pct_smem_300", "pct_smem", "pct_fmem_10",
                     "pct_fmem_60", "pct_fmem_300", "pct_fmem">>, 0), Per(100, {0, 1, 2, 4, 5, 6}),
            Alone(Plot(0, 0, PsiCurves(c, x, some, tvals, 0) @@ PsiCurves(c, x, full, tvalf, 4),
                       PsiMinmax(c, some, tvals, 0) @@ PsiMinmax(c, full, tvalf, 4))))

(***************************************************************************)
(* Processors and sensors: the graphs are those of the indexes.            *)
(***************************************************************************)
\* cpuappend() for the values v: bars above one another, and what they save.
CpuBars(v, t) ==
    [k \in 0..Len(v) - 1 |->
        brappend(<<MapThenSumSet(LAMBDA j : v[j][1], 1..k), t>>, v[k + 1], Fraction)]
svg_print_cpu_stats(p, c, x) ==
    LET g == CpuSamples(p, c, x.sel)
        idle == IF x.full THEN 9 ELSE 5
        Values(d, s, t) ==
            (IF x.full
             THEN <<CpuPctNoGuest(d, s, "cpu_user", "cpu_guest", t),
                    CpuPctNoGuest(d, s, "cpu_nice", "cpu_guest_nice", t), CpuPct(d, s, "cpu_sys", t)>>
             ELSE <<CpuPct(d, s, "cpu_user", t), CpuPct(d, s, "cpu_nice", t),
                    CpuPctOf(d, s, AllSystem, t)>>)
            \o <<CpuPct(d, s, "cpu_iowait", t), CpuPct(d, s, "cpu_steal", t)>>
            \o (IF x.full
                THEN <<CpuPct(d, s, "cpu_hardirq", t), CpuPct(d, s, "cpu_softirq", t),
                       CpuPct(d, s, "cpu_guest", t), CpuPct(d, s, "cpu_guest_nice", t)>> ELSE <<>>)
            \o <<CpuPct(d, s, "cpu_idle", t)>>
        Graph(i, v) == Plot((i - 1) * 10, (i - 1) * 10, CpuBars(v, g.itv[i]), SaveAll(v))
        \* A tickless processor.
        Tick0(i) == Plot((i - 1) * 10, (i - 1) * 10,
                         [k \in 0..idle |-> IF k = idle THEN brappend(Zero, Gauge(1), Fraction) ELSE <<>>],
                         [k \in 0..idle |-> IF k = idle THEN Gauge(1) ELSE Zero])
    IN  Svg(Titles(IF x.full
                   THEN <<"pct_usr", "pct_nice", "pct_sys", "pct_iowait", "pct_steal", "pct_irq",
                          "pct_soft", "pct_guest", "pct_gnice", "pct_idle">>
                   ELSE <<"pct_user", "pct_nice", "pct_system", "pct_iowait", "pct_steal", "pct_idle">>, 0),
            << >>,
            ByName(c, [i \in g.shown |->
                IF i # 1 /\ g.itv[i] = 0 THEN Tick0(i) ELSE Graph(i, Values(g.p[i], g.c[i], g.itv[i]))]))

\* An offline processor is plotted, with nothing saved: its line begins anew.
svg_print_softnet_stats(p, c, x) ==
    LET g == get_global_soft_statistics(p, c)
        Graph(i) ==
            LET off == i \in g.off
                s == IF off /\ x.restart THEN ZeroOf(g.c[i]) ELSE g.c[i]
            IN  Plot((i - 1) * 6, (i - 1) * softnet_act.xnr,
                     Lines(Rates(g.p[i], s, x.itv,
                                 <<"processed", "dropped", "time_squeeze", "received_rps", "flow_limit">>)
                               \o <<Gauge(s.backlog_len)>>, 0, x.restart \/ off),
                     IF off THEN << >>
                     ELSE SaveExtrema(stats_softnet, <<0, 1, 2, 3, 4>>, g.p[i], s, x.itv)
                              @@ 5 :> Gauge(s.backlog_len))
    IN  Svg(Titles(<<"total", "dropd", "squeezd", "rx_rps", "flw_lim", "blg_len">>, 0), << >>,
            ByName(c, [i \in Listed(c, x.sel) |-> Graph(i)]))

\* The frequency of an offline processor goes through 0.
svg_print_pwr_cpufreq_stats(p, c, x) ==
    LET MHz(s) == <<s.cpufreq, 100>>
    IN  Svg(Titles(<<"MHz">>, 0), << >>,
            ByName(c, [i \in Listed(c, x.sel) |->
                Plot(i - 1, i - 1, 0 :> recappend(MHz(p[i]), MHz(c[i]), x.restart), 0 :> MHz(c[i]))]))
svg_print_pwr_fan_stats(p, c, x) ==
    Svg(Titles(<<"rpm">>, 0), << >>,
        ByName(c, [i \in DOMAIN c |->
            Plot(i - 1, i - 1, 0 :> recappend(Gauge(p[i].rpm), Gauge(c[i].rpm), x.restart),
                 0 :> Gauge(c[i].rpm))]))
\* The value of sensor i, and its place tval between the limits.
SensorPlot(i, v, tval, x) ==
    Plot((i - 1) * 2, (i - 1) * 2, 0 :> lnappend(v, x.restart) @@ 1 :> brappend(Zero, tval, Fraction),
         0 :> v @@ 1 :> tval)
svg_print_pwr_temp_stats(p, c, x) ==
    LET Span(s) == s.temp_max - s.temp_min
        tval(s) == Guarded(Span(s), <<s.temp - s.temp_min, Span(s)>>)
    IN  Svg(Titles(<<"degC", "pct_temp">>, 0), << >>,
            ByName(c, [i \in DOMAIN c |-> SensorPlot(i, Gauge(c[i].temp), tval(c[i]), x)]))
svg_print_pwr_in_stats(p, c, x) ==
    LET Span(s) == s.in_max - s.in_min
        tval(s) == Guarded(Span(s), <<s.in - s.in_min, Span(s)>>)
    IN  Svg(Titles(<<"inV", "pct_in">>, 0), << >>,
            ByName(c, [i \in DOMAIN c |-> SensorPlot(i, Gauge(c[i].in), tval(c[i]), x)]))
svg_print_pwr_bat_stats(p, c, x) ==
    Svg(Titles(<<"pct_cap">>, 0), << >>,
        ByName(c, [i \in DOMAIN c |->
            Plot(i - 1, i - 1, 0 :> brappend(Zero, Gauge(c[i].capacity), Percent),
                 0 :> Gauge(c[i].capacity))]))

(***************************************************************************)
(* Devices: an item gets the first free graph, which keeps its name.       *)
(***************************************************************************)
DevicePlots(c, x, I, sz, xnr, curves, saved) ==
    LET k(i) == Place(Devices(x, c, I), c[i].name)
    IN  ByName(c, [i \in I |-> Plot(k(i) * sz, k(i) * xnr, curves[i], saved[i])])
\* Whether the line of an item, which is new or not, is broken.
Broken(x, name, new) == x.restart \/ Unregistered(x, name) \/ new

svg_print_disk_stats(p, c, x) ==
    LET I == Listed(c, x.sel)
        Values(i, d) ==
            LET xds == compute_ext_disk_stats(c[i], d, x.itv)
                kB(f) == Scaled(S_VALUE(d[f], c[i][f], x.itv), 2)
            IN  <<kB("rd_sect"), kB("wr_sect"), kB("dc_sect"), Scaled(xds.arqsz, 2),
                  Scaled(S_VALUE(d.rq_ticks, c[i].rq_ticks, x.itv), 1000), xds.await,
                  Scaled(xds.util, 10)>>
        Points(i, d, v) ==
            Lines(<<S_VALUE(d.nr_ios, c[i].nr_ios, x.itv)>> \o SubSeq(v, 1, 6), 0,
                  Broken(x, c[i].name, ~DiskRegistered(p, c, i)))
            @@ 7 :> brappend(Zero, v[7], Percent)
        Saves(i, d, v) == SaveAll(<<Increase(d.nr_ios, c[i].nr_ios, x.itv)>> \o v)
        d(i) == check_disk_reg(p, c, i)
    IN  Svg(Titles(<<"tps", "rkB", "wkB", "dkB", "areq_sz", "aqu_sz", "await", "pct_util">>, 0), << >>,
            DevicePlots(c, x, I, 9, disk_act.xnr,
                        [i \in I |-> Points(i, d(i), Values(i, d(i)))],
                        [i \in I |-> Saves(i, d(i), Values(i, d(i)))]))

svg_print_net_dev_stats(p, c, x) ==
    LET I == Listed(c, x.sel)
        d(i) == check_net_dev_reg(p, c, i)
        rxkb(i) == S_VALUE(d(i).rx_bytes, c[i].rx_bytes, x.itv)
        txkb(i) == S_VALUE(d(i).tx_bytes, c[i].tx_bytes, x.itv)
        ifutil(i) == compute_ifutil(c[i], rxkb(i), txkb(i))
        Points(i) ==
            Lines(Rates(d(i), c[i], x.itv, <<"rx_packets", "tx_packets">>)
                      \o <<Scaled(rxkb(i), 1024), Scaled(txkb(i), 1024)>>
                      \o Rates(d(i), c[i], x.itv, <<"rx_compressed", "tx_compressed", "multicast">>),
                  0, Broken(x, c[i].name, ~NetDevRegistered(p, c, i)))
            @@ 7 :> brappend(Zero, ifutil(i), Fraction)
        Saves(i) == SaveExtrema(stats_net_dev, <<0, 1, 2, 3, 4, 5, 6>>, d(i), c[i], x.itv) @@ 7 :> ifutil(i)
    IN  Svg(Titles(<<"rxpck", "txpck", "rxkB", "txkB", "rxcmp", "txcmp", "rxmcst", "pct_ifutil">>, 0),
            Per(1024, {2, 3}),
            DevicePlots(c, x, I, 9, net_dev_act.xnr, [i \in I |-> Points(i)], [i \in I |-> Saves(i)]))

svg_print_net_edev_stats(p, c, x) ==
    LET I == Listed(c, x.sel)
        d(i) == check_net_edev_reg(p, c, i)
        Points(i) ==
            Lines(Rates(d(i), c[i], x.itv,
                      <<"rx_errors", "tx_errors", "rx_dropped", "tx_dropped", "rx_fifo_errors",
                        "tx_fifo_errors", "collisions", "tx_carrier_errors", "rx_frame_errors">>),
                  0, Broken(x, c[i].name, ~NetEdevRegistered(p, c, i)))
        Saves(i) == SaveExtrema(stats_net_edev, <<6, 0, 1, 2, 3, 4, 5, 8, 7>>, d(i), c[i], x.itv)
    IN  Svg(Titles(<<"rxerr", "txerr", "rxdrop", "txdrop", "rxfifo", "txfifo", "coll", "txcarr",
                     "rxfram">>, 0), << >>,
            DevicePlots(c, x, I, 10, net_edev_act.xnr, [i \in I |-> Points(i)], [i \in I |-> Saves(i)]))

svg_print_fchost_stats(p, c, x) ==
    LET d(i) == PrevOrZero(p, c, i)
        Points(i) ==
            Lines(Rates(d(i), c[i], x.itv, <<"f_rxframes", "f_txframes", "f_rxwords", "f_txwords">>),
                  0, Broken(x, c[i].name, SameItem(p, c, i) = {}))
        Saves(i) == SaveExtrema(stats_fchost, <<0, 1, 2, 3>>, d(i), c[i], x.itv)
    IN  Svg(Titles(<<"fch_rxf", "fch_txf", "fch_rxw", "fch_txw">>, 0), << >>,
            DevicePlots(c, x, DOMAIN c, 5, fchost_act.xnr,
                        [i \in DOMAIN c |-> Points(i)], [i \in DOMAIN c |-> Saves(i)]))

\* Filesystems are not marked: their lines are broken when they were not in
\* the previous sample.
svg_print_filesystem_stats(p, c, x) ==
    LET I == Listed(c, x.sel)
        pct(f, total) == Guarded(total, SP_VALUE(f, total, total))
        \* free, used, %ufsused, %fsused, Ifree, Iused, %Iused
        Values(s) == <<Gauge(s.f_bfree), Gauge(s.f_blocks - s.f_bfree), pct(s.f_bavail, s.f_blocks),
                       pct(s.f_bfree, s.f_blocks), Gauge(s.f_ffree), Gauge(s.f_files - s.f_ffree),
                       pct(s.f_ffree, s.f_files)>>
        Points(v, restart) ==
            Lines(<<Scaled(v[1], 1024 * 1024), Scaled(v[2], 1024 * 1024)>>, 0, restart)
            @@ [k \in {2, 3, 6} |-> brappend(Zero, v[k + 1], Fraction)]
            @@ Lines(<<Scaled(v[5], 1000), Scaled(v[6], 1000)>>, 4, restart)
    IN  Svg(Titles(<<"MBfsfree", "MBfsused", "pct_ufsused", "pct_fsused", "Ifree_1000", "Iused_1000",
                     "pct_Iused">>, 0), Per(1024 * 1024, {0, 1}) @@ Per(1000, {4, 5}),
            DevicePlots(c, x, I, 8, filesystem_act.xnr,
                [i \in I |-> Points(Values(c[i]), SameItem(p, c, i) = {} \/ x.restart)],
                [i \in I |-> SaveAll(Values(c[i]))]))
=============================================================================
