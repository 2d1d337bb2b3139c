----------------------------- MODULE RenderLines ----------------------------
(***************************************************************************)
(* What sadf -d and sadf -p write for each activity (rndr_stats.c): from   *)
(* the previous sample p and the current one c, a function from the items  *)
(* written to the sequence of their values, in the order of the calls of   *)
(* render().  That order is also that of the columns of sadf -d, and each  *)
(* value has the label that sadf -p writes before it.                      *)
(***************************************************************************)
EXTENDS StatValues

\* The calls of render() for the values of a line: labels l, values v.
Rendered(l, v) == [k \in DOMAIN l |-> <<l[k], v[k]>>]
RatesOf(p, c, itv, prs) ==
    [k \in DOMAIN prs |-> <<prs[k][1], S_VALUE(p[prs[k][2]], c[prs[k][2]], itv)>>]
GaugesOf(c, prs) == [k \in DOMAIN prs |-> <<prs[k][1], Gauge(c[prs[k][2]])>>]

\* The values of a tickless processor are all zeros but the last one.
render_cpu(p, c, g, x) ==
    LET Line(i, d, s, t) ==
            LET tickless == i # 1 /\ t = 0
                Pct(f) == IF tickless THEN Zero ELSE CpuPct(d, s, f, t)
                NoGuest(f, h) == IF tickless THEN Zero ELSE CpuPctNoGuest(d, s, f, h, t)
                idle == <<"pct_idle", IF tickless THEN Gauge(1) ELSE Pct("cpu_idle")>>
            IN  IF x.full
                THEN <<<<"pct_usr", NoGuest("cpu_user", "cpu_guest")>>,
                       <<"pct_nice", NoGuest("cpu_nice", "cpu_guest_nice")>>,
                       <<"pct_sys", Pct("cpu_sys")>>, <<"pct_iowait", Pct("cpu_iowait")>>,
                       <<"pct_steal", Pct("cpu_steal")>>, <<"pct_irq", Pct("cpu_hardirq")>>,
                       <<"pct_soft", Pct("cpu_softirq")>>, <<"pct_guest", Pct("cpu_guest")>>,
                       <<"pct_gnice", Pct("cpu_guest_nice")>>, idle>>
                ELSE <<<<"pct_user", Pct("cpu_user")>>, <<"pct_nice", Pct("cpu_nice")>>,
                       <<"pct_system",
                         IF tickless THEN Zero ELSE CpuPctOf(d, s, AllSystem, t)>>,
                       <<"pct_iowait", Pct("cpu_iowait")>>, <<"pct_steal", Pct("cpu_steal")>>, idle>>
    IN  ByName(c, [i \in g.shown |-> Line(i, g.p[i], g.c[i], g.itv[i])])
render_cpu_stats(p, c, x) == render_cpu(p, c, CpuSamples(p, c, x.sel), x)

render_pcsw_stats(p, c, x) ==
    Alone(RatesOf(p[1], c[1], x.itv, <<<<"proc", "processes">>, <<"cswch", "context_switch">>>>))
\* A line for each interrupt, a value for each processor.
render_irq_stats(p, c, x) ==
    LET g == get_global_int_statistics(p, c, x.sel)
        cpus == SelectSeq([k \in DOMAIN c |-> k], LAMBDA k : k \notin g.masked)
        Value(k, n) ==
            IF k = 1 /\ g.c[k].irq_nr[n] < p[k].irq_nr[n] THEN Zero
            ELSE S_VALUE(p[k].irq_nr[n], g.c[k].irq_nr[n], x.itv)
        Line(n) == [j \in DOMAIN cpus |-> <<c[cpus[j]].name, Value(cpus[j], n)>>]
        lines == {n \in DOMAIN c[1].irq_name : x.items = {} \/ c[1].irq_name[n] \in x.items}
    IN  IF cpus = <<>> THEN Nothing
        ELSE [m \in {c[1].irq_name[n] : n \in lines} |->
                Line(CHOOSE n \in lines : c[1].irq_name[n] = m)]

render_swap_stats(p, c, x) ==
    Alone(RatesOf(p[1], c[1], x.itv, <<<<"pswpin", "pswpin">>, <<"pswpout", "pswpout">>>>))
render_paging_stats(p, c, x) ==
    Alone(RatesOf(p[1], c[1], x.itv, <<<<"pgpgin", "pgpgin">>, <<"pgpgout", "pgpgout">>,
         <<"fault", "pgfault">>, <<"majflt", "pgmajfault">>, <<"pgfree", "pgfree">>,
         <<"pgscank", "pgscan_kswapd">>, <<"pgscand", "pgscan_direct">>, <<"pgsteal", "pgsteal">>,
         <<"pgprom", "pgpromote">>, <<"pgdem", "pgdemote">>>>))
render_io_stats(p, c, x) ==
    Alone(Rendered(<<"tps", "rtps", "wtps", "dtps", "bread", "bwrtn", "bdscd">>,
                   Increases(p[1], c[1], x.itv,
                             <<"dk_drive", "dk_drive_rio", "dk_drive_wio", "dk_drive_dio",
                               "dk_drive_rblk", "dk_drive_wblk", "dk_drive_dblk">>)))

render_ram_memory_stats(m, full) ==
    <<<<"kbmemfree", Gauge(m.frmkb)>>, <<"kbavail", Gauge(m.availablekb)>>,
      <<"kbmemused", Gauge(m.tlmkb - m.availablekb)>>,
      <<"pct_memused", Guarded(m.tlmkb, SP_VALUE(m.availablekb, m.tlmkb, m.tlmkb))>>,
      <<"kbbuffers", Gauge(m.bufkb)>>, <<"kbcached", Gauge(m.camkb)>>,
      <<"kbcommit", Gauge(m.comkb)>>,
      <<"pct_commit", Guarded(m.tlmkb + m.tlskb, SP_VALUE(0, m.comkb, m.tlmkb + m.tlskb))>>>>
    \o GaugesOf(m, <<<<"kbactive", "activekb">>, <<"kbinact", "inactkb">>,
                     <<"kbdirty", "dirtykb">>, <<"kbshared", "shmemkb">>>>)
    \o (IF full
        THEN GaugesOf(m, <<<<"kbanonpg", "anonpgkb">>, <<"kbslab", "slabkb">>,
                           <<"kbkstack", "kstackkb">>, <<"kbpgtbl", "pgtblkb">>,
                           <<"kbvmused", "vmusedkb">>>>)
        ELSE <<>>)
render_swap_memory_stats(m) ==
    LET used == m.tlskb - m.frskb
    IN  <<<<"kbswpfree", Gauge(m.frskb)>>, <<"kbswpused", Gauge(used)>>,
          <<"pct_swpused", Guarded(m.tlskb, SP_VALUE(m.frskb, m.tlskb, m.tlskb))>>,
          <<"kbswpcad", Gauge(m.caskb)>>,
          <<"pct_swpcad", Guarded(used, SP_VALUE(0, m.caskb, used))>>>>
render_memory_stats(c, x) ==
    Alone((IF "ram" \in x.mem THEN render_ram_memory_stats(c[1], x.full) ELSE <<>>)
          \o (IF "swap" \in x.mem THEN render_swap_memory_stats(c[1]) ELSE <<>>))

render_ktables_stats(c) ==
    Alone(GaugesOf(c[1], <<<<"dentunusd", "dentry_stat">>, <<"file_nr", "file_used">>,
                           <<"inode_nr", "inode_used">>, <<"pty_nr", "pty_nr">>>>))
render_queue_stats(c) ==
    LET q == c[1]
    IN  Alone(<<<<"runq_sz", Gauge(q.nr_running)>>, <<"plist_sz", Gauge(q.nr_threads)>>,
                <<"ldavg_1", <<q.load_avg_1, 100>>>>, <<"ldavg_5", <<q.load_avg_5, 100>>>>,
                <<"ldavg_15", <<q.load_avg_15, 100>>>>, <<"blocked", Gauge(q.procs_blocked)>>>>)

render_serial_stats(p, c, x) ==
    ByName(c, [i \in {k \in DOMAIN c : SameItem(p, c, k) # {}} |->
        RatesOf(PrevOrZero(p, c, i), c[i], x.itv,
                <<<<"rcvin", "rx">>, <<"xmtin", "tx">>, <<"framerr", "frame">>,
                  <<"prtyerr", "parity">>, <<"brk", "brk">>, <<"ovrun", "overrun">>>>)])

render_disk_stats(p, c, x) ==
    LET Line(i) ==
            LET d == check_disk_reg(p, c, i)
                s == c[i]
                xds == compute_ext_disk_stats(s, d, x.itv)
                Rate(f) == S_VALUE(d[f], s[f], x.itv)
            IN  <<<<"tps", Rate("nr_ios")>>, <<"rkB", Scaled(Rate("rd_sect"), 2)>>,
                  <<"wkB", Scaled(Rate("wr_sect"), 2)>>, <<"dkB", Scaled(Rate("dc_sect"), 2)>>,
                  <<"areq_sz", Scaled(xds.arqsz, 2)>>,
                  <<"aqu_sz", Scaled(Rate("rq_ticks"), 1000)>>, <<"await", xds.await>>,
                  <<"pct_util", Scaled(xds.util, 10)>>>>
    IN  ByName(c, [i \in Listed(c, x.sel) |-> Line(i)])

render_net_dev_stats(p, c, x) ==
    LET Line(i) ==
            LET d == check_net_dev_reg(p, c, i)
                rxkb == S_VALUE(d.rx_bytes, c[i].rx_bytes, x.itv)
                txkb == S_VALUE(d.tx_bytes, c[i].tx_bytes, x.itv)
            IN  RatesOf(d, c[i], x.itv, <<<<"rxpck", "rx_packets">>, <<"txpck", "tx_packets">>>>)
                \o <<<<"rxkB", Scaled(rxkb, 1024)>>, <<"txkB", Scaled(txkb, 1024)>>>>
                \o RatesOf(d, c[i], x.itv, <<<<"rxcmp", "rx_compressed">>,
                                             <<"txcmp", "tx_compressed">>,
                                             <<"rxmcst", "multicast">>>>)
                \o <<<<"pct_ifutil", compute_ifutil(c[i], rxkb, txkb)>>>>
    IN  ByName(c, [i \in Listed(c, x.sel) |-> Line(i)])
render_net_edev_stats(p, c, x) ==
    ByName(c, [i \in Listed(c, x.sel) |->
        RatesOf(check_net_edev_reg(p, c, i), c[i], x.itv,
                <<<<"rxerr", "rx_errors">>, <<"txerr", "tx_errors">>, <<"coll", "collisions">>,
                  <<"rxdrop", "rx_dropped">>, <<"txdrop", "tx_dropped">>,
                  <<"txcarr", "tx_carrier_errors">>, <<"rxfram", "rx_frame_errors">>,
                  <<"rxfifo", "rx_fifo_errors">>, <<"txfifo", "tx_fifo_errors">>>>)])
render_net_nfs_stats(p, c, x) ==
    Alone(RatesOf(p[1], c[1], x.itv, <<<<"call", "nfs_rpccnt">>, <<"retrans", "nfs_rpcretrans">>,
         <<"read", "nfs_readcnt">>, <<"write", "nfs_writecnt">>, <<"access", "nfs_accesscnt">>,
         <<"getatt", "nfs_getattcnt">>>>))
render_net_nfsd_stats(p, c, x) ==
    Alone(RatesOf(p[1], c[1], x.itv, <<<<"scall", "nfsd_rpccnt">>, <<"badcall", "nfsd_rpcbad">>,
         <<"packet", "nfsd_netcnt">>, <<"udp", "nfsd_netudpcnt">>, <<"tcp", "nfsd_nettcpcnt">>,
         <<"hit", "nfsd_rchits">>, <<"miss", "nfsd_rcmisses">>, <<"sread", "nfsd_readcnt">>,
         <<"swrite", "nfsd_writecnt">>, <<"saccess", "nfsd_accesscnt">>,
         <<"sgetatt", "nfsd_getattcnt">>>>))
render_net_sock_stats(c) ==
    Alone(GaugesOf(c[1], <<<<"totsck", "sock_inuse">>, <<"tcpsck", "tcp_inuse">>,
                           <<"udpsck", "udp_inuse">>, <<"rawsck", "raw_inuse">>,
                           <<"ip_frag", "frag_inuse">>, <<"tcp_tw", "tcp_tw">>>>))
render_net_ip_stats(p, c, x) ==
    Alone(RatesOf(p[1], c[1], x.itv, <<<<"irec", "InReceives">>, <<"fwddgm", "ForwDatagrams">>,
         <<"idel", "InDelivers">>, <<"orq", "OutRequests">>, <<"asmrq", "ReasmReqds">>,
         <<"asmok", "ReasmOKs">>, <<"fragok", "FragOKs">>, <<"fragcrt", "FragCreates">>>>))
render_net_eip_stats(p, c, x) ==
    Alone(RatesOf(p[1], c[1], x.itv, <<<<"ihdrerr", "InHdrErrors">>, <<"iadrerr", "InAddrErrors">>,
         <<"iukwnpr", "InUnknownProtos">>, <<"idisc", "InDiscards">>, <<"odisc", "OutDiscards">>,
         <<"onort", "OutNoRoutes">>, <<"asmf", "ReasmFails">>, <<"fragf", "FragFails">>>>))
render_net_icmp_stats(p, c, x) ==
    Alone(RatesOf(p[1], c[1], x.itv, <<<<"imsg", "InMsgs">>, <<"omsg", "OutMsgs">>,
         <<"iech", "InEchos">>, <<"iechr", "InEchoReps">>, <<"oech", "OutEchos">>,
         <<"oechr", "OutEchoReps">>, <<"itm", "InTimestamps">>, <<"itmr", "InTimestampReps">>,
         <<"otm", "OutTimestamps">>, <<"otmr", "OutTimestampReps">>, <<"iadrmk", "InAddrMasks">>,
         <<"iadrmkr", "InAddrMaskReps">>, <<"oadrmk", "OutAddrMasks">>,
         <<"oadrmkr", "OutAddrMaskReps">>>>))
render_net_eicmp_stats(p, c, x) ==
    Alone(RatesOf(p[1], c[1], x.itv, <<<<"ierr", "InErrors">>, <<"oerr", "OutErrors">>,
         <<"idstunr", "InDestUnreachs">>, <<"odstunr", "OutDestUnreachs">>, <<"itmex", "InTimeExcds">>,
         <<"otmex", "OutTimeExcds">>, <<"iparmpb", "InParmProbs">>, <<"oparmpb", "OutParmProbs">>,
         <<"isrcq", "InSrcQuenchs">>, <<"osrcq", "OutSrcQuenchs">>, <<"iredir", "InRedirects">>,
         <<"oredir", "OutRedirects">>>>))
render_net_tcp_stats(p, c, x) ==
    Alone(RatesOf(p[1], c[1], x.itv, <<<<"active", "ActiveOpens">>, <<"passive", "PassiveOpens">>,
         <<"iseg", "InSegs">>, <<"oseg", "OutSegs">>>>))
render_net_etcp_stats(p, c, x) ==
    Alone(RatesOf(p[1], c[1], x.itv, <<<<"atmptf", "AttemptFails">>, <<"estres", "EstabResets">>,
         <<"retrseg", "RetransSegs">>, <<"isegerr", "InErrs">>, <<"orsts", "OutRsts">>>>))
render_net_udp_stats(p, c, x) ==
    Alone(RatesOf(p[1], c[1], x.itv, <<<<"idgm", "InDatagrams">>, <<"odgm", "OutDatagrams">>,
         <<"noport", "NoPorts">>, <<"idgmerr", "InErrors">>>>))
render_net_sock6_stats(c) ==
    Alone(GaugesOf(c[1], <<<<"tcp6sck", "tcp6_inuse">>, <<"udp6sck", "udp6_inuse">>,
                           <<"raw6sck", "raw6_inuse">>, <<"ip6_frag", "frag6_inuse">>>>))
render_net_ip6_stats(p, c, x) ==
    Alone(RatesOf(p[1], c[1], x.itv, <<<<"irec6", "InReceives6">>, <<"fwddgm6", "OutForwDatagrams6">>,
         <<"idel6", "InDelivers6">>, <<"orq6", "OutRequests6">>, <<"asmrq6", "ReasmReqds6">>,
         <<"asmok6", "ReasmOKs6">>, <<"imcpck6", "InMcastPkts6">>, <<"omcpck6", "OutMcastPkts6">>,
         <<"fragok6", "FragOKs6">>, <<"fragcr6", "FragCreates6">>>>))
render_net_eip6_stats(p, c, x) ==
    Alone(RatesOf(p[1], c[1], x.itv, <<<<"ihdrer6", "InHdrErrors6">>, <<"iadrer6", "InAddrErrors6">>,
         <<"iukwnp6", "InUnknownProtos6">>, <<"i2big6", "InTooBigErrors6">>, <<"idisc6", "InDiscards6">>,
         <<"odisc6", "OutDiscards6">>, <<"inort6", "InNoRoutes6">>, <<"onort6", "OutNoRoutes6">>,
         <<"asmf6", "ReasmFails6">>, <<"fragf6", "FragFails6">>, <<"itrpck6", "InTruncatedPkts6">>>>))
render_net_icmp6_stats(p, c, x) ==
    Alone(RatesOf(p[1], c[1], x.itv, <<<<"imsg6", "InMsgs6">>, <<"omsg6", "OutMsgs6">>,
         <<"iech6", "InEchos6">>, <<"iechr6", "InEchoReplies6">>, <<"oechr6", "OutEchoReplies6">>,
         <<"igmbq6", "InGroupMembQueries6">>, <<"igmbr6", "InGroupMembResponses6">>,
         <<"ogmbr6", "OutGroupMembResponses6">>, <<"igmbrd6", "InGroupMembReductions6">>,
         <<"ogmbrd6", "OutGroupMembReductions6">>, <<"irtsol6", "InRouterSolicits6">>,
         <<"ortsol6", "OutRouterSolicits6">>, <<"irtad6", "InRouterAdvertisements6">>,
         <<"inbsol6", "InNeighborSolicits6">>, <<"onbsol6", "OutNeighborSolicits6">>,
         <<"inbad6", "InNeighborAdvertisements6">>, <<"onbad6", "OutNeighborAdvertisements6">>>>))
render_net_eicmp6_stats(p, c, x) ==
    Alone(RatesOf(p[1], c[1], x.itv, <<<<"ierr6", "InErrors6">>, <<"idtunr6", "InDestUnreachs6">>,
         <<"odtunr6", "OutDestUnreachs6">>, <<"itmex6", "InTimeExcds6">>, <<"otmex6", "OutTimeExcds6">>,
         <<"iprmpb6", "InParmProblems6">>, <<"oprmpb6", "OutParmProblems6">>,
         <<"iredir6", "InRedirects6">>, <<"oredir6", "OutRedirects6">>, <<"ipck2b6", "InPktTooBigs6">>,
         <<"opck2b6", "OutPktTooBigs6">>>>))
render_net_udp6_stats(p, c, x) ==
    Alone(RatesOf(p[1], c[1], x.itv, <<<<"idgm6", "InDatagrams6">>, <<"odgm6", "OutDatagrams6">>,
         <<"noport6", "NoPorts6">>, <<"idgmer6", "InErrors6">>>>))

\* A processor whose frequency is not known is left out.
render_pwr_cpufreq_stats(c, x) ==
    ByName(c, [i \in {k \in Listed(c, x.sel) : c[k].cpufreq # 0} |->
        <<<<"MHz", <<c[i].cpufreq, 100>>>>>>])
render_pwr_fan_stats(c) ==
    ByName(c, [i \in DOMAIN c |->
        <<<<"rpm", Gauge(c[i].rpm)>>, <<"drpm", Gauge(c[i].rpm - c[i].rpm_min)>>>>])
render_pwr_temp_stats(c) ==
    ByName(c, [i \in DOMAIN c |->
        <<<<"degC", Gauge(c[i].temp)>>,
          <<"pct_temp", Guarded(c[i].temp_max - c[i].temp_min,
                                <<c[i].temp - c[i].temp_min, c[i].temp_max - c[i].temp_min>>)>>>>])
render_pwr_in_stats(c) ==
    ByName(c, [i \in DOMAIN c |->
        <<<<"inV", Gauge(c[i].in)>>,
          <<"pct_in", Guarded(c[i].in_max - c[i].in_min,
                              <<c[i].in - c[i].in_min, c[i].in_max - c[i].in_min>>)>>>>])
render_huge_stats(c) ==
    LET m == c[1]
    IN  Alone(<<<<"kbhugfree", Gauge(m.frhkb)>>, <<"kbhugused", Gauge(m.tlhkb - m.frhkb)>>,
                <<"pct_hugused", Guarded(m.tlhkb, SP_VALUE(m.frhkb, m.tlhkb, m.tlhkb))>>,
                <<"kbhugrsvd", Gauge(m.rsvdhkb)>>, <<"kbhugsurp", Gauge(m.surphkb)>>>>)
render_pwr_wghfreq_stats(p, c, x) ==
    LET Used(i) == {k \in DOMAIN c[i].freq : \A j \in 1..k : c[i].freq[j] # 0}
        Tis(i, k) == c[i].time_in_state[k] - p[i].time_in_state[k]
        tis(i) == MapThenSumSet(LAMBDA k : Tis(i, k), Used(i))
        tisfreq(i) == MapThenSumSet(LAMBDA k : (c[i].freq[k] \div 1000) * Tis(i, k), Used(i))
    IN  ByName(c, [i \in Listed(c, x.sel) |->
            <<<<"wghMHz", Guarded(tis(i), <<tisfreq(i), tis(i)>>)>>>>])
render_pwr_usb_stats(c) ==
    ByName(c, [i \in DOMAIN c |->
        <<<<"idvendor", Gauge(c[i].vendor_id)>>, <<"idprod", Gauge(c[i].product_id)>>,
          <<"maxpower", Gauge(2 * c[i].bmaxpower)>>>>])
render_filesystem_stats(c, x) ==
    LET Line(f) ==
            <<<<"MBfsfree", <<f.f_bfree, 1024 * 1024>>>>,
              <<"MBfsused", <<f.f_blocks - f.f_bfree, 1024 * 1024>>>>,
              <<"pct_fsused", Guarded(f.f_blocks, SP_VALUE(f.f_bfree, f.f_blocks, f.f_blocks))>>,
              <<"pct_ufsused", Guarded(f.f_blocks, SP_VALUE(f.f_bavail, f.f_blocks, f.f_blocks))>>,
              <<"Ifree", Gauge(f.f_ffree)>>, <<"Iused", Gauge(f.f_files - f.f_ffree)>>,
              <<"pct_Iused", Guarded(f.f_files, SP_VALUE(f.f_ffree, f.f_files, f.f_files))>>>>
    IN  ByName(c, [i \in Listed(c, x.sel) |-> Line(c[i])])
render_fchost_stats(p, c, x) ==
    ByName(c, [i \in DOMAIN c |->
        RatesOf(PrevOrZero(p, c, i), c[i], x.itv,
                <<<<"fch_rxf", "f_rxframes">>, <<"fch_txf", "f_txframes">>,
                  <<"fch_rxw", "f_rxwords">>, <<"fch_txw", "f_txwords">>>>)])
render_softnet_stats(p, c, x) ==
    LET g == get_global_soft_statistics(p, c)
    IN  ByName(c, [i \in Listed(c, x.sel) \ g.off |->
            RatesOf(g.p[i], g.c[i], x.itv,
                    <<<<"total", "processed">>, <<"dropd", "dropped">>, <<"squeezd", "time_squeeze">>,
                      <<"rx_rps", "received_rps">>, <<"flw_lim", "flow_limit">>>>)
            \o <<<<"blg_len", Gauge(g.c[i].backlog_len)>>>>])

\* Pressure: averages that the kernel computes, and the time spent waiting.
RenderPsi(p, c, x, labels, aver, total) ==
    Rendered(labels, [k \in 1..3 |-> <<c[1][aver[k]], 100>>]
                     \o <<<<c[1][total] - p[1][total], 10000 * x.itv>>>>)
render_psicpu_stats(p, c, x) ==
    Alone(RenderPsi(p, c, x, <<"pct_scpu_10", "pct_scpu_60", "pct_scpu_300", "pct_scpu">>,
                    <<"some_acpu_10", "some_acpu_60", "some_acpu_300">>, "some_cpu_total"))
render_psiio_stats(p, c, x) ==
    Alone(RenderPsi(p, c, x, <<"pct_sio_10", "pct_sio_60", "pct_sio_300", "pct_sio">>,
                    <<"some_aio_10", "some_aio_60", "some_aio_300">>, "some_io_total")
          \o RenderPsi(p, c, x, <<"pct_fio_10", "pct_fio_60", "pct_fio_300", "pct_fio">>,
                       <<"full_aio_10", "full_aio_60", "full_aio_300">>, "full_io_total"))
render_psimem_stats(p, c, x) ==
    Alone(RenderPsi(p, c, x, <<"pct_smem_10", "pct_smem_60", "pct_smem_300", "pct_smem">>,
                    <<"some_amem_10", "some_amem_60", "some_amem_300">>, "some_mem_total")
          \o RenderPsi(p, c, x, <<"pct_fmem_10", "pct_fmem_60", "pct_fmem_300", "pct_fmem">>,
                       <<"full_amem_10", "full_amem_60", "full_amem_300">>, "full_mem_total"))

render_pwr_bat_stats(p, c, x) ==
    ByName(c, [i \in DOMAIN c |->
        <<<<"pct_cap", Gauge(c[i].capacity)>>,
          <<"cap_min", <<(c[i].capacity - p[i].capacity) * 60, x.itv>>>>,
          <<"status", Gauge(IF c[i].status >= BAT_STS_NR THEN 0 ELSE c[i].status)>>>>])
=============================================================================
