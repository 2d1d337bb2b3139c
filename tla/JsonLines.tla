----------------------------- MODULE JsonLines -----------------------------
(***************************************************************************)
(* What sadf -j writes for each activity (json_stats.c): from the previous *)
(* sample p and the current one c, a function from the items written to    *)
(* the record of their members.  Members have the names of sar's columns   *)
(* (kbmemfree for memfree, pct_util for util-percent).                     *)
(***************************************************************************)
EXTENDS StatValues, Activities

json_cpu(p, c, g, x) ==
    LET Member(i, d, s, t) ==
            LET Pct(f) == CpuPct(d, s, f, t)
            IN  IF i # 1 /\ t = 0
                THEN IF ~x.full
                     THEN [pct_user |-> Zero, pct_nice |-> Zero, pct_system |-> Zero,
                           pct_iowait |-> Zero, pct_steal |-> Zero, pct_idle |-> Gauge(1)]
                     ELSE [pct_usr |-> Zero, pct_nice |-> Zero, pct_sys |-> Zero,
                           pct_iowait |-> Zero, pct_steal |-> Zero, pct_irq |-> Zero,
                           pct_soft |-> Zero, pct_guest |-> Zero, pct_gnice |-> Zero,
                           pct_idle |-> Gauge(1)]
                ELSE IF ~x.full
                THEN [pct_user |-> Pct("cpu_user"), pct_nice |-> Pct("cpu_nice"),
                      pct_system |-> CpuPctOf(d, s, AllSystem, t), pct_iowait |-> Pct("cpu_iowait"),
                      pct_steal |-> Pct("cpu_steal"), pct_idle |-> Pct("cpu_idle")]
                ELSE [pct_usr |-> CpuPctNoGuest(d, s, "cpu_user", "cpu_guest", t),
                      pct_nice |-> CpuPctNoGuest(d, s, "cpu_nice", "cpu_guest_nice", t),
                      pct_sys |-> Pct("cpu_sys"), pct_iowait |-> Pct("cpu_iowait"),
                      pct_steal |-> Pct("cpu_steal"), pct_irq |-> Pct("cpu_hardirq"),
                      pct_soft |-> Pct("cpu_softirq"), pct_guest |-> Pct("cpu_guest"),
                      pct_gnice |-> Pct("cpu_guest_nice"), pct_idle |-> Pct("cpu_idle")]
    IN  ByName(c, [i \in g.shown |-> Member(i, g.p[i], g.c[i], g.itv[i])])
json_print_cpu_stats(p, c, x) == json_cpu(p, c, CpuSamples(p, c, x.sel), x)

json_print_pcsw_stats(p, c, x) ==
    Alone(Rates(p[1], c[1], x.itv, [proc |-> "processes", cswch |-> "context_switch"]))
json_print_irq_stats(p, c, x) ==
    LET g == get_global_int_statistics(p, c, x.sel)
        cpus == DOMAIN c \ g.masked
        Value(k, n) == IF k = 1 THEN Increase(p[k].irq_nr[n], g.c[k].irq_nr[n], x.itv)
                       ELSE S_VALUE(p[k].irq_nr[n], g.c[k].irq_nr[n], x.itv)
    IN  IF cpus = {} THEN Nothing
        ELSE [m \in {c[1].irq_name[n] : n \in DOMAIN c[1].irq_name} \cap
                    (IF x.items = {} THEN Range(c[1].irq_name) ELSE x.items) |->
                [name \in {c[k].name : k \in cpus} |->
                    Value(CHOOSE k \in cpus : c[k].name = name,
                          CHOOSE n \in DOMAIN c[1].irq_name : c[1].irq_name[n] = m)]]

json_print_swap_stats(p, c, x) ==
    Alone(Rates(p[1], c[1], x.itv, [pswpin |-> "pswpin", pswpout |-> "pswpout"]))
json_print_paging_stats(p, c, x) ==
    Alone(Rates(p[1], c[1], x.itv, [pgpgin |-> "pgpgin", pgpgout |-> "pgpgout", fault |-> "pgfault",
         majflt |-> "pgmajfault", pgfree |-> "pgfree", pgscank |-> "pgscan_kswapd", pgscand |-> "pgscan_direct",
         pgsteal |-> "pgsteal", pgprom |-> "pgpromote", pgdem |-> "pgdemote"]))
json_print_io_stats(p, c, x) ==
    Alone(Increases(p[1], c[1], x.itv,
              [tps |-> "dk_drive", rtps |-> "dk_drive_rio", bread |-> "dk_drive_rblk",
               wtps |-> "dk_drive_wio", bwrtn |-> "dk_drive_wblk", dtps |-> "dk_drive_dio",
               bdscd |-> "dk_drive_dblk"]))

json_print_ram_memory_stats(m, full) ==
    [kbmemfree |-> Gauge(m.frmkb), kbavail |-> Gauge(m.availablekb),
     kbmemused |-> Gauge(m.tlmkb - m.availablekb),
     pct_memused |-> Guarded(m.tlmkb, SP_VALUE(m.availablekb, m.tlmkb, m.tlmkb)),
     kbbuffers |-> Gauge(m.bufkb), kbcached |-> Gauge(m.camkb), kbcommit |-> Gauge(m.comkb),
     pct_commit |-> Guarded(m.tlmkb + m.tlskb, SP_VALUE(0, m.comkb, m.tlmkb + m.tlskb)),
     kbactive |-> Gauge(m.activekb), kbinact |-> Gauge(m.inactkb), kbdirty |-> Gauge(m.dirtykb),
     kbshmem |-> Gauge(m.shmemkb)]
    @@ (IF full THEN [kbanonpg |-> Gauge(m.anonpgkb), kbslab |-> Gauge(m.slabkb),
                      kbkstack |-> Gauge(m.kstackkb), kbpgtbl |-> Gauge(m.pgtblkb),
                      kbvmused |-> Gauge(m.vmusedkb)]
        ELSE << >>)
json_print_swap_memory_stats(m) ==
    LET used == m.tlskb - m.frskb
    IN  [kbswpfree |-> Gauge(m.frskb), kbswpused |-> Gauge(used),
         pct_swpused |-> Guarded(m.tlskb, SP_VALUE(m.frskb, m.tlskb, m.tlskb)),
         kbswpcad |-> Gauge(m.caskb), pct_swpcad |-> Guarded(used, SP_VALUE(0, m.caskb, used))]
json_print_memory_stats(c, x) ==
    Alone((IF "ram" \in x.mem THEN json_print_ram_memory_stats(c[1], x.full) ELSE << >>)
          @@ (IF "swap" \in x.mem THEN json_print_swap_memory_stats(c[1]) ELSE << >>))

json_print_ktables_stats(c) ==
    Alone(Gauges(c[1], [dentunusd |-> "dentry_stat", file_nr |-> "file_used",
                        inode_nr |-> "inode_used", pty_nr |-> "pty_nr"]))
json_print_queue_stats(c) ==
    LET q == c[1]
    IN  Alone([runq_sz |-> Gauge(q.nr_running), plist_sz |-> Gauge(q.nr_threads),
               ldavg_1 |-> <<q.load_avg_1, 100>>, ldavg_5 |-> <<q.load_avg_5, 100>>,
               ldavg_15 |-> <<q.load_avg_15, 100>>, blocked |-> Gauge(q.procs_blocked)])

\* Mutant of json_print_serial_stats: new lines are displayed.
MutJsonSerial(p, c, x) ==
    ByName(c, [i \in DOMAIN c |->
        Rates(PrevOrZero(p, c, i), c[i], x.itv,
              [rcvin |-> "rx", xmtin |-> "tx", framerr |-> "frame", prtyerr |-> "parity",
               brk |-> "brk", ovrun |-> "overrun"])])
json_print_serial_stats(p, c, x) ==
    ByName(c, [i \in {k \in DOMAIN c : SameItem(p, c, k) # {}} |->
        Rates(PrevOrZero(p, c, i), c[i], x.itv,
              [rcvin |-> "rx", xmtin |-> "tx", framerr |-> "frame", prtyerr |-> "parity",
               brk |-> "brk", ovrun |-> "overrun"])])

\* The sizes of requests in sectors and the length of the queue have two
\* members each, an old one and a new one.
json_print_disk_stats(p, c, x) ==
    LET Member(i) ==
            LET d == check_disk_reg(p, c, i)
                s == c[i]
                xds == compute_ext_disk_stats(s, d, x.itv)
                Rate(f) == S_VALUE(d[f], s[f], x.itv)
            IN  [tps |-> Rate("nr_ios"), rd_sec |-> Rate("rd_sect"), wr_sec |-> Rate("wr_sect"),
                 dc_sec |-> Rate("dc_sect"), rkB |-> Scaled(Rate("rd_sect"), 2),
                 wkB |-> Scaled(Rate("wr_sect"), 2), dkB |-> Scaled(Rate("dc_sect"), 2),
                 avgrq_sz |-> xds.arqsz, areq_sz |-> Scaled(xds.arqsz, 2),
                 avgqu_sz |-> Scaled(Rate("rq_ticks"), 1000),
                 aqu_sz |-> Scaled(Rate("rq_ticks"), 1000), await |-> xds.await,
                 pct_util |-> Scaled(xds.util, 10)]
    IN  ByName(c, [i \in Listed(c, x.sel) |-> Member(i)])

json_print_net_dev_stats(p, c, x) ==
    LET Member(i) ==
            LET d == check_net_dev_reg(p, c, i)
                rxkb == S_VALUE(d.rx_bytes, c[i].rx_bytes, x.itv)
                txkb == S_VALUE(d.tx_bytes, c[i].tx_bytes, x.itv)
            IN  Rates(d, c[i], x.itv, [rxpck |-> "rx_packets", txpck |-> "tx_packets",
                                       rxcmp |-> "rx_compressed", txcmp |-> "tx_compressed",
                                       rxmcst |-> "multicast"])
                @@ [rxkB |-> Scaled(rxkb, 1024), txkB |-> Scaled(txkb, 1024),
                    pct_ifutil |-> compute_ifutil(c[i], rxkb, txkb)]
    IN  ByName(c, [i \in Listed(c, x.sel) |-> Member(i)])
json_print_net_edev_stats(p, c, x) ==
    ByName(c, [i \in Listed(c, x.sel) |->
        Rates(check_net_edev_reg(p, c, i), c[i], x.itv,
              [rxerr |-> "rx_errors", txerr |-> "tx_errors", coll |-> "collisions",
               rxdrop |-> "rx_dropped", txdrop |-> "tx_dropped", txcarr |-> "tx_carrier_errors",
               rxfram |-> "rx_frame_errors", rxfifo |-> "rx_fifo_errors",
               txfifo |-> "tx_fifo_errors"])])
json_print_net_nfs_stats(p, c, x) ==
    Alone(Rates(p[1], c[1], x.itv, [call |-> "nfs_rpccnt", retrans |-> "nfs_rpcretrans",
         read |-> "nfs_readcnt", write |-> "nfs_writecnt", access |-> "nfs_accesscnt",
         getatt |-> "nfs_getattcnt"]))
json_print_net_nfsd_stats(p, c, x) ==
    Alone(Rates(p[1], c[1], x.itv, [scall |-> "nfsd_rpccnt", badcall |-> "nfsd_rpcbad",
         packet |-> "nfsd_netcnt", udp |-> "nfsd_netudpcnt", tcp |-> "nfsd_nettcpcnt", hit |-> "nfsd_rchits",
         miss |-> "nfsd_rcmisses", sread |-> "nfsd_readcnt", swrite |-> "nfsd_writecnt",
         saccess |-> "nfsd_accesscnt", sgetatt |-> "nfsd_getattcnt"]))
json_print_net_sock_stats(c) ==
    Alone(Gauges(c[1], [totsck |-> "sock_inuse", tcpsck |-> "tcp_inuse", udpsck |-> "udp_inuse",
                        rawsck |-> "raw_inuse", ip_frag |-> "frag_inuse", tcp_tw |-> "tcp_tw"]))
json_print_net_ip_stats(p, c, x) ==
    Alone(Rates(p[1], c[1], x.itv, [irec |-> "InReceives", fwddgm |-> "ForwDatagrams",
         idel |-> "InDelivers", orq |-> "OutRequests", asmrq |-> "ReasmReqds", asmok |-> "ReasmOKs",
         fragok |-> "FragOKs", fragcrt |-> "FragCreates"]))
json_print_net_eip_stats(p, c, x) ==
    Alone(Rates(p[1], c[1], x.itv, [ihdrerr |-> "InHdrErrors", iadrerr |-> "InAddrErrors",
         iukwnpr |-> "InUnknownProtos", idisc |-> "InDiscards", odisc |-> "OutDiscards",
         onort |-> "OutNoRoutes", asmf |-> "ReasmFails", fragf |-> "FragFails"]))
json_print_net_icmp_stats(p, c, x) ==
    Alone(Rates(p[1], c[1], x.itv, [imsg |-> "InMsgs", omsg |-> "OutMsgs", iech |-> "InEchos",
         iechr |-> "InEchoReps", oech |-> "OutEchos", oechr |-> "OutEchoReps", itm |-> "InTimestamps",
         itmr |-> "InTimestampReps", otm |-> "OutTimestamps", otmr |-> "OutTimestampReps",
         iadrmk |-> "InAddrMasks", iadrmkr |-> "InAddrMaskReps", oadrmk |-> "OutAddrMasks",
         oadrmkr |-> "OutAddrMaskReps"]))
json_print_net_eicmp_stats(p, c, x) ==
    Alone(Rates(p[1], c[1], x.itv, [ierr |-> "InErrors", oerr |-> "OutErrors", idstunr |-> "InDestUnreachs",
         odstunr |-> "OutDestUnreachs", itmex |-> "InTimeExcds", otmex |-> "OutTimeExcds",
         iparmpb |-> "InParmProbs", oparmpb |-> "OutParmProbs", isrcq |-> "InSrcQuenchs",
         osrcq |-> "OutSrcQuenchs", iredir |-> "InRedirects", oredir |-> "OutRedirects"]))
json_print_net_tcp_stats(p, c, x) ==
    Alone(Rates(p[1], c[1], x.itv, [active |-> "ActiveOpens", passive |-> "PassiveOpens", iseg |-> "InSegs",
         oseg |-> "OutSegs"]))
json_print_net_etcp_stats(p, c, x) ==
    Alone(Rates(p[1], c[1], x.itv, [atmptf |-> "AttemptFails", estres |-> "EstabResets",
         retrseg |-> "RetransSegs", isegerr |-> "InErrs", orsts |-> "OutRsts"]))
json_print_net_udp_stats(p, c, x) ==
    Alone(Rates(p[1], c[1], x.itv, [idgm |-> "InDatagrams", odgm |-> "OutDatagrams", noport |-> "NoPorts",
         idgmerr |-> "InErrors"]))
json_print_net_sock6_stats(c) ==
    Alone(Gauges(c[1], [tcp6sck |-> "tcp6_inuse", udp6sck |-> "udp6_inuse",
                        raw6sck |-> "raw6_inuse", ip6_frag |-> "frag6_inuse"]))
json_print_net_ip6_stats(p, c, x) ==
    Alone(Rates(p[1], c[1], x.itv, [irec6 |-> "InReceives6", fwddgm6 |-> "OutForwDatagrams6",
         idel6 |-> "InDelivers6", orq6 |-> "OutRequests6", asmrq6 |-> "ReasmReqds6", asmok6 |-> "ReasmOKs6",
         imcpck6 |-> "InMcastPkts6", omcpck6 |-> "OutMcastPkts6", fragok6 |-> "FragOKs6",
         fragcr6 |-> "FragCreates6"]))
json_print_net_eip6_stats(p, c, x) ==
    Alone(Rates(p[1], c[1], x.itv, [ihdrer6 |-> "InHdrErrors6", iadrer6 |-> "InAddrErrors6",
         iukwnp6 |-> "InUnknownProtos6", i2big6 |-> "InTooBigErrors6", idisc6 |-> "InDiscards6",
         odisc6 |-> "OutDiscards6", inort6 |-> "InNoRoutes6", onort6 |-> "OutNoRoutes6",
         asmf6 |-> "ReasmFails6", fragf6 |-> "FragFails6", itrpck6 |-> "InTruncatedPkts6"]))
json_print_net_icmp6_stats(p, c, x) ==
    Alone(Rates(p[1], c[1], x.itv, [imsg6 |-> "InMsgs6", omsg6 |-> "OutMsgs6", iech6 |-> "InEchos6",
         iechr6 |-> "InEchoReplies6", oechr6 |-> "OutEchoReplies6", igmbq6 |-> "InGroupMembQueries6",
         igmbr6 |-> "InGroupMembResponses6", ogmbr6 |-> "OutGroupMembResponses6",
         igmbrd6 |-> "InGroupMembReductions6", ogmbrd6 |-> "OutGroupMembReductions6",
         irtsol6 |-> "InRouterSolicits6", ortsol6 |-> "OutRouterSolicits6",
         irtad6 |-> "InRouterAdvertisements6", inbsol6 |-> "InNeighborSolicits6",
         onbsol6 |-> "OutNeighborSolicits6", inbad6 |-> "InNeighborAdvertisements6",
         onbad6 |-> "OutNeighborAdvertisements6"]))
json_print_net_eicmp6_stats(p, c, x) ==
    Alone(Rates(p[1], c[1], x.itv, [ierr6 |-> "InErrors6", idtunr6 |-> "InDestUnreachs6",
         odtunr6 |-> "OutDestUnreachs6", itmex6 |-> "InTimeExcds6", otmex6 |-> "OutTimeExcds6",
         iprmpb6 |-> "InParmProblems6", oprmpb6 |-> "OutParmProblems6", iredir6 |-> "InRedirects6",
         oredir6 |-> "OutRedirects6", ipck2b6 |-> "InPktTooBigs6", opck2b6 |-> "OutPktTooBigs6"]))
json_print_net_udp6_stats(p, c, x) ==
    Alone(Rates(p[1], c[1], x.itv, [idgm6 |-> "InDatagrams6", odgm6 |-> "OutDatagrams6",
         noport6 |-> "NoPorts6", idgmer6 |-> "InErrors6"]))

\* Processors whose frequency is not known are written too.
json_print_pwr_cpufreq_stats(c, x) ==
    ByName(c, [i \in Listed(c, x.sel) |-> [MHz |-> <<c[i].cpufreq, 100>>]])
json_print_pwr_fan_stats(c) ==
    ByName(c, [i \in DOMAIN c |-> [rpm |-> Gauge(c[i].rpm), drpm |-> Gauge(c[i].rpm - c[i].rpm_min)]])
json_print_pwr_temp_stats(c) ==
    ByName(c, [i \in DOMAIN c |->
        [degC |-> Gauge(c[i].temp),
         pct_temp |-> Guarded(c[i].temp_max - c[i].temp_min,
                              <<c[i].temp - c[i].temp_min, c[i].temp_max - c[i].temp_min>>)]])
json_print_pwr_in_stats(c) ==
    ByName(c, [i \in DOMAIN c |->
        [inV |-> Gauge(c[i].in),
         pct_in |-> Guarded(c[i].in_max - c[i].in_min,
                            <<c[i].in - c[i].in_min, c[i].in_max - c[i].in_min>>)]])
json_print_huge_stats(c) ==
    LET m == c[1]
    IN  Alone([kbhugfree |-> Gauge(m.frhkb), kbhugused |-> Gauge(m.tlhkb - m.frhkb),
               pct_hugused |-> Guarded(m.tlhkb, SP_VALUE(m.frhkb, m.tlhkb, m.tlhkb)),
               kbhugrsvd |-> Gauge(m.rsvdhkb), kbhugsurp |-> Gauge(m.surphkb)])
json_print_pwr_wghfreq_stats(p, c, x) ==
    LET Used(i) == {k \in DOMAIN c[i].freq : \A j \in 1..k : c[i].freq[j] # 0}
        Tis(i, k) == c[i].time_in_state[k] - p[i].time_in_state[k]
        tis(i) == MapThenSumSet(LAMBDA k : Tis(i, k), Used(i))
        tisfreq(i) == MapThenSumSet(LAMBDA k : (c[i].freq[k] \div 1000) * Tis(i, k), Used(i))
    IN  ByName(c, [i \in Listed(c, x.sel) |-> [wghMHz |-> Guarded(tis(i), <<tisfreq(i), tis(i)>>)]])
json_print_pwr_usb_stats(c) ==
    ByName(c, [i \in DOMAIN c |->
        [idvendor |-> Gauge(c[i].vendor_id), idprod |-> Gauge(c[i].product_id),
         maxpower |-> Gauge(2 * c[i].bmaxpower)]])
json_print_filesystem_stats(c, x) ==
    LET Member(f) ==
            [MBfsfree |-> <<f.f_bfree, 1024 * 1024>>,
             MBfsused |-> <<f.f_blocks - f.f_bfree, 1024 * 1024>>,
             pct_fsused |-> Guarded(f.f_blocks, SP_VALUE(f.f_bfree, f.f_blocks, f.f_blocks)),
             pct_ufsused |-> Guarded(f.f_blocks, SP_VALUE(f.f_bavail, f.f_blocks, f.f_blocks)),
             Ifree |-> Gauge(f.f_ffree), Iused |-> Gauge(f.f_files - f.f_ffree),
             pct_Iused |-> Guarded(f.f_files, SP_VALUE(f.f_ffree, f.f_files, f.f_files))]
    IN  ByName(c, [i \in Listed(c, x.sel) |-> Member(c[i])])
json_print_fchost_stats(p, c, x) ==
    ByName(c, [i \in DOMAIN c |->
        Rates(PrevOrZero(p, c, i), c[i], x.itv,
              [fch_rxf |-> "f_rxframes", fch_txf |-> "f_txframes", fch_rxw |-> "f_rxwords",
               fch_txw |-> "f_txwords"])])
json_print_softnet_stats(p, c, x) ==
    LET g == get_global_soft_statistics(p, c)
    IN  ByName(c, [i \in Listed(c, x.sel) \ g.off |->
            Rates(g.p[i], g.c[i], x.itv,
                  [total |-> "processed", dropd |-> "dropped", squeezd |-> "time_squeeze",
                   rx_rps |-> "received_rps", flw_lim |-> "flow_limit"])
            @@ [blg_len |-> Gauge(g.c[i].backlog_len)]])

json_print_psicpu_stats(p, c, x) ==
    LET s == c[1]
    IN  Alone([pct_scpu_10 |-> <<s.some_acpu_10, 100>>, pct_scpu_60 |-> <<s.some_acpu_60, 100>>,
               pct_scpu_300 |-> <<s.some_acpu_300, 100>>,
               pct_scpu |-> <<s.some_cpu_total - p[1].some_cpu_total, 10000 * x.itv>>])
json_print_psiio_stats(p, c, x) ==
    LET s == c[1]
    IN  Alone([pct_sio_10 |-> <<s.some_aio_10, 100>>, pct_sio_60 |-> <<s.some_aio_60, 100>>,
               pct_sio_300 |-> <<s.some_aio_300, 100>>,
               pct_sio |-> <<s.some_io_total - p[1].some_io_total, 10000 * x.itv>>,
               pct_fio_10 |-> <<s.full_aio_10, 100>>, pct_fio_60 |-> <<s.full_aio_60, 100>>,
               pct_fio_300 |-> <<s.full_aio_300, 100>>,
               pct_fio |-> <<s.full_io_total - p[1].full_io_total, 10000 * x.itv>>])
json_print_psimem_stats(p, c, x) ==
    LET s == c[1]
    IN  Alone([pct_smem_10 |-> <<s.some_amem_10, 100>>, pct_smem_60 |-> <<s.some_amem_60, 100>>,
               pct_smem_300 |-> <<s.some_amem_300, 100>>,
               pct_smem |-> <<s.some_mem_total - p[1].some_mem_total, 10000 * x.itv>>,
               pct_fmem_10 |-> <<s.full_amem_10, 100>>, pct_fmem_60 |-> <<s.full_amem_60, 100>>,
               pct_fmem_300 |-> <<s.full_amem_300, 100>>,
               pct_fmem |-> <<s.full_mem_total - p[1].full_mem_total, 10000 * x.itv>>])

\* A status that is not one of the known ones is written as unknown.
json_print_pwr_bat_stats(p, c, x) ==
    ByName(c, [i \in DOMAIN c |->
        [pct_cap |-> Gauge(c[i].capacity),
         cap_min |-> <<(c[i].capacity - p[i].capacity) * 60, x.itv>>,
         status |-> Gauge(IF c[i].status >= BAT_STS_NR THEN 0 ELSE c[i].status)]])

(***************************************************************************)
(* The groups of activities (see Activities).                              *)
(***************************************************************************)
json_markup_network(o, action) == Markup(o, "network", action)
json_markup_power_management(o, action) == Markup(o, "power-management", action)
json_markup_psi(o, action) == Markup(o, "psi", action)
json_markup(o, a, action) ==
    IF a \in Network THEN json_markup_network(o, action)
    ELSE IF a \in PowerManagement THEN json_markup_power_management(o, action)
    ELSE IF a \in Psi THEN json_markup_psi(o, action) ELSE o

\* Activity a in a record o: a comma and its member in its group when it is
\* selected and has items; the last activity of a group closes it.
json_write(o, a, written) ==
    LET w == IF written THEN Write(json_markup(Write(o, <<"comma">>), a, "open"), <<"member", a>>) ELSE o
    IN  IF activity[a].closes THEN json_markup(w, a, "close") ELSE w
=============================================================================
