----------------------------- MODULE Activities -----------------------------
(***************************************************************************)
(* The activities that sadc collects and sar and sadf display: the fields  *)
(* of their structures, in the order of the declarations in rd_stats.h,    *)
(* and what activity.c says of each of them: the columns of sar's line     *)
(* (hdr_line, without "/s" and with "%" written pct_), the number of       *)
(* extreme values kept for an item, whether items are counted, and whether *)
(* the activity is the last one of a group of the XML and JSON outputs     *)
(* (AO_CLOSE_MARKUP).                                                      *)
(***************************************************************************)
EXTENDS Integers, Sequences, SequencesExt

stats_cpu ==
    <<"cpu_user", "cpu_nice", "cpu_sys", "cpu_idle", "cpu_iowait", "cpu_steal", "cpu_hardirq",
      "cpu_softirq", "cpu_guest", "cpu_guest_nice">>
stats_pcsw == <<"context_switch", "processes">>
stats_irq == <<"irq_nr">>
stats_swap == <<"pswpin", "pswpout">>
stats_paging ==
    <<"pgpgin", "pgpgout", "pgfault", "pgmajfault", "pgfree", "pgscan_kswapd", "pgscan_direct",
      "pgsteal", "pgpromote", "pgdemote">>
stats_io ==
    <<"dk_drive", "dk_drive_rio", "dk_drive_wio", "dk_drive_rblk", "dk_drive_wblk",
      "dk_drive_dio", "dk_drive_dblk">>
stats_memory ==
    <<"frmkb", "bufkb", "camkb", "tlmkb", "frskb", "tlskb", "caskb", "comkb", "activekb",
      "inactkb", "dirtykb", "anonpgkb", "slabkb", "kstackkb", "pgtblkb", "vmusedkb",
      "availablekb", "shmemkb">>
stats_ktables == <<"file_used", "inode_used", "dentry_stat", "pty_nr">>
stats_queue ==
    <<"nr_running", "procs_blocked", "nr_threads", "load_avg_1", "load_avg_5", "load_avg_15">>
stats_serial == <<"rx", "tx", "frame", "parity", "brk", "overrun", "line">>
stats_disk ==
    <<"nr_ios", "rd_sect", "wr_sect", "dc_sect", "rd_ticks", "wr_ticks", "tot_ticks",
      "rq_ticks", "major", "minor", "dc_ticks", "part_nr">>
stats_net_dev ==
    <<"rx_packets", "tx_packets", "rx_bytes", "tx_bytes", "rx_compressed", "tx_compressed",
      "multicast", "speed">>
stats_net_edev ==
    <<"collisions", "rx_errors", "tx_errors", "rx_dropped", "tx_dropped", "rx_fifo_errors",
      "tx_fifo_errors", "rx_frame_errors", "tx_carrier_errors">>
stats_net_nfs ==
    <<"nfs_rpccnt", "nfs_rpcretrans", "nfs_readcnt", "nfs_writecnt", "nfs_accesscnt",
      "nfs_getattcnt">>
stats_net_nfsd ==
    <<"nfsd_rpccnt", "nfsd_rpcbad", "nfsd_netcnt", "nfsd_netudpcnt", "nfsd_nettcpcnt",
      "nfsd_rchits", "nfsd_rcmisses", "nfsd_readcnt", "nfsd_writecnt", "nfsd_accesscnt",
      "nfsd_getattcnt">>
stats_net_sock ==
    <<"sock_inuse", "tcp_inuse", "tcp_tw", "udp_inuse", "raw_inuse", "frag_inuse">>
stats_net_ip ==
    <<"InReceives", "ForwDatagrams", "InDelivers", "OutRequests", "ReasmReqds", "ReasmOKs",
      "FragOKs", "FragCreates">>
stats_net_eip ==
    <<"InHdrErrors", "InAddrErrors", "InUnknownProtos", "InDiscards", "OutDiscards",
      "OutNoRoutes", "ReasmFails", "FragFails">>
stats_net_icmp ==
    <<"InMsgs", "OutMsgs", "InEchos", "InEchoReps", "OutEchos", "OutEchoReps", "InTimestamps",
      "InTimestampReps", "OutTimestamps", "OutTimestampReps", "InAddrMasks", "InAddrMaskReps",
      "OutAddrMasks", "OutAddrMaskReps">>
stats_net_eicmp ==
    <<"InErrors", "OutErrors", "InDestUnreachs", "OutDestUnreachs", "InTimeExcds",
      "OutTimeExcds", "InParmProbs", "OutParmProbs", "InSrcQuenchs", "OutSrcQuenchs",
      "InRedirects", "OutRedirects">>
stats_net_tcp == <<"ActiveOpens", "PassiveOpens", "InSegs", "OutSegs">>
stats_net_etcp == <<"AttemptFails", "EstabResets", "RetransSegs", "InErrs", "OutRsts">>
stats_net_udp == <<"InDatagrams", "OutDatagrams", "NoPorts", "InErrors">>
stats_net_sock6 == <<"tcp6_inuse", "udp6_inuse", "raw6_inuse", "frag6_inuse">>
stats_net_ip6 ==
    <<"InReceives6", "OutForwDatagrams6", "InDelivers6", "OutRequests6", "ReasmReqds6",
      "ReasmOKs6", "InMcastPkts6", "OutMcastPkts6", "FragOKs6", "FragCreates6">>
stats_net_eip6 ==
    <<"InHdrErrors6", "InAddrErrors6", "InUnknownProtos6", "InTooBigErrors6", "InDiscards6",
      "OutDiscards6", "InNoRoutes6", "OutNoRoutes6", "ReasmFails6", "FragFails6",
      "InTruncatedPkts6">>
stats_net_icmp6 ==
    <<"InMsgs6", "OutMsgs6", "InEchos6", "InEchoReplies6", "OutEchoReplies6",
      "InGroupMembQueries6", "InGroupMembResponses6", "OutGroupMembResponses6",
      "InGroupMembReductions6", "OutGroupMembReductions6", "InRouterSolicits6",
      "OutRouterSolicits6", "InRouterAdvertisements6", "InNeighborSolicits6",
      "OutNeighborSolicits6", "InNeighborAdvertisements6", "OutNeighborAdvertisements6">>
stats_net_eicmp6 ==
    <<"InErrors6", "InDestUnreachs6", "OutDestUnreachs6", "InTimeExcds6", "OutTimeExcds6",
      "InParmProblems6", "OutParmProblems6", "InRedirects6", "OutRedirects6", "InPktTooBigs6",
      "OutPktTooBigs6">>
stats_net_udp6 == <<"InDatagrams6", "OutDatagrams6", "NoPorts6", "InErrors6">>
stats_pwr_cpufreq == <<"cpufreq">>
stats_pwr_fan == <<"rpm", "rpm_min">>
stats_pwr_temp == <<"temp", "temp_min", "temp_max">>
stats_pwr_in == <<"in", "in_min", "in_max">>
stats_huge == <<"frhkb", "tlhkb", "rsvdhkb", "surphkb">>
stats_pwr_wghfreq == <<"time_in_state", "freq">>
stats_pwr_usb == <<"bus_nr", "vendor_id", "product_id", "bmaxpower">>
stats_filesystem == <<"f_blocks", "f_bfree", "f_bavail", "f_files", "f_ffree">>
stats_fchost == <<"f_rxframes", "f_txframes", "f_rxwords", "f_txwords">>
stats_softnet ==
    <<"processed", "dropped", "time_squeeze", "received_rps", "flow_limit", "backlog_len">>
stats_psi_cpu == <<"some_cpu_total", "some_acpu_10", "some_acpu_60", "some_acpu_300">>
stats_psi_io ==
    <<"some_io_total", "full_io_total", "some_aio_10", "some_aio_60", "some_aio_300",
      "full_aio_10", "full_aio_60", "full_aio_300">>
stats_psi_mem ==
    <<"some_mem_total", "full_mem_total", "some_amem_10", "some_amem_60", "some_amem_300",
      "full_amem_10", "full_amem_60", "full_amem_300">>
stats_pwr_bat == <<"capacity", "status">>

cpu_act ==
    [def |-> <<"pct_user", "pct_nice", "pct_system", "pct_iowait", "pct_steal", "pct_idle">>,
     all |->
            <<"pct_usr", "pct_nice", "pct_sys", "pct_iowait", "pct_steal", "pct_irq",
              "pct_soft", "pct_guest", "pct_gnice", "pct_idle">>,
     fields |-> stats_cpu, xnr |-> 10, counted |-> TRUE, closes |-> FALSE]
pcsw_act ==
    [hdr_line |-> <<"proc", "cswch">>,
     fields |-> stats_pcsw, xnr |-> 2, counted |-> FALSE, closes |-> FALSE]
irq_act ==
    [hdr_line |-> <<>>,
     fields |-> stats_irq, xnr |-> 1, counted |-> TRUE, closes |-> FALSE]
swap_act ==
    [hdr_line |-> <<"pswpin", "pswpout">>,
     fields |-> stats_swap, xnr |-> 2, counted |-> FALSE, closes |-> FALSE]
paging_act ==
    [hdr_line |->
            <<"pgpgin", "pgpgout", "fault", "majflt", "pgfree", "pgscank", "pgscand", "pgsteal",
              "pgprom", "pgdem">>,
     fields |-> stats_paging, xnr |-> 10, counted |-> FALSE, closes |-> FALSE]
io_act ==
    [hdr_line |-> <<"tps", "rtps", "wtps", "dtps", "bread", "bwrtn", "bdscd">>,
     fields |-> stats_io, xnr |-> 7, counted |-> FALSE, closes |-> FALSE]
memory_act ==
    [ram |->
            <<"kbmemfree", "kbavail", "kbmemused", "pct_memused", "kbbuffers", "kbcached",
              "kbcommit", "pct_commit", "kbactive", "kbinact", "kbdirty", "kbshmem">>,
     ramall |-> <<"kbanonpg", "kbslab", "kbkstack", "kbpgtbl", "kbvmused">>,
     swap |-> <<"kbswpfree", "kbswpused", "pct_swpused", "kbswpcad", "pct_swpcad">>,
     fields |-> stats_memory, xnr |-> 22, counted |-> FALSE, closes |-> FALSE]
ktables_act ==
    [hdr_line |-> <<"dentunusd", "file_nr", "inode_nr", "pty_nr">>,
     fields |-> stats_ktables, xnr |-> 4, counted |-> FALSE, closes |-> FALSE]
queue_act ==
    [hdr_line |-> <<"runq_sz", "plist_sz", "ldavg_1", "ldavg_5", "ldavg_15", "blocked">>,
     fields |-> stats_queue, xnr |-> 6, counted |-> FALSE, closes |-> FALSE]
serial_act ==
    [hdr_line |-> <<"rcvin", "xmtin", "framerr", "prtyerr", "brk", "ovrun">>,
     fields |-> stats_serial, xnr |-> 6, counted |-> TRUE, closes |-> FALSE]
disk_act ==
    [hdr_line |-> <<"tps", "rkB", "wkB", "dkB", "areq_sz", "aqu_sz", "await", "pct_util">>,
     fields |-> stats_disk, xnr |-> 8, counted |-> TRUE, closes |-> FALSE]
net_dev_act ==
    [hdr_line |-> <<"rxpck", "txpck", "rxkB", "txkB", "rxcmp", "txcmp", "rxmcst", "pct_ifutil">>,
     fields |-> stats_net_dev, xnr |-> 8, counted |-> TRUE, closes |-> FALSE]
net_edev_act ==
    [hdr_line |->
            <<"rxerr", "txerr", "coll", "rxdrop", "txdrop", "txcarr", "rxfram", "rxfifo",
              "txfifo">>,
     fields |-> stats_net_edev, xnr |-> 9, counted |-> TRUE, closes |-> FALSE]
net_nfs_act ==
    [hdr_line |-> <<"call", "retrans", "read", "write", "access", "getatt">>,
     fields |-> stats_net_nfs, xnr |-> 6, counted |-> FALSE, closes |-> FALSE]
net_nfsd_act ==
    [hdr_line |->
            <<"scall", "badcall", "packet", "udp", "tcp", "hit", "miss", "sread", "swrite",
              "saccess", "sgetatt">>,
     fields |-> stats_net_nfsd, xnr |-> 11, counted |-> FALSE, closes |-> FALSE]
net_sock_act ==
    [hdr_line |-> <<"totsck", "tcpsck", "udpsck", "rawsck", "ip_frag", "tcp_tw">>,
     fields |-> stats_net_sock, xnr |-> 6, counted |-> FALSE, closes |-> FALSE]
net_ip_act ==
    [hdr_line |-> <<"irec", "fwddgm", "idel", "orq", "asmrq", "asmok", "fragok", "fragcrt">>,
     fields |-> stats_net_ip, xnr |-> 8, counted |-> FALSE, closes |-> FALSE]
net_eip_act ==
    [hdr_line |-> <<"ihdrerr", "iadrerr", "iukwnpr", "idisc", "odisc", "onort", "asmf", "fragf">>,
     fields |-> stats_net_eip, xnr |-> 8, counted |-> FALSE, closes |-> FALSE]
net_icmp_act ==
    [hdr_line |->
            <<"imsg", "omsg", "iech", "iechr", "oech", "oechr", "itm", "itmr", "otm", "otmr",
              "iadrmk", "iadrmkr", "oadrmk", "oadrmkr">>,
     fields |-> stats_net_icmp, xnr |-> 14, counted |-> FALSE, closes |-> FALSE]
net_eicmp_act ==
    [hdr_line |->
            <<"ierr", "oerr", "idstunr", "odstunr", "itmex", "otmex", "iparmpb", "oparmpb",
              "isrcq", "osrcq", "iredir", "oredir">>,
     fields |-> stats_net_eicmp, xnr |-> 12, counted |-> FALSE, closes |-> FALSE]
net_tcp_act ==
    [hdr_line |-> <<"active", "passive", "iseg", "oseg">>,
     fields |-> stats_net_tcp, xnr |-> 4, counted |-> FALSE, closes |-> FALSE]
net_etcp_act ==
    [hdr_line |-> <<"atmptf", "estres", "retrseg", "isegerr", "orsts">>,
     fields |-> stats_net_etcp, xnr |-> 5, counted |-> FALSE, closes |-> FALSE]
net_udp_act ==
    [hdr_line |-> <<"idgm", "odgm", "noport", "idgmerr">>,
     fields |-> stats_net_udp, xnr |-> 4, counted |-> FALSE, closes |-> FALSE]
net_sock6_act ==
    [hdr_line |-> <<"tcp6sck", "udp6sck", "raw6sck", "ip6_frag">>,
     fields |-> stats_net_sock6, xnr |-> 4, counted |-> FALSE, closes |-> FALSE]
net_ip6_act ==
    [hdr_line |->
            <<"irec6", "fwddgm6", "idel6", "orq6", "asmrq6", "asmok6", "imcpck6", "omcpck6",
              "fragok6", "fragcr6">>,
     fields |-> stats_net_ip6, xnr |-> 10, counted |-> FALSE, closes |-> FALSE]
net_eip6_act ==
    [hdr_line |->
            <<"ihdrer6", "iadrer6", "iukwnp6", "i2big6", "idisc6", "odisc6", "inort6", "onort6",
              "asmf6", "fragf6", "itrpck6">>,
     fields |-> stats_net_eip6, xnr |-> 11, counted |-> FALSE, closes |-> FALSE]
net_icmp6_act ==
    [hdr_line |->
            <<"imsg6", "omsg6", "iech6", "iechr6", "oechr6", "igmbq6", "igmbr6", "ogmbr6",
              "igmbrd6", "ogmbrd6", "irtsol6", "ortsol6", "irtad6", "inbsol6", "onbsol6",
              "inbad6", "onbad6">>,
     fields |-> stats_net_icmp6, xnr |-> 17, counted |-> FALSE, closes |-> FALSE]
net_eicmp6_act ==
    [hdr_line |->
            <<"ierr6", "idtunr6", "odtunr6", "itmex6", "otmex6", "iprmpb6", "oprmpb6",
              "iredir6", "oredir6", "ipck2b6", "opck2b6">>,
     fields |-> stats_net_eicmp6, xnr |-> 11, counted |-> FALSE, closes |-> FALSE]
net_udp6_act ==
    [hdr_line |-> <<"idgm6", "odgm6", "noport6", "idgmer6">>,
     fields |-> stats_net_udp6, xnr |-> 4, counted |-> FALSE, closes |-> FALSE]
pwr_cpufreq_act ==
    [hdr_line |-> <<"MHz">>,
     fields |-> stats_pwr_cpufreq, xnr |-> 1, counted |-> TRUE, closes |-> FALSE]
pwr_fan_act ==
    [hdr_line |-> <<"rpm", "drpm">>,
     fields |-> stats_pwr_fan, xnr |-> 2, counted |-> TRUE, closes |-> FALSE]
pwr_temp_act ==
    [hdr_line |-> <<"degC", "pct_temp">>,
     fields |-> stats_pwr_temp, xnr |-> 2, counted |-> TRUE, closes |-> FALSE]
pwr_in_act ==
    [hdr_line |-> <<"inV", "pct_in">>,
     fields |-> stats_pwr_in, xnr |-> 2, counted |-> TRUE, closes |-> FALSE]
huge_act ==
    [hdr_line |-> <<"kbhugfree", "kbhugused", "pct_hugused", "kbhugrsvd", "kbhugsurp">>,
     fields |-> stats_huge, xnr |-> 5, counted |-> FALSE, closes |-> FALSE]
pwr_wghfreq_act ==
    [hdr_line |-> <<"wghMHz">>,
     fields |-> stats_pwr_wghfreq, xnr |-> 1, counted |-> TRUE, closes |-> FALSE]
pwr_usb_act ==
    [hdr_line |-> <<"idvendor", "idprod", "maxpower">>,
     fields |-> stats_pwr_usb, xnr |-> 0, counted |-> TRUE, closes |-> TRUE]
filesystem_act ==
    [hdr_line |->
            <<"MBfsfree", "MBfsused", "pct_fsused", "pct_ufsused", "Ifree", "Iused",
              "pct_Iused">>,
     fields |-> stats_filesystem, xnr |-> 7, counted |-> TRUE, closes |-> FALSE]
fchost_act ==
    [hdr_line |-> <<"fch_rxf", "fch_txf", "fch_rxw", "fch_txw">>,
     fields |-> stats_fchost, xnr |-> 4, counted |-> TRUE, closes |-> FALSE]
softnet_act ==
    [hdr_line |-> <<"total", "dropd", "squeezd", "rx_rps", "flw_lim", "blg_len">>,
     fields |-> stats_softnet, xnr |-> 6, counted |-> TRUE, closes |-> TRUE]
psi_cpu_act ==
    [hdr_line |-> <<"pct_scpu_10", "pct_scpu_60", "pct_scpu_300", "pct_scpu">>,
     fields |-> stats_psi_cpu, xnr |-> 4, counted |-> FALSE, closes |-> FALSE]
psi_io_act ==
    [hdr_line |->
            <<"pct_sio_10", "pct_sio_60", "pct_sio_300", "pct_sio", "pct_fio_10", "pct_fio_60",
              "pct_fio_300", "pct_fio">>,
     fields |-> stats_psi_io, xnr |-> 8, counted |-> FALSE, closes |-> FALSE]
psi_mem_act ==
    [hdr_line |->
            <<"pct_smem_10", "pct_smem_60", "pct_smem_300", "pct_smem", "pct_fmem_10",
              "pct_fmem_60", "pct_fmem_300", "pct_fmem">>,
     fields |-> stats_psi_mem, xnr |-> 8, counted |-> FALSE, closes |-> TRUE]
pwr_bat_act ==
    [hdr_line |-> <<"pct_cap", "cap_min", "status">>,
     fields |-> stats_pwr_bat, xnr |-> 2, counted |-> TRUE, closes |-> FALSE]

\* The activities in the order of the array act[].
act ==
    <<"cpu", "pcsw", "irq", "swap", "paging", "io", "memory", "huge", "ktables", "queue",
      "serial", "disk", "net_dev", "net_edev", "net_nfs", "net_nfsd", "net_sock", "net_ip",
      "net_eip", "net_icmp", "net_eicmp", "net_tcp", "net_etcp", "net_udp", "net_sock6",
      "net_ip6", "net_eip6", "net_icmp6", "net_eicmp6", "net_udp6", "fchost", "softnet",
      "pwr_cpufreq", "pwr_fan", "pwr_temp", "pwr_in", "pwr_wghfreq", "pwr_bat", "pwr_usb",
      "filesystem", "psi_cpu", "psi_io", "psi_mem">>

\* The activities by name.
activity ==
    [cpu |-> cpu_act, pcsw |-> pcsw_act, irq |-> irq_act, swap |-> swap_act, paging |-> paging_act, io |-> io_act,
     memory |-> memory_act, huge |-> huge_act, ktables |-> ktables_act, queue |-> queue_act, serial |-> serial_act,
     disk |-> disk_act, net_dev |-> net_dev_act, net_edev |-> net_edev_act, net_nfs |-> net_nfs_act,
     net_nfsd |-> net_nfsd_act, net_sock |-> net_sock_act, net_ip |-> net_ip_act, net_eip |-> net_eip_act,
     net_icmp |-> net_icmp_act, net_eicmp |-> net_eicmp_act, net_tcp |-> net_tcp_act, net_etcp |-> net_etcp_act,
     net_udp |-> net_udp_act, net_sock6 |-> net_sock6_act, net_ip6 |-> net_ip6_act, net_eip6 |-> net_eip6_act,
     net_icmp6 |-> net_icmp6_act, net_eicmp6 |-> net_eicmp6_act, net_udp6 |-> net_udp6_act,
     fchost |-> fchost_act, softnet |-> softnet_act, pwr_cpufreq |-> pwr_cpufreq_act, pwr_fan |-> pwr_fan_act,
     pwr_temp |-> pwr_temp_act, pwr_in |-> pwr_in_act, pwr_wghfreq |-> pwr_wghfreq_act, pwr_bat |-> pwr_bat_act,
     pwr_usb |-> pwr_usb_act, filesystem |-> filesystem_act, psi_cpu |-> psi_cpu_act, psi_io |-> psi_io_act,
     psi_mem |-> psi_mem_act]

(***************************************************************************)
(* Groups of activities.  The XML and JSON outputs have an element for     *)
(* each group: it is opened by the first activity of the group that is     *)
(* written, and closed by the last one of the group, written or not.  o is *)
(* the groups that are open (open), the last ones of what has been written *)
(* (text), and the groups opened in this record (groups).                  *)
(***************************************************************************)
Network ==
    {"net_dev", "net_edev", "net_nfs", "net_nfsd", "net_sock", "net_ip", "net_eip", "net_icmp",
     "net_eicmp", "net_tcp", "net_etcp", "net_udp", "net_sock6", "net_ip6", "net_eip6", "net_icmp6",
     "net_eicmp6", "net_udp6", "fchost", "softnet"}
PowerManagement ==
    {"pwr_cpufreq", "pwr_fan", "pwr_temp", "pwr_in", "pwr_wghfreq", "pwr_bat", "pwr_usb"}
Psi == {"psi_cpu", "psi_io", "psi_mem"}

Write(o, token) == [o EXCEPT !.text = Append(@, token)]
\* The markup_state of a group says whether it is open.
Markup(o, group, action) ==
    IF (group \in o.open) = (action = "open") THEN o
    ELSE LET w == Write(o, <<action, group>>)
         IN  IF action = "open"
             THEN [w EXCEPT !.open = @ \cup {group}, !.groups = Append(@, group)]
             ELSE [w EXCEPT !.open = @ \ {group}]
=============================================================================
