---------------------------- MODULE PcpMetrics ----------------------------
(***************************************************************************)
(* The PCP archive of sadf -l: the metrics and the instances that its      *)
(* header defines for each activity (pcp_def_metrics.c), and the values    *)
(* put in a record (pcp_stats.c).                                          *)
(*                                                                         *)
(* pcp_def_X_metrics(x, f) is the header of activity X, x being the        *)
(* options of the command and f what the file was found to hold: the names *)
(* of its items (f.list), or the greatest number of them in a sample       *)
(* (f.size), its interrupts (f.irqs) and its processors (f.cpus).          *)
(* pcp_print_X_stats(p, c, x) is the values of sample c, by item.          *)
(***************************************************************************)
EXTENDS StatValues, Activities

\* PM_INDOM_NULL and PM_IN_NULL: a metric without instances, and its value.
NULL == "-"

\* Metrics of an instance domain, by name and number; id is the number of the
\* metrics before the last component.  units is what pmiUnits() is given: "B",
\* "kB" or "MB", "us" or "ms", "/us", "count", or "none" for no dimension.
Metrics(indom, sem, units, id, list) ==
    {[name |-> list[k][1], id |-> id \o <<list[k][2]>>, indom |-> indom, sem |-> sem, units |-> units] :
        k \in DOMAIN list}
Header(metrics, instances) == [metrics |-> metrics, instances |-> instances]
Instances(indom, insts) == {<<indom, n>> : n \in insts}

\* Values put for an instance: metrics, each with its field of s.
Put(metric, inst, v) == [metric |-> metric, inst |-> inst, v |-> v]
Fields(s, inst, list) == {Put(list[k][1], inst, Gauge(s[list[k][2]])) : k \in DOMAIN list}
\* What is put as a string.
Text == <<0, 0>>

(***************************************************************************)
(* The import library.                                                     *)
(***************************************************************************)
\* pmiAddMetric(), for each of the metrics of an activity: neither the name
\* nor the number may be in use.
pmiAddMetrics(metrics, new) ==
    metrics \cup {m \in new : \A d \in metrics : d.name # m.name /\ d.id # m.id}
\* pmiPutValue(): the metric must be in the header, and so must the instance.
pmiPutValue(h, put) ==
    \E d \in h.metrics :
        /\ d.name = put.metric
        /\ IF d.indom = NULL THEN put.inst = NULL ELSE <<d.indom, put.inst>> \in h.instances

(***************************************************************************)
(* Processors.                                                             *)
(***************************************************************************)
pcp_def_global_cpu_metrics ==
    Metrics(NULL, "counter", "ms", <<60, 0>>,
        <<<<"kernel.all.cpu.user", 20>>, <<"kernel.all.cpu.nice", 21>>,
          <<"kernel.all.cpu.sys", 22>>, <<"kernel.all.cpu.idle", 23>>,
          <<"kernel.all.cpu.iowait", 25>>, <<"kernel.all.cpu.steal", 55>>,
          <<"kernel.all.cpu.irq.hard", 54>>, <<"kernel.all.cpu.irq.soft", 53>>,
          <<"kernel.all.cpu.irq.total", 34>>, <<"kernel.all.cpu.guest", 60>>,
          <<"kernel.all.cpu.guest_nice", 81>>>>)
pcp_def_percpu_metrics(indom) ==
    Metrics(indom, "counter", "ms", <<60, 0>>,
        <<<<"kernel.percpu.cpu.user", 0>>, <<"kernel.percpu.cpu.nice", 1>>,
          <<"kernel.percpu.cpu.sys", 2>>, <<"kernel.percpu.cpu.idle", 3>>,
          <<"kernel.percpu.cpu.iowait", 30>>, <<"kernel.percpu.cpu.steal", 58>>,
          <<"kernel.percpu.cpu.irq.hard", 57>>, <<"kernel.percpu.cpu.irq.soft", 56>>,
          <<"kernel.percpu.cpu.irq.total", 35>>, <<"kernel.percpu.cpu.guest", 61>>,
          <<"kernel.percpu.cpu.guest_nice", 83>>>>)
pcp_def_global_softnet_metrics ==
    Metrics(NULL, "counter", "count", <<60, 57>>,
        <<<<"network.softnet.processed", 0>>, <<"network.softnet.dropped", 1>>,
          <<"network.softnet.time_squeeze", 2>>, <<"network.softnet.received_rps", 4>>,
          <<"network.softnet.flow_limit", 5>>, <<"network.softnet.backlog_length", 12>>>>)
pcp_def_percpu_softnet_metrics(indom) ==
    Metrics(indom, "counter", "count", <<60, 57>>,
        <<<<"network.softnet.percpu.processed", 6>>, <<"network.softnet.percpu.dropped", 7>>,
          <<"network.softnet.percpu.time_squeeze", 8>>,
          <<"network.softnet.percpu.received_rps", 10>>,
          <<"network.softnet.percpu.flow_limit", 11>>,
          <<"network.softnet.percpu.backlog_length", 13>>>>)
pcp_def_pwr_cpufreq_metrics(indom) ==
    Metrics(indom, "discrete", "/us", <<60, 18>>,
        <<<<"hinv.cpu.clock", 0>>>>)
\* The interrupts of a processor.
pcp_def_percpu_int_metrics(f, cpu) ==
    Header(
        Metrics("percpu_interrupts", "counter", "count", <<60, 4>>,
            <<<<"kernel.percpu.interrupts", 1>>>>),
        Instances("percpu_interrupts", f.irqs \X {cpu}))

\* For activity n, whether processors are offline or not.
pcp_def_cpu_metrics(n, x, f) ==
    LET shown == {m \in f.cpus : x.sel = {} \/ m \in x.sel}
        cpus == shown \ {"all"}
        Merged(H) == Header(UNION {h.metrics : h \in H}, UNION {h.instances : h \in H})
        global == IF "all" \notin shown THEN {}
                  ELSE CASE n = "cpu" -> pcp_def_global_cpu_metrics
                         [] n = "softnet" -> pcp_def_global_softnet_metrics
                         [] OTHER -> {}
        percpu == IF cpus = {} THEN {}
                  ELSE CASE n = "cpu" -> pcp_def_percpu_metrics("cpu")
                         [] n = "softnet" -> pcp_def_percpu_softnet_metrics("cpu")
                         [] n = "pwr_cpufreq" -> pcp_def_pwr_cpufreq_metrics("cpu")
                         [] OTHER -> {}
    IN  Merged({Header(global \cup percpu, Instances("cpu", cpus))}
               \cup (IF n = "irq" THEN {pcp_def_percpu_int_metrics(f, m) : m \in cpus} ELSE {}))

\* CPU "all" has its own metrics; those of an idle processor without a tick
\* are zero, but for the time it was idle.
pcp_print_cpu_stats(p, c, x) ==
    LET g == CpuSamples(p, c, x.sel)
        state == <<<<"kernel.all.cpu.user", "kernel.percpu.cpu.user">>,
                   <<"kernel.all.cpu.nice", "kernel.percpu.cpu.nice">>,
                   <<"kernel.all.cpu.sys", "kernel.percpu.cpu.sys">>,
                   <<"kernel.all.cpu.iowait", "kernel.percpu.cpu.iowait">>,
                   <<"kernel.all.cpu.steal", "kernel.percpu.cpu.steal">>,
                   <<"kernel.all.cpu.irq.total", "kernel.percpu.cpu.irq.total">>,
                   <<"kernel.all.cpu.irq.hard", "kernel.percpu.cpu.irq.hard">>,
                   <<"kernel.all.cpu.irq.soft", "kernel.percpu.cpu.irq.soft">>,
                   <<"kernel.all.cpu.guest", "kernel.percpu.cpu.guest">>,
                   <<"kernel.all.cpu.guest_nice", "kernel.percpu.cpu.guest_nice">>,
                   <<"kernel.all.cpu.idle", "kernel.percpu.cpu.idle">>>>
        Spent(s) == <<s.cpu_user - s.cpu_guest, s.cpu_nice - s.cpu_guest_nice, s.cpu_sys, s.cpu_iowait,
                      s.cpu_steal, s.cpu_hardirq + s.cpu_softirq, s.cpu_hardirq, s.cpu_softirq,
                      s.cpu_guest, s.cpu_guest_nice, s.cpu_idle>>
        Tickless(m) ==
            {Put(metric, m, Zero) : metric \in
                {"kernel.percpu.cpu.user", "kernel.percpu.cpu.nice", "kernel.percpu.cpu.sys",
                 "kernel.percpu.cpu.iowait", "kernel.percpu.cpu.steal", "kernel.percpu.cpu.hardirq",
                 "kernel.percpu.cpu.softirq", "kernel.percpu.cpu.guest",
                 "kernel.percpu.cpu.guest_nice"}}
            \cup {Put("kernel.percpu.cpu.idle", m, Gauge(100))}
    IN  ByName(c, [i \in g.shown |->
            IF i = 1 THEN {Put(state[k][1], NULL, Gauge(Spent(g.c[1])[k])) : k \in DOMAIN state}
            ELSE IF g.itv[i] = 0 THEN Tickless(c[i].name)
            ELSE {Put(state[k][2], c[i].name, Gauge(Spent(g.c[i])[k])) : k \in DOMAIN state}])

\* Nothing is put for CPU "all".
pcp_print_softnet_stats(p, c, x) ==
    LET g == get_global_soft_statistics(p, c)
    IN  ByName(c, [i \in (Listed(c, x.sel) \ g.off) \ {1} |-> Fields(g.c[i], c[i].name,
            <<<<"network.softnet.percpu.processed", "processed">>,
              <<"network.softnet.percpu.dropped", "dropped">>,
              <<"network.softnet.percpu.time_squeeze", "time_squeeze">>,
              <<"network.softnet.percpu.received_rps", "received_rps">>,
              <<"network.softnet.percpu.flow_limit", "flow_limit">>,
              <<"network.softnet.percpu.backlog_length", "backlog_len">>>>)])
pcp_print_pwr_cpufreq_stats(c, x) ==
    ByName(c, [i \in Listed(c, x.sel) \ {1} |->
        {Put("hinv.cpu.clock", c[i].name, <<c[i].cpufreq, 100>>)}])

\* The interrupts of CPU "all", if it is displayed: their sum has a metric of
\* its own, and the others an instance each.
pcp_def_irq_metrics(x, f) ==
    IF x.sel # {} /\ "all" \notin x.sel THEN Header({}, {})
    ELSE Header(
        (IF "sum" \notin f.irqs THEN {}
         ELSE Metrics(NULL, "counter", "count", <<60, 0>>, <<<<"kernel.all.intr", 12>>>>))
        \cup (IF f.irqs \subseteq {"sum"} THEN {}
              ELSE Metrics("interrupts", "counter", "count", <<60, 4>>, <<<<"kernel.all.interrupts.total", 0>>>>)),
        Instances("interrupts", f.irqs \ {"sum"}))
pcp_print_irq_stats(p, c, x) ==
    LET g == get_global_int_statistics(p, c, x.sel)
        name == c[1].irq_name
        kept == {n \in DOMAIN name : x.items = {} \/ name[n] \in x.items}
        Of(k, n) ==
            LET v == Gauge(g.c[k].irq_nr[n])
            IN  CASE k # 1 -> Put("kernel.percpu.interrupts", <<name[n], c[k].name>>, v)
                  [] k = 1 /\ n = 1 -> Put("kernel.all.intr", NULL, v)
                  [] OTHER -> Put("kernel.all.interrupts.total", name[n], v)
    IN  [m \in {name[n] : n \in kept} |->
            {Of(k, CHOOSE n \in kept : name[n] = m) : k \in DOMAIN c \ g.masked}]

(***************************************************************************)
(* Activities without items.                                               *)
(***************************************************************************)
pcp_def_pcsw_metrics ==
    Header(
        Metrics(NULL, "counter", "count", <<60, 0>>,
            <<<<"kernel.all.pswitch", 13>>, <<"kernel.all.sysfork", 14>>>>),
        {})
pcp_print_pcsw_stats(c) ==
    Alone(Fields(c[1], NULL,
        <<<<"kernel.all.pswitch", "context_switch">>, <<"kernel.all.sysfork", "processes">>>>))
pcp_def_swap_metrics ==
    Header(
        Metrics(NULL, "counter", "count", <<60, 0>>,
            <<<<"swap.pagesin", 8>>, <<"swap.pagesout", 9>>>>),
        {})
pcp_print_swap_stats(c) ==
    Alone(Fields(c[1], NULL,
        <<<<"swap.pagesin", "pswpin">>, <<"swap.pagesout", "pswpout">>>>))
pcp_def_paging_metrics ==
    Header(
        Metrics(NULL, "counter", "count", <<60, 28>>,
            <<<<"mem.vmstat.pgpgin", 6>>, <<"mem.vmstat.pgpgout", 7>>,
              <<"mem.vmstat.pgfault", 16>>, <<"mem.vmstat.pgmajfault", 17>>,
              <<"mem.vmstat.pgfree", 13>>, <<"mem.vmstat.pgscan_kswapd_total", 177>>,
              <<"mem.vmstat.pgscan_direct_total", 176>>, <<"mem.vmstat.pgsteal_total", 178>>,
              <<"mem.vmstat.pgpromote_success", 192>>, <<"mem.vmstat.pgdemote_total", 193>>>>),
        {})
pcp_print_paging_stats(c) ==
    Alone(Fields(c[1], NULL,
        <<<<"mem.vmstat.pgpgin", "pgpgin">>, <<"mem.vmstat.pgpgout", "pgpgout">>,
          <<"mem.vmstat.pgfault", "pgfault">>, <<"mem.vmstat.pgmajfault", "pgmajfault">>,
          <<"mem.vmstat.pgfree", "pgfree">>,
          <<"mem.vmstat.pgscan_kswapd_total", "pgscan_kswapd">>,
          <<"mem.vmstat.pgscan_direct_total", "pgscan_direct">>,
          <<"mem.vmstat.pgsteal_total", "pgsteal">>,
          <<"mem.vmstat.pgpromote_success", "pgpromote">>,
          <<"mem.vmstat.pgdemote_total", "pgdemote">>>>))
pcp_def_io_metrics ==
    Header(
             Metrics(NULL, "counter", "count", <<60, 0>>,
                 <<<<"disk.all.total", 29>>, <<"disk.all.read", 24>>, <<"disk.all.write", 25>>,
                   <<"disk.all.discard", 96>>>>)
        \cup Metrics(NULL, "counter", "kB", <<60, 0>>,
                 <<<<"disk.all.read_bytes", 41>>, <<"disk.all.write_bytes", 42>>,
                   <<"disk.all.discard_bytes", 98>>>>),
        {})
pcp_print_io_stats(c) ==
    Alone(Fields(c[1], NULL,
        <<<<"disk.all.total", "dk_drive">>, <<"disk.all.read", "dk_drive_rio">>,
          <<"disk.all.write", "dk_drive_wio">>, <<"disk.all.discard", "dk_drive_dio">>,
          <<"disk.all.read_bytes", "dk_drive_rblk">>, <<"disk.all.write_bytes", "dk_drive_wblk">>,
          <<"disk.all.discard_bytes", "dk_drive_dblk">>>>))
pcp_def_ram_memory_metrics(x) ==
         Metrics(NULL, "discrete", "MB", <<60, 1>>, <<<<"hinv.physmem", 9>>>>)
    \cup Metrics(NULL, "discrete", "kB", <<60, 1>>, <<<<"mem.physmem", 0>>>>)
    \cup Metrics(NULL, "instant", "kB", <<60, 1>>,
             <<<<"mem.util.free", 2>>, <<"mem.util.available", 58>>, <<"mem.util.used", 1>>,
               <<"mem.util.bufmem", 4>>, <<"mem.util.cached", 5>>,
               <<"mem.util.committed_AS", 26>>, <<"mem.util.active", 14>>,
               <<"mem.util.inactive", 15>>, <<"mem.util.dirty", 22>>, <<"mem.util.shared", 23>>>>)
    \cup (IF ~x.full THEN {} ELSE Metrics(NULL, "instant", "kB", <<60, 1>>,
             <<<<"mem.util.anonpages", 30>>, <<"mem.util.slab", 25>>,
               <<"mem.util.kernelStack", 43>>, <<"mem.util.pageTables", 27>>,
               <<"mem.util.vmallocUsed", 51>>>>))
pcp_def_swap_memory_metrics ==
    Metrics(NULL, "instant", "kB", <<60, 1>>,
        <<<<"mem.util.swapFree", 21>>, <<"mem.util.swapTotal", 20>>,
          <<"mem.util.swapCached", 13>>>>)
pcp_def_memory_metrics(x) ==
    Header((IF "ram" \in x.mem THEN pcp_def_ram_memory_metrics(x) ELSE {})
           \cup (IF "swap" \in x.mem THEN pcp_def_swap_memory_metrics ELSE {}), {})
pcp_print_ram_memory_stats(s, dispall) ==
    {Put("hinv.physmem", NULL, Gauge(s.tlmkb \div 1024)),
     Put("mem.util.used", NULL, Gauge(s.tlmkb - s.availablekb))}
    \cup Fields(s, NULL,
            <<<<"mem.physmem", "tlmkb">>, <<"mem.util.free", "frmkb">>,
              <<"mem.util.available", "availablekb">>, <<"mem.util.bufmem", "bufkb">>,
              <<"mem.util.cached", "camkb">>, <<"mem.util.committed_AS", "comkb">>,
              <<"mem.util.active", "activekb">>, <<"mem.util.inactive", "inactkb">>,
              <<"mem.util.dirty", "dirtykb">>, <<"mem.util.shared", "shmemkb">>>>)
    \cup (IF ~dispall THEN {} ELSE Fields(s, NULL,
            <<<<"mem.util.anonpages", "anonpgkb">>, <<"mem.util.slab", "slabkb">>,
              <<"mem.util.kernelStack", "kstackkb">>, <<"mem.util.pageTables", "pgtblkb">>,
              <<"mem.util.vmallocUsed", "vmusedkb">>>>))
pcp_print_swap_memory_stats(s) ==
    Fields(s, NULL,
        <<<<"mem.util.swapFree", "frskb">>, <<"mem.util.swapTotal", "tlskb">>,
          <<"mem.util.swapCached", "caskb">>>>)
pcp_print_memory_stats(c, x) ==
    Alone((IF "ram" \in x.mem THEN pcp_print_ram_memory_stats(c[1], x.full) ELSE {})
          \cup (IF "swap" \in x.mem THEN pcp_print_swap_memory_stats(c[1]) ELSE {}))

pcp_def_ktables_metrics ==
    Header(
             Metrics(NULL, "instant", "none", <<60, 27>>,
                 <<<<"vfs.dentry.count", 5>>, <<"vfs.files.count", 0>>,
                   <<"vfs.inodes.count", 3>>>>)
        \cup Metrics(NULL, "instant", "none", <<60, 72>>,
                 <<<<"kernel.all.nptys", 3>>>>),
        {})
pcp_print_ktables_stats(c) ==
    Alone(Fields(c[1], NULL,
        <<<<"vfs.dentry.count", "dentry_stat">>, <<"vfs.files.count", "file_used">>,
          <<"vfs.inodes.count", "inode_used">>, <<"kernel.all.nptys", "pty_nr">>>>))
\* Load averages are kept in hundredths.
pcp_def_queue_metrics ==
    Header(
             Metrics(NULL, "instant", "none", <<60, 2>>, <<<<"kernel.all.runnable", 2>>>>)
        \cup Metrics(NULL, "instant", "count", <<60, 2>>, <<<<"kernel.all.nprocs", 3>>>>)
        \cup Metrics(NULL, "instant", "none", <<60, 0>>, <<<<"kernel.all.blocked", 16>>>>)
        \cup Metrics("load", "instant", "none", <<60, 2>>, <<<<"kernel.all.load", 0>>>>),
        Instances("load", {"1 minute", "5 minute", "15 minute"}))
pcp_print_queue_stats(c) ==
    LET Load(inst, f) == Put("kernel.all.load", inst, <<c[1][f], 100>>)
    IN  Alone(Fields(c[1], NULL,
                     <<<<"kernel.all.runnable", "nr_running">>, <<"kernel.all.nprocs", "nr_threads">>,
                       <<"kernel.all.blocked", "procs_blocked">>>>)
              \cup {Load("1 minute", "load_avg_1"), Load("5 minute", "load_avg_5"),
                    Load("15 minute", "load_avg_15")})

\* What is asked of the NFS servers: four kinds of requests, under one metric.
Requests == {"read", "write", "access", "getattr"}
pcp_def_net_nfs_metrics ==
    Header(
             Metrics(NULL, "counter", "count", <<60, 7>>,
                 <<<<"rpc.client.rpccnt", 20>>, <<"rpc.client.rpcretrans", 21>>>>)
        \cup Metrics("requests", "counter", "count", <<60, 7>>,
                 <<<<"nfs.client.reqs", 4>>>>),
        Instances("requests", Requests))
pcp_print_net_nfs_stats(c) ==
    Alone(Fields(c[1], NULL,
                 <<<<"rpc.client.rpccnt", "nfs_rpccnt">>, <<"rpc.client.rpcretrans", "nfs_rpcretrans">>>>)
          \cup Fields(c[1], "read", <<<<"nfs.client.reqs", "nfs_readcnt">>>>)
          \cup Fields(c[1], "write", <<<<"nfs.client.reqs", "nfs_writecnt">>>>)
          \cup Fields(c[1], "access", <<<<"nfs.client.reqs", "nfs_accesscnt">>>>)
          \cup Fields(c[1], "getattr", <<<<"nfs.client.reqs", "nfs_getattcnt">>>>))
pcp_def_net_nfsd_metrics ==
    Header(
             Metrics(NULL, "counter", "count", <<60, 7>>,
                 <<<<"rpc.server.rpccnt", 30>>, <<"rpc.server.rpcbadclnt", 34>>,
                   <<"rpc.server.netcnt", 44>>, <<"rpc.server.netudpcnt", 45>>,
                   <<"rpc.server.nettcpcnt", 46>>, <<"rpc.server.rchits", 35>>,
                   <<"rpc.server.rcmisses", 36>>>>)
        \cup Metrics("requests", "counter", "count", <<60, 7>>,
                 <<<<"nfs.server.reqs", 12>>>>),
        Instances("requests", Requests))
pcp_print_net_nfsd_stats(c) ==
    Alone(Fields(c[1], NULL,
                 <<<<"rpc.server.rpccnt", "nfsd_rpccnt">>, <<"rpc.server.rpcbadclnt", "nfsd_rpcbad">>,
                   <<"rpc.server.netcnt", "nfsd_netcnt">>, <<"rpc.server.netudpcnt", "nfsd_netudpcnt">>,
                   <<"rpc.server.nettcpcnt", "nfsd_nettcpcnt">>, <<"rpc.server.rchits", "nfsd_rchits">>,
                   <<"rpc.server.rcmisses", "nfsd_rcmisses">>>>)
          \cup Fields(c[1], "read", <<<<"nfs.server.reqs", "nfsd_readcnt">>>>)
          \cup Fields(c[1], "write", <<<<"nfs.server.reqs", "nfsd_writecnt">>>>)
          \cup Fields(c[1], "access", <<<<"nfs.server.reqs", "nfsd_accesscnt">>>>)
          \cup Fields(c[1], "getattr", <<<<"nfs.server.reqs", "nfsd_getattcnt">>>>))

pcp_def_net_sock_metrics ==
    Header(
        Metrics(NULL, "instant", "count", <<60, 11>>,
            <<<<"network.sockstat.total", 9>>, <<"network.sockstat.tcp.inuse", 0>>,
              <<"network.sockstat.udp.inuse", 3>>, <<"network.sockstat.raw.inuse", 6>>,
              <<"network.sockstat.frag.inuse", 15>>, <<"network.sockstat.tcp.tw", 11>>>>),
        {})
pcp_print_net_sock_stats(c) ==
    Alone(Fields(c[1], NULL,
        <<<<"network.sockstat.total", "sock_inuse">>,
          <<"network.sockstat.tcp.inuse", "tcp_inuse">>,
          <<"network.sockstat.udp.inuse", "udp_inuse">>,
          <<"network.sockstat.raw.inuse", "raw_inuse">>,
          <<"network.sockstat.frag.inuse", "frag_inuse">>,
          <<"network.sockstat.tcp.tw", "tcp_tw">>>>))
pcp_def_net_ip_metrics ==
    Header(
        Metrics(NULL, "counter", "count", <<60, 14>>,
            <<<<"network.ip.inreceives", 2>>, <<"network.ip.forwdatagrams", 5>>,
              <<"network.ip.indelivers", 8>>, <<"network.ip.outrequests", 9>>,
              <<"network.ip.reasmreqds", 13>>, <<"network.ip.reasmoks", 14>>,
              <<"network.ip.fragoks", 16>>, <<"network.ip.fragcreates", 18>>>>),
        {})
pcp_print_net_ip_stats(c) ==
    Alone(Fields(c[1], NULL,
        <<<<"network.ip.inreceives", "InReceives">>,
          <<"network.ip.forwdatagrams", "ForwDatagrams">>,
          <<"network.ip.indelivers", "InDelivers">>, <<"network.ip.outrequests", "OutRequests">>,
          <<"network.ip.reasmreqds", "ReasmReqds">>, <<"network.ip.reasmoks", "ReasmOKs">>,
          <<"network.ip.fragoks", "FragOKs">>, <<"network.ip.fragcreates", "FragCreates">>>>))
pcp_def_net_eip_metrics ==
    Header(
        Metrics(NULL, "counter", "count", <<60, 14>>,
            <<<<"network.ip.inhdrerrors", 3>>, <<"network.ip.inaddrerrors", 4>>,
              <<"network.ip.inunknownprotos", 6>>, <<"network.ip.indiscards", 7>>,
              <<"network.ip.outdiscards", 10>>, <<"network.ip.outnoroutes", 11>>,
              <<"network.ip.reasmfails", 15>>, <<"network.ip.fragfails", 17>>>>),
        {})
pcp_print_net_eip_stats(c) ==
    Alone(Fields(c[1], NULL,
        <<<<"network.ip.inhdrerrors", "InHdrErrors">>,
          <<"network.ip.inaddrerrors", "InAddrErrors">>,
          <<"network.ip.inunknownprotos", "InUnknownProtos">>,
          <<"network.ip.indiscards", "InDiscards">>, <<"network.ip.outdiscards", "OutDiscards">>,
          <<"network.ip.outnoroutes", "OutNoRoutes">>, <<"network.ip.reasmfails", "ReasmFails">>,
          <<"network.ip.fragfails", "FragFails">>>>))
pcp_def_net_icmp_metrics ==
    Header(
        Metrics(NULL, "counter", "count", <<60, 14>>,
            <<<<"network.icmp.inmsgs", 20>>, <<"network.icmp.outmsgs", 33>>,
              <<"network.icmp.inechos", 27>>, <<"network.icmp.inechoreps", 28>>,
              <<"network.icmp.outechos", 40>>, <<"network.icmp.outechoreps", 41>>,
              <<"network.icmp.intimestamps", 29>>, <<"network.icmp.intimestampreps", 30>>,
              <<"network.icmp.outtimestamps", 42>>, <<"network.icmp.outtimestampreps", 43>>,
              <<"network.icmp.inaddrmasks", 31>>, <<"network.icmp.inaddrmaskreps", 32>>,
              <<"network.icmp.outaddrmasks", 44>>, <<"network.icmp.outaddrmaskreps", 45>>>>),
        {})
pcp_print_net_icmp_stats(c) ==
    Alone(Fields(c[1], NULL,
        <<<<"network.icmp.inmsgs", "InMsgs">>, <<"network.icmp.outmsgs", "OutMsgs">>,
          <<"network.icmp.inechos", "InEchos">>, <<"network.icmp.inechoreps", "InEchoReps">>,
          <<"network.icmp.outechos", "OutEchos">>, <<"network.icmp.outechoreps", "OutEchoReps">>,
          <<"network.icmp.intimestamps", "InTimestamps">>,
          <<"network.icmp.intimestampreps", "InTimestampReps">>,
          <<"network.icmp.outtimestamps", "OutTimestamps">>,
          <<"network.icmp.outtimestampreps", "OutTimestampReps">>,
          <<"network.icmp.inaddrmasks", "InAddrMasks">>,
          <<"network.icmp.inaddrmaskreps", "InAddrMaskReps">>,
          <<"network.icmp.outaddrmasks", "OutAddrMasks">>,
          <<"network.icmp.outaddrmaskreps", "OutAddrMaskReps">>>>))
pcp_def_net_eicmp_metrics ==
    Header(
        Metrics(NULL, "counter", "count", <<60, 14>>,
            <<<<"network.icmp.inerrors", 21>>, <<"network.icmp.outerrors", 34>>,
              <<"network.icmp.indestunreachs", 22>>, <<"network.icmp.outdestunreachs", 35>>,
              <<"network.icmp.intimeexcds", 23>>, <<"network.icmp.outtimeexcds", 36>>,
              <<"network.icmp.inparmprobs", 24>>, <<"network.icmp.outparmprobs", 37>>,
              <<"network.icmp.insrcquenchs", 25>>, <<"network.icmp.outsrcquenchs", 38>>,
              <<"network.icmp.inredirects", 27>>, <<"network.icmp.outredirects", 39>>>>),
        {})
pcp_print_net_eicmp_stats(c) ==
    Alone(Fields(c[1], NULL,
        <<<<"network.icmp.inerrors", "InErrors">>, <<"network.icmp.outerrors", "OutErrors">>,
          <<"network.icmp.indestunreachs", "InDestUnreachs">>,
          <<"network.icmp.outdestunreachs", "OutDestUnreachs">>,
          <<"network.icmp.intimeexcds", "InTimeExcds">>,
          <<"network.icmp.outtimeexcds", "OutTimeExcds">>,
          <<"network.icmp.inparmprobs", "InParmProbs">>,
          <<"network.icmp.outparmprobs", "OutParmProbs">>,
          <<"network.icmp.insrcquenchs", "InSrcQuenchs">>,
          <<"network.icmp.outsrcquenchs", "OutSrcQuenchs">>,
          <<"network.icmp.inredirects", "InRedirects">>,
          <<"network.icmp.outredirects", "OutRedirects">>>>))
pcp_def_net_tcp_metrics ==
    Header(
        Metrics(NULL, "counter", "count", <<60, 14>>,
            <<<<"network.tcp.activeopens", 54>>, <<"network.tcp.passiveopens", 55>>,
              <<"network.tcp.insegs", 59>>, <<"network.tcp.outsegs", 60>>>>),
        {})
pcp_print_net_tcp_stats(c) ==
    Alone(Fields(c[1], NULL,
        <<<<"network.tcp.activeopens", "ActiveOpens">>,
          <<"network.tcp.passiveopens", "PassiveOpens">>, <<"network.tcp.insegs", "InSegs">>,
          <<"network.tcp.outsegs", "OutSegs">>>>))
pcp_def_net_etcp_metrics ==
    Header(
        Metrics(NULL, "counter", "count", <<60, 14>>,
            <<<<"network.tcp.attemptfails", 56>>, <<"network.tcp.estabresets", 57>>,
              <<"network.tcp.retranssegs", 61>>, <<"network.tcp.inerrs", 62>>,
              <<"network.tcp.outrsts", 63>>>>),
        {})
pcp_print_net_etcp_stats(c) ==
    Alone(Fields(c[1], NULL,
        <<<<"network.tcp.attemptfails", "AttemptFails">>,
          <<"network.tcp.estabresets", "EstabResets">>,
          <<"network.tcp.retranssegs", "RetransSegs">>, <<"network.tcp.inerrs", "InErrs">>,
          <<"network.tcp.outrsts", "OutRsts">>>>))
pcp_def_net_udp_metrics ==
    Header(
        Metrics(NULL, "counter", "count", <<60, 14>>,
            <<<<"network.udp.indatagrams", 70>>, <<"network.udp.outdatagrams", 74>>,
              <<"network.udp.noports", 71>>, <<"network.udp.inerrors", 72>>>>),
        {})
pcp_print_net_udp_stats(c) ==
    Alone(Fields(c[1], NULL,
        <<<<"network.udp.indatagrams", "InDatagrams">>,
          <<"network.udp.outdatagrams", "OutDatagrams">>, <<"network.udp.noports", "NoPorts">>,
          <<"network.udp.inerrors", "InErrors">>>>))
pcp_def_net_sock6_metrics ==
    Header(
        Metrics(NULL, "instant", "count", <<60, 73>>,
            <<<<"network.sockstat.tcp6.inuse", 0>>, <<"network.sockstat.udp6.inuse", 1>>,
              <<"network.sockstat.raw6.inuse", 3>>, <<"network.sockstat.frag6.inuse", 4>>>>),
        {})
pcp_print_net_sock6_stats(c) ==
    Alone(Fields(c[1], NULL,
        <<<<"network.sockstat.tcp6.inuse", "tcp6_inuse">>,
          <<"network.sockstat.udp6.inuse", "udp6_inuse">>,
          <<"network.sockstat.raw6.inuse", "raw6_inuse">>,
          <<"network.sockstat.frag6.inuse", "frag6_inuse">>>>))
pcp_def_net_ip6_metrics ==
    Header(
        Metrics(NULL, "counter", "count", <<60, 58>>,
            <<<<"network.ip6.inreceives", 0>>, <<"network.ip6.outforwdatagrams", 9>>,
              <<"network.ip6.indelivers", 8>>, <<"network.ip6.outrequests", 10>>,
              <<"network.ip6.reasmreqds", 14>>, <<"network.ip6.reasmoks", 15>>,
              <<"network.ip6.inmcastpkts", 20>>, <<"network.ip6.outmcastpkts", 21>>,
              <<"network.ip6.fragoks", 17>>, <<"network.ip6.fragcreates", 19>>>>),
        {})
pcp_print_net_ip6_stats(c) ==
    Alone(Fields(c[1], NULL,
        <<<<"network.ip6.inreceives", "InReceives6">>,
          <<"network.ip6.outforwdatagrams", "OutForwDatagrams6">>,
          <<"network.ip6.indelivers", "InDelivers6">>,
          <<"network.ip6.outrequests", "OutRequests6">>,
          <<"network.ip6.reasmreqds", "ReasmReqds6">>, <<"network.ip6.reasmoks", "ReasmOKs6">>,
          <<"network.ip6.inmcastpkts", "InMcastPkts6">>,
          <<"network.ip6.outmcastpkts", "OutMcastPkts6">>, <<"network.ip6.fragoks", "FragOKs6">>,
          <<"network.ip6.fragcreates", "FragCreates6">>>>))
pcp_def_net_eip6_metrics ==
    Header(
        Metrics(NULL, "counter", "count", <<60, 58>>,
            <<<<"network.ip6.inhdrerrors", 1>>, <<"network.ip6.inaddrerrors", 4>>,
              <<"network.ip6.inunknownprotos", 5>>, <<"network.ip6.intoobigerrors", 2>>,
              <<"network.ip6.indiscards", 7>>, <<"network.ip6.outdiscards", 11>>,
              <<"network.ip6.innoroutes", 3>>, <<"network.ip6.outnoroutes", 12>>,
              <<"network.ip6.reasmfails", 16>>, <<"network.ip6.fragfails", 18>>,
              <<"network.ip6.intruncatedpkts", 6>>>>),
        {})
pcp_print_net_eip6_stats(c) ==
    Alone(Fields(c[1], NULL,
        <<<<"network.ip6.inhdrerrors", "InHdrErrors6">>,
          <<"network.ip6.inaddrerrors", "InAddrErrors6">>,
          <<"network.ip6.inunknownprotos", "InUnknownProtos6">>,
          <<"network.ip6.intoobigerrors", "InTooBigErrors6">>,
          <<"network.ip6.indiscards", "InDiscards6">>,
          <<"network.ip6.outdiscards", "OutDiscards6">>,
          <<"network.ip6.innoroutes", "InNoRoutes6">>,
          <<"network.ip6.outnoroutes", "OutNoRoutes6">>,
          <<"network.ip6.reasmfails", "ReasmFails6">>, <<"network.ip6.fragfails", "FragFails6">>,
          <<"network.ip6.intruncatedpkts", "InTruncatedPkts6">>>>))
pcp_def_net_icmp6_metrics ==
    Header(
        Metrics(NULL, "counter", "count", <<60, 58>>,
            <<<<"network.icmp6.inmsgs", 32>>, <<"network.icmp6.outmsgs", 34>>,
              <<"network.icmp6.inechos", 41>>, <<"network.icmp6.inechoreplies", 42>>,
              <<"network.icmp6.outechoreplies", 57>>, <<"network.icmp6.ingroupmembqueries", 43>>,
              <<"network.icmp6.ingroupmembresponses", 44>>,
              <<"network.icmp6.outgroupmembresponses", 59>>,
              <<"network.icmp6.ingroupmembreductions", 45>>,
              <<"network.icmp6.outgroupmembreductions", 60>>,
              <<"network.icmp6.inroutersolicits", 46>>, <<"network.icmp6.outroutersolicits", 61>>,
              <<"network.icmp6.inrouteradvertisements", 47>>,
              <<"network.icmp6.inneighborsolicits", 48>>,
              <<"network.icmp6.outneighborsolicits", 63>>,
              <<"network.icmp6.inneighboradvertisements", 49>>,
              <<"network.icmp6.outneighboradvertisements", 64>>>>),
        {})
pcp_print_net_icmp6_stats(c) ==
    Alone(Fields(c[1], NULL,
        <<<<"network.icmp6.inmsgs", "InMsgs6">>, <<"network.icmp6.outmsgs", "OutMsgs6">>,
          <<"network.icmp6.inechos", "InEchos6">>,
          <<"network.icmp6.inechoreplies", "InEchoReplies6">>,
          <<"network.icmp6.outechoreplies", "OutEchoReplies6">>,
          <<"network.icmp6.ingroupmembqueries", "InGroupMembQueries6">>,
          <<"network.icmp6.ingroupmembresponses", "InGroupMembResponses6">>,
          <<"network.icmp6.outgroupmembresponses", "OutGroupMembResponses6">>,
          <<"network.icmp6.ingroupmembreductions", "InGroupMembReductions6">>,
          <<"network.icmp6.outgroupmembreductions", "OutGroupMembReductions6">>,
          <<"network.icmp6.inroutersolicits", "InRouterSolicits6">>,
          <<"network.icmp6.outroutersolicits", "OutRouterSolicits6">>,
          <<"network.icmp6.inrouteradvertisements", "InRouterAdvertisements6">>,
          <<"network.icmp6.inneighborsolicits", "InNeighborSolicits6">>,
          <<"network.icmp6.outneighborsolicits", "OutNeighborSolicits6">>,
          <<"network.icmp6.inneighboradvertisements", "InNeighborAdvertisements6">>,
          <<"network.icmp6.outneighboradvertisements", "OutNeighborAdvertisements6">>>>))
pcp_def_net_eicmp6_metrics ==
    Header(
        Metrics(NULL, "counter", "count", <<60, 58>>,
            <<<<"network.icmp6.inerrors", 33>>, <<"network.icmp6.indestunreachs", 37>>,
              <<"network.icmp6.outdestunreachs", 52>>, <<"network.icmp6.intimeexcds", 39>>,
              <<"network.icmp6.outtimeexcds", 54>>, <<"network.icmp6.inparmproblems", 40>>,
              <<"network.icmp6.outparmproblems", 55>>, <<"network.icmp6.inredirects", 50>>,
              <<"network.icmp6.outredirects", 65>>, <<"network.icmp6.inpkttoobigs", 38>>,
              <<"network.icmp6.outpkttoobigs", 53>>>>),
        {})
pcp_print_net_eicmp6_stats(c) ==
    Alone(Fields(c[1], NULL,
        <<<<"network.icmp6.inerrors", "InErrors6">>,
          <<"network.icmp6.indestunreachs", "InDestUnreachs6">>,
          <<"network.icmp6.outdestunreachs", "OutDestUnreachs6">>,
          <<"network.icmp6.intimeexcds", "InTimeExcds6">>,
          <<"network.icmp6.outtimeexcds", "OutTimeExcds6">>,
          <<"network.icmp6.inparmproblems", "InParmProblems6">>,
          <<"network.icmp6.outparmproblems", "OutParmProblems6">>,
          <<"network.icmp6.inredirects", "InRedirects6">>,
          <<"network.icmp6.outredirects", "OutRedirects6">>,
          <<"network.icmp6.inpkttoobigs", "InPktTooBigs6">>,
          <<"network.icmp6.outpkttoobigs", "OutPktTooBigs6">>>>))
pcp_def_net_udp6_metrics ==
    Header(
        Metrics(NULL, "counter", "count", <<60, 58>>,
            <<<<"network.udp6.indatagrams", 67>>, <<"network.udp6.outdatagrams", 70>>,
              <<"network.udp6.noports", 68>>, <<"network.udp6.inerrors", 69>>>>),
        {})
pcp_print_net_udp6_stats(c) ==
    Alone(Fields(c[1], NULL,
        <<<<"network.udp6.indatagrams", "InDatagrams6">>,
          <<"network.udp6.outdatagrams", "OutDatagrams6">>,
          <<"network.udp6.noports", "NoPorts6">>, <<"network.udp6.inerrors", "InErrors6">>>>))
pcp_def_huge_metrics ==
    Header(
        Metrics(NULL, "instant", "B", <<60, 1>>,
            <<<<"mem.util.hugepagesTotalBytes", 60>>, <<"mem.util.hugepagesFreeBytes", 61>>,
              <<"mem.util.hugepagesRsvdBytes", 62>>, <<"mem.util.hugepagesSurpBytes", 63>>>>),
        {})
pcp_print_huge_stats(c) ==
    LET Bytes(metric, f) == Put(metric, NULL, Gauge(1024 * c[1][f]))
    IN  Alone({Bytes("mem.util.hugepagesFreeBytes", "frhkb"), Bytes("mem.util.hugepagesTotalBytes", "tlhkb"),
               Bytes("mem.util.hugepagesRsvdBytes", "rsvdhkb"), Bytes("mem.util.hugepagesSurpBytes", "surphkb")})

\* Pressure: the averages of three durations, kept in hundredths, are three
\* instances of a metric.
pcp_def_psicpu_metrics(indom) ==
         Metrics(NULL, "counter", "us", <<60, 83>>,
             <<<<"kernel.all.pressure.cpu.some.total", 1>>>>)
    \cup Metrics(indom, "instant", "none", <<60, 83>>,
             <<<<"kernel.all.pressure.cpu.some.avg", 0>>>>)
pcp_def_psiio_metrics(indom) ==
         Metrics(NULL, "counter", "us", <<60, 85>>,
             <<<<"kernel.all.pressure.io.some.total", 1>>>>)
    \cup Metrics(indom, "instant", "none", <<60, 85>>,
             <<<<"kernel.all.pressure.io.some.avg", 0>>>>)
    \cup Metrics(NULL, "counter", "us", <<60, 85>>,
             <<<<"kernel.all.pressure.io.full.total", 3>>>>)
    \cup Metrics(indom, "instant", "none", <<60, 85>>,
             <<<<"kernel.all.pressure.io.full.avg", 2>>>>)
pcp_def_psimem_metrics(indom) ==
         Metrics(NULL, "counter", "us", <<60, 84>>,
             <<<<"kernel.all.pressure.memory.some.total", 1>>>>)
    \cup Metrics(indom, "instant", "none", <<60, 84>>,
             <<<<"kernel.all.pressure.memory.some.avg", 0>>>>)
    \cup Metrics(NULL, "counter", "us", <<60, 84>>,
             <<<<"kernel.all.pressure.memory.full.total", 3>>>>)
    \cup Metrics(indom, "instant", "none", <<60, 84>>,
             <<<<"kernel.all.pressure.memory.full.avg", 2>>>>)
pcp_def_psi_metrics(n) ==
    Header(CASE n = "psi_cpu" -> pcp_def_psicpu_metrics("pressure")
             [] n = "psi_io" -> pcp_def_psiio_metrics("pressure")
             [] OTHER -> pcp_def_psimem_metrics("pressure"),
           Instances("pressure", {"10 second", "1 minute", "5 minute"}))
Averages(s, metric, aver) ==
    {Put(metric, <<"10 second", "1 minute", "5 minute">>[k], <<s[aver[k]], 100>>) : k \in 1..3}
pcp_print_psicpu_stats(c) ==
    Alone(Averages(c[1], "kernel.all.pressure.cpu.some.avg",
                   <<"some_acpu_10", "some_acpu_60", "some_acpu_300">>)
          \cup Fields(c[1], NULL, <<<<"kernel.all.pressure.cpu.some.total", "some_cpu_total">>>>))
pcp_print_psiio_stats(c) ==
    Alone(Averages(c[1], "kernel.all.pressure.io.some.avg",
                   <<"some_aio_10", "some_aio_60", "some_aio_300">>)
          \cup Averages(c[1], "kernel.all.pressure.io.full.avg",
                        <<"full_aio_10", "full_aio_60", "full_aio_300">>)
          \cup Fields(c[1], NULL, <<<<"kernel.all.pressure.io.some.total", "some_io_total">>,
                                    <<"kernel.all.pressure.io.full.total", "full_io_total">>>>))
pcp_print_psimem_stats(c) ==
    Alone(Averages(c[1], "kernel.all.pressure.memory.some.avg",
                   <<"some_amem_10", "some_amem_60", "some_amem_300">>)
          \cup Averages(c[1], "kernel.all.pressure.memory.full.avg",
                        <<"full_amem_10", "full_amem_60", "full_amem_300">>)
          \cup Fields(c[1], NULL, <<<<"kernel.all.pressure.memory.some.total", "some_mem_total">>,
                                    <<"kernel.all.pressure.memory.full.total", "full_mem_total">>>>))

(***************************************************************************)
(* Devices: the instances are those of the list.                           *)
(***************************************************************************)
pcp_def_disk_metrics(f) ==
    Header(
             Metrics("disk", "counter", "count", <<60, 0>>,
                 <<<<"disk.dev.read", 4>>, <<"disk.dev.write", 5>>, <<"disk.dev.total", 28>>>>)
        \cup Metrics("disk", "counter", "kB", <<60, 0>>,
                 <<<<"disk.dev.total_bytes", 37>>, <<"disk.dev.read_bytes", 38>>,
                   <<"disk.dev.write_bytes", 39>>, <<"disk.dev.discard_bytes", 90>>>>)
        \cup Metrics("disk", "counter", "ms", <<60, 0>>,
                 <<<<"disk.dev.read_rawactive", 72>>, <<"disk.dev.write_rawactive", 73>>,
                   <<"disk.dev.total_rawactive", 79>>, <<"disk.dev.discard_rawactive", 92>>,
                   <<"disk.dev.avactive", 46>>, <<"disk.dev.aveq", 47>>>>),
        Instances("disk", f.list))
\* Sectors are put in kB.
pcp_print_disk_stats(c, x) ==
    ByName(c, [i \in Listed(c, x.sel) |->
        LET s == c[i]
            Of(metric, v) == Put(metric, s.name, Gauge(v))
        IN  {Of("disk.dev.total_bytes", (s.rd_sect + s.wr_sect) \div 2),
             Of("disk.dev.read_bytes", s.rd_sect \div 2), Of("disk.dev.write_bytes", s.wr_sect \div 2),
             Of("disk.dev.discard_bytes", s.dc_sect \div 2),
             Of("disk.dev.total_rawactive", s.rd_ticks + s.wr_ticks)}
            \cup Fields(s, s.name,
                    <<<<"disk.dev.total", "nr_ios">>, <<"disk.dev.read_rawactive", "rd_ticks">>,
                      <<"disk.dev.write_rawactive", "wr_ticks">>,
                      <<"disk.dev.discard_rawactive", "dc_ticks">>,
                      <<"disk.dev.avactive", "tot_ticks">>, <<"disk.dev.aveq", "rq_ticks">>>>)])

pcp_def_net_dev_metrics(n, f) ==
    Header(
        IF n = "net_dev" THEN
                 Metrics("interface", "counter", "count", <<60, 3>>,
                     <<<<"network.interface.in.packets", 1>>, <<"network.interface.out.packets", 9>>,
                       <<"network.interface.in.compressed", 6>>,
                       <<"network.interface.out.compressed", 15>>,
                       <<"network.interface.in.mcasts", 7>>>>)
            \cup Metrics("interface", "counter", "B", <<60, 3>>,
                     <<<<"network.interface.in.bytes", 0>>, <<"network.interface.out.bytes", 8>>>>)
        ELSE
            Metrics("interface", "counter", "count", <<60, 3>>,
                <<<<"network.interface.in.errors", 2>>, <<"network.interface.out.errors", 10>>,
                  <<"network.interface.collisions", 13>>, <<"network.interface.in.drops", 3>>,
                  <<"network.interface.out.drops", 11>>, <<"network.interface.out.carrier", 14>>,
                  <<"network.interface.in.frame", 5>>, <<"network.interface.in.fifo", 4>>,
                  <<"network.interface.out.fifo", 12>>>>),
        Instances("interface", f.list))
pcp_print_net_dev_stats(c, x) ==
    ByName(c, [i \in Listed(c, x.sel) |-> Fields(c[i], c[i].name,
            <<<<"network.interface.in.packets", "rx_packets">>,
              <<"network.interface.out.packets", "tx_packets">>,
              <<"network.interface.in.bytes", "rx_bytes">>,
              <<"network.interface.out.bytes", "tx_bytes">>,
              <<"network.interface.in.compressed", "rx_compressed">>,
              <<"network.interface.out.compressed", "tx_compressed">>,
              <<"network.interface.in.mcasts", "multicast">>>>)])
pcp_print_net_edev_stats(c, x) ==
    ByName(c, [i \in Listed(c, x.sel) |-> Fields(c[i], c[i].name,
            <<<<"network.interface.in.errors", "rx_errors">>,
              <<"network.interface.out.errors", "tx_errors">>,
              <<"network.interface.collisions", "collisions">>,
              <<"network.interface.in.drops", "rx_dropped">>,
              <<"network.interface.out.drops", "tx_dropped">>,
              <<"network.interface.out.carrier", "tx_carrier_errors">>,
              <<"network.interface.in.frame", "rx_frame_errors">>,
              <<"network.interface.in.fifo", "rx_fifo_errors">>,
              <<"network.interface.out.fifo", "tx_fifo_errors">>>>)])

\* As many lines as the header of the file says, numbered from 0, and the
\* values of a line under its number for the kernel.
pcp_def_serial_metrics(f) ==
    Header(
        Metrics("serial", "counter", "none", <<60, 74>>,
            <<<<"tty.serial.rx", 0>>, <<"tty.serial.tx", 1>>, <<"tty.serial.frame", 2>>,
              <<"tty.serial.parity", 3>>, <<"tty.serial.brk", 4>>, <<"tty.serial.overrun", 5>>>>),
        Instances("serial", 0..f.size - 1))
pcp_print_serial_stats(c) ==
    ByName(c, [i \in DOMAIN c |-> Fields(c[i], c[i].line,
            <<<<"tty.serial.rx", "rx">>, <<"tty.serial.tx", "tx">>,
              <<"tty.serial.frame", "frame">>, <<"tty.serial.parity", "parity">>,
              <<"tty.serial.brk", "brk">>, <<"tty.serial.overrun", "overrun">>>>)])

pcp_def_filesystem_metrics(f) ==
    Header(
             Metrics("filesys", "instant", "kB", <<60, 5>>,
                 <<<<"filesys.capacity", 1>>, <<"filesys.free", 3>>, <<"filesys.used", 2>>,
                   <<"filesys.avail", 10>>>>)
        \cup Metrics("filesys", "instant", "none", <<60, 5>>,
                 <<<<"filesys.full", 8>>>>)
        \cup Metrics("filesys", "instant", "count", <<60, 5>>,
                 <<<<"filesys.maxfiles", 4>>, <<"filesys.freefiles", 6>>, <<"filesys.usedfiles", 5>>>>),
        Instances("filesys", f.list))
\* Sizes are put in kB.
pcp_print_filesystem_stats(c, x) ==
    ByName(c, [i \in Listed(c, x.sel) |->
        LET s == c[i]
            Of(metric, v) == Put(metric, s.name, v)
        IN  {Of("filesys.capacity", Gauge(s.f_blocks \div 1024)), Of("filesys.free", Gauge(s.f_bfree \div 1024)),
             Of("filesys.used", Gauge((s.f_blocks - s.f_bfree) \div 1024)),
             Of("filesys.full", Guarded(s.f_blocks, SP_VALUE(s.f_bfree, s.f_blocks, s.f_blocks))),
             Of("filesys.maxfiles", Gauge(s.f_files)), Of("filesys.freefiles", Gauge(s.f_ffree)),
             Of("filesys.usedfiles", Gauge(s.f_files - s.f_ffree)),
             Of("filesys.avail", Gauge(s.f_bavail \div 1024))}])

pcp_def_fchost_metrics(f) ==
    Header(
             Metrics("fchost", "counter", "count", <<60, 91>>,
                 <<<<"fchost.in.frames", 0>>, <<"fchost.out.frames", 1>>>>)
        \cup Metrics("fchost", "counter", "B", <<60, 91>>,
                 <<<<"fchost.in.bytes", 2>>, <<"fchost.out.bytes", 3>>>>),
        Instances("fchost", f.list))
\* Words are put in bytes.
pcp_print_fchost_stats(c) ==
    ByName(c, [i \in DOMAIN c |->
        LET s == c[i]
        IN  {Put("fchost.in.frames", s.name, Gauge(s.f_rxframes)),
             Put("fchost.out.frames", s.name, Gauge(s.f_txframes)),
             Put("fchost.in.bytes", s.name, Gauge(4 * s.f_rxwords)),
             Put("fchost.out.bytes", s.name, Gauge(4 * s.f_txwords))}])

(***************************************************************************)
(* Sensors: the instances of fans, temperatures, voltages and USB devices  *)
(* are the places in the sample.                                           *)
(***************************************************************************)
pcp_def_pwr_fan_metrics(f) ==
    Header(
             Metrics("fan", "instant", "none", <<34, 0>>,
                 <<<<"power.fan.rpm", 0>>, <<"power.fan.drpm", 1>>>>)
        \cup Metrics("fan", "discrete", "none", <<34, 0>>,
                 <<<<"power.fan.device", 2>>>>),
        Instances("fan", 1..f.size))
pcp_print_pwr_fan_stats(c) ==
    ByName(c, [i \in DOMAIN c |->
        {Put("power.fan.rpm", i, Gauge(c[i].rpm)), Put("power.fan.drpm", i, Gauge(c[i].rpm - c[i].rpm_min)),
         Put("power.fan.device", i, Text)}])
pcp_def_pwr_temp_metrics(f) ==
    Header(
             Metrics("temp", "instant", "none", <<34, 1>>,
                 <<<<"power.temp.celsius", 0>>, <<"power.temp.percent", 1>>>>)
        \cup Metrics("temp", "discrete", "none", <<34, 1>>,
                 <<<<"power.temp.device", 2>>>>),
        Instances("temp", 1..f.size))
\* Where a value lies between the limits of a sensor.
Between(s, v, low, high) == Guarded(s[high] - s[low], <<v - s[low], s[high] - s[low]>>)
pcp_print_pwr_temp_stats(c) ==
    ByName(c, [i \in DOMAIN c |->
        {Put("power.temp.celsius", i, Gauge(c[i].temp)),
         Put("power.temp.percent", i, Between(c[i], c[i].temp, "temp_min", "temp_max")),
         Put("power.temp.device", i, Text)}])
pcp_def_pwr_in_metrics(f) ==
    Header(
             Metrics("in", "instant", "none", <<34, 2>>,
                 <<<<"power.in.voltage", 0>>, <<"power.in.percent", 1>>>>)
        \cup Metrics("in", "discrete", "none", <<34, 2>>,
                 <<<<"power.in.device", 2>>>>),
        Instances("in", 0..f.size - 1))
pcp_print_pwr_in_stats(c) ==
    ByName(c, [i \in DOMAIN c |->
        {Put("power.in.voltage", i - 1, Gauge(c[i].in)),
         Put("power.in.percent", i - 1, Between(c[i], c[i].in, "in_min", "in_max")),
         Put("power.in.device", i - 1, Text)}])
pcp_def_pwr_bat_metrics(f) ==
    Header(
             Metrics("bat", "instant", "none", <<34, 4>>,
                 <<<<"power.bat.capacity", 0>>>>)
        \cup Metrics("bat", "discrete", "none", <<34, 4>>,
                 <<<<"power.bat.status", 2>>>>),
        Instances("bat", f.list))
pcp_print_pwr_bat_stats(c) ==
    ByName(c, [i \in DOMAIN c |->
        {Put("power.bat.capacity", c[i].name, Gauge(c[i].capacity)), Put("power.bat.status", c[i].name, Text)}])
pcp_def_pwr_usb_metrics(f) ==
    Header(
        Metrics("usb", "discrete", "none", <<34, 3>>,
            <<<<"power.usb.bus", 0>>, <<"power.usb.vendorId", 1>>, <<"power.usb.productId", 2>>,
              <<"power.usb.maxpower", 3>>, <<"power.usb.manufacturer", 4>>,
              <<"power.usb.productName", 5>>>>),
        Instances("usb", 0..f.size - 1))
pcp_print_pwr_usb_stats(c) ==
    ByName(c, [i \in DOMAIN c |->
        {Put("power.usb.bus", i - 1, Gauge(c[i].bus_nr)), Put("power.usb.vendorId", i - 1, Gauge(c[i].vendor_id)),
         Put("power.usb.productId", i - 1, Gauge(c[i].product_id)),
         Put("power.usb.maxpower", i - 1, Gauge(2 * c[i].bmaxpower)),
         Put("power.usb.manufacturer", i - 1, Text), Put("power.usb.productName", i - 1, Text)}])

(***************************************************************************)
(* The header of the activities selected, in the order of the file, and    *)
(* the values of a record for one of them.                                 *)
(***************************************************************************)
\* Activities without metrics.
NoMetric == {"pwr_wghfreq"}
pcp_def_metrics(n, x, f) ==
    CASE n \in {"cpu", "pwr_cpufreq", "softnet"} -> pcp_def_cpu_metrics(n, x, f)
      [] n = "irq" ->
            LET global == pcp_def_irq_metrics(x, f)
                percpu == pcp_def_cpu_metrics("irq", x, f)
            IN  Header(global.metrics \cup percpu.metrics, global.instances \cup percpu.instances)
      [] n = "memory" -> pcp_def_memory_metrics(x)
      [] n = "queue" -> pcp_def_queue_metrics
      [] n = "serial" -> pcp_def_serial_metrics(f)
      [] n = "disk" -> pcp_def_disk_metrics(f)
      [] n \in {"net_dev", "net_edev"} -> pcp_def_net_dev_metrics(n, f)
      [] n = "pwr_fan" -> pcp_def_pwr_fan_metrics(f)
      [] n = "pwr_temp" -> pcp_def_pwr_temp_metrics(f)
      [] n = "pwr_in" -> pcp_def_pwr_in_metrics(f)
      [] n = "pwr_bat" -> pcp_def_pwr_bat_metrics(f)
      [] n = "pwr_usb" -> pcp_def_pwr_usb_metrics(f)
      [] n = "filesystem" -> pcp_def_filesystem_metrics(f)
      [] n = "fchost" -> pcp_def_fchost_metrics(f)
      [] n \in {"psi_cpu", "psi_io", "psi_mem"} -> pcp_def_psi_metrics(n)
      [] n = "pcsw" -> pcp_def_pcsw_metrics
      [] n = "swap" -> pcp_def_swap_metrics
      [] n = "paging" -> pcp_def_paging_metrics
      [] n = "io" -> pcp_def_io_metrics
      [] n = "ktables" -> pcp_def_ktables_metrics
      [] n = "net_sock" -> pcp_def_net_sock_metrics
      [] n = "net_ip" -> pcp_def_net_ip_metrics
      [] n = "net_eip" -> pcp_def_net_eip_metrics
      [] n = "net_icmp" -> pcp_def_net_icmp_metrics
      [] n = "net_eicmp" -> pcp_def_net_eicmp_metrics
      [] n = "net_tcp" -> pcp_def_net_tcp_metrics
      [] n = "net_etcp" -> pcp_def_net_etcp_metrics
      [] n = "net_udp" -> pcp_def_net_udp_metrics
      [] n = "net_sock6" -> pcp_def_net_sock6_metrics
      [] n = "net_ip6" -> pcp_def_net_ip6_metrics
      [] n = "net_eip6" -> pcp_def_net_eip6_metrics
      [] n = "net_icmp6" -> pcp_def_net_icmp6_metrics
      [] n = "net_eicmp6" -> pcp_def_net_eicmp6_metrics
      [] n = "net_udp6" -> pcp_def_net_udp6_metrics
      [] n = "net_nfs" -> pcp_def_net_nfs_metrics
      [] n = "net_nfsd" -> pcp_def_net_nfsd_metrics
      [] n = "huge" -> pcp_def_huge_metrics
      [] n \in NoMetric -> Header({}, {})
\* The metrics of the header when activities sel are selected.
print_pcp_statistics(sel, x, f) ==
    LET header[k \in 0..Len(act)] ==
            IF k = 0 THEN {}
            ELSE IF act[k] \in sel THEN pmiAddMetrics(header[k - 1], pcp_def_metrics(act[k], x, f).metrics)
            ELSE header[k - 1]
    IN  header[Len(act)]
f_pcp_print(n, p, c, x) ==
    CASE n = "cpu" -> pcp_print_cpu_stats(p, c, x)
      [] n = "irq" -> pcp_print_irq_stats(p, c, x)
      [] n = "softnet" -> pcp_print_softnet_stats(p, c, x)
      [] n = "pwr_cpufreq" -> pcp_print_pwr_cpufreq_stats(c, x)
      [] n = "memory" -> pcp_print_memory_stats(c, x)
      [] n = "disk" -> pcp_print_disk_stats(c, x)
      [] n = "net_dev" -> pcp_print_net_dev_stats(c, x)
      [] n = "net_edev" -> pcp_print_net_edev_stats(c, x)
      [] n = "filesystem" -> pcp_print_filesystem_stats(c, x)
      [] n = "psi_cpu" -> pcp_print_psicpu_stats(c)
      [] n = "psi_io" -> pcp_print_psiio_stats(c)
      [] n = "psi_mem" -> pcp_print_psimem_stats(c)
      [] n = "pcsw" -> pcp_print_pcsw_stats(c)
      [] n = "swap" -> pcp_print_swap_stats(c)
      [] n = "paging" -> pcp_print_paging_stats(c)
      [] n = "io" -> pcp_print_io_stats(c)
      [] n = "ktables" -> pcp_print_ktables_stats(c)
      [] n = "net_sock" -> pcp_print_net_sock_stats(c)
      [] n = "net_ip" -> pcp_print_net_ip_stats(c)
      [] n = "net_eip" -> pcp_print_net_eip_stats(c)
      [] n = "net_icmp" -> pcp_print_net_icmp_stats(c)
      [] n = "net_eicmp" -> pcp_print_net_eicmp_stats(c)
      [] n = "net_tcp" -> pcp_print_net_tcp_stats(c)
      [] n = "net_etcp" -> pcp_print_net_etcp_stats(c)
      [] n = "net_udp" -> pcp_print_net_udp_stats(c)
      [] n = "net_sock6" -> pcp_print_net_sock6_stats(c)
      [] n = "net_ip6" -> pcp_print_net_ip6_stats(c)
      [] n = "net_eip6" -> pcp_print_net_eip6_stats(c)
      [] n = "net_icmp6" -> pcp_print_net_icmp6_stats(c)
      [] n = "net_eicmp6" -> pcp_print_net_eicmp6_stats(c)
      [] n = "net_udp6" -> pcp_print_net_udp6_stats(c)
      [] n = "queue" -> pcp_print_queue_stats(c)
      [] n = "net_nfs" -> pcp_print_net_nfs_stats(c)
      [] n = "net_nfsd" -> pcp_print_net_nfsd_stats(c)
      [] n = "huge" -> pcp_print_huge_stats(c)
      [] n = "serial" -> pcp_print_serial_stats(c)
      [] n = "fchost" -> pcp_print_fchost_stats(c)
      [] n = "pwr_fan" -> pcp_print_pwr_fan_stats(c)
      [] n = "pwr_temp" -> pcp_print_pwr_temp_stats(c)
      [] n = "pwr_in" -> pcp_print_pwr_in_stats(c)
      [] n = "pwr_bat" -> pcp_print_pwr_bat_stats(c)
      [] n = "pwr_usb" -> pcp_print_pwr_usb_stats(c)
      [] n \in NoMetric -> Nothing
=============================================================================
