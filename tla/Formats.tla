------------------------------ MODULE Formats ------------------------------
(***************************************************************************)
(* An activity displayed by sar, and by sadf in its other formats, from    *)
(* the samples of a data file: the lines, the extreme values that sar      *)
(* keeps of them, and the average at the end.                              *)
(*                                                                         *)
(* which is the activity and opts the options of the command.  prev and    *)
(* curr are the samples of the last line, prev as the display of the line  *)
(* before left it in memory.  lines and exact are histories: what has been *)
(* displayed, and whether no counter has decreased (nor has the time of a  *)
(* guest been ahead of the user time).                                     *)
(***************************************************************************)
EXTENDS SarLines, JsonLines, XmlLines, RenderLines, SvgLines, PcpMetrics

VARIABLES
    which, opts,
    first, prev, curr,      \* buf[2], buf[!curr] and buf[curr]
    itv, total,             \* seconds of the last line, and of all of them
    shown, buf2, xdev,      \* what the functions of the activity keep
    spmin, spmax,
    svg,                    \* the graphs of the activity
    average, done,
    lines, exact

sampleVars == <<first, prev, curr, itv, total>>
keptVars == <<shown, buf2, xdev, spmin, spmax, svg>>
lineVars == <<which, opts, sampleVars, keptVars, average, done, lines, exact>>

(***************************************************************************)
(* The functions of activity n.                                            *)
(***************************************************************************)
f_print(n, p, c, x) ==
    CASE n = "cpu" -> print_cpu_stats(p, c, x)
      [] n = "pcsw" -> print_pcsw_stats(p, c, x)
      [] n = "irq" -> print_irq_stats(p, c, x)
      [] n = "swap" -> print_swap_stats(p, c, x)
      [] n = "paging" -> print_paging_stats(p, c, x)
      [] n = "io" -> print_io_stats(p, c, x)
      [] n = "memory" -> print_memory_stats(p, c, x)
      [] n = "huge" -> print_huge_stats(p, c, x)
      [] n = "ktables" -> print_ktables_stats(p, c, x)
      [] n = "queue" -> print_queue_stats(p, c, x)
      [] n = "serial" -> print_serial_stats(p, c, x)
      [] n = "disk" -> print_disk_stats(p, c, x)
      [] n = "net_dev" -> print_net_dev_stats(p, c, x)
      [] n = "net_edev" -> print_net_edev_stats(p, c, x)
      [] n = "net_nfs" -> print_net_nfs_stats(p, c, x)
      [] n = "net_nfsd" -> print_net_nfsd_stats(p, c, x)
      [] n = "net_sock" -> print_net_sock_stats(p, c, x)
      [] n = "net_ip" -> print_net_ip_stats(p, c, x)
      [] n = "net_eip" -> print_net_eip_stats(p, c, x)
      [] n = "net_icmp" -> print_net_icmp_stats(p, c, x)
      [] n = "net_eicmp" -> print_net_eicmp_stats(p, c, x)
      [] n = "net_tcp" -> print_net_tcp_stats(p, c, x)
      [] n = "net_etcp" -> print_net_etcp_stats(p, c, x)
      [] n = "net_udp" -> print_net_udp_stats(p, c, x)
      [] n = "net_sock6" -> print_net_sock6_stats(p, c, x)
      [] n = "net_ip6" -> print_net_ip6_stats(p, c, x)
      [] n = "net_eip6" -> print_net_eip6_stats(p, c, x)
      [] n = "net_icmp6" -> print_net_icmp6_stats(p, c, x)
      [] n = "net_eicmp6" -> print_net_eicmp6_stats(p, c, x)
      [] n = "net_udp6" -> print_net_udp6_stats(p, c, x)
      [] n = "fchost" -> print_fchost_stats(p, c, x)
      [] n = "softnet" -> print_softnet_stats(p, c, x)
      [] n = "pwr_cpufreq" -> print_pwr_cpufreq_stats(p, c, x)
      [] n = "pwr_fan" -> print_pwr_fan_stats(p, c, x)
      [] n = "pwr_temp" -> print_pwr_temp_stats(p, c, x)
      [] n = "pwr_in" -> print_pwr_in_stats(p, c, x)
      [] n = "pwr_wghfreq" -> print_pwr_wghfreq_stats(p, c, x)
      [] n = "pwr_bat" -> print_pwr_bat_stats(p, c, x)
      [] n = "pwr_usb" -> print_pwr_usb_stats(p, c, x)
      [] n = "filesystem" -> print_filesystem_stats(p, c, x)
      [] n = "psi_cpu" -> print_psicpu_stats(p, c, x)
      [] n = "psi_io" -> print_psiio_stats(p, c, x)
      [] n = "psi_mem" -> print_psimem_stats(p, c, x)
f_json_print(n, p, c, x) ==
    CASE n = "cpu" -> json_print_cpu_stats(p, c, x)
      [] n = "pcsw" -> json_print_pcsw_stats(p, c, x)
      [] n = "irq" -> json_print_irq_stats(p, c, x)
      [] n = "swap" -> json_print_swap_stats(p, c, x)
      [] n = "paging" -> json_print_paging_stats(p, c, x)
      [] n = "io" -> json_print_io_stats(p, c, x)
      [] n = "memory" -> json_print_memory_stats(c, x)
      [] n = "huge" -> json_print_huge_stats(c)
      [] n = "ktables" -> json_print_ktables_stats(c)
      [] n = "queue" -> json_print_queue_stats(c)
      [] n = "serial" -> json_print_serial_stats(p, c, x)
      [] n = "disk" -> json_print_disk_stats(p, c, x)
      [] n = "net_dev" -> json_print_net_dev_stats(p, c, x)
      [] n = "net_edev" -> json_print_net_edev_stats(p, c, x)
      [] n = "net_nfs" -> json_print_net_nfs_stats(p, c, x)
      [] n = "net_nfsd" -> json_print_net_nfsd_stats(p, c, x)
      [] n = "net_sock" -> json_print_net_sock_stats(c)
      [] n = "net_ip" -> json_print_net_ip_stats(p, c, x)
      [] n = "net_eip" -> json_print_net_eip_stats(p, c, x)
      [] n = "net_icmp" -> json_print_net_icmp_stats(p, c, x)
      [] n = "net_eicmp" -> json_print_net_eicmp_stats(p, c, x)
      [] n = "net_tcp" -> json_print_net_tcp_stats(p, c, x)
      [] n = "net_etcp" -> json_print_net_etcp_stats(p, c, x)
      [] n = "net_udp" -> json_print_net_udp_stats(p, c, x)
      [] n = "net_sock6" -> json_print_net_sock6_stats(c)
      [] n = "net_ip6" -> json_print_net_ip6_stats(p, c, x)
      [] n = "net_eip6" -> json_print_net_eip6_stats(p, c, x)
      [] n = "net_icmp6" -> json_print_net_icmp6_stats(p, c, x)
      [] n = "net_eicmp6" -> json_print_net_eicmp6_stats(p, c, x)
      [] n = "net_udp6" -> json_print_net_udp6_stats(p, c, x)
      [] n = "fchost" -> json_print_fchost_stats(p, c, x)
      [] n = "softnet" -> json_print_softnet_stats(p, c, x)
      [] n = "pwr_cpufreq" -> json_print_pwr_cpufreq_stats(c, x)
      [] n = "pwr_fan" -> json_print_pwr_fan_stats(c)
      [] n = "pwr_temp" -> json_print_pwr_temp_stats(c)
      [] n = "pwr_in" -> json_print_pwr_in_stats(c)
      [] n = "pwr_wghfreq" -> json_print_pwr_wghfreq_stats(p, c, x)
      [] n = "pwr_bat" -> json_print_pwr_bat_stats(p, c, x)
      [] n = "pwr_usb" -> json_print_pwr_usb_stats(c)
      [] n = "filesystem" -> json_print_filesystem_stats(c, x)
      [] n = "psi_cpu" -> json_print_psicpu_stats(p, c, x)
      [] n = "psi_io" -> json_print_psiio_stats(p, c, x)
      [] n = "psi_mem" -> json_print_psimem_stats(p, c, x)
f_xml_print(n, p, c, x) ==
    CASE n = "cpu" -> xml_print_cpu_stats(p, c, x)
      [] n = "pcsw" -> xml_print_pcsw_stats(p, c, x)
      [] n = "irq" -> xml_print_irq_stats(p, c, x)
      [] n = "swap" -> xml_print_swap_stats(p, c, x)
      [] n = "paging" -> xml_print_paging_stats(p, c, x)
      [] n = "io" -> xml_print_io_stats(p, c, x)
      [] n = "memory" -> xml_print_memory_stats(c, x)
      [] n = "huge" -> xml_print_huge_stats(c)
      [] n = "ktables" -> xml_print_ktables_stats(c)
      [] n = "queue" -> xml_print_queue_stats(c)
      [] n = "serial" -> xml_print_serial_stats(p, c, x)
      [] n = "disk" -> xml_print_disk_stats(p, c, x)
      [] n = "net_dev" -> xml_print_net_dev_stats(p, c, x)
      [] n = "net_edev" -> xml_print_net_edev_stats(p, c, x)
      [] n = "net_nfs" -> xml_print_net_nfs_stats(p, c, x)
      [] n = "net_nfsd" -> xml_print_net_nfsd_stats(p, c, x)
      [] n = "net_sock" -> xml_print_net_sock_stats(c)
      [] n = "net_ip" -> xml_print_net_ip_stats(p, c, x)
      [] n = "net_eip" -> xml_print_net_eip_stats(p, c, x)
      [] n = "net_icmp" -> xml_print_net_icmp_stats(p, c, x)
      [] n = "net_eicmp" -> xml_print_net_eicmp_stats(p, c, x)
      [] n = "net_tcp" -> xml_print_net_tcp_stats(p, c, x)
      [] n = "net_etcp" -> xml_print_net_etcp_stats(p, c, x)
      [] n = "net_udp" -> xml_print_net_udp_stats(p, c, x)
      [] n = "net_sock6" -> xml_print_net_sock6_stats(c)
      [] n = "net_ip6" -> xml_print_net_ip6_stats(p, c, x)
      [] n = "net_eip6" -> xml_print_net_eip6_stats(p, c, x)
      [] n = "net_icmp6" -> xml_print_net_icmp6_stats(p, c, x)
      [] n = "net_eicmp6" -> xml_print_net_eicmp6_stats(p, c, x)
      [] n = "net_udp6" -> xml_print_net_udp6_stats(p, c, x)
      [] n = "fchost" -> xml_print_fchost_stats(p, c, x)
      [] n = "softnet" -> xml_print_softnet_stats(p, c, x)
      [] n = "pwr_cpufreq" -> xml_print_pwr_cpufreq_stats(c, x)
      [] n = "pwr_fan" -> xml_print_pwr_fan_stats(c)
      [] n = "pwr_temp" -> xml_print_pwr_temp_stats(c)
      [] n = "pwr_in" -> xml_print_pwr_in_stats(c)
      [] n = "pwr_wghfreq" -> xml_print_pwr_wghfreq_stats(p, c, x)
      [] n = "pwr_bat" -> xml_print_pwr_bat_stats(p, c, x)
      [] n = "pwr_usb" -> xml_print_pwr_usb_stats(c)
      [] n = "filesystem" -> xml_print_filesystem_stats(c, x)
      [] n = "psi_cpu" -> xml_print_psicpu_stats(p, c, x)
      [] n = "psi_io" -> xml_print_psiio_stats(p, c, x)
      [] n = "psi_mem" -> xml_print_psimem_stats(p, c, x)
f_render(n, p, c, x) ==
    CASE n = "cpu" -> render_cpu_stats(p, c, x)
      [] n = "pcsw" -> render_pcsw_stats(p, c, x)
      [] n = "irq" -> render_irq_stats(p, c, x)
      [] n = "swap" -> render_swap_stats(p, c, x)
      [] n = "paging" -> render_paging_stats(p, c, x)
      [] n = "io" -> render_io_stats(p, c, x)
      [] n = "memory" -> render_memory_stats(c, x)
      [] n = "huge" -> render_huge_stats(c)
      [] n = "ktables" -> render_ktables_stats(c)
      [] n = "queue" -> render_queue_stats(c)
      [] n = "serial" -> render_serial_stats(p, c, x)
      [] n = "disk" -> render_disk_stats(p, c, x)
      [] n = "net_dev" -> render_net_dev_stats(p, c, x)
      [] n = "net_edev" -> render_net_edev_stats(p, c, x)
      [] n = "net_nfs" -> render_net_nfs_stats(p, c, x)
      [] n = "net_nfsd" -> render_net_nfsd_stats(p, c, x)
      [] n = "net_sock" -> render_net_sock_stats(c)
      [] n = "net_ip" -> render_net_ip_stats(p, c, x)
      [] n = "net_eip" -> render_net_eip_stats(p, c, x)
      [] n = "net_icmp" -> render_net_icmp_stats(p, c, x)
      [] n = "net_eicmp" -> render_net_eicmp_stats(p, c, x)
      [] n = "net_tcp" -> render_net_tcp_stats(p, c, x)
      [] n = "net_etcp" -> render_net_etcp_stats(p, c, x)
      [] n = "net_udp" -> render_net_udp_stats(p, c, x)
      [] n = "net_sock6" -> render_net_sock6_stats(c)
      [] n = "net_ip6" -> render_net_ip6_stats(p, c, x)
      [] n = "net_eip6" -> render_net_eip6_stats(p, c, x)
      [] n = "net_icmp6" -> render_net_icmp6_stats(p, c, x)
      [] n = "net_eicmp6" -> render_net_eicmp6_stats(p, c, x)
      [] n = "net_udp6" -> render_net_udp6_stats(p, c, x)
      [] n = "fchost" -> render_fchost_stats(p, c, x)
      [] n = "softnet" -> render_softnet_stats(p, c, x)
      [] n = "pwr_cpufreq" -> render_pwr_cpufreq_stats(c, x)
      [] n = "pwr_fan" -> render_pwr_fan_stats(c)
      [] n = "pwr_temp" -> render_pwr_temp_stats(c)
      [] n = "pwr_in" -> render_pwr_in_stats(c)
      [] n = "pwr_wghfreq" -> render_pwr_wghfreq_stats(p, c, x)
      [] n = "pwr_bat" -> render_pwr_bat_stats(p, c, x)
      [] n = "pwr_usb" -> render_pwr_usb_stats(c)
      [] n = "filesystem" -> render_filesystem_stats(c, x)
      [] n = "psi_cpu" -> render_psicpu_stats(p, c, x)
      [] n = "psi_io" -> render_psiio_stats(p, c, x)
      [] n = "psi_mem" -> render_psimem_stats(p, c, x)
f_svg_print(n, p, c, x) ==
    CASE n = "cpu" -> svg_print_cpu_stats(p, c, x)
      [] n = "pcsw" -> svg_print_pcsw_stats(p, c, x)
      [] n = "swap" -> svg_print_swap_stats(p, c, x)
      [] n = "paging" -> svg_print_paging_stats(p, c, x)
      [] n = "io" -> svg_print_io_stats(p, c, x)
      [] n = "memory" -> svg_print_memory_stats(p, c, x)
      [] n = "huge" -> svg_print_huge_stats(p, c, x)
      [] n = "ktables" -> svg_print_ktables_stats(p, c, x)
      [] n = "queue" -> svg_print_queue_stats(p, c, x)
      [] n = "disk" -> svg_print_disk_stats(p, c, x)
      [] n = "net_dev" -> svg_print_net_dev_stats(p, c, x)
      [] n = "net_edev" -> svg_print_net_edev_stats(p, c, x)
      [] n = "net_nfs" -> svg_print_net_nfs_stats(p, c, x)
      [] n = "net_nfsd" -> svg_print_net_nfsd_stats(p, c, x)
      [] n = "net_sock" -> svg_print_net_sock_stats(p, c, x)
      [] n = "net_ip" -> svg_print_net_ip_stats(p, c, x)
      [] n = "net_eip" -> svg_print_net_eip_stats(p, c, x)
      [] n = "net_icmp" -> svg_print_net_icmp_stats(p, c, x)
      [] n = "net_eicmp" -> svg_print_net_eicmp_stats(p, c, x)
      [] n = "net_tcp" -> svg_print_net_tcp_stats(p, c, x)
      [] n = "net_etcp" -> svg_print_net_etcp_stats(p, c, x)
      [] n = "net_udp" -> svg_print_net_udp_stats(p, c, x)
      [] n = "net_sock6" -> svg_print_net_sock6_stats(p, c, x)
      [] n = "net_ip6" -> svg_print_net_ip6_stats(p, c, x)
      [] n = "net_eip6" -> svg_print_net_eip6_stats(p, c, x)
      [] n = "net_icmp6" -> svg_print_net_icmp6_stats(p, c, x)
      [] n = "net_eicmp6" -> svg_print_net_eicmp6_stats(p, c, x)
      [] n = "net_udp6" -> svg_print_net_udp6_stats(p, c, x)
      [] n = "fchost" -> svg_print_fchost_stats(p, c, x)
      [] n = "softnet" -> svg_print_softnet_stats(p, c, x)
      [] n = "pwr_cpufreq" -> svg_print_pwr_cpufreq_stats(p, c, x)
      [] n = "pwr_fan" -> svg_print_pwr_fan_stats(p, c, x)
      [] n = "pwr_temp" -> svg_print_pwr_temp_stats(p, c, x)
      [] n = "pwr_in" -> svg_print_pwr_in_stats(p, c, x)
      [] n = "pwr_bat" -> svg_print_pwr_bat_stats(p, c, x)
      [] n = "filesystem" -> svg_print_filesystem_stats(p, c, x)
      [] n = "psi_cpu" -> svg_print_psicpu_stats(p, c, x)
      [] n = "psi_io" -> svg_print_psiio_stats(p, c, x)
      [] n = "psi_mem" -> svg_print_psimem_stats(p, c, x)
\* Activities without graphs.
NoGraph == {"irq", "serial", "pwr_wghfreq", "pwr_usb"}

\* The columns of sar's line: those of an option, and those of hdr_line.
print_hdr_line(n, x) ==
    CASE n = "cpu" -> IF x.full THEN cpu_act.all ELSE cpu_act.def
      [] n = "memory" ->
            (IF "ram" \in x.mem
             THEN memory_act.ram \o (IF x.full THEN memory_act.ramall ELSE <<>>) ELSE <<>>)
            \o (IF "swap" \in x.mem THEN memory_act.swap ELSE <<>>)
      [] OTHER -> activity[n].hdr_line

\* The places of the extreme values of an item, for each of its columns.
xstats(n, m, x) ==
    CASE n = "cpu" -> print_cpu_xstats(x.full)
      [] n = "irq" ->
            print_irq_xstats(curr, {k \in DOMAIN curr : curr[k].name \in DOMAIN average[m].line},
                             CHOOSE k \in DOMAIN curr[1].irq_name : curr[1].irq_name[k] = m)
      [] n = "memory" ->
            (IF "ram" \in x.mem THEN print_ram_memory_xstats(x.full) ELSE <<>>)
            \o (IF "swap" \in x.mem THEN print_swap_memory_xstats ELSE <<>>)
      [] n = "queue" -> print_queue_xstats
      [] n = "serial" -> print_serial_xstats
      [] n = "disk" -> print_disk_xstats
      [] n = "net_dev" -> print_net_dev_xstats
      [] n = "net_edev" -> print_net_edev_xstats
      [] n = "pwr_cpufreq" -> print_pwr_cpufreq_xstats
      [] n = "pwr_fan" -> print_pwr_fan_xstats
      [] n \in {"pwr_temp", "pwr_in"} -> print_pwr_sensor_xstats
      [] n = "huge" -> print_huge_xstats
      [] n = "pwr_wghfreq" -> print_pwr_wghfreq_xstats
      [] n = "pwr_usb" -> <<>>
      [] n = "filesystem" -> print_filesystem_xstats
      [] n = "fchost" -> print_fchost_xstats
      [] n = "softnet" -> print_softnet_xstats
      [] n \in {"psi_cpu", "psi_io", "psi_mem"} -> print_psi_xstats(activity[n].xnr)
      [] n = "pwr_bat" -> print_pwr_bat_xstats
      [] n \in {"ktables", "net_sock", "net_sock6"} -> print_genu64_xstats(activity[n].xnr)
      [] OTHER -> print_genf_xstats(activity[n].xnr)

\* What the display of c leaves in its place: processors that are offline
\* keep the counters they had.
Left(n, p, c, x) ==
    CASE c = <<>> \/ p = <<>> -> c
      [] n = "cpu" -> CpuSamples(p, c, x.sel).c
      [] n = "irq" -> get_global_int_statistics(p, c, x.sel).c
      [] n = "softnet" -> get_global_soft_statistics(p, c).c
      [] OTHER -> c

(***************************************************************************)
(* The extreme values.                                                     *)
(***************************************************************************)
\* Items of c that have a line.
Lined(c, items) == {i \in DOMAIN c : c[i].name \in DOMAIN items}

\* The values saved by a line, by place.
Saved(items) ==
    LET OfItem(m) == [k \in {items[m].base + q : q \in DOMAIN items[m].saved} |->
                        items[m].saved[k - items[m].base]]
    IN  FoldSet(LAMBDA m, v : OfItem(m) @@ v, << >>, DOMAIN items)

\* Values v saved in sp; what is not a number is never less nor greater.
save_minmax(sp, v, ismax) ==
    LET Better(k) == IF k \notin DOMAIN sp THEN IsNumber(v[k])
                     ELSE IF ismax THEN Less(sp[k], v[k]) ELSE Less(v[k], sp[k])
        better == {k \in DOMAIN v : Better(k)}
    IN  [k \in better \cup DOMAIN sp |-> IF k \in better THEN v[k] ELSE sp[k]]

\* No value has been saved yet, and no device is in the list.
init_extrema_values == spmin = << >> /\ spmax = << >> /\ xdev = <<>>

(***************************************************************************)
(* The graphs: the points of the curves, with the numbers of their samples *)
(* (at), by place in out; where the items have theirs (place, in out and   *)
(* in spmin); the values saved for the captions; the items of the list,    *)
(* and those plotted the last time (seen), if there was one (ran).         *)
(***************************************************************************)
allocate_graph_lines ==
    [curve |-> << >>, place |-> << >>, spmin |-> << >>, spmax |-> << >>, xdev |-> <<>>,
     seen |-> {}, ran |-> FALSE]
At(points, at) == [q \in DOMAIN points |-> points[q] @@ [at |-> at]]
\* The plots of sample number at, from c, are added to graphs g.
gen_curr_act_svg_code(g, plot, c, at) ==
    LET Arrays(m) == [k \in {plot[m].pos + o : o \in DOMAIN plot[m].curve} |->
                        At(plot[m].curve[k - plot[m].pos], at)]
        new == FoldSet(LAMBDA m, v : Arrays(m) @@ v, << >>, DOMAIN plot)
        Old(k) == IF k \in DOMAIN g.curve THEN g.curve[k] ELSE <<>>
        saved == Saved([m \in DOMAIN plot |-> [base |-> plot[m].posp, saved |-> plot[m].saved]])
    IN  [curve |-> [k \in DOMAIN new |-> Old(k) \o new[k]] @@ g.curve,
         place |-> [m \in DOMAIN plot |-> <<plot[m].pos, plot[m].posp>>] @@ g.place,
         spmin |-> save_minmax(g.spmin, saved, FALSE),
         spmax |-> save_minmax(g.spmax, saved, TRUE),
         xdev |-> Devices(g, c, Lined(c, plot)),
         seen |-> DOMAIN plot, ran |-> TRUE]
\* Whether the graph of item m is drawn: those of processors that were offline
\* all along and of devices that were never plotted are not.
draw_activity_graphs(n, g, m) ==
    LET pos == g.place[m][1]
        posp == g.place[m][2]
    IN  CASE n \in {"cpu", "softnet"} -> pos = 0 \/ posp \in DOMAIN g.spmin
          [] n = "pwr_cpufreq" -> pos = 0 \/ g.spmax[posp][1] # 0
          [] n \in {"disk", "net_dev", "net_edev", "fchost", "filesystem"} -> g.curve[pos] # <<>>
          [] OTHER -> TRUE

(***************************************************************************)
(* Behaviour.                                                              *)
(***************************************************************************)
\* The options of a display, of an average or not, over t seconds.
Display(avg, t) ==
    opts @@ [itv |-> t, avg |-> avg, shown |-> shown, buf2 |-> buf2, xdev |-> xdev]
\* The parameters of the graphs, and what their functions keep.
svg_parm(t) ==
    opts @@ [itv |-> t, avg |-> FALSE, restart |-> lines = <<>>, xdev |-> svg.xdev,
             seen |-> svg.seen, ran |-> svg.ran]

\* Sample c with zeros in place of the items that have no line: what the
\* averages of gauges are made of.
LinedOnly(c, items) ==
    [i \in DOMAIN c |-> IF c[i].name \in DOMAIN items \/ items = Nothing \/ Len(c) = 1
                        THEN c[i] ELSE ZeroOf(c[i])]

Init(n, o, c) ==
    /\ which = n /\ opts = o
    /\ first = c /\ curr = c /\ prev = <<>>
    /\ itv = 0 /\ total = 0
    /\ shown = <<>> /\ buf2 = <<>>
    /\ init_extrema_values
    /\ svg = allocate_graph_lines
    /\ average = Nothing /\ done = FALSE
    /\ lines = <<>> /\ exact = TRUE

\* Activities that display the values of the last sample.
Gauged ==
    {"memory", "huge", "ktables", "queue", "net_sock", "net_sock6", "pwr_cpufreq", "pwr_fan",
     "pwr_temp", "pwr_in", "pwr_wghfreq", "pwr_bat", "pwr_usb", "filesystem", "psi_cpu", "psi_io",
     "psi_mem"}
Fell(d, s) ==
    IF which = "irq" THEN \E k \in DOMAIN s.irq_nr : s.irq_nr[k] < d.irq_nr[k]
    ELSE \E f \in Range(activity[which].fields) : s[f] < d[f]
Decreased(p, c) ==
    /\ which \notin Gauged
    /\ \E i \in DOMAIN c, j \in DOMAIN p : c[i].name = p[j].name /\ Fell(p[j], c[i])
\* The time of a guest is accounted before that of the user who runs it.
GuestAhead(p, c) ==
    /\ which = "cpu"
    /\ \E i \in 2..Len(c) : c[i].cpu_user - c[i].cpu_guest < p[i].cpu_user - p[i].cpu_guest

\* The display of items from samples p and c, which becomes left.
Displayed(p, c, left, t, items) ==
    /\ ~done
    /\ prev' = p /\ curr' = c
    /\ itv' = t /\ total' = total + t
    /\ lines' = Append(lines, [m \in DOMAIN items |-> items[m].line])
    /\ spmin' = save_minmax(spmin, Saved(items), FALSE)
    /\ spmax' = save_minmax(spmax, Saved(items), TRUE)
    /\ shown' = Append(shown, LinedOnly(left, items))
    /\ xdev' = Devices([xdev |-> xdev], c, Lined(c, items))
    /\ buf2' = CASE which = "filesystem" -> filesystem_summary(buf2, c, Lined(c, items))
                 [] which = "pwr_usb" -> usb_summary(buf2, c)
                 [] OTHER -> buf2
    /\ svg' = IF c = <<>> \/ which \in NoGraph THEN svg
              ELSE gen_curr_act_svg_code(svg, f_svg_print(which, p, c, svg_parm(t)).plot, c,
                                         Len(lines) + 1)
    /\ exact' = (exact /\ ~Decreased(p, left) /\ ~GuestAhead(p, left))
    /\ UNCHANGED <<which, opts, first, average, done>>
\* write_stats(): a line for sample c, t seconds after the last one.
write_stats(c, t) ==
    LET p == Left(which, prev, curr, opts)
    IN  Displayed(p, c, Left(which, p, c, opts), t,
                  IF c = <<>> THEN Nothing ELSE f_print(which, p, c, Display(FALSE, t)))

\* Mutant of write_stats_avg: from the sample before the last line.
MutWriteStatsAvg ==
    LET c == Left(which, prev, curr, opts)
    IN  /\ ~done /\ lines # <<>>
        /\ done' = TRUE
        /\ average' = IF c = <<>> THEN Nothing ELSE f_print(which, prev, c, Display(TRUE, total))
        /\ UNCHANGED <<which, opts, sampleVars, keptVars, lines, exact>>
\* write_stats_avg(): from the sample before the first line to the last one.
write_stats_avg ==
    LET c == Left(which, prev, curr, opts)
    IN  /\ ~done /\ lines # <<>>
        /\ done' = TRUE
        /\ average' = IF c = <<>> THEN Nothing ELSE f_print(which, first, c, Display(TRUE, total))
        /\ UNCHANGED <<which, opts, sampleVars, keptVars, lines, exact>>

(***************************************************************************)
(* Properties.                                                             *)
(***************************************************************************)
\* Processors whose frequency is unknown have no line but in XML and JSON.
Lineless ==
    IF which = "pwr_cpufreq" THEN {curr[i].name : i \in {k \in DOMAIN curr : curr[k].cpufreq = 0}}
    ELSE {}
SameLine(v, w) == DOMAIN v = DOMAIN w /\ \A k \in DOMAIN v : Same(v[k], w[k])

\* The column of sar under a label of sadf -d: the same word, but for the shared
\* memory, which is kbshmem in the other formats.
Labelled(label) == IF label = "kbshared" THEN "kbshmem" ELSE label
\* Four displays of a sample, and the columns of sar.
Agree(sar, json, xml, rndr, hdr) ==
    LET named == {m \in DOMAIN sar : DOMAIN sar[m] # {}}
    IN  /\ DOMAIN xml = DOMAIN json
        /\ DOMAIN rndr = DOMAIN json \ Lineless
        /\ IF opts.omit THEN named \subseteq DOMAIN rndr ELSE named = DOMAIN rndr
        /\ \A m \in DOMAIN json : SameLine(xml[m], json[m])
        /\ \A m \in DOMAIN rndr :
              /\ which = "irq" \/ [k \in DOMAIN rndr[m] |-> Labelled(rndr[m][k][1])] = hdr
              /\ \A k \in DOMAIN rndr[m] : Same(rndr[m][k][2], json[m][Labelled(rndr[m][k][1])])
        /\ \A m \in named :
              IF which = "irq" THEN SameLine(sar[m], json[m])
              ELSE \A k \in DOMAIN sar[m] : Same(sar[m][k], json[m][hdr[k]])

\* Whether the line number j displayed has a value in column k of item m.
HasValue(j, m, k) == j \in DOMAIN lines /\ m \in DOMAIN lines[j] /\ k \in DOMAIN lines[j][m]

\* The column of sar whose values are those of a curve, and in which unit.
InMB ==
    [MBmemfree |-> "kbmemfree", MBavail |-> "kbavail", MBmemused |-> "kbmemused",
     MBbuffers |-> "kbbuffers", MBcached |-> "kbcached", MBshared |-> "kbshmem",
     MBcommit |-> "kbcommit", MBactive |-> "kbactive", MBinact |-> "kbinact",
     MBdirty |-> "kbdirty", MBanonpg |-> "kbanonpg", MBslab |-> "kbslab", MBkstack |-> "kbkstack",
     MBpgtbl |-> "kbpgtbl", MBvmused |-> "kbvmused", MBswpfree |-> "kbswpfree",
     MBswpused |-> "kbswpused", MBswpcad |-> "kbswpcad"]
InThousands == [Ifree_1000 |-> "Ifree", Iused_1000 |-> "Iused"]
ColumnOf(t) == IF t \in DOMAIN (InMB @@ InThousands) THEN (InMB @@ InThousands)[t] ELSE t
Unit(t) == IF t \in DOMAIN InMB THEN 1024 ELSE IF t \in DOMAIN InThousands THEN 1000 ELSE 1

\* The points of a curve are the values of column k of item m, in unit u: bars
\* stop at 100%, and there is none for zero.  A line goes from sample to
\* sample, and is not broken for a device that was in both.
CurveAgrees(points, m, k, u) ==
    LET Value(j) == Scaled(lines[j][m][k], u)
        Here(j) == SelectSeq(points, LAMBDA q : q.at = j)
        Reaches(v, j) == \/ Same(v, Value(j))
                         \/ Less(v, Value(j)) /\ (v \in {Fraction, Percent} \/ (which = "cpu" /\ ~exact))
        PointsOf(here, j) ==
            IF here = <<>>
            THEN Value(j)[1] = 0 /\ \A q \in DOMAIN points : points[q].kind = "B"
            ELSE /\ IF here[1].kind = "B" THEN Reaches(here[1].v, j) ELSE Same(here[Len(here)].v, Value(j))
                 /\ HasValue(j - 1, m, k) /\ here[1].kind # "B" =>
                        /\ exact => here[1].kind = "L"
                        /\ \A q \in 1..Len(here) - 1 : Same(here[q].v, Value(j - 1))
    IN  /\ \A j \in DOMAIN lines : HasValue(j, m, k) => PointsOf(Here(j), j)
        /\ \A q \in DOMAIN points :
                points[q].kind = "L" => q > 1 /\ points[q - 1].at >= points[q].at - 1
GraphsAgree(end, hdr) ==
    \A m \in UNION {{n \in DOMAIN lines[j] : DOMAIN lines[j][n] # {}} : j \in DOMAIN lines} :
        /\ m \in DOMAIN svg.place /\ draw_activity_graphs(which, svg, m)
        /\ \A o \in DOMAIN end.title, k \in DOMAIN hdr :
                hdr[k] = ColumnOf(end.title[o]) =>
                    CurveAgrees(svg.curve[svg.place[m][1] + o], m, k, Unit(end.title[o]))

(***************************************************************************)
(* The archive of sadf -l.                                                 *)
(***************************************************************************)
\* What was found in a file with the first sample and the last one.
Found ==
    LET names == {s.name : s \in Range(first) \cup Range(curr)}
    IN  [list |-> IF opts.sel = {} THEN names ELSE names \cap opts.sel, cpus |-> names,
         size |-> Max({Len(first), Len(curr)}),
         irqs |-> IF which # "irq" THEN {}
                  ELSE {m \in Range(curr[1].irq_name) : opts.items = {} \/ m \in opts.items}]
\* The metrics of a file with all the activities.
AllMetrics ==
    print_pcp_statistics(Range(act), [sel |-> {}, full |-> TRUE, mem |-> {"ram", "swap"}, items |-> {}],
                         [list |-> {}, size |-> 0, irqs |-> {"sum", "i1"}, cpus |-> {"all", "c0"}])
\* Metrics that are not in the archive: they have the number of another one.
Clashing == {"disk.all.write", "network.icmp.inredirects"}
\* What the code puts in vain: two metrics of a processor without a tick, whose
\* names are not those of the header, and serial lines beyond their number.
Refused(put) ==
    \/ put.metric \in {"kernel.percpu.cpu.hardirq", "kernel.percpu.cpu.softirq"}
    \/ which = "serial" /\ put.inst >= Found.size

\* What a unit of a column of sar amounts to, in bytes or in microseconds of a
\* second: blocks of 512 bytes, words of 4, hundredths of a second, ...
Amount(column) ==
    CASE column \in {"MBfsfree", "MBfsused"} -> 1024 * 1024
      [] column \in {"kbmemfree", "kbavail", "kbmemused", "kbbuffers", "kbcached", "kbcommit", "kbactive",
                     "kbinact", "kbdirty", "kbshmem", "kbanonpg", "kbslab", "kbkstack", "kbpgtbl", "kbvmused",
                     "kbswpfree", "kbswpcad", "kbhugfree", "kbhugrsvd", "kbhugsurp", "rkB", "wkB", "dkB",
                     "rxkB", "txkB", "pgpgin", "pgpgout"} -> 1024
      [] column \in {"bread", "bwrtn", "bdscd"} -> 512
      [] column \in {"fch_rxw", "fch_txw"} -> 4
      [] column = "aqu_sz" -> 1000 * 1000
      [] column \in {"pct_util", "pct_scpu", "pct_sio", "pct_fio", "pct_smem", "pct_fmem"} -> 10 * 1000
      [] OTHER -> 1
\* What a unit of a metric amounts to.
Each == ("B" :> 1 @@ "kB" :> 1024 @@ "MB" :> 1024 * 1024 @@ "us" :> 1 @@ "ms" :> 1000
         @@ "/us" :> 1 @@ "count" :> 1 @@ "none" :> 1)
\* Metrics whose values are not in the unit of their definition: sectors where
\* it has kB (pcp_stats.c, pcp_print_io_stats()), and kB where it has a count.
InSectors == {"disk.all.read_bytes", "disk.all.write_bytes", "disk.all.discard_bytes"}
UncountedKB == {"mem.vmstat.pgpgin", "mem.vmstat.pgpgout"}
AmountOf(d) == IF d.name \in InSectors THEN 512 ELSE IF d.name \in UncountedKB THEN 1024 ELSE Each[d.units]
\* Value v of a column, in the unit of a metric of which a unit amounts to a.
Converted(v, column, a) ==
    LET b == Amount(column)
    IN  IF b >= a THEN <<v[1] * (b \div a), v[2]>> ELSE <<v[1], v[2] * (a \div b)>>
\* Sizes of which the remainder is lost.
WholeKB == {"filesys.free", "filesys.used", "filesys.avail"}
\* The columns that are made of several fields, or that are no numbers, and a
\* gauge that is declared a counter.
Derived ==
    {"pct_memused", "pct_commit", "kbswpused", "pct_swpused", "pct_swpcad", "kbhugused", "pct_hugused", "areq_sz",
     "await", "pct_ifutil", "pct_ufsused", "pct_Iused", "cap_min", "status", "blg_len"}
\* Value v of column k of item m is a metric, or what a counter has grown in a
\* second, but for the rounding of what is put; column is the name of k.
Holds(puts, old, defined, m, k, column, v) ==
    \E put \in puts :
        LET was == {d \in old : d.metric = put.metric /\ d.inst = put.inst}
            before == IF was = {} THEN 0 ELSE (CHOOSE d \in was : TRUE).v[1]
            Near(x, y) == Less(x, <<y[1] + y[2], y[2]>>) /\ Less(y, <<x[1] + x[2], x[2]>>)
            scaled == Converted(v, column, AmountOf(defined[put.metric]))
        IN  /\ IF put.metric = "kernel.percpu.interrupts" THEN put.inst = <<m, k>> ELSE which # "irq" \/ k = "all"
            /\ IF defined[put.metric].sem = "counter"
               THEN Near(<<scaled[1] * itv, scaled[2]>>, Gauge(put.v[1] - before))
               ELSE Same(scaled, put.v) \/ (put.metric \in WholeKB /\ Near(scaled, put.v))
\* What is put in the archive for a sample is accepted, and the values of sar
\* are those of its metrics, old being what was put for the sample before.
ArchiveAgrees(sar, archive, old, hdr) ==
    LET header == pcp_def_metrics(which, opts, Found)
        names == {d.name : d \in header.metrics}
        defined == [n \in names |-> CHOOSE d \in header.metrics : d.name = n]
        named == {m \in DOMAIN sar : DOMAIN sar[m] # {}}
    IN  /\ \A m \in DOMAIN archive : \A put \in archive[m] : Refused(put) \/ pmiPutValue(header, put)
        /\ named \subseteq DOMAIN archive \cup (IF which \in {"softnet", "pwr_cpufreq"} THEN {"all"} ELSE {})
        /\ exact /\ which # "cpu" =>
            \A m \in named \cap DOMAIN archive : \A k \in DOMAIN sar[m] :
                \/ which # "irq" /\ hdr[k] \in Derived
                \/ Holds(archive[m], IF m \in DOMAIN old THEN old[m] ELSE {}, defined, m, k,
                         IF which = "irq" THEN "-" ELSE hdr[k], sar[m][k])

\* The four displays of a sample by sar, sadf -j, sadf -x and sadf -d (or -p)
\* have the same items (interrupts, devices, processors), with the same values,
\* which are numbers.  A member of JSON or XML is known here by the column of sar
\* it stands for; the labels of sadf -d are those columns, in their order, but
\* for one (Labelled).  At the end, the curves of sadf -g go through the values
\* that sar displays under their titles, for the items that sar displays, and a
\* line does not jump over the samples where a device was missing.  The archive
\* of sadf -l has values for every item that sar displays, under metrics and
\* instances that its header defines once; what sar displays in a column is, in
\* the units that the header declares, the value of a metric of the item, or
\* what it grew from a sample to the next for a counter, but for the metrics
\* that are put in another unit than theirs (InSectors, UncountedKB), the columns
\* made of several metrics (Derived) and the percentages of a processor.  The
\* code has six functions for that, for each activity, and a seventh for the
\* metrics of the header.
FormatsAgree ==
    /\ lines = <<>> /\ curr # <<>> =>
        LET metrics == pcp_def_metrics(which, opts, Found).metrics
        IN  \A d \in metrics :
                /\ d \in AllMetrics \/ d.name \in Clashing
                /\ \A e \in metrics : d.id = e.id => d = e
    /\ lines # <<>> /\ ~done /\ curr # <<>> =>
        LET x == Display(FALSE, itv)
        IN  /\ Agree(lines[Len(lines)], f_json_print(which, prev, curr, x), f_xml_print(which, prev, curr, x),
                     f_render(which, prev, curr, x), print_hdr_line(which, opts))
            /\ which \notin NoMetric =>
                ArchiveAgrees(lines[Len(lines)], f_pcp_print(which, prev, curr, x), f_pcp_print(which, prev, prev, x),
                              print_hdr_line(which, opts))
    /\ done /\ which \notin NoGraph =>
        GraphsAgree(f_svg_print(which, prev, curr, svg_parm(1)), print_hdr_line(which, opts))

\* The values of column k of item m in the lines displayed.
Column(m, k) ==
    {lines[j][m][k] : j \in {i \in DOMAIN lines : m \in DOMAIN lines[i] /\ k \in DOMAIN lines[i][m]}}
NoLess(v, w) == ~Less(v, w)

\* The line of a processor that was idle without a tick.
AllIdle(line) == \A k \in DOMAIN line : line[k] = IF k = Len(line) THEN Gauge(1) ELSE Zero
Tickless(m) ==
    which = "cpu" /\ \E j \in DOMAIN lines : m \in DOMAIN lines[j] /\ AllIdle(lines[j][m])

\* Values v, kept at a place and divided by d, are the extreme values of a set.
Extreme(low, high, d, values) ==
    /\ \E v \in values : Same(v, Scaled(low, d)) /\ \A w \in values : NoLess(w, v)
    /\ \E v \in values : Same(v, Scaled(high, d)) /\ \A w \in values : NoLess(v, w)
CaptionsTrue(end, hdr) ==
    \A m \in DOMAIN svg.place, o \in DOMAIN end.title, k \in DOMAIN hdr :
        LET place == svg.place[m][2] + o
            values == {Scaled(v, Unit(end.title[o])) : v \in Column(m, k)}
        IN  hdr[k] = ColumnOf(end.title[o]) /\ values # {} =>
                Extreme(svg.spmin[place], svg.spmax[place],
                        IF o \in DOMAIN end.per THEN end.per[o] ELSE 1, values)

\* The extreme values printed at the end under a column, and those of the
\* captions of the graphs, are the smallest and the greatest of those displayed
\* in this column for the item, whatever the devices that came, went or changed
\* places in the meantime, and whatever the order in which the values of the
\* activity are kept.  Counters that decrease are left out but where the values
\* displayed are those that are kept: zero is kept for them, and their
\* difference modulo their width is displayed.  Graphs also have what sar did
\* not display: what has not changed (-z), processors offline (frequencies).
MinMaxTrue ==
    /\ done /\ (exact \/ which \in {"cpu", "irq", "io"}) =>
        \A m \in {n \in DOMAIN average : ~Tickless(n)} :
            LET cols == xstats(which, m, opts)
            IN  \A k \in DOMAIN cols :
                    LET place == average[m].base + cols[k][1]
                    IN  Column(m, k) # {} =>
                            Extreme(spmin[place], spmax[place], cols[k][2], Column(m, k))
    /\ done /\ exact /\ ~opts.omit /\ which \notin NoGraph \cup {"pwr_cpufreq"} =>
        CaptionsTrue(f_svg_print(which, prev, curr, svg_parm(1)), print_hdr_line(which, opts))

\* A processor that was idle without a tick, displayed with 100% idle, has a
\* maximum of 100% idle.
TicklessMaximum ==
    done /\ which = "cpu" =>
        \A m \in {n \in DOMAIN average : n # "all" /\ Tickless(n)} :
            average[m].base + 9 \in DOMAIN spmax /\ Same(spmax[average[m].base + 9], Gauge(1))

\* The columns whose average is not made of the values of the lines: the
\* integer parts of averages are divided to get percentages of memory, and an
\* average is made of the busiest direction of an interface.
Approximate == {"pct_memused", "pct_commit", "pct_ifutil"}

\* The average of an item that was displayed each time lies between the
\* smallest and the greatest of the values displayed: the first sample it is
\* made from, the sums kept by the functions of the activity and the number of
\* lines they are divided by are those of the lines displayed.
Always(m) == \A j \in DOMAIN lines : m \in DOMAIN lines[j]
Claimed(m) ==
    Always(m) /\ (which \in {"cpu", "softnet"} /\ m = "all" => \A i \in DOMAIN first : Always(first[i].name))
AverageBetween ==
    done /\ exact =>
        \A m \in DOMAIN average :
            Claimed(m) =>
                \A k \in DOMAIN average[m].line :
                    LET hdr == print_hdr_line(which, opts)
                        v == average[m].line[k]
                    IN  \/ which # "irq" /\ hdr[k] \in Approximate
                        \/ \E j \in DOMAIN lines : k \notin DOMAIN lines[j][m]
                        \/ /\ \E w \in Column(m, k) : NoLess(v, w)
                           /\ \E w \in Column(m, k) : NoLess(w, v)

\* The time of a processor is accounted for: the percentages of a line of sar
\* -u ALL add up to 100%, for each processor and for all of them, when
\* processors go offline and come back, when the idle time or the time waiting
\* for I/O goes backwards, and when the time of a guest is accounted before
\* that of the user.  In this last case the line of CPU "all" may not add up:
\* the time of one processor is corrected, not the sums it is compared with.
PercentagesAddUp ==
    which = "cpu" /\ opts.full /\ lines # <<>> /\ ~done =>
        \A m \in {n \in DOMAIN lines[Len(lines)] : n # "all" \/ ~GuestAhead(prev, Left(which, prev, curr, opts))} :
            LET line == lines[Len(lines)][m]
                some == {k \in DOMAIN line : line[k][1] # 0}
            IN  /\ some = {} => m = "all"
                /\ \A k \in some : MapThenSumSet(LAMBDA h : line[h][1], some) = line[k][2]
=============================================================================
