------------------------------ MODULE Convert ------------------------------
(***************************************************************************)
(* sadf -c: a file of format 2171 (sysstat 9.1.6 to 10.2.1) or 2173        *)
(* (10.3.1 to 11.6) converted to the current format, and written to the    *)
(* standard output as it is read.                                          *)
(*                                                                         *)
(* ofile is the old file: its format, its list of activities (what it is,  *)
(* version of its structures from 0, numbers of items and sub-items), its  *)
(* records, and the place where its last record is cut (0 when it is       *)
(* whole).  Record r has, for each activity, the sequence buf[i] of its    *)
(* structures, sub-items of an item next to each other; a structure has    *)
(* the fields that the version of sadc that wrote it knew.  at is what     *)
(* comes next; nr_ini and buf1 are the numbers of items and the buffers    *)
(* act[]->buf[1]; fout is what has been written, block by block.           *)
(***************************************************************************)
EXTENDS Activities, FiniteSets, TLC

CONSTANTS HZ, NR_CPUS
ASSUME ConvertAssumption == HZ \in Nat \ {0} /\ NR_CPUS \in Nat \ {0}

VARIABLES ofile, at, nr_ini, buf1, fout, exit_code
convertVars == <<ofile, at, nr_ini, buf1, fout, exit_code>>

RUNNING == -1

\* act[]->magic, from ACTIVITY_MAGIC_BASE, and act[]->options & AO_COUNTED.
magic(id) ==
    CASE id = "net_dev" -> 3
      [] id \in {"irq", "queue", "disk", "net_edev", "net_ip", "net_eip", "net_ip6", "net_eip6"} -> 2
      [] id \in {"cpu", "pcsw", "io", "memory", "ktables", "serial", "huge", "pwr_wghfreq",
                 "filesystem"} -> 1
      [] OTHER -> 0
Known(id) == id \in DOMAIN activity
has_nr(id) == activity[id].counted

\* Interrupts were items: they have become the sub-items of CPU "all".
Turned(e) == e.id = "irq" /\ e.magic < 2
Items(e) == IF Turned(e) THEN 1 ELSE e.nr
SubItems(e) == IF Turned(e) THEN e.nr ELSE e.nr2

(***************************************************************************)
(* The structures: what is assigned from structure s of the file.          *)
(***************************************************************************)
Raw(s, f) == IF f \in DOMAIN s THEN s[f] ELSE 0
Copied(s, F) == [f \in F |-> Raw(s, f)]
Added(F) == [f \in F |-> 0]

upgrade_stats_cpu(s) ==
    Copied(s, {"cpu_user", "cpu_nice", "cpu_sys", "cpu_idle", "cpu_iowait", "cpu_steal", "cpu_hardirq",
               "cpu_softirq", "cpu_guest"} \cup ({"cpu_guest_nice"} \cap DOMAIN s))
upgrade_stats_pcsw(s) == Copied(s, {"context_switch", "processes"})
upgrade_stats_irq(s, k) ==
    [irq_nr |-> s.irq_nr, irq_name |-> IF k = 1 THEN "sum" ELSE ToString(k - 2)]
upgrade_stats_io(s) ==
    Copied(s, {"dk_drive", "dk_drive_rio", "dk_drive_wio", "dk_drive_rblk", "dk_drive_wblk"})
upgrade_stats_memory(s) ==
    Copied(s, {"frmkb", "bufkb", "camkb", "tlmkb", "frskb", "tlskb", "caskb", "comkb", "activekb",
               "inactkb", "dirtykb"})
    @@ Copied(s, {"anonpgkb", "slabkb", "kstackkb", "pgtblkb", "vmusedkb"} \cap DOMAIN s)
    @@ [availablekb |-> IF "availablekb" \in DOMAIN s THEN s.availablekb ELSE s.frmkb]
upgrade_stats_ktables(s) == Copied(s, {"file_used", "inode_used", "dentry_stat", "pty_nr"})
upgrade_stats_queue(s) ==
    Copied(s, {"nr_running", "procs_blocked", "nr_threads", "load_avg_1", "load_avg_5", "load_avg_15"})
\* Lines were numbered from 1; a structure without a line has not been used.
upgrade_stats_serial(s) == IF s.line = 0 THEN s ELSE [s EXCEPT !.line = @ - 1]
upgrade_stats_disk(s) ==
    Copied(s, {"nr_ios", "rd_sect", "wr_sect", "rd_ticks", "wr_ticks", "tot_ticks", "rq_ticks", "major",
               "minor"})
upgrade_stats_net_dev(s, version) ==
    Copied(s, {"rx_packets", "tx_packets", "rx_bytes", "tx_bytes", "rx_compressed", "tx_compressed",
               "multicast", "name"})
    @@ IF version < 2 THEN Added({"speed", "duplex"}) ELSE Copied(s, {"speed", "duplex"})
upgrade_stats_net_edev(s) ==
    Copied(s, {"collisions", "rx_errors", "tx_errors", "rx_dropped", "tx_dropped", "rx_fifo_errors",
               "tx_fifo_errors", "rx_frame_errors", "tx_carrier_errors", "name"})
upgrade_stats_net_ip(s) ==
    Copied(s, {"InReceives", "ForwDatagrams", "InDelivers", "OutRequests", "ReasmReqds", "ReasmOKs",
               "FragOKs", "FragCreates"})
upgrade_stats_net_eip(s) ==
    Copied(s, {"InHdrErrors", "InAddrErrors", "InUnknownProtos", "InDiscards", "OutDiscards",
               "OutNoRoutes", "ReasmFails", "FragFails"})
upgrade_stats_net_ip6(s) ==
    Copied(s, {"InReceives6", "OutForwDatagrams6", "InDelivers6", "OutRequests6", "ReasmReqds6",
               "ReasmOKs6", "InMcastPkts6", "OutMcastPkts6", "FragOKs6", "FragCreates6"})
upgrade_stats_net_eip6(s) ==
    Copied(s, {"InHdrErrors6", "InAddrErrors6", "InUnknownProtos6", "InTooBigErrors6", "InDiscards6",
               "OutDiscards6", "InNoRoutes6", "OutNoRoutes6", "ReasmFails6", "FragFails6",
               "InTruncatedPkts6"})
upgrade_stats_huge(s) == Copied(s, {"frhkb", "tlhkb"})
\* Nothing is assigned from the end of the list of frequencies of a processor.
upgrade_stats_pwr_wghfreq(s, ended) == IF ended THEN << >> ELSE Copied(s, {"time_in_state", "freq"})
upgrade_stats_filesystem(s) ==
    Copied(s, {"f_blocks", "f_bfree", "f_bavail", "f_files", "f_ffree", "name"})

\* Structure k of those read (buf0) for activity e of the file.
Upgraded(e, buf0, k) ==
    LET s == buf0[k]
        firstOfItem == k - ((k - 1) % SubItems(e))
    IN  IF e.magic >= magic(e.id) THEN s
        ELSE CASE e.id = "cpu" -> upgrade_stats_cpu(s)
               [] e.id = "pcsw" -> upgrade_stats_pcsw(s)
               [] e.id = "irq" -> upgrade_stats_irq(s, k)
               [] e.id = "io" -> upgrade_stats_io(s)
               [] e.id = "queue" -> upgrade_stats_queue(s)
               [] e.id = "memory" -> upgrade_stats_memory(s)
               [] e.id = "ktables" -> upgrade_stats_ktables(s)
               [] e.id = "serial" -> upgrade_stats_serial(s)
               [] e.id = "disk" -> upgrade_stats_disk(s)
               [] e.id = "net_dev" -> upgrade_stats_net_dev(s, e.magic)
               [] e.id = "net_edev" -> upgrade_stats_net_edev(s)
               [] e.id = "net_ip" -> upgrade_stats_net_ip(s)
               [] e.id = "net_eip" -> upgrade_stats_net_eip(s)
               [] e.id = "net_ip6" -> upgrade_stats_net_ip6(s)
               [] e.id = "net_eip6" -> upgrade_stats_net_eip6(s)
               [] e.id = "huge" -> upgrade_stats_huge(s)
               [] e.id = "pwr_wghfreq" ->
                     upgrade_stats_pwr_wghfreq(s, \E j \in firstOfItem..k : buf0[j].freq = 0)
               [] e.id = "filesystem" -> upgrade_stats_filesystem(s)

\* What says that structure s of activity id holds an item (of a serial line,
\* in an old file).
Present(id, s) ==
    CASE id = "serial" -> s.line # 0
      [] id = "disk" -> s.major + s.minor # 0
      [] id \in {"net_dev", "net_edev", "fchost"} -> s.name # ""
      [] id = "pwr_usb" -> s.bus_nr # 0
      [] id = "filesystem" -> s.f_blocks # 0
      [] OTHER -> TRUE
\* How many of the first n structures of buf have to be written: the count
\* stops at the first one without an item.
CountStats(id, buf, n) ==
    CHOOSE m \in 0..n : /\ \A k \in 1..m : Present(id, buf[k])
                        /\ m < n => ~Present(id, buf[m + 1])

(***************************************************************************)
(* The steps.  One that writes may fail at any of its blocks.              *)
(***************************************************************************)
write_all(blocks) ==
    \/ fout' = fout \o blocks /\ UNCHANGED exit_code
    \/ /\ exit_code' = 2
       /\ \E n \in 0..(Len(blocks) - 1) : fout' = fout \o SubSeq(blocks, 1, n)
Exit(code) == exit_code' = code /\ UNCHANGED <<at, nr_ini, buf1, fout>>
Stage(s) == exit_code = RUNNING /\ at.stage = s /\ UNCHANGED ofile
Then(s, r, i) == at' = [stage |-> s, r |-> r, i |-> i]
ThenRecord == Then("record", at.r + 1, 1)
\* The file ends before part i of the current record has been read.
UnexpectedEnd(i) == at.r = Len(ofile.records) /\ ofile.cut # 0 /\ i >= ofile.cut

ZeroNew(id) == [f \in ToSet(activity[id].fields) |-> 0]
Zeros(id, n) == [k \in 1..n |-> ZeroNew(id)]
cpu_nr == LET i == CHOOSE j \in DOMAIN ofile.list :
                       /\ ofile.list[j].id = "cpu"
                       /\ \A k \in 1..(j - 1) : ofile.list[k].id # "cpu"
          IN  ofile.list[i].nr

ConvertInit(file) ==
    /\ ofile = file
    /\ at = [stage |-> "magic", r |-> 0, i |-> 0]
    /\ nr_ini = << >> /\ buf1 = << >>
    /\ fout = <<>> /\ exit_code = RUNNING

upgrade_magic_section ==
    /\ Stage("magic")
    /\ CASE ofile.format = "other" -> Exit(2)
         [] ofile.format = "current" -> Exit(0)
         [] OTHER -> /\ write_all(<<[block |-> "magic"]>>) /\ Then("header", 0, 0)
                     /\ UNCHANGED <<nr_ini, buf1>>

upgrade_header_section ==
    /\ Stage("header")
    /\ IF \/ \E i \in DOMAIN ofile.list : ofile.list[i].nr < 1 \/ ofile.list[i].nr2 < 1
          \/ \A i \in DOMAIN ofile.list : ofile.list[i].id # "cpu"
       THEN Exit(2)
       ELSE /\ write_all(<<[block |-> "header", sa_cpu_nr |-> cpu_nr, sa_act_nr |-> Len(ofile.list)]>>)
            /\ Then("list", 0, 0)
            /\ nr_ini' = [i \in DOMAIN ofile.list |-> Items(ofile.list[i])]
            /\ UNCHANGED buf1

FileActivity(e) ==
    [block |-> "activity", id |-> e.id, nr |-> Items(e), nr2 |-> SubItems(e), magic |-> magic(e.id),
     has_nr |-> has_nr(e.id)]
\* An activity that this version does not know ends the conversion.
upgrade_activity_section ==
    LET list == ofile.list
        unknown == {i \in DOMAIN list : ~Known(list[i].id)}
        before == IF unknown = {} THEN Len(list) ELSE (CHOOSE i \in unknown : \A j \in unknown : i <= j) - 1
        blocks == [i \in 1..before |-> FileActivity(list[i])]
    IN  /\ Stage("list")
        /\ IF unknown = {} THEN write_all(blocks) /\ Then("record", 1, 1)
                                /\ buf1' = [i \in DOMAIN list |-> Zeros(list[i].id, nr_ini[i] * SubItems(list[i]))]
           ELSE /\ exit_code' = 1
                /\ \E n \in 0..before : fout' = fout \o SubSeq(blocks, 1, n)
                /\ UNCHANGED <<at, buf1>>
        /\ UNCHANGED nr_ini

\* upgrade_stat_records(): the header of the next record, or the end.
upgrade_record_header ==
    /\ Stage("record")
    /\ IF at.r > Len(ofile.records) THEN Exit(0)
       ELSE LET rec == ofile.records[at.r]
            IN  /\ write_all(<<[block |-> "record", type |-> rec.type, uptime_cs |-> (rec.uptime0 * 100) \div HZ]>>)
                /\ Then(rec.type, at.r, 1)
                /\ UNCHANGED <<nr_ini, buf1>>

upgrade_comment_record ==
    /\ Stage("comment")
    /\ IF UnexpectedEnd(1) THEN Exit(2)
       ELSE write_all(<<[block |-> "comment"]>>) /\ ThenRecord /\ UNCHANGED <<nr_ini, buf1>>

\* The numbers of items that the list which follows a restart gives.
Volatile(vol, id) == {v \in ToSet(vol) : v.id = id /\ v.nr > 0}
\* Mutant of Restarted: the number of processors only is taken from the list.
MutRestarted(vol) == nr_ini
Restarted(vol) ==
    [i \in DOMAIN nr_ini |->
        LET new == Volatile(vol, ofile.list[i].id)
        IN  IF new = {} THEN nr_ini[i] ELSE (CHOOSE v \in new : TRUE).nr]
upgrade_restart_record ==
    LET vol == IF ofile.format = "2173" THEN ofile.records[at.r].vol ELSE <<>>
        cpus == Volatile(vol, "cpu")
        Grown(i) == LET e == ofile.list[i]
                        n == nr_ini'[i] * SubItems(e)
                    IN  IF n <= Len(buf1[i]) THEN buf1[i] ELSE buf1[i] \o Zeros(e.id, n - Len(buf1[i]))
    IN  /\ Stage("restart")
        /\ IF UnexpectedEnd(1) \/ \E v \in ToSet(vol) : v.nr > NR_CPUS + 1 THEN Exit(2)
           ELSE /\ write_all(<<[block |-> "cpus", nr |-> IF cpus = {} THEN cpu_nr
                                                        ELSE (CHOOSE v \in cpus : TRUE).nr]>>)
                /\ ThenRecord
                /\ nr_ini' = Restarted(vol)
                /\ buf1' = [i \in DOMAIN buf1 |-> Grown(i)]

\* n structures read for activity i: when this is not what the file holds, all
\* that follows is taken for something else.
Garbage(s) == [f \in DOMAIN s |-> IF f = "name" THEN s[f] ELSE -1]
buf0(i, n) ==
    LET buf == ofile.records[at.r].buf[i]
    IN  IF Len(buf) = n THEN buf ELSE [k \in 1..n |-> Garbage(buf[1])]
\* upgrade_common_record(): activity at.i of a record of statistics.
upgrade_common_record ==
    LET i == at.i
        e == ofile.list[i]
        n == nr_ini[i]
        read == buf0(i, n * SubItems(e))
        new == [k \in DOMAIN buf1[i] |-> IF k \in DOMAIN read THEN Upgraded(e, read, k) @@ buf1[i][k]
                                         ELSE buf1[i][k]]
        nr_struct == CASE e.id = "serial" -> IF e.magic < magic(e.id) THEN CountStats(e.id, read, n) ELSE n
                       [] e.id # "serial" /\ has_nr(e.id) -> CountStats(e.id, new, n)
                       [] OTHER -> n
        nr == IF has_nr(e.id) THEN <<[block |-> "nr", nr |-> nr_struct]>> ELSE <<>>
    IN  /\ Stage("stats")
        /\ IF UnexpectedEnd(i) THEN Exit(2)
           ELSE /\ write_all(nr \o [k \in 1..(nr_struct * SubItems(e)) |-> [block |-> "struct", is |-> new[k]]])
                /\ buf1' = [buf1 EXCEPT ![i] = new]
                /\ IF i < Len(ofile.list) THEN Then("stats", at.r, i + 1) ELSE ThenRecord
                /\ UNCHANGED nr_ini

ConvertNext ==
    \/ upgrade_magic_section \/ upgrade_header_section \/ upgrade_activity_section
    \/ upgrade_record_header \/ upgrade_comment_record \/ upgrade_restart_record
    \/ upgrade_common_record

(***************************************************************************)
(* What the old file says.                                                 *)
(***************************************************************************)
\* The number of items of activity i in record r: that of the last restart
\* that gives one, or that of the list of the file.
NumberAt(i, r) ==
    LET e == ofile.list[i]
        given == {q \in 1..(r - 1) : /\ ofile.format = "2173" /\ ofile.records[q].type = "restart"
                                     /\ Volatile(ofile.records[q].vol, e.id) # {}}
        last == CHOOSE q \in given : \A p \in given : p <= q
    IN  IF given = {} THEN Items(e) ELSE (CHOOSE v \in Volatile(ofile.records[last].vol, e.id) : TRUE).nr
\* Structure k of activity e with all the fields of today.
Today(e, s, k) ==
    LET New(f) == CASE f = "line" /\ e.magic < magic(e.id) -> s.line - 1
                    [] f # "line" /\ f \in DOMAIN s -> s[f]
                    [] f = "availablekb" /\ f \notin DOMAIN s -> s.frmkb
                    [] f = "irq_name" -> IF k = 1 THEN "sum" ELSE ToString(k - 2)
                    [] OTHER -> IF f = "line" THEN s.line ELSE 0
    IN  [f \in ToSet(activity[e.id].fields) \cup ({"name", "duplex"} \cap DOMAIN s)
                \cup (IF e.id = "net_dev" THEN {"duplex"} ELSE {})
                \cup (IF e.id = "irq" THEN {"irq_name"} ELSE {}) |-> New(f)]
\* Activity i of record r in a file of today: the items that are there, with
\* their number where activities have one, and no other structure.
StatsToday(r, i) ==
    LET e == ofile.list[i]
        buf == ofile.records[r].buf[i]
        there == SelectSeq([k \in DOMAIN buf |-> k], LAMBDA k : Present(e.id, buf[k]))
        number == IF SubItems(e) > 1 THEN NumberAt(i, r) ELSE Len(there)
    IN  (IF has_nr(e.id) THEN <<[block |-> "nr", nr |-> number]>> ELSE <<>>)
        \o [k \in DOMAIN there |-> [block |-> "struct", is |-> Today(e, buf[there[k]], there[k])]]
CpuActivity == CHOOSE i \in DOMAIN ofile.list : ofile.list[i].id = "cpu"
RecordToday(r) ==
    LET rec == ofile.records[r]
    IN  <<[block |-> "record", type |-> rec.type, uptime_cs |-> (rec.uptime0 * 100) \div HZ]>>
        \o CASE rec.type = "comment" -> <<[block |-> "comment"]>>
             [] rec.type = "restart" -> <<[block |-> "cpus", nr |-> NumberAt(CpuActivity, r + 1)]>>
             [] OTHER -> FlattenSeq([i \in DOMAIN ofile.list |-> StatsToday(r, i)])
FileToday ==
    <<[block |-> "magic"], [block |-> "header", sa_cpu_nr |-> ofile.list[CpuActivity].nr,
                            sa_act_nr |-> Len(ofile.list)]>>
    \o [i \in DOMAIN ofile.list |-> FileActivity(ofile.list[i])]
    \o FlattenSeq([r \in DOMAIN ofile.records |-> RecordToday(r)])

\* A file that sadf -c can convert.
Convertible ==
    /\ ofile.format \in {"2171", "2173"}
    /\ \A i \in DOMAIN ofile.list : Known(ofile.list[i].id) /\ ofile.list[i].nr > 0
    /\ \E i \in DOMAIN ofile.list : ofile.list[i].id = "cpu"

\* What has been written is, at any time and wherever the conversion stops,
\* the beginning of the same file in the format of today: the same records,
\* each with the items that are in the old one, as many as their number says,
\* with the values they have there, although structures have changed, are kept
\* in buffers from one record to the next, and are as many as the last restart
\* says; and it is the whole file when sadf says that it has converted it.
ConvertsTheFile ==
    /\ Convertible => IsPrefix(fout, FileToday)
    /\ exit_code = 0 => IF ofile.format = "current" THEN fout = <<>>
                        ELSE Convertible /\ ofile.cut = 0 /\ fout = FileToday
=============================================================================
