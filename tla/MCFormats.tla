----------------------------- MODULE MCFormats -----------------------------
(***************************************************************************)
(* Three samples of each activity, a record of sadf -x and -j, or the       *)
(* conversion of an old file by sadf -c.                                   *)
(***************************************************************************)
EXTENDS Formats, SadfRecord, Convert

CONSTANTS Shown     \* the activities of this instance

VARIABLE tool       \* what is checked: the lines of an activity, a record or a conversion
mcVars == <<tool, lineVars, recordVars, convertVars>>

(* -------------------------------- options ------------------------------- *)

Plain == [sel |-> {}, full |-> FALSE, mem |-> {"ram"}, items |-> {}, omit |-> FALSE, bare |-> FALSE]
Bare == [Plain EXCEPT !.bare = TRUE]
OptionsOf(n) ==
    CASE n = "cpu" -> {Plain, [Plain EXCEPT !.full = TRUE], [Plain EXCEPT !.full = TRUE, !.sel = {"all", "c1"}]}
      [] n = "irq" -> {Plain, [Plain EXCEPT !.items = {"sum", "i2"}, !.sel = {"all", "c1"}], [Plain EXCEPT !.omit = TRUE]}
      [] n = "memory" -> {[Plain EXCEPT !.bare = b, !.mem = m, !.full = "swap" \in m] :
                            b \in BOOLEAN, m \in {{"ram"}, {"swap"}, {"ram", "swap"}}}
      [] n = "softnet" -> {Plain, [Plain EXCEPT !.sel = {"c1"}], [Plain EXCEPT !.omit = TRUE]}
      [] n \in {"pwr_cpufreq", "pwr_wghfreq"} -> {Plain, [Plain EXCEPT !.sel = {"all", "c1"}]}
      [] n \in {"disk", "filesystem"} ->
            {Plain, Bare, [Plain EXCEPT !.sel = {"A"}], [Plain EXCEPT !.omit = TRUE]}
      [] n \in {"net_dev", "net_edev"} -> {Plain, Bare, [Plain EXCEPT !.sel = {"A"}, !.omit = TRUE]}
      [] n = "serial" -> {Plain, [Plain EXCEPT !.omit = TRUE]}
      [] n \in {"huge", "pwr_temp", "pwr_in"} -> {Plain, Bare}
      [] OTHER -> {Plain}

(* -------------------------------- samples ------------------------------- *)

Offset == [m \in {"-", "A", "B", "all", "c0", "c1"} |->
            CASE m = "B" -> 20 [] m = "c1" -> 3 [] m = "c0" -> 1 [] OTHER -> 0]

\* What does not change from one sample to the next.
Constant(b) ==
    [tlmkb |-> IF b THEN 0 ELSE 400, tlskb |-> IF b THEN 0 ELSE 300, tlhkb |-> IF b THEN 0 ELSE 200,
     f_blocks |-> IF b THEN 0 ELSE 400, f_files |-> IF b THEN 0 ELSE 300,
     temp_min |-> 1, temp_max |-> IF b THEN 1 ELSE 200, in_min |-> 1, in_max |-> IF b THEN 1 ELSE 200,
     rpm_min |-> 2, major |-> 8, minor |-> 1, part_nr |-> 0, bus_nr |-> 1, vendor_id |-> 11,
     line |-> 0, speed |-> IF b THEN 0 ELSE 20, duplex |-> 1]
\* What is zero when these are.
OfNothing == {"frskb", "caskb", "frhkb", "f_bfree", "f_bavail", "f_ffree"}
    \cup {"frmkb", "availablekb", "comkb"}

\* Item m of activity n: field number k grows by k + Offset[m] with each level.
Struct(n, m, lev, b) ==
    LET fields == activity[n].fields
        Position(f) == CHOOSE k \in DOMAIN fields : fields[k] = f
        Field(f) ==
            IF f = "name" THEN m
            ELSE IF f \in DOMAIN Constant(b)
            THEN Constant(b)[f] + (IF m # "B" THEN 0 ELSE IF f = "line" THEN 2 ELSE IF f \in {"minor", "vendor_id", "duplex"} THEN 1 ELSE 0)
            ELSE IF b /\ f \in OfNothing THEN 0
            ELSE IF f \in {"rx_bytes", "tx_bytes"} THEN ((Position(f) + Offset[m]) * 7 + 200 * lev) % Width
            ELSE IF f = "status" THEN lev + (IF m = "B" THEN 2 ELSE 0)
            ELSE (Position(f) + Offset[m]) * lev
    IN  [f \in Range(fields) \cup {"name"} \cup (IF n = "net_dev" THEN {"duplex"} ELSE {}) |-> Field(f)]

\* A processor: what it spent in each state at level lev, nothing when it is
\* offline (level 0); its idle time and its time waiting for I/O go backwards
\* in kind "back", and its time as a guest is ahead of its user time in kind
\* "guest".
Spent == [cpu_user |-> 20, cpu_nice |-> 15, cpu_sys |-> 7, cpu_idle |-> 40, cpu_iowait |-> 9,
          cpu_steal |-> 3, cpu_hardirq |-> 2, cpu_softirq |-> 4, cpu_guest |-> 5, cpu_guest_nice |-> 6]
Cpu(m, lev, kind) ==
    [f \in DOMAIN Spent \cup {"name"} |->
        IF f = "name" THEN m
        ELSE IF kind = "back" /\ f \in {"cpu_idle", "cpu_iowait"} THEN (Spent[f] + Offset[m]) * (lev - 2)
        ELSE IF kind = "guest" /\ f = "cpu_guest" THEN (Spent["cpu_user"] + Offset[m]) * lev
        ELSE (Spent[f] + Offset[m]) * lev]
CpuSample(l0, l1, kind) ==
    LET s == <<Cpu("all", 0, "-"), Cpu("c0", l0, "-"), Cpu("c1", l1, kind)>>
    IN  [s EXCEPT ![1] = Total(s, {2, 3})]

Irq(m, i1, i2) == [name |-> m, irq_name |-> <<"sum", "i1", "i2">>, irq_nr |-> <<i1 + i2, i1, i2>>]
IrqSample(l0, l1) ==
    <<Irq("all", 5 * l0 + 7 * l1, 11 * l0 + 3 * l1), Irq("c0", 5 * l0, 11 * l0), Irq("c1", 7 * l1, 3 * l1)>>

Pairs == {<<1, 1>>, <<2, 2>>, <<4, 4>>, <<2, 1>>, <<2, 0>>, <<4, 0>>, <<4, 2>>}
Freq(m, lev) == [name |-> m, freq |-> <<3000, 1000, 0>>,
                 time_in_state |-> <<(2 + Offset[m]) * lev, 9 * lev - (IF lev = 2 THEN 1 ELSE 0), 0>>]

Of(n, l, lev, b) == [i \in DOMAIN l |-> Struct(n, l[i], IF l[i] = "B" THEN 5 - lev ELSE lev, b)]
Lists(n) ==
    CASE n \in {"serial", "disk", "net_dev", "net_edev", "fchost", "filesystem"} ->
            {<<>>, <<"A">>, <<"A", "B">>, <<"B", "A">>}
      [] n = "pwr_usb" -> {<<>>, <<"A">>, <<"A", "B">>, <<"B", "A">>}
      [] n \in {"pwr_fan", "pwr_temp", "pwr_in", "pwr_bat"} -> {<<"A", "B">>}
      [] n = "pwr_cpufreq" -> {<<"all", "c0", "c1">>}
      [] OTHER -> {<<"-">>}
Samples3(n, b) ==
    CASE n = "cpu" -> {CpuSample(q[1], q[2], "-") : q \in Pairs} \cup {CpuSample(4, 4, "back"), CpuSample(4, 4, "guest")}
      [] n = "irq" -> {IrqSample(q[1], q[2]) : q \in Pairs}
      [] n = "softnet" ->
            {LET s == <<Struct(n, "all", 1, b), Struct(n, "c0", q[1], b), Struct(n, "c1", q[2], b)>>
             IN  [s EXCEPT ![1] = Total(s, {2, 3})] : q \in Pairs}
      [] n = "pwr_wghfreq" -> {<<Freq("all", l), Freq("c0", l), Freq("c1", l)>> : l \in {1, 2, 4}}
      [] OTHER -> {Of(n, l, lev, b) : l \in Lists(n), lev \in {1, 2, 4}}
            \* A processor that is offline.
            \cup (IF n = "pwr_cpufreq"
                  THEN {[Of(n, <<"all", "c0", "c1">>, 2, b) EXCEPT ![3].cpufreq = 0]} ELSE {})

\* The counters that never decrease, in a processor that comes back either.
Follows(n, c, p) ==
    CASE n = "cpu" -> \A i \in 2..Len(c) :
                    c[i].cpu_user = 0 \/ (c[i].cpu_user >= p[i].cpu_user /\ c[i].cpu_guest >= p[i].cpu_guest)
      [] n = "pwr_wghfreq" -> c[1].time_in_state[1] >= p[1].time_in_state[1]
      [] n \in {"psi_cpu", "psi_io", "psi_mem"} ->
            \A f \in {"some_cpu_total", "some_io_total", "some_mem_total"} \cap DOMAIN c[1] : c[1][f] >= p[1][f]
      [] OTHER -> TRUE

(* ----------------------------- old files ------------------------------- *)

\* The fields that were added to the structures, by their former versions.
Newer(id, magic_nr) ==
    CASE id = "io" -> {"dk_drive_dio", "dk_drive_dblk"}
      [] id = "memory" -> {"shmemkb"}
      [] id = "queue" /\ magic_nr = 0 -> {"procs_blocked"}
      [] id = "disk" -> {"dc_sect", "dc_ticks", "part_nr"}
      [] id = "net_dev" /\ magic_nr < 2 -> {"speed"}
      [] id = "huge" -> {"rsvdhkb", "surphkb"}
      [] OTHER -> {}
\* Those that were added without a new version.
Optional(id) ==
    CASE id = "memory" -> {{}, {"availablekb"},
                           {"availablekb", "anonpgkb", "slabkb", "kstackkb", "pgtblkb", "vmusedkb"},
                           {"availablekb", "anonpgkb", "slabkb", "kstackkb", "pgtblkb", "vmusedkb", "dirtykb"}}
      [] id = "cpu" -> {{}, {"cpu_guest_nice"}}
      [] OTHER -> {{}}
OldFields(e) == Range(activity[e.id].fields) \ (Newer(e.id, e.magic) \cup e.without)

\* Structure k of an activity in record r; those after the first m are unused.
OldStruct(e, r, k, m) ==
    LET fields == activity[e.id].fields
        Position(f) == CHOOSE j \in DOMAIN fields : fields[j] = f
        Used(f) == IF f = "line" THEN k ELSE IF f = "freq" THEN 1000 * (3 - (k % 3)) ELSE Position(f) + 20 * k + 100 * r
    IN  [f \in OldFields(e) |-> IF k <= m THEN Used(f) ELSE 0]
        @@ (IF e.id \in {"net_dev", "net_edev", "filesystem", "fchost"}
            THEN [name |-> IF k <= m THEN <<"A", "B">>[k] ELSE ""] ELSE << >>)
        @@ (IF e.id = "net_dev" /\ e.magic = 2 THEN [duplex |-> IF k <= m THEN 1 ELSE 0] ELSE << >>)
        @@ (IF e.id = "irq" /\ e.magic = 2 THEN [irq_name |-> "eth0"] ELSE << >>)

Entry(id, magic_nr, nr, nr2, without) == [id |-> id, magic |-> magic_nr, nr |-> nr, nr2 |-> nr2, without |-> without]
OldCpu == Entry("cpu", 0, 2, 1, {})
\* The versions of structures before today's, which came with format 2175.
Versions(id) == IF magic(id) = 0 THEN {0} ELSE 0..(magic(id) - 1)
OldEntries ==
    UNION {{Entry(id, v, IF activity[id].counted THEN 2 ELSE 1, IF id = "pwr_wghfreq" THEN 3 ELSE 1, w) :
              v \in Versions(id), w \in Optional(id)} : id \in Range(act) \ {"cpu", "irq"}}
    \cup {Entry("irq", v, 3, 1, {}) : v \in {0, 1}}
Lists2 ==
    {<<OldCpu, e>> : e \in OldEntries} \cup {<<e, OldCpu>> : e \in {d \in OldEntries : d.id \in {"disk", "irq"}}}
    \cup {<<Entry("cpu", 0, 2, 1, w)>> : w \in Optional("cpu")}
BadLists ==
    {<<Entry("disk", 1, 2, 1, {})>>, <<OldCpu, Entry("gone", 0, 1, 1, {}), Entry("pcsw", 0, 1, 1, {})>>,
     <<OldCpu, Entry("disk", 1, 0, 1, {})>>}

\* cpus is the number of processors, CPU "all" included, m how many items
\* there are of those that are counted.
OldStats(list, r, cpus, m) ==
    [type |-> "stats", uptime0 |-> 300 * r, vol |-> <<>>,
     buf |-> [i \in DOMAIN list |->
        LET e == list[i]
            n == IF e.id \in {"cpu", "pwr_cpufreq", "pwr_wghfreq"} THEN cpus ELSE e.nr
        IN  [k \in 1..(n * e.nr2) |->
                OldStruct(e, r, k, IF e.id \in {"serial", "disk", "net_dev", "net_edev", "fchost", "filesystem",
                                                "pwr_usb"} THEN m ELSE n * e.nr2)]]]
OldRestart(r, cpus) ==
    [type |-> "restart", uptime0 |-> 0, buf |-> <<>>,
     vol |-> <<[id |-> "cpu", nr |-> cpus], [id |-> "pwr_wghfreq", nr |-> cpus], [id |-> "pwr_cpufreq", nr |-> cpus]>>]
OldComment(r) == [type |-> "comment", uptime0 |-> 300 * r, vol |-> <<>>, buf |-> <<>>]
OldRecords(f, list) ==
    LET Pairs2 == IF f = "2173" THEN {<<1, 3>>, <<3, 1>>} ELSE {<<2, 2>>}
    IN  {<<OldStats(list, 1, 2, 2), OldStats(list, 2, 2, 1)>>, <<OldStats(list, 1, 2, 0), OldStats(list, 2, 2, 2)>>,
         <<OldRestart(1, 9), OldStats(list, 2, 2, 1)>>}
        \cup {<<OldComment(1), OldRestart(2, q[1]), OldStats(list, 3, q[1], 2), OldRestart(4, q[2]),
                OldStats(list, 5, q[2], 1)>> : q \in Pairs2}
OldFiles ==
    UNION {{[format |-> f, list |-> l, records |-> s, cut |-> c] : s \in OldRecords(f, l), c \in 0..Len(l)} :
             f \in {"2171", "2173"}, l \in Lists2}
    \cup {[format |-> "2173", list |-> l, records |-> <<>>, cut |-> 0] : l \in BadLists}
    \cup {[format |-> f, list |-> <<OldCpu>>, records |-> <<>>, cut |-> 0] : f \in {"current", "other"}}

(* ------------------------------ behaviour ------------------------------- *)

LinesInit == \E n \in Shown : \E o \in OptionsOf(n) : \E c \in Samples3(n, o.bare) : Init(n, o, c)
LinesNext ==
    \/ /\ Len(lines) < 2
       /\ \E c \in Samples3(which, opts.bare) :
            Follows(which, c, Left(which, prev, curr, opts)) /\ write_stats(c, IF lines = <<>> THEN 1 ELSE 3)
    \/ write_stats_avg

NoFile == [format |-> "other", list |-> <<>>, records |-> <<>>, cut |-> 0]
NoLines == Init("pcsw", Plain, <<>>)
MCInit ==
    /\ RecordInit
    /\ \/ tool = "lines" /\ format = "json" /\ LinesInit /\ ConvertInit(NoFile)
       \/ tool = "record" /\ NoLines /\ ConvertInit(NoFile)
       \/ tool = "convert" /\ format = "json" /\ NoLines /\ \E f \in OldFiles : ConvertInit(f)
MCNext ==
    \/ tool = "lines" /\ LinesNext /\ UNCHANGED <<tool, recordVars, convertVars>>
    \/ tool = "record" /\ RecordNext /\ UNCHANGED <<tool, lineVars, convertVars>>
    \/ tool = "convert" /\ ConvertNext /\ UNCHANGED <<tool, lineVars, recordVars>>
MCSpec == MCInit /\ [][MCNext]_mcVars

\* All the activities of act[].
AllShown == Range(act)
=============================================================================
