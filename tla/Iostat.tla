------------------------------- MODULE Iostat -------------------------------
(***************************************************************************)
(* iostat: the list of devices, the two samples kept for each of them, the *)
(* groups, and the loop that reads, reports and sleeps.                    *)
(*                                                                         *)
(* Each entry of dev_list keeps two samples, and curr says which of them   *)
(* is being filled.  A device that has left the system stays in the list,  *)
(* not existing, and the sample it should have filled keeps what it held:  *)
(* the values read two samples before.                                     *)
(*                                                                         *)
(* The order of the list is not modelled, except for what it decides: the  *)
(* group a device belongs to is the last group entered before it, grp.     *)
(***************************************************************************)
EXTENDS DeviceCounters, FiniteSetsExt

CONSTANTS
    Groups,         \* names of groups of devices
    NoGroup,        \* not in a group
    Width32,        \* an unsigned int holds 0 .. Width32 - 1
    Options         \* the command lines: see the fields of opt in TypeOK

VARIABLES
    pc,             \* "read", "write", "pause", "done"
    opt,            \* the options of this run
    dev_list,       \* entry of each device
    groups,         \* entry of each group
    curr,           \* which of the two samples is the current one
    uptime_cs,      \* the reading each of the two uptimes was read at
    count,          \* reports left, -1 if unlimited
    skip            \* the next report is not displayed

toolVars == <<pc, opt, dev_list, groups, curr, uptime_cs, count, skip, out>>
vars == <<kernVars, toolVars>>

T_PART == 0
T_DEV == 1
T_PART_DEV == 2
T_GROUP == 3

Slots == {0, 1}

(* -------------------------- the list of devices ------------------------- *)

Unlisted == [in |-> FALSE, dev_tp |-> T_PART, exist |-> FALSE, num |-> FALSE,
             grp |-> NoGroup, st |-> [i \in Slots |-> NoStats]]

(* The entry of a device added to the list: what is not found in /sys/block *)
(* is taken for a partition, and num says if its numbers could be had.      *)
NewEntry(d, dtype, g) ==
    [in     |-> TRUE,
     dev_tp |-> IF kern[d].up /\ d \in Disks
                THEN IF dtype = T_PART_DEV THEN T_PART_DEV ELSE T_DEV
                ELSE T_PART,
     exist  |-> TRUE,
     num    |-> kern[d].up,
     grp    |-> g,
     st     |-> [i \in Slots |-> NoStats]]

(* add_list_device() for a device found by a reading: at the end of the list. *)
Found(e, d) ==
    IF e.in THEN [e EXCEPT !.exist = TRUE] ELSE NewEntry(d, T_PART, opt.last)

(* Mutant of SetNonexistent: the flags are not cleared. *)
SetNonexistentNever(l) == l

(* set_devices_nonexistent() *)
SetNonexistent(l) == [d \in Devices |-> [l[d] EXCEPT !.exist = FALSE]]

(* The entry of d, once its counters have been copied in the current sample. *)
Filled(e, d) == [e EXCEPT !.st[curr] = Stats(d, sample')]

(* read_diskstats_stat(): every registered device is read, and listed. *)
ReadDiskstats(l) ==
    [d \in Devices |-> IF kern[d].up THEN Filled(Found(l[d], d), d) ELSE l[d]]

(* The entries of the list read_sysfs_dlist_stat() reads by themselves. *)
ReadAlone(l) ==
    {d \in Devices :
        /\ l[d].in /\ kern[d].up
        /\ IF l[d].dev_tp = T_PART THEN l[d].num ELSE d \in Disks}

(* The partitions read along with a whole device, and every whole device. *)
ReadAlong(l) ==
    {p \in Parts : kern[p].up /\ l[DiskOf[p]].in /\ l[DiskOf[p]].dev_tp = T_PART_DEV}
    \cup {d \in Disks : opt.all /\ kern[d].up}

ReadSysfs(l) ==
    [d \in Devices |->
        IF d \in ReadAlone(l) \cup ReadAlong(l) THEN Filled(Found(l[d], d), d) ELSE l[d]]

(* ------------------------------ the reports ----------------------------- *)

(* A pretty extended report is displayed in four parts. *)
InParts == opt.pretty /\ opt.ext /\ ~opt.json
FirstPart == IF InParts THEN 1 ELSE 0
LastPart == IF InParts THEN 4 ELSE 0

Members(g) == {d \in Devices : dev_list[d].in /\ dev_list[d].grp = g /\ dev_list[d].exist}

(* compute_device_groups_stats(): unused devices are left aside. *)
Added(g) == {d \in Members(g) : opt.unfiltered \/ dev_list[d].st[curr].ios # 0}

(* Members are added to a group while the first part is displayed: the     *)
(* group starts again from zero with each part.                            *)
GroupStats(g, part) ==
    IF part = FirstPart
    THEN [ios |-> MapThenSumSet(LAMBDA d : dev_list[d].st[curr].ios, Added(g)),
          sec |-> MapThenSumSet(LAMBDA d : dev_list[d].st[curr].sec, Added(g)),
          at  |-> sample, reg |-> 0]
    ELSE [NoStats EXCEPT !.at = sample]

(* A device that seems to have been removed, then inserted again. *)
Replaced(i, j) == i.ios < j.ios /\ (j.sec = 0 \/ i.sec < j.sec)

(* Is a line displayed for these two samples?  (-z, and unused devices.) *)
Active(i, j) ==
    /\ opt.unfiltered \/ i.ios # 0
    /\ opt.zero => i.ios # j.ios

(* The two values displayed: guarded in an extended report; in a basic one *)
(* differences of unsigned longs, a decrease of the sectors being taken for *)
(* that of a 32 bit counter.                                                *)
Values(i, j) ==
    IF opt.ext THEN <<Guarded(i.ios, j.ios), Guarded(i.sec, j.sec)>>
    ELSE <<Minus(i.ios, j.ios),
           IF i.sec < j.sec /\ j.sec < Width32 THEN Minus(i.sec, j.sec) % Width32
                                               ELSE Minus(i.sec, j.sec)>>

Line(name, part, i, j, ndev) ==
    LET base == IF Replaced(i, j) THEN NoStats ELSE j
        v == Values(i, base)
    IN  [name |-> name, part |-> part, ios |-> v[1], sec |-> v[2],
         at |-> base.at, reg |-> base.reg, since |-> uptime_cs[1 - curr], ndev |-> ndev]

DeviceLines(part) ==
    {Line(d, part, dev_list[d].st[curr], dev_list[d].st[1 - curr], 1) :
        d \in {e \in Devices :
                /\ dev_list[e].in /\ dev_list[e].exist
                /\ ~(opt.gonly /\ dev_list[e].grp # NoGroup)
                /\ Active(dev_list[e].st[curr], dev_list[e].st[1 - curr])}}

(* The number of members is added to the type of the group at each report. *)
GroupType(g) == groups[g].dev_tp + Cardinality(Members(g))

GroupLines(part) ==
    {Line(g, part, GroupStats(g, part), groups[g].st[1 - curr], GroupType(g) - T_GROUP) :
        g \in {h \in opt.groups : Active(GroupStats(h, part), groups[h].st[1 - curr])}}

AllLines == UNION {DeviceLines(p) \cup GroupLines(p) : p \in FirstPart..LastPart}

(* An extended line is not printed for a group without devices. *)
Printed(l) == ~(opt.ext /\ l.name \in Groups /\ l.ndev = 0)

Report == {l \in AllLines : Printed(l)}

(* ------------------------------- the loop ------------------------------- *)

ReadStats ==
    /\ pc = "read"
    /\ sample' = sample + 1
    /\ uptime_cs' = [uptime_cs EXCEPT ![curr] = sample']
    /\ dev_list' = IF opt.every THEN ReadDiskstats(SetNonexistent(dev_list))
                                ELSE ReadSysfs(SetNonexistent(dev_list))
    /\ pc' = "write"
    /\ UNCHANGED <<kern, lastk, opt, groups, curr, count, skip, out>>

(* write_stats(), which a skipped report goes through for the groups; count. *)
WriteStats ==
    /\ pc = "write"
    /\ groups' = [g \in Groups |->
                    IF g \notin opt.groups THEN groups[g]
                    ELSE [dev_tp |-> GroupType(g),
                          st |-> [groups[g].st EXCEPT ![curr] = GroupStats(g, LastPart)]]]
    /\ out' = IF skip THEN {} ELSE Report
    /\ count' = IF ~skip /\ count > 0 THEN count - 1 ELSE count
    /\ pc' = IF count' = 0 THEN "done" ELSE "pause"
    /\ UNCHANGED <<kernVars, opt, dev_list, curr, uptime_cs, skip>>

(* The tool sleeps until the alarm: time passes for the devices. *)
Pause ==
    /\ pc = "pause" /\ sample < MaxSamples
    /\ lastk' = kern
    /\ Elapse
    /\ curr' = 1 - curr
    /\ skip' = FALSE
    /\ out' = {}
    /\ pc' = "read"
    /\ UNCHANGED <<sample, opt, dev_list, groups, uptime_cs, count>>

(* SIGINT ends the pause and the loop. *)
Interrupted ==
    /\ pc = "pause"
    /\ curr' = 1 - curr
    /\ skip' = FALSE
    /\ count' = 0
    /\ pc' = "done"
    /\ UNCHANGED <<kernVars, opt, dev_list, groups, uptime_cs, out>>

Done == pc = "done" /\ UNCHANGED vars

Init ==
    /\ KernInit
    /\ opt \in Options
    /\ dev_list = [d \in Devices |->
                    IF d \notin DOMAIN opt.listed THEN Unlisted
                    ELSE NewEntry(d, IF d \in opt.pdev THEN T_PART_DEV ELSE T_PART,
                                  opt.listed[d])]
    /\ groups = [g \in Groups |-> [dev_tp |-> T_GROUP, st |-> [i \in Slots |-> NoStats]]]
    /\ curr = 1
    /\ uptime_cs = [i \in Slots |-> 0]
    /\ count = opt.count
    /\ skip = opt.omit
    /\ out = {}
    /\ pc = "read"

Next == ReadStats \/ WriteStats \/ Pause \/ Interrupted \/ Done

Spec == Init /\ [][Next]_vars

(* ------------------------------ properties ------------------------------ *)

Entries == [in: BOOLEAN, dev_tp: T_PART..T_PART_DEV, exist: BOOLEAN, num: BOOLEAN,
            grp: Groups \cup {NoGroup}, st: [Slots -> Samples]]

TypeOK ==
    /\ KernTypeOK
    /\ pc \in {"read", "write", "pause", "done"}
    /\ opt \in Options
    /\ dev_list \in [Devices -> Entries]
    /\ \A g \in Groups : groups[g].dev_tp \in Nat /\ groups[g].dev_tp >= T_GROUP
    /\ curr \in Slots
    /\ uptime_cs \in [Slots -> 0..MaxSamples]
    /\ count \in Nat \cup {-1}
    /\ skip \in BOOLEAN

(* What the command line selects; a device that is entered on it but is not *)
(* registered when iostat starts is never found (add_list_device() takes it *)
(* for a partition without numbers).                                         *)
Selected(d) ==
    \/ opt.every
    \/ opt.all /\ d \in Disks
    \/ d \in DOMAIN opt.listed /\ dev_list[d].num
    \/ d \in Parts /\ DiskOf[d] \in opt.pdev /\ dev_list[DiskOf[d]].num

(* Each report has a line in every part for each device that is registered, *)
(* selected and used, and for no other: a device that left is not displayed *)
(* although its entry stays in the list, and is again when it is back.      *)
DevicesReported ==
    pc = "pause" /\ ~skip /\ ~opt.zero =>
        \A p \in FirstPart..LastPart :
            {l.name : l \in {m \in OfDevices : m.part = p}} =
            {d \in Devices : /\ kern[d].up /\ Selected(d)
                             /\ opt.unfiltered \/ kern[d].ios # 0
                             /\ ~(opt.gonly /\ dev_list[d].grp # NoGroup)}

(* The line of a group is the sum of what its devices did since the previous *)
(* report, as long as none of them came or went (a pretty extended report    *)
(* starts the sum again with each of its parts, and is another matter).      *)
GroupsTrue ==
    \A l \in out :
        /\ l.name \in Groups /\ ~InParts
        /\ \A d \in Devices : dev_list[d].grp = l.name =>
                Stayed(d) \/ (~kern[d].up /\ ~lastk[d].up)
        => /\ (l.ios - MapThenSumSet(LAMBDA d : Did(d).ios, Members(l.name))) % Width = 0
           /\ (l.sec - MapThenSumSet(LAMBDA d : Did(d).sec, Members(l.name))) % Width = 0

(* The utilization of a group is divided by the number of its devices        *)
(* (iostat.h: "4 means 1 device in the group, 5 means 2 devices").           *)
GroupSize == \A l \in out : l.name \in Groups => l.ndev = Cardinality(Members(l.name))
=============================================================================
