------------------------------ MODULE MCDevices -----------------------------
(***************************************************************************)
(* iostat, cifsiostat or tapestat over the same devices: tool says which   *)
(* of them the behaviour is a run of.  The variables of the other tools    *)
(* keep their initial values.                                              *)
(***************************************************************************)
EXTENDS Tapestat

CONSTANTS Groups, NoGroup, Width32,
    Tools           \* the tools this instance runs

VARIABLES tool, dev_list, groups, curr, uptime_cs

mcVars == <<vars, tool, dev_list, groups, curr, uptime_cs>>

MCDiskOf == [p \in {"sda1"} |-> "sda"]
MCDriveSeq == <<"sda", "sdb">>
MCWorks == {<<0, 0>>, <<2, 1>>, <<1, 2>>}

(* ------------------------------ command lines --------------------------- *)

Plain == [listed |-> <<>>, pdev |-> {}, groups |-> {}, last |-> NoGroup,
          json |-> FALSE, ext |-> FALSE, every |-> FALSE, all |-> FALSE,
          unfiltered |-> TRUE, zero |-> FALSE, pretty |-> FALSE, gonly |-> FALSE,
          omit |-> FALSE, count |-> -1]

AllDisks == [Plain EXCEPT !.all = TRUE, !.unfiltered = FALSE]
InGroup(g) == [Plain EXCEPT !.listed = [d \in Disks |-> g], !.groups = {g}, !.last = g]

IoByName == {
    [AllDisks EXCEPT !.ext = TRUE, !.pretty = TRUE],
    [AllDisks EXCEPT !.omit = TRUE, !.zero = TRUE, !.count = 2],
    [AllDisks EXCEPT !.every = TRUE, !.json = TRUE, !.ext = TRUE],
    [Plain EXCEPT !.listed = [d \in {"sda"} |-> NoGroup], !.pdev = {"sda"}],
    [Plain EXCEPT !.listed = [d \in {"sda1"} |-> NoGroup], !.ext = TRUE] }
IoOneGroup == UNION {{[InGroup(g) EXCEPT !.ext = e] : e \in BOOLEAN} : g \in Groups}
IoAllGroups == {[InGroup(g) EXCEPT !.groups = Groups, !.json = TRUE, !.gonly = TRUE] : g \in Groups}

IoOptions == IoByName \cup IoOneGroup \cup IoAllGroups

OtherOptions == {[json |-> j, omit |-> y, zero |-> FALSE, count |-> -1] : j, y \in BOOLEAN}
    \cup {[json |-> FALSE, omit |-> FALSE, zero |-> TRUE, count |-> 2]}

(* ------------------------------ composition ----------------------------- *)

I == INSTANCE Iostat WITH Options <- IoOptions
C == INSTANCE Cifsiostat WITH Options <- OtherOptions

NoList == dev_list = <<>> /\ groups = <<>> /\ curr = 0 /\ uptime_cs = <<>>
NoTapes == tape_old_stats = <<>> /\ tape_new_stats = <<>>

MCInit ==
    /\ tool \in Tools
    /\ \/ tool = "iostat" /\ I!Init /\ NoTapes /\ failed = FALSE
       \/ tool = "cifsiostat" /\ C!Init /\ NoTapes /\ groups = <<>>
       \/ tool = "tapestat" /\ Init /\ NoList

OfIostat == UNCHANGED <<tool, tape_old_stats, tape_new_stats, failed>> /\ tool = "iostat"
OfCifsiostat == UNCHANGED <<tool, tape_old_stats, tape_new_stats, groups>> /\ tool = "cifsiostat"
OfTapestat == UNCHANGED <<tool, dev_list, groups, curr, uptime_cs>> /\ tool = "tapestat"

MCNext ==
    \/ OfIostat /\ I!Next
    \/ OfCifsiostat /\ C!Next
    \/ OfTapestat /\ Next

MCSpec == MCInit /\ [][MCNext]_mcVars

(* ------------------------------- properties ----------------------------- *)

(* The devices of a report are those the tool should find, as each defines. *)
ReportsDevices ==
    /\ tool = "iostat" => I!DevicesReported
    /\ tool = "cifsiostat" => C!DevicesReported
    /\ tool = "tapestat" => DrivesReported

(* The lines of the three tools are true, those of the groups of iostat (-g)
   with the others: what they show was counted between the two samples. *)
MCLinesTrue == LinesTrue /\ (tool = "iostat" => I!GroupsTrue)

(* The number of devices of a group is its number of devices (iostat). *)
GroupSize == tool = "iostat" => I!GroupSize
=============================================================================
