----------------------------- MODULE Cifsiostat -----------------------------
(***************************************************************************)
(* cifsiostat: the same list of entries with two samples as iostat, for    *)
(* the CIFS shares found in /proc/fs/cifs/Stats.  The operations and the   *)
(* bytes of a share are its ios and sec.  A report is skipped without      *)
(* going through write_stats(), nothing looks for a share that has been    *)
(* mounted again, and a file that cannot be read ends the program.         *)
(***************************************************************************)
EXTENDS DeviceCounters

CONSTANTS Options       \* the command lines: [json, omit, count]

VARIABLES pc, opt,
    dev_list,           \* the entry of each share
    curr, uptime_cs, count, skip,
    failed              \* exit(1): no statistics were found

toolVars == <<pc, opt, dev_list, curr, uptime_cs, count, skip, out, failed>>
vars == <<kernVars, toolVars>>

Slots == {0, 1}
Unlisted == [in |-> FALSE, exist |-> FALSE, st |-> [i \in Slots |-> NoStats]]

(* add_list_cifs(), then the counters copied in the current sample. *)
ReadShare(e, d) ==
    [in |-> TRUE, exist |-> TRUE, st |-> [e.st EXCEPT ![curr] = Stats(d, sample')]]

(* The list after read_cifs_stat(): every mounted share is read. *)
ReadList ==
    [d \in Devices |-> IF kern[d].up THEN ReadShare(dev_list[d], d)
                       ELSE [dev_list[d] EXCEPT !.exist = FALSE]]

Line(d) ==
    LET i == dev_list[d].st[curr]
        j == dev_list[d].st[1 - curr]
    IN  [name |-> d, ios |-> Minus(i.ios, j.ios), sec |-> Minus(i.sec, j.sec),
         at |-> j.at, reg |-> j.reg, since |-> uptime_cs[1 - curr]]

Report == {Line(d) : d \in {e \in Devices : dev_list[e].exist}}

(* One reading; the file may be missing (the module is unloaded). *)
ReadStats ==
    /\ pc = "read"
    /\ sample' = sample + 1
    /\ uptime_cs' = [uptime_cs EXCEPT ![curr] = sample']
    /\ \/ dev_list' = ReadList /\ pc' = "write" /\ UNCHANGED <<count, failed>>
       \/ /\ \A d \in Devices : ~kern[d].up
          /\ dev_list' = [d \in Devices |-> [dev_list[d] EXCEPT !.exist = FALSE]]
          /\ IF opt.json THEN pc' = "write" /\ count' = 0 /\ UNCHANGED failed
                         ELSE pc' = "done" /\ failed' = TRUE /\ UNCHANGED count
    /\ UNCHANGED <<kern, lastk, opt, curr, skip, out>>

WriteStats ==
    /\ pc = "write"
    /\ out' = IF skip THEN {} ELSE Report
    /\ count' = IF ~skip /\ count > 0 THEN count - 1 ELSE count
    /\ pc' = IF count' = 0 THEN "done" ELSE "pause"
    /\ UNCHANGED <<kernVars, opt, dev_list, curr, uptime_cs, skip, failed>>

(* Mutant of Pause: both samples of the entries are read in the same slot. *)
PauseSameSlot ==
    /\ pc = "pause" /\ sample < MaxSamples
    /\ lastk' = kern
    /\ Elapse
    /\ skip' = FALSE
    /\ out' = {}
    /\ pc' = "read"
    /\ UNCHANGED <<sample, opt, dev_list, curr, uptime_cs, count, failed>>

Pause ==
    /\ pc = "pause" /\ sample < MaxSamples
    /\ lastk' = kern
    /\ Elapse
    /\ curr' = 1 - curr
    /\ skip' = FALSE
    /\ out' = {}
    /\ pc' = "read"
    /\ UNCHANGED <<sample, opt, dev_list, uptime_cs, count, failed>>

Interrupted ==
    /\ pc = "pause"
    /\ curr' = 1 - curr
    /\ skip' = FALSE
    /\ count' = 0
    /\ pc' = "done"
    /\ UNCHANGED <<kernVars, opt, dev_list, uptime_cs, out, failed>>

Done == pc = "done" /\ UNCHANGED vars

Init ==
    /\ KernInit
    /\ opt \in Options
    /\ dev_list = [d \in Devices |-> Unlisted]
    /\ curr = 1
    /\ uptime_cs = [i \in Slots |-> 0]
    /\ count = opt.count
    /\ skip = opt.omit
    /\ out = {}
    /\ failed = FALSE
    /\ pc = "read"

Next == ReadStats \/ WriteStats \/ Pause \/ Interrupted \/ Done

Spec == Init /\ [][Next]_vars

TypeOK ==
    /\ KernTypeOK
    /\ pc \in {"read", "write", "pause", "done"}
    /\ opt \in Options
    /\ dev_list \in [Devices -> [in: BOOLEAN, exist: BOOLEAN, st: [Slots -> Samples]]]
    /\ curr \in Slots
    /\ uptime_cs \in [Slots -> 0..MaxSamples]
    /\ count \in Nat \cup {-1}
    /\ skip \in BOOLEAN /\ failed \in BOOLEAN

(* Each report has a line for each mounted share, and for no other. *)
DevicesReported ==
    pc = "pause" /\ ~skip =>
        {l.name : l \in OfDevices} = {d \in Devices : kern[d].up}
=============================================================================
