------------------------------ MODULE Tapestat ------------------------------
(***************************************************************************)
(* tapestat: two arrays indexed by the number of the drive, tape_old_stats *)
(* and tape_new_stats, that are swapped after each report.  An element is  *)
(* valid if its drive could be read, and a drive is reported when both its *)
(* elements are.  The operations of a drive and its time are its ios and   *)
(* sec.                                                                    *)
(*                                                                         *)
(* The arrays grow when a drive with a larger number appears; the new      *)
(* elements are invalid, and their counters are whatever the memory held.  *)
(***************************************************************************)
EXTENDS DeviceCounters

CONSTANTS
    DriveSeq,       \* the drives, st0 first
    Garbage,        \* what uninitialised memory may hold
    Options         \* the command lines: [json, omit, zero, count]

ASSUME DrivesAssumption ==
    /\ DriveSeq \in Seq(Devices)
    /\ Garbage \subseteq Nat /\ Garbage # {}

VARIABLES pc, opt,
    tape_old_stats, tape_new_stats,     \* sequences of elements
    count, skip,
    failed                              \* exit(1): no drives were found

toolVars == <<pc, opt, tape_old_stats, tape_new_stats, count, skip, out, failed>>
vars == <<kernVars, toolVars>>

max_tape_drives == Len(tape_new_stats)

Numbers == DOMAIN DriveSeq
Ready(i) == kern[DriveSeq[i]].up

(* get_max_tape_drives(): one more than the largest number, and never less *)
(* than before, unless no drive at all has statistics.                      *)
NewMax ==
    IF \A i \in Numbers : ~Ready(i) THEN 0
    ELSE LET last == CHOOSE i \in Numbers : Ready(i) /\ \A j \in Numbers : Ready(j) => j <= i
         IN  IF last > max_tape_drives THEN last ELSE max_tape_drives

Element(s, v) == [valid |-> v, st |-> s]
Uninitialised(g) == Element([NoStats EXCEPT !.ios = g, !.sec = g], FALSE)

(* tape_gather_initial_stats(): the older array is zeros, and valid for the *)
(* drives that could be read; the others keep what was allocated.           *)
Gather ==
    \E g \in Garbage :
        /\ tape_new_stats' = [i \in 1..NewMax |->
                IF Ready(i) THEN Element(Stats(DriveSeq[i], sample'), TRUE) ELSE Uninitialised(g)]
        /\ tape_old_stats' = [i \in 1..NewMax |->
                IF Ready(i) THEN Element(NoStats, TRUE)
                            ELSE [Uninitialised(g) EXCEPT !.valid = TRUE]]

(* tape_check_tapes_and_realloc() *)
Grown(a, g) ==
    [i \in 1..(IF NewMax > Len(a) THEN NewMax ELSE Len(a)) |->
        IF i <= Len(a) THEN a[i] ELSE Uninitialised(g)]

(* An element of tape_get_updated_stats(): a drive that cannot be read, or *)
(* whose time has decreased, is not valid.                                  *)
Updated(new, old, i) ==
    IF Ready(i)
    THEN LET s == Stats(DriveSeq[i], sample') IN Element(s, ~(s.sec < old.st.sec))
    ELSE [new EXCEPT !.valid = FALSE]

(* tape_get_updated_stats() *)
Update ==
    \E g \in Garbage :
        LET old == Grown(tape_old_stats, g)
            new == Grown(tape_new_stats, g)
        IN  /\ tape_old_stats' = old
            /\ tape_new_stats' = [i \in DOMAIN new |-> Updated(new[i], old[i], i)]

(* tape_calc_one_stats(): differences of 64 bit values. *)
Line(i) ==
    LET new == tape_new_stats[i].st
        old == tape_old_stats[i].st
    IN  [name |-> DriveSeq[i], ios |-> Minus(new.ios, old.ios), sec |-> Minus(new.sec, old.sec),
         at |-> old.at, reg |-> old.reg, since |-> IF sample > 1 THEN sample - 1 ELSE 0]

(* DISPLAY_TAPE_STATS(), -z *)
Displayed(i) ==
    /\ tape_new_stats[i].valid /\ tape_old_stats[i].valid
    /\ ~(opt.zero /\ tape_new_stats[i].st.ios = tape_old_stats[i].st.ios
                  /\ tape_new_stats[i].st.sec = tape_old_stats[i].st.sec)

Report == {Line(i) : i \in {k \in DOMAIN tape_new_stats : Displayed(k)}}

Swap == tape_old_stats' = tape_new_stats /\ tape_new_stats' = tape_old_stats

(* The first reading, which may find no drive. *)
GatherStats ==
    /\ pc = "read" /\ max_tape_drives = 0
    /\ sample' = sample + 1
    /\ IF NewMax = 0 /\ ~opt.json
       THEN /\ failed' = TRUE /\ pc' = "done"
            /\ UNCHANGED <<tape_old_stats, tape_new_stats, count>>
       ELSE /\ Gather
            /\ count' = IF NewMax = 0 THEN 0 ELSE count
            /\ pc' = "write"
            /\ UNCHANGED failed
    /\ UNCHANGED <<kern, lastk, opt, skip, out>>

UpdateStats ==
    /\ pc = "read" /\ max_tape_drives > 0
    /\ sample' = sample + 1
    /\ Update
    /\ pc' = "write"
    /\ UNCHANGED <<kern, lastk, opt, count, skip, out, failed>>

WriteStats ==
    /\ pc = "write"
    /\ out' = IF skip THEN {} ELSE Report
    /\ Swap
    /\ count' = IF ~skip /\ count > 0 THEN count - 1 ELSE count
    /\ pc' = IF count' = 0 THEN "done" ELSE "pause"
    /\ UNCHANGED <<kernVars, opt, skip, failed>>

Pause ==
    /\ pc = "pause" /\ sample < MaxSamples
    /\ lastk' = kern
    /\ Elapse
    /\ skip' = FALSE
    /\ out' = {}
    /\ pc' = "read"
    /\ UNCHANGED <<sample, opt, tape_old_stats, tape_new_stats, count, failed>>

Interrupted ==
    /\ pc = "pause"
    /\ skip' = FALSE
    /\ count' = 0
    /\ pc' = "done"
    /\ UNCHANGED <<kernVars, opt, tape_old_stats, tape_new_stats, out, failed>>

Done == pc = "done" /\ UNCHANGED vars

Init ==
    /\ KernInit
    /\ opt \in Options
    /\ tape_old_stats = <<>> /\ tape_new_stats = <<>>
    /\ count = opt.count
    /\ skip = opt.omit
    /\ out = {}
    /\ failed = FALSE
    /\ pc = "read"

Next == GatherStats \/ UpdateStats \/ WriteStats \/ Pause \/ Interrupted \/ Done

Spec == Init /\ [][Next]_vars

Elements == [valid: BOOLEAN, st: Samples]

TypeOK ==
    /\ KernTypeOK
    /\ pc \in {"read", "write", "pause", "done"}
    /\ opt \in Options
    /\ tape_old_stats \in Seq(Elements)
    /\ tape_new_stats \in Seq(Elements)
    /\ Len(tape_old_stats) = Len(tape_new_stats)
    /\ count \in Nat \cup {-1}
    /\ skip \in BOOLEAN /\ failed \in BOOLEAN

(* A report has no line for a drive that cannot be read, nor for one that    *)
(* was not read by the previous reading (the first report excepted): what    *)
(* the arrays held before is never displayed.                                *)
DrivesReported ==
    \A l \in OfDevices : kern[l.name].up /\ (sample > 1 => lastk[l.name].up)
=============================================================================
