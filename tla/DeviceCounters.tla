--------------------------- MODULE DeviceCounters ---------------------------
(***************************************************************************)
(* The devices whose activity iostat, cifsiostat and tapestat report, as   *)
(* the kernel shows them: a device (disk, partition, CIFS share or tape    *)
(* drive) has counters that only grow while it is registered, and that     *)
(* start from zero when it is registered again.                            *)
(*                                                                         *)
(* Two counters stand for all those of a device: the number of operations  *)
(* and the amount of data (sectors, bytes, or the time of a tape).  The    *)
(* tools look at both to guess that a device has been replaced.            *)
(*                                                                         *)
(* sample counts the times the tool has read the counters.  lastk is the   *)
(* value the counters had at its previous reading: it is no part of the    *)
(* tools, and tells what a report should say.                              *)
(*                                                                         *)
(* A line of a report is [name, ios, sec, at, since, ...]: the device, the *)
(* two differences, the reading of the sample they are taken from (0: from *)
(* zero), and the reading the time of the rates is counted from.           *)
(***************************************************************************)
EXTENDS Integers, FiniteSets, Sequences

CONSTANTS
    Disks,          \* whole devices (or shares, or drives)
    Parts,          \* partitions
    DiskOf,         \* the disk of each partition
    Works,          \* what a device may do in an interval: set of <<ios, sec>>
    MaxReg,         \* bound: how many times a device is registered again
    MaxSamples,     \* bound: number of readings of a run
    Width           \* an unsigned long holds 0 .. Width - 1

ASSUME DevicesAssumption ==
    /\ Disks \cap Parts = {}
    /\ DiskOf \in [Parts -> Disks]
    /\ Works \subseteq Nat \X Nat
    /\ MaxReg \in Nat /\ MaxSamples \in Nat /\ Width \in Nat \ {0}

Devices == Disks \cup Parts
Disk(d) == IF d \in Parts THEN DiskOf[d] ELSE d

VARIABLES
    kern,           \* kern[d]: is d registered, its counters, which registration
    lastk,          \* kern, at the previous reading
    sample,         \* number of readings
    out             \* the last report of the tool: a set of lines

kernVars == <<kern, lastk, sample>>

Counters == [up: BOOLEAN, ios: Nat, sec: Nat, reg: 0..MaxReg]

Fresh(w, r) == [up |-> TRUE, ios |-> w[1], sec |-> w[2], reg |-> r]
Absent(r) == [up |-> FALSE, ios |-> 0, sec |-> 0, reg |-> r]

(* What may become of a device between two readings. *)
Fates == ({"works", "again"} \X Works) \cup {<<"leaves", <<0, 0>>>>}

Allowed(k, f) ==
    CASE f[1] = "works" -> k.up \/ (f[2] = <<0, 0>>)
      [] f[1] = "again" -> k.reg < MaxReg
      [] OTHER          -> k.up

After(k, f) ==
    CASE f[1] = "works" ->
            IF k.up THEN [k EXCEPT !.ios = @ + f[2][1], !.sec = @ + f[2][2]] ELSE k
      [] f[1] = "again" -> Fresh(f[2], k.reg + 1)
      [] OTHER          -> Absent(k.reg)

(* Time passes while the tool sleeps; a partition shares its disk's fate. *)
Elapse ==
    \E f \in [Disks -> Fates] :
        /\ \A d \in Disks : Allowed(kern[d], f[d])
        /\ kern' = [d \in Devices |-> After(kern[d], f[Disk(d)])]

KernInit ==
    /\ kern \in [Devices -> {Fresh(<<1, 1>>, 0), Absent(0)}]
    /\ \A p \in Parts : kern[p].up => kern[DiskOf[p]].up
    /\ lastk = [d \in Devices |-> Absent(0)]
    /\ sample = 0

KernTypeOK ==
    /\ kern \in [Devices -> Counters]
    /\ lastk \in [Devices -> Counters]
    /\ sample \in 0..MaxSamples

(* A copy of the counters of a device, and the reading they come from. *)
Stats(d, s) == [ios |-> kern[d].ios, sec |-> kern[d].sec, at |-> s, reg |-> kern[d].reg]
NoStats == [ios |-> 0, sec |-> 0, at |-> 0, reg |-> 0]
Samples == [ios: Nat, sec: Nat, at: 0..MaxSamples, reg: 0..MaxReg]

(* The difference of two unsigned longs. *)
Minus(a, b) == (a - b) % Width
(* A rate that is not displayed as such when the counter has decreased. *)
Guarded(a, b) == IF a < b THEN 0 ELSE a - b

(* d has been registered without a break since the previous reading. *)
Stayed(d) == kern[d].up /\ lastk[d].up /\ kern[d].reg = lastk[d].reg

(* What d did since the previous reading. *)
Did(d) ==
    IF Stayed(d)
    THEN [ios |-> kern[d].ios - lastk[d].ios, sec |-> kern[d].sec - lastk[d].sec]
    ELSE [ios |-> kern[d].ios, sec |-> kern[d].sec]

OfDevices == {l \in out : l.name \in Devices}

(* A device that stayed registered since the previous reading is reported   *)
(* with exactly what it did since then, and a device without an earlier     *)
(* sample with what it did since it was registered (modulo the width of the *)
(* counters): whichever devices came and went, and whichever of its samples *)
(* were not filled, a device is never compared with the sample of another   *)
(* time.  Two samples per entry in iostat and cifsiostat, two arrays in     *)
(* tapestat.                                                                *)
LinesTrue ==
    \A l \in OfDevices :
        Stayed(l.name) \/ l.at = 0 =>
            /\ (l.ios - Did(l.name).ios) % Width = 0
            /\ (l.sec - Did(l.name).sec) % Width = 0

(* The difference and the time it is divided by cover the same interval: the *)
(* sample compared with is that of the previous report ("covers the time     *)
(* since the previous report"), or there was none.  This is not so of a       *)
(* device that comes back to iostat after a report without it.               *)
SpansMatch == \A l \in OfDevices : l.at \in {0, l.since}
=============================================================================
