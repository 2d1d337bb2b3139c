----------------------------- MODULE MCSadcFile -----------------------------
(* Small instances of SadcFile for TLC. *)
EXTENDS SadcFile

CONSTANTS p1, p2, p3   \* sadc processes

mem == 1    \* A_MEMORY: one structure
disk == 2   \* A_DISK: a variable number of items
MCCounted == {disk}

Stats(l, f, r, k, d, w) ==
  [lock |-> l, force |-> f, rotat |-> r, run |-> "stats", count |-> k, outfile |-> d, wants |-> w]
Special(l, f, t, d) ==
  [lock |-> l, force |-> f, rotat |-> FALSE, run |-> t, count |-> 1, outfile |-> d, wants |-> << mem >>]

All == << mem, disk >>

\* sa1 from cron, an overlapping sa1 without -F, and the restart mark of a boot,
\* all on one file which they find missing, empty or in another format.
ArgsCreate == (p1 :> Stats(TRUE, TRUE, FALSE, 3, 1, All))
           @@ (p2 :> Stats(TRUE, FALSE, FALSE, 1, 1, All))
           @@ (p3 :> [Special(TRUE, TRUE, "restart", 1) EXCEPT !.wants = All])

\* sa1 that runs over midnight, an overlapping sa1 and a comment, on a file that
\* can be appended to: its list prevails.
ArgsAppend == (p1 :> Stats(TRUE, TRUE, TRUE, 2, 1, << disk, mem >>))
           @@ (p2 :> Stats(TRUE, FALSE, FALSE, 1, 1, << disk >>))
           @@ (p3 :> Special(TRUE, TRUE, "comment", 1))

\* A sadc -L that runs over midnight; nobody else is there.
ArgsRotateLocked == p1 :> Stats(TRUE, FALSE, TRUE, 2, 1, All)

FileJunk == [d \in Day |-> "junk"]
FileDays == << "current", "past" >>
FileTomorrow == << "none", "current" >>
=============================================================================
