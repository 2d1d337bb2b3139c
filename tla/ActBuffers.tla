----------------------------- MODULE ActBuffers -----------------------------
(***************************************************************************)
(* The buffers of the activities in sadc and in the sar it sends its       *)
(* samples to: how many items are counted, announced, allocated, read and  *)
(* written, while devices, CPUs and interrupts come and go and the output  *)
(* file is rotated (sadc.c: sa_sys_init, open_ofile, reset_stats,          *)
(* read_stats, write_stats; sa_wrap.c; sa_common.c: allocate_buffers,      *)
(* reallocate_buffers; sar.c: read_header_data, read_sadc_stat_bunch).     *)
(*                                                                         *)
(* sadc and sar are taken in lockstep here, one phase after the other:     *)
(* module SadcPipe is about their interleavings.                           *)
(***************************************************************************)
EXTENDS Integers, FiniteSets

CONSTANTS
  Fixed,       \* activities of one structure (A_MEMORY, ...)
  Listed,      \* a counted list of items (A_DISK, A_NET_DEV, ...)
  Always,      \* A_CPU: its items are counted even if it is not collected
  Irq,         \* A_IRQ: CPUs x interrupts, read by wrap_read_stat_irq()
  Freq,        \* A_PWR_FREQ: CPUs x frequencies, read by wrap_read_cpu_wghfreq()
  Selected,    \* the activities selected with -S
  FirstFiles,  \* what the file may hold when sadc starts, and
  NextFiles,   \* after a rotation: NewFile, or the nr and nr2 of each activity listed
  MaxItems,    \* items of an activity at any time
  MaxSubs      \* sub-items of an activity at any time

Counted == Listed \cup Irq \cup Freq   \* AO_COUNTED
Matrix == Irq \cup Freq                \* f_count2_index >= 0
Activity == Fixed \cup Counted

NewFile == [new |-> TRUE]
FileList ==
  { f \in [listed: SUBSET Activity, nr: [Activity -> 1..MaxItems], nr2: [Activity -> 1..MaxSubs]] :
      (\A a \in Fixed : f.nr[a] = 1) /\ (\A a \in Activity \ Matrix : f.nr2[a] = 1) }

ASSUME ActBuffersAssumption ==
  /\ MaxItems \in Nat \ {0} /\ MaxSubs \in Nat \ {0}
  /\ Selected \subseteq Activity /\ Always \subseteq Listed
  /\ Fixed \cap Counted = {} /\ Listed \cap Matrix = {} /\ Irq \cap Freq = {}
  /\ FirstFiles \subseteq FileList \cup {NewFile}
  /\ NextFiles \subseteq FileList \cup {NewFile}

\* What sadc may find each time it looks: devices, CPUs and interrupts come and go.
Items == { i \in [Counted -> 0..MaxItems] : \A a \in Always \cup Matrix : i[a] > 0 }
Machine == [items: Items, subs: [Matrix -> 0..MaxSubs]]

VARIABLES
  phase,        \* what sadc does next
  collected,    \* activities with AO_COLLECTED
  nr_ini, nr2, nr_allocated,
  nr0,          \* _nr0
  cells,        \* structures that _buf0 has room for, 0 when it is NULL
  held,         \* structures in _buf0 that were read in this iteration
  was,          \* nr2 when the activity was read in this iteration, 0 if it was not
  lost,         \* activities that do not hold all that was read any more
  misfit,       \* activities whose buffer has been sized without their sub-items
  \* in sar
  snr_ini, snr2, snr_allocated,
  scells,       \* structures that buf[0], buf[1] and buf[2] have room for
  snr,          \* nr[curr]
  smisfit       \* activities whose buffers are not those of their sub-items

sadc == << collected, nr_ini, nr2, nr_allocated, nr0, cells, held, was, lost, misfit >>
sar == << snr_ini, snr2, snr_allocated, scells, snr, smisfit >>
vars == << phase, collected, nr_ini, nr2, nr_allocated, nr0, cells, held, was,
           lost, misfit, snr_ini, snr2, snr_allocated, scells, snr, smisfit >>

Phases == {"init", "open", "header", "reset", "read", "stdout", "file",
           "init again", "open again", "header again", "file again"}
\* From the reading of a sample to its last writing.
Holding == {"stdout", "file", "init again", "open again", "header again", "file again"}

Init ==
  /\ phase = "init"
  /\ collected = Selected
  /\ nr_ini = [a \in Activity |-> IF a \in Fixed THEN 1 ELSE -1]
  /\ nr2 = [a \in Activity |-> 1]
  /\ nr_allocated = [a \in Activity |-> 0]
  /\ nr0 = [a \in Activity |-> IF a \in Fixed THEN 1 ELSE -1]
  /\ cells = [a \in Activity |-> 0]
  /\ held = [a \in Activity |-> 0] /\ was = [a \in Activity |-> 0] /\ lost = {} /\ misfit = {}
  /\ snr_ini = [a \in Activity |-> IF a \in Fixed THEN 1 ELSE -1]
  /\ snr2 = [a \in Activity |-> 1]
  /\ snr_allocated = [a \in Activity |-> 0]
  /\ scells = [a \in Activity |-> 0]
  /\ snr = [a \in Activity |-> IF a \in Fixed THEN 1 ELSE -1]
  /\ smisfit = {}

-----------------------------------------------------------------------------
(* sadc. *)

\* Mutant of Kept: buffers are allocated again instead of resized.
KeptNone(h, room) == 0

Lesser(i, j) == IF i < j THEN i ELSE j

\* SREALLOC(): what is in the buffer stays there as far as it still fits.
Kept(h, room) == Lesser(h, room)

Found(a, m) == IF a \in Counted /\ a \in collected \cup Always THEN m.items[a] ELSE nr_ini[a]
CountNr2(a, m) == IF a \in Matrix /\ Found(a, m) > 0 THEN m.subs[a] ELSE nr2[a]
CountNr(a, m) == IF Found(a, m) > 0 /\ CountNr2(a, m) = 0 THEN 0 ELSE Found(a, m)

\* The buffers of the activities sized have room for what has been counted, fewer
\* items perhaps than were read; sub-items may have become more for the others too.
SizedAgain(sized, m) ==
  /\ lost' = lost \cup { a \in sized : CountNr(a, m) < nr0[a] \/ CountNr2(a, m) # nr2[a] }
  /\ misfit' = (misfit \ sized) \cup
       { a \in Activity \ sized : CountNr2(a, m) > nr2[a] /\ nr_allocated[a] > 0 }

\* Mutant of Count: activities with no item stay collected.
CountKeepEmpty(m) ==
  /\ nr_ini' = [a \in Activity |-> CountNr(a, m)]
  /\ nr2' = [a \in Activity |-> CountNr2(a, m)]
  /\ LET sized == { a \in collected : CountNr(a, m) > 0 } IN
       /\ cells' = [a \in Activity |->
            IF a \in sized THEN CountNr(a, m) * CountNr2(a, m) ELSE cells[a]]
       /\ nr_allocated' = [a \in Activity |-> IF a \in sized THEN CountNr(a, m) ELSE nr_allocated[a]]
       /\ SizedAgain(sized, m)
  /\ held' = [a \in Activity |-> Kept(held[a], cells'[a])]
  /\ UNCHANGED collected

\* Items are counted for the activities collected (their sub-items also for the
\* others), buffers get that size, and activities with no item are not collected
\* any more.
Count(m) ==
  /\ nr_ini' = [a \in Activity |-> CountNr(a, m)]
  /\ nr2' = [a \in Activity |-> CountNr2(a, m)]
  /\ LET sized == { a \in collected : CountNr(a, m) > 0 } IN
       /\ collected' = sized
       /\ cells' = [a \in Activity |->
            IF a \in sized THEN CountNr(a, m) * CountNr2(a, m) ELSE cells[a]]
       /\ nr_allocated' = [a \in Activity |-> IF a \in sized THEN CountNr(a, m) ELSE nr_allocated[a]]
       /\ SizedAgain(sized, m)
  /\ held' = [a \in Activity |-> Kept(held[a], cells'[a])]

\* sa_sys_init().
SysInit ==
  /\ phase \in {"init", "init again"}
  /\ \E m \in Machine : Count(m)
  /\ phase' = IF phase = "init" THEN "open" ELSE "open again"
  /\ UNCHANGED << nr0, was, sar >>

Larger(i, j) == IF i > j THEN i ELSE j

\* nr_ini of an activity that is listed in the file.
FileNr(a, f) == IF a \in Always /\ nr_ini[a] # 0 THEN nr_ini[a] ELSE f.nr[a]

\* Mutant of Adopt: nr_allocated does not follow nr_ini.
AdoptNoAlloc(f) ==
  /\ collected' = f.listed
  /\ nr_ini' = [a \in Activity |-> IF a \in f.listed THEN FileNr(a, f) ELSE nr_ini[a]]
  /\ nr2' = [a \in Activity |-> IF a \in f.listed THEN f.nr2[a] ELSE nr2[a]]
  /\ cells' = [a \in Activity |-> IF a \in f.listed THEN nr_allocated[a] * nr2'[a] ELSE cells[a]]
  /\ held' = [a \in Activity |-> Kept(held[a], cells'[a])]
  /\ misfit' = misfit \ f.listed
  /\ UNCHANGED << nr_allocated, lost >>

\* open_ofile() on a file that can be appended to: its list prevails, with its
\* numbers of items and sub-items.
Adopt(f) ==
  /\ collected' = f.listed
  /\ nr_ini' = [a \in Activity |-> IF a \in f.listed THEN FileNr(a, f) ELSE nr_ini[a]]
  /\ nr2' = [a \in Activity |-> IF a \in f.listed THEN f.nr2[a] ELSE nr2[a]]
  /\ nr_allocated' = [a \in Activity |->
       IF a \in f.listed THEN Larger(nr_ini'[a], nr_allocated[a]) ELSE nr_allocated[a]]
  /\ cells' = [a \in Activity |-> IF a \in f.listed THEN nr_allocated'[a] * nr2'[a] ELSE cells[a]]
  /\ held' = [a \in Activity |-> Kept(held[a], cells'[a])]
  /\ misfit' = misfit \ f.listed
  /\ UNCHANGED lost

OpenFile ==
  /\ phase \in {"open", "open again"}
  /\ \E f \in IF phase = "open" THEN FirstFiles ELSE NextFiles :
       IF f = NewFile THEN UNCHANGED sadc ELSE Adopt(f) /\ UNCHANGED << nr0, was >>
  /\ phase' = IF phase = "open" THEN "header" ELSE "header again"
  /\ UNCHANGED sar

\* reset_stats().
ResetStats ==
  /\ phase = "reset"
  /\ held' = [a \in Activity |-> 0]
  /\ was' = [a \in Activity |-> 0]
  /\ lost' = {}
  /\ phase' = "read"
  /\ UNCHANGED << collected, nr_ini, nr2, nr_allocated, nr0, cells, misfit, sar >>

\* The least k * 2^i that is at least m, or m itself when k is 0.
Doubled(k, m) ==
  LET twice[j \in Nat] == IF j >= m THEN j ELSE twice[2 * j] IN IF k = 0 THEN m ELSE twice[k]

\* What f_read() needs for n items: read_cpu_wghfreq() looks for one CPU more.
Needed(a, n) == IF a \in Freq THEN n + 1 ELSE n

\* nr_allocated after "do { nr_read = read(); if (nr_read < 0) reallocate_buffer(a); }
\* while (nr_read < 0)".
Reallocated(a, n) == Doubled(nr_allocated[a], Needed(a, n))

\* Mutant of RoomAfter: nr_allocated is doubled, not the buffer.
RoomNotDoubled(a, n) == cells[a]

\* reallocate_buffer() takes nr2 for 1; wrap_read_cpu_wghfreq() does not call it.
RoomAfter(a, n) ==
  IF Reallocated(a, n) = nr_allocated[a] THEN cells[a]
  ELSE IF a \in Freq THEN nr2[a] * Reallocated(a, n) ELSE Reallocated(a, n)

\* Every activity collected is read, and its buffer made larger when the items do
\* not fit.
Read(items) ==
  LET counted == collected \cap Counted IN
    /\ nr0' = [a \in Activity |-> IF a \in counted THEN items[a] ELSE nr0[a]]
    /\ nr_allocated' = [a \in Activity |->
         IF a \in counted THEN Reallocated(a, items[a]) ELSE nr_allocated[a]]
    /\ cells' = [a \in Activity |-> IF a \in counted THEN RoomAfter(a, items[a]) ELSE cells[a]]
    /\ held' = [a \in Activity |->
         IF a \in collected THEN Lesser(nr0'[a] * nr2[a], cells'[a]) ELSE held[a]]
    /\ was' = [a \in Activity |-> IF a \in collected THEN nr2[a] ELSE was[a]]
    /\ misfit' = misfit \cup
         { a \in counted \ Freq : Reallocated(a, items[a]) # nr_allocated[a] /\ nr2[a] > 1 }
    /\ lost' = misfit' \cap collected

\* read_stats().
ReadStats ==
  /\ phase = "read"
  /\ \E items \in Items : Read(items)
  /\ phase' = "stdout"
  /\ UNCHANGED << collected, nr_ini, nr2, sar >>

\* write_stats(ofd), and the next iteration, or a rotation.
WriteFile ==
  /\ phase \in {"file", "file again"}
  /\ phase' \in IF phase = "file" THEN {"reset", "init again"} ELSE {"reset"}
  /\ UNCHANGED << sadc, sar >>

-----------------------------------------------------------------------------
(* What sar makes of it. *)

\* allocate_buffers(): nothing to do unless there are more items than allocated.
Allocate(a, n) ==
  IF n > snr_allocated[a] THEN [nr |-> n, room |-> n * snr2'[a]]
                          ELSE [nr |-> snr_allocated[a], room |-> scells[a]]

\* setup_file_hdr(stdfd), read_header_data(), allocate_structures().
Header ==
  /\ phase \in {"header", "header again"}
  /\ snr_ini' = [a \in Activity |-> IF a \in collected THEN nr_ini[a] ELSE snr_ini[a]]
  /\ snr2' = [a \in Activity |-> IF a \in collected THEN nr2[a] ELSE snr2[a]]
  /\ snr_allocated' = [a \in Activity |-> Allocate(a, snr_ini'[a]).nr]
  /\ scells' = [a \in Activity |-> Allocate(a, snr_ini'[a]).room]
  /\ smisfit' = { a \in Activity : snr_ini'[a] <= snr_allocated[a]
                                  /\ (a \in smisfit \/ snr2'[a] > snr2[a]) }
  /\ phase' = IF phase = "header" THEN "reset" ELSE "file again"
  /\ UNCHANGED << sadc, snr >>

\* reallocate_buffers(): at least doubled.
MoreBuffers(a, n) ==
  IF n <= snr_allocated[a] THEN snr_allocated[a]
  ELSE IF snr_allocated[a] = 0 THEN n ELSE Doubled(2 * snr_allocated[a], n)

\* write_stats(stdfd), read_sadc_stat_bunch().
WriteStdout ==
  /\ phase = "stdout"
  /\ snr' = [a \in Activity |-> IF a \in collected THEN nr0[a] ELSE snr[a]]
  /\ LET counted == collected \cap Counted IN
       /\ snr_allocated' = [a \in Activity |->
            IF a \in counted THEN MoreBuffers(a, nr0[a]) ELSE snr_allocated[a]]
       /\ scells' = [a \in Activity |->
            IF snr_allocated'[a] # snr_allocated[a] THEN snr_allocated'[a] * snr2[a] ELSE scells[a]]
  /\ smisfit' = { a \in smisfit : snr_allocated'[a] = snr_allocated[a] }
  /\ phase' = "file"
  /\ UNCHANGED << sadc, snr_ini, snr2 >>

Next ==
  \/ SysInit \/ OpenFile \/ Header \/ ResetStats \/ ReadStats \/ WriteStdout \/ WriteFile

Spec == Init /\ [][Next]_vars

-----------------------------------------------------------------------------
(* Properties. *)

\* Items counted or read, and items that there is room for.
Counts == -1..MaxItems
Sizes == 0..(2 * (MaxItems + 1))

\* Counts are numbers within the bounds of the instance, and doubling a buffer
\* never gives it more than twice the room that is needed.
TypeOK ==
  /\ phase \in Phases /\ collected \subseteq Activity
  /\ nr_ini \in [Activity -> Counts] /\ nr2 \in [Activity -> 0..MaxSubs]
  /\ nr_allocated \in [Activity -> Sizes] /\ nr0 \in [Activity -> Counts]
  /\ cells \in [Activity -> Nat] /\ held \in [Activity -> Int]
  /\ was \in [Activity -> 0..MaxSubs]
  /\ lost \subseteq Activity /\ misfit \subseteq Activity /\ smisfit \subseteq Activity
  /\ snr_ini \in [Activity -> Counts] /\ snr2 \in [Activity -> 0..MaxSubs]
  /\ snr_allocated \in [Activity -> Sizes] /\ scells \in [Activity -> Nat] /\ snr \in [Activity -> Counts]

\* The _nr0 x nr2 structures that write_stats() takes from the buffer are those
\* that were read in this iteration.
AsRead(a) == held[a] = nr0[a] * nr2[a] /\ was[a] = nr2[a]

\* "Stats are written at the end of previous file *and* at the beginning of the
\* new one" (rw_sa_stat_loop()): what write_stats() writes of an activity is what was
\* read in this iteration.  In the new file that is so of the activities that were
\* read, unless sa_sys_init(), called again in between, has found fewer items than
\* that or other sub-items; and without sub-items, of these activities only: of those
\* that the list of the new file brings in, or that have lost devices, it is not.
WritesWhatWasRead ==
  /\ phase \in {"stdout", "file"} => \A a \in collected \ lost : AsRead(a)
  /\ phase = "file again" => \A a \in collected :
       /\ was[a] = nr2[a] /\ a \notin lost => AsRead(a)
       /\ a \notin Matrix => (AsRead(a) <=> was[a] # 0 /\ a \notin lost)

\* What a process puts in a buffer fits in it: what sadc reads (reallocate_buffer()
\* made enough room), the nr_allocated x nr2 structures that reset_stats() clears,
\* and what sar reads ("Perform required allocations", read_stats() of sar.c).  Left
\* out are the activities whose buffer did not follow their sub-items: those of A_IRQ
\* once reallocate_buffer(), which takes nr2 for 1, has made it larger; in sadc those
\* not collected that have more sub-items when they are counted again, and in sar
\* those collected, until their buffers are allocated again.
InBounds ==
  /\ phase = "stdout" => \A a \in collected \ misfit : nr0[a] * nr2[a] <= cells[a]
  /\ phase = "reset" => \A a \in Activity \ misfit :
       nr0[a] > 0 /\ cells[a] > 0 => nr_allocated[a] * nr2[a] <= cells[a]
  /\ phase = "file" => \A a \in collected \ smisfit : snr[a] * snr2[a] <= scells[a]

\* "NB: nr_allocated > 0" (reallocate_buffer()): otherwise doubling it would never end.
ReadCanGrow == phase = "read" => \A a \in collected : nr_allocated[a] > 0

\* sar exits on a header that announces an activity without items or sub-items.
HeaderAccepted ==
  phase \in {"header", "header again"} => \A a \in collected : nr_ini[a] > 0 /\ nr2[a] > 0

=============================================================================
