------------------------------ MODULE SadcFile ------------------------------
(***************************************************************************)
(* The daily data files of sysstat and the sadc processes that create,     *)
(* append to, rotate and lock them (sadc.c).                               *)
(*                                                                         *)
(* One action is one system call of one sadc on its output file, so that   *)
(* two sadc processes (an old one still running when cron starts a new     *)
(* one, a boot-time restart mark, a sleep-mode comment) interleave between *)
(* any two calls.  A file is the sequence of the blocks that were written  *)
(* to it, one block per write_all(): the magic, the header, one block per  *)
(* activity of the list, then the records.  The bytes of a block are       *)
(* abstracted to what tells apart the outcome of the checks of             *)
(* open_ofile().  Standard output, the other destination of a record, is   *)
(* the subject of module SadcPipe.                                         *)
(***************************************************************************)
EXTENDS Integers, Sequences, FiniteSets, SequencesExt

CONSTANTS
  Sadc,      \* the sadc processes
  LastDay,   \* dates are 1..LastDay; the daily data file of a date is named after it
  NrAct,     \* the activities are 1..NrAct, in the order of array act[]
  Counted,   \* the activities with a variable number of items (AO_COUNTED)
  Args,      \* the command line of each sadc
  InitFile,  \* what each file holds before the first sadc starts
  MayDie     \* whether a sadc may be killed at any point

Day == 1..LastDay
Activity == 1..NrAct

\* What a command line says: -L, -F, outfile "-" (or a directory), what is
\* written (interval and count, -C, or neither), count, the outfile when it is
\* named explicitly, and the activities selected with -S.
CommandLine ==
  [lock: BOOLEAN, force: BOOLEAN, rotat: BOOLEAN,
   run: {"stats", "restart", "comment"}, count: Nat \ {0},
   outfile: Day, wants: Seq(Activity)]

Nobody == "nobody"   \* holds the lock of a file that is not locked

FileKinds == {"none", "empty", "junk", "foreign", "unknown_act", "past", "current"}

ASSUME SadcFileAssumption ==
  /\ IsFiniteSet(Sadc) /\ Nobody \notin Sadc
  /\ LastDay \in Nat \ {0}
  /\ NrAct \in Nat \ {0}
  /\ Counted \subseteq Activity
  /\ Args \in [Sadc -> CommandLine]
  /\ \A p \in Sadc : Args[p].wants # << >>
  /\ InitFile \in [Day -> FileKinds]
  /\ MayDie \in BOOLEAN

-----------------------------------------------------------------------------
(* The blocks of a file. *)

Magic(ours) == [part |-> "magic", ours |-> ours]
Header(nact, past, fit) == [part |-> "header", nact |-> nact, past |-> past, fit |-> fit]
ActBlock(a, fit) == [part |-> "act", id |-> a, fit |-> fit]
RecordBlock(part, p, k, at, a) == [part |-> part, by |-> p, n |-> k, at |-> at, id |-> a]

NoFile == << [part |-> "none"] >>     \* the file does not exist
Hole == [part |-> "hole"]             \* bytes never written, read back as zeros

RecordParts == {"rec", "nr", "data", "cpu", "text"}

\* Which block comes next: its part, and for an activity its place in the list.
Cursor(part, at) == [part |-> part, at |-> at]
End == Cursor("end", 0)

\* write_stats() goes through the activity sequence: the number of items when it
\* is not a constant, then the structures.
Items(list, i) ==
  IF i > Len(list) THEN End ELSE Cursor(IF list[i] \in Counted THEN "nr" ELSE "data", i)

\* What follows block c: in setup_file_hdr() the magic header, the file header and
\* the activity list; in write_special_record() the header of the record and the
\* number of CPU or the comment; in write_stats() that header and the items.
After(run, c, list) ==
  CASE c.part = "magic" -> Cursor("header", 0)
    [] c.part \in {"header", "act"} ->
         IF c.at < Len(list) THEN Cursor("act", c.at + 1) ELSE End
    [] c.part = "rec" ->
         CASE run = "restart" -> Cursor("cpu", 0)
           [] run = "comment" -> Cursor("text", 0)
           [] OTHER -> Items(list, 1)
    [] c.part = "nr" -> Cursor("data", c.at)
    [] c.part = "data" -> Items(list, c.at + 1)
    [] OTHER -> End

\* The block written there by p in its k-th record.
BlockOf(p, k, c, list) ==
  CASE c.part = "magic" -> Magic(TRUE)
    [] c.part = "header" -> Header(Len(list), FALSE, TRUE)
    [] c.part = "act" -> ActBlock(list[c.at], TRUE)
    [] OTHER -> RecordBlock(c.part, p, k, c.at, IF c.part \in {"nr", "data"} THEN list[c.at] ELSE 0)

\* What was in a file before: written by another version of sysstat ("junk"),
\* with other structures ("foreign"), with an activity unknown to this version,
\* last month, or earlier today.
Former(kind) ==
  CASE kind = "none"        -> NoFile
    [] kind = "empty"       -> << >>
    [] kind = "junk"        -> << Magic(FALSE) >>
    [] kind = "foreign"     -> << Magic(TRUE), Header(1, FALSE, FALSE), ActBlock(1, TRUE) >>
    [] kind = "unknown_act" -> << Magic(TRUE), Header(1, FALSE, TRUE), ActBlock(1, FALSE) >>
    [] kind = "past"        -> << Magic(TRUE), Header(1, TRUE, TRUE), ActBlock(1, TRUE) >>
    [] kind = "current"     -> << Magic(TRUE), Header(1, FALSE, TRUE), ActBlock(1, TRUE) >>

\* write() at offset k, past the end of the file or not.
WriteAt(s, k, block) ==
  IF k < Len(s) THEN [s EXCEPT ![k + 1] = block]
                ELSE s \o [i \in 1..(k - Len(s)) |-> Hole] \o << block >>

-----------------------------------------------------------------------------
VARIABLES
  day,       \* today
  file,      \* content of each daily data file
  lock,      \* holder of the flock() on each file
  pc,        \* where each sadc is
  ofile,     \* name of its output file
  newofile,  \* new_ofile of rw_sa_stat_loop(); do_sa_rotat is newofile # ofile
  mode,      \* how its descriptor ofd was opened
  pos,       \* offset of that descriptor, in blocks
  locked,    \* S_F_FILE_LOCKED
  filehdr,   \* file_hdr, as last read
  seen,      \* the activities of the list read so far (file_act[])
  idseq,     \* collected activities, in the order of id_seq[]
  n,         \* iterations of the main loop
  todo       \* the block of the current header or record to be written next

shared == << day, file, lock >>
vars == << day, file, lock, pc, ofile, newofile, mode, pos, locked, filehdr, seen, idseq, n, todo >>

NoHeader == Header(0, FALSE, FALSE)
Over == {"done", "dead"}
Labels == {"off", "open", "magic", "header", "acts", "create", "lockfile", "trunc",
           "sethdr", "main", "loop", "again", "write", "special", "written", "pause"} \cup Over

Init ==
  /\ day = 1
  /\ file = [d \in Day |-> Former(InitFile[d])]
  /\ lock = [d \in Day |-> Nobody]
  /\ pc = [p \in Sadc |-> "off"]
  /\ ofile = [p \in Sadc |-> 1]
  /\ newofile = [p \in Sadc |-> 1]
  /\ mode = [p \in Sadc |-> "none"]
  /\ pos = [p \in Sadc |-> 0]
  /\ locked = [p \in Sadc |-> FALSE]
  /\ filehdr = [p \in Sadc |-> NoHeader]
  /\ seen = [p \in Sadc |-> << >>]
  /\ idseq = [p \in Sadc |-> << >>]
  /\ n = [p \in Sadc |-> 0]
  /\ todo = [p \in Sadc |-> End]

-----------------------------------------------------------------------------
(* Helpers shared by the actions. *)

Goto(p, label) == pc' = [pc EXCEPT ![p] = label]

\* Closing the descriptor releases the flock() it holds.  Nothing clears
\* S_F_FILE_LOCKED.
CloseFile(p) ==
  /\ mode' = [mode EXCEPT ![p] = "none"]
  /\ lock' = [d \in Day |-> IF lock[d] = p THEN Nobody ELSE lock[d]]

\* exit(): the descriptor is closed by the kernel.
Exit(p, label) ==
  /\ Goto(p, label)
  /\ CloseFile(p)
  /\ UNCHANGED << day, file, ofile, newofile, pos, locked, filehdr, seen, idseq, n, todo >>

\* Mutant of LockFree: the result of flock() is not looked at.
LockFreeIgnored(p) == p \in Sadc

\* ask_for_flock(): non-blocking; without -L nothing is asked for.
LockFree(p) == Args[p].lock => lock[ofile[p]] \in {Nobody, p}
AskForFlock(p) ==
  IF Args[p].lock
    THEN /\ lock' = [lock EXCEPT ![ofile[p]] = p]
         /\ locked' = [locked EXCEPT ![p] = TRUE]
    ELSE UNCHANGED << lock, locked >>

\* "close(*ofd); create_sa_file(ofd, ofile);"
Recreate(p) ==
  /\ Goto(p, "create")
  /\ mode' = [mode EXCEPT ![p] = "none"]
  /\ UNCHANGED << shared, ofile, newofile, pos, locked, filehdr, seen, idseq, n, todo >>

\* With -F a file that cannot be appended to is created again.
Refuse(p) == IF Args[p].force THEN Recreate(p) ELSE Exit(p, "done")

\* id_seq[] as sa_sys_init() sets it: the collected activities, in the order of act[].
DefaultOrder(S) ==
  { l \in UNION { [1..m -> Activity] : m \in 0..NrAct } :
      ToSet(l) = S /\ \A i, j \in DOMAIN l : i < j => l[i] < l[j] }

\* Mutant of Opened: after a rotation the loop goes on without writing again.
OpenedNoRewrite(p) == IF p \in Sadc THEN "main" ELSE "again"

\* open_ofile() returns to main(), or to rw_sa_stat_loop() after a rotation.
Opened(p) == IF n[p] = 0 THEN "main" ELSE "again"

-----------------------------------------------------------------------------
(* main() and open_ofile(). *)

\* Options are parsed, the output file chosen, the items counted (sa_sys_init()).
Start(p) ==
  /\ pc[p] = "off"
  /\ \E d \in {IF Args[p].rotat THEN day ELSE Args[p].outfile} :
       /\ ofile' = [ofile EXCEPT ![p] = d]
       /\ newofile' = [newofile EXCEPT ![p] = d]
  /\ idseq' = [idseq EXCEPT ![p] = Args[p].wants]
  /\ Goto(p, "open")
  /\ UNCHANGED << shared, mode, pos, locked, filehdr, seen, n, todo >>

\* open(ofile, O_APPEND | O_RDWR), or the file does not exist.
OpenFile(p) ==
  /\ pc[p] = "open"
  /\ IF file[ofile[p]] = NoFile
       THEN /\ Goto(p, "create")
            /\ UNCHANGED << mode, pos >>
       ELSE /\ Goto(p, "magic")
            /\ mode' = [mode EXCEPT ![p] = "append"]
            /\ pos' = [pos EXCEPT ![p] = 0]
  /\ UNCHANGED << shared, ofile, newofile, locked, filehdr, seen, idseq, n, todo >>

\* read(ofd, &file_magic): nothing to read, not our format, or ours.
ReadMagic(p) ==
  /\ pc[p] = "magic"
  /\ LET s == file[ofile[p]] IN
       \/ s = << >> /\ Recreate(p)
       \/ s # << >> /\ s[1] # Magic(TRUE) /\ Refuse(p)
       \/ /\ s # << >> /\ s[1] = Magic(TRUE)
          /\ Goto(p, "header")
          /\ pos' = [pos EXCEPT ![p] = 1]
          /\ UNCHANGED << shared, ofile, newofile, mode, locked, filehdr, seen, idseq, n, todo >>

\* read(ofd, &file_hdr) and the checks on it.
ReadHeader(p) ==
  /\ pc[p] = "header"
  /\ LET s == file[ofile[p]]
         whole == Len(s) >= 2 /\ s[2].part = "header"
     IN
       \/ ~whole /\ Refuse(p)
       \/ whole /\ s[2].past /\ Args[p].rotat /\ Recreate(p)
       \/ whole /\ ~(s[2].past /\ Args[p].rotat) /\ ~s[2].fit /\ Refuse(p)
       \/ /\ whole /\ ~(s[2].past /\ Args[p].rotat) /\ s[2].fit
          /\ Goto(p, "acts")
          /\ pos' = [pos EXCEPT ![p] = 2]
          /\ filehdr' = [filehdr EXCEPT ![p] = s[2]]
          /\ seen' = [seen EXCEPT ![p] = << >>]
          /\ UNCHANGED << shared, ofile, newofile, mode, locked, idseq, n, todo >>

\* Mutant of ReadActivity: whatever follows the header is taken for an activity.
ReadActivityUnchecked(p) ==
  /\ pc[p] = "acts"
  /\ Len(seen[p]) < filehdr[p].nact + 1
  /\ LET s == file[ofile[p]]
         i == pos[p] + 1
     IN
       \/ i > Len(s) /\ Exit(p, "done")
       \/ /\ i <= Len(s)
          /\ seen' = [seen EXCEPT ![p] = Append(@, s[i].id)]
          /\ pos' = [pos EXCEPT ![p] = i]
          /\ UNCHANGED << shared, pc, ofile, newofile, mode, locked, filehdr, idseq, n, todo >>

\* One read(ofd, &file_act[i]): a short read is an invalid file, even with -F;
\* an activity that does not match ours is refused.
ReadActivity(p) ==
  /\ pc[p] = "acts"
  /\ Len(seen[p]) < filehdr[p].nact
  /\ LET s == file[ofile[p]]
         i == pos[p] + 1
         known == i <= Len(s) /\ s[i].part = "act" /\ s[i].fit
     IN
       \/ i > Len(s) /\ Exit(p, "done")
       \/ i <= Len(s) /\ ~known /\ Refuse(p)
       \/ /\ known
          /\ seen' = [seen EXCEPT ![p] = Append(@, s[i].id)]
          /\ pos' = [pos EXCEPT ![p] = i]
          /\ UNCHANGED << shared, pc, ofile, newofile, mode, locked, filehdr, idseq, n, todo >>

\* Mutant of AdoptList: the selection of the user prevails.
AdoptListIgnored(p) ==
  /\ pc[p] = "acts"
  /\ Len(seen[p]) >= filehdr[p].nact
  /\ Goto(p, Opened(p))
  /\ UNCHANGED << shared, ofile, newofile, mode, pos, locked, filehdr, seen, idseq, n, todo >>

\* "List of activities from the file prevails over that of the user."
AdoptList(p) ==
  /\ pc[p] = "acts"
  /\ Len(seen[p]) >= filehdr[p].nact
  /\ idseq' = [idseq EXCEPT ![p] = seen[p]]
  /\ Goto(p, Opened(p))
  /\ UNCHANGED << shared, ofile, newofile, mode, pos, locked, filehdr, seen, n, todo >>

-----------------------------------------------------------------------------
(* create_sa_file(). *)

\* open(O_CREAT | O_WRONLY): no O_EXCL, no O_TRUNC, no O_APPEND.
CreateFile(p) ==
  /\ pc[p] = "create"
  /\ file' = [file EXCEPT ![ofile[p]] = IF @ = NoFile THEN << >> ELSE @]
  /\ mode' = [mode EXCEPT ![p] = "write"]
  /\ pos' = [pos EXCEPT ![p] = 0]
  /\ Goto(p, "lockfile")
  /\ UNCHANGED << day, lock, ofile, newofile, locked, filehdr, seen, idseq, n, todo >>

\* ask_for_flock(FATAL).
LockCreated(p) ==
  /\ pc[p] = "lockfile"
  /\ \/ ~LockFree(p) /\ Exit(p, "done")
     \/ /\ LockFree(p)
        /\ AskForFlock(p)
        /\ Goto(p, "trunc")
        /\ UNCHANGED << day, file, ofile, newofile, mode, pos, filehdr, seen, idseq, n, todo >>

\* ftruncate(ofd, 0), then the header is prepared.
Truncate(p) ==
  /\ pc[p] = "trunc"
  /\ file' = [file EXCEPT ![ofile[p]] = << >>]
  /\ todo' = [todo EXCEPT ![p] = Cursor("magic", 0)]
  /\ Goto(p, "sethdr")
  /\ UNCHANGED << day, lock, ofile, newofile, mode, pos, locked, filehdr, seen, idseq, n >>

-----------------------------------------------------------------------------
(* write_special_record(), write_stats() and rw_sa_stat_loop(). *)

\* write_special_record(): failing to get the lock is fatal.
BeginSpecial(p) ==
  /\ pc[p] = "main" /\ Args[p].run # "stats"
  /\ \/ ~locked[p] /\ ~LockFree(p) /\ Exit(p, "done")
     \/ /\ locked[p] \/ LockFree(p)
        /\ IF locked[p] THEN UNCHANGED << lock, locked >> ELSE AskForFlock(p)
        /\ todo' = [todo EXCEPT ![p] = Cursor("rec", 0)]
        /\ Goto(p, "write")
        /\ UNCHANGED << day, file, ofile, newofile, mode, pos, filehdr, seen, idseq, n >>

EnterLoop(p) ==
  /\ pc[p] = "main" /\ Args[p].run = "stats"
  /\ Goto(p, "loop")
  /\ UNCHANGED << shared, ofile, newofile, mode, pos, locked, filehdr, seen, idseq, n, todo >>

\* write_stats(): failing to get the lock skips the record.
WriteStats(p) ==
  /\ \/ ~locked[p] /\ ~LockFree(p)
        /\ Goto(p, "written")
        /\ UNCHANGED << lock, locked, todo >>
     \/ /\ locked[p] \/ LockFree(p)
        /\ IF locked[p] THEN UNCHANGED << lock, locked >> ELSE AskForFlock(p)
        /\ todo' = [todo EXCEPT ![p] = Cursor("rec", 0)]
        /\ Goto(p, "write")
  /\ UNCHANGED << day, file, ofile, newofile, mode, pos, filehdr, seen, idseq >>

\* An iteration: the statistics are read, then written to the file.
Sample(p) ==
  /\ pc[p] = "loop"
  /\ n' = [n EXCEPT ![p] = @ + 1]
  /\ WriteStats(p)

\* After a rotation the same statistics go to the new file.
SampleAgain(p) ==
  /\ pc[p] = "again"
  /\ WriteStats(p)
  /\ UNCHANGED n

\* One write_all().  O_APPEND writes at the end of the file, whatever the offset.
WriteBlock(p) ==
  /\ pc[p] \in {"sethdr", "write"}
  /\ LET at == IF mode[p] = "append" THEN Len(file[ofile[p]]) ELSE pos[p]
         after == After(Args[p].run, todo[p], idseq[p])
         next == IF pc[p] = "sethdr" THEN Opened(p)
                 ELSE IF Args[p].run = "stats" THEN "written" ELSE "special"
     IN
       /\ file' = [file EXCEPT ![ofile[p]] = WriteAt(@, at, BlockOf(p, n[p], todo[p], idseq[p]))]
       /\ pos' = [pos EXCEPT ![p] = at + 1]
       /\ todo' = [todo EXCEPT ![p] = after]
       /\ Goto(p, IF after = End THEN next ELSE pc[p])
  /\ UNCHANGED << day, lock, ofile, newofile, mode, locked, filehdr, seen, idseq, n >>

\* The descriptor of the previous file is closed, sa_sys_init() restores the
\* default order of the activities, and the new file is opened.
Rotate(p) ==
  /\ pc[p] = "written" /\ newofile[p] # ofile[p]
  /\ CloseFile(p)
  /\ ofile' = [ofile EXCEPT ![p] = newofile[p]]
  /\ \E l \in DefaultOrder(ToSet(idseq[p])) : idseq' = [idseq EXCEPT ![p] = l]
  /\ Goto(p, "open")
  /\ UNCHANGED << day, file, newofile, pos, locked, filehdr, seen, n, todo >>

\* count-- ; then pause() unless it was the last iteration.
EndIteration(p) ==
  /\ pc[p] = "written" /\ newofile[p] = ofile[p]
  /\ IF n[p] < Args[p].count
       THEN /\ Goto(p, "pause")
            /\ UNCHANGED << shared, ofile, newofile, mode, pos, locked, filehdr, seen, idseq, n, todo >>
       ELSE Exit(p, "done")

\* Mutant of Wake: alarm_handler() does not set the alarm again.
WakeOnce(p) ==
  /\ pc[p] = "pause" /\ n[p] = 1
  /\ newofile' = [newofile EXCEPT ![p] = IF Args[p].rotat THEN day ELSE @]
  /\ Goto(p, "loop")
  /\ UNCHANGED << shared, ofile, mode, pos, locked, filehdr, seen, idseq, n, todo >>

\* SIGALRM: with outfile "-" the file of today is the one to use now.
Wake(p) ==
  /\ pc[p] = "pause"
  /\ newofile' = [newofile EXCEPT ![p] = IF Args[p].rotat THEN day ELSE @]
  /\ Goto(p, "loop")
  /\ UNCHANGED << shared, ofile, mode, pos, locked, filehdr, seen, idseq, n, todo >>

\* The descriptor is closed after the only record of this sadc.
EndSpecial(p) ==
  /\ pc[p] = "special"
  /\ Exit(p, "done")

\* exit(1) of int_handler() when not called by sar, a write error, or SIGKILL.
Die(p) ==
  /\ MayDie
  /\ pc[p] \notin Over \cup {"off"}
  /\ Exit(p, "dead")

Midnight ==
  /\ day < LastDay
  /\ day' = day + 1
  /\ UNCHANGED << file, lock, pc, ofile, newofile, mode, pos, locked, filehdr, seen, idseq, n, todo >>

Step(p) ==
  \/ OpenFile(p) \/ ReadMagic(p) \/ ReadHeader(p) \/ ReadActivity(p) \/ AdoptList(p)
  \/ CreateFile(p) \/ LockCreated(p) \/ Truncate(p)
  \/ BeginSpecial(p) \/ EndSpecial(p) \/ EnterLoop(p) \/ Sample(p) \/ SampleAgain(p)
  \/ WriteBlock(p) \/ Rotate(p) \/ EndIteration(p) \/ Wake(p)

Next ==
  \/ \E p \in Sadc : Start(p) \/ Step(p) \/ Die(p)
  \/ Midnight

Spec == Init /\ [][Next]_vars

\* A sadc that was started keeps running: nothing it calls waits for another
\* process, and the alarm ends each pause().
FairSpec == Spec /\ \A p \in Sadc : WF_vars(Step(p))

-----------------------------------------------------------------------------
(* How a reader takes a file apart: the list announced by its header says   *)
(* which blocks make a record.                                              *)

HeaderDone(s) ==
  /\ Len(s) >= 2
  /\ s[1] = Magic(TRUE)
  /\ s[2].part = "header"
  /\ Len(s) >= 2 + s[2].nact
  /\ \A i \in 3..(2 + s[2].nact) : s[i].part = "act"

Announced(s) == [i \in 1..s[2].nact |-> s[2 + i].id]
FirstRecord(s) == 3 + s[2].nact

\* What the record of block i goes on with.
Following(s, i) == After(Args[s[i].by].run, Cursor(s[i].part, s[i].at), Announced(s))

\* Block i continues the record block i - 1 belongs to.
Continues(s, i) ==
  /\ s[i - 1].part \in RecordParts
  /\ Following(s, i - 1) # End
  /\ s[i] = BlockOf(s[i - 1].by, s[i - 1].n, Following(s, i - 1), Announced(s))

\* Block i is the last one of a record: its writer has put all of that record, be it
\* readable or not.
EndsRecord(s, i) == s[i].part \in RecordParts /\ Following(s, i) = End

Ends(s) == { i \in FirstRecord(s)..Len(s) : EndsRecord(s, i) }

\* The records that end with the blocks of S, as <<process, sample>>.
RecordsAt(s, S) ==
  LET upto[i \in 0..Len(s)] ==
        IF i < FirstRecord(s) THEN << >>
        ELSE IF i \in S THEN Append(upto[i - 1], << s[i].by, s[i].n >>)
        ELSE upto[i - 1]
  IN  upto[Len(s)]

\* What was put in a file to the last block.
Records(s) == IF HeaderDone(s) THEN RecordsAt(s, Ends(s)) ELSE << >>

Samples(p, s) == { r[2] : r \in { x \in ToSet(Records(s)) : x[1] = p } }

\* Block i is where a reader expects it: the next block of the record it has begun to
\* read, from the same writer, or the first one after a whole record.
InPlace(s, i) ==
  \/ Continues(s, i)
  \/ s[i].part = "rec" /\ (i = FirstRecord(s) \/ EndsRecord(s, i - 1))

InOrder(s, i) == \A k \in FirstRecord(s)..i : InPlace(s, k)

\* The records that a reader finds: it goes from block to block, and has no way to
\* find a record again past one that is cut or mixed with another.
Readable(s) == RecordsAt(s, { i \in Ends(s) : InOrder(s, i) })

-----------------------------------------------------------------------------
(* Properties. *)

HeaderBlocks == [part: {"header"}, nact: Nat, past: BOOLEAN, fit: BOOLEAN]
ActBlocks == [part: {"act"}, id: Activity, fit: BOOLEAN]
RecordBlocks == [part: RecordParts, by: Sadc, n: Nat, at: Nat, id: Activity \cup {0}]
Cursors == [part: RecordParts \cup {"magic", "header", "act", "end"}, at: Nat]
Blocks ==
  [part: {"magic"}, ours: BOOLEAN] \cup HeaderBlocks \cup ActBlocks \cup RecordBlocks
    \cup [part: {"hole", "none"}]

\* Every variable keeps its type: files are sequences of blocks, locks are held
\* by sadc processes, program counters are labels of the code.
TypeOK ==
  /\ day \in Day
  /\ file \in [Day -> Seq(Blocks)]
  /\ lock \in [Day -> Sadc \cup {Nobody}]
  /\ pc \in [Sadc -> Labels]
  /\ ofile \in [Sadc -> Day]
  /\ newofile \in [Sadc -> Day]
  /\ mode \in [Sadc -> {"none", "append", "write"}]
  /\ pos \in [Sadc -> Nat]
  /\ locked \in [Sadc -> BOOLEAN]
  /\ filehdr \in [Sadc -> HeaderBlocks]
  /\ seen \in [Sadc -> Seq(Activity)]
  /\ idseq \in [Sadc -> Seq(Activity)]
  /\ n \in [Sadc -> Nat]
  /\ todo \in [Sadc -> Cursors]

Changing == {"trunc", "sethdr", "write"}

\* man sadc, -L: sadc gets an exclusive lock on the outfile before writing to it
\* or truncating it.  Here for the sadc whose outfile is named explicitly.
LockedWrites ==
  \A p \in Sadc :
    Args[p].lock /\ ~Args[p].rotat /\ pc[p] \in Changing => lock[ofile[p]] = p

\* The same promise for every sadc -L, those that rotate their file included.
LockedWritesAndRotates ==
  \A p \in Sadc : Args[p].lock /\ pc[p] \in Changing => lock[ofile[p]] = p

\* "Without locking, this situation can result in a corrupted system activity
\* file" (man sadc): with it, a file whose header is complete is the header and
\* then whole records of the announced layout; only the end of the file, or a
\* record whose writer was killed, may be cut short.
RecordsWhole ==
  \A d \in Day : LET s == file[d] IN
    HeaderDone(s) => \A i \in FirstRecord(s)..Len(s) :
      \/ Continues(s, i)
      \/ /\ s[i].part = "rec"
         /\ \/ i = FirstRecord(s)
            \/ EndsRecord(s, i - 1)
            \/ s[i - 1].part \in RecordParts /\ pc[s[i - 1].by] = "dead"

\* A record is in a file without its header only if a sadc was killed while it
\* created the file: one that passed the checks of open_ofile() does not append
\* to a file truncated since by a sadc that goes on.
NoRecordBeforeHeader ==
  \A d \in Day : (\E i \in DOMAIN file[d] : file[d][i].part \in RecordParts) =>
    \/ HeaderDone(file[d])
    \/ \E p \in Sadc : pc[p] = "dead" /\ ofile[p] = d /\ todo[p].part \in {"magic", "header", "act"}

\* "List of activities from the file prevails over that of the user"
\* (open_ofile()): statistics are written with the list the file announces.
FileListPrevails ==
  \A p \in Sadc : LET s == file[ofile[p]] IN
    pc[p] = "write" /\ Args[p].run = "stats" /\ HeaderDone(s) => idseq[p] = Announced(s)

\* A sadc that rotates its file puts its last sample of one day also at the
\* beginning of the file of the next day ("Stats are written at the end of
\* previous file *and* at the beginning of the new one").
RotationOverlaps ==
  \A p \in Sadc : \A d, e \in Day :
    LET S == Samples(p, file[d])
        T == Samples(p, file[e])
    IN  d < e /\ S # {} /\ T # {} /\ (\A c \in (d + 1)..(e - 1) : Samples(p, file[c]) = {})
          => { k \in T : \A j \in T : k <= j } = { k \in S : \A j \in S : j <= k }

\* A sadc never waits for another one for ever: whatever lock it does not get,
\* it skips the record or exits.
Terminates == \A p \in Sadc : pc[p] # "off" ~> pc[p] \in Over

\* A file as the log of DailyLog: NoLog until its header is complete, and when
\* open_ofile() would not append to it.
Logged(s) == HeaderDone(s) /\ s[2].fit /\ ~s[2].past /\ \A i \in 3..(2 + s[2].nact) : s[i].fit
LogOf(s) ==
  IF Logged(s) THEN [list |-> Announced(s), recs |-> Readable(s)]
               ELSE [list |-> << >>, recs |-> << >>]

\* The record that p is writing to a log.
WritingOf(p) ==
  IF pc[p] = "write" /\ Logged(file[ofile[p]]) THEN << ofile[p], n[p] >> ELSE << >>

\* A reader does not get to the end of the log: a block is not in its place, or the
\* last record was never completed.
Torn(d) ==
  LET s == file[d] IN
    /\ Logged(s)
    /\ \/ ~InOrder(s, Len(s))
       \/ /\ Len(s) >= FirstRecord(s)
          /\ ~EndsRecord(s, Len(s))
          /\ pc[s[Len(s)].by] = "dead"

Log == INSTANCE DailyLog WITH
  Writer <- Sadc,
  log <- [d \in Day |-> LogOf(file[d])],
  writing <- [p \in Sadc |-> WritingOf(p)],
  torn <- [d \in Day |-> Torn(d)]

\* The files are the logs of DailyLog: created once, then only added to; what a sadc
\* writes to the last block is a whole record there, never mixed with that of another
\* sadc, in the order of its samples; and only the death of a sadc in the middle of a
\* record leaves something unreadable in a file.
ImplementsDailyLog == Log!Spec
=============================================================================
