------------------------------ MODULE SadcPipe ------------------------------
(***************************************************************************)
(* "sar [ -o file ] [ -e end ] interval count": sar forks sadc, the data   *)
(* collector, and displays the statistics it reads from its pipe           *)
(* (sar.c: main, read_stats; sadc.c: rw_sa_stat_loop and its handlers).    *)
(*                                                                         *)
(* The collector writes each record to the pipe, then to the file.  When   *)
(* the date changes it tags the record R_LAST_STATS, opens the file of the *)
(* new day, whose list of activities prevails, and sends a header again,   *)
(* which sar reads only because of the tag.  SIGINT and SIGTERM reach      *)
(* either process or both at any time, and the collector forwards them.    *)
(* Samples are numbered in the order they are taken: a number stands for   *)
(* the record and for the statistics read with it.                         *)
(***************************************************************************)
EXTENDS Integers, Sequences, FiniteSets, SequencesExt

CONSTANTS
  NrAct,       \* the activities are 1..NrAct
  Wanted,      \* the activities selected on the command line of sar
  Lists,       \* the lists of activities that a header may announce
  NrLines,     \* count
  Output,      \* -o: "none", a "plain" file, or "daily" files
  EndAt,       \* -e: sample k is taken at time 2k, 0 when there is no end time
  LastDay,     \* dates are 1..LastDay
  PipeSize,    \* messages the pipe can hold
  MaxSignals,  \* signals sent
  MayFail      \* processes may be killed, and opening a file may fail

Activity == 1..NrAct
Day == 1..LastDay
Slot == 0..2                    \* record_hdr[0..2] and buf[0..2] of sar
SampleNr == 0..(NrLines + 1)

ASSUME SadcPipeAssumption ==
  /\ NrAct \in Nat \ {0} /\ LastDay \in Nat \ {0} /\ NrLines \in Nat \ {0}
  /\ PipeSize \in Nat \ {0} /\ MaxSignals \in Nat /\ EndAt \in Nat
  /\ Wanted \in (SUBSET Activity) \ {{}}
  /\ Lists # {} /\ \A l \in Lists : l # << >> /\ l \in Seq(Activity)
  /\ Output \in {"none", "plain", "daily"}
  /\ MayFail \in BOOLEAN

\* What goes through the pipe: the two parts of a header and of a record.
MagicMsg == [kind |-> "magic"]
ListMsg(l) == [kind |-> "list", list |-> l]
RecMsg(k, type) == [kind |-> "rec", n |-> k, type |-> type]
DataMsg(k, l) == [kind |-> "data", n |-> k, list |-> l]

VARIABLES
  day,      \* today
  nsig,     \* signals sent so far
  pipe,     \* messages written by sadc and not read yet
  \* sadc
  spc,      \* where sadc is
  taken,    \* samples taken
  left,     \* count of rw_sa_stat_loop()
  rot,      \* the day of new_ofile when do_sa_rotat is set, else 0
  ofile,    \* the day of the output file
  list,     \* id_seq[] of sadc
  caught,   \* sigint_caught of sadc
  saved,    \* the samples in each file
  \* sar
  rpc,      \* where sar is
  idseq,    \* id_seq[] of sar
  selected, \* the activities with AO_SELECTED
  curr,     \* curr of read_stats()
  hdr,      \* the samples in record_hdr[]
  rtype,    \* record_hdr[curr].record_type
  buf,      \* the sample of each activity in buf[]
  togo,     \* count
  intr,     \* sigint_caught of sar
  line,     \* the last line displayed: from which sample to which
  nlines,   \* avg_count
  average   \* the average displayed at the end

sadcvars == << spc, taken, left, rot, ofile, list, caught, saved >>
sarvars == << rpc, idseq, selected, curr, hdr, rtype, buf, togo, intr, line, nlines, average >>
vars == << day, nsig, pipe, spc, taken, left, rot, ofile, list, caught, saved,
           rpc, idseq, selected, curr, hdr, rtype, buf, togo, intr, line, nlines, average >>

SadcOver == {"done", "failed", "dead"}
SarOver == {"done", "nothing", "eod", "garbled", "killed"}
SadcBefore == {"open", "magic0", "list0"}       \* no handler yet
SarBefore == {"magic0", "list0", "rec0", "data0", "install"}

NoLine == [from |-> 0, to |-> 0, items |-> << >>]

\* Mutant of CountArg: as many records as lines.
CountArgAsIs == NrLines

\* sadc is asked for one more record than sar has lines to display.
CountArg == NrLines + 1

Init ==
  /\ day = 1 /\ nsig = 0 /\ pipe = << >>
  /\ spc = "open" /\ taken = 0 /\ left = CountArg /\ rot = 0 /\ ofile = 1
  /\ list = << >> /\ caught = FALSE
  /\ saved = [d \in Day |-> << >>]
  /\ rpc = "magic0" /\ idseq = << >> /\ selected = Wanted /\ curr = 1
  /\ hdr = [s \in Slot |-> 0] /\ rtype = "R_STATS"
  /\ buf = [s \in Slot |-> [a \in Activity |-> 0]]
  /\ togo = NrLines /\ intr = FALSE
  /\ line = NoLine /\ nlines = 0 /\ average = NoLine

-----------------------------------------------------------------------------
(* sadc. *)

\* write_all(stdfd, ...): blocks on a full pipe; SIGPIPE when sar is over.
Send(msg, next) ==
  /\ \/ /\ rpc \notin SarOver /\ Len(pipe) < PipeSize
        /\ pipe' = Append(pipe, msg)
        /\ spc' = next
     \/ /\ rpc \in SarOver
        /\ spc' = "dead"
        /\ UNCHANGED pipe
  /\ UNCHANGED << day, nsig, taken, left, rot, ofile, list, caught, saved, sarvars >>

\* open_ofile(): the list is that of the file, or of the machine for a new file.
SadcOpen ==
  /\ spc = "open"
  /\ \/ \E l \in Lists : list' = l /\ spc' = "magic0" /\ ofile' = day
     \/ /\ MayFail /\ Output # "none"
        /\ spc' = "failed"
        /\ UNCHANGED << list, ofile >>
  /\ UNCHANGED << day, nsig, pipe, taken, left, rot, caught, saved, sarvars >>

\* setup_file_hdr(stdfd), before the loop and after a rotation.
SendHeader ==
  \/ spc = "magic0" /\ Send(MagicMsg, "list0")
  \/ spc = "list0" /\ Send(ListMsg(list), "sample")
  \/ spc = "magic" /\ Send(MagicMsg, "list")
  \/ spc = "list" /\ Send(ListMsg(list), "saveagain")

SadcSample ==
  /\ spc = "sample"
  /\ taken' = taken + 1
  /\ spc' = "rec"
  /\ UNCHANGED << day, nsig, pipe, left, rot, ofile, list, caught, saved, sarvars >>

\* Mutant of SendRecord: the record type is R_STATS from one end to the other.
SendRecordUntagged ==
  \/ spc = "rec" /\ Send(RecMsg(taken, "R_STATS"), "data")
  \/ spc = "data" /\ Send(DataMsg(taken, list), "save")

\* Mutant of SendRecord: the last sample of a day goes to the next file only.
SendRecordAndRotate ==
  \/ spc = "rec" /\ Send(RecMsg(taken, IF rot # 0 THEN "R_LAST_STATS" ELSE "R_STATS"), "data")
  \/ spc = "data" /\ Send(DataMsg(taken, list), IF rot # 0 THEN "rotate" ELSE "save")

\* write_stats(stdfd): R_LAST_STATS when a rotation follows.
SendRecord ==
  \/ spc = "rec" /\ Send(RecMsg(taken, IF rot # 0 THEN "R_LAST_STATS" ELSE "R_STATS"), "data")
  \/ spc = "data" /\ Send(DataMsg(taken, list), "save")

\* write_stats(ofd).
Save ==
  /\ spc \in {"save", "saveagain"}
  /\ saved' = [saved EXCEPT ![ofile] = IF Output = "none" THEN @ ELSE Append(@, taken)]
  /\ spc' = IF spc = "save" /\ rot # 0 THEN "rotate" ELSE "count"
  /\ UNCHANGED << day, nsig, pipe, taken, left, rot, ofile, list, caught, sarvars >>

\* The file of the new day is opened: its list is read, or counted again.
SadcRotate ==
  /\ spc = "rotate"
  /\ rot' = 0
  /\ ofile' = rot
  /\ \/ \E l \in Lists : list' = l /\ spc' = "magic"
     \/ MayFail /\ spc' = "failed" /\ UNCHANGED list
  /\ UNCHANGED << day, nsig, pipe, taken, left, caught, saved, sarvars >>

\* count-- ; pause() unless it is zero.
SadcCount ==
  /\ spc = "count"
  /\ left' = left - 1
  /\ spc' = IF left = 1 THEN "check" ELSE "pause"
  /\ UNCHANGED << day, nsig, pipe, taken, rot, ofile, list, caught, saved, sarvars >>

\* Mutant of Alarm: alarm_handler() does not set the alarm again.
AlarmOnce ==
  /\ spc = "pause" /\ left = NrLines
  /\ spc' = "check"
  /\ UNCHANGED << day, nsig, pipe, taken, left, rot, ofile, list, caught, saved, sarvars >>

\* SIGALRM ends pause(); a SIGALRM that comes at another time is lost, and the
\* next one ends it.
Alarm ==
  /\ spc = "pause"
  /\ spc' = "check"
  /\ UNCHANGED << day, nsig, pipe, taken, left, rot, ofile, list, caught, saved, sarvars >>

\* End of an iteration: stop on a signal, see whether the date has changed.
SadcCheck ==
  /\ spc = "check"
  /\ IF caught
       THEN spc' = "done" /\ UNCHANGED rot
       ELSE /\ rot' = IF Output = "daily" /\ ofile # day THEN day ELSE 0
            /\ spc' = IF left = 0 THEN "done" ELSE "sample"
  /\ UNCHANGED << day, nsig, pipe, taken, left, ofile, list, caught, saved, sarvars >>

-----------------------------------------------------------------------------
(* sar. *)

Eof == pipe = << >> /\ spc \in SadcOver

\* sa_read() of a message.  Whatever was sent is taken for the kind expected.
Receive ==
  /\ pipe # << >>
  /\ pipe' = Tail(pipe)
  /\ UNCHANGED << day, nsig, sadcvars, togo, intr, line, nlines, average >>

Expect(kind, next) == IF Head(pipe).kind = kind THEN next ELSE "garbled"

SarGoto(label) ==
  /\ rpc' = label
  /\ UNCHANGED << day, nsig, pipe, sadcvars, idseq, selected, curr, hdr, rtype, buf,
                  togo, intr, line, nlines, average >>

\* read_header_data(): the magic header.
SarReadMagic ==
  /\ rpc \in {"magic0", "magic"}
  /\ \/ Eof /\ SarGoto("eod")
     \/ /\ Receive
        /\ rpc' = Expect("magic", IF rpc = "magic0" THEN "list0" ELSE "list")
        /\ UNCHANGED << idseq, selected, curr, hdr, rtype, buf >>

\* Mutant of SarReadList: reverse_check_act() is called for the first header only.
SarReadListUnchecked ==
  /\ rpc \in {"list0", "list"}
  /\ \/ Eof /\ SarGoto("eod")
     \/ /\ Receive
        /\ IF Head(pipe).kind # "list" THEN rpc' = "garbled" /\ UNCHANGED << idseq, selected >>
           ELSE /\ idseq' = Head(pipe).list
                /\ selected' = IF rpc = "list" THEN selected ELSE selected \cap ToSet(idseq')
                /\ rpc' = IF rpc = "list" THEN "tally" ELSE IF selected' = {} THEN "nothing" ELSE "rec0"
        /\ UNCHANGED << curr, hdr, rtype, buf >>

\* read_header_data(): the rest of it.  reverse_check_act() unselects what sadc
\* does not send; that nothing is left is only looked at the first time.
SarReadList ==
  /\ rpc \in {"list0", "list"}
  /\ \/ Eof /\ SarGoto("eod")
     \/ /\ Receive
        /\ IF Head(pipe).kind # "list" THEN rpc' = "garbled" /\ UNCHANGED << idseq, selected >>
           ELSE /\ idseq' = Head(pipe).list
                /\ selected' = selected \cap ToSet(idseq')
                /\ rpc' = IF rpc = "list" THEN "tally" ELSE IF selected' = {} THEN "nothing" ELSE "rec0"
        /\ UNCHANGED << curr, hdr, rtype, buf >>

\* The slot that read_sadc_stat_bunch() fills.
Slot0 == IF rpc \in {"rec0", "data0"} THEN 0 ELSE curr

\* read_sadc_stat_bunch(): the record header.  An end of file is expected after
\* a signal only.
SarReadRecord ==
  /\ rpc \in {"rec0", "rec"}
  /\ \/ Eof /\ SarGoto(IF intr THEN "show" ELSE "eod")
     \/ /\ Receive
        /\ rpc' = Expect("rec", IF rpc = "rec0" THEN "data0" ELSE "data")
        /\ hdr' = [hdr EXCEPT ![Slot0] = IF Head(pipe).kind = "rec" THEN Head(pipe).n ELSE @]
        /\ rtype' = IF Head(pipe).kind = "rec" THEN Head(pipe).type ELSE rtype
        /\ UNCHANGED << idseq, selected, curr, buf >>

\* read_sadc_stat_bunch(): the statistics, taken apart with the list of sar.
SarReadData ==
  /\ rpc \in {"data0", "data"}
  /\ \/ Eof /\ SarGoto("eod")
     \/ /\ Receive
        /\ IF Head(pipe).kind = "data" /\ Head(pipe).list = idseq
             THEN /\ buf' = [buf EXCEPT ![Slot0] =
                       [a \in Activity |-> IF a \in ToSet(idseq) THEN Head(pipe).n ELSE @[a]]]
                  /\ rpc' = IF rpc = "data0" THEN "install" ELSE "show"
             ELSE rpc' = "garbled" /\ UNCHANGED buf
        /\ UNCHANGED << idseq, selected, curr, hdr, rtype >>

\* The first sample is kept for the average, then the handlers are installed.
SarInstall ==
  /\ rpc = "install"
  /\ hdr' = [hdr EXCEPT ![2] = hdr[0]]
  /\ buf' = [buf EXCEPT ![2] = [a \in Activity |-> IF a \in ToSet(idseq) THEN buf[0][a] ELSE @[a]]]
  /\ rpc' = "rec"
  /\ UNCHANGED << day, nsig, pipe, sadcvars, idseq, selected, curr, rtype, togo, intr, line, nlines, average >>

\* What is displayed from slot i to slot j.
Line(i, j) == [from |-> hdr[i], to |-> hdr[j],
               items |-> [a \in selected |-> << buf[i][a], buf[j][a] >>]]

\* datecmp(&rectime, &tm_end) for sample k.
PastEnd(k) == EndAt # 0 /\ 2 * k > EndAt
AtEnd(k) == EndAt # 0 /\ 2 * k = EndAt

\* Mutant of SarShow: the slot is not changed back after a signal.
SarShowStay ==
  /\ rpc = "show"
  /\ \/ /\ intr
        /\ rpc' = "avg"
        /\ UNCHANGED << curr, togo, line, nlines >>
     \/ /\ ~intr
        /\ line' = Line(1 - curr, curr)
        /\ nlines' = nlines + 1
        /\ UNCHANGED << togo, curr >>
        /\ rpc' = IF rtype = "R_LAST_STATS" THEN "magic" ELSE "tally"
  /\ UNCHANGED << day, nsig, pipe, sadcvars, idseq, selected, hdr, rtype, buf, intr, average >>

\* After a signal the sample just read is dropped.  Past the end time nothing is
\* displayed; at the end time, or past it, count is zeroed.  After R_LAST_STATS
\* the header is read again.
SarShow ==
  /\ rpc = "show"
  /\ \/ /\ intr
        /\ curr' = 1 - curr
        /\ rpc' = "avg"
        /\ UNCHANGED << togo, line, nlines >>
     \/ /\ ~intr
        /\ IF PastEnd(hdr[curr])
             THEN UNCHANGED << line, nlines >>
             ELSE line' = Line(1 - curr, curr) /\ nlines' = nlines + 1
        /\ togo' = IF PastEnd(hdr[curr]) \/ AtEnd(hdr[curr]) THEN 0 ELSE togo
        /\ rpc' = IF rtype = "R_LAST_STATS" THEN "magic" ELSE "tally"
        /\ UNCHANGED curr
  /\ UNCHANGED << day, nsig, pipe, sadcvars, idseq, selected, hdr, rtype, buf, intr, average >>

\* The end of the loop of read_stats().
SarTally ==
  /\ rpc = "tally"
  /\ togo' = IF togo > 0 THEN togo - 1 ELSE 0
  /\ IF togo' # 0 THEN curr' = 1 - curr /\ rpc' = "rec"
                  ELSE rpc' = "avg" /\ UNCHANGED curr
  /\ UNCHANGED << day, nsig, pipe, sadcvars, idseq, selected, hdr, rtype, buf, intr, line, nlines, average >>

\* write_stats_avg(), when a line was displayed.
SarAverage ==
  /\ rpc = "avg"
  /\ average' = IF nlines > 0 THEN Line(2, curr) ELSE NoLine
  /\ rpc' = "done"
  /\ UNCHANGED << day, nsig, pipe, sadcvars, idseq, selected, curr, hdr, rtype, buf, togo, intr, line, nlines >>

-----------------------------------------------------------------------------
(* Signals, the date, failures. *)

\* What a signal does to sar: the default action until the handler is there.
SarSignalled ==
  /\ rpc' = IF rpc \in SarBefore THEN "killed" ELSE rpc
  /\ intr' = (intr \/ rpc \notin SarBefore \cup SarOver)
SarUntouched == UNCHANGED << rpc, intr >>

\* What it does to sadc: int_handler() of an orphan exits, otherwise pause() ends.
SadcSignalled ==
  /\ caught' = (caught \/ spc \notin SadcBefore \cup SadcOver)
  /\ spc' = IF spc \in SadcOver THEN spc
            ELSE IF spc \in SadcBefore \/ rpc \in SarOver THEN "dead"
            ELSE IF spc = "pause" THEN "check" ELSE spc
Forwards == spc \notin SadcBefore \cup SadcOver /\ rpc \notin SarOver

\* ^C reaches both processes, kill(1) one of them.
Signal ==
  /\ nsig < MaxSignals
  /\ nsig' = nsig + 1
  /\ \/ SadcSignalled /\ SarSignalled
     \/ SadcSignalled /\ IF Forwards THEN SarSignalled ELSE SarUntouched
     \/ SarSignalled /\ UNCHANGED << caught, spc >>
  /\ UNCHANGED << day, pipe, taken, left, rot, ofile, list, saved, idseq, selected, curr, hdr,
                  rtype, buf, togo, line, nlines, average >>

Midnight ==
  /\ day < LastDay
  /\ day' = day + 1
  /\ UNCHANGED << nsig, pipe, sadcvars, sarvars >>

\* SIGKILL, a full disk (p_write_error()), a closed terminal (TEST_STDOUT).
Die ==
  /\ MayFail
  /\ \/ spc \notin SadcOver /\ spc' = "dead" /\ UNCHANGED rpc
     \/ rpc \notin SarOver /\ rpc' = "killed" /\ UNCHANGED spc
  /\ UNCHANGED << day, nsig, pipe, taken, left, rot, ofile, list, caught, saved, idseq, selected,
                  curr, hdr, rtype, buf, togo, intr, line, nlines, average >>

SadcStep ==
  \/ SadcOpen \/ SendHeader \/ SadcSample \/ SendRecord \/ Save \/ SadcRotate
  \/ SadcCount \/ Alarm \/ SadcCheck
SarStep ==
  \/ SarReadMagic \/ SarReadList \/ SarReadRecord \/ SarReadData \/ SarInstall
  \/ SarShow \/ SarTally \/ SarAverage

Next == SadcStep \/ SarStep \/ Signal \/ Midnight \/ Die

\* Both processes keep running; the timer of sadc is periodic.
Spec == Init /\ [][Next]_vars /\ WF_vars(SadcStep) /\ WF_vars(SarStep)

-----------------------------------------------------------------------------
(* Properties. *)

\* Program counters, buffers and counters keep their types; the pipe never holds
\* more than it can.
TypeOK ==
  /\ day \in Day /\ nsig \in 0..MaxSignals
  /\ Len(pipe) <= PipeSize
  /\ spc \in SadcBefore \cup SadcOver \cup
       {"sample", "rec", "data", "save", "rotate", "magic", "list", "saveagain", "count", "pause", "check"}
  /\ taken \in SampleNr /\ left \in SampleNr /\ rot \in 0..LastDay /\ ofile \in Day
  /\ list \in Lists \cup {<< >>} /\ caught \in BOOLEAN
  /\ \A d \in Day : ToSet(saved[d]) \subseteq SampleNr
  /\ rpc \in SarBefore \cup SarOver \cup {"rec", "data", "magic", "list", "show", "tally", "avg"}
  /\ idseq \in Lists \cup {<< >>} /\ selected \subseteq Wanted /\ curr \in {0, 1}
  /\ hdr \in [Slot -> SampleNr] /\ rtype \in {"R_STATS", "R_LAST_STATS"}
  /\ buf \in [Slot -> [Activity -> SampleNr]]
  /\ togo \in 0..NrLines /\ intr \in BOOLEAN /\ nlines \in 0..NrLines

\* sar always takes a message for what it is, with the list it was written with:
\* header and record stay in step across rotations ("Sequence must be the same
\* for stdout as for output file", setup_file_hdr()).
InStep == rpc # "garbled"

\* No sample is skipped and none is displayed twice: line number n goes from
\* sample n to the next one, for each activity displayed, also when a rotation
\* brought another list of activities in between.
LinesConsecutive ==
  nlines > 0 =>
    /\ line.from = nlines /\ line.to = nlines + 1
    /\ \A a \in DOMAIN line.items : line.items[a] = << line.from, line.to >>

\* The average is over the samples that were displayed, whether the report ended
\* on its count or on a signal ("No data retrieved from last read").
AverageSpansLines ==
  rpc = "done" /\ nlines > 0 =>
    /\ average.from = 1 /\ average.to = line.to
    /\ \A a \in DOMAIN average.items : average.items[a] = << 1, line.to >>

\* "End of data collecting unexpected" is for a collector that died, never for
\* one that ended by itself.
UnexpectedEnd == rpc = "eod" => spc \in {"failed", "dead"}

\* What sar displays is in the file (man sar: "The collected data can also be
\* saved in the file [...] in addition to being displayed"): only the last sample
\* may be missing, when sadc has not written it yet or was killed there.
DisplayedIsSaved ==
  Output # "none" =>
    \A k \in 1..line.to :
      \/ \E d \in Day : k \in ToSet(saved[d])
      \/ k = taken /\ spc \in {"save", "dead"}

\* Neither process waits for ever for the other one: on the pipe, full or empty,
\* in pause(), after a signal or after the death of the other.
BothEnd == <>(spc \in SadcOver /\ rpc \in SarOver)
=============================================================================
