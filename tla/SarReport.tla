------------------------------ MODULE SarReport ------------------------------
(***************************************************************************)
(* sar -f: the report made of a daily data file (sar.c:                    *)
(* read_stats_from_file(), handle_curr_act_stats(), write_stats(),         *)
(* write_stats_avg(); sa_common.c: read_record_hdr(),                      *)
(* read_file_stat_bunch(), print_special_record(), next_slice(),           *)
(* datecmp()).                                                             *)
(*                                                                         *)
(* The file is read once for every activity, from the first sample after a *)
(* LINUX RESTART up to the next one, while a sadc may be writing to it.    *)
(* Samples are numbers of records of the file; what is counted in them is  *)
(* left out.                                                               *)
(***************************************************************************)
EXTENDS Integers, Sequences, FiniteSets, SequencesExt

CONSTANTS
  NrPass,    \* activities displayed, each of its outputs counted as one
  Cases,     \* files and command lines: see Case
  DayLen,    \* seconds of a day
  HourLen,   \* seconds of an hour
  Wrap       \* 2^32: what is kept of a difference of uptimes

Pass == 1..NrPass

Unset == -1   \* NO_TIME, and no limit to the number of lines

\* A record: when it was made (seconds), the uptime then (1/100 s), and the
\* activities with items in it.
Record == [type: {"stats", "restart", "comment"}, at: Nat, up: Nat, has: SUBSET Pass]

\* A file with the records to come, of which the first whole ones are complete
\* and the first heads ones have their header, and the options of sar.
IsCase(c) ==
  /\ c.file \in Seq(Record)
  /\ c.whole \in 0..Len(c.file) /\ c.heads \in {c.whole, c.whole + 1} /\ c.heads <= Len(c.file)
  /\ c.growing \in BOOLEAN
  /\ c.start \in {Unset} \cup 0..(DayLen - 1) /\ c.end \in {Unset} \cup 0..(DayLen - 1)
  /\ c.count \in {Unset} \cup (Nat \ {0}) /\ c.interval \in Nat \ {0}

ASSUME SarReportAssumption ==
  /\ NrPass \in Nat \ {0}
  /\ HourLen \in Nat \ {0} /\ DayLen \in Nat \ {0} /\ DayLen % HourLen = 0
  /\ Wrap \in Nat \ {0}
  /\ \A c \in Cases : IsCase(c)

VARIABLES
  job,         \* the case at hand
  heads,       \* records whose header is in the file
  whole,       \* records that are complete in the file
  pc, pos,     \* the next record that sar reads
  fpos,        \* position of the second sample after a restart
  hdr, buf,    \* record_hdr[] and buf[] of the activities: numbers of records
  curr, pass,
  cnt, eosaf,
  reset, reset_cd, last_uptime, cross_day,   \* next_slice() and write_stats()
  davg,        \* lines displayed in this pass
  out          \* what was displayed

reader == << pos, fpos, hdr, buf, curr, pass, cnt, eosaf, reset, reset_cd, last_uptime, cross_day, davg, out >>
vars == << job, heads, whole, pc, reader >>

\* "resume" is for sadf only.
Labels == {"first", "begin", "line", "average", "skip", "restart", "resume", "done", "exit"}
Over == {"done", "exit"}

Rec(k) == job.file[k]
Stats(k) == Rec(k).type = "stats"

Init ==
  /\ job \in Cases
  /\ heads = job.heads /\ whole = job.whole
  /\ pc = "first" /\ pos = 1 /\ fpos = 1
  /\ hdr = [s \in 0..2 |-> 0] /\ buf = [s \in 0..2 |-> 0]
  /\ curr = 1 /\ pass = 1 /\ cnt = 1 /\ eosaf = TRUE
  /\ reset = FALSE /\ reset_cd = FALSE /\ last_uptime = 0 /\ cross_day = FALSE
  /\ davg = 0 /\ out = << >>

-----------------------------------------------------------------------------
(* Time. *)

TimeOfDay(k) == Rec(k).at % DayLen
Hour(t) == t \div HourLen

\* check_time_limits(): an end before the start is on the next day.
TmEnd ==
  IF job.start # Unset /\ job.end # Unset /\ Hour(job.end) < Hour(job.start)
    THEN job.end + DayLen ELSE job.end

\* datecmp() < 0 with tm_start and datecmp() > 0 with tm_end.
Early(k) == job.start # Unset /\ TimeOfDay(k) < job.start
Late(k, cross) == job.end # Unset /\ TimeOfDay(k) + (IF cross THEN DayLen ELSE 0) > TmEnd

InRange(k) == ~Early(k) /\ ~Late(k, FALSE)

\* Mutant of CrossDay: not cleared for the next activity.
CrossDayKept(p, k) ==
  \/ cross_day
  \/ job.start # Unset /\ Rec(k).at > Rec(p).at /\ Hour(TimeOfDay(k)) < Hour(TimeOfDay(p))

\* cross_day, when k is displayed after p: set by the first sample of a new
\* day, until the next activity.
CrossDay(p, k) ==
  \/ ~reset_cd /\ cross_day
  \/ job.start # Unset /\ Rec(k).at > Rec(p).at /\ Hour(TimeOfDay(k)) < Hour(TimeOfDay(p))

\* 1/100 s to seconds.
Seconds(cs) == (cs + 50) \div 100

\* next_slice(): whether a sample of uptime up is close enough to a multiple of
\* the interval.
NextSlice(ref, last, up) ==
  \/ job.interval = 1
  \/ LET file_interval == Seconds((up - last) % Wrap)
         entry == Seconds((up - ref) % Wrap)
         min == entry - file_interval \div 2
         max == entry + (file_interval \div 2) + (file_interval % 2)
         pt1 == (entry \div job.interval) * job.interval
         pt2 == (entry \div job.interval + 1) * job.interval
     IN  (min <= pt1 /\ pt1 < max) \/ (min <= pt2 /\ pt2 < max)

-----------------------------------------------------------------------------
(* The report. *)

Special(k) == [kind |-> Rec(k).type, pass |-> 0, from |-> k, to |-> k]
Line(i, k) == [kind |-> "line", pass |-> pass, from |-> i, to |-> k]
Avg(i, k) == [kind |-> "average", pass |-> pass, from |-> i, to |-> k]

\* print_special_record(): if it is in the interval of -s and -e.
Shown(k) == IF InRange(k) THEN Append(out, Special(k)) ELSE out

\* "End of system activity file unexpected".
Unexpected ==
  /\ pos <= heads /\ pos > whole
  /\ pc' = "exit"
  /\ UNCHANGED reader

\* Mutant of First: the first sample is not kept again after a restart.
FirstKeptOnce ==
  /\ pc = "first"
  /\ UNCHANGED << job, heads, whole >>
  /\ \/ /\ pos > heads
        /\ pc' = "done"
        /\ UNCHANGED reader
     \/ Unexpected
     \/ /\ pos <= whole
        /\ pos' = pos + 1
        /\ out' = IF Stats(pos) THEN out ELSE Shown(pos)
        /\ IF Stats(pos) /\ InRange(pos)
             THEN /\ hdr' = [hdr EXCEPT ![0] = pos, ![2] = IF @ = 0 THEN pos ELSE @]
                  /\ buf' = [buf EXCEPT ![0] = pos, ![2] = IF @ = 0 THEN pos ELSE @]
                  /\ fpos' = pos + 1 /\ reset' = TRUE /\ pass' = 1
                  /\ pc' = "begin"
             ELSE /\ hdr' = [hdr EXCEPT ![0] = pos]
                  /\ buf' = IF Stats(pos) THEN [buf EXCEPT ![0] = pos] ELSE buf
                  /\ UNCHANGED << pc, fpos, reset, pass >>
        /\ UNCHANGED << curr, cnt, eosaf, reset_cd, last_uptime, cross_day, davg >>

\* Mutant of First: waits for more records at the end of the file.
FirstFollows ==
  /\ pc = "first"
  /\ UNCHANGED << job, heads, whole >>
  /\ \/ /\ pos > heads
        /\ UNCHANGED << pc, reader >>
     \/ Unexpected
     \/ /\ pos <= whole
        /\ pos' = pos + 1
        /\ out' = IF Stats(pos) THEN out ELSE Shown(pos)
        /\ IF Stats(pos) /\ InRange(pos)
             THEN /\ hdr' = [hdr EXCEPT ![0] = pos, ![2] = pos]
                  /\ buf' = [buf EXCEPT ![0] = pos, ![2] = pos]
                  /\ fpos' = pos + 1 /\ reset' = TRUE /\ pass' = 1
                  /\ pc' = "begin"
             ELSE /\ hdr' = [hdr EXCEPT ![0] = pos]
                  /\ buf' = IF Stats(pos) THEN [buf EXCEPT ![0] = pos] ELSE buf
                  /\ UNCHANGED << pc, fpos, reset, pass >>
        /\ UNCHANGED << curr, cnt, eosaf, reset_cd, last_uptime, cross_day, davg >>

\* read_stats_from_file() looks for the first sample: special records are
\* displayed, samples that are not in the interval of -s and -e are skipped.
First ==
  /\ pc = "first"
  /\ UNCHANGED << job, heads, whole >>
  /\ \/ /\ pos > heads
        /\ pc' = "done"
        /\ UNCHANGED reader
     \/ Unexpected
     \/ /\ pos <= whole
        /\ pos' = pos + 1
        /\ out' = IF Stats(pos) THEN out ELSE Shown(pos)
        /\ IF Stats(pos) /\ InRange(pos)
             THEN /\ hdr' = [hdr EXCEPT ![0] = pos, ![2] = pos]
                  /\ buf' = [buf EXCEPT ![0] = pos, ![2] = pos]
                  /\ fpos' = pos + 1 /\ reset' = TRUE /\ pass' = 1
                  /\ pc' = "begin"
             ELSE /\ hdr' = [hdr EXCEPT ![0] = pos]
                  /\ buf' = IF Stats(pos) THEN [buf EXCEPT ![0] = pos] ELSE buf
                  /\ UNCHANGED << pc, fpos, reset, pass >>
        /\ UNCHANGED << curr, cnt, eosaf, reset_cd, last_uptime, cross_day, davg >>

\* Mutant of Begin: the first sample is not restored.
BeginNoRestore ==
  /\ pc = "begin"
  /\ pos' = fpos
  /\ cnt' = job.count
  /\ reset_cd' = TRUE
  /\ davg' = 0
  /\ pc' = "line"
  /\ UNCHANGED << job, heads, whole, hdr, buf, fpos, curr, pass, eosaf, reset, last_uptime, cross_day, out >>

\* handle_curr_act_stats(): back to the first sample for another activity.
Begin ==
  /\ pc = "begin"
  /\ pos' = fpos
  /\ hdr' = [hdr EXCEPT ![1 - curr] = hdr[2]]
  /\ buf' = [buf EXCEPT ![1 - curr] = buf[2]]
  /\ cnt' = job.count
  /\ reset_cd' = TRUE
  /\ davg' = 0
  /\ pc' = "line"
  /\ UNCHANGED << job, heads, whole, fpos, curr, pass, eosaf, reset, last_uptime, cross_day, out >>

\* Mutant of LinesLeft: also when there is no limit.
LinesLeftAlways == cnt - 1

\* *cnt after a line was displayed.
LinesLeft == IF cnt > 0 THEN cnt - 1 ELSE cnt

\* write_stats() for the sample k just read: sample p is the last one displayed.
WriteStats(p, k) ==
  LET slice == NextSlice(Rec(hdr[2]).up,
                         IF last_uptime = 0 \/ reset THEN Rec(hdr[2]).up ELSE last_uptime,
                         Rec(k).up)
      late == Late(k, CrossDay(p, k))
      next == slice /\ ~late /\ pass \in Rec(k).has
  IN  /\ last_uptime' = Rec(k).up
      /\ cross_day' = IF slice THEN CrossDay(p, k) ELSE ~reset_cd /\ cross_day
      /\ cnt' = IF slice /\ late THEN 0 ELSE IF next THEN LinesLeft ELSE cnt
      /\ out' = IF next THEN Append(out, Line(buf[1 - curr], k)) ELSE out
      /\ davg' = IF next THEN davg + 1 ELSE davg
      /\ curr' = IF next THEN 1 - curr ELSE curr
      /\ reset' = FALSE /\ reset_cd' = FALSE
      /\ pc' = IF cnt' = 0 THEN "average" ELSE "line"

\* One turn of the loop of handle_curr_act_stats().
ReadLine ==
  /\ pc = "line"
  /\ UNCHANGED << job, heads, whole, fpos, pass >>
  /\ \/ /\ pos > heads
        /\ eosaf' = TRUE
        /\ pc' = "average"
        /\ UNCHANGED << pos, hdr, buf, curr, cnt, reset, reset_cd, last_uptime, cross_day, davg, out >>
     \/ /\ pos <= heads /\ Rec(pos).type = "restart"
        /\ hdr' = [hdr EXCEPT ![curr] = pos]
        /\ pos' = pos + 1 /\ eosaf' = FALSE
        /\ pc' = "average"
        /\ UNCHANGED << buf, curr, cnt, reset, reset_cd, last_uptime, cross_day, davg, out >>
     \/ pos <= heads /\ Rec(pos).type # "restart" /\ Unexpected
     \/ /\ pos <= whole /\ Rec(pos).type = "comment"
        /\ hdr' = [hdr EXCEPT ![curr] = pos]
        /\ pos' = pos + 1 /\ eosaf' = FALSE
        /\ out' = Shown(pos)
        /\ UNCHANGED << pc, buf, curr, cnt, reset, reset_cd, last_uptime, cross_day, davg >>
     \/ /\ pos <= whole /\ Stats(pos)
        /\ hdr' = [hdr EXCEPT ![curr] = pos]
        /\ buf' = [buf EXCEPT ![curr] = pos]
        /\ pos' = pos + 1 /\ eosaf' = FALSE
        /\ WriteStats(hdr[1 - curr], pos)

\* Mutant of AfterPass: the rest of the records is not skipped.
AfterPassNoSkip == IF pass < NrPass THEN "begin" ELSE "restart"

\* The next activity, or what comes after the last one.
AfterPass == IF pass < NrPass THEN "begin" ELSE IF cnt = 0 THEN "skip" ELSE "restart"

\* write_stats_avg(), for the lines that were displayed.
Average ==
  /\ pc = "average"
  /\ out' = IF davg > 0 THEN Append(out, Avg(buf[2], buf[1 - curr])) ELSE out
  /\ reset' = TRUE
  /\ pc' = AfterPass
  /\ pass' = IF pass < NrPass THEN pass + 1 ELSE pass
  /\ UNCHANGED << job, heads, whole, pos, fpos, hdr, buf, curr, cnt, eosaf, reset_cd, last_uptime, cross_day, davg >>

\* All the lines asked for were displayed: "Go to next Linux restart, if possible".
Skip ==
  /\ pc = "skip"
  /\ UNCHANGED << job, heads, whole, fpos, pass, curr, cnt, reset, reset_cd, last_uptime, cross_day, davg >>
  /\ \/ /\ pos > heads
        /\ eosaf' = TRUE
        /\ pc' = "restart"
        /\ UNCHANGED << pos, hdr, buf, out >>
     \/ /\ pos <= heads /\ Rec(pos).type = "restart"
        /\ hdr' = [hdr EXCEPT ![curr] = pos]
        /\ pos' = pos + 1 /\ eosaf' = FALSE
        /\ pc' = "restart"
        /\ UNCHANGED << buf, out >>
     \/ pos <= heads /\ Rec(pos).type # "restart" /\ Unexpected
     \/ /\ pos <= whole /\ Rec(pos).type # "restart"
        /\ hdr' = [hdr EXCEPT ![curr] = pos]
        /\ buf' = IF Stats(pos) THEN [buf EXCEPT ![curr] = pos] ELSE buf
        /\ pos' = pos + 1 /\ eosaf' = FALSE
        /\ out' = IF Stats(pos) THEN out ELSE Shown(pos)
        /\ UNCHANGED pc

\* "The last record we read was a RESTART one: Print it", with the number of
\* CPUs that follows it in the file; then on to the next samples, if any.
Restart ==
  /\ pc = "restart"
  /\ IF ~eosaf /\ Rec(hdr[curr]).type = "restart"
       THEN IF hdr[curr] > whole THEN pc' = "exit" /\ UNCHANGED out
            ELSE pc' = "first" /\ out' = Shown(hdr[curr])
       ELSE pc' = (IF eosaf THEN "done" ELSE "first") /\ UNCHANGED out
  /\ UNCHANGED << job, heads, whole, pos, fpos, hdr, buf, curr, pass, cnt, eosaf, reset, reset_cd,
                  last_uptime, cross_day, davg >>

\* A sadc adds to the file: the header of a record, then the rest of it.
Grow ==
  /\ job.growing /\ pc \notin Over
  /\ IF heads > whole
       THEN whole' = heads /\ UNCHANGED heads
       ELSE heads < Len(job.file) /\ heads' = heads + 1 /\ UNCHANGED whole
  /\ UNCHANGED << job, pc, reader >>

Sar == First \/ Begin \/ ReadLine \/ Average \/ Skip \/ Restart

Next == Sar \/ Grow

\* sar runs until it is done.
Spec == Init /\ [][Next]_vars /\ WF_vars(Sar)

-----------------------------------------------------------------------------
(* What the report should be. *)

Records == 1..whole
Samples == { k \in Records : Stats(k) }
Restarts == { k \in Records : Rec(k).type = "restart" }
SameBoot(i, k) == { r \in Restarts : i < r /\ r <= k } = {}

\* The period of -s and -e, from the day of the first record on.
FirstDay == Rec(1).at - TimeOfDay(1)
Inside(k) ==
  /\ job.start # Unset => Rec(k).at >= FirstDay + job.start
  /\ job.end # Unset => Rec(k).at <= FirstDay + TmEnd

\* The first sample of the period after each restart is what rates start from.
Bases ==
  { b \in Samples : Inside(b) /\ \A i \in Samples : i < b /\ Inside(i) => ~SameBoot(i, b) }

\* "En will be displayed if there is an integer p so that: p * Iu belongs to
\* [En - In/2, En + In/2[" (next_slice()).
Displayable(b, k) ==
  LET before == Max({ i \in Samples : b <= i /\ i < k })
      In == Seconds(Rec(k).up - Rec(before).up)
      En == Seconds(Rec(k).up - Rec(b).up)
  IN  job.interval = 1
      \/ \E p \in 0..(En + In) : 2 * p * job.interval \in (2 * En - In)..(2 * En + In - 1)

\* The samples displayed for an activity after base b: at most count of them.
Chosen(a, b) ==
  LET fit == { k \in Samples : k > b /\ SameBoot(b, k) /\ Inside(k) /\ a \in Rec(k).has
                               /\ Displayable(b, k) }
  IN  { k \in fit : job.count = Unset \/ Cardinality({ i \in fit : i <= k }) <= job.count }

ExpectedLines ==
  UNION { { [kind |-> "line", pass |-> a, from |-> Max({b} \cup { i \in Chosen(a, b) : i < k }), to |-> k]
              : k \in Chosen(a, b) } : a \in Pass, b \in Bases }

ExpectedAverages ==
  { [kind |-> "average", pass |-> x[1], from |-> x[2], to |-> Max(Chosen(x[1], x[2]))]
      : x \in { y \in Pass \X Bases : Chosen(y[1], y[2]) # {} } }

Kind(s) == { e \in ToSet(out) : e.kind = s }

-----------------------------------------------------------------------------
(* Properties. *)

\* What is displayed: a record of its own, a line, an average.
Entry == [kind: {"restart", "comment", "line", "average"}, pass: {0} \cup Pass, from: Nat, to: Nat]

\* Numbers of records, counts and labels are what they should be.
TypeOK ==
  /\ IsCase(job) /\ pc \in Labels
  /\ whole \in 0..Len(job.file) /\ heads \in whole..(whole + 1) /\ heads <= Len(job.file)
  /\ pos \in 1..(Len(job.file) + 1) /\ fpos \in 1..(Len(job.file) + 1)
  /\ hdr \in [0..2 -> 0..Len(job.file)] /\ buf \in [0..2 -> 0..Len(job.file)]
  /\ curr \in {0, 1} /\ pass \in Pass /\ cnt \in {Unset} \cup Nat
  /\ eosaf \in BOOLEAN /\ reset \in BOOLEAN /\ reset_cd \in BOOLEAN /\ cross_day \in BOOLEAN
  /\ last_uptime \in Nat /\ davg \in Nat /\ out \in Seq(Entry)

\* man sar, -s, -e, -i and count: the report of a file that nobody writes to has
\* exactly the lines, the averages and the restarts that these ask for, each of
\* them once.
ReportComplete ==
  pc = "done" /\ ~job.growing =>
    /\ Kind("line") = ExpectedLines /\ Kind("average") = ExpectedAverages
    /\ Kind("restart") = { Special(r) : r \in { i \in Restarts : InRange(i) } }
    /\ \A i, j \in DOMAIN out : out[i] = out[j] /\ out[i].kind # "comment" => i = j

\* A rate or an average is never over samples of two boots, nor of samples in
\* the wrong order, even when the file grows while it is read once and again.
WithinOneBoot ==
  \A e \in ToSet(out) : e.kind \in {"line", "average"} => e.from < e.to /\ SameBoot(e.from, e.to)

\* The line of an activity starts where its line before it ended, and its
\* average spans its lines since the restart.
LinesChain ==
  \A i \in DOMAIN out : out[i].kind \in {"line", "average"} =>
    LET e == out[i]
        own == { j \in 1..(i - 1) : /\ out[j].kind = "line" /\ out[j].pass = e.pass
                                    /\ SameBoot(out[j].from, e.to) }
    IN  IF e.kind = "line" THEN own # {} => e.from = out[Max(own)].to
        ELSE /\ own # {} /\ e.to = out[Max(own)].to
             /\ e.from = out[CHOOSE j \in own : \A k \in own : j <= k].from

\* "If we have @cnt == 0 then the last record we read was not a R_RESTART one"
\* (read_stats_from_file()): the records that follow the last activity's lines
\* are skipped exactly up to a restart or to the end of the file.
RestartNotMissed ==
  /\ pc = "skip" => Rec(pos - 1).type # "restart"
  /\ pc = "restart" => eosaf \/ Rec(hdr[curr]).type = "restart"

\* sar ends, even when it is reading a file that is being written to.
Ends == <>(pc \in Over)
=============================================================================
