-------------------------------- MODULE Sadf --------------------------------
(***************************************************************************)
(* sadf: the display of a daily data file in another format (sadf.c).  It  *)
(* selects samples as sar -f does (SarReport: its time arithmetic, its     *)
(* variables and what its report should be are used here), but walks the   *)
(* file in one of these ways:                                              *)
(*   "records"     logic1_display_loop() for XML and JSON: all activities  *)
(*                 of a sample at a time, then two more passes over the    *)
(*                 file for restarts and comments;                         *)
(*   "archive"     logic1_display_loop() for PCP: items are counted first, *)
(*                 then everything is written in the order of the file;    *)
(*   "activities"  logic2_display_loop(): the file is read once for every  *)
(*                 activity (ppc, db and raw);                             *)
(*   "horizontal"  the same, all activities on a line (-h);                *)
(*   "graphs"      svg_display_loop(): items are counted, then the file is *)
(*                 read twice for every activity, in MOCK_MODE to get the  *)
(*                 height of the canvas and in REAL_MODE.                  *)
(***************************************************************************)
EXTENDS SarReport

VARIABLES
  loop,      \* f_display of the format
  stage,     \* which of its passes over the file
  sketch,    \* points plotted in MOCK_MODE
  listed     \* activities with items in count_file_items()

sadfVars == << loop, stage, sketch, listed >>

Loops == {"records", "archive", "activities", "horizontal", "graphs"}
Stages == {"search", "items", "show", "mock", "restarts", "comments"}

Activities == IF loop \in {"records", "archive", "horizontal"} THEN Pass ELSE {pass}
Counting == stage \in {"search", "items"}

SadfInit ==
  /\ Init
  /\ loop \in Loops
  /\ stage = IF loop \in {"archive", "graphs"} THEN "search" ELSE "show"
  /\ sketch = << >> /\ listed = {}

-----------------------------------------------------------------------------
(* Reading a record. *)

\* Special records that read_next_sample() displays: the others are ignored.
NotIgnored ==
  CASE Counting -> {}
    [] stage = "restarts" -> {"restart"}
    [] stage = "comments" -> {"comment"}
    [] loop \in {"activities", "horizontal"} ->
         IF pc = "first" THEN {"restart", "comment"} ELSE {"comment"}
    [] loop = "archive" -> {"restart", "comment"}
    [] OTHER -> {}

\* UEOF_CONT: a sample cut short ends the file without an error.
Tolerant ==
  \/ Counting \/ stage \in {"restarts", "comments"} \/ loop = "graphs"
  \/ loop \in {"records", "archive"} /\ pc # "first"

\* DONT_READ_CPU_NR
CpuNrLater == loop \in {"activities", "horizontal"} /\ pc # "first"

\* What the next record is to read_next_sample(): its type, the end of the file
\* or a reason to exit.  The text of a comment that is ignored is seeked over,
\* even if it is not there; the number of CPUs after a restart has to be.
NextIs ==
  IF pos > heads THEN "eof"
  ELSE IF pos <= whole THEN Rec(pos).type
  ELSE CASE Stats(pos) -> IF Tolerant THEN "eof" ELSE "exit"
         [] Rec(pos).type = "comment" -> IF "comment" \in NotIgnored THEN "exit" ELSE "comment"
         [] OTHER -> IF CpuNrLater THEN "restart" ELSE "exit"

\* read_next_sample() into slot s, a sample to be kept being copied to slot 2.
ReadNextSample(s, keep) ==
  /\ NextIs \notin {"eof", "exit"}
  /\ pos' = pos + 1
  /\ hdr' = [hdr EXCEPT ![s] = pos, ![2] = IF keep THEN pos ELSE @]
  /\ buf' = IF Stats(pos) THEN [buf EXCEPT ![s] = pos, ![2] = IF keep THEN pos ELSE @] ELSE buf
  /\ eosaf' = FALSE

\* The special record that was read, if it is to be displayed.
SpecialShown == IF Rec(pos).type \in NotIgnored THEN Shown(pos) ELSE out

\* Nothing more to read: back to the saved position if the file is read again.
Eof(again) ==
  /\ NextIs = "eof"
  /\ eosaf' = TRUE
  /\ pos' = IF again THEN fpos ELSE pos
  /\ UNCHANGED << hdr, buf, out >>

Exit ==
  /\ pc \in {"first", "line", "skip", "resume"} /\ NextIs = "exit"
  /\ pc' = "exit"
  /\ UNCHANGED << reader, stage, sketch, listed >>

-----------------------------------------------------------------------------
(* Counting items. *)

\* count_file_items() looks for a record, special or not, in the interval of -s
\* and -e; if there is none, nothing is displayed.
CountSearch ==
  /\ stage = "search"
  /\ \/ Eof(FALSE) /\ pc' = "done" /\ UNCHANGED << stage, listed >>
     \/ /\ ReadNextSample(0, FALSE)
        /\ stage' = IF InRange(pos) THEN "items" ELSE stage
        /\ listed' = IF InRange(pos) /\ buf'[0] # 0 THEN Rec(buf'[0]).has ELSE listed
        /\ UNCHANGED << pc, out >>
  /\ UNCHANGED << fpos, curr, pass, cnt, reset, reset_cd, last_uptime, cross_day, davg, sketch >>

\* Mutant of Counted: counts up to a special record.
CountedUntilSpecial == Late(pos, FALSE) \/ ~Stats(pos)

\* Whether the end of the interval has come.
Counted == Late(pos, FALSE)

\* Items are counted until the end of the interval, then sadf goes back to the
\* first record.
CountItems ==
  /\ stage = "items"
  /\ \/ Eof(TRUE) /\ stage' = "show" /\ UNCHANGED listed
     \/ /\ ReadNextSample(0, FALSE) /\ ~Counted
        /\ listed' = IF Stats(pos) THEN listed \cup Rec(pos).has ELSE listed
        /\ UNCHANGED << stage, out >>
     \/ /\ NextIs \notin {"eof", "exit"} /\ Counted
        /\ stage' = "show" /\ pos' = fpos
        /\ hdr' = [hdr EXCEPT ![0] = pos]
        /\ buf' = IF Stats(pos) THEN [buf EXCEPT ![0] = pos] ELSE buf
        /\ eosaf' = FALSE
        /\ UNCHANGED << listed, out >>
  /\ UNCHANGED << pc, fpos, curr, pass, cnt, reset, reset_cd, last_uptime, cross_day, davg, sketch >>

-----------------------------------------------------------------------------
(* Displaying samples. *)

\* f_json_print(), f_render(), f_svg_print()... for each activity with items, in
\* the order of the activities.
LinesOf(i, k) ==
  LET upTo[a \in 0..NrPass] ==
        IF a = 0 THEN << >>
        ELSE IF a \in Activities \cap Rec(k).has
               THEN Append(upTo[a - 1], [kind |-> "line", pass |-> a, from |-> i, to |-> k])
               ELSE upTo[a - 1]
  IN  upTo[NrPass]

\* generic_write_stats() for the sample k just read, p being the record before
\* it in the other slot, and what its callers do of its result.
GenericWriteStats(p, k) ==
  LET slice == NextSlice(Rec(hdr[2]).up,
                         IF last_uptime = 0 \/ reset THEN Rec(hdr[2]).up ELSE last_uptime,
                         Rec(k).up)
      late == Late(k, CrossDay(p, k))
      next == slice /\ ~late
      lines == IF next THEN LinesOf(buf[1 - curr], k) ELSE << >>
  IN  /\ last_uptime' = Rec(k).up
      /\ cross_day' = IF slice THEN CrossDay(p, k) ELSE ~reset_cd /\ cross_day
      /\ cnt' = IF slice /\ late THEN 0 ELSE IF next THEN LinesLeft ELSE cnt
      /\ out' = IF stage = "mock" THEN out ELSE out \o lines
      /\ sketch' = IF stage = "mock" THEN sketch \o lines ELSE sketch
      /\ davg' = IF next THEN davg + 1 ELSE davg
      /\ curr' = IF next THEN 1 - curr ELSE curr
      /\ reset' = FALSE /\ reset_cd' = FALSE

Grouped == loop \in {"activities", "horizontal"}
Displaying == stage \in {"show", "mock"}
LastPass == IF loop = "graphs" \/ loop = "activities" THEN NrPass ELSE 1

\* At the end of the file logic1_display_loop() has done, or goes on to the
\* restarts; the other loops have this to do.
EndOfFile(then) ==
  /\ stage' = IF loop = "records" THEN "restarts" ELSE stage
  /\ pc' = IF loop = "records" THEN "first" ELSE IF loop = "archive" THEN "done" ELSE then

\* The first sample of a segment is looked for, and kept in the third slot.
FirstSample ==
  /\ Displaying /\ pc = "first"
  /\ \/ /\ Eof(loop = "records")
        /\ EndOfFile("done")
        /\ UNCHANGED << fpos, curr, cnt, reset >>
     \/ /\ ReadNextSample(0, Stats(pos) /\ InRange(pos))
        /\ out' = SpecialShown
        /\ IF Stats(pos) /\ InRange(pos)
             THEN /\ reset' = TRUE
                  /\ IF loop \in {"records", "archive"}
                       THEN pc' = "line" /\ curr' = 1 /\ cnt' = job.count /\ UNCHANGED << fpos, stage >>
                       ELSE /\ pc' = "begin" /\ fpos' = pos + 1 /\ UNCHANGED << curr, cnt >>
                            /\ stage' = IF loop = "graphs" THEN "mock" ELSE stage
             ELSE UNCHANGED << pc, curr, cnt, reset, fpos, stage >>
  /\ pass' = 1
  /\ UNCHANGED << reset_cd, last_uptime, cross_day, davg, sketch, listed >>

\* rw_curr_act_stats() and gen_curr_act_svg_code(): back to the first sample.
Rewind == Begin /\ UNCHANGED << stage, sketch, listed >>

\* One turn of the loops that display samples.
NextSample ==
  /\ Displaying /\ pc = "line"
  /\ \/ /\ Eof(loop = "records")
        /\ EndOfFile("average")
        /\ UNCHANGED << curr, cnt, reset, reset_cd, last_uptime, cross_day, davg, sketch >>
     \/ /\ ReadNextSample(curr, FALSE) /\ ~Stats(pos)
        /\ out' = SpecialShown
        /\ pc' = CASE Rec(pos).type = "comment" -> pc
                   [] loop \in {"records", "archive"} -> "first"
                   [] Grouped -> "average"
                   [] OTHER -> "resume"
        /\ reset' = (reset \/ (Rec(pos).type = "restart" /\ ~Grouped))
        /\ UNCHANGED << curr, cnt, reset_cd, last_uptime, cross_day, davg, stage, sketch >>
     \/ /\ ReadNextSample(curr, FALSE) /\ Stats(pos)
        /\ GenericWriteStats(hdr[1 - curr], pos)
        /\ pc' = IF cnt' # 0 THEN pc ELSE IF loop \in {"records", "archive"} THEN "skip" ELSE "average"
        /\ UNCHANGED stage
  /\ UNCHANGED << fpos, pass, listed >>

\* The next activity; in REAL_MODE after MOCK_MODE; or what comes after the last.
NextActivity ==
  /\ Displaying /\ pc = "average"
  /\ reset' = TRUE
  /\ LET more == pass < LastPass
     IN  /\ pass' = IF more THEN pass + 1 ELSE IF stage = "mock" THEN 1 ELSE pass
         /\ stage' = IF more \/ stage # "mock" THEN stage ELSE "show"
         /\ curr' = IF more \/ stage # "mock" THEN curr ELSE 1
         /\ pc' = CASE more \/ stage = "mock" -> "begin"
                    [] loop = "graphs" -> "done"
                    [] OTHER -> IF cnt = 0 THEN "skip" ELSE "restart"
  /\ UNCHANGED << pos, fpos, hdr, buf, cnt, eosaf, reset_cd, last_uptime, cross_day, davg, out,
                  sketch, listed >>

\* "Go to next Linux restart, if possible", all the lines having been displayed.
ToRestart ==
  /\ Displaying /\ pc = "skip"
  /\ \/ /\ Eof(loop = "records")
        /\ EndOfFile("restart")
     \/ /\ ReadNextSample(curr, FALSE)
        /\ out' = SpecialShown
        /\ pc' = IF Rec(pos).type # "restart" THEN pc ELSE IF Grouped THEN "restart" ELSE "first"
        /\ UNCHANGED stage
  /\ UNCHANGED << fpos, curr, pass, cnt, reset, reset_cd, last_uptime, cross_day, davg, sketch, listed >>

\* Mutant of AfterRestart: the reference is left in the slot that is read next.
AfterRestartSameSlot ==
  /\ pc = "resume"
  /\ \/ Eof(FALSE) /\ pc' = "average" /\ UNCHANGED curr
     \/ /\ ReadNextSample(curr, FALSE)
        /\ pc' = (IF Stats(pos) THEN "line" ELSE pc) /\ UNCHANGED << curr, out >>
  /\ UNCHANGED << fpos, pass, cnt, reset, reset_cd, last_uptime, cross_day, davg, stage, sketch, listed >>

\* "Go to next statistics record, if possible": the graphs go on from it.
AfterRestart ==
  /\ pc = "resume"
  /\ \/ Eof(FALSE) /\ pc' = "average" /\ curr' = 1 - curr
     \/ /\ ReadNextSample(curr, FALSE)
        /\ IF Stats(pos) THEN pc' = "line" /\ curr' = 1 - curr ELSE UNCHANGED << pc, curr >>
        /\ UNCHANGED out
  /\ UNCHANGED << fpos, pass, cnt, reset, reset_cd, last_uptime, cross_day, davg, stage, sketch, listed >>

\* logic2_display_loop(): "The last record we read was a RESTART one: Print it".
RestartShown == Grouped /\ Restart /\ UNCHANGED << stage, sketch, listed >>

\* "Process now RESTART entries", then "Last, process COMMENT entries".
Specials ==
  /\ stage \in {"restarts", "comments"}
  /\ \/ /\ Eof(stage = "restarts")
        /\ IF stage = "restarts" THEN stage' = "comments" /\ UNCHANGED pc
                                 ELSE pc' = "done" /\ UNCHANGED stage
     \/ /\ ReadNextSample(0, FALSE)
        /\ out' = SpecialShown
        /\ UNCHANGED << pc, stage >>
  /\ UNCHANGED << fpos, curr, pass, cnt, reset, reset_cd, last_uptime, cross_day, davg, sketch, listed >>

Display ==
  /\ pc \notin Over
  /\ \/ CountSearch \/ CountItems \/ FirstSample \/ Rewind \/ NextSample \/ NextActivity
     \/ ToRestart \/ AfterRestart \/ RestartShown \/ Specials \/ Exit
  /\ UNCHANGED << job, heads, whole, loop >>

SadfNext == Display \/ (Grow /\ UNCHANGED sadfVars)

SadfSpec == SadfInit /\ [][SadfNext]_<<vars, sadfVars>> /\ WF_<<vars, sadfVars>>(Display)

-----------------------------------------------------------------------------
(* Properties. *)

\* The variables that sar has not.
SadfTypeOK ==
  /\ loop \in Loops /\ stage \in Stages
  /\ sketch \in Seq(Entry) /\ listed \subseteq Pass

\* Every record has the items of all activities: an activity without items in a
\* sample is left out of it, and its next line starts there, unlike in sar.
AllItems == \A k \in Samples : Rec(k).has = Pass

\* Graphs are not in this case: -i and the number of lines then mean other
\* samples, see GraphSlices.
AsSar == loop = "graphs" => Restarts = {} \/ (job.interval = 1 /\ job.count = Unset)

\* man sadf: "used to tell sadf to select count records at interval seconds
\* apart", and -s and -e are those of sar: whatever the format, the samples
\* displayed are those of sar's report, and each special record of the period is
\* displayed once, restarts before what follows them; in an archive everything is
\* in the order of the file (ORDER_ALL_RECORDS); and a canvas has the height of
\* the graphs that are drawn in it.
SadfComplete ==
  pc = "done" /\ ~job.growing /\ AllItems /\ AsSar =>
    LET specials == { k \in Records : ~Stats(k) /\ InRange(k) }
        Times(k) == Cardinality({ i \in DOMAIN out : out[i] = Special(k) })
    IN  /\ Kind("line") = ExpectedLines
        /\ \A i, j \in DOMAIN out : out[i] = out[j] /\ out[i].kind # "comment" => i = j
        /\ loop # "graphs" => \A k \in specials :
             IF Rec(k).type = "comment" /\ loop = "activities" THEN Times(k) >= 1 ELSE Times(k) = 1
        /\ loop = "archive" => \A i, j \in DOMAIN out : i < j => out[i].to <= out[j].to
        /\ sketch = (IF loop = "graphs" THEN out ELSE << >>)

\* An activity is displayed only if count_file_items() has found items of it,
\* which the archive has then been told of, or the graphs have room for.
ItemsCounted ==
  loop \in {"archive", "graphs"} /\ ~job.growing =>
    \A e \in ToSet(out) \cup ToSet(sketch) : e.kind = "line" => e.pass \in listed

\* "@uptime_ref: System uptime used as reference. This is the system uptime for
\* the first sample statistics, or the first system uptime after a LINUX RESTART"
\* (next_slice()): the samples that option -i selects are counted from there.  This
\* is not so after a restart, where the reference stays that of the former boot:
\* see AsSar.
GraphSlices ==
  loop = "graphs" => \A e \in ToSet(out) :
    \E b \in Samples : /\ b < e.to /\ SameBoot(b, e.to)
                       /\ \A i \in Samples : i < b => ~SameBoot(i, b) \/ ~Inside(i)
                       /\ Displayable(b, e.to)
=============================================================================
