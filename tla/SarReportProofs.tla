--------------------------- MODULE SarReportProofs ---------------------------
(***************************************************************************)
(* Proofs about SarReport, for any number of activities, any files and any *)
(* command lines, read whole, cut short or still being written; and about   *)
(* the items that sadf counts before it displays them (Sadf).               *)
(***************************************************************************)
EXTENDS MCSarReport, SumTheorems

\* No restart after record i, up to record k.
Quiet(i, k) == \A r \in (i + 1)..k : Rec(r).type # "restart"

\* The samples that the next line and the next average start from are samples of
\* the boot that is being displayed, and the records read after them are, too.
Segment ==
  /\ pc \in {"begin", "line", "average"} => fpos = buf[2] + 1
  /\ pc \in {"line", "average"} =>
       /\ buf[2] <= buf[1 - curr] /\ buf[1 - curr] < pos
       /\ davg > 0 => buf[2] < buf[1 - curr]
       /\ Quiet(buf[2], buf[1 - curr])
  /\ pc = "line" => Quiet(buf[1 - curr], pos - 1)

\* An entry of the report that is over samples of one boot, and a report of such.
Within(e) == e.kind \in {"line", "average"} => e.from < e.to /\ Quiet(e.from, e.to)
Sound(o) == \A i \in DOMAIN o : Within(o[i])

\* Why a pass ended: on its count, after a sample; at the end of the file; or on
\* a restart.
PassEnds ==
  /\ pc = "line" => cnt # 0
  /\ pc = "average" /\ cnt = 0 => Rec(pos - 1).type # "restart"
  /\ pc = "average" /\ cnt # 0 => eosaf \/ Rec(hdr[curr]).type = "restart"

-----------------------------------------------------------------------------
(* Types. *)

\* The parts of TypeOK: records of the file, control and report, flags.
Places ==
  /\ Len(job.file) \in Nat
  /\ whole \in 0..Len(job.file) /\ heads \in whole..(whole + 1) /\ heads <= Len(job.file)
  /\ pos \in 1..(Len(job.file) + 1) /\ fpos \in 1..(Len(job.file) + 1)
  /\ hdr \in [0..2 -> 0..Len(job.file)] /\ buf \in [0..2 -> 0..Len(job.file)]
  /\ curr \in {0, 1}

Control ==
  /\ pc \in Labels /\ pass \in Pass /\ cnt \in {Unset} \cup Nat
  /\ last_uptime \in Nat /\ davg \in Nat /\ out \in Seq(Entry)

Flags == eosaf \in BOOLEAN /\ reset \in BOOLEAN /\ reset_cd \in BOOLEAN /\ cross_day \in BOOLEAN

LEMMA TypeParts == TypeOK <=> IsCase(job) /\ Places /\ Control /\ Flags
<1>1. IsCase(job) => Len(job.file) \in Nat
  BY DEF IsCase
<1> QED
  BY <1>1, Zenon DEF TypeOK, Places, Control, Flags

\* The record at a place of the file has the fields of one.
LEMMA RecType ==
  ASSUME IsCase(job), NEW k \in 1..Len(job.file)
  PROVE  /\ Rec(k).type \in {"stats", "restart", "comment"}
         /\ Rec(k).at \in Nat /\ Rec(k).up \in Nat
<1>1. job.file[k] \in Record
  BY DEF IsCase
<1> QED
  BY <1>1 DEF Rec, Record

\* Displaying a special record keeps the type of the report.
LEMMA ShownType ==
  ASSUME out \in Seq(Entry), NEW k \in Nat, Rec(k).type \in {"restart", "comment"}
  PROVE  Shown(k) \in Seq(Entry)
<1>1. Special(k) \in Entry
  BY DEF Special, Entry
<1> QED
  BY <1>1 DEF Shown

\* What is displayed for an activity has the type of an entry.
LEMMA LineType ==
  ASSUME Control, NEW i \in Nat, NEW k \in Nat
  PROVE  Line(i, k) \in Entry /\ Avg(i, k) \in Entry
BY DEF Line, Avg, Entry, Control

LEMMA InitTyped == Init => TypeOK
<1> SUFFICES ASSUME Init PROVE TypeOK
  OBVIOUS
<1>1. IsCase(job)
  BY SarReportAssumption DEF Init
<1>2. /\ Len(job.file) \in Nat
      /\ whole \in 0..Len(job.file) /\ heads \in whole..(whole + 1) /\ heads <= Len(job.file)
  BY <1>1 DEF IsCase, Init
<1>3. hdr \in [0..2 -> 0..Len(job.file)] /\ buf \in [0..2 -> 0..Len(job.file)]
  BY <1>2 DEF Init
<1>4. Places
  BY <1>2, <1>3 DEF Init, Places
<1>5. Control
  BY SarReportAssumption DEF Init, Control, Labels, Pass
<1>6. Flags
  BY Zenon DEF Init, Flags
<1> QED
  BY <1>1, <1>4, <1>5, <1>6, TypeParts

\* At the end of the file, or in the middle of its last record, only the label
\* changes.
LEMMA StopTyped ==
  ASSUME TypeOK, UNCHANGED << job, heads, whole, reader >>, pc' \in Labels
  PROVE  TypeOK'
BY DEF TypeOK, reader, IsCase

LEMMA FirstTyped == ASSUME TypeOK, First PROVE TypeOK'
<1>1. UNCHANGED << job, heads, whole >> /\ IsCase(job) /\ IsCase(job')
  BY DEF First, TypeOK
<1>2. Places /\ Control /\ Flags
  BY TypeParts
<1>3. CASE pos > heads /\ pc' = "done" /\ UNCHANGED reader
  BY <1>1, <1>3, StopTyped DEF Labels
<1>4. CASE Unexpected
  BY <1>1, <1>4, StopTyped DEF Labels, Unexpected
<1>5. CASE pos <= whole /\ ~(pos > heads /\ pc' = "done" /\ UNCHANGED reader) /\ ~Unexpected
  <2>1. pos' = pos + 1 /\ curr' = curr /\ out' = IF Stats(pos) THEN out ELSE Shown(pos)
    BY <1>5, Zenon DEF First
  <2>2. hdr' \in {[hdr EXCEPT ![0] = pos, ![2] = pos], [hdr EXCEPT ![0] = pos]}
    BY <1>5, Zenon DEF First
  <2>3. buf' \in {[buf EXCEPT ![0] = pos, ![2] = pos], [buf EXCEPT ![0] = pos], buf}
    BY <1>5, Zenon DEF First
  <2>4. fpos' \in {pos + 1, fpos} /\ pass' \in {1, pass} /\ pc' \in {"begin", pc}
    BY <1>5, Zenon DEF First
  <2>5. cnt' = cnt /\ last_uptime' = last_uptime /\ davg' = davg
    BY <1>5, Zenon DEF First
  <2>6. Flags'
    <3>1. reset' = TRUE \/ reset' = reset
      BY <1>5, Zenon DEF First
    <3>2. eosaf' = eosaf /\ reset_cd' = reset_cd /\ cross_day' = cross_day
      BY <1>5, Zenon DEF First
    <3> QED
      BY <1>2, <3>1, <3>2, Zenon DEF Flags
  <2>7. pos \in 1..Len(job.file) /\ pos \in Nat
    BY <1>2, <1>5 DEF Places
  <2>8. Places'
    <3>1. hdr' \in [0..2 -> 0..Len(job.file)]
      BY <1>2, <2>2, <2>7 DEF Places
    <3>2. buf' \in [0..2 -> 0..Len(job.file)]
      BY <1>2, <2>3, <2>7 DEF Places
    <3>3. pos' \in 1..(Len(job.file) + 1) /\ fpos' \in 1..(Len(job.file) + 1)
      BY <1>2, <2>1, <2>4, <2>7 DEF Places
    <3> QED
      BY <1>1, <1>2, <2>1, <3>1, <3>2, <3>3 DEF Places
  <2>9. Control'
    <3>1. out' \in Seq(Entry)
      BY <1>1, <1>2, <2>1, <2>7, RecType, ShownType DEF Stats, Control
    <3> QED
      BY <1>2, <2>4, <2>5, <3>1, SarReportAssumption DEF Control, Labels, Pass
  <2> QED
    BY <1>1, <2>6, <2>8, <2>9, Zenon DEF TypeOK, Places, Control, Flags
<1> QED
  BY <1>3, <1>4, <1>5, Zenon DEF First

LEMMA BeginTyped == ASSUME TypeOK, Begin PROVE TypeOK'
<1>1. UNCHANGED << job, heads, whole >> /\ IsCase(job) /\ IsCase(job')
  BY DEF Begin, TypeOK
<1>2. Places /\ Control /\ Flags
  BY TypeParts
<1>3. job.count \in {Unset} \cup Nat
  BY <1>1 DEF IsCase
<1>4. Places'
  <2>1. hdr' = [hdr EXCEPT ![1 - curr] = hdr[2]] /\ buf' = [buf EXCEPT ![1 - curr] = buf[2]]
    BY DEF Begin
  <2>2. pos' = fpos /\ fpos' = fpos /\ curr' = curr
    BY DEF Begin
  <2> QED
    BY <1>1, <1>2, <2>1, <2>2 DEF Places
<1>5. Control'
  BY <1>2, <1>3 DEF Begin, Control, Labels
<1>6. Flags'
  BY <1>2, Zenon DEF Begin, Flags
<1> QED
  BY <1>1, <1>4, <1>5, <1>6, Zenon DEF TypeOK, Places, Control, Flags

\* A sample is displayed or not: what write_stats() sets has its type.
LEMMA WriteTyped ==
  ASSUME IsCase(job), Places, Control, Flags, pos <= whole, WriteStats(hdr[1 - curr], pos),
         pass' = pass
  PROVE  Control' /\ cross_day' \in BOOLEAN /\ curr' \in {0, 1}
<1> DEFINE line == Line(buf[1 - curr], pos)
<1>1. pos \in 1..Len(job.file) /\ pos \in Nat /\ buf[1 - curr] \in Nat
  BY DEF Places
<1>2. line \in Entry
  BY <1>1, LineType
<1>3. last_uptime' \in Nat
  BY <1>1, RecType DEF WriteStats
<1>4. out' \in {out, Append(out, line)} /\ davg' \in {davg, davg + 1}
  BY Zenon DEF WriteStats
<1>5. cnt' \in {0, LinesLeft, cnt}
  BY Zenon DEF WriteStats
<1>6. cnt' \in {Unset} \cup Nat
  BY <1>5 DEF LinesLeft, Control, Unset
<1>7. pc' \in {"average", "line"}
  BY Zenon DEF WriteStats
<1>8. curr' \in {0, 1}
  BY DEF WriteStats, Places
<1>9. cross_day' \in BOOLEAN
  BY DEF WriteStats, CrossDay, Flags
<1> QED
  BY <1>2, <1>3, <1>4, <1>6, <1>7, <1>8, <1>9 DEF Control, Labels

\* A record header is kept in the current slot, a sample also in its buffer, and
\* the file position moves on.
LEMMA ReadPlaces ==
  ASSUME Places, UNCHANGED << job, heads, whole, fpos >>, pos <= heads, pos' = pos + 1,
         curr' \in {0, 1}, hdr' = [hdr EXCEPT ![curr] = pos],
         buf' = [buf EXCEPT ![curr] = pos] \/ buf' = buf
  PROVE  Places'
<1>1. pos \in 0..Len(job.file) /\ curr \in 0..2
  BY DEF Places
<1>2. hdr' \in [0..2 -> 0..Len(job.file)]
  BY <1>1 DEF Places
<1>3. buf' \in [0..2 -> 0..Len(job.file)]
  BY <1>1 DEF Places
<1> QED
  BY <1>1, <1>2, <1>3 DEF Places

LEMMA ReadLineTyped == ASSUME TypeOK, ReadLine PROVE TypeOK'
<1>1. UNCHANGED << job, heads, whole >> /\ IsCase(job) /\ IsCase(job')
  BY DEF ReadLine, TypeOK
<1>2. Places /\ Control /\ Flags
  BY TypeParts
<1>3. fpos' = fpos /\ pass' = pass
  BY DEF ReadLine
<1>4. CASE /\ pos > heads
           /\ eosaf' = TRUE
           /\ pc' = "average"
           /\ UNCHANGED << pos, hdr, buf, curr, cnt, reset, reset_cd, last_uptime, cross_day, davg, out >>
  <2>1. Places'
    BY <1>1, <1>2, <1>3, <1>4 DEF Places
  <2>2. Control'
    BY <1>2, <1>3, <1>4 DEF Control, Labels
  <2>3. Flags'
    BY <1>2, <1>4, Zenon DEF Flags
  <2> QED
    BY <1>1, <2>1, <2>2, <2>3, Zenon DEF TypeOK, Places, Control, Flags
<1>5. CASE /\ pos <= heads /\ Rec(pos).type = "restart"
           /\ hdr' = [hdr EXCEPT ![curr] = pos]
           /\ pos' = pos + 1 /\ eosaf' = FALSE
           /\ pc' = "average"
           /\ UNCHANGED << buf, curr, cnt, reset, reset_cd, last_uptime, cross_day, davg, out >>
  <2>1. Places'
    BY <1>1, <1>2, <1>3, <1>5, ReadPlaces DEF Places
  <2>2. Control'
    BY <1>2, <1>3, <1>5 DEF Control, Labels
  <2>3. Flags'
    BY <1>2, <1>5, Zenon DEF Flags
  <2> QED
    BY <1>1, <2>1, <2>2, <2>3, Zenon DEF TypeOK, Places, Control, Flags
<1>6. CASE pos <= heads /\ Rec(pos).type # "restart" /\ Unexpected
  BY <1>1, <1>6, StopTyped DEF Labels, Unexpected
<1>7. CASE /\ pos <= whole /\ Rec(pos).type = "comment"
           /\ hdr' = [hdr EXCEPT ![curr] = pos]
           /\ pos' = pos + 1 /\ eosaf' = FALSE
           /\ out' = Shown(pos)
           /\ UNCHANGED << pc, buf, curr, cnt, reset, reset_cd, last_uptime, cross_day, davg >>
  <2>1. Places'
    <3>1. pos <= heads
      BY <1>2, <1>7 DEF Places
    <3> QED
      BY <1>1, <1>2, <1>3, <1>7, <3>1, ReadPlaces DEF Places
  <2>2. Control'
    <3>1. out' \in Seq(Entry)
      BY <1>2, <1>7, ShownType DEF Places, Control
    <3> QED
      BY <1>2, <1>3, <1>7, <3>1 DEF Control
  <2>3. Flags'
    BY <1>2, <1>7, Zenon DEF Flags
  <2> QED
    BY <1>1, <2>1, <2>2, <2>3, Zenon DEF TypeOK, Places, Control, Flags
<1>8. CASE /\ pos <= whole /\ Stats(pos)
           /\ hdr' = [hdr EXCEPT ![curr] = pos]
           /\ buf' = [buf EXCEPT ![curr] = pos]
           /\ pos' = pos + 1 /\ eosaf' = FALSE
           /\ WriteStats(hdr[1 - curr], pos)
  <2>1. Control' /\ cross_day' \in BOOLEAN /\ curr' \in {0, 1}
    BY <1>1, <1>2, <1>3, <1>8, WriteTyped
  <2>2. Places'
    <3>1. pos <= heads
      BY <1>2, <1>8 DEF Places
    <3> QED
      BY <1>1, <1>2, <1>3, <1>8, <2>1, <3>1, ReadPlaces
  <2>3. reset' = FALSE /\ reset_cd' = FALSE /\ eosaf' = FALSE
    BY <1>8, Zenon DEF WriteStats
  <2>4. Flags'
    BY <2>1, <2>3, Zenon DEF Flags
  <2> QED
    BY <1>1, <2>1, <2>2, <2>4, Zenon DEF TypeOK, Places, Control, Flags
<1> QED
  BY <1>4, <1>5, <1>6, <1>7, <1>8, Zenon DEF ReadLine

LEMMA AverageTyped == ASSUME TypeOK, Average PROVE TypeOK'
<1>1. UNCHANGED << job, heads, whole >> /\ IsCase(job) /\ IsCase(job')
  BY DEF Average, TypeOK
<1>2. Places /\ Control /\ Flags
  BY TypeParts
<1>3. Places'
  BY <1>1, <1>2 DEF Average, Places
<1>4. Control'
  <2> DEFINE avg == Avg(buf[2], buf[1 - curr])
  <2>1. buf[2] \in Nat /\ buf[1 - curr] \in Nat
    BY <1>2 DEF Places
  <2>2. avg \in Entry
    BY <1>2, <2>1, LineType
  <2>3. out' \in {out, Append(out, avg)} /\ cnt' = cnt /\ last_uptime' = last_uptime /\ davg' = davg
    BY Zenon DEF Average
  <2>4. pass' \in {pass, pass + 1} /\ (pass' = pass + 1 => pass < NrPass)
    BY DEF Average
  <2>5. pc' \in Labels
    BY DEF Average, AfterPass, Labels
  <2>6. out' \in Seq(Entry)
    BY <1>2, <2>2, <2>3 DEF Control
  <2>7. pass' \in Pass
    BY <1>2, <2>4, SarReportAssumption DEF Control, Pass
  <2> QED
    BY <1>2, <2>3, <2>5, <2>6, <2>7 DEF Control
<1>5. Flags'
  BY <1>2, Zenon DEF Average, Flags
<1> QED
  BY <1>1, <1>3, <1>4, <1>5, Zenon DEF TypeOK, Places, Control, Flags

LEMMA SkipTyped == ASSUME TypeOK, Skip PROVE TypeOK'
<1>1. UNCHANGED << job, heads, whole, fpos, pass, curr, cnt, last_uptime, davg >>
      /\ IsCase(job) /\ IsCase(job')
  BY DEF Skip, TypeOK
<1>2. UNCHANGED << reset, reset_cd, cross_day >>
  BY Zenon DEF Skip
<1>3. Places /\ Control /\ Flags
  BY TypeParts
<1>4. CASE /\ pos > heads
           /\ eosaf' = TRUE
           /\ pc' = "restart"
           /\ UNCHANGED << pos, hdr, buf, out >>
  <2>1. Places'
    BY <1>1, <1>3, <1>4 DEF Places
  <2>2. Control'
    BY <1>1, <1>3, <1>4 DEF Control, Labels
  <2>3. Flags'
    BY <1>2, <1>3, <1>4, Zenon DEF Flags
  <2> QED
    BY <1>1, <2>1, <2>2, <2>3, Zenon DEF TypeOK, Places, Control, Flags
<1>5. CASE /\ pos <= heads /\ Rec(pos).type = "restart"
           /\ hdr' = [hdr EXCEPT ![curr] = pos]
           /\ pos' = pos + 1 /\ eosaf' = FALSE
           /\ pc' = "restart"
           /\ UNCHANGED << buf, out >>
  <2>1. Places'
    BY <1>1, <1>3, <1>5, ReadPlaces DEF Places
  <2>2. Control'
    BY <1>1, <1>3, <1>5 DEF Control, Labels
  <2>3. Flags'
    BY <1>2, <1>3, <1>5, Zenon DEF Flags
  <2> QED
    BY <1>1, <2>1, <2>2, <2>3, Zenon DEF TypeOK, Places, Control, Flags
<1>6. CASE pos <= heads /\ Rec(pos).type # "restart" /\ Unexpected
  BY <1>1, <1>6, StopTyped DEF Labels, Unexpected
<1>7. CASE /\ pos <= whole /\ Rec(pos).type # "restart"
           /\ hdr' = [hdr EXCEPT ![curr] = pos]
           /\ buf' = IF Stats(pos) THEN [buf EXCEPT ![curr] = pos] ELSE buf
           /\ pos' = pos + 1 /\ eosaf' = FALSE
           /\ out' = IF Stats(pos) THEN out ELSE Shown(pos)
           /\ UNCHANGED pc
  <2>1. pos <= heads /\ pos \in 1..Len(job.file) /\ pos \in Nat
    BY <1>3, <1>7 DEF Places
  <2>2. Places'
    <3>1. buf' = [buf EXCEPT ![curr] = pos] \/ buf' = buf
      BY <1>7
    <3> QED
      BY <1>1, <1>3, <1>7, <2>1, <3>1, ReadPlaces DEF Places
  <2>3. Control'
    <3>1. out' \in Seq(Entry)
      BY <1>1, <1>3, <1>7, <2>1, RecType, ShownType DEF Stats, Control
    <3> QED
      BY <1>1, <1>3, <1>7, <3>1 DEF Control
  <2>4. Flags'
    BY <1>2, <1>3, <1>7, Zenon DEF Flags
  <2> QED
    BY <1>1, <2>2, <2>3, <2>4, Zenon DEF TypeOK, Places, Control, Flags
<1> QED
  BY <1>4, <1>5, <1>6, <1>7, Zenon DEF Skip

LEMMA RestartTyped == ASSUME TypeOK, Restart PROVE TypeOK'
<1>1. UNCHANGED << job, heads, whole >> /\ IsCase(job) /\ IsCase(job')
  BY DEF Restart, TypeOK
<1>2. Places /\ Control /\ Flags
  BY TypeParts
<1>3. Places'
  BY <1>1, <1>2 DEF Restart, Places
<1>4. Control'
  <2>1. out' = out \/ (out' = Shown(hdr[curr]) /\ Rec(hdr[curr]).type = "restart")
    BY Zenon DEF Restart
  <2>2. pc' \in {"exit", "first", "done"}
    BY DEF Restart
  <2>3. cnt' = cnt /\ pass' = pass /\ last_uptime' = last_uptime /\ davg' = davg
    BY DEF Restart
  <2>4. hdr[curr] \in Nat
    BY <1>2 DEF Places
  <2>5. out' \in Seq(Entry)
    BY <1>2, <2>1, <2>4, ShownType DEF Control
  <2> QED
    BY <1>2, <2>2, <2>3, <2>5 DEF Control, Labels
<1>5. Flags'
  BY <1>2, Zenon DEF Restart, Flags
<1> QED
  BY <1>1, <1>3, <1>4, <1>5, Zenon DEF TypeOK, Places, Control, Flags

LEMMA GrowTyped == ASSUME TypeOK, Grow PROVE TypeOK'
<1>1. UNCHANGED << job, pc, reader >> /\ IsCase(job) /\ IsCase(job')
  BY DEF Grow, TypeOK
<1>2. Places /\ Control /\ Flags
  BY TypeParts
<1>3. Places'
  <2>1. UNCHANGED << pos, fpos, hdr, buf, curr >>
    BY <1>1, Zenon DEF reader
  <2>2. \/ heads > whole /\ whole' = heads /\ heads' = heads
        \/ ~(heads > whole) /\ heads < Len(job.file) /\ heads' = heads + 1 /\ whole' = whole
    BY Zenon DEF Grow
  <2> QED
    BY <1>1, <1>2, <2>1, <2>2 DEF Places
<1>4. Control'
  BY <1>1, <1>2 DEF Control, reader
<1>5. Flags'
  BY <1>1, <1>2, Zenon DEF Flags, reader
<1> QED
  BY <1>1, <1>3, <1>4, <1>5, Zenon DEF TypeOK, Places, Control, Flags

LEMMA NextTyped == TypeOK /\ [Next]_vars => TypeOK'
<1> SUFFICES ASSUME TypeOK, [Next]_vars PROVE TypeOK'
  OBVIOUS
<1>1. CASE UNCHANGED vars
  <2>1. UNCHANGED << job, heads, whole, reader >> /\ pc' = pc
    BY <1>1, Zenon DEF vars
  <2> QED
    BY <2>1, StopTyped DEF TypeOK
<1> QED
  BY <1>1, FirstTyped, BeginTyped, ReadLineTyped, AverageTyped, SkipTyped, RestartTyped, GrowTyped, Zenon
     DEF Next, Sar

\* Every variable of sar -f keeps its type: records that are read are records of
\* the file, and the report is made of entries.
THEOREM TypeCorrect == Spec => []TypeOK
<1> QED
  BY InitTyped, NextTyped, PTL DEF Spec

-----------------------------------------------------------------------------
(* Restarts are not missed.  A pass that did not end on its count ended at   *)
(* the end of the file or on a restart, which is then the last record read.  *)

PassEnded == PassEnds /\ RestartNotMissed

\* Nothing to show where a label has no requirement.
LEMMA ElsewhereEnded ==
  ASSUME pc' \notin {"line", "average", "skip", "restart"}
  PROVE  PassEnded'
BY DEF PassEnded, PassEnds, RestartNotMissed

LEMMA ReadLineEnded == ASSUME TypeOK, PassEnded, ReadLine PROVE PassEnded'
<1>1. pc = "line" /\ job' = job /\ cnt # 0
  BY DEF ReadLine, PassEnded, PassEnds
<1>2. Places /\ pos - 1 + 1 = pos
  BY TypeParts DEF Places
<1>3. CASE /\ pos > heads
           /\ eosaf' = TRUE
           /\ pc' = "average"
           /\ UNCHANGED << pos, hdr, buf, curr, cnt, reset, reset_cd, last_uptime, cross_day, davg, out >>
  BY <1>1, <1>3 DEF PassEnded, PassEnds, RestartNotMissed
<1>4. CASE /\ pos <= heads /\ Rec(pos).type = "restart"
           /\ hdr' = [hdr EXCEPT ![curr] = pos]
           /\ pos' = pos + 1 /\ eosaf' = FALSE
           /\ pc' = "average"
           /\ UNCHANGED << buf, curr, cnt, reset, reset_cd, last_uptime, cross_day, davg, out >>
  <2>1. hdr'[curr'] = pos /\ cnt' # 0
    BY <1>1, <1>2, <1>4 DEF Places
  <2> QED
    BY <1>1, <1>4, <2>1 DEF PassEnded, PassEnds, RestartNotMissed, Rec
<1>5. CASE pos <= heads /\ Rec(pos).type # "restart" /\ Unexpected
  BY <1>5, ElsewhereEnded DEF Unexpected
<1>6. CASE /\ pos <= whole /\ Rec(pos).type = "comment"
           /\ hdr' = [hdr EXCEPT ![curr] = pos]
           /\ pos' = pos + 1 /\ eosaf' = FALSE
           /\ out' = Shown(pos)
           /\ UNCHANGED << pc, buf, curr, cnt, reset, reset_cd, last_uptime, cross_day, davg >>
  <2>1. pc' = "line" /\ cnt' # 0
    BY <1>1, <1>6
  <2> QED
    BY <2>1 DEF PassEnded, PassEnds, RestartNotMissed
<1>7. CASE /\ pos <= whole /\ Stats(pos)
           /\ hdr' = [hdr EXCEPT ![curr] = pos]
           /\ buf' = [buf EXCEPT ![curr] = pos]
           /\ pos' = pos + 1 /\ eosaf' = FALSE
           /\ WriteStats(hdr[1 - curr], pos)
  <2>1. pc' = IF cnt' = 0 THEN "average" ELSE "line"
    BY <1>7, Zenon DEF WriteStats
  <2>2. pos' - 1 = pos /\ Rec(pos).type = "stats"
    BY <1>2, <1>7 DEF Places, Stats
  <2> QED
    BY <1>1, <2>1, <2>2 DEF PassEnded, PassEnds, RestartNotMissed, Rec
<1> QED
  BY <1>3, <1>4, <1>5, <1>6, <1>7, Zenon DEF ReadLine

LEMMA SkipEnded == ASSUME TypeOK, PassEnded, Skip PROVE PassEnded'
<1>1. pc = "skip" /\ job' = job /\ curr' = curr /\ cnt' = cnt
  BY DEF Skip
<1>2. Places
  BY TypeParts
<1>3. CASE /\ pos > heads
           /\ eosaf' = TRUE
           /\ pc' = "restart"
           /\ UNCHANGED << pos, hdr, buf, out >>
  BY <1>3 DEF PassEnded, PassEnds, RestartNotMissed
<1>4. CASE /\ pos <= heads /\ Rec(pos).type = "restart"
           /\ hdr' = [hdr EXCEPT ![curr] = pos]
           /\ pos' = pos + 1 /\ eosaf' = FALSE
           /\ pc' = "restart"
           /\ UNCHANGED << buf, out >>
  <2>1. hdr'[curr'] = pos
    BY <1>1, <1>2, <1>4 DEF Places
  <2> QED
    BY <1>1, <1>4, <2>1 DEF PassEnded, PassEnds, RestartNotMissed, Rec
<1>5. CASE pos <= heads /\ Rec(pos).type # "restart" /\ Unexpected
  BY <1>5, ElsewhereEnded DEF Unexpected
<1>6. CASE /\ pos <= whole /\ Rec(pos).type # "restart"
           /\ hdr' = [hdr EXCEPT ![curr] = pos]
           /\ buf' = IF Stats(pos) THEN [buf EXCEPT ![curr] = pos] ELSE buf
           /\ pos' = pos + 1 /\ eosaf' = FALSE
           /\ out' = IF Stats(pos) THEN out ELSE Shown(pos)
           /\ UNCHANGED pc
  <2>1. pos' - 1 = pos /\ pc' = "skip"
    BY <1>1, <1>2, <1>6 DEF Places
  <2> QED
    BY <1>1, <1>6, <2>1 DEF PassEnded, PassEnds, RestartNotMissed, Rec
<1> QED
  BY <1>3, <1>4, <1>5, <1>6, Zenon DEF Skip

LEMMA NextEnded == TypeOK /\ PassEnded /\ [Next]_vars => PassEnded'
<1> SUFFICES ASSUME TypeOK, PassEnded, [Next]_vars PROVE PassEnded'
  OBVIOUS
<1>1. CASE First
  <2>1. pc' \in {"done", "exit", "begin", pc} /\ pc = "first"
    BY <1>1, Zenon DEF First, Unexpected
  <2> QED
    BY <2>1, ElsewhereEnded
<1>2. CASE Begin
  <2>1. job.count # 0
    BY DEF TypeOK, IsCase, Unset
  <2>2. pc' = "line" /\ cnt' # 0
    BY <1>2, <2>1 DEF Begin
  <2> QED
    BY <2>2 DEF PassEnded, PassEnds, RestartNotMissed
<1>3. CASE Average
  <2>1. /\ pc = "average" /\ pc' = AfterPass
        /\ UNCHANGED << job, pos, hdr, curr, cnt, eosaf >>
    BY <1>3, Zenon DEF Average
  <2> QED
    BY <2>1 DEF PassEnded, PassEnds, RestartNotMissed, AfterPass, Rec
<1>4. CASE Restart
  <2>1. pc' \in {"exit", "first", "done"}
    BY <1>4 DEF Restart
  <2> QED
    BY <2>1, ElsewhereEnded
<1>5. CASE Grow \/ UNCHANGED vars
  <2>1. UNCHANGED << job, pc, pos, hdr, curr, cnt, eosaf >>
    BY <1>5, Zenon DEF Grow, vars, reader
  <2> QED
    BY <2>1 DEF PassEnded, PassEnds, RestartNotMissed, Rec
<1> QED
  BY <1>1, <1>2, <1>3, <1>4, <1>5, ReadLineEnded, SkipEnded, Zenon DEF Next, Sar

\* When the lines asked for are exhausted sar goes exactly to the next restart,
\* and what follows the last activity is a restart or the end of the file, as
\* read_stats_from_file() takes for granted.
THEOREM RestartNotMissedCorrect == Spec => []RestartNotMissed
<1>1. Init => PassEnded
  BY DEF Init, PassEnded, PassEnds, RestartNotMissed
<1>2. PassEnded => RestartNotMissed
  BY DEF PassEnded
<1> QED
  BY <1>1, <1>2, InitTyped, NextTyped, NextEnded, PTL DEF Spec

-----------------------------------------------------------------------------
(* Lines and averages are over samples of one boot.  The first sample of the *)
(* segment stays in buf[2], the last one displayed in buf[1 - curr], and no  *)
(* restart was read since.                                                   *)

OneBoot == Segment /\ Sound(out)

\* What is added to the report keeps it sound.
LEMMA SoundGrows ==
  ASSUME job' = job, out \in Seq(Entry), Sound(out),
         NEW e \in Entry, Within(e), out' \in {out, Append(out, e)}
  PROVE  Sound(out)'
<1>1. \A i \in DOMAIN out' : Within(out'[i])
  BY DEF Sound
<1> QED
  BY <1>1 DEF Sound, Within, Quiet, Rec

LEMMA SoundSame == ASSUME job' = job, out' = out, Sound(out) PROVE Sound(out)'
BY DEF Sound, Within, Quiet, Rec

LEMMA SoundShown ==
  ASSUME job' = job, out \in Seq(Entry), Sound(out), NEW k \in Nat,
         Rec(k).type \in {"restart", "comment"}, out' = Shown(k)
  PROVE  Sound(out)'
<1>1. Special(k) \in Entry /\ Within(Special(k))
  BY DEF Special, Entry, Within
<1>2. out' \in {out, Append(out, Special(k))}
  BY DEF Shown
<1> QED
  BY <1>1, <1>2, SoundGrows

\* No label of the passes over a segment: Segment asks for nothing.
LEMMA ElsewhereSegment ==
  ASSUME pc' \notin {"begin", "line", "average"}
  PROVE  Segment'
BY DEF Segment

LEMMA FirstOneBoot == ASSUME TypeOK, OneBoot, First PROVE OneBoot'
<1>1. job' = job /\ pc = "first" /\ IsCase(job)
  BY DEF First, TypeOK
<1>2. Places /\ Control
  BY TypeParts
<1>3. CASE (pos > heads /\ pc' = "done" /\ UNCHANGED reader) \/ Unexpected
  <2>1. pc' \in {"done", "exit"} /\ out' = out
    BY <1>3, Zenon DEF Unexpected, reader
  <2> QED
    BY <1>1, <2>1, ElsewhereSegment, SoundSame DEF OneBoot
<1>4. CASE pos <= whole /\ ~(pos > heads /\ pc' = "done" /\ UNCHANGED reader) /\ ~Unexpected
  <2>1. out' = IF Stats(pos) THEN out ELSE Shown(pos)
    BY <1>4, Zenon DEF First
  <2>2. \/ buf' = [buf EXCEPT ![0] = pos, ![2] = pos] /\ fpos' = pos + 1 /\ pc' = "begin"
        \/ pc' = pc
    BY <1>4, Zenon DEF First
  <2>3. pos \in 1..Len(job.file) /\ pos \in Nat
    BY <1>2, <1>4 DEF Places
  <2>4. Segment'
    BY <1>1, <1>2, <2>2, <2>3 DEF Segment, Places
  <2>5. Sound(out)'
    BY <1>1, <1>2, <2>1, <2>3, RecType, SoundSame, SoundShown DEF OneBoot, Stats, Control
  <2> QED
    BY <2>4, <2>5 DEF OneBoot
<1> QED
  BY <1>3, <1>4, Zenon DEF First

LEMMA BeginOneBoot == ASSUME TypeOK, OneBoot, Begin PROVE OneBoot'
<1>1. Places /\ Control
  BY TypeParts
<1>2. /\ pc = "begin" /\ pc' = "line" /\ job' = job /\ out' = out
      /\ fpos' = fpos /\ pos' = fpos /\ curr' = curr /\ davg' = 0
      /\ buf' = [buf EXCEPT ![1 - curr] = buf[2]]
  BY Zenon DEF Begin
<1>3. buf'[2] = buf[2] /\ buf'[1 - curr'] = buf[2] /\ buf[2] \in Nat
  BY <1>1, <1>2 DEF Places
<1>4. fpos = buf[2] + 1
  BY <1>2 DEF OneBoot, Segment
<1>5. Segment'
  BY <1>2, <1>3, <1>4 DEF Segment, Quiet
<1> QED
  BY <1>2, <1>5, SoundSame DEF OneBoot

LEMMA AverageOneBoot == ASSUME TypeOK, OneBoot, Average PROVE OneBoot'
<1>1. Places /\ Control
  BY TypeParts
<1> DEFINE avg == Avg(buf[2], buf[1 - curr])
<1>2. /\ pc = "average" /\ pc' \in {"begin", "skip", "restart"}
      /\ UNCHANGED << job, fpos, buf >>
  BY DEF Average, AfterPass
<1>3. out' = IF davg > 0 THEN Append(out, avg) ELSE out
  BY DEF Average
<1>4. Segment'
  BY <1>2 DEF OneBoot, Segment
<1>5. CASE davg > 0
  <2>1. buf[2] \in Nat /\ buf[1 - curr] \in Nat
    BY <1>1 DEF Places
  <2>2. avg \in Entry
    BY <1>1, <2>1, LineType
  <2>3. avg.from = buf[2] /\ avg.to = buf[1 - curr]
    BY DEF Avg
  <2>4. buf[2] < buf[1 - curr] /\ Quiet(buf[2], buf[1 - curr])
    BY <1>2, <1>5 DEF OneBoot, Segment
  <2>5. Within(avg)
    BY <2>3, <2>4 DEF Within
  <2>6. out' \in {out, Append(out, avg)}
    BY <1>3
  <2>7. out \in Seq(Entry) /\ Sound(out) /\ job' = job
    BY <1>1, <1>2 DEF Control, OneBoot
  <2> HIDE DEF avg
  <2> QED
    BY <1>4, <2>2, <2>5, <2>6, <2>7, SoundGrows DEF OneBoot
<1>6. CASE ~(davg > 0)
  BY <1>2, <1>3, <1>4, <1>6, SoundSame DEF OneBoot
<1> QED
  BY <1>5, <1>6

\* No restart is found up to a record by adding one that is not a restart.
LEMMA QuietStep ==
  ASSUME NEW i \in Nat, NEW k \in Nat, Quiet(i, k - 1), Rec(k).type # "restart"
  PROVE  Quiet(i, k)
BY DEF Quiet

\* Nor by going on from another record.
LEMMA QuietJoin ==
  ASSUME NEW i \in Nat, NEW j \in Nat, NEW k \in Nat, Quiet(i, j), Quiet(j, k)
  PROVE  Quiet(i, k)
BY DEF Quiet

\* A sample that is displayed becomes the one that the next line starts from; one
\* that is not leaves the last one displayed in place.
LEMMA WriteOneBoot ==
  ASSUME TypeOK, OneBoot, pc = "line", job' = job, fpos' = fpos, pos <= whole, Stats(pos),
         buf' = [buf EXCEPT ![curr] = pos], pos' = pos + 1, WriteStats(hdr[1 - curr], pos)
  PROVE  OneBoot'
<1> DEFINE last == buf[1 - curr]
           line == Line(last, pos)
<1>1. Places /\ Control
  BY TypeParts
<1>2. /\ pos \in Nat \ {0} /\ last \in Nat /\ buf[2] \in Nat /\ davg \in Nat
      /\ curr \in {0, 1} /\ fpos = buf[2] + 1
  BY <1>1 DEF Places, Control, OneBoot, Segment
<1>3. /\ buf[2] <= last /\ last < pos
      /\ davg > 0 => buf[2] < last
      /\ Quiet(buf[2], last) /\ Quiet(last, pos - 1)
  BY DEF OneBoot, Segment
<1>4. Rec(pos).type # "restart"
  BY DEF Stats
<1>5. Quiet(last, pos)
  BY <1>2, <1>3, <1>4, QuietStep
<1>6. Quiet(buf[2], pos)
  BY <1>2, <1>3, <1>5, QuietJoin
<1>7. buf'[2] = buf[2] /\ buf'[curr] = pos /\ buf'[1 - curr] = last /\ pos' - 1 = pos
  BY <1>1, <1>2 DEF Places
<1>8. CASE out' = Append(out, line) /\ davg' = davg + 1 /\ curr' = 1 - curr
  <2>1. buf'[1 - curr'] = pos
    BY <1>2, <1>7, <1>8
  <2>2. Segment'
    BY <1>2, <1>3, <1>6, <1>7, <1>8, <2>1 DEF Segment, Quiet, Rec
  <2>3. line \in Entry
    BY <1>1, <1>2, LineType
  <2>4. line.from = last /\ line.to = pos
    BY DEF Line
  <2>5. Within(line)
    BY <1>3, <1>5, <2>4 DEF Within
  <2>6. out \in Seq(Entry) /\ Sound(out) /\ out' \in {out, Append(out, line)}
    BY <1>1, <1>8 DEF Control, OneBoot
  <2> HIDE DEF line
  <2> QED
    BY <2>2, <2>3, <2>5, <2>6, SoundGrows DEF OneBoot
<1>9. CASE out' = out /\ davg' = davg /\ curr' = curr
  <2>1. Segment'
    BY <1>2, <1>3, <1>5, <1>7, <1>9 DEF Segment, Quiet, Rec
  <2> QED
    BY <1>9, <2>1, SoundSame DEF OneBoot
<1>10. \/ out' = Append(out, line) /\ davg' = davg + 1 /\ curr' = 1 - curr
       \/ out' = out /\ davg' = davg /\ curr' = curr
  BY Zenon DEF WriteStats
<1> QED
  BY <1>8, <1>9, <1>10

LEMMA ReadLineOneBoot == ASSUME TypeOK, OneBoot, ReadLine PROVE OneBoot'
<1>1. pc = "line" /\ UNCHANGED << job, fpos >> /\ IsCase(job)
  BY DEF ReadLine, TypeOK
<1>2. Places /\ Control
  BY TypeParts
<1>3. CASE /\ pos > heads
           /\ eosaf' = TRUE
           /\ pc' = "average"
           /\ UNCHANGED << pos, hdr, buf, curr, cnt, reset, reset_cd, last_uptime, cross_day, davg, out >>
  <2>1. Segment'
    BY <1>1, <1>3 DEF OneBoot, Segment, Quiet, Rec
  <2> QED
    BY <1>1, <1>3, <2>1, SoundSame DEF OneBoot
<1>4. CASE /\ pos <= heads /\ Rec(pos).type = "restart"
           /\ hdr' = [hdr EXCEPT ![curr] = pos]
           /\ pos' = pos + 1 /\ eosaf' = FALSE
           /\ pc' = "average"
           /\ UNCHANGED << buf, curr, cnt, reset, reset_cd, last_uptime, cross_day, davg, out >>
  <2>1. buf[1 - curr] \in Nat /\ pos \in Nat
    BY <1>2 DEF Places
  <2>2. Segment'
    BY <1>1, <1>4, <2>1 DEF OneBoot, Segment, Quiet, Rec
  <2> QED
    BY <1>1, <1>4, <2>2, SoundSame DEF OneBoot
<1>5. CASE pos <= heads /\ Rec(pos).type # "restart" /\ Unexpected
  <2>1. pc' = "exit" /\ out' = out
    BY <1>5, Zenon DEF Unexpected, reader
  <2> QED
    BY <1>1, <2>1, ElsewhereSegment, SoundSame DEF OneBoot
<1>6. CASE /\ pos <= whole /\ Rec(pos).type = "comment"
           /\ hdr' = [hdr EXCEPT ![curr] = pos]
           /\ pos' = pos + 1 /\ eosaf' = FALSE
           /\ out' = Shown(pos)
           /\ UNCHANGED << pc, buf, curr, cnt, reset, reset_cd, last_uptime, cross_day, davg >>
  <2>1. buf[1 - curr] \in Nat /\ pos \in Nat
    BY <1>2 DEF Places
  <2>2. Quiet(buf[1 - curr], pos)
    BY <1>1, <1>6, <2>1, QuietStep DEF OneBoot, Segment
  <2>3. Segment'
    BY <1>1, <1>6, <2>1, <2>2 DEF OneBoot, Segment, Quiet, Rec
  <2>4. Sound(out)'
    BY <1>1, <1>2, <1>6, <2>1, SoundShown DEF OneBoot, Control
  <2> QED
    BY <2>3, <2>4 DEF OneBoot
<1>7. CASE /\ pos <= whole /\ Stats(pos)
           /\ hdr' = [hdr EXCEPT ![curr] = pos]
           /\ buf' = [buf EXCEPT ![curr] = pos]
           /\ pos' = pos + 1 /\ eosaf' = FALSE
           /\ WriteStats(hdr[1 - curr], pos)
  BY <1>1, <1>7, WriteOneBoot
<1> QED
  BY <1>3, <1>4, <1>5, <1>6, <1>7, Zenon DEF ReadLine

LEMMA SkipOneBoot == ASSUME TypeOK, OneBoot, Skip PROVE OneBoot'
<1>1. pc = "skip" /\ job' = job /\ IsCase(job) /\ Places /\ Control
  BY TypeParts DEF Skip, TypeOK
<1>2. pc' \in {"skip", "restart", "exit"}
  BY <1>1, Zenon DEF Skip, Unexpected
<1>3. \/ out' = out
      \/ pos <= whole /\ Rec(pos).type # "restart" /\ ~Stats(pos) /\ out' = Shown(pos)
  BY Zenon DEF Skip, Unexpected, reader
<1>4. CASE pos <= whole /\ Rec(pos).type # "restart" /\ ~Stats(pos) /\ out' = Shown(pos)
  <2>1. pos \in 1..Len(job.file) /\ pos \in Nat
    BY <1>1, <1>4 DEF Places
  <2>2. Rec(pos).type \in {"restart", "comment"}
    BY <1>1, <1>4, <2>1, RecType DEF Stats
  <2>3. Sound(out)'
    BY <1>1, <1>4, <2>1, <2>2, SoundShown DEF OneBoot, Control
  <2> QED
    BY <1>2, <2>3, ElsewhereSegment DEF OneBoot
<1> QED
  BY <1>1, <1>2, <1>3, <1>4, ElsewhereSegment, SoundSame DEF OneBoot

LEMMA RestartOneBoot == ASSUME TypeOK, OneBoot, Restart PROVE OneBoot'
<1>1. job' = job /\ Places /\ Control /\ pc' \in {"exit", "first", "done"}
  BY TypeParts DEF Restart
<1>2. out' = out \/ (Rec(hdr[curr]).type = "restart" /\ out' = Shown(hdr[curr]))
  BY Zenon DEF Restart
<1>3. hdr[curr] \in Nat
  BY <1>1 DEF Places
<1>4. Sound(out)'
  BY <1>1, <1>2, <1>3, SoundSame, SoundShown DEF OneBoot, Control
<1> QED
  BY <1>1, <1>4, ElsewhereSegment DEF OneBoot

LEMMA NextOneBoot == TypeOK /\ OneBoot /\ [Next]_vars => OneBoot'
<1> SUFFICES ASSUME TypeOK, OneBoot, [Next]_vars PROVE OneBoot'
  OBVIOUS
<1>1. CASE Grow \/ UNCHANGED vars
  <2>1. UNCHANGED << job, pc, pos, fpos, buf, curr, davg, out >>
    BY <1>1, Zenon DEF Grow, vars, reader
  <2>2. Segment'
    BY <2>1 DEF OneBoot, Segment, Quiet, Rec
  <2> QED
    BY <2>1, <2>2, SoundSame DEF OneBoot
<1> QED
  BY <1>1, FirstOneBoot, BeginOneBoot, ReadLineOneBoot, AverageOneBoot, SkipOneBoot,
     RestartOneBoot, Zenon DEF Next, Sar

LEMMA OneBootWithin == TypeOK /\ OneBoot => WithinOneBoot
<1> SUFFICES ASSUME TypeOK, OneBoot,
                    NEW e \in ToSet(out), e.kind \in {"line", "average"}
             PROVE  e.from < e.to /\ SameBoot(e.from, e.to)
  BY DEF WithinOneBoot
<1>1. out \in Seq(Entry) /\ whole \in Nat
  BY TypeParts DEF Control, Places
<1>2. PICK i \in DOMAIN out : e = out[i]
  BY DEF ToSet
<1>3. e.from \in Nat /\ e.to \in Nat
  <2>1. e \in Entry
    BY <1>1, <1>2
  <2> QED
    BY <2>1 DEF Entry
<1>4. e.from < e.to /\ Quiet(e.from, e.to)
  BY <1>2 DEF OneBoot, Sound, Within
<1>5. \A r \in Restarts : ~(e.from < r /\ r <= e.to)
  BY <1>1, <1>3, <1>4 DEF Restarts, Records, Quiet
<1> QED
  BY <1>4, <1>5 DEF SameBoot

\* A rate or an average is never over samples of two boots, nor of samples in the
\* wrong order: whatever the file holds, however often handle_curr_act_stats()
\* goes back in it, and whatever a sadc adds to it meanwhile.
THEOREM WithinOneBootCorrect == Spec => []WithinOneBoot
<1>1. Init => OneBoot
  BY DEF Init, OneBoot, Segment, Sound
<1> QED
  BY <1>1, InitTyped, NextTyped, NextOneBoot, OneBootWithin, PTL DEF Spec

-----------------------------------------------------------------------------
(* From line to line: what LinesChain of SarReport says.                    *)

\* Over two samples, as opposed to the special records.
Shows(e) == e.kind \in {"line", "average"}

\* The labels between the first sample of a segment and the restart that ends it.
InSegment == {"begin", "line", "average", "skip", "restart"}

\* The line or average starts in the segment that is being displayed.
Here(e) == buf[2] <= e.from /\ Quiet(buf[2], e.to)

\* The lines of an activity in that segment.
Lines(p) ==
  { j \in DOMAIN out : out[j].kind = "line" /\ out[j].pass = p /\ buf[2] <= out[j].from }

\* What is displayed is complete in the file, and the segment ends on a restart.
Kept ==
  /\ \A s \in 0..2 : buf[s] <= whole
  /\ \A i \in DOMAIN out : Shows(out[i]) => out[i].to <= whole
  /\ pc \in InSegment => Rec(buf[2]).type = "stats" /\ fpos = buf[2] + 1
  /\ pc \in InSegment \ {"begin"} => buf[2] < pos
  /\ pc = "average" /\ cnt # 0 => eosaf \/ Rec(pos - 1).type = "restart"
  /\ pc = "restart" => eosaf \/ Rec(pos - 1).type = "restart"

\* There is a restart between what was displayed and the next segment.
Apart ==
  /\ pc = "first" => \A i \in DOMAIN out : Shows(out[i]) => ~Quiet(out[i].from, pos - 1)
  /\ pc \in InSegment =>
       \A i \in DOMAIN out : Shows(out[i]) => ~Quiet(out[i].from, buf[2]) \/ Here(out[i])

\* f and l are the first and the last of a set of places.
Span(S, f, l) == f \in S /\ l \in S /\ \A k \in S : f <= k /\ k <= l

\* The lines of the activity that is being displayed.
Current ==
  /\ pc = "begin" => \A p \in Pass : p >= pass => Lines(p) = {}
  /\ pc \in {"line", "average"} =>
       /\ \A p \in Pass : p > pass => Lines(p) = {}
       /\ davg = 0 => Lines(pass) = {} /\ buf[1 - curr] = buf[2]
       /\ davg > 0 => \E f, l \in DOMAIN out :
            Span(Lines(pass), f, l) /\ out[f].from = buf[2] /\ out[l].to = buf[1 - curr]

\* The lines an entry of the report comes after, and what it takes from them.
Before(i) ==
  { j \in 1..(i - 1) : /\ out[j].kind = "line" /\ out[j].pass = out[i].pass
                       /\ Quiet(out[j].from, out[i].to) }
Linked(i) ==
  /\ out[i].kind = "line" /\ Before(i) # {} =>
       \E f, l \in Before(i) : Span(Before(i), f, l) /\ out[i].from = out[l].to
  /\ out[i].kind = "average" =>
       \E f, l \in Before(i) :
         Span(Before(i), f, l) /\ out[i].from = out[f].from /\ out[i].to = out[l].to

AllLinked == \A i \in DOMAIN out : Shows(out[i]) => Linked(i)

Chain == Kept /\ Apart /\ Current /\ AllLinked

-----------------------------------------------------------------------------
(* What is added to the report.                                             *)

\* The fields of an entry.
LEMMA EntryType ==
  ASSUME TypeOK, NEW i \in DOMAIN out
  PROVE  /\ i \in 1..Len(out) /\ Len(out) \in Nat
         /\ out[i].from \in Nat /\ out[i].to \in Nat /\ out[i].pass \in {0} \cup Pass
<1>1. out \in Seq(Entry)
  BY TypeParts DEF Control
<1>2. out[i] \in Entry
  BY <1>1
<1> QED
  BY <1>1, <1>2 DEF Entry

\* Nothing, or a special record.
NoLine == out' = out \/ \E e \in Entry : ~Shows(e) /\ out' = Append(out, e)

LEMMA ShownNoLine ==
  ASSUME NEW k \in Nat, Rec(k).type \in {"restart", "comment"}, out' \in {out, Shown(k)}
  PROVE  NoLine
<1>1. Special(k) \in Entry /\ ~Shows(Special(k))
  BY DEF Special, Entry, Shows
<1> QED
  BY <1>1 DEF NoLine, Shown

\* The entries that are there stay.
Extends ==
  /\ \A i \in DOMAIN out : i \in DOMAIN out' /\ out'[i] = out[i]
  /\ Len(out') \in {Len(out), Len(out) + 1} /\ DOMAIN out' = 1..Len(out')
  /\ DOMAIN out = 1..Len(out) /\ Len(out) \in Nat

LEMMA AppendExtends ==
  ASSUME TypeOK, NEW e \in Entry, out' = Append(out, e)
  PROVE  Extends /\ Len(out') = Len(out) + 1 /\ out'[Len(out) + 1] = e
<1>1. out \in Seq(Entry)
  BY TypeParts DEF Control
<1> QED
  BY <1>1 DEF Extends

\* An entry takes what it takes from the entries before it.
LEMMA LinkedKept ==
  ASSUME TypeOK, job' = job, Extends, NEW i \in DOMAIN out, Linked(i)
  PROVE  Linked(i)'
<1>1. i \in 1..Len(out) /\ \A j \in 1..i : out'[j] = out[j]
  <2>1. i \in 1..Len(out) /\ Len(out) \in Nat
    BY EntryType
  <2> DEFINE k == Len(out)
  <2>2. DOMAIN out = 1..k /\ i \in 1..k /\ k \in Nat
    BY <2>1 DEF Extends
  <2> HIDE DEF k
  <2>3. \A j \in 1..i : j \in DOMAIN out
    BY <2>2
  <2> QED
    BY <2>1, <2>3 DEF Extends
<1>2. Before(i)' = Before(i)
  BY <1>1 DEF Before, Quiet, Rec
<1>3. Before(i) \subseteq 1..i
  BY <1>1 DEF Before
<1> DEFINE B == Before(i)
<1>4. /\ out[i].kind = "line" /\ B # {} =>
            \E f, l \in B : Span(B, f, l) /\ out[i].from = out[l].to
      /\ out[i].kind = "average" =>
            \E f, l \in B : Span(B, f, l) /\ out[i].from = out[f].from /\ out[i].to = out[l].to
  BY DEF Linked
<1>5. \A j \in B : out'[j] = out[j]
  BY <1>1, <1>3
<1>6. out'[i] = out[i]
  BY <1>1
<1>7. Before(i)' = B
  BY <1>2
<1> HIDE DEF B
<1>8. /\ out'[i].kind = "line" /\ B # {} =>
            \E f, l \in B : Span(B, f, l) /\ out'[i].from = out'[l].to
      /\ out'[i].kind = "average" =>
            \E f, l \in B : Span(B, f, l) /\ out'[i].from = out'[f].from /\ out'[i].to = out'[l].to
  BY <1>4, <1>5, <1>6
<1> QED
  BY <1>7, <1>8 DEF Linked

LEMMA SameLines ==
  ASSUME TypeOK, Chain, job' = job, whole' \in Nat, whole <= whole', NoLine
  PROVE  /\ Extends
         /\ \A i \in DOMAIN out' : Shows(out'[i]) => i \in DOMAIN out /\ out'[i] = out[i]
         /\ \A i \in DOMAIN out' : Shows(out'[i]) => out'[i].to <= whole'
         /\ AllLinked'
         /\ buf'[2] = buf[2] => \A p \in Pass : Lines(p)' = Lines(p)
<1>0. out \in Seq(Entry) /\ whole \in Nat
  BY TypeParts DEF Control, Places
<1>1. /\ Extends
      /\ \A i \in DOMAIN out' : i \in DOMAIN out \/ ~Shows(out'[i])
  <2>1. CASE out' = out
    BY <1>0, <2>1 DEF Extends
  <2>2. ASSUME NEW e \in Entry, ~Shows(e), out' = Append(out, e)
        PROVE  Extends /\ \A i \in DOMAIN out' : i \in DOMAIN out \/ ~Shows(out'[i])
    BY <2>2, AppendExtends DEF Extends
  <2> QED
    BY <2>1, <2>2 DEF NoLine
<1>2. \A i \in DOMAIN out' : Shows(out'[i]) => i \in DOMAIN out /\ out'[i] = out[i]
  BY <1>1 DEF Extends
<1>3. \A i \in DOMAIN out' : Shows(out'[i]) => out'[i].to <= whole'
  BY <1>0, <1>2, EntryType DEF Chain, Kept
<1>4. AllLinked'
  BY <1>1, <1>2, LinkedKept DEF Chain, AllLinked, Shows
<1>5. ASSUME buf'[2] = buf[2], NEW p \in Pass PROVE Lines(p)' = Lines(p)
  BY <1>1, <1>2, <1>5 DEF Lines, Extends, Shows
<1> QED
  BY <1>1, <1>2, <1>3, <1>4, <1>5

\* The lines before a record of this segment are those of this segment.
LEMMA BeforeHere ==
  ASSUME TypeOK, Chain, pc \in InSegment, NEW k \in Nat, buf[2] <= k, Quiet(buf[2], k),
         NEW j \in DOMAIN out, out[j].kind = "line"
  PROVE  Quiet(out[j].from, k) <=> buf[2] <= out[j].from
<1>1. out[j].from \in Nat /\ out[j].to \in Nat /\ buf[2] \in Nat
  BY EntryType, TypeParts DEF Places
<1>2. ~Quiet(out[j].from, buf[2]) \/ buf[2] <= out[j].from
  BY DEF Chain, Apart, Shows, Here
<1> QED
  BY <1>1, <1>2 DEF Quiet

\* A line or an average that is added.
LEMMA NewEntry ==
  ASSUME TypeOK, Chain, job' = job, whole' = whole, pc \in {"line", "average"}, buf'[2] = buf[2],
         NEW e \in Entry, Shows(e), e.pass = pass, out' = Append(out, e),
         buf[2] <= e.from, e.from <= e.to, e.to <= whole, Quiet(buf[2], e.to),
         e.kind = "line" => e.from = buf[1 - curr],
         e.kind = "average" => davg > 0 /\ e.from = buf[2] /\ e.to = buf[1 - curr]
  PROVE  /\ Extends /\ Len(out') = Len(out) + 1 /\ out'[Len(out) + 1] = e
         /\ \A i \in DOMAIN out' : Shows(out'[i]) => out'[i].to <= whole'
         /\ \A i \in DOMAIN out' : Shows(out'[i]) => ~Quiet(out'[i].from, buf[2]) \/ Here(out'[i])
         /\ AllLinked'
         /\ \A p \in Pass : Lines(p)' = Lines(p) \cup
               (IF p = pass /\ e.kind = "line" THEN {Len(out) + 1} ELSE {})
<1>0. /\ out \in Seq(Entry) /\ whole \in Nat /\ buf[2] \in Nat /\ davg \in Nat /\ pass \in Pass
      /\ e.from \in Nat /\ e.to \in Nat
  BY TypeParts DEF Control, Places, Entry
<1>m. PICK m \in Nat : m = Len(out) + 1
  BY <1>0
<1>1. Extends /\ Len(out') = m /\ out'[m] = e /\ m \in Nat
  BY <1>m, AppendExtends DEF Extends
<1>2. \A i \in DOMAIN out' : (i \in DOMAIN out /\ out'[i] = out[i]) \/ (i = m /\ out'[i] = e)
  BY <1>m, <1>1 DEF Extends
<1>3. \A i \in DOMAIN out' : Shows(out'[i]) => out'[i].to <= whole'
  BY <1>2 DEF Chain, Kept
<1>4. \A i \in DOMAIN out' : Shows(out'[i]) => ~Quiet(out'[i].from, buf[2]) \/ Here(out'[i])
  BY <1>2 DEF Chain, Apart, InSegment, Here
<1>5. ASSUME NEW p \in Pass
      PROVE  Lines(p)' = Lines(p) \cup (IF p = pass /\ e.kind = "line" THEN {m} ELSE {})
  <2>1. \A j \in Lines(p)' : j \in Lines(p) \/ (j = m /\ p = pass /\ e.kind = "line")
    BY <1>2 DEF Lines
  <2>2. \A j \in Lines(p) : j \in Lines(p)'
    BY <1>1 DEF Lines, Extends
  <2>3. m \in DOMAIN out'
    BY <1>m, <1>1 DEF Extends
  <2>4. p = pass /\ e.kind = "line" => m \in Lines(p)'
    BY <1>1, <2>3 DEF Lines
  <2> QED
    BY <2>1, <2>2, <2>4
<1>6. Linked(m)'
  <2>1. Before(m)' = Lines(pass)
    <3>1. \A j \in 1..(m - 1) : j \in DOMAIN out /\ out'[j] = out[j]
      BY <1>m, <1>1 DEF Extends
    <3>2. \A j \in DOMAIN out : j \in 1..(m - 1)
      BY <1>m, <1>1 DEF Extends
    <3>3. \A j \in DOMAIN out : out[j].kind = "line" => (Quiet(out[j].from, e.to) <=> buf[2] <= out[j].from)
      BY <1>0, BeforeHere DEF InSegment
    <3>4. \A j : Quiet(out[j].from, e.to)' <=> Quiet(out'[j].from, e.to)
      BY DEF Quiet, Rec
    <3>5. Before(m)' = { j \in 1..(m - 1) : /\ out'[j].kind = "line" /\ out'[j].pass = e.pass
                                          /\ Quiet(out'[j].from, e.to) }
      BY <1>1 DEF Before, Quiet, Rec
    <3> QED
      BY <3>1, <3>2, <3>3, <3>5 DEF Lines
  <2>2. CASE e.kind = "line"
    <3> SUFFICES ASSUME Lines(pass) # {}
                 PROVE  \E f, l \in Lines(pass) : Span(Lines(pass), f, l) /\ out'[l].to = buf[1 - curr]
      BY <1>1, <2>1, <2>2 DEF Linked, Span
    <3>1. davg > 0
      BY <1>0 DEF Chain, Current
    <3>2. PICK f \in DOMAIN out, l \in DOMAIN out : Span(Lines(pass), f, l) /\ out[l].to = buf[1 - curr]
      BY <3>1 DEF Chain, Current
    <3> QED
      BY <1>1, <3>2 DEF Span, Extends
  <2>3. CASE e.kind = "average"
    <3>1. PICK f \in DOMAIN out, l \in DOMAIN out :
            Span(Lines(pass), f, l) /\ out[f].from = buf[2] /\ out[l].to = buf[1 - curr]
      BY <2>3 DEF Chain, Current
    <3>2. /\ f \in Lines(pass) /\ l \in Lines(pass)
          /\ Span(Lines(pass), f, l) /\ out'[f].from = e.from /\ out'[l].to = e.to
      BY <1>1, <2>3, <3>1 DEF Span, Extends
    <3> QED
      BY <1>1, <2>1, <2>3, <3>2 DEF Linked, Span
  <2> QED
    BY <2>2, <2>3 DEF Shows
<1>7. AllLinked'
  <2> SUFFICES ASSUME NEW i \in DOMAIN out', Shows(out'[i]) PROVE Linked(i)'
    BY DEF AllLinked, Shows
  <2>1. CASE i = m
    BY <1>6, <2>1
  <2>2. CASE i \in DOMAIN out /\ out'[i] = out[i]
    BY <1>1, <2>2, LinkedKept DEF Chain, AllLinked
  <2> QED
    BY <1>2, <2>1, <2>2
<1> QED
  BY <1>m, <1>1, <1>3, <1>4, <1>5, <1>7

-----------------------------------------------------------------------------
(* The actions of sar.                                                      *)

\* After the end, the report stays as it is.
LEMMA OverChain ==
  ASSUME TypeOK, Chain, job' = job, whole' \in Nat, whole <= whole', pc' \in Over, out' = out,
         buf' = buf
  PROVE  Chain'
<1>1. /\ \A i \in DOMAIN out' : Shows(out'[i]) => out'[i].to <= whole'
      /\ AllLinked'
  BY SameLines DEF NoLine
<1>2. \A s \in 0..2 : buf'[s] <= whole'
  BY TypeParts DEF Chain, Kept, Places
<1> QED
  BY <1>1, <1>2 DEF Chain, Kept, Apart, Current, Over, InSegment

LEMMA FirstChain == ASSUME TypeOK, Chain, First PROVE Chain'
<1>1. job' = job /\ whole' = whole /\ pc = "first" /\ IsCase(job) /\ Places /\ Control
  BY TypeParts DEF First, TypeOK
<1>2. whole' \in Nat /\ whole <= whole'
  BY <1>1 DEF Places
<1>3. CASE (pos > heads /\ pc' = "done" /\ UNCHANGED reader) \/ Unexpected
  <2>1. pc' \in Over /\ out' = out /\ buf' = buf
    BY <1>3, Zenon DEF Unexpected, reader, Over
  <2> QED
    BY <1>1, <1>2, <2>1, OverChain
<1>4. CASE pos <= whole /\ ~(pos > heads /\ pc' = "done" /\ UNCHANGED reader) /\ ~Unexpected
  <2>1. out' = IF Stats(pos) THEN out ELSE Shown(pos)
    BY <1>4, Zenon DEF First
  <2>2. \/ /\ buf' = [buf EXCEPT ![0] = pos, ![2] = pos] /\ fpos' = pos + 1 /\ pc' = "begin"
           /\ Stats(pos) /\ pass' = 1
        \/ pc' = pc /\ (buf' = [buf EXCEPT ![0] = pos] \/ buf' = buf)
    BY <1>4, Zenon DEF First
  <2>3. pos' = pos + 1
    BY <1>4, Zenon DEF First
  <2>4. pos \in 1..Len(job.file) /\ pos \in Nat
    BY <1>1, <1>4 DEF Places
  <2>5. NoLine
    <3>1. ~Stats(pos) => Rec(pos).type \in {"restart", "comment"}
      BY <1>1, <2>4, RecType DEF Stats
    <3>2. Stats(pos) => NoLine
      BY <2>1 DEF NoLine
    <3> QED
      BY <2>1, <2>4, <3>1, <3>2, ShownNoLine
  <2>6. /\ Extends
        /\ \A i \in DOMAIN out' : Shows(out'[i]) => i \in DOMAIN out /\ out'[i] = out[i]
        /\ \A i \in DOMAIN out' : Shows(out'[i]) => out'[i].to <= whole'
        /\ AllLinked'
    BY <1>1, <1>2, <2>5, SameLines
  <2>7. \A i \in DOMAIN out : Shows(out[i]) => ~Quiet(out[i].from, pos - 1) /\ out[i].from \in Nat
    BY <1>1, EntryType DEF Chain, Apart
  <2>8. \A s \in 0..2 : buf'[s] <= whole'
    BY <1>1, <1>4, <2>2, <2>4 DEF Chain, Kept, Places
  <2>9. \A i \in DOMAIN out' : Shows(out'[i]) => ~Quiet(out'[i].from, pos) /\ out'[i].from < pos
    <3>1. ASSUME NEW j \in Nat, ~Quiet(j, pos - 1) PROVE ~Quiet(j, pos) /\ j < pos
      BY <2>4, <3>1 DEF Quiet
    <3> QED
      BY <2>6, <2>7, <3>1
  <2>10. CASE pc' = "begin" /\ buf'[2] = pos /\ fpos' = pos + 1 /\ Stats(pos) /\ pass' = 1
    <3>1. Kept'
      BY <1>1, <2>6, <2>8, <2>10 DEF Kept, Stats, Rec
    <3>2. Apart'
      <4>1. \A i \in DOMAIN out' : Shows(out'[i]) => ~Quiet(out'[i].from, buf'[2])
        BY <2>9, <2>10
      <4> QED
        BY <1>1, <2>10, <4>1 DEF Apart, Quiet, Rec
    <3>3. \A p \in Pass : Lines(p)' = {}
      BY <1>1, <2>4, <2>6, <2>9, <2>10, EntryType DEF Lines, Shows
    <3>4. Current'
      BY <2>10, <3>3 DEF Current
    <3> QED
      BY <2>6, <3>1, <3>2, <3>4 DEF Chain
  <2>11. CASE pc' = "first"
    <3>1. Kept'
      BY <2>6, <2>8, <2>11 DEF Kept, InSegment
    <3>2. Apart'
      <4>1. pos' - 1 = pos
        BY <2>3, <2>4
      <4>2. \A i \in DOMAIN out' : Shows(out'[i]) => ~Quiet(out'[i].from, pos' - 1)
        BY <2>9, <4>1
      <4> QED
        BY <1>1, <2>11, <4>2 DEF Apart, InSegment, Quiet, Rec
    <3>3. Current'
      BY <2>11 DEF Current
    <3> QED
      BY <2>6, <3>1, <3>2, <3>3 DEF Chain
  <2> QED
    BY <1>1, <2>2, <2>10, <2>11 DEF Places
<1> QED
  BY <1>3, <1>4, Zenon DEF First

\* Where nothing is displayed over two samples and the segment goes on, the lines
\* of its activities are the same.
LEMMA SameSegment ==
  ASSUME TypeOK, Chain, job' = job, whole' = whole, NoLine, pc \in InSegment, pc' \in InSegment,
         buf'[2] = buf[2], \A s \in 0..2 : buf'[s] <= whole,
         fpos' = fpos, pc' # "begin" => buf[2] < pos',
         pc' = "average" /\ cnt' # 0 => eosaf' \/ Rec(pos' - 1).type = "restart",
         pc' = "restart" => eosaf' \/ Rec(pos' - 1).type = "restart"
  PROVE  /\ Kept' /\ Apart' /\ AllLinked'
         /\ \A p \in Pass : Lines(p)' = Lines(p)
         /\ \A i \in DOMAIN out : i \in DOMAIN out' /\ out'[i] = out[i]
<1>1. whole' \in Nat /\ whole <= whole'
  BY TypeParts DEF Places
<1>2. /\ Extends
      /\ \A i \in DOMAIN out' : Shows(out'[i]) => i \in DOMAIN out /\ out'[i] = out[i]
      /\ \A i \in DOMAIN out' : Shows(out'[i]) => out'[i].to <= whole'
      /\ AllLinked'
      /\ \A p \in Pass : Lines(p)' = Lines(p)
  BY <1>1, SameLines
<1>3. Rec(buf[2]).type = "stats" /\ fpos = buf[2] + 1
  BY DEF Chain, Kept
<1>4. Kept'
  BY <1>2, <1>3 DEF Kept, Rec
<1>5. \A i \in DOMAIN out' : Shows(out'[i]) => ~Quiet(out'[i].from, buf[2]) \/ Here(out'[i])
  BY <1>2 DEF Chain, Apart, Here
<1>6. Apart'
  BY <1>5 DEF Apart, Here, Quiet, Rec, InSegment
<1> QED
  BY <1>2, <1>4, <1>6 DEF Extends

\* Nor has the activity that is being displayed another line.
LEMMA SameCurrent ==
  ASSUME TypeOK, Chain, pc \in {"line", "average"}, pc' \in {"line", "average"}, pass' = pass, davg' = davg,
         buf'[2] = buf[2], buf'[1 - curr'] = buf[1 - curr],
         \A p \in Pass : Lines(p)' = Lines(p),
         \A i \in DOMAIN out : i \in DOMAIN out' /\ out'[i] = out[i]
  PROVE  Current'
<1>1. pass \in Pass /\ davg \in Nat
  BY TypeParts DEF Control
<1>2. \A p \in Pass : p > pass' => Lines(p)' = {}
  BY DEF Chain, Current
<1>3. davg' = 0 => Lines(pass)' = {} /\ buf'[1 - curr'] = buf'[2]
  BY <1>1 DEF Chain, Current
<1>4. ASSUME davg > 0
      PROVE  \E f, l \in DOMAIN out' :
               Span(Lines(pass)', f, l) /\ out'[f].from = buf'[2] /\ out'[l].to = buf'[1 - curr']
  BY <1>1, <1>4 DEF Chain, Current
<1> QED
  BY <1>2, <1>3, <1>4 DEF Current

LEMMA BeginChain == ASSUME TypeOK, Chain, Begin PROVE Chain'
<1>1. Places /\ Control
  BY TypeParts
<1>2. /\ pc = "begin" /\ pc' = "line" /\ job' = job /\ out' = out /\ whole' = whole
      /\ fpos' = fpos /\ pos' = fpos /\ curr' = curr /\ davg' = 0 /\ pass' = pass
      /\ buf' = [buf EXCEPT ![1 - curr] = buf[2]]
  BY Zenon DEF Begin
<1>3. buf'[2] = buf[2] /\ buf'[1 - curr'] = buf[2] /\ buf[2] \in Nat
  BY <1>1, <1>2 DEF Places
<1>4. \A s \in 0..2 : buf'[s] <= whole
  BY <1>1, <1>2 DEF Places, Chain, Kept
<1>5. fpos = buf[2] + 1
  BY <1>2 DEF Chain, Kept, InSegment
<1>6. /\ Kept' /\ Apart' /\ AllLinked'
      /\ \A p \in Pass : Lines(p)' = Lines(p)
  BY <1>2, <1>3, <1>4, <1>5, SameSegment DEF NoLine, InSegment
<1>7. \A p \in Pass : p >= pass => Lines(p) = {}
  BY <1>2 DEF Chain, Current
<1>8. pass \in Pass /\ \A p \in Pass : p > pass => p >= pass
  BY <1>1 DEF Control, Pass
<1>9. Current'
  BY <1>2, <1>3, <1>6, <1>7, <1>8 DEF Current, Pass
<1> QED
  BY <1>6, <1>9 DEF Chain

\* A sample that is displayed: the line that ends there follows the one before it.
LEMMA WriteChain ==
  ASSUME TypeOK, OneBoot, Chain, pc = "line", UNCHANGED << job, whole, fpos, pass >>, pos <= whole, Stats(pos),
         buf' = [buf EXCEPT ![curr] = pos], pos' = pos + 1, WriteStats(hdr[1 - curr], pos)
  PROVE  Chain'
<1> DEFINE last == buf[1 - curr]
           line == Line(last, pos)
<1>1. Places /\ Control
  BY TypeParts
<1>2. /\ pos \in Nat \ {0} /\ last \in Nat /\ buf[2] \in Nat /\ davg \in Nat /\ whole \in Nat
      /\ curr \in {0, 1} /\ fpos = buf[2] + 1 /\ pass \in Pass
  BY <1>1 DEF Places, Control, OneBoot, Segment
<1>3. /\ buf[2] <= last /\ last < pos
      /\ Quiet(buf[2], last) /\ Quiet(last, pos - 1)
  BY DEF OneBoot, Segment
<1>4. Quiet(buf[2], pos)
  <2>1. Quiet(last, pos)
    BY <1>2, <1>3, QuietStep DEF Stats
  <2> QED
    BY <1>2, <1>3, <2>1, QuietJoin
<1>5. buf'[2] = buf[2] /\ buf'[curr] = pos /\ buf'[1 - curr] = last
  BY <1>1, <1>2 DEF Places
<1>6. \A s \in 0..2 : buf'[s] <= whole
  BY <1>1, <1>2 DEF Places, Chain, Kept
<1>7. pc' \in {"line", "average"} /\ (pc' = "average" => cnt' = 0)
  BY Zenon DEF WriteStats
<1>8. CASE out' = Append(out, line) /\ davg' = davg + 1 /\ curr' = 1 - curr
  <2>1. buf'[1 - curr'] = pos
    BY <1>2, <1>5, <1>8
  <2>2. line \in Entry
    BY <1>1, <1>2, LineType
  <2>3. line.kind = "line" /\ line.pass = pass /\ line.from = last /\ line.to = pos
    BY DEF Line
  <2> HIDE DEF line
  <2>4. /\ Extends /\ Len(out') = Len(out) + 1 /\ out'[Len(out) + 1] = line
        /\ \A i \in DOMAIN out' : Shows(out'[i]) => out'[i].to <= whole'
        /\ \A i \in DOMAIN out' : Shows(out'[i]) => ~Quiet(out'[i].from, buf[2]) \/ Here(out'[i])
        /\ AllLinked'
        /\ \A p \in Pass : Lines(p)' = Lines(p) \cup
              (IF p = pass /\ line.kind = "line" THEN {Len(out) + 1} ELSE {})
    <3>1. buf[2] <= line.from /\ line.from <= line.to /\ line.to <= whole /\ Quiet(buf[2], line.to)
      BY <1>2, <1>3, <1>4, <2>3
    <3> QED
      BY <1>5, <1>8, <2>2, <2>3, <3>1, NewEntry DEF Shows
  <2>5. Kept'
    BY <1>2, <1>3, <1>5, <1>6, <1>7, <2>4 DEF Chain, Kept, Rec, InSegment
  <2>6. Apart'
    BY <1>5, <1>7, <2>4 DEF Apart, Here, Quiet, Rec
  <2>m. PICK m \in Nat : m = Len(out) + 1
    BY <2>4 DEF Extends
  <2>7. m \in DOMAIN out' /\ out'[m].to = pos /\ out'[m].from = last
    BY <2>3, <2>4, <2>m DEF Extends
  <2>8. Lines(pass)' = Lines(pass) \cup {m} /\ \A p \in Pass : p > pass => Lines(p)' = {}
    <3>1. \A p \in Pass : p > pass => p # pass /\ Lines(p) = {}
      BY <1>2 DEF Chain, Current, Pass
    <3> QED
      BY <1>2, <2>3, <2>4, <2>m, <3>1
  <2>9. \E f, l \in DOMAIN out' : Span(Lines(pass)', f, l) /\ out'[f].from = buf[2] /\ out'[l].to = pos
    <3>1. CASE davg = 0
      <4>1. Lines(pass)' = {m} /\ last = buf[2]
        BY <2>8, <3>1 DEF Chain, Current
      <4>2. Span(Lines(pass)', m, m)
        BY <4>1 DEF Span
      <4> QED
        BY <2>7, <4>1, <4>2
    <3>2. CASE davg > 0
      <4>1. PICK f \in DOMAIN out, l \in DOMAIN out : Span(Lines(pass), f, l) /\ out[f].from = buf[2]
        BY <3>2 DEF Chain, Current
      <4>2. \A k \in Lines(pass) : k \in Nat /\ k <= m
        BY <2>4, <2>m DEF Lines, Extends
      <4>3. f \in Lines(pass) /\ f \in Nat /\ f <= m
        BY <4>1, <4>2 DEF Span
      <4>4. Span(Lines(pass)', f, m)
        BY <2>8, <4>1, <4>2, <4>3 DEF Span
      <4> QED
        BY <2>4, <2>7, <4>1, <4>4 DEF Extends
    <3> QED
      BY <1>2, <3>1, <3>2
  <2>10. Current'
    <3>1. pc' # "begin" /\ pass' = pass /\ davg' # 0 /\ buf'[2] = buf[2]
      BY <1>2, <1>5, <1>7, <1>8
    <3>2. \A p \in Pass : p > pass' => Lines(p)' = {}
      BY <2>8, <3>1
    <3> QED
      BY <2>1, <2>9, <3>1, <3>2 DEF Current
  <2> QED
    BY <2>4, <2>5, <2>6, <2>10 DEF Chain
<1>9. CASE out' = out /\ davg' = davg /\ curr' = curr
  <2>1. buf[2] < pos'
    BY <1>2, <1>3
  <2>2. /\ Kept' /\ Apart' /\ AllLinked'
        /\ \A p \in Pass : Lines(p)' = Lines(p)
        /\ \A i \in DOMAIN out : i \in DOMAIN out' /\ out'[i] = out[i]
    BY <1>5, <1>6, <1>7, <1>9, <2>1, SameSegment DEF NoLine, InSegment
  <2>3. Current'
    BY <1>5, <1>7, <1>9, <2>2, SameCurrent
  <2> QED
    BY <2>2, <2>3 DEF Chain
<1>10. \/ out' = Append(out, line) /\ davg' = davg + 1 /\ curr' = 1 - curr
       \/ out' = out /\ davg' = davg /\ curr' = curr
  BY Zenon DEF WriteStats
<1> QED
  BY <1>8, <1>9, <1>10

LEMMA ReadLineChain == ASSUME TypeOK, OneBoot, Chain, ReadLine PROVE Chain'
<1>1. pc = "line" /\ UNCHANGED << job, whole, fpos, pass >> /\ Places /\ Control
  BY TypeParts DEF ReadLine
<1>2. /\ pos \in Nat /\ whole \in Nat /\ buf[2] < pos
      /\ \A s \in 0..2 : buf[s] <= whole
      /\ buf[2] \in Nat
  BY <1>1 DEF Places, Chain, Kept, InSegment
<1>3. CASE /\ pos > heads
           /\ eosaf' = TRUE
           /\ pc' = "average"
           /\ UNCHANGED << pos, hdr, buf, curr, cnt, reset, reset_cd, last_uptime, cross_day, davg, out >>
  <2>1. /\ Kept' /\ Apart' /\ AllLinked'
        /\ \A p \in Pass : Lines(p)' = Lines(p)
        /\ \A i \in DOMAIN out : i \in DOMAIN out' /\ out'[i] = out[i]
    BY <1>1, <1>2, <1>3, SameSegment DEF NoLine, InSegment
  <2> QED
    BY <1>1, <1>3, <2>1, SameCurrent DEF Chain
<1>4. CASE /\ pos <= heads /\ Rec(pos).type = "restart"
           /\ hdr' = [hdr EXCEPT ![curr] = pos]
           /\ pos' = pos + 1 /\ eosaf' = FALSE
           /\ pc' = "average"
           /\ UNCHANGED << buf, curr, cnt, reset, reset_cd, last_uptime, cross_day, davg, out >>
  <2>0. pos' - 1 = pos /\ buf[2] < pos'
    BY <1>2, <1>4
  <2>1. /\ Kept' /\ Apart' /\ AllLinked'
        /\ \A p \in Pass : Lines(p)' = Lines(p)
        /\ \A i \in DOMAIN out : i \in DOMAIN out' /\ out'[i] = out[i]
    BY <1>1, <1>2, <1>4, <2>0, SameSegment DEF NoLine, InSegment
  <2> QED
    BY <1>1, <1>4, <2>1, SameCurrent DEF Chain
<1>5. CASE pos <= heads /\ Rec(pos).type # "restart" /\ Unexpected
  <2>1. pc' \in Over /\ out' = out /\ buf' = buf
    BY <1>5, Zenon DEF Unexpected, reader, Over
  <2> QED
    BY <1>1, <1>2, <2>1, OverChain
<1>6. CASE /\ pos <= whole /\ Rec(pos).type = "comment"
           /\ hdr' = [hdr EXCEPT ![curr] = pos]
           /\ pos' = pos + 1 /\ eosaf' = FALSE
           /\ out' = Shown(pos)
           /\ UNCHANGED << pc, buf, curr, cnt, reset, reset_cd, last_uptime, cross_day, davg >>
  <2>0. buf[2] < pos' /\ NoLine
    BY <1>2, <1>6, ShownNoLine
  <2>1. /\ Kept' /\ Apart' /\ AllLinked'
        /\ \A p \in Pass : Lines(p)' = Lines(p)
        /\ \A i \in DOMAIN out : i \in DOMAIN out' /\ out'[i] = out[i]
    BY <1>1, <1>2, <1>6, <2>0, SameSegment DEF InSegment
  <2> QED
    BY <1>1, <1>6, <2>1, SameCurrent DEF Chain
<1>7. CASE /\ pos <= whole /\ Stats(pos)
           /\ hdr' = [hdr EXCEPT ![curr] = pos]
           /\ buf' = [buf EXCEPT ![curr] = pos]
           /\ pos' = pos + 1 /\ eosaf' = FALSE
           /\ WriteStats(hdr[1 - curr], pos)
  BY <1>1, <1>7, WriteChain
<1> QED
  BY <1>3, <1>4, <1>5, <1>6, <1>7, Zenon DEF ReadLine

\* The average spans the lines of its activity.
LEMMA AverageChain == ASSUME TypeOK, OneBoot, Chain, Average PROVE Chain'
<1> DEFINE avg == Avg(buf[2], buf[1 - curr])
<1>1. Places /\ Control
  BY TypeParts
<1>2. /\ pc = "average" /\ pc' = AfterPass
      /\ UNCHANGED << job, whole, pos, fpos, buf, curr, cnt, eosaf, davg >>
      /\ pass' = IF pass < NrPass THEN pass + 1 ELSE pass
      /\ out' = IF davg > 0 THEN Append(out, avg) ELSE out
  BY Zenon DEF Average
<1>3. /\ buf[2] \in Nat /\ buf[1 - curr] \in Nat /\ davg \in Nat /\ whole \in Nat /\ pass \in Pass
      /\ pos \in Nat /\ buf[2] < pos /\ \A s \in 0..2 : buf[s] <= whole
      /\ buf[1 - curr] <= whole
  BY <1>1, <1>2 DEF Places, Control, Chain, Kept, InSegment
<1>4. /\ pc' = "restart" => cnt # 0
      /\ pc' = "begin" => pass < NrPass
      /\ pc' \in {"begin", "skip", "restart"}
  BY <1>2 DEF AfterPass
<1>5. pc' = "restart" => eosaf' \/ Rec(pos' - 1).type = "restart"
  BY <1>2, <1>4 DEF Chain, Kept
<1>6. /\ Kept' /\ Apart' /\ AllLinked'
      /\ \A p \in Pass : Lines(p)' = Lines(p)
  <2>1. CASE davg > 0
    <3>1. avg \in Entry
      BY <1>1, <1>3, LineType
    <3>2. avg.from = buf[2] /\ avg.to = buf[1 - curr] /\ avg.kind = "average" /\ avg.pass = pass
      BY DEF Avg
    <3>3. buf[2] < buf[1 - curr] /\ Quiet(buf[2], buf[1 - curr])
      BY <1>2, <2>1 DEF OneBoot, Segment
    <3>4. out' = Append(out, avg)
      BY <1>2, <2>1
    <3> HIDE DEF avg
    <3>5. /\ Extends
          /\ \A i \in DOMAIN out' : Shows(out'[i]) => out'[i].to <= whole'
          /\ \A i \in DOMAIN out' : Shows(out'[i]) => ~Quiet(out'[i].from, buf[2]) \/ Here(out'[i])
          /\ AllLinked'
          /\ \A p \in Pass : Lines(p)' = Lines(p) \cup
                (IF p = pass /\ avg.kind = "line" THEN {Len(out) + 1} ELSE {})
      <4>1. buf[2] <= avg.from /\ avg.from <= avg.to /\ avg.to <= whole /\ Quiet(buf[2], avg.to)
        BY <1>3, <3>2, <3>3
      <4> QED
        BY <1>2, <2>1, <3>1, <3>2, <3>4, <4>1, NewEntry DEF Shows
    <3>6. Rec(buf[2]).type = "stats" /\ fpos = buf[2] + 1
      BY <1>2 DEF Chain, Kept, InSegment
    <3>7. Kept'
      BY <1>2, <1>3, <1>4, <1>5, <3>5, <3>6 DEF Kept, Rec
    <3>8. Apart'
      BY <1>2, <1>4, <3>5 DEF Apart, Here, Quiet, Rec
    <3> QED
      BY <3>2, <3>5, <3>7, <3>8
  <2>2. CASE ~(davg > 0)
    <3>1. out' = out
      BY <1>2, <2>2
    <3> QED
      BY <1>2, <1>3, <1>4, <1>5, <3>1, SameSegment DEF NoLine, InSegment
  <2> QED
    BY <2>1, <2>2
<1>7. Current'
  <2> SUFFICES ASSUME pc' = "begin", NEW p \in Pass, p >= pass' PROVE Lines(p)' = {}
    BY <1>4 DEF Current
  <2>1. p > pass
    BY <1>2, <1>3, <1>4 DEF Pass
  <2> QED
    BY <1>2, <1>6, <2>1 DEF Chain, Current
<1> QED
  BY <1>6, <1>7 DEF Chain

LEMMA SkipChain == ASSUME TypeOK, Chain, Skip PROVE Chain'
<1>1. pc = "skip" /\ UNCHANGED << job, whole, fpos >> /\ IsCase(job) /\ Places /\ Control
  BY TypeParts DEF Skip, TypeOK
<1>2. /\ pos \in Nat /\ whole \in Nat /\ buf[2] < pos /\ curr \in {0, 1}
      /\ \A s \in 0..2 : buf[s] <= whole
      /\ buf[2] \in Nat
  BY <1>1 DEF Places, Chain, Kept, InSegment
<1>3. CASE /\ pos > heads
           /\ eosaf' = TRUE
           /\ pc' = "restart"
           /\ UNCHANGED << pos, hdr, buf, out >>
  <2>1. Kept' /\ Apart' /\ AllLinked'
    BY <1>1, <1>2, <1>3, SameSegment DEF NoLine, InSegment
  <2> QED
    BY <1>3, <2>1 DEF Chain, Current
<1>4. CASE /\ pos <= heads /\ Rec(pos).type = "restart"
           /\ hdr' = [hdr EXCEPT ![curr] = pos]
           /\ pos' = pos + 1 /\ eosaf' = FALSE
           /\ pc' = "restart"
           /\ UNCHANGED << buf, out >>
  <2>0. pos' - 1 = pos /\ buf[2] < pos'
    BY <1>2, <1>4
  <2>1. Kept' /\ Apart' /\ AllLinked'
    BY <1>1, <1>2, <1>4, <2>0, SameSegment DEF NoLine, InSegment
  <2> QED
    BY <1>4, <2>1 DEF Chain, Current
<1>5. CASE pos <= heads /\ Rec(pos).type # "restart" /\ Unexpected
  <2>1. pc' \in Over /\ out' = out /\ buf' = buf
    BY <1>5, Zenon DEF Unexpected, reader, Over
  <2> QED
    BY <1>1, <1>2, <2>1, OverChain
<1>6. CASE /\ pos <= whole /\ Rec(pos).type # "restart"
           /\ hdr' = [hdr EXCEPT ![curr] = pos]
           /\ buf' = IF Stats(pos) THEN [buf EXCEPT ![curr] = pos] ELSE buf
           /\ pos' = pos + 1 /\ eosaf' = FALSE
           /\ out' = IF Stats(pos) THEN out ELSE Shown(pos)
           /\ UNCHANGED pc
  <2>0. buf[2] < pos' /\ buf'[2] = buf[2] /\ \A s \in 0..2 : buf'[s] <= whole
    BY <1>1, <1>2, <1>6 DEF Places
  <2>1. NoLine
    <3>1. pos \in 1..Len(job.file)
      BY <1>1, <1>6 DEF Places
    <3>2. ~Stats(pos) => Rec(pos).type \in {"restart", "comment"}
      BY <1>1, <3>1, RecType DEF Stats
    <3>3. Stats(pos) => NoLine
      BY <1>6 DEF NoLine
    <3> QED
      BY <1>2, <1>6, <3>2, <3>3, ShownNoLine
  <2>2. Kept' /\ Apart' /\ AllLinked'
    BY <1>1, <1>2, <1>6, <2>0, <2>1, SameSegment DEF InSegment
  <2> QED
    BY <1>1, <1>6, <2>2 DEF Chain, Current
<1> QED
  BY <1>3, <1>4, <1>5, <1>6, Zenon DEF Skip

\* A segment is over when its restart has been read.
LEMMA RestartChain == ASSUME TypeOK, OneBoot, Chain, Restart PROVE Chain'
<1>1. /\ job' = job /\ whole' = whole /\ pos' = pos /\ buf' = buf /\ Places /\ Control
      /\ pc = "restart"
  BY TypeParts DEF Restart
<1>2. NoLine
  <2>1. out' = out \/ (Rec(hdr[curr]).type = "restart" /\ out' = Shown(hdr[curr]))
    BY Zenon DEF Restart
  <2>2. hdr[curr] \in Nat
    BY <1>1 DEF Places
  <2>3. out' = out => NoLine
    BY DEF NoLine
  <2> QED
    BY <2>1, <2>2, <2>3, ShownNoLine
<1>3. pc' \in {"exit", "done"} \/ (pc' = "first" /\ ~eosaf)
  BY DEF Restart
<1>4. /\ \A i \in DOMAIN out' : Shows(out'[i]) => i \in DOMAIN out /\ out'[i] = out[i]
      /\ \A i \in DOMAIN out' : Shows(out'[i]) => out'[i].to <= whole'
      /\ AllLinked'
  BY <1>1, <1>2, SameLines DEF Places
<1>5. Kept'
  BY <1>1, <1>3, <1>4 DEF Chain, Kept, InSegment
<1>6. ASSUME pc' = "first", NEW i \in DOMAIN out, Shows(out[i]) PROVE ~Quiet(out[i].from, pos - 1)
  <2>1. /\ out[i].from \in Nat /\ out[i].to \in Nat /\ buf[2] \in Nat /\ pos \in Nat /\ buf[2] < pos
        /\ Rec(buf[2]).type = "stats" /\ Rec(pos - 1).type = "restart"
    BY <1>1, <1>3, <1>6, EntryType DEF Places, Chain, Kept, InSegment
  <2>2. buf[2] < pos - 1
    BY <2>1
  <2>3. CASE ~Quiet(out[i].from, buf[2])
    BY <2>1, <2>2, <2>3 DEF Quiet
  <2>4. CASE Here(out[i])
    <3>1. out[i].from < out[i].to
      BY <1>6 DEF OneBoot, Sound, Within, Shows
    <3>2. ~(pos - 1 <= out[i].to)
      BY <2>1, <2>2, <2>4 DEF Here, Quiet
    <3> QED
      BY <2>1, <3>1, <3>2 DEF Quiet
  <2> QED
    BY <1>1, <1>6, <2>3, <2>4 DEF Chain, Apart, InSegment
<1>7. Apart'
  BY <1>1, <1>3, <1>4, <1>6 DEF Apart, InSegment, Quiet, Rec
<1> QED
  BY <1>3, <1>4, <1>5, <1>7 DEF Chain, Current

LEMMA GrowChain == ASSUME TypeOK, Chain, Grow \/ UNCHANGED vars PROVE Chain'
<1>1. UNCHANGED << job, pc, pos, fpos, buf, curr, pass, cnt, eosaf, davg, out >>
  BY Zenon DEF Grow, vars, reader
<1>2. whole \in Nat /\ whole' \in Nat /\ whole <= whole'
  <2>1. whole' = whole \/ (heads > whole /\ whole' = heads)
    BY Zenon DEF Grow, vars
  <2> QED
    BY <2>1, TypeParts DEF Places
<1>3. /\ \A i \in DOMAIN out' : Shows(out'[i]) => out'[i].to <= whole'
      /\ AllLinked'
      /\ \A p \in Pass : Lines(p)' = Lines(p)
  BY <1>1, <1>2, SameLines DEF NoLine
<1>4. \A s \in 0..2 : buf'[s] <= whole'
  BY <1>1, <1>2, TypeParts DEF Chain, Kept, Places
<1>5. Kept'
  BY <1>1, <1>3, <1>4 DEF Chain, Kept, Rec
<1>6. Apart'
  BY <1>1 DEF Chain, Apart, Here, Quiet, Rec
<1>7. Current'
  BY <1>1 DEF Chain, Current, Lines, Span
<1> QED
  BY <1>3, <1>5, <1>6, <1>7 DEF Chain

LEMMA InitChain == Init => Chain
<1> SUFFICES ASSUME Init PROVE Chain
  OBVIOUS
<1>1. whole \in Nat /\ \A s \in 0..2 : buf[s] = 0
  BY InitTyped, TypeParts DEF Init, Places
<1>2. DOMAIN out = {} /\ pc = "first"
  BY DEF Init
<1> QED
  BY <1>1, <1>2 DEF Chain, Kept, Apart, Current, AllLinked, InSegment

LEMMA NextChain == TypeOK /\ OneBoot /\ Chain /\ [Next]_vars => Chain'
BY FirstChain, BeginChain, ReadLineChain, AverageChain, SkipChain, RestartChain, GrowChain, Zenon
   DEF Next, Sar

-----------------------------------------------------------------------------
(* The property.                                                            *)

\* The last of a set of places is what the property calls so.
LEMMA SpanEnd ==
  ASSUME NEW S, S \subseteq Nat, NEW f, NEW l, Span(S, f, l)
  PROVE  Max(S) = l
<1>1. l \in S /\ \A k \in S : k \in Nat /\ k <= l
  BY DEF Span
<1>2. ASSUME NEW x \in S, \A k \in S : x >= k PROVE x = l
  BY <1>1, <1>2
<1>3. l \in S /\ \A k \in S : l >= k
  BY <1>1
<1> QED
  BY <1>2, <1>3 DEF Max

LEMMA ChainLinks == TypeOK /\ OneBoot /\ Chain => LinesChain
<1> SUFFICES ASSUME TypeOK, OneBoot, Chain, NEW i \in DOMAIN out, Shows(out[i])
             PROVE  LET e == out[i]
                        own == { j \in 1..(i - 1) : /\ out[j].kind = "line" /\ out[j].pass = e.pass
                                                    /\ SameBoot(out[j].from, e.to) }
                    IN  IF e.kind = "line" THEN own # {} => e.from = out[Max(own)].to
                        ELSE /\ own # {} /\ e.to = out[Max(own)].to
                             /\ e.from = out[CHOOSE j \in own : \A k \in own : j <= k].from
  BY DEF LinesChain, Shows
<1> DEFINE own == { j \in 1..(i - 1) : /\ out[j].kind = "line" /\ out[j].pass = out[i].pass
                                       /\ SameBoot(out[j].from, out[i].to) }
<1>1. /\ i \in 1..Len(out) /\ Len(out) \in Nat /\ DOMAIN out = 1..Len(out)
      /\ out[i].to \in Nat /\ out[i].to <= whole /\ whole \in Nat
  BY EntryType, TypeParts DEF Chain, Kept, Places, Control
<1>2. ASSUME NEW j \in 1..(i - 1) PROVE SameBoot(out[j].from, out[i].to) <=> Quiet(out[j].from, out[i].to)
  <2>1. out[j].from \in Nat
    BY <1>1, EntryType
  <2> QED
    BY <1>1, <2>1 DEF SameBoot, Restarts, Records, Quiet
<1>3. own = Before(i)
  BY <1>2 DEF Before
<1>4. own \subseteq Nat
  BY <1>1
<1> HIDE DEF own
<1>5. CASE out[i].kind = "line"
  <2> SUFFICES ASSUME own # {} PROVE out[i].from = out[Max(own)].to
    BY <1>5 DEF own
  <2>1. PICK f, l \in own : Span(own, f, l) /\ out[i].from = out[l].to
    BY <1>3, <1>5 DEF Chain, AllLinked, Linked
  <2> QED
    BY <1>4, <2>1, SpanEnd
<1>6. CASE out[i].kind = "average"
  <2>1. PICK f, l \in own : Span(own, f, l) /\ out[i].from = out[f].from /\ out[i].to = out[l].to
    BY <1>3, <1>6 DEF Chain, AllLinked, Linked
  <2>2. Max(own) = l
    BY <1>4, <2>1, SpanEnd
  <2>4. (CHOOSE j \in own : \A k \in own : j <= k) = f
    <3>1. f \in own /\ \A k \in own : f <= k
      BY <2>1 DEF Span
    <3>2. ASSUME NEW x \in own, \A k \in own : x <= k PROVE x = f
      BY <1>4, <3>1, <3>2
    <3> QED
      BY <3>1, <3>2
  <2>3. /\ own # {} /\ out[i].to = out[Max(own)].to
        /\ out[i].from = out[CHOOSE j \in own : \A k \in own : j <= k].from
    BY <2>1, <2>2, <2>4
  <2> QED
    BY <1>6, <2>3 DEF own
<1> QED
  BY <1>5, <1>6 DEF Shows

\* The line of an activity starts where its line before it ended, and its average
\* spans its lines since the restart: whatever the file holds, however many of its
\* records are skipped by -i, -s, -e and the number of lines, and whatever a sadc
\* adds to it while sar goes back to the first sample for each activity.
THEOREM LinesChainCorrect == Spec => []LinesChain
<1>1. TypeOK /\ OneBoot /\ [Next]_vars => OneBoot'
  BY NextOneBoot
<1>2. Init => OneBoot
  BY DEF Init, OneBoot, Segment, Sound
<1>3. TypeOK /\ OneBoot /\ Chain => LinesChain
  BY ChainLinks
<1> QED
  BY <1>1, <1>2, <1>3, InitTyped, NextTyped, InitChain, NextChain, PTL DEF Spec

\* The same of sar when either program may be the one that is run.
THEOREM MCLinesChainCorrect == MCSpec => []MCLinesChain
<1> DEFINE Inv == loop = "sar" => TypeOK /\ OneBoot /\ Chain
<1>1. MCInit => Inv
  <2>1. Init => TypeOK /\ OneBoot /\ Chain
    BY InitTyped, InitChain DEF Init, OneBoot, Segment, Sound
  <2> QED
    BY <2>1 DEF MCInit, SadfInit
<1>2. Inv /\ [MCNext]_mcVars => Inv'
  <2> SUFFICES ASSUME Inv, [MCNext]_mcVars, loop' = "sar" PROVE (TypeOK /\ OneBoot /\ Chain)'
    OBVIOUS
  <2>1. loop' = loop
    BY Zenon DEF MCNext, OfSar, OfSadf, SadfNext, Display, sadfVars, mcVars
  <2>2. [Next]_vars
    BY <2>1 DEF MCNext, OfSar, OfSadf, mcVars
  <2> QED
    BY <2>1, <2>2, NextTyped, NextOneBoot, NextChain
<1>3. Inv => MCLinesChain
  BY ChainLinks DEF MCLinesChain
<1> QED
  BY <1>1, <1>2, <1>3, PTL DEF MCSpec

-----------------------------------------------------------------------------
(* What is read from a file of one day, and what should be displayed of it. *)

\* The records of the file are of one day, in the order of time, and -e is not
\* before -s: no sample of the period is on the next day.
SingleDay ==
  /\ \A i, k \in 1..Len(job.file) : i < k =>
       Rec(i).at <= Rec(k).at /\ Rec(i).at - TimeOfDay(i) = Rec(k).at - TimeOfDay(k)
  /\ job.start # Unset /\ job.end # Unset => Hour(job.start) <= Hour(job.end)

\* As long as the machine is up, its uptime grows, and does not wrap.
UptimesGrow ==
  \A i, k \in 1..Len(job.file) : i < k /\ Quiet(i, k) =>
    Rec(i).up <= Rec(k).up /\ Rec(k).up - Rec(i).up < Wrap

\* The samples that could be displayed after base b, were there no limit to their
\* number, and those before record p.
Fits(a, b) ==
  { k \in Samples : k > b /\ SameBoot(b, k) /\ Inside(k) /\ a \in Rec(k).has /\ Displayable(b, k) }
FitsTo(a, b, p) == { i \in Fits(a, b) : i < p }
ChosenTo(a, b, p) == { i \in Chosen(a, b) : i < p }
BasesTo(p) == { b \in Bases : b < p }
RestartsTo(p) == { Special(r) : r \in { i \in Restarts : InRange(i) /\ i < p } }

\* The line of sample k, and the lines of the samples before record p.
LineAt(a, b, k) ==
  [kind |-> "line", pass |-> a, from |-> Max({b} \cup { i \in Chosen(a, b) : i < k }), to |-> k]
LinesTo(a, b, p) == { LineAt(a, b, k) : k \in ChosenTo(a, b, p) }
AvgAt(a, b) == [kind |-> "average", pass |-> a, from |-> b, to |-> Max(Chosen(a, b))]

\* All the lines, and the averages, of these activities and bases.
AllLines(A, B) == { LineAt(x[1], x[2], x[3]) : x \in { y \in A \X B \X Samples : y[3] \in Chosen(y[1], y[2]) } }
AllAvgs(A, B) == { AvgAt(x[1], x[2]) : x \in { y \in A \X B : Chosen(y[1], y[2]) # {} } }

\* What was displayed when the search for base b begins, when record p is read for
\* the activity n from base b, and when all the activities were displayed from it.
EarlierLines(b) == AllLines(Pass, BasesTo(b))
EarlierAvgs(b) == AllAvgs(Pass, BasesTo(b))
LinesAt(n, b, p) == EarlierLines(b) \cup AllLines(1..(n - 1), {b}) \cup LinesTo(n, b, p)
AvgsAt(n, b) == EarlierAvgs(b) \cup AllAvgs(1..(n - 1), {b})
SegmentLines(b) == EarlierLines(b) \cup AllLines(Pass, {b})
SegmentAvgs(b) == EarlierAvgs(b) \cup AllAvgs(Pass, {b})
DoneLines == AllLines(Pass, Bases)
DoneAvgs == AllAvgs(Pass, Bases)
DoneRestarts == { Special(r) : r \in { i \in Restarts : InRange(i) } }

\* The lines, averages and restarts of the report are these, once each.
KindIn(o, s) == { e \in ToSet(o) : e.kind = s }
Holds(o, L, A, R) ==
  /\ KindIn(o, "line") = L /\ KindIn(o, "average") = A
  /\ KindIn(o, "restart") = R
  /\ \A i, j \in DOMAIN o : o[i] = o[j] /\ o[i].kind # "comment" => i = j

-----------------------------------------------------------------------------
(* The inductive invariant. *)

\* m is the last of these samples, or b if there are none.
LastOf(S, b, m) == IF S = {} THEN m = b ELSE m \in S /\ \A k \in S : k <= m

\* No sample that was read since the last restart was in the period.
NoBase(p) == \A i \in 1..(p - 1) : Stats(i) /\ Inside(i) => ~Quiet(i, p - 1)

\* A base whose records up to p are of one boot, and what is kept of it.
Based(b, p) == b \in Bases /\ b < p /\ Quiet(b, p - 1)
KeptBase(b) == hdr[2] = b /\ fpos = b + 1

\* The sample before record p.
Previous(b, p, q) == LastOf({ i \in Samples : b < i /\ i < p }, b, q)

\* While the first sample of the period is looked for.
AtFirst(p) ==
  /\ Holds(out, EarlierLines(p), EarlierAvgs(p), RestartsTo(p))
  /\ NoBase(p)

\* Before the lines of activity n from base b, while they are displayed, after
\* them, and after those of the last activity.
AtBegin(b, n) ==
  /\ Based(b, b + 1) /\ KeptBase(b) /\ reset
  /\ Holds(out, LinesAt(n, b, b + 1), AvgsAt(n, b), RestartsTo(b))

AtLine(b, n, p) ==
  /\ Based(b, p) /\ KeptBase(b) /\ hdr[1 - curr] \in b..(p - 1)
  /\ Holds(out, LinesAt(n, b, p), AvgsAt(n, b), RestartsTo(b))
  /\ LastOf(FitsTo(n, b, p), b, buf[1 - curr])
  /\ davg > 0 <=> FitsTo(n, b, p) # {}
  /\ IF job.count = Unset THEN cnt = Unset ELSE cnt > 0 /\ cnt = job.count - Cardinality(FitsTo(n, b, p))
  /\ \E q \in b..(p - 1) : Previous(b, p, q) /\ IF reset THEN q = b ELSE last_uptime = Rec(q).up

\* The reading of a segment has ended at a restart, or at the end of the file.
SegmentEnd(b, p) ==
  IF eosaf THEN p > heads /\ Quiet(b, p - 1)
  ELSE hdr[curr] = p - 1 /\ b < p - 1 /\ Rec(p - 1).type = "restart" /\ Quiet(b, p - 2)

AtAverage(b, n, p) ==
  /\ b \in Bases /\ KeptBase(b) /\ b < p
  /\ Holds(out, LinesAt(n, b, p), AvgsAt(n, b), RestartsTo(b))
  /\ \A k \in Chosen(n, b) : k < p
  /\ LastOf(Chosen(n, b), b, buf[1 - curr])
  /\ davg > 0 <=> Chosen(n, b) # {}
  /\ IF cnt = 0 THEN Quiet(b, p - 1) ELSE SegmentEnd(b, p)

AtSegmentEnd(b, p) ==
  /\ b \in Bases
  /\ Holds(out, SegmentLines(b), SegmentAvgs(b), RestartsTo(b))
  /\ IF pc = "skip" THEN Based(b, p) ELSE SegmentEnd(b, p)

AtDone ==
  Holds(out, DoneLines, DoneAvgs, DoneRestarts)

\* The activity n is displayed from base b, and record p is read next.
At(b, n, p) ==
  /\ pc = "first" => AtFirst(p)
  /\ pc = "begin" => AtBegin(b, n)
  /\ pc = "line" => AtLine(b, n, p)
  /\ pc = "average" => AtAverage(b, n, p)
  /\ pc \in {"skip", "restart"} => AtSegmentEnd(b, p)
  /\ pc = "done" => AtDone

\* What was displayed at each label is what the records read so far ask for.
OneDayReport == ~cross_day /\ \A b \in {buf[2]}, n \in {pass}, p \in {pos} : At(b, n, p)

\* The files that the theorem is about.
Simple == ~job.growing /\ SingleDay /\ UptimesGrow

-----------------------------------------------------------------------------
(* Numbers. *)

\* CHOOSE takes the maximum, when there is one.
LEMMA MaxIs ==
  ASSUME NEW S, S \subseteq Int, NEW m \in S, \A k \in S : k <= m
  PROVE  Max(S) = m
<1>1. \A k \in S : m >= k
  OBVIOUS
<1>2. ASSUME NEW x \in S, \A k \in S : x >= k PROVE x = m
  BY <1>2
<1> QED
  BY <1>1, <1>2 DEF Max

LEMMA LastIs ==
  ASSUME NEW b \in Nat, NEW S, S \subseteq Nat, \A k \in S : b < k, NEW m, LastOf(S, b, m)
  PROVE  /\ Max({b} \cup S) = m /\ m \in Nat /\ b <= m
         /\ S # {} => Max(S) = m
<1>1. CASE S = {}
  <2>1. m = b /\ {b} \cup S = {b}
    BY <1>1 DEF LastOf
  <2> QED
    BY <1>1, <2>1, MaxIs
<1>2. CASE S # {}
  <2>1. m \in S /\ \A k \in S : k <= m
    BY <1>2 DEF LastOf
  <2>2. {b} \cup S \subseteq Int /\ m \in {b} \cup S /\ \A k \in {b} \cup S : k <= m
    BY <2>1
  <2>3. S \subseteq Int
    OBVIOUS
  <2>4. Max({b} \cup S) = m
    BY <2>2, MaxIs
  <2>5. Max(S) = m
    BY <2>1, <2>3, MaxIs
  <2> QED
    BY <2>1, <2>4, <2>5
<1> QED
  BY <1>1, <1>2

LEMMA Division ==
  ASSUME NEW n \in Nat, NEW d \in Nat \ {0}
  PROVE  \E q \in Nat : q = n \div d /\ q * d <= n /\ n < q * d + d
OBVIOUS

LEMMA Half ==
  ASSUME NEW n \in Nat
  PROVE  \E h \in Nat : h = n \div 2 /\ (n % 2 = n - 2 * h) /\ (n = 2 * h \/ n = 2 * h + 1)
<1>1. n \div 2 \in Nat /\ n % 2 = n - 2 * (n \div 2) /\ n % 2 \in {0, 1}
  OBVIOUS
<1> DEFINE h == n \div 2
<1> HIDE DEF h
<1>2. h \in Nat /\ n % 2 = n - 2 * h /\ n % 2 \in {0, 1}
  BY <1>1 DEF h
<1>3. n = 2 * h \/ n = 2 * h + 1
  BY <1>2
<1> QED
  BY <1>2, <1>3 DEF h

\* The multiples of step around entry are those that next_slice() looks at.
LEMMA SliceAround ==
  ASSUME NEW I \in Nat \ {0}, NEW In \in Nat, NEW En \in Nat
  PROVE  LET min == En - In \div 2
             max == En + (In \div 2) + (In % 2)
             pt1 == (En \div I) * I
             pt2 == (En \div I + 1) * I
         IN  (min <= pt1 /\ pt1 < max) \/ (min <= pt2 /\ pt2 < max)
               <=> \E p \in 0..(En + In) : 2 * p * I \in (2 * En - In)..(2 * En + In - 1)
<1>1. PICK h \in Nat : h = In \div 2 /\ In % 2 = In - 2 * h /\ (In = 2 * h \/ In = 2 * h + 1)
  BY Half
<1>2. PICK q \in Nat : q = En \div I /\ q * I <= En /\ En < q * I + I
  BY Division
<1> DEFINE Near(x) == En - h <= x /\ x < En + h + (In - 2 * h)
<1>3. \A x \in Nat : Near(x) <=> 2 * x \in (2 * En - In)..(2 * En + In - 1)
  BY <1>1
<1>4. (q + 1) * I = q * I + I /\ q * I \in Nat
  OBVIOUS
<1>5. \A p \in Nat : p * I \in Nat /\ 2 * p * I = 2 * (p * I)
  OBVIOUS
<1>6. ASSUME NEW p \in Nat, Near(p * I) PROVE Near(q * I) \/ Near((q + 1) * I)
  <2>1. CASE p <= q
    <3>1. p * I <= q * I
      BY <2>1
    <3>2. p * I \in Nat /\ q * I \in Nat
      OBVIOUS
    <3> DEFINE x == p * I
               y == q * I
    <3>3. x \in Nat /\ y \in Nat /\ x <= y /\ y <= En /\ Near(x)
      BY <1>2, <1>6, <3>1, <3>2
    <3> HIDE DEF x, y
    <3>4. Near(y)
      BY <1>1, <3>3
    <3> QED
      BY <3>4 DEF y
  <2>2. CASE p >= q + 1
    <3>1. (q + 1) * I <= p * I
      BY <2>2
    <3>2. p * I \in Nat /\ (q + 1) * I \in Nat /\ En < (q + 1) * I
      BY <1>2, <1>4
    <3> DEFINE x == p * I
               y == (q + 1) * I
    <3>3. x \in Nat /\ y \in Nat /\ y <= x /\ En < y /\ Near(x)
      BY <1>6, <3>1, <3>2
    <3> HIDE DEF x, y
    <3>4. Near(y)
      BY <1>1, <3>3
    <3> QED
      BY <3>4 DEF y
  <2> QED
    BY <2>1, <2>2
<1>7. ASSUME Near(q * I) PROVE q \in 0..(En + In)
  <2>1. q <= q * I
    OBVIOUS
  <2> QED
    BY <1>2, <1>4, <2>1
<1>8. ASSUME Near((q + 1) * I) PROVE q + 1 \in 0..(En + In)
  <2>1. q <= q * I
    OBVIOUS
  <2>2. q <= En
    BY <1>2, <1>4, <2>1
  <2>3. In > 0
    <3> DEFINE y == (q + 1) * I
    <3>1. y \in Nat /\ En < y /\ Near(y)
      BY <1>2, <1>4, <1>8
    <3> HIDE DEF y
    <3> QED
      BY <1>1, <3>1
  <2> QED
    BY <2>2, <2>3
<1>9. Near(q * I) \/ Near((q + 1) * I) <=> \E p \in 0..(En + In) : Near(p * I)
  <2>1. 0..(En + In) \subseteq Nat
    OBVIOUS
  <2> DEFINE P == 0..(En + In)
  <2> HIDE DEF Near, P
  <2>2. Near(q * I) => q \in P
    BY <1>7 DEF P
  <2>3. Near((q + 1) * I) => q + 1 \in P
    BY <1>8 DEF P
  <2>4. \A p \in P : Near(p * I) => Near(q * I) \/ Near((q + 1) * I)
    BY <1>6, <2>1 DEF P
  <2>5. Near(q * I) \/ Near((q + 1) * I) <=> \E p \in P : Near(p * I)
    BY <2>2, <2>3, <2>4, Zenon
  <2> QED
    BY <2>5 DEF P
<1>10. \A p \in 0..(En + In) : Near(p * I) <=> 2 * p * I \in (2 * En - In)..(2 * En + In - 1)
  BY <1>3, <1>5
<1>11. /\ En - In \div 2 = En - h /\ En + (In \div 2) + (In % 2) = En + h + (In - 2 * h)
       /\ (En \div I) * I = q * I /\ (En \div I + 1) * I = (q + 1) * I
  BY <1>1, <1>2
<1> QED
  BY <1>9, <1>10, <1>11

-----------------------------------------------------------------------------
(* The records of the file. *)

LEMMA Recorded ==
  ASSUME TypeOK
  PROVE  /\ IsCase(job) /\ Len(job.file) \in Nat /\ whole \in Nat /\ whole <= Len(job.file)
         /\ heads \in Nat /\ whole <= heads /\ heads <= whole + 1 /\ heads <= Len(job.file)
         /\ Samples \subseteq 1..whole /\ Restarts \subseteq 1..whole
         /\ Samples \subseteq Nat /\ IsFiniteSet(Samples)
<1>1. IsCase(job) /\ Places
  BY TypeParts
<1>2. /\ Len(job.file) \in Nat /\ whole \in Nat /\ whole <= Len(job.file)
      /\ heads \in Nat /\ whole <= heads /\ heads <= whole + 1 /\ heads <= Len(job.file)
  BY <1>1 DEF Places
<1>3. Samples \subseteq 1..whole /\ Restarts \subseteq 1..whole /\ 1..whole \subseteq Nat
  BY <1>2 DEF Samples, Restarts, Records
<1>4. IsFiniteSet(1..whole)
  BY <1>2, FS_Interval
<1> QED
  BY <1>1, <1>2, <1>3, <1>4, FS_Subset

LEMMA BootQuiet ==
  ASSUME TypeOK, NEW i \in Nat, NEW k \in 0..whole
  PROVE  SameBoot(i, k) <=> Quiet(i, k)
<1>1. whole \in Nat
  BY Recorded
<1>2. \A r \in (i + 1)..k : r \in 1..whole
  BY <1>1
<1>3. \A r \in Restarts : r \in Nat
  BY <1>1 DEF Restarts, Records
<1> QED
  BY <1>1, <1>2, <1>3 DEF SameBoot, Quiet, Restarts, Records

LEMMA QuietPart ==
  ASSUME NEW i \in Int, NEW j \in Int, NEW k \in Int, NEW m \in Int, i <= j, k <= m, Quiet(i, m)
  PROVE  Quiet(j, k)
BY DEF Quiet

LEMMA QuietNext ==
  ASSUME NEW i \in Int, NEW p \in Int, Quiet(i, p - 1), Rec(p).type # "restart"
  PROVE  Quiet(i, p)
<1> SUFFICES ASSUME NEW r \in (i + 1)..p PROVE Rec(r).type # "restart"
  BY DEF Quiet
<1> QED
  BY DEF Quiet

\* In a file of one day the time of day says what is in the period.
LEMMA DaySelects ==
  ASSUME TypeOK, SingleDay
  PROVE  /\ \A k \in 1..whole : InRange(k) <=> Inside(k)
         /\ \A i, k \in 1..whole : i < k /\ Inside(i) => (Inside(k) <=> ~Late(k, FALSE))
         /\ \A i, k \in 1..whole : i < k /\ Late(i, FALSE) => ~Inside(k)
         /\ \A i, k \in 1..Len(job.file) : i < k => (CrossDay(i, k) => cross_day)
<1> DEFINE len == Len(job.file)
           T(k) == TimeOfDay(k)
<1>1. /\ len \in Nat /\ whole \in Nat /\ whole <= len
      /\ job.start \in {Unset} \cup 0..(DayLen - 1) /\ job.end \in {Unset} \cup 0..(DayLen - 1)
  BY Recorded DEF IsCase
<1>2. DayLen \in Nat \ {0} /\ HourLen \in Nat \ {0}
  BY SarReportAssumption
<1>3. \A k \in 1..len : Rec(k).at \in Nat
  BY Recorded, RecType
<1>4. \A k \in 1..len : T(k) \in Nat
  BY <1>2, <1>3 DEF TimeOfDay
<1>5. \A i, k \in 1..len : i < k => T(i) <= T(k) /\ Rec(i).at - T(i) = Rec(k).at - T(k)
  BY <1>3, <1>4 DEF SingleDay
<1>6. TmEnd = job.end
  <2>1. CASE job.start # Unset /\ job.end # Unset
    <3>1. job.start \in Nat /\ job.end \in Nat
      BY <1>1, <2>1
    <3>2. Hour(job.start) \in Nat /\ Hour(job.end) \in Nat /\ Hour(job.start) <= Hour(job.end)
      BY <1>2, <2>1, <3>1 DEF SingleDay, Hour
    <3>3. ~(Hour(job.end) < Hour(job.start))
      BY <3>2
    <3> QED
      BY <3>3 DEF TmEnd
  <2> QED
    BY <2>1 DEF TmEnd
<1>7. \A k \in 1..len : Late(k, FALSE) <=> job.end # Unset /\ T(k) > job.end
  BY <1>1, <1>4, <1>6 DEF Late, Unset
<1>8. \A k \in 1..len : Early(k) <=> job.start # Unset /\ T(k) < job.start
  BY DEF Early
<1>9. ASSUME NEW k \in 1..len
      PROVE  Inside(k) <=> /\ job.start # Unset => T(k) >= job.start
                           /\ job.end # Unset => T(k) <= job.end
  <2>1. 1 \in 1..len /\ (k = 1 \/ 1 < k)
    BY <1>1
  <2>2. FirstDay = Rec(k).at - T(k)
    BY <1>3, <1>4, <1>5, <2>1 DEF FirstDay
  <2>3. Rec(k).at \in Nat /\ T(k) \in Nat
    BY <1>3, <1>4
  <2> DEFINE at == Rec(k).at
             t == T(k)
  <2> HIDE DEF T, at, t
  <2>4. Inside(k) <=> /\ job.start # Unset => at >= (at - t) + job.start
                      /\ job.end # Unset => at <= (at - t) + job.end
    BY <1>6, <2>2 DEF Inside, at, t
  <2>5. at \in Nat /\ t \in Nat
    BY <2>3 DEF at, t
  <2>6. job.start # Unset => (at >= (at - t) + job.start <=> t >= job.start)
    BY <1>1, <2>5
  <2>7. job.end # Unset => (at <= (at - t) + job.end <=> t <= job.end)
    BY <1>1, <2>5
  <2> QED
    BY <2>4, <2>6, <2>7 DEF t
<1> HIDE DEF T
<1>10. /\ job.start # Unset => job.start \in Nat
       /\ job.end # Unset => job.end \in Nat
  BY <1>1
<1> DEFINE st == job.start
             en == job.end
<1>20. \A k \in 1..len : Inside(k) <=> (st # Unset => T(k) >= st) /\ (en # Unset => T(k) <= en)
  BY <1>9 DEF T
<1>21. \A k \in 1..len : Late(k, FALSE) <=> en # Unset /\ T(k) > en
  BY <1>7 DEF T
<1>22. \A k \in 1..len : Early(k) <=> st # Unset /\ T(k) < st
  BY <1>8 DEF T
<1>23. (st # Unset => st \in Nat) /\ (en # Unset => en \in Nat)
  BY <1>10
<1> HIDE DEF st, en
<1>24. \A t \in Nat : en # Unset => (t > en <=> ~(t <= en))
  BY <1>23
<1>11. ASSUME NEW k \in 1..len PROVE InRange(k) <=> Inside(k)
  <2>1. T(k) \in Nat
    BY <1>4
  <2>2. ~Early(k) <=> (st # Unset => T(k) >= st)
    BY <1>22, <1>23, <2>1
  <2>3. ~Late(k, FALSE) <=> (en # Unset => T(k) <= en)
    BY <1>21, <1>24, <2>1, Zenon
  <2> QED
    BY <1>20, <2>2, <2>3, Zenon DEF InRange
<1>12. ASSUME NEW i \in 1..len, NEW k \in 1..len, i < k, Inside(i) PROVE Inside(k) <=> ~Late(k, FALSE)
  <2>1. T(i) \in Nat /\ T(k) \in Nat /\ T(i) <= T(k)
    BY <1>4, <1>5, <1>12
  <2>2. st # Unset => T(i) >= st
    BY <1>20, <1>12
  <2>3. st # Unset => T(k) >= st
    BY <1>23, <2>1, <2>2
  <2>4. ~Late(k, FALSE) <=> (en # Unset => T(k) <= en)
    BY <1>21, <1>24, <2>1, Zenon
  <2> QED
    BY <1>20, <2>3, <2>4, Zenon
<1>13. ASSUME NEW i \in 1..len, NEW k \in 1..len, i < k, Late(i, FALSE) PROVE ~Inside(k)
  <2>1. T(i) \in Nat /\ T(k) \in Nat /\ T(i) <= T(k)
    BY <1>4, <1>5, <1>13
  <2>2. en # Unset /\ T(i) > en
    BY <1>21, <1>13
  <2>3. ~(T(k) <= en)
    BY <1>23, <2>1, <2>2
  <2> QED
    BY <1>20, <2>2, <2>3, Zenon
<1>14. ASSUME NEW i \in 1..len, NEW k \in 1..len, i < k, CrossDay(i, k) PROVE cross_day
  <2>1. T(i) \in Nat /\ T(k) \in Nat /\ T(i) <= T(k)
    BY <1>4, <1>5, <1>14
  <2>2. T(i) \div HourLen <= T(k) \div HourLen /\ T(i) \div HourLen \in Nat /\ T(k) \div HourLen \in Nat
    BY <1>2, <2>1
  <2>3. ~(T(k) \div HourLen < T(i) \div HourLen)
    BY <2>2
  <2> QED
    BY <1>14, <2>3 DEF CrossDay, Hour, T
<1>15. 1..whole \subseteq 1..len
  BY <1>1
<1> QED
  BY <1>11, <1>12, <1>13, <1>14, <1>15

\* In one boot, next_slice() takes the samples that -i should display.
LEMMA SliceDisplayable ==
  ASSUME TypeOK, UptimesGrow, NEW b \in Samples, NEW k \in Samples, b < k, Quiet(b, k),
         NEW q, Previous(b, k, q)
  PROVE  NextSlice(Rec(b).up, Rec(q).up, Rec(k).up) <=> Displayable(b, k)
<1>1. /\ b \in 1..Len(job.file) /\ k \in 1..Len(job.file) /\ b \in Nat /\ k \in Nat
      /\ Samples \subseteq Nat /\ job.interval \in Nat \ {0}
  BY Recorded DEF IsCase
<1>2. Wrap \in Nat \ {0}
  BY SarReportAssumption
<1> DEFINE S == { i \in Samples : b < i /\ i < k }
<1>3. LastOf(S, b, q)
  BY DEF Previous
<1>4. S \subseteq Nat /\ \A i \in S : b < i
  BY <1>1
<1>5. Max({b} \cup S) = q /\ q \in Nat /\ b <= q
  BY <1>1, <1>3, <1>4, LastIs
<1>6. q = b \/ q \in S
  BY <1>3 DEF LastOf
<1>7. { i \in Samples : b <= i /\ i < k } = {b} \cup S
  <2>1. \A i \in Samples : (b <= i /\ i < k) <=> (i = b \/ (b < i /\ i < k))
    BY <1>1
  <2>2. \A x : x \in { i \in Samples : b <= i /\ i < k } <=> x \in {b} \cup S
    BY <2>1, Zenon
  <2> QED
    BY <2>2, Zenon
<1>8. q \in 1..Len(job.file) /\ q < k
  BY <1>1, <1>4, <1>6, Recorded
<1>9. Quiet(q, k)
  BY <1>1, <1>5, QuietPart
<1>10. /\ Rec(b).up \in Nat /\ Rec(q).up \in Nat /\ Rec(k).up \in Nat
  BY <1>1, <1>8, Recorded, RecType
<1>11. /\ Rec(b).up <= Rec(k).up /\ Rec(k).up - Rec(b).up < Wrap
       /\ Rec(q).up <= Rec(k).up /\ Rec(k).up - Rec(q).up < Wrap
  BY <1>1, <1>8, <1>9 DEF UptimesGrow
<1> DEFINE x == Rec(k).up - Rec(q).up
           y == Rec(k).up - Rec(b).up
<1>12. x \in Nat /\ y \in Nat /\ x < Wrap /\ y < Wrap
  BY <1>10, <1>11
<1>13. x % Wrap = x /\ y % Wrap = y
  <2> HIDE DEF x, y
  <2> QED
    BY <1>2, <1>12
<1> DEFINE In == Seconds(x)
           En == Seconds(y)
<1>14. In \in Nat /\ En \in Nat
  <2> HIDE DEF x, y
  <2> QED
    BY <1>12 DEF Seconds
<1>15. Displayable(b, k) <=>
         job.interval = 1
         \/ \E p \in 0..(En + In) : 2 * p * job.interval \in (2 * En - In)..(2 * En + In - 1)
  BY <1>5, <1>7 DEF Displayable
<1> DEFINE min == En - In \div 2
           max == En + (In \div 2) + (In % 2)
           pt1 == (En \div job.interval) * job.interval
           pt2 == (En \div job.interval + 1) * job.interval
<1>16. NextSlice(Rec(b).up, Rec(q).up, Rec(k).up) <=>
         job.interval = 1 \/ (min <= pt1 /\ pt1 < max) \/ (min <= pt2 /\ pt2 < max)
  BY <1>13 DEF NextSlice
<1>17. (min <= pt1 /\ pt1 < max) \/ (min <= pt2 /\ pt2 < max)
         <=> \E p \in 0..(En + In) : 2 * p * job.interval \in (2 * En - In)..(2 * En + In - 1)
  <2> HIDE DEF En, In
  <2> QED
    BY <1>1, <1>14, SliceAround
<1> QED
  BY <1>15, <1>16, <1>17

-----------------------------------------------------------------------------
(* The samples that are displayed. *)

LEMMA ChosenIs ==
  ASSUME TypeOK, NEW a, NEW b
  PROVE  /\ Fits(a, b) \subseteq Samples /\ Fits(a, b) \subseteq Nat /\ IsFiniteSet(Fits(a, b))
         /\ \A k \in Fits(a, b) : b < k /\ k \in 1..whole
         /\ Chosen(a, b) = { k \in Fits(a, b) : job.count = Unset
                               \/ Cardinality({ i \in Fits(a, b) : i <= k }) <= job.count }
         /\ Chosen(a, b) \subseteq Fits(a, b)
<1>1. Samples \subseteq 1..whole /\ Samples \subseteq Nat /\ IsFiniteSet(Samples)
  BY Recorded
<1>2. Fits(a, b) \subseteq Samples /\ \A k \in Fits(a, b) : b < k
  BY DEF Fits
<1>3. Chosen(a, b) = { k \in Fits(a, b) : job.count = Unset
                         \/ Cardinality({ i \in Fits(a, b) : i <= k }) <= job.count }
  BY Zenon DEF Chosen, Fits
<1> QED
  BY <1>1, <1>2, <1>3, FS_Subset

LEMMA FitsCount ==
  ASSUME TypeOK, NEW a, NEW b, NEW p \in Nat
  PROVE  /\ FitsTo(a, b, p) \subseteq Fits(a, b) /\ FitsTo(a, b, p) \subseteq Nat
         /\ \A k \in FitsTo(a, b, p) : b < k /\ k < p
         /\ IsFiniteSet(FitsTo(a, b, p)) /\ Cardinality(FitsTo(a, b, p)) \in Nat
         /\ p \notin Fits(a, b) => FitsTo(a, b, p + 1) = FitsTo(a, b, p)
         /\ p \in Fits(a, b) => /\ FitsTo(a, b, p + 1) = FitsTo(a, b, p) \cup {p}
                                /\ Cardinality(FitsTo(a, b, p + 1)) = Cardinality(FitsTo(a, b, p)) + 1
<1> DEFINE F == Fits(a, b)
<1>1. F \subseteq Nat /\ IsFiniteSet(F) /\ \A k \in F : b < k
  BY ChosenIs
<1> HIDE DEF F
<1>2. /\ FitsTo(a, b, p) = { i \in F : i < p } /\ FitsTo(a, b, p + 1) = { i \in F : i < p + 1 }
  BY DEF FitsTo, F
<1>3. /\ FitsTo(a, b, p) \subseteq F /\ FitsTo(a, b, p) \subseteq Nat
      /\ \A k \in FitsTo(a, b, p) : b < k /\ k < p
  BY <1>1, <1>2
<1>4. IsFiniteSet(FitsTo(a, b, p)) /\ Cardinality(FitsTo(a, b, p)) \in Nat
  BY <1>1, <1>3, FS_Subset, FS_CardinalityType
<1>9. \A i \in F : i < p + 1 <=> (i < p \/ i = p)
  BY <1>1
<1>5. p \notin F => FitsTo(a, b, p + 1) = FitsTo(a, b, p)
  BY <1>2, <1>9
<1>6. p \in F => FitsTo(a, b, p + 1) = FitsTo(a, b, p) \cup {p}
  <2> SUFFICES ASSUME p \in F PROVE \A x : x \in FitsTo(a, b, p + 1) <=> x \in FitsTo(a, b, p) \cup {p}
    BY Zenon
  <2> QED
    BY <1>2, <1>9, Zenon
<1>7. p \notin FitsTo(a, b, p)
  BY <1>3
<1>8. p \in F => Cardinality(FitsTo(a, b, p + 1)) = Cardinality(FitsTo(a, b, p)) + 1
  BY <1>4, <1>6, <1>7, FS_AddElement
<1> QED
  BY <1>3, <1>4, <1>5, <1>6, <1>8 DEF F

\* While there are lines left, what fits is displayed.
LEMMA AllChosen ==
  ASSUME TypeOK, NEW a, NEW b, NEW p \in Nat,
         job.count = Unset \/ Cardinality(FitsTo(a, b, p)) <= job.count
  PROVE  /\ ChosenTo(a, b, p) = FitsTo(a, b, p)
         /\ \A k \in FitsTo(a, b, p) : { i \in Chosen(a, b) : i < k } = FitsTo(a, b, k)
<1> DEFINE F == Fits(a, b)
           C == Chosen(a, b)
           U(k) == { i \in F : i <= k }
<1>1. /\ F \subseteq Nat /\ IsFiniteSet(F) /\ C \subseteq F
      /\ C = { k \in F : job.count = Unset \/ Cardinality(U(k)) <= job.count }
  BY ChosenIs
<1>2. job.count \in {Unset} \cup Nat
  BY Recorded DEF IsCase
<1> HIDE DEF F, C
<1>3. \A x : FitsTo(a, b, x) = { i \in F : i < x }
  BY DEF FitsTo, F
<1>4. IsFiniteSet(FitsTo(a, b, p)) /\ Cardinality(FitsTo(a, b, p)) \in Nat
  BY FitsCount
<1>5. ASSUME NEW k \in FitsTo(a, b, p) PROVE k \in C
  <2>1. k \in F /\ k < p /\ k \in Nat
    BY <1>1, <1>3, <1>5
  <2>9. \A i \in F : i <= k => i < p
    BY <1>1, <2>1
  <2>2. U(k) \subseteq FitsTo(a, b, p)
    BY <1>3, <2>9
  <2> DEFINE u == U(k)
  <2> HIDE DEF u
  <2>3. u \subseteq FitsTo(a, b, p)
    BY <2>2 DEF u
  <2>4. Cardinality(u) <= Cardinality(FitsTo(a, b, p)) /\ Cardinality(u) \in Nat
    BY <1>4, <2>3, FS_Subset, FS_CardinalityType
  <2>5. job.count = Unset \/ Cardinality(u) <= job.count
    BY <1>2, <1>4, <2>4 DEF Unset
  <2> QED
    BY <1>1, <2>1, <2>5 DEF u
<1>6. ChosenTo(a, b, p) = { i \in C : i < p }
  BY DEF ChosenTo, C
<1>7. ChosenTo(a, b, p) = FitsTo(a, b, p)
  BY <1>1, <1>3, <1>5, <1>6
<1>8. ASSUME NEW k \in FitsTo(a, b, p) PROVE { i \in C : i < k } = FitsTo(a, b, k)
  <2>1. k \in F /\ k < p /\ k \in Nat
    BY <1>1, <1>3, <1>8
  <2>2. \A i \in F : i < k => i \in C
    BY <1>1, <1>3, <1>5, <2>1
  <2> QED
    BY <1>1, <1>3, <2>2
<1> QED
  BY <1>7, <1>8 DEF C

\* The last of the lines asked for.
LEMMA NoMoreChosen ==
  ASSUME TypeOK, NEW a, NEW b, NEW p \in Nat,
         job.count # Unset, Cardinality(FitsTo(a, b, p)) = job.count
  PROVE  Chosen(a, b) = FitsTo(a, b, p)
<1> DEFINE F == Fits(a, b)
           C == Chosen(a, b)
           U(k) == { i \in F : i <= k }
<1>1. /\ F \subseteq Nat /\ IsFiniteSet(F) /\ C \subseteq F
      /\ C = { k \in F : job.count = Unset \/ Cardinality(U(k)) <= job.count }
  BY ChosenIs
<1>2. job.count \in Nat /\ Cardinality(FitsTo(a, b, p)) <= job.count
  BY Recorded DEF IsCase
<1>3. ChosenTo(a, b, p) = FitsTo(a, b, p)
  BY <1>2, AllChosen
<1> HIDE DEF F, C
<1>4. ChosenTo(a, b, p) = { i \in C : i < p } /\ FitsTo(a, b, p) = { i \in F : i < p }
  BY DEF ChosenTo, FitsTo, F, C
<1>5. ASSUME NEW k \in C PROVE k < p
  <2> SUFFICES ASSUME ~(k < p) PROVE FALSE
    OBVIOUS
  <2>1. k \in F /\ k \in Nat /\ p <= k
    BY <1>1
  <2>9. k <= k /\ \A i \in F : i < p => i <= k /\ i # k
    BY <1>1, <2>1
  <2>2. FitsTo(a, b, p) \subseteq U(k) \ {k} /\ k \in U(k) /\ U(k) \subseteq F
    BY <1>4, <2>1, <2>9
  <2> DEFINE u == U(k)
  <2> HIDE DEF u
  <2>3. FitsTo(a, b, p) \subseteq u \ {k} /\ k \in u /\ u \subseteq F
    BY <2>2 DEF u
  <2>4. IsFiniteSet(u) /\ Cardinality(u) \in Nat /\ IsFiniteSet(u \ {k}) /\ Cardinality(u \ {k}) = Cardinality(u) - 1
    BY <1>1, <2>3, FS_Subset, FS_CardinalityType, FS_RemoveElement
  <2>5. Cardinality(FitsTo(a, b, p)) <= Cardinality(u \ {k})
    BY <2>3, <2>4, FS_Subset
  <2>6. job.count <= Cardinality(u) - 1
    BY <2>4, <2>5
  <2>7. job.count = Unset \/ Cardinality(u) <= job.count
    BY <1>1 DEF u
  <2> QED
    BY <1>2, <2>4, <2>6, <2>7
<1> QED
  BY <1>3, <1>4, <1>5 DEF C

-----------------------------------------------------------------------------
(* What is displayed of them. *)

\* The members of a list of lines, or of averages.
LEMMA LinesMember ==
  ASSUME NEW A, NEW B
  PROVE  /\ \A e : e \in AllLines(A, B) <=> \E a \in A, b \in B, k \in Samples : k \in Chosen(a, b) /\ e = LineAt(a, b, k)
         /\ \A e : e \in AllAvgs(A, B) <=> \E a \in A, b \in B : Chosen(a, b) # {} /\ e = AvgAt(a, b)
<1> DEFINE Y == { y \in A \X B \X Samples : y[3] \in Chosen(y[1], y[2]) }
           Z == { y \in A \X B : Chosen(y[1], y[2]) # {} }
<1>1. ASSUME NEW e PROVE e \in AllLines(A, B) <=> \E a \in A, b \in B, k \in Samples : k \in Chosen(a, b) /\ e = LineAt(a, b, k)
  <2>1. e \in AllLines(A, B) <=> \E x \in Y : e = LineAt(x[1], x[2], x[3])
    BY Zenon DEF AllLines
  <2>2. ASSUME NEW x \in Y, e = LineAt(x[1], x[2], x[3])
        PROVE  \E a \in A, b \in B, k \in Samples : k \in Chosen(a, b) /\ e = LineAt(a, b, k)
    <3>1. x[1] \in A /\ x[2] \in B /\ x[3] \in Samples /\ x[3] \in Chosen(x[1], x[2])
      OBVIOUS
    <3> QED
      BY <2>2, <3>1, Zenon
  <2>3. ASSUME NEW a \in A, NEW b \in B, NEW k \in Samples, k \in Chosen(a, b), e = LineAt(a, b, k)
        PROVE  \E x \in Y : e = LineAt(x[1], x[2], x[3])
    <3> DEFINE x == << a, b, k >>
    <3>1. x[1] = a /\ x[2] = b /\ x[3] = k /\ x \in A \X B \X Samples
      OBVIOUS
    <3> HIDE DEF x
    <3>2. x \in Y
      BY <2>3, <3>1, Zenon
    <3> QED
      BY <2>3, <3>1, <3>2, Zenon
  <2> QED
    BY <2>1, <2>2, <2>3, Zenon
<1>2. ASSUME NEW e PROVE e \in AllAvgs(A, B) <=> \E a \in A, b \in B : Chosen(a, b) # {} /\ e = AvgAt(a, b)
  <2>1. e \in AllAvgs(A, B) <=> \E x \in Z : e = AvgAt(x[1], x[2])
    BY Zenon DEF AllAvgs
  <2>2. ASSUME NEW x \in Z, e = AvgAt(x[1], x[2])
        PROVE  \E a \in A, b \in B : Chosen(a, b) # {} /\ e = AvgAt(a, b)
    <3>1. x[1] \in A /\ x[2] \in B /\ Chosen(x[1], x[2]) # {}
      OBVIOUS
    <3> QED
      BY <2>2, <3>1, Zenon
  <2>3. ASSUME NEW a \in A, NEW b \in B, Chosen(a, b) # {}, e = AvgAt(a, b)
        PROVE  \E x \in Z : e = AvgAt(x[1], x[2])
    <3> DEFINE x == << a, b >>
    <3>1. x[1] = a /\ x[2] = b /\ x \in A \X B
      OBVIOUS
    <3> HIDE DEF x
    <3>2. x \in Z
      BY <2>3, <3>1, Zenon
    <3> QED
      BY <2>3, <3>1, <3>2, Zenon
  <2> QED
    BY <2>1, <2>2, <2>3, Zenon
<1> QED
  BY <1>1, <1>2, Zenon

-----------------------------------------------------------------------------
(* A file that nobody writes to. *)

SameFile == job' = job /\ whole' = whole

LEMMA SameRecords ==
  ASSUME SameFile
  PROVE  /\ Samples' = Samples /\ Restarts' = Restarts
         /\ \A k : Rec(k)' = Rec(k) /\ (Stats(k)' <=> Stats(k)) /\ Special(k)' = Special(k)
         /\ \A i, k : (SameBoot(i, k)' <=> SameBoot(i, k)) /\ (Quiet(i, k)' <=> Quiet(i, k))
         /\ \A k : (Inside(k)' <=> Inside(k)) /\ (InRange(k)' <=> InRange(k))
<1>1. job' = job /\ whole' = whole
  BY DEF SameFile
<1>2. \A k : Rec(k)' = Rec(k) /\ (Stats(k)' <=> Stats(k)) /\ Special(k)' = Special(k)
  BY <1>1 DEF Rec, Stats, Special
<1>3. Samples' = Samples /\ Restarts' = Restarts
  BY <1>1 DEF Samples, Restarts, Records, Rec, Stats
<1>4. \A i, k : SameBoot(i, k)' <=> SameBoot(i, k)
  BY <1>3 DEF SameBoot
<1>5. \A i, k : Quiet(i, k)' <=> Quiet(i, k)
  BY <1>2 DEF Quiet
<1>6. \A k : TimeOfDay(k)' = TimeOfDay(k)
  BY <1>2 DEF TimeOfDay
<1>7. FirstDay' = FirstDay /\ TmEnd' = TmEnd
  BY <1>1, <1>2, <1>6, Zenon DEF FirstDay, TmEnd
<1>8. \A k : Inside(k)' <=> Inside(k)
  BY <1>1, <1>2, <1>7, Zenon DEF Inside
<1>9. \A k : InRange(k)' <=> InRange(k)
  BY <1>1, <1>6, <1>7, Zenon DEF InRange, Early, Late
<1> QED
  BY <1>2, <1>3, <1>4, <1>5, <1>8, <1>9

LEMMA SameChosen ==
  ASSUME SameFile
  PROVE  /\ Bases' = Bases
         /\ \A a, b : Fits(a, b)' = Fits(a, b) /\ Chosen(a, b)' = Chosen(a, b)
<1>1. job' = job /\ Samples' = Samples
  BY SameRecords DEF SameFile
<1>2. Bases' = Bases
  <2>1. \A b : b \in Bases' <=> b \in Bases
    BY SameRecords, Zenon DEF Bases
  <2> QED
    BY <2>1, Zenon
<1>3. ASSUME NEW b, NEW k PROVE Displayable(b, k)' <=> Displayable(b, k)
  <2> DEFINE last == Max({ i \in Samples : b <= i /\ i < k })
  <2>1. last' = last
    BY <1>1
  <2>2. /\ Rec(k)' = Rec(k) /\ Rec(b)' = Rec(b) /\ \A m : Rec(m)' = Rec(m)
    BY SameRecords
  <2> HIDE DEF last
  <2>3. Rec(last)' = Rec(last)
    BY <1>1, <2>1 DEF Rec
  <2> QED
    BY <1>1, <2>1, <2>2, <2>3, Zenon DEF Displayable, last
<1>4. ASSUME NEW a, NEW b PROVE Fits(a, b)' = Fits(a, b)
  <2>1. \A k : k \in Fits(a, b)' <=> k \in Fits(a, b)
    BY <1>1, <1>3, SameRecords, Zenon DEF Fits
  <2> QED
    BY <2>1, Zenon
<1>5. ASSUME NEW a, NEW b PROVE Chosen(a, b)' = Chosen(a, b)
  <2>1. Chosen(a, b) = { k \in Fits(a, b) : job.count = Unset
                           \/ Cardinality({ i \in Fits(a, b) : i <= k }) <= job.count }
    BY Zenon DEF Chosen, Fits
  <2>2. Chosen(a, b)' = { k \in Fits(a, b)' : job'.count = Unset
                           \/ Cardinality({ i \in Fits(a, b)' : i <= k }) <= job'.count }
    BY Zenon DEF Chosen, Fits
  <2> QED
    BY <1>1, <1>4, <2>1, <2>2, Zenon
<1> QED
  BY <1>2, <1>4, <1>5

LEMMA SameLists ==
  ASSUME SameFile
  PROVE  /\ \A A, B : AllLines(A, B)' = AllLines(A, B) /\ AllAvgs(A, B)' = AllAvgs(A, B)
         /\ \A b : EarlierLines(b)' = EarlierLines(b) /\ EarlierAvgs(b)' = EarlierAvgs(b)
         /\ \A n, b, p : LinesAt(n, b, p)' = LinesAt(n, b, p)
         /\ \A n, b : AvgsAt(n, b)' = AvgsAt(n, b)
         /\ \A b : SegmentLines(b)' = SegmentLines(b) /\ SegmentAvgs(b)' = SegmentAvgs(b)
         /\ \A p : BasesTo(p)' = BasesTo(p) /\ RestartsTo(p)' = RestartsTo(p)
         /\ \A a, b, p : FitsTo(a, b, p)' = FitsTo(a, b, p)
         /\ DoneLines' = DoneLines /\ DoneAvgs' = DoneAvgs /\ DoneRestarts' = DoneRestarts
<1>1. Samples' = Samples /\ Bases' = Bases
  BY SameRecords, SameChosen
<1>2. \A a, b, k : LineAt(a, b, k)' = LineAt(a, b, k) /\ AvgAt(a, b)' = AvgAt(a, b)
  BY SameChosen, Zenon DEF LineAt, AvgAt
<1>3. ASSUME NEW A, NEW B PROVE AllLines(A, B)' = AllLines(A, B)
  <2>1. \A e : e \in AllLines(A, B)' <=> e \in AllLines(A, B)
    BY <1>1, <1>2, SameChosen, Zenon DEF AllLines
  <2> QED
    BY <2>1, Zenon
<1>4. ASSUME NEW A, NEW B PROVE AllAvgs(A, B)' = AllAvgs(A, B)
  <2>1. \A e : e \in AllAvgs(A, B)' <=> e \in AllAvgs(A, B)
    BY <1>1, <1>2, SameChosen, Zenon DEF AllAvgs
  <2> QED
    BY <2>1, Zenon
<1>5. \A p : BasesTo(p)' = BasesTo(p)
  BY <1>1 DEF BasesTo
<1>6. ASSUME NEW p PROVE RestartsTo(p)' = RestartsTo(p)
  <2>1. \A e : e \in RestartsTo(p)' <=> e \in RestartsTo(p)
    BY SameRecords, Zenon DEF RestartsTo
  <2> QED
    BY <2>1, Zenon
<1>7. \A a, b, p : FitsTo(a, b, p)' = FitsTo(a, b, p) /\ ChosenTo(a, b, p)' = ChosenTo(a, b, p)
  BY SameChosen DEF FitsTo, ChosenTo
<1>8. ASSUME NEW a, NEW b, NEW p PROVE LinesTo(a, b, p)' = LinesTo(a, b, p)
  <2>1. \A e : e \in LinesTo(a, b, p)' <=> e \in LinesTo(a, b, p)
    BY <1>2, <1>7, Zenon DEF LinesTo
  <2> QED
    BY <2>1, Zenon
<1>9. ASSUME NEW b PROVE EarlierLines(b)' = EarlierLines(b)
  <2>1. \A e : e \in EarlierLines(b)' <=> e \in EarlierLines(b)
    BY <1>1, <1>2, <1>5, SameChosen, Zenon DEF AllLines, EarlierLines
  <2> QED
    BY <2>1, Zenon
<1>10. ASSUME NEW b PROVE EarlierAvgs(b)' = EarlierAvgs(b)
  <2>1. \A e : e \in EarlierAvgs(b)' <=> e \in EarlierAvgs(b)
    BY <1>1, <1>2, <1>5, SameChosen, Zenon DEF AllAvgs, EarlierAvgs
  <2> QED
    BY <2>1, Zenon
<1>11. /\ \A n, b, p : LinesAt(n, b, p)' = LinesAt(n, b, p)
       /\ \A n, b : AvgsAt(n, b)' = AvgsAt(n, b)
  BY <1>3, <1>4, <1>8, <1>9, <1>10, Zenon DEF LinesAt, AvgsAt
<1>12. \A b : SegmentLines(b)' = SegmentLines(b) /\ SegmentAvgs(b)' = SegmentAvgs(b)
  BY <1>3, <1>4, <1>9, <1>10, Zenon DEF SegmentLines, SegmentAvgs
<1>13. DoneLines' = DoneLines
  <2>1. \A e : e \in DoneLines' <=> e \in DoneLines
    BY <1>1, <1>2, SameChosen, Zenon DEF AllLines, DoneLines
  <2> QED
    BY <2>1, Zenon
<1>14. DoneAvgs' = DoneAvgs
  <2>1. \A e : e \in DoneAvgs' <=> e \in DoneAvgs
    BY <1>1, <1>2, SameChosen, Zenon DEF AllAvgs, DoneAvgs
  <2> QED
    BY <2>1, Zenon
<1>15. DoneRestarts' = DoneRestarts
  <2>1. \A e : e \in DoneRestarts' <=> e \in DoneRestarts
    BY SameRecords, Zenon DEF DoneRestarts
  <2> QED
    BY <2>1, Zenon
<1> QED
  BY <1>3, <1>4, <1>5, <1>6, <1>7, <1>9, <1>10, <1>11, <1>12, <1>13, <1>14, <1>15

LEMMA DoneIs == DoneLines = ExpectedLines /\ DoneAvgs = ExpectedAverages
<1>1. \A a, b : Chosen(a, b) \subseteq Samples
  BY DEF Chosen
<1>2. \A e : e \in ExpectedLines <=> \E a \in Pass, b \in Bases, k \in Samples : k \in Chosen(a, b) /\ e = LineAt(a, b, k)
  <2> DEFINE Of(a, b) == { LineAt(a, b, k) : k \in Chosen(a, b) }
  <2> DEFINE S == { Of(a, b) : a \in Pass, b \in Bases }
  <2>1. ExpectedLines = UNION S
    BY DEF ExpectedLines, LineAt
  <2>2. \A s : s \in S <=> \E a \in Pass, b \in Bases : s = Of(a, b)
    <3> HIDE DEF Of
    <3> QED
      OBVIOUS
  <2>3. \A e, a, b : e \in Of(a, b) <=> \E k \in Samples : k \in Chosen(a, b) /\ e = LineAt(a, b, k)
    BY <1>1
  <2> HIDE DEF Of, S
  <2>4. \A e : e \in ExpectedLines <=> \E s \in S : e \in s
    BY <2>1, Zenon
  <2>5. ASSUME NEW e \in ExpectedLines
        PROVE  \E a \in Pass, b \in Bases, k \in Samples : k \in Chosen(a, b) /\ e = LineAt(a, b, k)
    <3>1. PICK s \in S : e \in s
      BY <2>4, <2>5
    <3>2. PICK a \in Pass, b \in Bases : s = Of(a, b)
      BY <2>2, <3>1
    <3> QED
      BY <2>3, <3>1, <3>2
  <2>6. ASSUME NEW a \in Pass, NEW b \in Bases, NEW k \in Samples, k \in Chosen(a, b)
        PROVE  LineAt(a, b, k) \in ExpectedLines
    <3>1. Of(a, b) \in S /\ LineAt(a, b, k) \in Of(a, b)
      BY <2>2, <2>3, <2>6
    <3> QED
      BY <2>4, <3>1
  <2> QED
    BY <2>5, <2>6, Zenon
<1>3. \A e : e \in DoneLines <=> \E a \in Pass, b \in Bases, k \in Samples : k \in Chosen(a, b) /\ e = LineAt(a, b, k)
  BY LinesMember DEF DoneLines
<1>4. DoneAvgs = ExpectedAverages
  BY Zenon DEF DoneAvgs, AllAvgs, AvgAt, ExpectedAverages
<1> QED
  BY <1>2, <1>3, <1>4, Zenon
-----------------------------------------------------------------------------
(* Adding to the report. *)

LEMMA AppendKinds ==
  ASSUME NEW o \in Seq(Entry), NEW e \in Entry
  PROVE  /\ \A s : KindIn(Append(o, e), s) = KindIn(o, s) \cup (IF e.kind = s THEN {e} ELSE {})
         /\ \A i \in DOMAIN o : o[i] \in KindIn(o, o[i].kind)
<1>1. \A x : x \in ToSet(Append(o, e)) <=> x \in ToSet(o) \/ x = e
  <2>1. DOMAIN Append(o, e) = DOMAIN o \cup {Len(o) + 1} /\ DOMAIN o = 1..Len(o) /\ Len(o) \in Nat
    OBVIOUS
  <2>2. \A i \in DOMAIN o : Append(o, e)[i] = o[i]
    OBVIOUS
  <2>3. Append(o, e)[Len(o) + 1] = e
    OBVIOUS
  <2>4. \A x : x \in ToSet(o) <=> \E i \in DOMAIN o : x = o[i]
    BY Zenon DEF ToSet
  <2>5. \A x : x \in ToSet(Append(o, e)) <=> \E i \in DOMAIN Append(o, e) : x = Append(o, e)[i]
    BY Zenon DEF ToSet
  <2> QED
    BY <2>1, <2>2, <2>3, <2>4, <2>5, Zenon
<1>2. ASSUME NEW s PROVE KindIn(Append(o, e), s) = KindIn(o, s) \cup (IF e.kind = s THEN {e} ELSE {})
  <2>1. \A x : x \in KindIn(Append(o, e), s) <=> (x \in ToSet(o) \/ x = e) /\ x.kind = s
    BY <1>1, Zenon DEF KindIn
  <2>2. \A x : x \in KindIn(o, s) <=> x \in ToSet(o) /\ x.kind = s
    BY Zenon DEF KindIn
  <2> QED
    BY <2>1, <2>2
<1>3. \A i \in DOMAIN o : o[i] \in KindIn(o, o[i].kind)
  BY Zenon DEF KindIn, ToSet
<1> QED
  BY <1>2, <1>3

LEMMA OnceMore ==
  ASSUME NEW o \in Seq(Entry), NEW e \in Entry, e.kind = "comment" \/ e \notin KindIn(o, e.kind),
         \A i, j \in DOMAIN o : o[i] = o[j] /\ o[i].kind # "comment" => i = j
  PROVE  \A i, j \in DOMAIN Append(o, e) :
           Append(o, e)[i] = Append(o, e)[j] /\ Append(o, e)[i].kind # "comment" => i = j
<1>1. DOMAIN Append(o, e) = DOMAIN o \cup {Len(o) + 1} /\ DOMAIN o = 1..Len(o) /\ Len(o) \in Nat
  OBVIOUS
<1>2. \A i \in DOMAIN o : Append(o, e)[i] = o[i]
  OBVIOUS
<1>3. Append(o, e)[Len(o) + 1] = e
  OBVIOUS
<1>4. \A i \in DOMAIN o : e.kind # "comment" => o[i] # e
  BY AppendKinds
<1> QED
  BY <1>1, <1>2, <1>3, <1>4, Zenon

LEMMA AddLine ==
  ASSUME NEW o \in Seq(Entry), NEW e \in Entry, NEW L, NEW A, NEW R, Holds(o, L, A, R)
  PROVE  /\ e.kind = "line" /\ e \notin L => Holds(Append(o, e), L \cup {e}, A, R)
         /\ e.kind = "average" /\ e \notin A => Holds(Append(o, e), L, A \cup {e}, R)
         /\ e.kind = "restart" /\ e \notin R => Holds(Append(o, e), L, A, R \cup {e})
         /\ e.kind = "comment" => Holds(Append(o, e), L, A, R)
<1> DEFINE n == Append(o, e)
<1>1. \A s : KindIn(n, s) = KindIn(o, s) \cup (IF e.kind = s THEN {e} ELSE {})
  BY AppendKinds
<1>2. KindIn(o, "line") = L /\ KindIn(o, "average") = A /\ KindIn(o, "restart") = R
  BY DEF Holds
<1>3. e.kind = "comment" \/ e \notin KindIn(o, e.kind) =>
        \A i, j \in DOMAIN n : n[i] = n[j] /\ n[i].kind # "comment" => i = j
  BY OnceMore DEF Holds
<1> HIDE DEF n
<1>4. CASE e.kind = "line"
  <2>1. KindIn(n, "line") = L \cup {e} /\ KindIn(n, "average") = A /\ KindIn(n, "restart") = R
    BY <1>1, <1>2, <1>4
  <2> QED
    BY <1>2, <1>3, <1>4, <2>1 DEF Holds, n
<1>5. CASE e.kind = "average"
  <2>1. KindIn(n, "line") = L /\ KindIn(n, "average") = A \cup {e} /\ KindIn(n, "restart") = R
    BY <1>1, <1>2, <1>5
  <2> QED
    BY <1>2, <1>3, <1>5, <2>1 DEF Holds, n
<1>6. CASE e.kind = "restart"
  <2>1. KindIn(n, "line") = L /\ KindIn(n, "average") = A /\ KindIn(n, "restart") = R \cup {e}
    BY <1>1, <1>2, <1>6
  <2> QED
    BY <1>2, <1>3, <1>6, <2>1 DEF Holds, n
<1>7. CASE e.kind = "comment"
  <2>1. KindIn(n, "line") = L /\ KindIn(n, "average") = A /\ KindIn(n, "restart") = R
    BY <1>1, <1>2, <1>7
  <2> QED
    BY <1>2, <1>3, <1>7, <2>1 DEF Holds, n
<1> QED
  BY <1>4, <1>5, <1>6, <1>7 DEF Entry, n

\* A special record is displayed if it is in the period.
LEMMA AddShown ==
  ASSUME TypeOK, NEW L, NEW A, NEW k \in Nat, k \in 1..whole, ~Stats(k)
  PROVE  /\ Holds(out, L, A, RestartsTo(k)) => Holds(Shown(k), L, A, RestartsTo(k + 1))
         /\ \A R : Rec(k).type = "comment" /\ Holds(out, L, A, R) => Holds(Shown(k), L, A, R)
<1>1. out \in Seq(Entry) /\ IsCase(job) /\ k \in 1..Len(job.file)
  BY Recorded, TypeParts DEF Control
<1>2. Rec(k).type \in {"restart", "comment"}
  BY <1>1, RecType DEF Stats
<1>3. Special(k) \in Entry /\ Special(k).kind = Rec(k).type /\ Special(k).from = k
  BY <1>2 DEF Special, Entry
<1>4. Restarts \subseteq Nat /\ \A r \in Restarts : Special(r).from = r
  BY Recorded DEF Special
<1>5. k \in Restarts <=> Rec(k).type = "restart"
  BY DEF Restarts, Records
<1> DEFINE R == { i \in Restarts : InRange(i) /\ i < k }
           Q == { i \in Restarts : InRange(i) /\ i < k + 1 }
<1>6. \A i \in Restarts : i < k + 1 <=> (i < k \/ i = k)
  BY <1>4
<1>7. ASSUME NEW e PROVE e \in RestartsTo(k + 1) <=> e \in RestartsTo(k) \/ (k \in Restarts /\ InRange(k) /\ e = Special(k))
  <2>1. e \in RestartsTo(k + 1) <=> \E r \in Restarts : InRange(r) /\ r < k + 1 /\ e = Special(r)
    BY Zenon DEF RestartsTo
  <2>2. e \in RestartsTo(k) <=> \E r \in Restarts : InRange(r) /\ r < k /\ e = Special(r)
    BY Zenon DEF RestartsTo
  <2> QED
    BY <1>6, <2>1, <2>2, Zenon
<1>8. Special(k) \notin RestartsTo(k)
  <2>1. \A e \in RestartsTo(k) : \E r \in Restarts : r < k /\ e = Special(r)
    BY Zenon DEF RestartsTo
  <2> QED
    BY <1>3, <1>4, <2>1
<1>9. CASE k \in Restarts /\ InRange(k)
  <2>1. RestartsTo(k + 1) = RestartsTo(k) \cup {Special(k)}
    BY <1>7, <1>9
  <2> QED
    BY <1>1, <1>3, <1>5, <1>8, <1>9, <2>1, AddLine DEF Shown
<1>10. CASE ~(k \in Restarts /\ InRange(k))
  <2>1. RestartsTo(k + 1) = RestartsTo(k)
    BY <1>7, <1>10, Zenon
  <2>2. CASE InRange(k)
    <3>1. Rec(k).type = "comment"
      BY <1>2, <1>5, <1>10, <2>2
    <3> QED
      BY <1>1, <1>3, <2>1, <2>2, <3>1, AddLine DEF Shown
  <2>3. CASE ~InRange(k)
    BY <2>1, <2>3 DEF Shown
  <2> QED
    BY <2>2, <2>3
<1>11. ASSUME NEW R1, Rec(k).type = "comment", Holds(out, L, A, R1) PROVE Holds(Shown(k), L, A, R1)
  BY <1>1, <1>3, <1>11, AddLine DEF Shown
<1> QED
  BY <1>9, <1>10, <1>11

-----------------------------------------------------------------------------
(* Bases and what is displayed from them. *)

LEMMA BaseIs ==
  ASSUME TypeOK, NEW b \in Bases
  PROVE  b \in Samples /\ b \in 1..whole /\ b \in Nat /\ Stats(b) /\ Inside(b)
BY Recorded DEF Bases, Samples

\* A boot has one base only.
LEMMA BaseAlone ==
  ASSUME TypeOK, NEW b \in Bases, NEW c \in Bases, b < c, NEW q \in Nat, q <= whole, c <= q
  PROVE  ~Quiet(b, q)
<1>1. b \in Nat /\ c \in Nat /\ b \in Samples /\ Inside(b) /\ whole \in Nat /\ c \in 0..whole
  BY BaseIs, Recorded
<1>2. ~SameBoot(b, c)
  BY <1>1 DEF Bases
<1>3. ~Quiet(b, c)
  BY <1>1, <1>2, BootQuiet
<1> QED
  BY <1>1, <1>3, QuietPart

\* The lines from a base are over before the next base.
LEMMA ChosenBefore ==
  ASSUME TypeOK, NEW a, NEW b \in Bases, NEW c \in Bases, b < c, NEW k \in Chosen(a, b)
  PROVE  k < c
<1>1. b \in Nat /\ c \in Nat /\ k \in Nat /\ k \in 0..whole /\ whole \in Nat /\ c <= whole
  BY BaseIs, ChosenIs, Recorded
<1>2. Quiet(b, k)
  BY <1>1, ChosenIs, BootQuiet DEF Fits
<1>3. ~(c <= k)
  BY <1>1, <1>2, BaseAlone
<1> QED
  BY <1>1, <1>3

\* The first sample of the period since a restart is a base.
LEMMA NewBase ==
  ASSUME TypeOK, NEW p \in Samples, NoBase(p), Inside(p)
  PROVE  p \in Bases
<1>1. p \in Nat /\ p \in 0..whole /\ Samples \subseteq Nat
  BY Recorded
<1> SUFFICES ASSUME NEW i \in Samples, i < p, Inside(i) PROVE ~SameBoot(i, p)
  BY DEF Bases
<1>2. i \in 1..(p - 1) /\ Stats(i) /\ i \in Nat
  BY <1>1, Recorded DEF Samples
<1>3. ~Quiet(i, p - 1)
  BY <1>2 DEF NoBase
<1>4. ~Quiet(i, p)
  BY <1>1, <1>2, <1>3, QuietPart
<1> QED
  BY <1>1, <1>2, <1>4, BootQuiet

LEMMA NoBaseNext ==
  ASSUME TypeOK, NEW p \in 1..whole, NoBase(p), ~(Stats(p) /\ Inside(p))
  PROVE  NoBase(p + 1) /\ BasesTo(p + 1) = BasesTo(p)
<1>1. p \in Nat /\ whole \in Nat /\ p + 1 - 1 = p
  BY Recorded
<1>2. ASSUME NEW i \in 1..p, Stats(i), Inside(i) PROVE ~Quiet(i, p)
  <2>1. i \in 1..(p - 1) /\ i \in Nat
    BY <1>1, <1>2
  <2>2. ~Quiet(i, p - 1)
    BY <1>2, <2>1 DEF NoBase
  <2> QED
    BY <1>1, <2>1, <2>2, QuietPart
<1>3. p \notin Bases
  BY BaseIs
<1>4. \A b \in Bases : b < p + 1 <=> (b < p \/ b = p)
  BY <1>1, BaseIs
<1>5. BasesTo(p + 1) = BasesTo(p)
  BY <1>3, <1>4 DEF BasesTo
<1> QED
  BY <1>1, <1>2, <1>5 DEF NoBase

LEMMA SameRestarts ==
  ASSUME TypeOK, NEW p \in 1..whole, Stats(p)
  PROVE  RestartsTo(p + 1) = RestartsTo(p)
<1>1. \A r \in Restarts : r < p + 1 <=> r < p
  BY Recorded DEF Restarts, Stats
<1>2. \A e : e \in RestartsTo(p + 1) <=> e \in RestartsTo(p)
  BY <1>1, Zenon DEF RestartsTo
<1> QED
  BY <1>2, Zenon

\* A segment that ends at a restart.
LEMMA EndAtRestart ==
  ASSUME TypeOK, NEW b \in Bases, NEW p \in Nat, p - 1 \in 1..whole, b < p - 1,
         Rec(p - 1).type = "restart", Quiet(b, p - 2)
  PROVE  /\ NoBase(p) /\ BasesTo(p) = BasesTo(b) \cup {b} /\ RestartsTo(p - 1) = RestartsTo(b)
         /\ \A a : FitsTo(a, b, p) = Fits(a, b)
<1>1. b \in Nat /\ Stats(b) /\ whole \in Nat /\ p - 1 \in Nat /\ p - 2 \in Nat /\ b <= p - 2
  BY BaseIs, Recorded
<1>2. NoBase(p)
  <2> SUFFICES ASSUME NEW i \in 1..(p - 1), Stats(i) PROVE ~Quiet(i, p - 1)
    BY DEF NoBase
  <2>1. i # p - 1
    BY DEF Stats
  <2>2. p - 1 \in (i + 1)..(p - 1)
    BY <1>1, <2>1
  <2> QED
    BY <2>2 DEF Quiet
<1>3. ASSUME NEW c \in Bases PROVE c < p <=> c < b \/ c = b
  <2>1. c \in Nat /\ Stats(c)
    BY BaseIs
  <2>2. c # p - 1
    BY <2>1 DEF Stats
  <2>3. ~(b < c /\ c <= p - 2)
    BY <1>1, BaseAlone
  <2> QED
    BY <1>1, <2>1, <2>2, <2>3
<1>4. BasesTo(p) = BasesTo(b) \cup {b}
  BY <1>3 DEF BasesTo
<1>5. ASSUME NEW r \in Restarts PROVE r < p - 1 <=> r < b
  <2>1. r \in Nat /\ Rec(r).type = "restart" /\ r # b
    BY <1>1, Recorded DEF Restarts, Stats
  <2>2. ~(r \in (b + 1)..(p - 2))
    BY <2>1 DEF Quiet
  <2> QED
    BY <1>1, <2>1, <2>2
<1>6. RestartsTo(p - 1) = RestartsTo(b)
  <2>1. \A e : e \in RestartsTo(p - 1) <=> e \in RestartsTo(b)
    BY <1>5, Zenon DEF RestartsTo
  <2> QED
    BY <2>1, Zenon
<1>7. ASSUME NEW a PROVE FitsTo(a, b, p) = Fits(a, b)
  <2> SUFFICES ASSUME NEW k \in Fits(a, b) PROVE k < p
    BY DEF FitsTo
  <2>4. k \in 1..whole
    BY ChosenIs
  <2>5. SameBoot(b, k)
    BY DEF Fits
  <2>1. k \in 0..whole /\ k \in Nat /\ SameBoot(b, k)
    BY <1>1, <2>4, <2>5
  <2>2. Quiet(b, k)
    BY <1>1, <2>1, BootQuiet
  <2>3. ~(p - 1 \in (b + 1)..k)
    BY <2>2 DEF Quiet
  <2> QED
    BY <1>1, <2>1, <2>3
<1> QED
  BY <1>2, <1>4, <1>6, <1>7

\* A segment that ends with the file.
LEMMA EndAtFile ==
  ASSUME TypeOK, NEW b \in Bases, NEW p \in Nat, p > heads, Quiet(b, p - 1)
  PROVE  /\ Bases = BasesTo(b) \cup {b} /\ DoneRestarts = RestartsTo(b)
         /\ \A a : FitsTo(a, b, p) = Fits(a, b)
<1>1. b \in Nat /\ Stats(b) /\ whole \in Nat /\ heads \in Nat /\ whole < p /\ b <= whole
  BY BaseIs, Recorded
<1>2. Quiet(b, whole)
  BY <1>1, QuietPart
<1>3. ASSUME NEW c \in Bases PROVE c < b \/ c = b
  <2>1. c \in Nat /\ c <= whole
    BY BaseIs
  <2>2. ~(b < c)
    BY <1>1, <1>2, <2>1, BaseAlone
  <2> QED
    BY <1>1, <2>1, <2>2
<1>4. Bases = BasesTo(b) \cup {b}
  BY <1>3 DEF BasesTo
<1>5. ASSUME NEW r \in Restarts PROVE r < b
  <2>1. r \in Nat /\ r <= whole /\ Rec(r).type = "restart" /\ r # b
    BY <1>1, Recorded DEF Restarts, Stats
  <2>2. ~(r \in (b + 1)..whole)
    BY <1>2, <2>1 DEF Quiet
  <2> QED
    BY <1>1, <2>1, <2>2
<1>6. DoneRestarts = RestartsTo(b)
  <2>1. \A e : e \in DoneRestarts <=> e \in RestartsTo(b)
    BY <1>5, Zenon DEF RestartsTo, DoneRestarts
  <2> QED
    BY <2>1, Zenon
<1>7. ASSUME NEW a PROVE FitsTo(a, b, p) = Fits(a, b)
  <2> SUFFICES ASSUME NEW k \in Fits(a, b) PROVE k < p
    BY DEF FitsTo
  <2> QED
    BY <1>1, ChosenIs
<1> QED
  BY <1>4, <1>6, <1>7

-----------------------------------------------------------------------------
(* What is displayed when records are read, and when activities are over. *)

\* e is a line, or the average, of activity a from base b.
IsLine(e, a, b) == \E k \in Samples : k \in Chosen(a, b) /\ e = LineAt(a, b, k)
IsAvg(e, a, b) == Chosen(a, b) # {} /\ e = AvgAt(a, b)

LEMMA Member ==
  /\ \A A, B, e : e \in AllLines(A, B) <=> \E a \in A, b \in B : IsLine(e, a, b)
  /\ \A A, B, e : e \in AllAvgs(A, B) <=> \E a \in A, b \in B : IsAvg(e, a, b)
<1>1. ASSUME NEW A, NEW B, NEW e PROVE e \in AllLines(A, B) <=> \E a \in A, b \in B : IsLine(e, a, b)
  <2>1. e \in AllLines(A, B) <=> \E a \in A, b \in B, k \in Samples : k \in Chosen(a, b) /\ e = LineAt(a, b, k)
    BY LinesMember
  <2> QED
    BY <2>1, Zenon DEF IsLine
<1>2. ASSUME NEW A, NEW B, NEW e PROVE e \in AllAvgs(A, B) <=> \E a \in A, b \in B : IsAvg(e, a, b)
  <2>1. e \in AllAvgs(A, B) <=> \E a \in A, b \in B : Chosen(a, b) # {} /\ e = AvgAt(a, b)
    BY LinesMember
  <2> QED
    BY <2>1, Zenon DEF IsAvg
<1> QED
  BY <1>1, <1>2

Joins(D, B, C) == D = B \cup C

LEMMA UnionLists ==
  ASSUME NEW A, NEW B, NEW C, NEW D, Joins(D, B, C)
  PROVE  /\ AllLines(A, D) = AllLines(A, B) \cup AllLines(A, C)
         /\ AllLines(D, A) = AllLines(B, A) \cup AllLines(C, A)
         /\ AllAvgs(A, D) = AllAvgs(A, B) \cup AllAvgs(A, C)
         /\ AllAvgs(D, A) = AllAvgs(B, A) \cup AllAvgs(C, A)
<1>1. ASSUME NEW X, NEW Y, NEW e
      PROVE  /\ e \in AllLines(X, Y) <=> \E a \in X, b \in Y : IsLine(e, a, b)
             /\ e \in AllAvgs(X, Y) <=> \E a \in X, b \in Y : IsAvg(e, a, b)
  BY Member, Zenon
<1>6. \A x : x \in D <=> x \in B \/ x \in C
  BY DEF Joins
<1>2. ASSUME NEW e PROVE e \in AllLines(A, D) <=> e \in AllLines(A, B) \cup AllLines(A, C)
  BY <1>1, <1>6, Zenon
<1>3. ASSUME NEW e PROVE e \in AllLines(D, A) <=> e \in AllLines(B, A) \cup AllLines(C, A)
  BY <1>1, <1>6, Zenon
<1>4. ASSUME NEW e PROVE e \in AllAvgs(A, D) <=> e \in AllAvgs(A, B) \cup AllAvgs(A, C)
  BY <1>1, <1>6, Zenon
<1>5. ASSUME NEW e PROVE e \in AllAvgs(D, A) <=> e \in AllAvgs(B, A) \cup AllAvgs(C, A)
  BY <1>1, <1>6, Zenon
<1> QED
  BY <1>2, <1>3, <1>4, <1>5, Zenon

LEMMA UnionPasses ==
  ASSUME NEW B, NEW D, NEW E, NEW C, Joins(D, B, C)
  PROVE  /\ AllLines(D, E) = AllLines(B, E) \cup AllLines(C, E)
         /\ AllAvgs(D, E) = AllAvgs(B, E) \cup AllAvgs(C, E)
BY ONLY UnionLists, Joins(D, B, C)

LEMMA NoLists ==
  ASSUME NEW B
  PROVE  AllLines({}, B) = {} /\ AllAvgs({}, B) = {}
BY Member

LEMMA FirstLists ==
  ASSUME TypeOK, NEW b \in Bases, NEW n
  PROVE  /\ LinesAt(n, b, b + 1) = EarlierLines(b) \cup AllLines(1..(n - 1), {b})
         /\ LinesAt(1, b, b + 1) = EarlierLines(b) /\ AvgsAt(1, b) = EarlierAvgs(b)
<1>1. b \in Nat
  BY BaseIs
<1>2. ASSUME NEW m PROVE LinesTo(m, b, b + 1) = {}
  <2>1. \A k \in Chosen(m, b) : k \in Nat /\ b < k
    BY ChosenIs
  <2>2. ChosenTo(m, b, b + 1) = {}
    BY <1>1, <2>1 DEF ChosenTo
  <2> QED
    BY <2>2 DEF LinesTo
<1>3. 1..(1 - 1) = {}
  OBVIOUS
<1> QED
  BY <1>2, <1>3, NoLists DEF LinesAt, AvgsAt

LEMMA NextLists ==
  ASSUME TypeOK, NEW b \in Bases, NEW n \in Pass, NEW p, \A k \in Chosen(n, b) : k < p
  PROVE  /\ AllLines(1..n, {b}) = AllLines(1..(n - 1), {b}) \cup LinesTo(n, b, p)
         /\ AllAvgs(1..n, {b}) = AllAvgs(1..(n - 1), {b}) \cup (IF Chosen(n, b) # {} THEN {AvgAt(n, b)} ELSE {})
<1>1. 1..n = (1..(n - 1)) \cup {n}
  BY DEF Pass
<1>2. Chosen(n, b) \subseteq Samples
  BY ChosenIs
<1>3. \A e : e \in LinesTo(n, b, p) <=> \E k \in Chosen(n, b) : k < p /\ e = LineAt(n, b, k)
  BY Zenon DEF LinesTo, ChosenTo
<1>4. \A e : e \in AllLines({n}, {b}) <=> e \in LinesTo(n, b, p)
  <2>1. \A e : e \in AllLines({n}, {b}) <=> IsLine(e, n, b)
    BY Member
  <2> QED
    BY <1>2, <1>3, <2>1 DEF IsLine
<1>5. \A e : e \in AllAvgs({n}, {b}) <=> Chosen(n, b) # {} /\ e = AvgAt(n, b)
  <2>1. \A e : e \in AllAvgs({n}, {b}) <=> IsAvg(e, n, b)
    BY Member
  <2> QED
    BY <2>1 DEF IsAvg
<1> DEFINE I == 1..(n - 1)
           J == 1..n
           o == {n}
           B == {b}
<1>9. Joins(J, I, o)
  BY <1>1 DEF Joins
<1> HIDE DEF I, J, o, B
<1>6. /\ AllLines(J, B) = AllLines(I, B) \cup AllLines(o, B)
      /\ AllAvgs(J, B) = AllAvgs(I, B) \cup AllAvgs(o, B)
  BY ONLY <1>9, UnionPasses
<1>7. AllLines({n}, {b}) = LinesTo(n, b, p)
  BY <1>4
<1>8. AllAvgs({n}, {b}) = IF Chosen(n, b) # {} THEN {AvgAt(n, b)} ELSE {}
  BY <1>5
<1> QED
  BY <1>6, <1>7, <1>8, Zenon DEF I, J, o, B

LEMMA OverLists ==
  ASSUME TypeOK, NEW b \in Bases, NEW n \in Pass, NEW p, \A k \in Chosen(n, b) : k < p
  PROVE  LET avgs == AvgsAt(n, b) \cup (IF Chosen(n, b) # {} THEN {AvgAt(n, b)} ELSE {})
         IN  /\ LinesAt(n + 1, b, b + 1) = LinesAt(n, b, p) /\ AvgsAt(n + 1, b) = avgs
             /\ n = NrPass => SegmentLines(b) = LinesAt(n, b, p) /\ SegmentAvgs(b) = avgs
<1> DEFINE one == IF Chosen(n, b) # {} THEN {AvgAt(n, b)} ELSE {}
           m == n + 1
<1>1. m - 1 = n
  BY DEF Pass
<1> HIDE DEF one, m
<1>2. LinesAt(m, b, b + 1) = EarlierLines(b) \cup AllLines(1..(m - 1), {b})
  BY FirstLists
<1>3. AvgsAt(m, b) = EarlierAvgs(b) \cup AllAvgs(1..(m - 1), {b})
  BY Zenon DEF AvgsAt
<1>4. n = NrPass => 1..n = Pass
  BY DEF Pass
<1>5. /\ AllLines(1..n, {b}) = AllLines(1..(n - 1), {b}) \cup LinesTo(n, b, p)
      /\ AllAvgs(1..n, {b}) = AllAvgs(1..(n - 1), {b}) \cup one
  BY NextLists DEF one
<1>6. EarlierLines(b) \cup AllLines(1..n, {b}) = LinesAt(n, b, p)
  BY <1>5 DEF LinesAt
<1>7. EarlierAvgs(b) \cup AllAvgs(1..n, {b}) = AvgsAt(n, b) \cup one
  BY <1>5 DEF AvgsAt
<1>8. LinesAt(m, b, b + 1) = LinesAt(n, b, p) /\ AvgsAt(m, b) = AvgsAt(n, b) \cup one
  BY <1>1, <1>2, <1>3, <1>6, <1>7, Zenon
<1>9. n = NrPass => SegmentLines(b) = LinesAt(n, b, p) /\ SegmentAvgs(b) = AvgsAt(n, b) \cup one
  BY <1>4, <1>6, <1>7, Zenon DEF SegmentLines, SegmentAvgs
<1> QED
  BY <1>8, <1>9, Zenon DEF m, one

LEMMA SegmentLists ==
  ASSUME TypeOK, NEW b \in Bases
  PROVE  /\ \A p : BasesTo(p) = BasesTo(b) \cup {b} => EarlierLines(p) = SegmentLines(b) /\ EarlierAvgs(p) = SegmentAvgs(b)
         /\ Bases = BasesTo(b) \cup {b} => DoneLines = SegmentLines(b) /\ DoneAvgs = SegmentAvgs(b)
<1>1. /\ AllLines(Pass, BasesTo(b) \cup {b}) = SegmentLines(b)
      /\ AllAvgs(Pass, BasesTo(b) \cup {b}) = SegmentAvgs(b)
  <2> DEFINE B == BasesTo(b)
             o == {b}
             D == B \cup o
  <2>1. Joins(D, B, o)
    BY DEF Joins
  <2> HIDE DEF B, o, D
  <2>2. /\ AllLines(Pass, D) = AllLines(Pass, B) \cup AllLines(Pass, o)
        /\ AllAvgs(Pass, D) = AllAvgs(Pass, B) \cup AllAvgs(Pass, o)
    BY <2>1, UnionLists
  <2> QED
    BY <2>2, Zenon DEF EarlierLines, EarlierAvgs, SegmentLines, SegmentAvgs, B, o, D
<1> QED
  BY <1>1, Zenon DEF EarlierLines, EarlierAvgs, DoneLines, DoneAvgs

\* A line, and an average, that was not displayed yet.
LEMMA LineIsNew ==
  ASSUME TypeOK, NEW b \in Bases, NEW n \in Pass, NEW p \in Nat, b < p
  PROVE  LineAt(n, b, p) \notin LinesAt(n, b, p) /\ AvgAt(n, b) \notin AvgsAt(n, b)
<1>1. b \in Nat
  BY BaseIs
<1>2. \A a, c, k : LineAt(a, c, k).to = k /\ LineAt(a, c, k).pass = a /\ AvgAt(a, c).from = c /\ AvgAt(a, c).pass = a
  BY DEF LineAt, AvgAt
<1>3. LineAt(n, b, p) \notin EarlierLines(b)
  <2> SUFFICES ASSUME NEW a \in Pass, NEW c \in BasesTo(b), NEW k \in Chosen(a, c), LineAt(n, b, p) = LineAt(a, c, k)
               PROVE  FALSE
    BY Member DEF EarlierLines, IsLine
  <2>1. k = p /\ c \in Bases /\ c < b
    BY <1>2 DEF BasesTo
  <2>2. k < b
    BY <2>1, ChosenBefore
  <2> QED
    BY <1>1, <2>1, <2>2
<1> DEFINE I == 1..(n - 1)
<1>8. n \notin I
  BY DEF Pass
<1> HIDE DEF I
<1>4. LineAt(n, b, p) \notin AllLines(I, {b})
  <2>1. LineAt(n, b, p) \in AllLines(I, {b}) => \E a \in I, c \in {b} : IsLine(LineAt(n, b, p), a, c)
    <3> DEFINE e == LineAt(n, b, p)
               o == {b}
    <3> HIDE DEF e, o
    <3>1. e \in AllLines(I, o) => \E a \in I, c \in o : IsLine(e, a, c)
      BY ONLY Member
    <3> QED
      BY <3>1 DEF e, o
  <2>2. ASSUME NEW a \in I, NEW c, NEW k PROVE LineAt(n, b, p) # LineAt(a, c, k)
    <3>1. LineAt(n, b, p).pass = n /\ LineAt(a, c, k).pass = a
      BY <1>2
    <3>2. a # n
      BY <1>8
    <3> QED
      BY <3>1, <3>2, Zenon
  <2> QED
    BY <2>1, <2>2, Zenon DEF IsLine
<1>5. LineAt(n, b, p) \notin LinesTo(n, b, p)
  <2> SUFFICES ASSUME NEW k, k < p, LineAt(n, b, p) = LineAt(n, b, k) PROVE FALSE
    BY Zenon DEF LinesTo, ChosenTo
  <2>1. k = p
    BY <1>2
  <2> QED
    BY <2>1
<1>6. AvgAt(n, b) \notin EarlierAvgs(b)
  <2> SUFFICES ASSUME NEW a \in Pass, NEW c \in BasesTo(b), AvgAt(n, b) = AvgAt(a, c) PROVE FALSE
    BY Member DEF EarlierAvgs, IsAvg
  <2>1. c = b /\ c < b
    BY <1>2 DEF BasesTo
  <2> QED
    BY <1>1, <2>1
<1>7. AvgAt(n, b) \notin AllAvgs(I, {b})
  <2>1. AvgAt(n, b) \in AllAvgs(I, {b}) => \E a \in I, c \in {b} : IsAvg(AvgAt(n, b), a, c)
    <3> DEFINE e == AvgAt(n, b)
               o == {b}
    <3> HIDE DEF e, o
    <3>1. e \in AllAvgs(I, o) => \E a \in I, c \in o : IsAvg(e, a, c)
      BY ONLY Member
    <3> QED
      BY <3>1 DEF e, o
  <2>2. ASSUME NEW a \in I, NEW c PROVE AvgAt(n, b) # AvgAt(a, c)
    <3>1. AvgAt(n, b).pass = n /\ AvgAt(a, c).pass = a
      BY <1>2
    <3>2. a # n
      BY <1>8
    <3> QED
      BY <3>1, <3>2, Zenon
  <2> QED
    BY <2>1, <2>2, Zenon DEF IsAvg
<1> QED
  BY <1>3, <1>4, <1>5, <1>6, <1>7, Zenon DEF LinesAt, AvgsAt, I

LEMMA MoreLines ==
  ASSUME TypeOK, NEW b \in Nat, NEW n, NEW p \in Nat
  PROVE  /\ p \notin Chosen(n, b) => LinesAt(n, b, p + 1) = LinesAt(n, b, p)
         /\ p \in Chosen(n, b) => LinesAt(n, b, p + 1) = LinesAt(n, b, p) \cup {LineAt(n, b, p)}
<1>1. Chosen(n, b) \subseteq Nat
  BY ChosenIs
<1>2. \A k \in Chosen(n, b) : k < p + 1 <=> (k < p \/ k = p)
  BY <1>1
<1>3. \A x : x \in ChosenTo(n, b, p + 1) <=> x \in ChosenTo(n, b, p) \/ (x = p /\ p \in Chosen(n, b))
  BY <1>2, Zenon DEF ChosenTo
<1>4. \A q, e : e \in LinesTo(n, b, q) <=> \E k \in ChosenTo(n, b, q) : e = LineAt(n, b, k)
  BY Zenon DEF LinesTo
<1>5. \A e : e \in LinesTo(n, b, p + 1) <=> e \in LinesTo(n, b, p) \/ (p \in Chosen(n, b) /\ e = LineAt(n, b, p))
  <2> SUFFICES ASSUME NEW e
               PROVE  e \in LinesTo(n, b, p + 1) <=> e \in LinesTo(n, b, p) \/ (p \in Chosen(n, b) /\ e = LineAt(n, b, p))
    OBVIOUS
  <2> DEFINE q == p + 1
  <2> HIDE DEF q
  <2>1. e \in LinesTo(n, b, q) <=> \E k \in ChosenTo(n, b, q) : e = LineAt(n, b, k)
    BY <1>4
  <2>2. e \in LinesTo(n, b, p) <=> \E k \in ChosenTo(n, b, p) : e = LineAt(n, b, k)
    BY <1>4
  <2>3. \A x : x \in ChosenTo(n, b, q) <=> x \in ChosenTo(n, b, p) \/ (x = p /\ p \in Chosen(n, b))
    BY <1>3 DEF q
  <2>4. e \in LinesTo(n, b, q) <=> e \in LinesTo(n, b, p) \/ (p \in Chosen(n, b) /\ e = LineAt(n, b, p))
    BY <2>1, <2>2, <2>3, Zenon
  <2> QED
    BY <2>4 DEF q
<1> QED
  BY <1>5 DEF LinesAt

-----------------------------------------------------------------------------
(* What a step should establish. *)

\* A step that leaves the file alone: what these are of the values after it.
LEMMA PrimedFirst ==
  ASSUME SameFile, NEW p
  PROVE  AtFirst(p)' <=> Holds(out', EarlierLines(p), EarlierAvgs(p), RestartsTo(p)) /\ NoBase(p)
<1>1. NoBase(p)' <=> NoBase(p)
  BY SameRecords, Zenon DEF NoBase
<1>2. EarlierLines(p)' = EarlierLines(p) /\ EarlierAvgs(p)' = EarlierAvgs(p) /\ RestartsTo(p)' = RestartsTo(p)
  BY SameLists
<1> QED
  BY <1>1, <1>2, Zenon DEF AtFirst

LEMMA PrimedBased ==
  ASSUME SameFile
  PROVE  /\ \A b, p : Based(b, p)' <=> Based(b, p)
         /\ \A b : KeptBase(b)' <=> hdr'[2] = b /\ fpos' = b + 1
         /\ \A b, p, q : Previous(b, p, q)' <=> Previous(b, p, q)
<1>1. \A b, p : Based(b, p)' <=> Based(b, p)
  BY SameRecords, SameChosen, Zenon DEF Based
<1>2. \A b : KeptBase(b)' <=> hdr'[2] = b /\ fpos' = b + 1
  BY Zenon DEF KeptBase
<1>3. Samples' = Samples
  BY SameRecords
<1>4. \A b, p, q : Previous(b, p, q)' <=> Previous(b, p, q)
  BY <1>3, Zenon DEF Previous
<1> QED
  BY <1>1, <1>2, <1>4, Zenon

LEMMA PrimedBegin ==
  ASSUME SameFile, NEW b, NEW n
  PROVE  AtBegin(b, n)' <=>
           /\ Based(b, b + 1) /\ hdr'[2] = b /\ fpos' = b + 1 /\ reset'
           /\ Holds(out', LinesAt(n, b, b + 1), AvgsAt(n, b), RestartsTo(b))
<1>1. LinesAt(n, b, b + 1)' = LinesAt(n, b, b + 1) /\ AvgsAt(n, b)' = AvgsAt(n, b) /\ RestartsTo(b)' = RestartsTo(b)
  BY SameLists
<1>2. (Based(b, b + 1)' <=> Based(b, b + 1)) /\ (KeptBase(b)' <=> hdr'[2] = b /\ fpos' = b + 1)
  BY PrimedBased
<1> QED
  BY <1>1, <1>2, Zenon DEF AtBegin

LEMMA PrimedLine ==
  ASSUME SameFile, NEW b, NEW n, NEW p
  PROVE  AtLine(b, n, p)' <=>
           /\ Based(b, p) /\ hdr'[2] = b /\ fpos' = b + 1 /\ hdr'[1 - curr'] \in b..(p - 1)
           /\ Holds(out', LinesAt(n, b, p), AvgsAt(n, b), RestartsTo(b))
           /\ LastOf(FitsTo(n, b, p), b, buf'[1 - curr'])
           /\ davg' > 0 <=> FitsTo(n, b, p) # {}
           /\ IF job.count = Unset THEN cnt' = Unset ELSE cnt' > 0 /\ cnt' = job.count - Cardinality(FitsTo(n, b, p))
           /\ \E q \in b..(p - 1) : Previous(b, p, q) /\ IF reset' THEN q = b ELSE last_uptime' = Rec(q).up
<1>1. /\ LinesAt(n, b, p)' = LinesAt(n, b, p) /\ AvgsAt(n, b)' = AvgsAt(n, b) /\ RestartsTo(b)' = RestartsTo(b)
      /\ FitsTo(n, b, p)' = FitsTo(n, b, p)
  BY SameLists
<1>2. (Based(b, p)' <=> Based(b, p)) /\ (KeptBase(b)' <=> hdr'[2] = b /\ fpos' = b + 1)
  BY PrimedBased
<1>3. \A q : Previous(b, p, q)' <=> Previous(b, p, q)
  BY PrimedBased
<1>4. job' = job /\ \A q : Rec(q)' = Rec(q)
  BY SameRecords DEF SameFile
<1> QED
  BY <1>1, <1>2, <1>3, <1>4, Zenon DEF AtLine

LEMMA PrimedSegmentEnd ==
  ASSUME SameFile, heads' = heads, NEW b, NEW p
  PROVE  /\ SegmentEnd(b, p)' <=>
              IF eosaf' THEN p > heads /\ Quiet(b, p - 1)
              ELSE hdr'[curr'] = p - 1 /\ b < p - 1 /\ Rec(p - 1).type = "restart" /\ Quiet(b, p - 2)
         /\ AtSegmentEnd(b, p)' <=>
              /\ b \in Bases
              /\ Holds(out', SegmentLines(b), SegmentAvgs(b), RestartsTo(b))
              /\ IF pc' = "skip" THEN Based(b, p) ELSE SegmentEnd(b, p)'
<1>1. (Quiet(b, p - 1)' <=> Quiet(b, p - 1)) /\ (Quiet(b, p - 2)' <=> Quiet(b, p - 2)) /\ Rec(p - 1)' = Rec(p - 1)
  BY SameRecords
<1>2. SegmentLines(b)' = SegmentLines(b) /\ SegmentAvgs(b)' = SegmentAvgs(b) /\ RestartsTo(b)' = RestartsTo(b)
      /\ Bases' = Bases
  BY SameLists, SameChosen
<1>3. Based(b, p)' <=> Based(b, p)
  BY PrimedBased
<1>4. SegmentEnd(b, p)' <=>
        IF eosaf' THEN p > heads /\ Quiet(b, p - 1)
        ELSE hdr'[curr'] = p - 1 /\ b < p - 1 /\ Rec(p - 1).type = "restart" /\ Quiet(b, p - 2)
  BY <1>1, Zenon DEF SegmentEnd
<1> QED
  BY <1>2, <1>3, <1>4, Zenon DEF AtSegmentEnd

LEMMA PrimedAverage ==
  ASSUME SameFile, heads' = heads, NEW b, NEW n, NEW p
  PROVE  AtAverage(b, n, p)' <=>
           /\ b \in Bases /\ hdr'[2] = b /\ fpos' = b + 1 /\ b < p
           /\ Holds(out', LinesAt(n, b, p), AvgsAt(n, b), RestartsTo(b))
           /\ \A k \in Chosen(n, b) : k < p
           /\ LastOf(Chosen(n, b), b, buf'[1 - curr'])
           /\ davg' > 0 <=> Chosen(n, b) # {}
           /\ IF cnt' = 0 THEN Quiet(b, p - 1) ELSE SegmentEnd(b, p)'
<1>1. /\ LinesAt(n, b, p)' = LinesAt(n, b, p) /\ AvgsAt(n, b)' = AvgsAt(n, b) /\ RestartsTo(b)' = RestartsTo(b)
      /\ Chosen(n, b)' = Chosen(n, b) /\ Bases' = Bases /\ (Quiet(b, p - 1)' <=> Quiet(b, p - 1))
  BY SameLists, SameChosen, SameRecords
<1>2. KeptBase(b)' <=> hdr'[2] = b /\ fpos' = b + 1
  BY PrimedBased
<1> QED
  BY <1>1, <1>2, Zenon DEF AtAverage

LEMMA PrimedDone ==
  ASSUME SameFile
  PROVE  AtDone' <=> Holds(out', DoneLines, DoneAvgs, DoneRestarts)
BY SameLists, Zenon DEF AtDone

-----------------------------------------------------------------------------
(* The steps of sar. *)

Still == SameFile /\ heads' = heads

LEMMA FirstReports ==
  ASSUME TypeOK, Simple, OneDayReport, First
  PROVE  OneDayReport'
<1>1. /\ Still /\ SameFile /\ cross_day' = cross_day /\ pc = "first"
      /\ pos \in Nat /\ pos \in 1..(Len(job.file) + 1) /\ whole \in Nat /\ heads \in Nat /\ whole <= heads
      /\ out \in Seq(Entry) /\ hdr \in [0..2 -> 0..Len(job.file)] /\ buf \in [0..2 -> 0..Len(job.file)]
  <2>1. cross_day' = cross_day
    BY Zenon DEF First, Unexpected, reader
  <2>2. Places /\ Control
    BY TypeParts
  <2> QED
    BY <2>1, <2>2, Recorded DEF First, Still, SameFile, Places, Control
<1>2. AtFirst(pos)
  BY <1>1 DEF OneDayReport, At
<1>3. /\ ~cross_day' /\ SingleDay
  BY <1>1 DEF OneDayReport, Simple
<1>4. CASE pos > heads /\ pc' = "done" /\ UNCHANGED reader
  <2>1. BasesTo(pos) = Bases
    BY <1>1, <1>4, BaseIs DEF BasesTo
  <2>2. EarlierLines(pos) = DoneLines /\ EarlierAvgs(pos) = DoneAvgs
    BY <2>1, Zenon DEF EarlierLines, EarlierAvgs, DoneLines, DoneAvgs
  <2>3. RestartsTo(pos) = DoneRestarts
    <3>1. \A r \in Restarts : r < pos
      BY <1>1, <1>4, Recorded
    <3>2. \A e : e \in RestartsTo(pos) <=> e \in DoneRestarts
      BY <3>1, Zenon DEF RestartsTo, DoneRestarts
    <3> QED
      BY <3>2, Zenon
  <2>4. out' = out
    BY <1>4, Zenon DEF reader
  <2>5. AtDone'
    BY <1>1, <1>2, <2>2, <2>3, <2>4, PrimedDone DEF AtFirst
  <2> QED
    BY <1>3, <1>4, <2>5 DEF OneDayReport, At
<1>5. CASE Unexpected
  <2>1. pc' = "exit"
    BY <1>5, Zenon DEF Unexpected
  <2> QED
    BY <1>3, <2>1 DEF OneDayReport, At
<1>6. CASE pos <= whole /\ ~(pos > heads /\ pc' = "done" /\ UNCHANGED reader) /\ ~Unexpected
  <2>1. pos \in 1..whole /\ pos' = pos + 1
    <3>1. pos' = pos + 1
      BY <1>6, Zenon DEF First
    <3> QED
      BY <1>1, <1>6, <3>1
  <2>2. InRange(pos) <=> Inside(pos)
    BY <1>3, <2>1, DaySelects
  <2>3. out' = IF Stats(pos) THEN out ELSE Shown(pos)
    BY <1>6, Zenon DEF First
  <2>4. CASE Stats(pos) /\ InRange(pos)
    <3>1. /\ hdr' = [hdr EXCEPT ![0] = pos, ![2] = pos] /\ buf' = [buf EXCEPT ![0] = pos, ![2] = pos]
          /\ fpos' = pos + 1 /\ reset' = TRUE /\ pass' = 1 /\ pc' = "begin"
      BY <1>6, <2>4, Zenon DEF First
    <3>2. hdr'[2] = pos /\ buf'[2] = pos
      BY <1>1, <3>1
    <3>3. pos \in Samples
      BY <2>1, <2>4 DEF Samples, Records
    <3>4. pos \in Bases
      BY <1>2, <2>2, <2>4, <3>3, NewBase DEF AtFirst
    <3>5. LinesAt(1, pos, pos + 1) = EarlierLines(pos) /\ AvgsAt(1, pos) = EarlierAvgs(pos)
      BY <3>4, FirstLists
    <3>6. Holds(out', LinesAt(1, pos, pos + 1), AvgsAt(1, pos), RestartsTo(pos))
      BY <1>2, <2>3, <2>4, <3>5 DEF AtFirst
    <3>7. Based(pos, pos + 1)
      BY <2>1, <3>4 DEF Based, Quiet
    <3>8. ASSUME NEW b, b = pos PROVE AtBegin(b, 1)'
      BY <1>1, <3>1, <3>2, <3>6, <3>7, <3>8, PrimedBegin
    <3>9. ASSUME NEW b \in {buf'[2]}, NEW n \in {pass'}, NEW p \in {pos'} PROVE At(b, n, p)'
      <4>1. b = pos /\ n = 1
        BY <3>1, <3>2
      <4> QED
        BY <3>1, <3>8, <4>1, Zenon DEF At
    <3> QED
      BY <1>3, <3>9 DEF OneDayReport
  <2>5. CASE ~(Stats(pos) /\ InRange(pos))
    <3>1. pc' = "first"
      BY <1>1, <1>6, <2>5, Zenon DEF First
    <3>2. NoBase(pos + 1) /\ BasesTo(pos + 1) = BasesTo(pos)
      BY <1>2, <2>1, <2>2, <2>5, NoBaseNext DEF AtFirst
    <3>3. EarlierLines(pos + 1) = EarlierLines(pos) /\ EarlierAvgs(pos + 1) = EarlierAvgs(pos)
      BY <3>2, Zenon DEF EarlierLines, EarlierAvgs
    <3>4. Holds(out', EarlierLines(pos), EarlierAvgs(pos), RestartsTo(pos + 1))
      <4>1. CASE Stats(pos)
        <5>1. RestartsTo(pos + 1) = RestartsTo(pos)
          BY <2>1, <4>1, SameRestarts
        <5> QED
          BY <1>2, <2>3, <4>1, <5>1 DEF AtFirst
      <4>2. CASE ~Stats(pos)
        BY <1>1, <1>2, <2>1, <2>3, <4>2, AddShown DEF AtFirst
      <4> QED
        BY <4>1, <4>2
    <3>5. ASSUME NEW p, p = pos + 1 PROVE AtFirst(p)'
      BY <1>1, <3>2, <3>3, <3>4, <3>5, PrimedFirst
    <3>6. ASSUME NEW b \in {buf'[2]}, NEW n \in {pass'}, NEW p \in {pos'} PROVE At(b, n, p)'
      <4>1. p = pos + 1
        BY <2>1
      <4> QED
        BY <3>1, <3>5, <4>1, Zenon DEF At
    <3> QED
      BY <1>3, <3>6 DEF OneDayReport
  <2> QED
    BY <2>4, <2>5
<1> QED
  BY <1>4, <1>5, <1>6, Zenon DEF First

\* What was displayed before sar goes to another activity, or another segment.
LEMMA StepTo ==
  ASSUME ~cross_day', NEW b, NEW n, NEW p, buf'[2] = b, pass' = n, pos' = p, At(b, n, p)'
  PROVE  OneDayReport'
<1>1. ASSUME NEW x \in {buf'[2]}, NEW y \in {pass'}, NEW z \in {pos'} PROVE At(x, y, z)'
  BY Zenon
<1> QED
  BY <1>1 DEF OneDayReport

LEMMA BeginReports ==
  ASSUME TypeOK, Simple, OneDayReport, Begin
  PROVE  OneDayReport'
<1>1. /\ Still /\ SameFile /\ cross_day' = cross_day /\ pc = "begin" /\ pc' = "line"
      /\ hdr \in [0..2 -> 0..Len(job.file)] /\ buf \in [0..2 -> 0..Len(job.file)] /\ curr \in {0, 1}
      /\ pos' = fpos /\ fpos' = fpos /\ pass' = pass /\ curr' = curr /\ out' = out /\ reset' = reset
      /\ cnt' = job.count /\ davg' = 0
      /\ hdr' = [hdr EXCEPT ![1 - curr] = hdr[2]] /\ buf' = [buf EXCEPT ![1 - curr] = buf[2]]
  BY TypeParts DEF Begin, Still, SameFile, Places
<1>2. AtBegin(buf[2], pass) /\ ~cross_day
  BY <1>1 DEF OneDayReport, At
<1>3. PICK b \in Bases : b = buf[2]
  BY <1>2 DEF AtBegin, Based
<1>4. PICK n : n = pass
  OBVIOUS
<1>5. /\ b \in Nat /\ hdr[2] = b /\ fpos = b + 1 /\ reset /\ Based(b, b + 1)
      /\ Holds(out, LinesAt(n, b, b + 1), AvgsAt(n, b), RestartsTo(b))
  BY <1>2, <1>3, <1>4, BaseIs DEF AtBegin, KeptBase
<1>6. /\ hdr'[2] = b /\ hdr'[1 - curr'] = b /\ buf'[2] = b /\ buf'[1 - curr'] = b
  BY <1>1, <1>3, <1>5
<1>7. FitsTo(n, b, b + 1) = {}
  <2>1. \A k \in FitsTo(n, b, b + 1) : k \in Nat /\ b < k /\ k < b + 1
    BY <1>5, FitsCount
  <2> QED
    BY <1>5, <2>1
<1>8. Previous(b, b + 1, b)
  <2>1. { i \in Samples : b < i /\ i < b + 1 } = {}
    BY <1>5, Recorded
  <2> QED
    BY <2>1, Zenon DEF Previous, LastOf
<1>9. IF job.count = Unset THEN cnt' = Unset ELSE cnt' > 0 /\ cnt' = job.count - Cardinality({})
  BY <1>1, Recorded, FS_EmptySet DEF IsCase
<1>10. ASSUME NEW p, p = b + 1 PROVE AtLine(b, n, p)'
  <2>1. b \in b..(p - 1)
    BY <1>5, <1>10
  <2>2. FitsTo(n, b, p) = {}
    BY <1>7, <1>10
  <2>3. LastOf(FitsTo(n, b, p), b, buf'[1 - curr'])
    BY <1>6, <2>2 DEF LastOf
  <2>4. Based(b, p) /\ hdr'[2] = b /\ fpos' = b + 1 /\ hdr'[1 - curr'] \in b..(p - 1)
    BY <1>1, <1>5, <1>6, <1>10, <2>1
  <2>5. Holds(out', LinesAt(n, b, p), AvgsAt(n, b), RestartsTo(b))
    BY <1>1, <1>5, <1>10
  <2>6. davg' > 0 <=> FitsTo(n, b, p) # {}
    BY <1>1, <2>2
  <2>7. IF job.count = Unset THEN cnt' = Unset ELSE cnt' > 0 /\ cnt' = job.count - Cardinality(FitsTo(n, b, p))
    BY <1>9, <2>2
  <2>8. \E q \in b..(p - 1) : Previous(b, p, q) /\ IF reset' THEN q = b ELSE last_uptime' = Rec(q).up
    BY <1>1, <1>5, <1>8, <1>10, <2>1
  <2> QED
    BY <1>1, <2>3, <2>4, <2>5, <2>6, <2>7, <2>8, PrimedLine
<1>11. PICK p : p = b + 1
  OBVIOUS
<1>12. At(b, n, p)'
  BY <1>1, <1>10, <1>11, Zenon DEF At
<1> QED
  BY <1>1, <1>2, <1>4, <1>5, <1>6, <1>11, <1>12, StepTo

LEMMA AverageReports ==
  ASSUME TypeOK, Simple, OneDayReport, Average
  PROVE  OneDayReport'
<1>1. /\ Still /\ SameFile /\ cross_day' = cross_day /\ pc = "average" /\ pc' = AfterPass
      /\ buf \in [0..2 -> 0..Len(job.file)] /\ curr \in {0, 1} /\ pass \in Pass /\ davg \in Nat /\ out \in Seq(Entry)
      /\ pos \in Nat /\ UNCHANGED << pos, fpos, hdr, buf, curr, cnt, eosaf, davg >> /\ reset' = TRUE
      /\ pass' = IF pass < NrPass THEN pass + 1 ELSE pass
      /\ out' = IF davg > 0 THEN Append(out, Avg(buf[2], buf[1 - curr])) ELSE out
  BY TypeParts DEF Average, Still, SameFile, Places, Control
<1>2. AtAverage(buf[2], pass, pos) /\ ~cross_day
  BY <1>1 DEF OneDayReport, At
<1>3. PICK b \in Bases : b = buf[2]
  BY <1>2 DEF AtAverage
<1>4. PICK n \in Pass, p \in Nat : n = pass /\ p = pos
  BY <1>1
<1> DEFINE m == buf[1 - curr]
           avg == AvgAt(n, b)
<1>5. /\ b \in Nat /\ hdr[2] = b /\ fpos = b + 1 /\ b < p
      /\ Holds(out, LinesAt(n, b, p), AvgsAt(n, b), RestartsTo(b))
      /\ \A k \in Chosen(n, b) : k < p
      /\ LastOf(Chosen(n, b), b, m)
      /\ davg > 0 <=> Chosen(n, b) # {}
      /\ IF cnt = 0 THEN Quiet(b, p - 1) ELSE SegmentEnd(b, p)
  BY <1>2, <1>3, <1>4, BaseIs DEF AtAverage, KeptBase
<1>6. Holds(out', LinesAt(n, b, p), AvgsAt(n, b) \cup (IF Chosen(n, b) # {} THEN {avg} ELSE {}), RestartsTo(b))
  <2>1. CASE davg > 0
    <3>1. Chosen(n, b) \subseteq Nat /\ \A k \in Chosen(n, b) : b < k
      BY ChosenIs
    <3>2. Max(Chosen(n, b)) = m /\ m \in Nat
      BY <1>5, <2>1, <3>1, LastIs
    <3>3. Avg(buf[2], m) = avg
      BY <1>3, <1>4, <3>2 DEF Avg, AvgAt
    <3>4. avg \in Entry /\ avg.kind = "average"
      BY <1>3, <1>4, <1>5, <3>2 DEF Entry, AvgAt
    <3>5. avg \notin AvgsAt(n, b)
      BY <1>5, LineIsNew
    <3>6. out' = Append(out, avg)
      BY <1>1, <2>1, <3>3
    <3> HIDE DEF avg, m
    <3>7. Holds(Append(out, avg), LinesAt(n, b, p), AvgsAt(n, b) \cup {avg}, RestartsTo(b))
      BY <1>1, <1>5, <3>4, <3>5, AddLine
    <3> QED
      BY <1>5, <2>1, <3>6, <3>7
  <2>2. CASE ~(davg > 0)
    BY <1>1, <1>5, <2>2
  <2> QED
    BY <2>1, <2>2
<1> DEFINE avgs == AvgsAt(n, b) \cup (IF Chosen(n, b) # {} THEN {avg} ELSE {})
<1>7. /\ LinesAt(n + 1, b, b + 1) = LinesAt(n, b, p) /\ AvgsAt(n + 1, b) = avgs
      /\ n = NrPass => SegmentLines(b) = LinesAt(n, b, p) /\ SegmentAvgs(b) = avgs
  BY <1>5, OverLists
<1> HIDE DEF m, avg
<1>8. buf'[2] = b /\ pos' = p
  BY <1>1, <1>3, <1>4
<1>9. CASE n < NrPass
  <2>1. pc' = "begin" /\ pass' = n + 1
    BY <1>1, <1>4, <1>9 DEF AfterPass
  <2>2. ASSUME NEW o, o = n + 1 PROVE AtBegin(b, o)'
    <3>1. Based(b, b + 1)
      BY <1>5 DEF Based, Quiet
    <3>2. Holds(out', LinesAt(o, b, b + 1), AvgsAt(o, b), RestartsTo(b))
      BY <1>6, <1>7, <2>2
    <3> QED
      BY <1>1, <1>5, <3>1, <3>2, PrimedBegin
  <2>3. PICK o : o = n + 1
    OBVIOUS
  <2>4. At(b, o, p)'
    BY <2>1, <2>2, <2>3, Zenon DEF At
  <2> QED
    BY <1>1, <1>2, <1>8, <2>1, <2>3, <2>4, StepTo
<1>10. CASE ~(n < NrPass)
  <2>1. n = NrPass
    BY <1>1, <1>4, <1>10, SarReportAssumption DEF Pass
  <2>2. pc' = (IF cnt = 0 THEN "skip" ELSE "restart") /\ pass' = n
    BY <1>1, <1>4, <1>10 DEF AfterPass
  <2>3. Holds(out', SegmentLines(b), SegmentAvgs(b), RestartsTo(b))
    BY <1>6, <1>7, <2>1
  <2>4. cnt = 0 => Based(b, p)
    BY <1>5 DEF Based
  <2>5. cnt # 0 => SegmentEnd(b, p)'
    BY <1>1, <1>5, PrimedSegmentEnd DEF SegmentEnd, Still
  <2>6. AtSegmentEnd(b, p)'
    <3>1. IF pc' = "skip" THEN Based(b, p) ELSE SegmentEnd(b, p)'
      BY <2>2, <2>4, <2>5
    <3> QED
      BY <1>1, <2>3, <3>1, PrimedSegmentEnd DEF Still
  <2>7. At(b, n, p)'
    BY <2>2, <2>6, Zenon DEF At
  <2> QED
    BY <1>1, <1>2, <1>8, <2>2, <2>7, StepTo
<1> QED
  BY <1>9, <1>10

LEMMA SkipReports ==
  ASSUME TypeOK, Simple, OneDayReport, Skip
  PROVE  OneDayReport'
<1>1. /\ Still /\ SameFile /\ cross_day' = cross_day /\ pc = "skip" /\ curr' = curr /\ pass' = pass /\ curr \in {0, 1}
      /\ hdr \in [0..2 -> 0..Len(job.file)] /\ buf \in [0..2 -> 0..Len(job.file)] /\ pos \in Nat /\ pos >= 1
      /\ out \in Seq(Entry) /\ whole \in Nat /\ heads \in Nat /\ whole <= heads
  <2>1. Places /\ Control
    BY TypeParts
  <2>2. /\ job' = job /\ heads' = heads /\ whole' = whole /\ cross_day' = cross_day
        /\ pc = "skip" /\ curr' = curr /\ pass' = pass
    BY Zenon DEF Skip
  <2> QED
    BY <2>1, <2>2, Recorded DEF Still, SameFile, Places, Control
<1>2. AtSegmentEnd(buf[2], pos) /\ ~cross_day
  BY <1>1 DEF OneDayReport, At
<1>3. PICK b \in Bases : b = buf[2]
  BY <1>2 DEF AtSegmentEnd
<1>4. PICK n \in {pass}, p \in Nat : n = pass /\ p = pos
  BY <1>1
<1>5. /\ b \in Nat /\ Based(b, p) /\ b < p /\ Quiet(b, p - 1)
      /\ Holds(out, SegmentLines(b), SegmentAvgs(b), RestartsTo(b))
  BY <1>1, <1>2, <1>3, <1>4, BaseIs DEF AtSegmentEnd, Based
<1>6. buf'[2] = b
  <2>1. buf' \in {buf, [buf EXCEPT ![curr] = pos]}
    BY Zenon DEF Skip, Unexpected, reader
  <2> QED
    BY <1>1, <1>3, <2>1
<1>7. CASE pos > heads /\ eosaf' = TRUE /\ pc' = "restart" /\ UNCHANGED << pos, hdr, buf, out >>
  <2>1. SegmentEnd(b, p)'
    BY <1>1, <1>4, <1>5, <1>7, PrimedSegmentEnd DEF Still
  <2>2. AtSegmentEnd(b, p)'
    BY <1>1, <1>5, <1>7, <2>1, PrimedSegmentEnd DEF Still
  <2>3. At(b, n, p)'
    BY <1>7, <2>2, Zenon DEF At
  <2> QED
    BY <1>1, <1>2, <1>4, <1>6, <1>7, <2>3, StepTo
<1>8. CASE /\ pos <= heads /\ Rec(pos).type = "restart" /\ hdr' = [hdr EXCEPT ![curr] = pos]
           /\ pos' = pos + 1 /\ eosaf' = FALSE /\ pc' = "restart" /\ UNCHANGED << buf, out >>
  <2>1. PICK q : q = p + 1
    OBVIOUS
  <2>2. q - 1 = p /\ q - 2 = p - 1 /\ hdr'[curr'] = p
    BY <1>1, <1>4, <1>8, <2>1
  <2>3. SegmentEnd(b, q)'
    BY <1>1, <1>4, <1>5, <1>8, <2>2, PrimedSegmentEnd DEF Still
  <2>4. AtSegmentEnd(b, q)'
    BY <1>1, <1>5, <1>8, <2>3, PrimedSegmentEnd DEF Still
  <2>5. At(b, n, q)'
    BY <1>8, <2>4, Zenon DEF At
  <2> QED
    BY <1>1, <1>2, <1>4, <1>6, <1>8, <2>1, <2>5, StepTo
<1>9. CASE Unexpected
  <2>1. pc' = "exit" /\ pos' = pos
    BY <1>9, Zenon DEF Unexpected, reader
  <2>2. At(b, n, p)'
    BY <2>1 DEF At
  <2> QED
    BY <1>1, <1>2, <1>4, <1>6, <2>1, <2>2, StepTo
<1>10. CASE /\ pos <= whole /\ Rec(pos).type # "restart" /\ pos' = pos + 1
            /\ out' = (IF Stats(pos) THEN out ELSE Shown(pos)) /\ pc' = pc
  <2>1. PICK q : q = p + 1
    OBVIOUS
  <2>2. Based(b, q)
    <3>1. Quiet(b, p)
      BY <1>4, <1>5, <1>10, QuietNext
    <3> QED
      BY <1>5, <2>1, <3>1 DEF Based
  <2>3. Holds(out', SegmentLines(b), SegmentAvgs(b), RestartsTo(b))
    <3>1. CASE Stats(pos)
      BY <1>5, <1>10, <3>1
    <3>2. CASE ~Stats(pos)
      <4>1. p \in 1..whole /\ p \in 1..Len(job.file)
        BY <1>1, <1>4, <1>10, Recorded
      <4>2. Rec(p).type = "comment"
        BY <1>4, <1>10, <3>2, <4>1, Recorded, RecType DEF Stats
      <4> QED
        BY <1>4, <1>5, <1>10, <3>2, <4>1, <4>2, AddShown
    <3> QED
      BY <3>1, <3>2
  <2>4. AtSegmentEnd(b, q)'
    BY <1>1, <1>10, <2>2, <2>3, PrimedSegmentEnd DEF Still
  <2>5. At(b, n, q)'
    BY <1>1, <1>10, <2>4, Zenon DEF At
  <2> QED
    BY <1>1, <1>2, <1>4, <1>6, <1>10, <2>1, <2>5, StepTo
<1> QED
  BY <1>7, <1>8, <1>9, <1>10, Zenon DEF Skip

LEMMA RestartReports ==
  ASSUME TypeOK, Simple, OneDayReport, Restart
  PROVE  OneDayReport'
<1>1. /\ Still /\ SameFile /\ cross_day' = cross_day /\ pc = "restart" /\ pass' = pass /\ pos' = pos
      /\ buf' = buf /\ pos \in Nat /\ pos >= 1 /\ whole \in Nat /\ heads \in Nat /\ whole <= heads
  <2>1. Places /\ Control
    BY TypeParts
  <2>2. /\ job' = job /\ heads' = heads /\ whole' = whole /\ cross_day' = cross_day
        /\ pc = "restart" /\ buf' = buf /\ pass' = pass /\ pos' = pos
    BY Zenon DEF Restart
  <2> QED
    BY <2>1, <2>2, Recorded DEF Still, SameFile, Places, Control
<1>2. AtSegmentEnd(buf[2], pos) /\ ~cross_day
  BY <1>1 DEF OneDayReport, At
<1>3. PICK b \in Bases : b = buf[2]
  BY <1>2 DEF AtSegmentEnd
<1>4. PICK n \in {pass}, p \in Nat : n = pass /\ p = pos
  BY <1>1
<1>5. /\ b \in Nat /\ SegmentEnd(b, p)
      /\ Holds(out, SegmentLines(b), SegmentAvgs(b), RestartsTo(b))
  BY <1>1, <1>2, <1>3, <1>4, BaseIs DEF AtSegmentEnd
<1>6. CASE eosaf
  <2>1. pc' = "done" /\ out' = out
    BY <1>6, Zenon DEF Restart
  <2>2. Bases = BasesTo(b) \cup {b} /\ DoneRestarts = RestartsTo(b)
    BY <1>5, <1>6, EndAtFile DEF SegmentEnd
  <2>3. DoneLines = SegmentLines(b) /\ DoneAvgs = SegmentAvgs(b)
    BY <2>2, SegmentLists
  <2>4. AtDone'
    BY <1>1, <1>5, <2>1, <2>2, <2>3, PrimedDone
  <2>5. At(b, n, p)'
    BY <2>1, <2>4, Zenon DEF At
  <2> QED
    BY <1>1, <1>2, <1>3, <1>4, <2>5, StepTo
<1>7. CASE ~eosaf /\ p - 1 > whole
  <2>1. hdr[curr] = p - 1 /\ Rec(hdr[curr]).type = "restart"
    BY <1>5, <1>7, Zenon DEF SegmentEnd
  <2>2. hdr[curr] > whole
    BY <1>7, <2>1
  <2>3. pc' = "exit"
    BY <1>7, <2>1, <2>2, Zenon DEF Restart
  <2>4. At(b, n, p)'
    BY <2>3 DEF At
  <2> QED
    BY <1>1, <1>2, <1>3, <1>4, <2>4, StepTo
<1>8. CASE ~eosaf /\ ~(p - 1 > whole)
  <2>1. hdr[curr] = p - 1 /\ b < p - 1 /\ Rec(p - 1).type = "restart" /\ Quiet(b, p - 2)
    BY <1>5, <1>8, Zenon DEF SegmentEnd
  <2>2. p - 1 \in 1..whole /\ p - 1 \in Nat
    BY <1>1, <1>4, <1>5, <1>8, <2>1
  <2>3. ~(hdr[curr] > whole) /\ Rec(hdr[curr]).type = "restart"
    BY <1>8, <2>1
  <2>4. pc' = "first" /\ out' = Shown(hdr[curr])
    BY <1>8, <2>3, Zenon DEF Restart
  <2>5. NoBase(p) /\ BasesTo(p) = BasesTo(b) \cup {b} /\ RestartsTo(p - 1) = RestartsTo(b)
    BY <2>1, <2>2, EndAtRestart
  <2>6. EarlierLines(p) = SegmentLines(b) /\ EarlierAvgs(p) = SegmentAvgs(b)
    BY <2>5, SegmentLists
  <2>7. PICK r \in Nat : r = p - 1
    BY <2>2
  <2>8. Holds(Shown(r), EarlierLines(p), EarlierAvgs(p), RestartsTo(r + 1))
    <3>1. ~Stats(r)
      BY <2>1, <2>7 DEF Stats
    <3>2. Holds(out, EarlierLines(p), EarlierAvgs(p), RestartsTo(r))
      BY <1>5, <2>5, <2>6, <2>7
    <3> QED
      BY <2>2, <2>7, <3>1, <3>2, AddShown
  <2>9. r + 1 = p /\ hdr[curr] = r
    BY <2>1, <2>7
  <2>10. AtFirst(p)'
    BY <1>1, <2>4, <2>5, <2>8, <2>9, PrimedFirst
  <2>11. At(b, n, p)'
    BY <2>4, <2>10, Zenon DEF At
  <2> QED
    BY <1>1, <1>2, <1>3, <1>4, <2>11, StepTo
<1> QED
  BY <1>6, <1>7, <1>8

\* When no other sample could be displayed, those that could be before are all
\* that are chosen.
LEMMA AllRead ==
  ASSUME TypeOK, NEW a, NEW b, NEW p \in Nat, FitsTo(a, b, p) = Fits(a, b),
         job.count = Unset \/ Cardinality(FitsTo(a, b, p)) <= job.count
  PROVE  Chosen(a, b) = FitsTo(a, b, p)
<1>1. ChosenTo(a, b, p) = FitsTo(a, b, p)
  BY AllChosen
<1>2. Chosen(a, b) \subseteq Fits(a, b) /\ ChosenTo(a, b, p) \subseteq Chosen(a, b)
  BY ChosenIs DEF ChosenTo
<1> QED
  BY <1>1, <1>2

LEMMA FitsBefore ==
  ASSUME TypeOK, NEW b \in Nat, NEW p \in Nat, b < p, Rec(p).type = "restart", NEW a
  PROVE  FitsTo(a, b, p) = Fits(a, b)
<1> SUFFICES ASSUME NEW k \in Fits(a, b) PROVE k < p
  BY DEF FitsTo
<1>1. k \in 1..whole /\ k \in Nat
  BY ChosenIs
<1>2. k \in 0..whole /\ SameBoot(b, k)
  BY <1>1, Recorded DEF Fits
<1>3. Quiet(b, k)
  BY <1>2, BootQuiet
<1>4. ~(p \in (b + 1)..k)
  BY <1>3 DEF Quiet
<1> QED
  BY <1>1, <1>4

\* A record that is not a sample, and one that no line is for.
LEMMA NoLineFor ==
  ASSUME TypeOK, NEW b \in Nat, NEW n, NEW p \in Nat, p \notin Fits(n, b)
  PROVE  FitsTo(n, b, p + 1) = FitsTo(n, b, p) /\ LinesAt(n, b, p + 1) = LinesAt(n, b, p)
<1>1. p \notin Chosen(n, b)
  BY ChosenIs
<1> QED
  BY <1>1, FitsCount, MoreLines

LEMMA PreviousKept ==
  ASSUME TypeOK, NEW b \in Nat, NEW p \in Nat, b < p
  PROVE  /\ p \notin Samples => \A q : Previous(b, p + 1, q) <=> Previous(b, p, q)
         /\ p \in Samples => Previous(b, p + 1, p)
<1>1. Samples \subseteq Nat
  BY Recorded
<1>2. CASE p \notin Samples
  <2>1. \A i \in Samples : b < i /\ i < p + 1 <=> b < i /\ i < p
    BY <1>1, <1>2
  <2>2. { i \in Samples : b < i /\ i < p + 1 } = { i \in Samples : b < i /\ i < p }
    BY <2>1, Zenon
  <2> QED
    BY <1>2, <2>2 DEF Previous
<1>3. CASE p \in Samples
  <2>1. p \in { i \in Samples : b < i /\ i < p + 1 }
    BY <1>3
  <2>2. \A k \in { i \in Samples : b < i /\ i < p + 1 } : k <= p
    BY <1>1
  <2> QED
    BY <1>3, <2>1, <2>2 DEF Previous, LastOf
<1> QED
  BY <1>2, <1>3

\* What holds while the lines of an activity are displayed.
LEMMA OfLine ==
  ASSUME TypeOK, Simple, OneDayReport, ReadLine
  PROVE  \E b \in Bases, n \in Pass, p \in Nat, h \in Nat :
           /\ b = buf[2] /\ n = pass /\ p = pos /\ h = hdr[1 - curr] /\ pass' = pass
           /\ Still /\ SameFile /\ ~cross_day /\ pc = "line" /\ curr \in {0, 1} /\ fpos' = fpos
           /\ hdr \in [0..2 -> 0..Len(job.file)] /\ buf \in [0..2 -> 0..Len(job.file)]
           /\ out \in Seq(Entry) /\ whole \in Nat /\ heads \in Nat /\ whole <= heads /\ davg \in Nat
           /\ hdr[2] = b /\ fpos = b + 1 /\ b \in Nat /\ p >= 1 /\ b < p
           /\ AtLine(b, n, p)
<1>1. Places /\ Control
  BY TypeParts
<1>2. /\ job' = job /\ heads' = heads /\ whole' = whole /\ pass' = pass /\ pc = "line" /\ fpos' = fpos
  BY Zenon DEF ReadLine
<1>3. AtLine(buf[2], pass, pos) /\ ~cross_day
  BY <1>2 DEF OneDayReport, At
<1>4. PICK b \in Bases : b = buf[2]
  BY <1>3 DEF AtLine, Based
<1>5. hdr[2] = b /\ fpos = b + 1 /\ b \in Nat /\ b < pos
  BY <1>3, <1>4, BaseIs DEF AtLine, KeptBase, Based
<1>6. /\ Still /\ SameFile /\ curr \in {0, 1} /\ hdr[1 - curr] \in Nat /\ pos \in Nat /\ pos >= 1 /\ pass \in Pass
      /\ hdr \in [0..2 -> 0..Len(job.file)] /\ buf \in [0..2 -> 0..Len(job.file)]
      /\ out \in Seq(Entry) /\ whole \in Nat /\ heads \in Nat /\ whole <= heads /\ davg \in Nat
  BY <1>1, <1>2, Recorded DEF Still, SameFile, Places, Control
<1>7. PICK n \in Pass, p \in Nat, h \in Nat : n = pass /\ p = pos /\ h = hdr[1 - curr]
  BY <1>6
<1>8. AtLine(b, n, p)
  BY <1>3, <1>4, <1>7
<1> QED
  BY <1>2, <1>3, <1>4, <1>5, <1>6, <1>7, <1>8, Zenon
LEMMA ReadOtherReports ==
  ASSUME TypeOK, Simple, OneDayReport, ReadLine, ~(pos <= whole /\ Stats(pos))
  PROVE  OneDayReport'
<1>1. PICK b \in Bases, n \in Pass, p \in Nat, h \in Nat :
           /\ b = buf[2] /\ n = pass /\ p = pos /\ h = hdr[1 - curr] /\ pass' = pass
           /\ Still /\ SameFile /\ ~cross_day /\ pc = "line" /\ curr \in {0, 1} /\ fpos' = fpos
           /\ hdr \in [0..2 -> 0..Len(job.file)] /\ buf \in [0..2 -> 0..Len(job.file)]
           /\ out \in Seq(Entry) /\ whole \in Nat /\ heads \in Nat /\ whole <= heads /\ davg \in Nat
           /\ hdr[2] = b /\ fpos = b + 1 /\ b \in Nat /\ p >= 1 /\ b < p
           /\ AtLine(b, n, p)
  BY OfLine
<1> DEFINE fits == FitsTo(n, b, p)
<1>2. /\ Quiet(b, p - 1) /\ h \in b..(p - 1)
      /\ Holds(out, LinesAt(n, b, p), AvgsAt(n, b), RestartsTo(b))
      /\ LastOf(fits, b, buf[1 - curr])
      /\ davg > 0 <=> fits # {}
      /\ IF job.count = Unset THEN cnt = Unset ELSE cnt > 0 /\ cnt = job.count - Cardinality(fits)
      /\ \E q \in b..(p - 1) : Previous(b, p, q) /\ IF reset THEN q = b ELSE last_uptime = Rec(q).up
  BY <1>1 DEF AtLine, Based
<1>3. cnt # 0 /\ (job.count = Unset \/ Cardinality(fits) <= job.count)
  <2>1. Cardinality(fits) \in Nat
    BY FitsCount
  <2>2. job.count = Unset \/ job.count \in Nat
    BY Recorded DEF IsCase
  <2> HIDE DEF fits
  <2>3. CASE job.count = Unset
    BY <1>2, <2>3 DEF Unset
  <2>4. CASE job.count # Unset
    BY <1>2, <2>1, <2>2, <2>4
  <2> QED
    BY <2>3, <2>4
<1>4. cross_day' = cross_day /\ buf' = buf /\ curr' = curr /\ cnt' = cnt /\ davg' = davg
      /\ reset' = reset /\ last_uptime' = last_uptime
  BY Zenon DEF ReadLine, Unexpected, reader
<1>5. CASE pos > heads /\ eosaf' = TRUE /\ pc' = "average" /\ UNCHANGED << pos, hdr, out >>
  <2>1. fits = Fits(n, b)
    BY <1>1, <1>2, <1>5, EndAtFile
  <2>2. Chosen(n, b) = fits
    BY <1>3, <2>1, AllRead
  <2>3. SegmentEnd(b, p)'
    BY <1>1, <1>2, <1>5, PrimedSegmentEnd DEF Still
  <2>4. \A k \in Chosen(n, b) : k < p
    BY <2>2, FitsCount
  <2> HIDE DEF fits
  <2>5. AtAverage(b, n, p)'
    BY <1>1, <1>2, <1>3, <1>4, <1>5, <2>2, <2>3, <2>4, PrimedAverage DEF Still
  <2>6. At(b, n, p)'
    BY <1>5, <2>5, Zenon DEF At
  <2> QED
    BY <1>1, <1>4, <1>5, <2>6, StepTo
<1>6. CASE /\ pos <= heads /\ Rec(pos).type = "restart" /\ hdr' = [hdr EXCEPT ![curr] = pos]
           /\ pos' = pos + 1 /\ eosaf' = FALSE /\ pc' = "average" /\ out' = out
  <2>1. fits = Fits(n, b)
    BY <1>1, <1>6, FitsBefore
  <2>2. Chosen(n, b) = fits
    BY <1>3, <2>1, AllRead
  <2>3. PICK q \in Nat : q = p + 1
    OBVIOUS
  <2>4. q - 1 = p /\ q - 2 = p - 1 /\ hdr'[curr'] = p /\ hdr'[2] = b
    BY <1>1, <1>4, <1>6, <2>3
  <2>5. SegmentEnd(b, q)'
    BY <1>1, <1>2, <1>6, <2>4, PrimedSegmentEnd DEF Still
  <2>6. \A k \in fits : k \in Nat /\ k < p
    BY FitsCount
  <2>7. p \notin Fits(n, b)
    BY <2>1, <2>6
  <2>8. LinesAt(n, b, q) = LinesAt(n, b, p)
    BY <1>1, <2>3, <2>7, NoLineFor
  <2> HIDE DEF fits
  <2>9. \A k \in Chosen(n, b) : k < q
    BY <2>2, <2>3, <2>6
  <2>10. Holds(out', LinesAt(n, b, q), AvgsAt(n, b), RestartsTo(b)) /\ b < q
    BY <1>1, <1>2, <1>6, <2>3, <2>8
  <2>11. AtAverage(b, n, q)'
    BY <1>1, <1>2, <1>3, <1>4, <2>2, <2>4, <2>5, <2>9, <2>10, PrimedAverage DEF Still
  <2>12. At(b, n, q)'
    BY <1>6, <2>11, Zenon DEF At
  <2> QED
    BY <1>1, <1>4, <1>6, <2>3, <2>12, StepTo
<1>7. CASE Unexpected
  <2>1. pc' = "exit" /\ pos' = pos
    BY <1>7, Zenon DEF Unexpected, reader
  <2>2. At(b, n, p)'
    BY <2>1 DEF At
  <2> QED
    BY <1>1, <1>4, <2>1, <2>2, StepTo
<1>8. CASE /\ pos <= whole /\ Rec(pos).type = "comment" /\ hdr' = [hdr EXCEPT ![curr] = pos]
           /\ pos' = pos + 1 /\ out' = Shown(pos) /\ pc' = pc
  <2>1. PICK q \in Nat : q = p + 1
    OBVIOUS
  <2>2. p \in 1..whole /\ ~Stats(p) /\ p \notin Samples
    BY <1>1, <1>8 DEF Stats, Samples
  <2>3. p \notin Fits(n, b)
    BY <2>2, ChosenIs
  <2>4. FitsTo(n, b, q) = fits /\ LinesAt(n, b, q) = LinesAt(n, b, p)
    BY <1>1, <2>1, <2>3, NoLineFor
  <2>5. Based(b, q)
    <3>1. Quiet(b, p)
      BY <1>1, <1>2, <1>8, QuietNext
    <3> QED
      BY <1>1, <2>1, <3>1 DEF Based
  <2>6. Holds(out', LinesAt(n, b, q), AvgsAt(n, b), RestartsTo(b))
    BY <1>1, <1>2, <1>8, <2>2, <2>4, AddShown
  <2>7. \A x : Previous(b, q, x) <=> Previous(b, p, x)
    BY <1>1, <2>1, <2>2, PreviousKept
  <2>8. \E x \in b..(q - 1) : Previous(b, q, x) /\ IF reset' THEN x = b ELSE last_uptime' = Rec(x).up
    <3>1. PICK x \in b..(p - 1) : Previous(b, p, x) /\ IF reset THEN x = b ELSE last_uptime = Rec(x).up
      BY <1>2
    <3>2. x \in b..(q - 1)
      BY <1>1, <2>1
    <3> QED
      BY <1>4, <2>7, <3>1, <3>2
  <2>9. hdr'[2] = b /\ hdr'[1 - curr'] \in b..(q - 1)
    BY <1>1, <1>2, <1>4, <1>8, <2>1
  <2>10. IF job.count = Unset THEN cnt' = Unset ELSE cnt' > 0 /\ cnt' = job.count - Cardinality(FitsTo(n, b, q))
    BY <1>2, <1>4, <2>4
  <2>11. LastOf(FitsTo(n, b, q), b, buf'[1 - curr']) /\ (davg' > 0 <=> FitsTo(n, b, q) # {})
    BY <1>2, <1>4, <2>4
  <2>12. AtLine(b, n, q)'
    BY <1>1, <2>5, <2>6, <2>8, <2>9, <2>10, <2>11, PrimedLine
  <2>13. At(b, n, q)'
    BY <1>1, <1>8, <2>12, Zenon DEF At
  <2> QED
    BY <1>1, <1>4, <1>8, <2>1, <2>13, StepTo
<1> QED
  BY <1>5, <1>6, <1>7, <1>8, Zenon DEF ReadLine

\* write_stats() displays the samples that could be displayed, and ends the lines
\* of the activity after the period.
LEMMA WriteIs ==
  ASSUME TypeOK, Simple, ~cross_day, NEW b \in Bases, hdr[2] = b, NEW n, n = pass,
         NEW p \in Samples, b < p, Quiet(b, p), NEW h \in b..(p - 1), NEW q \in b..(p - 1),
         Previous(b, p, q), IF reset THEN q = b ELSE last_uptime = Rec(q).up, WriteStats(h, p)
  PROVE  /\ ~cross_day' /\ last_uptime' = Rec(p).up /\ reset' = FALSE
         /\ cnt' = IF Displayable(b, p) /\ ~Inside(p) THEN 0 ELSE IF p \in Fits(n, b) THEN LinesLeft ELSE cnt
         /\ out' = IF p \in Fits(n, b) THEN Append(out, Line(buf[1 - curr], p)) ELSE out
         /\ davg' = IF p \in Fits(n, b) THEN davg + 1 ELSE davg
         /\ curr' = IF p \in Fits(n, b) THEN 1 - curr ELSE curr
         /\ pc' = IF cnt' = 0 THEN "average" ELSE "line"
<1>1. /\ b \in Nat /\ b \in Samples /\ Inside(b) /\ b \in 1..whole /\ p \in 1..whole /\ p \in Nat /\ p \in 0..whole
      /\ whole \in Nat /\ whole <= Len(job.file) /\ IsCase(job) /\ SingleDay /\ UptimesGrow
  BY BaseIs, Recorded DEF Simple
<1>2. h \in 1..Len(job.file) /\ q \in 1..Len(job.file) /\ p \in 1..Len(job.file) /\ h < p /\ b <= q /\ q < p
      /\ b \in 1..Len(job.file)
  BY <1>1
<1>3. ~CrossDay(h, p)
  BY <1>1, <1>2, DaySelects
<1>4. Late(p, CrossDay(h, p)) <=> Late(p, FALSE)
  BY <1>3 DEF Late
<1>5. Late(p, FALSE) <=> ~Inside(p)
  BY <1>1, DaySelects
<1> DEFINE last == IF last_uptime = 0 \/ reset THEN Rec(hdr[2]).up ELSE last_uptime
<1>6. last = Rec(q).up
  <2>1. CASE reset
    BY <2>1
  <2>2. CASE ~reset /\ last_uptime # 0
    BY <2>2
  <2>3. CASE ~reset /\ last_uptime = 0
    <3>1. Rec(q).up = 0 /\ last = Rec(b).up
      BY <2>3
    <3>2. Rec(b).up \in Nat
      BY <1>1, <1>2, RecType
    <3>3. CASE b = q
      BY <3>1, <3>3
    <3>4. CASE b # q
      <4>1. Quiet(b, q)
        BY <1>1, <1>2, QuietPart
      <4>2. Rec(b).up <= Rec(q).up
        BY <1>1, <1>2, <3>4, <4>1 DEF UptimesGrow
      <4> QED
        BY <3>1, <3>2, <4>2
    <3> QED
      BY <3>3, <3>4
  <2> QED
    BY <2>1, <2>2, <2>3
<1> DEFINE slice == NextSlice(Rec(hdr[2]).up, last, Rec(p).up)
           late == Late(p, CrossDay(h, p))
           next == slice /\ ~late /\ pass \in Rec(p).has
<1>7. slice <=> Displayable(b, p)
  BY <1>1, <1>6, SliceDisplayable
<1>8. late <=> ~Inside(p)
  BY <1>4, <1>5
<1>9. next <=> p \in Fits(n, b)
  <2>1. SameBoot(b, p)
    BY <1>1, BootQuiet
  <2>2. p \in Fits(n, b) <=> Inside(p) /\ n \in Rec(p).has /\ Displayable(b, p)
    BY <1>1, <2>1 DEF Fits
  <2> QED
    BY <1>7, <1>8, <2>2
<1>10. /\ last_uptime' = Rec(p).up
       /\ cross_day' = IF slice THEN CrossDay(h, p) ELSE ~reset_cd /\ cross_day
       /\ cnt' = IF slice /\ late THEN 0 ELSE IF next THEN LinesLeft ELSE cnt
       /\ out' = IF next THEN Append(out, Line(buf[1 - curr], p)) ELSE out
       /\ davg' = IF next THEN davg + 1 ELSE davg
       /\ curr' = IF next THEN 1 - curr ELSE curr
       /\ reset' = FALSE
       /\ pc' = IF cnt' = 0 THEN "average" ELSE "line"
  BY Zenon DEF WriteStats
<1> HIDE DEF slice, late, next
<1>11. ~cross_day'
  BY <1>3, <1>10, Zenon
<1> QED
  BY <1>7, <1>8, <1>9, <1>10, <1>11, Zenon

LEMMA ReadStatsReports ==
  ASSUME TypeOK, Simple, OneDayReport, ReadLine, pos <= whole, Stats(pos)
  PROVE  OneDayReport'
<1>1. PICK b \in Bases, n \in Pass, p \in Nat, h \in Nat :
           /\ b = buf[2] /\ n = pass /\ p = pos /\ h = hdr[1 - curr] /\ pass' = pass
           /\ Still /\ SameFile /\ ~cross_day /\ pc = "line" /\ curr \in {0, 1} /\ fpos' = fpos
           /\ hdr \in [0..2 -> 0..Len(job.file)] /\ buf \in [0..2 -> 0..Len(job.file)]
           /\ out \in Seq(Entry) /\ whole \in Nat /\ heads \in Nat /\ whole <= heads /\ davg \in Nat
           /\ hdr[2] = b /\ fpos = b + 1 /\ b \in Nat /\ p >= 1 /\ b < p
           /\ AtLine(b, n, p)
  BY OfLine
<1> DEFINE fits == FitsTo(n, b, p)
<1>2. /\ Quiet(b, p - 1) /\ h \in b..(p - 1)
      /\ Holds(out, LinesAt(n, b, p), AvgsAt(n, b), RestartsTo(b))
      /\ LastOf(fits, b, buf[1 - curr])
      /\ davg > 0 <=> fits # {}
      /\ IF job.count = Unset THEN cnt = Unset ELSE cnt > 0 /\ cnt = job.count - Cardinality(fits)
      /\ \E q \in b..(p - 1) : Previous(b, p, q) /\ IF reset THEN q = b ELSE last_uptime = Rec(q).up
  BY <1>1 DEF AtLine, Based
<1>3. hdr' = [hdr EXCEPT ![curr] = p] /\ buf' = [buf EXCEPT ![curr] = p] /\ pos' = p + 1 /\ WriteStats(h, p)
  <2>1. Rec(pos).type = "stats"
    BY DEF Stats
  <2>2. Rec(pos).type # "restart" /\ Rec(pos).type # "comment"
    BY <2>1
  <2>3. ~(pos > heads) /\ ~Unexpected
    BY <1>1 DEF Unexpected
  <2> QED
    BY <1>1, <2>2, <2>3, Zenon DEF ReadLine
<1>4. p \in Samples /\ p \in 1..whole /\ Quiet(b, p)
  <2>1. Rec(p).type # "restart"
    BY <1>1 DEF Stats
  <2> QED
    BY <1>1, <1>2, <2>1, QuietNext DEF Samples, Records
<1>5. /\ ~cross_day' /\ last_uptime' = Rec(p).up /\ reset' = FALSE
      /\ cnt' = IF Displayable(b, p) /\ ~Inside(p) THEN 0 ELSE IF p \in Fits(n, b) THEN LinesLeft ELSE cnt
      /\ out' = IF p \in Fits(n, b) THEN Append(out, Line(buf[1 - curr], p)) ELSE out
      /\ davg' = IF p \in Fits(n, b) THEN davg + 1 ELSE davg
      /\ curr' = IF p \in Fits(n, b) THEN 1 - curr ELSE curr
      /\ pc' = IF cnt' = 0 THEN "average" ELSE "line"
  <2>1. PICK q \in b..(p - 1) : Previous(b, p, q) /\ IF reset THEN q = b ELSE last_uptime = Rec(q).up
    BY <1>2
  <2> QED
    BY <1>1, <1>2, <1>3, <1>4, <2>1, WriteIs
<1>6. PICK q \in Nat : q = p + 1
  OBVIOUS
<1>7. q - 1 = p /\ b < q /\ hdr'[2] = b /\ buf'[2] = b /\ pos' = q
      /\ hdr'[curr] = p /\ buf'[curr] = p /\ hdr'[1 - curr] = h /\ buf'[1 - curr] = buf[1 - curr]
      /\ p \in b..(q - 1) /\ h \in b..(q - 1)
  BY <1>1, <1>2, <1>3, <1>6
<1>8. Based(b, q) /\ Previous(b, q, p)
  BY <1>1, <1>4, <1>6, <1>7, PreviousKept DEF Based
<1>9. /\ fits \subseteq Nat /\ IsFiniteSet(fits) /\ Cardinality(fits) \in Nat /\ \A k \in fits : b < k /\ k < p
      /\ p \in Fits(n, b) => FitsTo(n, b, q) = fits \cup {p} /\ Cardinality(FitsTo(n, b, q)) = Cardinality(fits) + 1
  BY <1>6, FitsCount
<1>10. job.count = Unset \/ job.count \in Nat
  BY Recorded DEF IsCase
<1> HIDE DEF fits
<1>11. cnt # 0 /\ (job.count = Unset \/ Cardinality(fits) + 1 <= job.count)
  <2>1. CASE job.count = Unset
    BY <1>2, <2>1 DEF Unset
  <2>2. CASE job.count # Unset
    BY <1>2, <1>9, <1>10, <2>2
  <2> QED
    BY <2>1, <2>2
<1>12. \A k \in fits : k \in Nat /\ k < p
  BY <1>9
<1>13. ASSUME p \in Fits(n, b) PROVE At(b, n, q)'
  <2> DEFINE line == LineAt(n, b, p)
             more == FitsTo(n, b, q)
  <2>1. ~(Displayable(b, p) /\ ~Inside(p)) /\ curr' = 1 - curr /\ davg' > 0 /\ cnt' = LinesLeft
        /\ out' = Append(out, Line(buf[1 - curr], p))
    BY <1>1, <1>5, <1>13 DEF Fits
  <2>2. more = fits \cup {p} /\ Cardinality(more) = Cardinality(fits) + 1
    BY <1>9, <1>13
  <2>3. ChosenTo(n, b, q) = more /\ { i \in Chosen(n, b) : i < p } = fits
    <3>1. job.count = Unset \/ Cardinality(more) <= job.count
      BY <1>11, <2>2
    <3>2. ChosenTo(n, b, q) = more /\ \A k \in more : { i \in Chosen(n, b) : i < k } = FitsTo(n, b, k)
      BY <3>1, AllChosen
    <3> QED
      BY <2>2, <3>2 DEF fits
  <2>4. p \in Chosen(n, b)
    BY <2>2, <2>3 DEF ChosenTo
  <2>5. Line(buf[1 - curr], p) = line
    <3>1. Max({b} \cup fits) = buf[1 - curr]
      BY <1>1, <1>2, <1>9, LastIs
    <3> QED
      BY <1>1, <2>3, <3>1, Zenon DEF Line, LineAt
  <2>6. line \in Entry /\ line.kind = "line"
    <3>1. buf[1 - curr] \in Nat
      BY <1>1, Recorded
    <3> HIDE DEF line
    <3> DEFINE m == buf[1 - curr]
    <3>2. line = [kind |-> "line", pass |-> n, from |-> m, to |-> p]
      BY <1>1, <2>5, Zenon DEF Line
    <3>3. m \in Nat
      BY <3>1
    <3> HIDE DEF m
    <3> QED
      BY <3>2, <3>3 DEF Entry
  <2>7. LinesAt(n, b, q) = LinesAt(n, b, p) \cup {line}
    BY <1>1, <1>6, <2>4, MoreLines
  <2>8. line \notin LinesAt(n, b, p)
    BY <1>1, LineIsNew
  <2> HIDE DEF line
  <2>9. Holds(Append(out, line), LinesAt(n, b, p) \cup {line}, AvgsAt(n, b), RestartsTo(b))
    BY <1>1, <1>2, <2>6, <2>8, AddLine
  <2>10. Holds(out', LinesAt(n, b, q), AvgsAt(n, b), RestartsTo(b))
    BY <2>1, <2>5, <2>7, <2>9
  <2>11. LastOf(more, b, p)
    <3> HIDE DEF more
    <3>1. \A k \in more : k <= p
      BY <1>12, <2>2
    <3> QED
      BY <2>2, <3>1 DEF LastOf
  <2>12. 1 - curr' = curr
    BY <1>1, <2>1
  <2>13. hdr'[1 - curr'] = p /\ buf'[1 - curr'] = p /\ more # {}
    BY <1>7, <2>2, <2>12
  <2> HIDE DEF more
  <2>14. IF job.count = Unset THEN cnt' = Unset ELSE cnt' = job.count - Cardinality(more)
    <3>1. CASE job.count = Unset
      BY <1>2, <2>1, <3>1 DEF LinesLeft, Unset
    <3>2. CASE job.count # Unset
      BY <1>2, <1>9, <1>10, <2>1, <2>2, <3>2 DEF LinesLeft
    <3> QED
      BY <3>1, <3>2
  <2>15. CASE cnt' = 0
    <3>1. job.count # Unset /\ Cardinality(more) = job.count
      <4>1. job.count # Unset
        BY <2>14, <2>15 DEF Unset
      <4> QED
        BY <1>9, <1>10, <2>2, <2>14, <2>15, <4>1
    <3>2. Chosen(n, b) = more
      BY <3>1, NoMoreChosen DEF more
    <3>3. \A k \in Chosen(n, b) : k < q
      BY <1>6, <1>12, <2>2, <3>2
    <3>4. AtAverage(b, n, q)'
      BY <1>1, <1>4, <1>7, <2>1, <2>10, <2>11, <2>13, <2>15, <3>2, <3>3, PrimedAverage DEF Still
    <3> QED
      BY <1>5, <2>15, <3>4, Zenon DEF At
  <2>16. CASE cnt' # 0
    <3>1. IF job.count = Unset THEN cnt' = Unset ELSE cnt' > 0 /\ cnt' = job.count - Cardinality(more)
      BY <1>9, <1>10, <1>11, <2>2, <2>14, <2>16
    <3>2. \E x \in b..(q - 1) : Previous(b, q, x) /\ IF reset' THEN x = b ELSE last_uptime' = Rec(x).up
      BY <1>5, <1>7, <1>8
    <3>3. hdr'[1 - curr'] \in b..(q - 1)
      BY <1>7, <2>13
    <3>4. AtLine(b, n, q)'
      BY <1>1, <1>7, <1>8, <2>1, <2>10, <2>11, <2>13, <3>1, <3>2, <3>3, PrimedLine DEF more
    <3> QED
      BY <1>5, <2>16, <3>4, Zenon DEF At
  <2> QED
    BY <2>15, <2>16
<1>14. ASSUME p \notin Fits(n, b) PROVE At(b, n, q)'
  <2>1. FitsTo(n, b, q) = fits /\ LinesAt(n, b, q) = LinesAt(n, b, p)
    BY <1>1, <1>6, <1>14, NoLineFor DEF fits
  <2>2. /\ out' = out /\ davg' = davg /\ curr' = curr
        /\ cnt' = IF Displayable(b, p) /\ ~Inside(p) THEN 0 ELSE cnt
    BY <1>5, <1>14, Zenon
  <2>3. hdr'[1 - curr'] = h /\ buf'[1 - curr'] = buf[1 - curr]
    BY <1>7, <2>2
  <2>4. Holds(out', LinesAt(n, b, q), AvgsAt(n, b), RestartsTo(b))
    BY <1>2, <2>1, <2>2
  <2>5. CASE Displayable(b, p) /\ ~Inside(p)
    <3>1. cnt' = 0
      BY <2>2, <2>5
    <3>2. Fits(n, b) = fits
      <4> SUFFICES ASSUME NEW k \in Fits(n, b) PROVE k < p
        BY DEF fits, FitsTo
      <4>1. k \in 1..whole /\ k \in Nat /\ Inside(k) /\ k # p
        BY <1>14, ChosenIs DEF Fits
      <4>2. b \in 1..whole /\ Inside(b) /\ SingleDay
        BY BaseIs DEF Simple
      <4>3. Late(p, FALSE)
        BY <1>1, <1>4, <2>5, <4>2, DaySelects
      <4>4. ~(p < k)
        BY <1>4, <4>1, <4>2, <4>3, DaySelects
      <4> QED
        BY <4>1, <4>4
    <3>3. Chosen(n, b) = fits
      <4>1. job.count = Unset \/ Cardinality(fits) <= job.count
        BY <1>9, <1>10, <1>11
      <4> QED
        BY <3>2, <4>1, AllRead DEF fits
    <3>4. \A k \in Chosen(n, b) : k < q
      BY <1>6, <1>12, <3>3
    <3>5. AtAverage(b, n, q)'
      <4>1. LastOf(Chosen(n, b), b, buf'[1 - curr']) /\ (davg' > 0 <=> Chosen(n, b) # {})
        BY <1>2, <2>2, <2>3, <3>3 DEF fits
      <4>2. Quiet(b, q - 1) /\ hdr'[2] = b /\ fpos' = b + 1
        BY <1>1, <1>4, <1>7
      <4> QED
        BY <1>1, <1>7, <2>4, <3>1, <3>4, <4>1, <4>2, PrimedAverage DEF Still
    <3> QED
      BY <1>5, <3>1, <3>5, Zenon DEF At
  <2>6. CASE ~(Displayable(b, p) /\ ~Inside(p))
    <3>1. cnt' = cnt /\ pc' = "line"
      BY <1>5, <1>11, <2>2, <2>6
    <3>2. \E x \in b..(q - 1) : Previous(b, q, x) /\ IF reset' THEN x = b ELSE last_uptime' = Rec(x).up
      BY <1>5, <1>7, <1>8
    <3>3. hdr'[1 - curr'] \in b..(q - 1)
      BY <1>7, <2>3
    <3>4. IF job.count = Unset THEN cnt' = Unset ELSE cnt' > 0 /\ cnt' = job.count - Cardinality(FitsTo(n, b, q))
      BY <1>2, <2>1, <3>1
    <3>5. LastOf(FitsTo(n, b, q), b, buf'[1 - curr']) /\ (davg' > 0 <=> FitsTo(n, b, q) # {})
      BY <1>2, <2>1, <2>2, <2>3
    <3>6. AtLine(b, n, q)'
      BY <1>1, <1>7, <1>8, <2>4, <3>2, <3>3, <3>4, <3>5, PrimedLine
    <3> QED
      BY <3>1, <3>6, Zenon DEF At
  <2> QED
    BY <2>5, <2>6
<1> QED
  BY <1>1, <1>5, <1>7, <1>13, <1>14, StepTo

LEMMA NextReports ==
  ASSUME TypeOK, Simple, OneDayReport, [Next]_vars
  PROVE  OneDayReport'
<1>1. CASE First
  BY <1>1, FirstReports
<1>2. CASE Begin
  BY <1>2, BeginReports
<1>3. CASE ReadLine
  BY <1>3, ReadStatsReports, ReadOtherReports
<1>4. CASE Average
  BY <1>4, AverageReports
<1>5. CASE Skip
  BY <1>5, SkipReports
<1>6. CASE Restart
  BY <1>6, RestartReports
<1>7. CASE Grow
  BY <1>7 DEF Grow, Simple
<1>8. CASE UNCHANGED vars
  <2>1. /\ Still /\ SameFile /\ cross_day' = cross_day /\ pc' = pc
    BY <1>8 DEF vars, reader, Still, SameFile
  <2>2. ASSUME NEW b \in {buf[2]}, NEW n \in {pass}, NEW p \in {pos} PROVE At(b, n, p)'
    <3>1. At(b, n, p)
      BY DEF OneDayReport
    <3>2. UNCHANGED << hdr, buf, fpos, curr, pass, cnt, eosaf, reset, last_uptime, davg, out >>
      BY <1>8 DEF vars, reader
    <3>3. AtFirst(p)' <=> AtFirst(p)
      BY <2>1, <3>2, PrimedFirst DEF AtFirst
    <3>4. AtBegin(b, n)' <=> AtBegin(b, n)
      BY <2>1, <3>2, PrimedBegin, Zenon DEF AtBegin, KeptBase
    <3>5. AtLine(b, n, p)' <=> AtLine(b, n, p)
      BY <2>1, <3>2, PrimedLine DEF AtLine, KeptBase, SameFile
    <3>6. SegmentEnd(b, p)' <=> SegmentEnd(b, p)
      BY <2>1, <3>2, PrimedSegmentEnd, Zenon DEF SegmentEnd, Still
    <3>7. AtAverage(b, n, p)' <=> AtAverage(b, n, p)
      BY <2>1, <3>2, <3>6, PrimedAverage, Zenon DEF AtAverage, KeptBase, Still
    <3>8. AtSegmentEnd(b, p)' <=> AtSegmentEnd(b, p)
      BY <2>1, <3>2, <3>6, PrimedSegmentEnd, PrimedBased, Zenon DEF AtSegmentEnd, Still
    <3>9. AtDone' <=> AtDone
      BY <2>1, <3>2, PrimedDone, Zenon DEF AtDone
    <3> QED
      BY <2>1, <3>1, <3>3, <3>4, <3>5, <3>7, <3>8, <3>9, Zenon DEF At
  <2> QED
    BY <1>8, <2>1, <2>2 DEF OneDayReport, vars, reader
<1> QED
  BY <1>1, <1>2, <1>3, <1>4, <1>5, <1>6, <1>7, <1>8 DEF Next, Sar

LEMMA InitReports == ASSUME Init PROVE OneDayReport
<1>1. pc = "first" /\ pos = 1 /\ out = << >> /\ ~cross_day /\ TypeOK
  BY InitTyped DEF Init
<1>2. BasesTo(1) = {} /\ RestartsTo(1) = {}
  <2>1. \A b \in Bases : ~(b < 1)
    BY <1>1, BaseIs
  <2>2. \A r \in Restarts : ~(r < 1)
    BY <1>1, Recorded
  <2>3. \A e : e \notin RestartsTo(1)
    BY <2>2, Zenon DEF RestartsTo
  <2> QED
    BY <2>1, <2>3 DEF BasesTo
<1>3. EarlierLines(1) = {} /\ EarlierAvgs(1) = {}
  <2>1. \A e : e \notin AllLines(Pass, {}) /\ e \notin AllAvgs(Pass, {})
    BY Member
  <2> QED
    BY <1>2, <2>1 DEF EarlierLines, EarlierAvgs
<1>4. \A s : KindIn(out, s) = {}
  BY <1>1 DEF KindIn, ToSet
<1>5. AtFirst(1)
  <2>1. DOMAIN out = {}
    BY <1>1
  <2>2. Holds(out, {}, {}, {})
    BY <1>4, <2>1, Zenon DEF Holds
  <2>3. NoBase(1)
    BY DEF NoBase
  <2> QED
    BY <1>2, <1>3, <2>2, <2>3, Zenon DEF AtFirst
<1>6. ASSUME NEW b, NEW n, NEW p \in {pos} PROVE At(b, n, p)
  BY <1>1, <1>5 DEF At
<1> QED
  BY <1>1, <1>6 DEF OneDayReport

LEMMA ReportsAreComplete == ASSUME ~job.growing => OneDayReport PROVE ReportComplete
<1> SUFFICES ASSUME pc = "done", ~job.growing
             PROVE  /\ Kind("line") = ExpectedLines /\ Kind("average") = ExpectedAverages
                    /\ Kind("restart") = { Special(r) : r \in { i \in Restarts : InRange(i) } }
                    /\ \A i, j \in DOMAIN out : out[i] = out[j] /\ out[i].kind # "comment" => i = j
  BY DEF ReportComplete
<1>1. AtDone
  BY DEF OneDayReport, At
<1>2. \A s : Kind(s) = KindIn(out, s)
  BY DEF Kind, KindIn
<1> QED
  BY <1>1, <1>2, DoneIs DEF AtDone, Holds, DoneRestarts

\* man sar, of files of one day: when the times of the records and the uptimes of
\* each boot grow, sar displays exactly the lines, the averages and the restarts
\* that the activities, -s, -e, -i and count ask for, once each, whatever the file.
THEOREM MCReportCompleteCorrect == MCSpec => [](SingleDay /\ UptimesGrow => MCReportComplete)
<1> DEFINE Inv == loop = "sar" => TypeOK /\ (Simple => OneDayReport)
<1>1. MCInit => Inv
  <2>1. Init => TypeOK /\ OneDayReport
    BY InitTyped, InitReports
  <2> QED
    BY <2>1 DEF MCInit, SadfInit
<1>2. Inv /\ [MCNext]_mcVars => Inv'
  <2> SUFFICES ASSUME Inv, [MCNext]_mcVars, loop' = "sar" PROVE (TypeOK /\ (Simple => OneDayReport))'
    OBVIOUS
  <2>1. loop' = loop
    BY Zenon DEF MCNext, OfSar, OfSadf, SadfNext, Display, sadfVars, mcVars
  <2>2. [Next]_vars
    BY <2>1 DEF MCNext, OfSar, OfSadf, mcVars
  <2>3. job' = job
    BY <2>2, Zenon DEF Next, Sar, First, Begin, ReadLine, Average, Skip, Restart, Grow, vars
  <2>4. Simple' => Simple
    BY <2>3 DEF Simple, SingleDay, UptimesGrow, Quiet, Rec, TimeOfDay
  <2> QED
    BY <2>1, <2>2, <2>4, NextTyped, NextReports
<1>3. Inv => (SingleDay /\ UptimesGrow => MCReportComplete)
  BY ReportsAreComplete DEF MCReportComplete, Simple
<1> QED
  BY <1>1, <1>2, <1>3, PTL DEF MCSpec

-----------------------------------------------------------------------------
(* The activities that sadf counts.                                         *)

\* Once the interval of -s and -e has ended, it has: files of some days, of
\* which sadf would display several, are not in this case.
EndsOnce ==
  \A i, k \in 1..Len(job.file) : i < k /\ Late(i, FALSE) => Late(k, FALSE)

\* The archives and the graphs: the formats that need their items counted.
Counts == loop \in {"archive", "graphs"}

\* The records of the interval, and the samples that do not end it.
Begun == { f \in 1..Len(job.file) : InRange(f) }
Timely == { k \in 1..Len(job.file) : Stats(k) /\ ~Late(k, FALSE) }

\* A record of the interval is before record n, and the activities of the samples
\* from there to record n are listed.
Reached(n) == \E f \in Begun : f < n
Listed(n) ==
  \A k \in Timely : k <= whole /\ k < n /\ (\E f \in Begun : f <= k) => Rec(k).has \subseteq listed

\* What is displayed is listed.
Drawn(s) == s \in Seq(Entry) /\ \A i \in DOMAIN s : s[i].kind = "line" => s[i].pass \in listed

\* The file and the command line.
Given ==
  /\ IsCase(job) /\ EndsOnce
  /\ whole \in 0..Len(job.file) /\ heads \in whole..(whole + 1) /\ heads <= Len(job.file)

\* Where sadf is in the file.
Walk ==
  /\ pos \in Nat \ {0} /\ fpos \in Nat \ {0} /\ curr \in {0, 1} /\ buf \in [0..2 -> Nat]
  /\ pc \in {"begin", "average", "resume"} => loop = "graphs"
  /\ pc \in {"begin", "line", "average", "resume"} => Reached(pos) /\ (loop = "graphs" => Reached(fpos))

\* What it has counted.
Tallied ==
  /\ stage \in {"search", "items", "show", "mock"}
  /\ Counting => out = << >> /\ sketch = << >> /\ pc \in {"first"} \cup Over
  /\ stage = "search" => ~Reached(pos)
  /\ stage = "items" => Listed(pos)
  /\ Displaying => Listed(whole + 1)

Budget == Walk /\ Tallied /\ Drawn(out) /\ Drawn(sketch)

-----------------------------------------------------------------------------

\* The lines displayed for a sample are of activities that it has.
LEMMA LinesOfType ==
  ASSUME NEW i \in Nat, NEW k \in Nat
  PROVE  /\ LinesOf(i, k) \in Seq(Entry)
         /\ \A n \in DOMAIN LinesOf(i, k) : LinesOf(i, k)[n].pass \in Rec(k).has
<1> DEFINE HasItems(a) == a \in Activities \cap Rec(k).has
           Of(a) == [kind |-> "line", pass |-> a, from |-> i, to |-> k]
           Turn(u, a) == IF a = 0 THEN << >> ELSE IF HasItems(a) THEN Append(u[a - 1], Of(a)) ELSE u[a - 1]
           Good(s) == s \in Seq(Entry) /\ \A n \in DOMAIN s : s[n].pass \in Rec(k).has
           Upto(m) == \E u \in [0..m -> Seq(Entry)] :
                        \A a \in 0..m : a <= NrPass => u[a] = Turn(u, a) /\ Good(u[a])
           S == { m \in Nat : Upto(m) }
<1>1. NrPass \in Nat
  BY SarReportAssumption
<1>2. Good(<< >>)
  OBVIOUS
<1>3. ASSUME NEW s, Good(s), NEW a \in 1..NrPass, HasItems(a) PROVE Good(Append(s, Of(a)))
  <2>1. Of(a) \in Entry /\ Of(a).pass \in Rec(k).has
    BY <1>3 DEF Entry, Pass
  <2> HIDE DEF Of
  <2> QED
    BY <1>3, <2>1
<1> HIDE DEF HasItems, Of, Good
<1>4. 0 \in S
  <2>1. [a \in 0..0 |-> << >>] \in [0..0 -> Seq(Entry)]
    OBVIOUS
  <2>2. \A a \in 0..0 : [b \in 0..0 |-> << >>][a] = << >> /\ a = 0
    OBVIOUS
  <2> DEFINE w == [a \in 0..0 |-> << >>]
  <2>3. \A a \in 0..0 : w[a] = Turn(w, a) /\ Good(w[a])
    BY <1>2, <2>2
  <2> HIDE DEF w, Turn
  <2> QED
    BY <2>1, <2>3 DEF w
<1>5. ASSUME NEW m \in Nat, m \in S PROVE m + 1 \in S
  <2>1. PICK u \in [0..m -> Seq(Entry)] : \A a \in 0..m : a <= NrPass => u[a] = Turn(u, a) /\ Good(u[a])
    BY <1>5
  <2> DEFINE next == IF m + 1 <= NrPass /\ HasItems(m + 1) THEN Append(u[m], Of(m + 1)) ELSE u[m]
             v == [a \in 0..(m + 1) |-> IF a = m + 1 THEN next ELSE u[a]]
  <2>2. u[m] \in Seq(Entry)
    OBVIOUS
  <2>3. m + 1 <= NrPass => Good(next)
    <3>1. m + 1 <= NrPass => Good(u[m])
      BY <1>1, <2>1
    <3> QED
      BY <1>1, <1>3, <3>1
  <2>4. next \in Seq(Entry)
    <3>1. CASE m + 1 <= NrPass
      BY <2>3, <3>1 DEF Good
    <3> QED
      BY <1>1, <2>2, <3>1
  <2> HIDE DEF next
  <2>5. v \in [0..(m + 1) -> Seq(Entry)]
    BY <2>4
  <2>6. ASSUME NEW a \in 0..(m + 1), a <= NrPass PROVE v[a] = Turn(v, a) /\ Good(v[a])
    <3>1. CASE a = m + 1
      <4>1. v[a] = next /\ v[a - 1] = u[m] /\ a # 0
        BY <3>1
      <4> QED
        BY <2>3, <2>6, <3>1, <4>1 DEF next
    <3>2. CASE a # m + 1
      <4>1. a \in 0..m /\ v[a] = u[a] /\ (a # 0 => v[a - 1] = u[a - 1])
        BY <3>2
      <4>2. u[a] = Turn(u, a) /\ Good(u[a])
        BY <2>1, <2>6, <4>1
      <4> HIDE DEF v
      <4> QED
        BY <4>1, <4>2
    <3> QED
      BY <3>1, <3>2
  <2> HIDE DEF v, Turn
  <2>7. Upto(m + 1)
    BY <2>5, <2>6
  <2> HIDE DEF Upto
  <2> QED
    BY <2>7
<1>6. NrPass \in S
  <2> HIDE DEF S
  <2> QED
    BY <1>1, <1>4, <1>5, EveryNumber
<1>7. PICK u \in [0..NrPass -> Seq(Entry)] : \A a \in 0..NrPass : u[a] = Turn(u, a) /\ Good(u[a])
  BY <1>1, <1>6
<1> DEFINE upTo == CHOOSE g : g = [a \in 0..NrPass |-> Turn(g, a)]
<1>8. u = [a \in 0..NrPass |-> Turn(u, a)]
  BY <1>7
<1>9. upTo = [a \in 0..NrPass |-> Turn(upTo, a)]
  BY <1>8
<1> HIDE DEF upTo
<1>15. \A a \in 0..NrPass : upTo[a] = Turn(upTo, a)
  <2> HIDE DEF Turn
  <2> QED
    BY <1>9
<1> DEFINE T == { m \in Nat : \A a \in 0..m : a <= NrPass => Good(upTo[a]) }
<1>10. 0 \in T
  BY <1>1, <1>2, <1>15
<1>11. ASSUME NEW m \in Nat, m \in T PROVE m + 1 \in T
  <2> SUFFICES ASSUME m + 1 <= NrPass PROVE Good(upTo[m + 1])
    BY <1>1, <1>11
  <2>1. Good(upTo[m])
    BY <1>1, <1>11
  <2>2. upTo[m + 1] = Turn(upTo, m + 1)
    BY <1>1, <1>15
  <2>3. m + 1 \in 1..NrPass /\ (m + 1) - 1 = m /\ m + 1 # 0
    BY <1>1
  <2>4. upTo[m + 1] = IF HasItems(m + 1) THEN Append(upTo[m], Of(m + 1)) ELSE upTo[m]
    BY <2>2, <2>3, Zenon
  <2> QED
    BY <1>3, <2>1, <2>3, <2>4, Zenon
<1>12. NrPass \in T
  <2> HIDE DEF T
  <2> QED
    BY <1>1, <1>10, <1>11, EveryNumber
<1>13. Good(upTo[NrPass])
  BY <1>1, <1>12
<1>14. LinesOf(i, k) = upTo[NrPass]
  BY Zenon DEF LinesOf, upTo, HasItems, Of
<1> QED
  BY <1>13, <1>14, Zenon DEF Good

\* Nothing, special records and lines of listed activities can be added to what
\* is displayed.
LEMMA DrawMore ==
  ASSUME NEW s, Drawn(s)
  PROVE  /\ \A t : Drawn(t) => Drawn(s \o t)
         /\ \A e \in Entry : e.kind # "line" => Drawn(Append(s, e))
<1>1. ASSUME NEW t, Drawn(t) PROVE Drawn(s \o t)
  <2>1. s \in Seq(Entry) /\ t \in Seq(Entry) /\ s \o t \in Seq(Entry)
    BY <1>1 DEF Drawn
  <2>2. ASSUME NEW i \in DOMAIN (s \o t), (s \o t)[i].kind = "line"
        PROVE  (s \o t)[i].pass \in listed
    <3>1. \/ i \in DOMAIN s /\ (s \o t)[i] = s[i]
          \/ i - Len(s) \in DOMAIN t /\ (s \o t)[i] = t[i - Len(s)]
      <4>1. i \in 1..(Len(s) + Len(t)) /\ Len(s) \in Nat /\ Len(t) \in Nat
        BY <2>1
      <4>2. (s \o t)[i] = IF i <= Len(s) THEN s[i] ELSE t[i - Len(s)]
        BY <2>1, <4>1
      <4> QED
        BY <2>1, <4>1, <4>2
    <3> QED
      BY <1>1, <2>2, <3>1 DEF Drawn
  <2> QED
    BY <2>1, <2>2 DEF Drawn
<1>2. ASSUME NEW e \in Entry, e.kind # "line" PROVE Drawn(Append(s, e))
  BY <1>2 DEF Drawn
<1> QED
  BY <1>1, <1>2

\* What was displayed stays displayed, as long as no activity is taken off.
LEMMA DrawnNext ==
  ASSUME listed' = listed
  PROVE  \A s : Drawn(s) => Drawn(s)'
BY DEF Drawn

\* The file is what it was.
LEMMA SameFiles ==
  ASSUME job' = job, whole' = whole, heads' = heads
  PROVE  Begun' = Begun /\ Timely' = Timely /\ (Given => Given')
<1>1. \A k : Rec(k)' = Rec(k) /\ Late(k, FALSE)' = Late(k, FALSE) /\ InRange(k)' = InRange(k) /\ Stats(k)' = Stats(k)
  BY DEF Rec, Late, InRange, Early, TimeOfDay, TmEnd, Stats
<1>2. Begun' = Begun
  BY <1>1 DEF Begun
<1>3. Timely' = Timely
  BY <1>1 DEF Timely
<1>4. EndsOnce' = EndsOnce
  BY <1>1 DEF EndsOnce
<1>5. IsCase(job)' = IsCase(job)
  BY DEF IsCase
<1> QED
  BY <1>2, <1>3, <1>4, <1>5 DEF Given

\* A record that is read is a record of the file; a sample is complete.
LEMMA ReadIs ==
  ASSUME Given, pos \in Nat \ {0}, NEW s, NEW keep \in BOOLEAN, ReadNextSample(s, keep)
  PROVE  /\ pos \in 1..Len(job.file) /\ pos <= heads
         /\ Stats(pos) => pos <= whole
         /\ Rec(pos).type \in {"stats", "restart", "comment"}
         /\ pos' = pos + 1
<1>1. NextIs \notin {"eof", "exit"} /\ pos' = pos + 1
  BY DEF ReadNextSample
<1>2. pos <= heads
  BY <1>1 DEF NextIs, Given
<1>3. pos \in 1..Len(job.file)
  BY <1>2 DEF Given
<1>4. ASSUME Stats(pos), ~(pos <= whole) PROVE FALSE
  <2>1. Rec(pos).type = "stats" /\ ~(pos > heads)
    BY <1>2, <1>4 DEF Stats, Given
  <2>2. NextIs = IF Tolerant THEN "eof" ELSE "exit"
    BY <1>4, <2>1 DEF NextIs, Stats
  <2> QED
    BY <1>1, <2>2
<1>5. IsCase(job)
  BY Zenon DEF Given
<1>6. Rec(pos).type \in {"stats", "restart", "comment"}
  BY <1>3, <1>5, RecType
<1> QED
  BY <1>1, <1>2, <1>3, <1>4, <1>6, Zenon

\* The file is not written to, and the format is what it is.
Fixed == UNCHANGED << job, heads, whole, loop >>

\* Records, and the samples before them, are numbers.
LEMMA Numbers ==
  ASSUME Given
  PROVE  /\ Begun \subseteq Nat \ {0} /\ Timely \subseteq Nat \ {0} /\ whole \in Nat
         /\ \A n, m \in Nat : Reached(n) /\ n <= m => Reached(m)
<1>1. Begun \subseteq Nat \ {0} /\ Timely \subseteq Nat \ {0} /\ whole \in Nat
  <2>1. Len(job.file) \in Nat /\ whole \in Nat
    BY DEF Given, IsCase
  <2>2. 1..Len(job.file) \subseteq Nat \ {0}
    BY <2>1
  <2>3. Begun \subseteq 1..Len(job.file) /\ Timely \subseteq 1..Len(job.file)
    BY Zenon DEF Begun, Timely
  <2> QED
    BY <2>1, <2>2, <2>3, Zenon
<1>2. ASSUME NEW n \in Nat, NEW m \in Nat, Reached(n), n <= m PROVE Reached(m)
  <2>1. PICK f \in Begun : f < n
    BY <1>2 DEF Reached
  <2>2. f < m
    BY <1>1, <1>2, <2>1
  <2> QED
    BY <2>2 DEF Reached
<1> QED
  BY <1>1, <1>2

\* A record has been read before the next one if it was read or it is the one
\* that is read now.
LEMMA ReachedNext ==
  ASSUME Given, Fixed, pos \in Nat \ {0}
  PROVE  /\ Reached(pos + 1) <=> Reached(pos) \/ pos \in Begun
         /\ \A n : Reached(n)' <=> Reached(n)
<1>1. Begun \subseteq Nat \ {0} /\ Begun' = Begun
  BY Numbers, SameFiles DEF Fixed
<1> QED
  BY <1>1 DEF Reached

\* The samples of the interval are listed when they are counted.
LEMMA ListedNext ==
  ASSUME Given, Fixed, NEW p \in Nat \ {0},
         listed \subseteq listed', Listed(p),
         p \in Timely /\ p <= whole => Rec(p).has \subseteq listed'
  PROVE  Listed(p + 1)'
<1>1. Timely' = Timely /\ Begun' = Begun /\ whole' = whole /\ \A k : Rec(k)' = Rec(k)
  BY SameFiles DEF Fixed, Rec
<1>2. Timely \subseteq Nat
  BY Numbers
<1> QED
  BY <1>1, <1>2 DEF Listed

\* The step of a search that goes on or finds the first record of the interval.
LEMMA SearchCounts ==
  ASSUME Given, Fixed, Counts, Budget, CountSearch
  PROVE  Budget'
<1>1. /\ pos \in Nat \ {0} /\ fpos \in Nat \ {0} /\ curr \in {0, 1} /\ buf \in [0..2 -> Nat]
      /\ ~Reached(pos) /\ pc \in {"first"} \cup Over /\ out = << >> /\ sketch = << >>
  <2>1. stage = "search" /\ Walk /\ Tallied
    BY Zenon DEF Budget, CountSearch
  <2>2. Counting
    BY <2>1 DEF Counting
  <2>3. ~Reached(pos) /\ pc \in {"first"} \cup Over /\ out = << >> /\ sketch = << >>
    BY <2>1, <2>2, Zenon DEF Tallied
  <2> QED
    BY <2>1, <2>3, Zenon DEF Walk
<1>2. fpos' = fpos /\ curr' = curr /\ sketch' = sketch /\ stage = "search" /\ out' = out
  BY Zenon DEF CountSearch, Eof
<1>3. Drawn(out)' /\ Drawn(sketch)'
  BY <1>1, <1>2 DEF Drawn
<1>4. CASE Eof(FALSE) /\ pc' = "done" /\ UNCHANGED << stage, listed >>
  <2>1. pos' = pos /\ buf' = buf
    BY <1>4, Zenon DEF Eof
  <2>2. Walk'
    BY <1>1, <1>2, <1>4, <2>1 DEF Walk
  <2>3. Tallied'
    BY <1>1, <1>2, <1>4, <2>1, ReachedNext DEF Tallied, Counting, Displaying, Over
  <2> QED
    BY <1>3, <2>2, <2>3 DEF Budget
<1>5. CASE /\ ReadNextSample(0, FALSE)
           /\ stage' = (IF InRange(pos) THEN "items" ELSE stage)
           /\ listed' = (IF InRange(pos) /\ buf'[0] # 0 THEN Rec(buf'[0]).has ELSE listed)
           /\ UNCHANGED << pc, out >>
  <2>1. pos \in 1..Len(job.file) /\ pos' = pos + 1
    BY <1>1, <1>5, ReadIs
  <2>2. buf' = IF Stats(pos) THEN [buf EXCEPT ![0] = pos] ELSE buf
    <3>1. buf' = IF Stats(pos) THEN [buf EXCEPT ![0] = pos, ![2] = IF FALSE THEN pos ELSE @] ELSE buf
      BY <1>5, Zenon DEF ReadNextSample
    <3> QED
      BY <1>1, <3>1
  <2>3. buf' \in [0..2 -> Nat]
    BY <1>1, <2>2
  <2>4. Walk'
    BY <1>1, <1>2, <1>5, <2>1, <2>3 DEF Walk, Over
  <2>5. pos \in Begun <=> InRange(pos)
    BY <2>1 DEF Begun
  <2>6. CASE InRange(pos)
    <3>1. stage' = "items"
      BY <1>5, <2>6
    <3>2. ASSUME NEW k \in Timely, k < pos + 1, NEW f \in Begun, f <= k
          PROVE  k = pos /\ Stats(k)
      <4>1. ~(f < pos)
        BY <1>1, <3>2 DEF Reached
      <4> QED
        BY <1>1, <3>2, <4>1, Numbers DEF Timely
    <3>3. Stats(pos) => listed' = Rec(pos).has
      BY <1>1, <1>5, <2>2, <2>6
    <3>4. Timely' = Timely /\ Begun' = Begun /\ \A k : Rec(k)' = Rec(k)
      BY SameFiles DEF Fixed, Rec
    <3>5. Listed(pos)'
      BY <2>1, <3>2, <3>3, <3>4 DEF Listed
    <3> QED
      BY <1>1, <1>2, <1>3, <1>5, <2>4, <3>1, <3>5 DEF Budget, Tallied, Counting, Displaying
  <2>7. CASE ~InRange(pos)
    <3>1. stage' = "search" /\ ~Reached(pos)'
      BY <1>1, <1>2, <1>5, <2>1, <2>5, <2>7, ReachedNext
    <3> QED
      BY <1>1, <1>2, <1>3, <1>5, <2>4, <3>1 DEF Budget, Tallied, Counting, Displaying
  <2> QED
    BY <2>6, <2>7
<1> QED
  BY <1>4, <1>5, Zenon DEF CountSearch

\* All the samples of the interval are listed when the end of the file, or of the
\* interval, is met.
LEMMA AllListed ==
  ASSUME Given, Counts, Fixed, listed' = listed, NEW p \in Nat \ {0}, Listed(p),
         p > whole \/ (p \in 1..Len(job.file) /\ Late(p, FALSE))
  PROVE  Listed(whole + 1)'
<1>1. Timely' = Timely /\ Begun' = Begun /\ whole' = whole /\ \A k : Rec(k)' = Rec(k)
  BY SameFiles DEF Fixed, Rec
<1>2. Timely \subseteq Nat \ {0} /\ whole \in Nat
  BY Numbers
<1>3. ASSUME NEW k \in Timely, k <= whole PROVE k < p
  <2>1. CASE p > whole
    BY <1>2, <1>3, <2>1
  <2>2. CASE p \in 1..Len(job.file) /\ Late(p, FALSE)
    <3>1. k \in 1..Len(job.file) /\ ~Late(k, FALSE)
      BY Zenon DEF Timely
    <3>2. ~(p < k) /\ p # k
      BY <2>2, <3>1, Zenon DEF Given, EndsOnce
    <3> QED
      BY <1>2, <2>2, <3>1, <3>2
  <2> QED
    BY <2>1, <2>2
<1> QED
  BY <1>1, <1>3 DEF Listed

\* Counting goes on, or the file is read again from its first sample.
LEMMA ItemsCount ==
  ASSUME Given, Fixed, Counts, Budget, CountItems
  PROVE  Budget'
<1>1. /\ pos \in Nat \ {0} /\ fpos \in Nat \ {0} /\ curr \in {0, 1} /\ buf \in [0..2 -> Nat]
      /\ Listed(pos) /\ pc \in {"first"} \cup Over /\ out = << >> /\ sketch = << >>
  <2>1. stage = "items" /\ Walk /\ Tallied
    BY Zenon DEF Budget, CountItems
  <2>2. Counting
    BY <2>1 DEF Counting
  <2>3. Listed(pos) /\ pc \in {"first"} \cup Over /\ out = << >> /\ sketch = << >>
    BY <2>1, <2>2, Zenon DEF Tallied
  <2> QED
    BY <2>1, <2>3, Zenon DEF Walk
<1>2. fpos' = fpos /\ curr' = curr /\ sketch' = sketch /\ stage = "items" /\ out' = out /\ pc' = pc
  BY Zenon DEF CountItems, Eof
<1>3. Drawn(out)' /\ Drawn(sketch)'
  BY <1>1, <1>2 DEF Drawn
<1>4. ASSUME pos' \in Nat \ {0}, buf' \in [0..2 -> Nat] PROVE Walk'
  BY <1>1, <1>2, <1>4 DEF Walk, Over
<1>5. ASSUME stage' = "show", Walk', Listed(whole + 1)' PROVE Budget'
  BY <1>1, <1>2, <1>3, <1>5 DEF Budget, Tallied, Counting, Displaying
<1>6. CASE Eof(TRUE) /\ stage' = "show" /\ UNCHANGED listed
  <2>1. pos' = fpos /\ buf' = buf /\ NextIs = "eof"
    BY <1>6, Zenon DEF Eof
  <2>2. pos > whole
    <3>1. CASE pos <= heads /\ pos <= whole
      <4>1. Rec(pos).type \in {"stats", "restart", "comment"}
        BY <1>1, <3>1, RecType DEF Given
      <4>2. NextIs = Rec(pos).type
        BY <1>1, <3>1 DEF NextIs, Given
      <4> QED
        BY <2>1, <4>1, <4>2
    <3> QED
      BY <1>1, <3>1 DEF Given
  <2>3. Listed(whole + 1)'
    BY <1>1, <1>6, <2>2, AllListed
  <2> QED
    BY <1>1, <1>4, <1>5, <1>6, <2>1, <2>3
<1>7. CASE /\ ReadNextSample(0, FALSE) /\ ~Counted
           /\ listed' = (IF Stats(pos) THEN listed \cup Rec(pos).has ELSE listed)
           /\ UNCHANGED << stage, out >>
  <2>1. pos' = pos + 1
    BY <1>1, <1>7, ReadIs
  <2>2. buf' \in [0..2 -> Nat]
    BY <1>1, <1>7 DEF ReadNextSample
  <2>3. listed \subseteq listed' /\ (pos \in Timely => Rec(pos).has \subseteq listed')
    BY <1>7, Zenon DEF Timely
  <2>4. \A p \in {pos} : Listed(p + 1)'
    BY <1>1, <2>3, ListedNext
  <2>5. Listed(pos)'
    BY <2>1, <2>4 DEF Listed
  <2> QED
    BY <1>1, <1>2, <1>3, <1>4, <1>7, <2>1, <2>2, <2>5 DEF Budget, Tallied, Counting, Displaying
<1>8. CASE /\ NextIs \notin {"eof", "exit"} /\ Counted
           /\ stage' = "show" /\ pos' = fpos
           /\ buf' = (IF Stats(pos) THEN [buf EXCEPT ![0] = pos] ELSE buf)
           /\ UNCHANGED << listed, out >>
  <2>1. pos \in 1..Len(job.file)
    BY <1>1, <1>8 DEF NextIs, Given
  <2>2. Late(pos, FALSE)
    BY <1>8, Zenon DEF Counted
  <2>3. Listed(whole + 1)'
    BY <1>1, <1>8, <2>1, <2>2, AllListed
  <2>4. buf' \in [0..2 -> Nat]
    BY <1>1, <1>8
  <2> QED
    BY <1>1, <1>4, <1>5, <1>8, <2>3, <2>4
<1> QED
  BY <1>6, <1>7, <1>8, Zenon DEF CountItems

\* What is displayed of a special record is not a line.
LEMMA SpecialDrawn ==
  ASSUME Given, pos \in Nat \ {0}, pos <= heads, listed' = listed, Drawn(out), out' \in {out, SpecialShown}
  PROVE  Drawn(out)'
<1>1. CASE out' = out
  BY <1>1, DrawnNext DEF Drawn
<1>2. CASE out' # out
  <2>1. Rec(pos).type \in NotIgnored /\ out' = Append(out, Special(pos))
    BY <1>2 DEF SpecialShown, Shown
  <2>2. Rec(pos).type \in {"restart", "comment"}
    BY <2>1 DEF NotIgnored
  <2>3. Special(pos) \in Entry /\ Special(pos).kind # "line"
    BY <2>2 DEF Special, Entry
  <2>4. Drawn(Append(out, Special(pos)))
    BY <2>3, DrawMore, Zenon
  <2> QED
    BY <2>1, <2>4 DEF Drawn
<1> QED
  BY <1>1, <1>2

\* What has been counted is kept while samples are displayed.
LEMMA StillTallied ==
  ASSUME Given, Fixed, Budget, Displaying, listed' = listed, stage' \in {"show", "mock"}
  PROVE  Tallied' /\ Listed(whole + 1)
<1>1. Timely' = Timely /\ Begun' = Begun /\ whole' = whole /\ \A k : Rec(k)' = Rec(k)
  BY SameFiles DEF Fixed, Rec
<1>2. Listed(whole + 1)
  BY DEF Budget, Tallied
<1>3. Listed(whole + 1)'
  BY <1>1, <1>2 DEF Listed
<1> QED
  BY <1>2, <1>3 DEF Tallied, Counting

\* What is displayed of a sample of the interval is listed.
LEMMA WriteDrawn ==
  ASSUME Given, Fixed, Budget, Listed(whole + 1), listed' = listed,
         NEW k \in 1..Len(job.file), Stats(k), k <= whole, Reached(k), NEW p,
         GenericWriteStats(p, k)
  PROVE  Drawn(out)' /\ Drawn(sketch)' /\ curr' \in {0, 1}
<1>1. buf \in [0..2 -> Nat] /\ curr \in {0, 1} /\ Drawn(out) /\ Drawn(sketch)
  BY DEF Budget, Walk
<1>2. \E lines \in {<< >>, LinesOf(buf[1 - curr], k)} :
        /\ lines # << >> => ~Late(k, CrossDay(p, k))
        /\ out' \in {out, out \o lines} /\ sketch' \in {sketch, sketch \o lines}
        /\ curr' \in {curr, 1 - curr}
  BY DEF GenericWriteStats
<1>3. PICK lines \in {<< >>, LinesOf(buf[1 - curr], k)} :
        /\ lines # << >> => ~Late(k, CrossDay(p, k))
        /\ out' \in {out, out \o lines} /\ sketch' \in {sketch, sketch \o lines}
        /\ curr' \in {curr, 1 - curr}
  BY <1>2
<1>4. Drawn(lines)
  <2>1. CASE lines = << >>
    BY <2>1 DEF Drawn
  <2>2. CASE lines # << >>
    <3>1. ~Late(k, FALSE)
      <4>1. TimeOfDay(k) \in Int /\ DayLen \in Nat /\ (job.end # Unset => TmEnd \in Int)
        <5>1. IsCase(job) /\ DayLen \in Nat \ {0}
          BY SarReportAssumption, Zenon DEF Given
        <5>2. Rec(k).at \in Nat
          BY <5>1, RecType
        <5>3. TimeOfDay(k) \in Int
          BY <5>1, <5>2 DEF TimeOfDay
        <5>4. job.end # Unset => job.end \in Int
          BY <5>1 DEF IsCase
        <5>5. job.end # Unset => TmEnd \in Int
          BY <5>1, <5>4 DEF TmEnd
        <5> QED
          BY <5>1, <5>3, <5>5
      <4>2. ~Late(k, CrossDay(p, k))
        BY <1>3, <2>2
      <4>3. job.end = Unset \/ ~(TimeOfDay(k) + (IF CrossDay(p, k) THEN DayLen ELSE 0) > TmEnd)
        BY <4>2 DEF Late
      <4> QED
        BY <4>1, <4>3 DEF Late
    <3>2. k \in Timely
      BY <3>1, Zenon DEF Timely
    <3>3. \E f \in Begun : f <= k
      BY Numbers DEF Reached
    <3>4. Rec(k).has \subseteq listed
      BY <3>2, <3>3 DEF Listed, Given
    <3>5. buf[1 - curr] \in Nat /\ k \in Nat
      BY <1>1
    <3> QED
      BY <1>3, <2>2, <3>4, <3>5, LinesOfType DEF Drawn
  <2> QED
    BY <2>1, <2>2
<1>5. Drawn(out \o lines) /\ Drawn(sketch \o lines)
  BY <1>1, <1>4, DrawMore
<1>6. Drawn(out)' /\ Drawn(sketch)'
  BY <1>1, <1>3, <1>5 DEF Drawn
<1> QED
  BY <1>1, <1>3, <1>6

\* A slot of the buffers holds records that were read.
LEMMA ReadBuffers ==
  ASSUME pos \in Nat \ {0}, buf \in [0..2 -> Nat], NEW s, NEW keep \in BOOLEAN, ReadNextSample(s, keep)
  PROVE  buf' \in [0..2 -> Nat]
BY DEF ReadNextSample

\* The first sample of a segment is of the interval.
LEMMA FirstCounts ==
  ASSUME Given, Fixed, Counts, Budget, FirstSample
  PROVE  Budget'
<1>1. /\ pos \in Nat \ {0} /\ fpos \in Nat \ {0} /\ curr \in {0, 1} /\ buf \in [0..2 -> Nat]
      /\ Drawn(out) /\ Drawn(sketch)
  BY Zenon DEF Budget, Walk
<1>2. /\ Displaying /\ pc = "first" /\ sketch' = sketch /\ listed' = listed
      /\ loop # "records" /\ loop' = loop
  BY DEF FirstSample, Counts, Fixed
<1>3. stage \in {"show", "mock"} /\ stage' \in {"show", "mock"}
  <2>1. stage' \in {stage, "mock"}
    BY <1>2 DEF FirstSample, EndOfFile
  <2> QED
    BY <1>2, <2>1 DEF Displaying
<1>4. Tallied'
  BY <1>2, <1>3, StillTallied
<1>5. Drawn(sketch)'
  BY <1>1, <1>2, DrawnNext DEF Drawn
<1>6. CASE Eof(loop = "records") /\ EndOfFile("done") /\ UNCHANGED << fpos, curr, cnt, reset >>
  <2>1. pos' = pos /\ buf' = buf /\ out' = out /\ pc' = "done"
    BY <1>2, <1>6 DEF Eof, EndOfFile
  <2>2. Walk'
    BY <1>1, <1>6, <2>1 DEF Walk
  <2>3. Drawn(out)'
    BY <1>1, <1>2, <2>1 DEF Drawn
  <2> QED
    BY <1>4, <1>5, <2>2, <2>3 DEF Budget
<1>7. CASE /\ ReadNextSample(0, Stats(pos) /\ InRange(pos))
           /\ out' = SpecialShown
           /\ IF Stats(pos) /\ InRange(pos)
                THEN /\ reset' = TRUE
                     /\ IF loop \in {"records", "archive"}
                          THEN pc' = "line" /\ curr' = 1 /\ cnt' = job.count /\ UNCHANGED << fpos, stage >>
                          ELSE /\ pc' = "begin" /\ fpos' = pos + 1 /\ UNCHANGED << curr, cnt >>
                               /\ stage' = IF loop = "graphs" THEN "mock" ELSE stage
                ELSE UNCHANGED << pc, curr, cnt, reset, fpos, stage >>
  <2>1. (Stats(pos) /\ InRange(pos)) \in BOOLEAN
    BY DEF Stats, InRange
  <2>2. pos \in 1..Len(job.file) /\ pos <= heads /\ pos' = pos + 1
    BY <1>1, <1>7, <2>1, ReadIs, Zenon
  <2>3. buf' \in [0..2 -> Nat]
    BY <1>1, <1>7, <2>1, ReadBuffers, Zenon
  <2>4. Drawn(out)'
    BY <1>1, <1>2, <1>7, <2>2, SpecialDrawn
  <2>5. Walk'
    <3>1. CASE Stats(pos) /\ InRange(pos)
      <4>1. Reached(pos + 1)
        BY <1>1, <2>2, <3>1, ReachedNext DEF Begun
      <4>2. Reached(pos)'
        BY <1>1, <2>2, <4>1, ReachedNext, SameFiles DEF Reached, Fixed
      <4>3. CASE loop = "archive"
        <5>1. pc' = "line" /\ curr' = 1 /\ fpos' = fpos
          BY <1>7, <3>1, <4>3
        <5> QED
          BY <1>1, <1>2, <2>2, <2>3, <4>2, <4>3, <5>1 DEF Walk
      <4>4. CASE loop = "graphs"
        <5>1. pc' = "begin" /\ curr' = curr /\ fpos' = pos'
          BY <1>7, <2>2, <3>1, <4>4
        <5>2. Reached(fpos)'
          BY <4>2, <5>1 DEF Reached
        <5> QED
          BY <1>1, <1>2, <2>2, <2>3, <4>2, <4>4, <5>1, <5>2 DEF Walk
      <4> QED
        BY <4>3, <4>4 DEF Counts
    <3>2. CASE ~(Stats(pos) /\ InRange(pos))
      <4>1. pc' = "first" /\ curr' = curr /\ fpos' = fpos
        BY <1>2, <1>7, <3>2
      <4> QED
        BY <1>1, <2>2, <2>3, <4>1 DEF Walk
    <3> QED
      BY <3>1, <3>2
  <2> QED
    BY <1>4, <1>5, <2>4, <2>5 DEF Budget
<1> QED
  BY <1>6, <1>7, Zenon DEF FirstSample

\* Back to the first sample of the segment.
LEMMA RewindCounts ==
  ASSUME Given, Fixed, Counts, Budget, Rewind
  PROVE  Budget'
<1>1. /\ pos \in Nat \ {0} /\ fpos \in Nat \ {0} /\ curr \in {0, 1} /\ buf \in [0..2 -> Nat]
      /\ Drawn(out) /\ Drawn(sketch) /\ Tallied
  BY Zenon DEF Budget, Walk
<1>2. /\ pc = "begin" /\ pc' = "line" /\ pos' = fpos /\ fpos' = fpos /\ curr' = curr /\ out' = out
      /\ buf' = [buf EXCEPT ![1 - curr] = buf[2]]
      /\ stage' = stage /\ sketch' = sketch /\ listed' = listed /\ loop' = loop
  BY Zenon DEF Rewind, Begin, Fixed
<1>3. Reached(fpos) /\ loop = "graphs"
  BY <1>2 DEF Budget, Walk
<1>4. Displaying
  <2>1. ~Counting \/ pc \in {"first"} \cup Over
    BY <1>1, Zenon DEF Tallied
  <2> QED
    BY <1>1, <1>2, <2>1 DEF Tallied, Counting, Displaying, Over
<1>5. Tallied'
  BY <1>2, <1>4, StillTallied DEF Displaying
<1>6. Drawn(out)' /\ Drawn(sketch)'
  BY <1>1, <1>2 DEF Drawn
<1>7. Reached(pos)' /\ Reached(fpos)'
  BY <1>2, <1>3, SameFiles DEF Reached, Fixed
<1>8. buf' \in [0..2 -> Nat]
  BY <1>1, <1>2
<1> QED
  BY <1>1, <1>2, <1>3, <1>5, <1>6, <1>7, <1>8 DEF Budget, Walk

\* What holds while samples are displayed.
LEMMA WhileShown ==
  ASSUME Given, Fixed, Counts, Budget, Displaying, listed' = listed, stage' \in {"show", "mock"}
  PROVE  /\ pos \in Nat \ {0} /\ fpos \in Nat \ {0} /\ curr \in {0, 1} /\ buf \in [0..2 -> Nat]
         /\ Drawn(out) /\ Drawn(sketch) /\ Tallied' /\ Listed(whole + 1)
         /\ loop' = loop /\ loop \in {"archive", "graphs"}
         /\ out' = out => Drawn(out)'
         /\ sketch' = sketch => Drawn(sketch)'
         /\ \A n : Reached(n)' <=> Reached(n)
         /\ Reached(pos) => Reached(pos + 1)
<1>1. /\ pos \in Nat \ {0} /\ fpos \in Nat \ {0} /\ curr \in {0, 1} /\ buf \in [0..2 -> Nat]
      /\ Drawn(out) /\ Drawn(sketch)
  BY Zenon DEF Budget, Walk
<1>2. loop' = loop /\ loop \in {"archive", "graphs"}
  BY Zenon DEF Fixed, Counts
<1>3. /\ out' = out => Drawn(out)'
      /\ sketch' = sketch => Drawn(sketch)'
  BY <1>1 DEF Drawn
<1> QED
  BY <1>1, <1>2, <1>3, StillTallied, ReachedNext

\* A turn of the loops that display samples.
LEMMA LineCounts ==
  ASSUME Given, Fixed, Counts, Budget, NextSample
  PROVE  Budget'
<1>1. Displaying /\ pc = "line" /\ fpos' = fpos /\ listed' = listed
  BY Zenon DEF NextSample
<1>2. stage' = stage /\ stage \in {"show", "mock"}
  <2>1. loop # "records"
    BY DEF Counts
  <2>2. stage' = stage
    BY <2>1, Zenon DEF NextSample, EndOfFile
  <2> QED
    BY <1>1, <2>2 DEF Displaying
<1>3. Reached(pos) /\ (loop = "graphs" => Reached(fpos))
  BY <1>1, Zenon DEF Budget, Walk
<1>4. ASSUME pos' \in {pos, pos + 1}, buf' \in [0..2 -> Nat], curr' \in {0, 1},
             pc' \in {"begin", "average", "resume"} => loop = "graphs"
      PROVE  Walk'
  <2>1. pos' \in Nat \ {0} /\ Reached(pos')
    BY <1>1, <1>2, <1>3, <1>4, WhileShown
  <2>2. Reached(pos)' /\ (loop = "graphs" => Reached(fpos)')
    <3>1. \A n : Reached(n)' <=> Reached(n)
      BY <1>1, <1>2, WhileShown
    <3>2. ASSUME NEW p \in {pos'}, NEW f \in {fpos'}
          PROVE  Reached(p)' /\ (loop = "graphs" => Reached(f)')
      BY <1>1, <1>3, <2>1, <3>1
    <3> QED
      BY <3>2 DEF Reached
  <2> QED
    BY <1>1, <1>2, <1>4, <2>1, <2>2, WhileShown DEF Walk
<1>5. CASE /\ Eof(loop = "records") /\ EndOfFile("average")
           /\ UNCHANGED << curr, cnt, reset, reset_cd, last_uptime, cross_day, davg, sketch >>
  <2>1. pos' = pos /\ buf' = buf /\ out' = out /\ pc' = (IF loop = "archive" THEN "done" ELSE "average")
    BY <1>5 DEF Eof, EndOfFile, Counts
  <2>2. Walk'
    BY <1>1, <1>2, <1>4, <1>5, <2>1, WhileShown
  <2> QED
    BY <1>1, <1>2, <1>5, <2>1, <2>2, WhileShown DEF Budget
<1>6. CASE /\ ReadNextSample(curr, FALSE) /\ ~Stats(pos)
           /\ out' = SpecialShown
           /\ pc' = CASE Rec(pos).type = "comment" -> pc
                      [] loop \in {"records", "archive"} -> "first"
                      [] Grouped -> "average"
                      [] OTHER -> "resume"
           /\ UNCHANGED << curr, cnt, reset_cd, last_uptime, cross_day, davg, stage, sketch >>
  <2>1. pos' = pos + 1 /\ pos <= heads
    BY <1>1, <1>2, <1>6, ReadIs, WhileShown
  <2>2. buf' \in [0..2 -> Nat]
    BY <1>1, <1>2, <1>6, ReadBuffers, WhileShown
  <2>3. Drawn(out)'
    BY <1>1, <1>2, <1>6, <2>1, SpecialDrawn, WhileShown
  <2>4. pc' \in {"begin", "average", "resume"} => loop = "graphs"
    <3>1. CASE Rec(pos).type = "comment" /\ pc' = pc
      BY <1>1, <3>1
    <3>2. CASE Rec(pos).type # "comment"
      <4>1. ~Grouped
        BY DEF Grouped, Counts
      <4>2. CASE loop = "archive"
        BY <1>6, <3>2, <4>1, <4>2
      <4>3. CASE loop = "graphs"
        BY <4>3
      <4> QED
        BY <4>2, <4>3 DEF Counts
    <3>3. CASE Rec(pos).type = "comment" /\ pc' # pc
      <4>1. CASE loop = "archive"
        BY <1>6, <3>3, <4>1 DEF Grouped
      <4> QED
        BY <4>1 DEF Counts
    <3> QED
      BY <3>1, <3>2, <3>3
  <2>5. Walk'
    BY <1>1, <1>2, <1>4, <1>6, <2>1, <2>2, <2>4, WhileShown
  <2> QED
    BY <1>1, <1>2, <1>6, <2>3, <2>5, WhileShown DEF Budget
<1>7. CASE /\ ReadNextSample(curr, FALSE) /\ Stats(pos)
           /\ GenericWriteStats(hdr[1 - curr], pos)
           /\ pc' = IF cnt' # 0 THEN pc ELSE IF loop \in {"records", "archive"} THEN "skip" ELSE "average"
           /\ UNCHANGED stage
  <2>1. pos' = pos + 1 /\ pos \in 1..Len(job.file) /\ pos <= whole
    BY <1>1, <1>2, <1>7, ReadIs, WhileShown
  <2>2. buf' \in [0..2 -> Nat]
    BY <1>1, <1>2, <1>7, ReadBuffers, WhileShown
  <2>3. Drawn(out)' /\ Drawn(sketch)' /\ curr' \in {0, 1}
    BY <1>1, <1>2, <1>3, <1>7, <2>1, WriteDrawn, WhileShown
  <2>4. pc' \in {"begin", "average", "resume"} => loop = "graphs"
    BY <1>1, <1>7 DEF Counts
  <2>5. Walk'
    BY <1>4, <2>1, <2>2, <2>3, <2>4
  <2> QED
    BY <1>1, <1>2, <2>3, <2>5, WhileShown DEF Budget
<1> QED
  BY <1>5, <1>6, <1>7, Zenon DEF NextSample

\* The next activity, or what comes after the last one.
LEMMA ActivityCounts ==
  ASSUME Given, Fixed, Counts, Budget, NextActivity
  PROVE  Budget'
<1>1. /\ Displaying /\ pc = "average" /\ listed' = listed /\ sketch' = sketch /\ out' = out
      /\ pos' = pos /\ fpos' = fpos /\ buf' = buf
  BY Zenon DEF NextActivity
<1>2. Reached(pos) /\ Reached(fpos) /\ loop = "graphs"
  BY <1>1 DEF Budget, Walk
<1>3. stage' \in {"show", "mock"} /\ curr' \in {curr, 1} /\ pc' \in {"begin", "done"}
  BY <1>1, <1>2 DEF NextActivity, Displaying
<1>4. Reached(pos)' /\ Reached(fpos)'
  BY <1>1, <1>2, SameFiles DEF Reached, Fixed
<1>5. Walk'
  BY <1>1, <1>2, <1>3, <1>4, WhileShown DEF Walk
<1> QED
  BY <1>1, <1>3, <1>5, WhileShown DEF Budget

\* The rest of the records, up to a restart.
LEMMA ToRestartCounts ==
  ASSUME Given, Fixed, Counts, Budget, ToRestart
  PROVE  Budget'
<1>1. Displaying /\ pc = "skip" /\ fpos' = fpos /\ listed' = listed /\ curr' = curr /\ sketch' = sketch
  BY Zenon DEF ToRestart
<1>2. stage' = stage /\ stage \in {"show", "mock"}
  <2>1. loop # "records"
    BY DEF Counts
  <2>2. stage' = stage
    BY <2>1, Zenon DEF ToRestart, EndOfFile
  <2> QED
    BY <1>1, <2>2 DEF Displaying
<1>3. pc' \in {"skip", "first", "restart", "done"}
  BY <1>1 DEF ToRestart, EndOfFile, Counts
<1>4. CASE Eof(loop = "records")
  <2>1. pos' = pos /\ buf' = buf /\ out' = out
    BY <1>4 DEF Eof, Counts
  <2>2. Walk'
    BY <1>1, <1>2, <1>3, <2>1, WhileShown DEF Walk
  <2> QED
    BY <1>1, <1>2, <2>1, <2>2, WhileShown DEF Budget
<1>5. CASE ReadNextSample(curr, FALSE) /\ out' = SpecialShown
  <2>1. pos' = pos + 1 /\ pos <= heads
    BY <1>1, <1>2, <1>5, ReadIs, WhileShown
  <2>2. buf' \in [0..2 -> Nat]
    BY <1>1, <1>2, <1>5, ReadBuffers, WhileShown
  <2>3. Drawn(out)'
    BY <1>1, <1>2, <1>5, <2>1, SpecialDrawn, WhileShown
  <2>4. Walk'
    BY <1>1, <1>2, <1>3, <2>1, <2>2, WhileShown DEF Walk
  <2> QED
    BY <1>1, <1>2, <2>3, <2>4, WhileShown DEF Budget
<1> QED
  BY <1>4, <1>5, Zenon DEF ToRestart

\* The graphs go on after a restart.
LEMMA AfterRestartCounts ==
  ASSUME Given, Fixed, Counts, Budget, AfterRestart
  PROVE  Budget'
<1>1. /\ pc = "resume" /\ fpos' = fpos /\ listed' = listed /\ stage' = stage /\ sketch' = sketch
      /\ out' = out /\ curr' \in {curr, 1 - curr}
  BY DEF AfterRestart, Eof
<1>2. Reached(pos) /\ Reached(fpos) /\ loop = "graphs"
  BY <1>1 DEF Budget, Walk
<1>3. stage \in {"show", "mock"} /\ Displaying
  <2>1. Tallied
    BY DEF Budget
  <2>2. ~Counting \/ pc \in {"first"} \cup Over
    BY <2>1, Zenon DEF Tallied
  <2> QED
    BY <1>1, <2>1, <2>2 DEF Tallied, Counting, Displaying, Over
<1>4. pos' \in {pos, pos + 1} /\ buf' \in [0..2 -> Nat]
  <2>1. CASE Eof(FALSE)
    BY <1>1, <1>3, <2>1, WhileShown DEF Eof
  <2>2. CASE ReadNextSample(curr, FALSE)
    BY <1>1, <1>3, <2>2, ReadIs, ReadBuffers, WhileShown
  <2> QED
    BY <2>1, <2>2 DEF AfterRestart
<1>5. Walk'
  <2>1. pos' \in Nat \ {0} /\ Reached(pos')
    BY <1>1, <1>2, <1>3, <1>4, WhileShown
  <2>2. ASSUME NEW p \in {pos'}, NEW f \in {fpos'} PROVE Reached(p)' /\ Reached(f)'
    <3>1. \A n : Reached(n)' <=> Reached(n)
      BY <1>1, <1>3, WhileShown
    <3> QED
      BY <1>1, <1>2, <2>1, <3>1
  <2>3. Reached(pos)' /\ Reached(fpos)'
    BY <2>2 DEF Reached
  <2> QED
    BY <1>1, <1>2, <1>3, <1>4, <2>1, <2>3, WhileShown DEF Walk
<1> QED
  BY <1>1, <1>3, <1>5, WhileShown DEF Budget

\* Each step of sadf keeps the lists.
LEMMA NextCounts ==
  ASSUME Given, Counts, Budget, Fixed, SadfNext \/ UNCHANGED << vars, sadfVars >>
  PROVE  Budget'
<1>1. ASSUME UNCHANGED << pos, fpos, curr, buf, out, stage, sketch, listed >>, pc' \in {pc, "exit"}
      PROVE  Budget'
  <2>1. /\ pos \in Nat \ {0} /\ fpos \in Nat \ {0} /\ curr \in {0, 1} /\ buf \in [0..2 -> Nat]
        /\ Drawn(out) /\ Drawn(sketch) /\ Tallied
    BY Zenon DEF Budget, Walk
  <2>2. /\ Timely' = Timely /\ Begun' = Begun /\ whole' = whole /\ (\A k : Rec(k)' = Rec(k))
        /\ loop' = loop
    BY SameFiles DEF Fixed, Rec
  <2>3. Walk'
    <3>1. Reached(pos)' = Reached(pos) /\ Reached(fpos)' = Reached(fpos)
      BY <1>1, <2>2 DEF Reached
    <3>2. Walk
      BY DEF Budget
    <3> QED
      BY <1>1, <2>1, <2>2, <3>1, <3>2 DEF Walk
  <2>4. Tallied'
    <3>1. /\ Reached(pos)' = Reached(pos)
          /\ Listed(pos) => Listed(pos)'
          /\ Listed(whole + 1) => Listed(whole + 1)'
      BY <1>1, <2>2 DEF Reached, Listed
    <3>2. pc \in {"first"} \cup Over => pc' \in {"first"} \cup Over
      BY <1>1 DEF Over
    <3>3. Counting' = Counting /\ Displaying' = Displaying
      BY <1>1 DEF Counting, Displaying
    <3> HIDE DEF Counting, Displaying
    <3> QED
      BY <1>1, <2>1, <3>1, <3>2, <3>3 DEF Tallied
  <2>5. Drawn(out)' /\ Drawn(sketch)'
    BY <1>1, <2>1 DEF Drawn
  <2> QED
    BY <2>3, <2>4, <2>5 DEF Budget
<1>2. CASE Exit
  <2>1. UNCHANGED << pos, fpos, curr, buf, out, stage, sketch, listed >> /\ pc' = "exit"
    BY <1>2 DEF Exit, reader
  <2> QED
    BY <1>1, <2>1
<1>3. CASE (Grow /\ UNCHANGED sadfVars) \/ UNCHANGED << vars, sadfVars >>
  <2>1. UNCHANGED << pos, fpos, curr, buf, out, stage, sketch, listed >> /\ pc' = pc
    BY <1>3 DEF Grow, vars, reader, sadfVars
  <2> QED
    BY <1>1, <2>1
<1>4. CASE Display
  <2>1. ~RestartShown
    BY DEF RestartShown, Grouped, Counts
  <2>2. ~Specials
    <3>1. stage \in {"search", "items", "show", "mock"}
      BY DEF Budget, Tallied
    <3> QED
      BY <3>1 DEF Specials
  <2> QED
    BY <1>2, <1>4, <2>1, <2>2, SearchCounts, ItemsCount, FirstCounts, RewindCounts, LineCounts,
       ActivityCounts, ToRestartCounts, AfterRestartCounts, Zenon DEF Display
<1> QED
  BY <1>3, <1>4, Zenon DEF SadfNext

\* What the invariant says of the program's output.
LEMMA BudgetKept == ASSUME Counts => Budget \/ job.growing PROVE ItemsCounted
<1> SUFFICES ASSUME Counts, ~job.growing, NEW e \in ToSet(out) \cup ToSet(sketch), e.kind = "line"
             PROVE  e.pass \in listed
  BY DEF ItemsCounted, Counts
<1>1. Drawn(out) /\ Drawn(sketch)
  BY DEF Budget
<1> QED
  BY <1>1, Zenon DEF Drawn, ToSet

\* count_file_items() of sadf: when the interval of -s and -e ends but once in the
\* file, an archive or a canvas never gets an item of an activity that was not
\* counted, whatever the records, the restarts and the options.
THEOREM MCItemsCountedCorrect == MCSpec => [](EndsOnce => ItemsCounted)
<1> DEFINE Case == Counts /\ EndsOnce /\ ~job.growing
           Inv == Case => Given /\ Budget
<1>1. MCInit => Inv
  <2> SUFFICES ASSUME MCInit, Counts, EndsOnce PROVE Given /\ Budget
    OBVIOUS
  <2>1. SadfInit
    BY DEF MCInit, Counts
  <2>2. Init /\ TypeOK
    BY <2>1, InitTyped DEF SadfInit
  <2>3. Given
    <3>1. IsCase(job) /\ Places
      BY <2>2, TypeParts
    <3> QED
      BY <3>1 DEF Given, Places
  <2>4. /\ pos = 1 /\ fpos = 1 /\ curr = 1 /\ buf \in [0..2 -> Nat] /\ pc = "first" /\ out = << >>
    BY <2>2 DEF Init
  <2>5. stage = "search" /\ sketch = << >>
    BY <2>1 DEF SadfInit, Counts
  <2>6. ~Reached(pos)
    BY <2>3, <2>4, Numbers DEF Reached
  <2>7. Drawn(out) /\ Drawn(sketch)
    BY <2>4, <2>5 DEF Drawn
  <2>8. Walk /\ Tallied
    BY <2>4, <2>5, <2>6 DEF Walk, Tallied, Displaying
  <2> QED
    BY <2>3, <2>7, <2>8 DEF Budget
<1>2. Inv /\ [MCNext]_mcVars => Inv'
  <2> SUFFICES ASSUME Inv, [MCNext]_mcVars, Case' PROVE (Given /\ Budget)'
    OBVIOUS
  <2>1. loop' = loop /\ job' = job
    BY Zenon DEF MCNext, OfSar, OfSadf, SadfNext, Display, Next, Sar, First, Begin, ReadLine, Average,
                 Skip, Restart, Grow, sadfVars, mcVars, vars
  <2>2. Case
    BY <2>1 DEF Counts, EndsOnce, Late, TimeOfDay, TmEnd, Rec
  <2>3. SadfNext \/ UNCHANGED << vars, sadfVars >>
    BY <2>2 DEF MCNext, OfSar, Counts, mcVars
  <2>4. whole' = whole /\ heads' = heads
    BY <2>2, <2>3, Zenon DEF SadfNext, Display, Grow, vars
  <2>5. Fixed
    BY <2>1, <2>4 DEF Fixed
  <2> QED
    BY <2>1, <2>2, <2>3, <2>4, <2>5, NextCounts, SameFiles
<1>3. Inv => (EndsOnce => ItemsCounted)
  BY BudgetKept
<1> QED
  BY <1>1, <1>2, <1>3, PTL DEF MCSpec
=============================================================================
