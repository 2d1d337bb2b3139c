------------------------------ MODULE DailyLog ------------------------------
(***************************************************************************)
(* What the daily data files promise to whoever reads them: each file is,  *)
(* once created, the list of activities it was created with and a log of   *)
(* whole records that only grows.  A record that a writer has begun and    *)
(* brings to its end is in the log, at the end of it, whoever else writes  *)
(* at the same time; the records of one writer come in the order it made   *)
(* them.  Only a writer that dies in the middle of a record may leave the  *)
(* file torn: nothing is read past that place, which is never mended.      *)
(***************************************************************************)
EXTENDS Integers, Sequences

CONSTANTS
  Day,       \* one file for each date
  Writer,    \* who records
  Activity   \* what is recorded

NewLog(list) == [list |-> list, recs |-> << >>]
NoLog == NewLog(<< >>)   \* the file is missing, empty, or cannot be appended to
Idle == << >>            \* a writer that is not in the middle of a record

VARIABLES
  log,       \* what can be read in each file
  writing,   \* <<day, k>> for a writer in the middle of its record k in that file
  torn       \* whether a file has a cut record in it

vars == << log, writing, torn >>

Init ==
  /\ log \in [Day -> [list: Seq(Activity), recs: {<< >>}]]
  /\ writing = [w \in Writer |-> Idle]
  /\ torn = [d \in Day |-> FALSE]

\* A file that cannot be appended to is replaced by a new one.
Create(d) ==
  /\ log[d] = NoLog
  /\ log'[d].list \in Seq(Activity) \ {<< >>}
  /\ log' = [log EXCEPT ![d] = NewLog(log'[d].list)]
  /\ UNCHANGED << writing, torn >>

\* Writer w begins a record, later than all those it has in that file.
Begin(w) ==
  /\ writing[w] = Idle
  /\ writing'[w] \in Day \X Nat
  /\ log[writing'[w][1]] # NoLog
  /\ LET recs == log[writing'[w][1]].recs IN
       \A i \in 1..Len(recs) : recs[i][1] = w => recs[i][2] < writing'[w][2]
  /\ writing' = [writing EXCEPT ![w] = writing'[w]]
  /\ UNCHANGED << log, torn >>

\* The record is complete: it is in the log, unless it comes after a cut one.
Finish(w) ==
  /\ writing[w] # Idle
  /\ writing' = [writing EXCEPT ![w] = Idle]
  /\ LET d == writing[w][1] IN
       log' = IF torn[d] THEN log
              ELSE [log EXCEPT ![d].recs = Append(@, << w, writing[w][2] >>)]
  /\ UNCHANGED torn

\* Writer w dies before its record is complete.
Die(w) ==
  /\ writing[w] # Idle
  /\ writing' = [writing EXCEPT ![w] = Idle]
  /\ torn' \in {torn, [torn EXCEPT ![writing[w][1]] = TRUE]}
  /\ UNCHANGED log

Next ==
  \/ \E d \in Day : Create(d)
  \/ \E w \in Writer : Begin(w) \/ Finish(w) \/ Die(w)

Spec == Init /\ [][Next]_vars
=============================================================================
