----------------------------- MODULE MCSarReport -----------------------------
(* Small instances of SarReport and Sadf for TLC: sar and sadf on the same files. *)
EXTENDS Sadf

\* Kinds of records: a restart, a comment, or a sample with the items of some
\* activities, made some 1/100 s after the record before it.
CONSTANTS MaxRecords

Kinds == [type: {"restart", "comment"}, gap: {100}, has: {{}}]
           \cup [type: {"stats"}, gap: {100, 250}, has: {{1}, Pass}]

\* The record of kind k that follows those of f, the first one being made at
\* second t: uptimes start again at a restart.
Follow(f, k, t) ==
  LET at == IF f = << >> THEN t ELSE f[Len(f)].at
      up == IF f = << >> THEN 1000 ELSE f[Len(f)].up
  IN  [type |-> k.type, at |-> at + (k.gap \div 100), has |-> k.has,
       up |-> IF k.type = "restart" THEN 500 ELSE up + k.gap]

\* Files of n records of some kinds.
Files(K, n, t) ==
  LET files[m \in 0..n] == IF m = 0 THEN {<< >>}
                           ELSE { Append(f, Follow(f, k, t)) : f \in files[m - 1], k \in K }
  IN  files[n]
UpTo(K, n, t) == UNION { Files(K, m, t) : m \in 1..n }

Whole(f, s, e, c, i) ==
  [file |-> f, whole |-> Len(f), heads |-> Len(f), growing |-> FALSE,
   start |-> s, end |-> e, count |-> c, interval |-> i]

\* Files of one day, read whole or in part.
OneDay(n) == { Whole(f, o[1], o[2], o[3], o[4]) : f \in UpTo(Kinds, n, 2),
              o \in { << Unset, Unset, Unset, 1 >>, << Unset, Unset, 2, 1 >>, << 4, Unset, Unset, 2 >>,
                      << 4, 8, 1, 1 >>, << Unset, 6, Unset, 3 >> } }

\* Longer files: several samples before and after a restart.
FewKinds == { k \in Kinds : k.type = "restart" \/ k.has = Pass }
Long == { Whole(f, Unset, Unset, o[1], o[2]) : f \in Files(FewKinds, MaxRecords + 2, 2),
            o \in { << Unset, 1 >>, << Unset, 2 >>, << 1, 2 >>, << 2, 2 >> } }

\* Files of two days, without a restart, with a first sample on the first day.
NoRestart == { k \in Kinds : k.type # "restart" }
TwoDays == { Whole(f, 16, 2, c, i) : f \in { g \in UpTo(NoRestart, MaxRecords, 17) : g[1].type = "stats" },
               c \in {Unset, 2}, i \in {1, 2} }

\* Files that are being written to, or whose last record is cut short.
Live == { [Whole(f, Unset, Unset, o, 1) EXCEPT !.whole = n, !.heads = IF cut THEN n + 1 ELSE n, !.growing = g] :
            f \in Files(Kinds, MaxRecords - 1, 2), o \in {Unset, 1},
            n \in 1..(MaxRecords - 2), cut \in BOOLEAN, g \in BOOLEAN }

SadfCases == OneDay(MaxRecords - 1) \cup Long \cup TwoDays \cup Live
AllCases == OneDay(MaxRecords) \cup SadfCases

-----------------------------------------------------------------------------
(* The programs that are run. *)

CONSTANTS Programs

mcVars == << vars, sadfVars >>

MCInit ==
  \/ "sadf" \in Programs /\ SadfInit /\ job \in SadfCases
  \/ "sar" \in Programs /\ Init /\ loop = "sar" /\ stage = "show" /\ sketch = << >> /\ listed = {}

OfSar == loop = "sar" /\ UNCHANGED sadfVars
OfSadf == loop # "sar"

MCNext == (OfSar /\ Next) \/ (OfSadf /\ SadfNext)

MCSpec == MCInit /\ [][MCNext]_mcVars /\ WF_mcVars((OfSar /\ Sar) \/ (OfSadf /\ Display))

\* What only one of them promises.
MCLinesChain == loop = "sar" => LinesChain
MCReportComplete == loop = "sar" => ReportComplete
MCSadfComplete == loop # "sar" => SadfComplete
=============================================================================
