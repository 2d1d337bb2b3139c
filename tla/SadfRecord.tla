----------------------------- MODULE SadfRecord -----------------------------
(***************************************************************************)
(* A record of sadf -j or sadf -x: the activities one after the other, in  *)
(* the order of act[], each with its comma, its member and the group it    *)
(* belongs to.                                                             *)
(*                                                                         *)
(* format is the option of sadf, next the index in act[] of the activity   *)
(* to come, and written what has been written of the record (see           *)
(* Activities).  The state of the groups is that of static variables,      *)
(* which are the same for all the records.                                 *)
(***************************************************************************)
EXTENDS JsonLines, XmlLines

VARIABLES format, next, written
recordVars == <<format, next, written>>

\* After the timestamp of the record.
Begun(open) == [open |-> open, text |-> <<<<"member", "timestamp">>>>, groups |-> <<>>]

RecordInit == format \in {"json", "xml"} /\ next = 1 /\ written = Begun({})

\* An activity that is selected and has items in this sample, or not.
WriteActivity(shown) ==
    /\ next <= Len(act)
    /\ LET last == [written EXCEPT !.text = <<Last(@)>>]
       IN  written' = IF format = "json" THEN json_write(last, act[next], shown)
                      ELSE xml_write(last, act[next], shown)
    /\ next' = next + 1
    /\ UNCHANGED format

NextRecord ==
    /\ next > Len(act)
    /\ next' = 1 /\ written' = Begun(written.open)
    /\ UNCHANGED format

RecordNext == NextRecord \/ \E shown \in BOOLEAN : WriteActivity(shown)

\* Every record is well formed, whatever the activities selected and those
\* that have items in the sample: a group is opened at most once and is closed
\* before the end of the record, members are in their group and nowhere else,
\* and in JSON there is a comma between two members or groups and only there.
MarkupBalanced ==
    LET text == written.text
        GroupOf(a) == IF a \in Network THEN {"network"}
                      ELSE IF a \in PowerManagement THEN {"power-management"}
                      ELSE IF a \in Psi THEN {"psi"} ELSE {}
        \* The groups open at token k, a member.
        OpenAt(k) ==
            written.open \cup {g \in Range(written.groups) :
                                \E j \in k..Len(text) : text[j] = <<"close", g>>}
    IN  /\ \A i, j \in DOMAIN written.groups : written.groups[i] = written.groups[j] => i = j
        /\ Cardinality(written.open) <= 1
        /\ next > Len(act) => written.open = {}
        /\ \A k \in 2..Len(text) :
              LET before == text[k - 1][1]
                  token == text[k][1]
              IN  CASE token = "comma" -> before \in {"member", "close"}
                    [] token = "open" -> format = "json" => before = "comma"
                    [] token = "member" -> /\ format = "json" => before \in {"comma", "open"}
                                           /\ OpenAt(k) = GroupOf(text[k][2])
                    [] token = "close" -> before \in {"member", "close"}
=============================================================================
