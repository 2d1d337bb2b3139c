--------------------------- MODULE SadcPipeProofs ---------------------------
(***************************************************************************)
(* sar and sadc stay in step: whatever the size of the pipe, the number of *)
(* lines, the lists of activities that files announce, the rotations, the  *)
(* signals and the deaths, sar takes each message for what it is and takes *)
(* the statistics apart with the list they were written with.  What it     *)
(* displays is then over consecutive samples, and saved.                   *)
(***************************************************************************)
EXTENDS SadcPipe, TLAPS

-----------------------------------------------------------------------------
(* The invariant. *)

Message ==
  {MagicMsg} \cup [kind: {"list"}, list: Seq(Activity)]
    \cup [kind: {"rec"}, n: Nat, type: {"R_STATS", "R_LAST_STATS"}]
    \cup [kind: {"data"}, n: Nat, list: Seq(Activity)]

SadcPc == SadcBefore \cup SadcOver \cup
  {"sample", "rec", "data", "save", "rotate", "magic", "list", "saveagain", "count", "pause", "check"}
SarPc == SarBefore \cup SarOver \cup {"rec", "data", "magic", "list", "show", "tally", "avg"}

Typed ==
  /\ pipe \in Seq(Message) /\ spc \in SadcPc /\ taken \in Nat /\ list \in Seq(Activity)
  /\ rpc \in SarPc /\ rtype \in {"R_STATS", "R_LAST_STATS"}

\* The kind of the message that sadc is to send next, and of the one after the
\* data it is about to send.
ToMagic == {"open", "magic0", "magic", "rotate"}
ToList == {"list0", "list"}
AfterRecord(type) == IF type = "R_LAST_STATS" THEN "magic" ELSE "rec"
Tag == IF rot # 0 THEN "R_LAST_STATS" ELSE "R_STATS"
Then == AfterRecord(Tag)
Due ==
  IF spc \in ToMagic THEN "magic"
  ELSE IF spc \in ToList THEN "list"
  ELSE IF spc = "data" THEN "data"
  ELSE IF spc = "save" THEN Then ELSE "rec"

\* A sadc that ended by itself would have sent a record next: it has sent all of
\* what was due before.
Broken == {"failed", "dead"}

\* Message i from now, in the pipe or to be sent, is of kind k.
ComesAt(i, k) ==
  /\ i <= Len(pipe) => pipe[i].kind = k
  /\ i = Len(pipe) + 1 /\ spc \notin Broken => Due = k
  /\ i = Len(pipe) + 2 /\ spc = "data" => Then = k

Grammar ==
  \A i \in 1..Len(pipe) :
    /\ pipe[i].kind = "magic" => ComesAt(i + 1, "list")
    /\ pipe[i].kind = "list" => ComesAt(i + 1, "rec")
    /\ pipe[i].kind = "rec" => ComesAt(i + 1, "data") /\ ComesAt(i + 2, AfterRecord(pipe[i].type))

\* What comes is what sar waits for.
Expects ==
  /\ rpc \in {"magic0", "magic"} => ComesAt(1, "magic")
  /\ rpc \in {"list0", "list"} => ComesAt(1, "list")
  /\ rpc \in {"rec0", "rec", "install", "tally"} => ComesAt(1, "rec")
  /\ rpc \in {"data0", "data"} => ComesAt(1, "data") /\ ComesAt(2, AfterRecord(rtype))
  /\ rpc = "show" => intr \/ ComesAt(1, AfterRecord(rtype))
  /\ rpc = "data0" => rtype = "R_STATS"

\* The first record is not tagged: sar would not look at its tag.
RecordSent == \E j \in 1..Len(pipe) : pipe[j].kind = "rec"
BeforeRecord == {"open", "magic0", "list0", "sample", "rec"} \cup SadcOver
FirstUntagged ==
  rpc \in {"magic0", "list0", "rec0"} =>
    /\ \A i \in 1..Len(pipe) : pipe[i].kind = "rec" /\ pipe[i].type = "R_LAST_STATS"
         => \E j \in 1..(i - 1) : pipe[j].kind = "rec"
    /\ rot # 0 => RecordSent
    /\ spc \notin BeforeRecord => RecordSent

\* l is the last list before message i: in the pipe, or else the one sar has.
InForce(i, l) ==
  /\ \A j \in 1..(i - 1) :
       pipe[j].kind = "list" /\ (\A k \in (j + 1)..(i - 1) : pipe[k].kind # "list") => l = pipe[j].list
  /\ (\A j \in 1..(i - 1) : pipe[j].kind # "list") => l = idseq
Listed == {"sample", "rec", "data", "save", "saveagain", "count", "pause", "check"}
ListsInForce ==
  /\ \A i \in 1..Len(pipe) : pipe[i].kind = "data" => InForce(i, pipe[i].list)
  /\ spc \in Listed => InForce(Len(pipe) + 1, list)

IInv == Typed /\ Grammar /\ Expects /\ FirstUntagged /\ ListsInForce /\ InStep

-----------------------------------------------------------------------------
(* Lemmas about what comes. *)

\* sadc goes on without sending: what comes stays the same.
SameAhead ==
  /\ pipe' = pipe
  /\ \/ spc' \in Broken
     \/ Due' = Due /\ spc \notin Broken /\ spc' # "data"
     \/ spc' = spc /\ rot' = rot

LEMMA AheadKept ==
  ASSUME SameAhead, NEW i \in Nat, NEW k, ComesAt(i, k)
  PROVE  ComesAt(i, k)'
<1>1. CASE spc' \in Broken
  BY <1>1 DEF SameAhead, ComesAt, Broken
<1>2. CASE Due' = Due /\ spc \notin Broken /\ spc' # "data"
  BY <1>2 DEF SameAhead, ComesAt
<1>3. CASE spc' = spc /\ rot' = rot
  <2>1. Due' = Due /\ Then' = Then
    BY <1>3 DEF Due, Tag, Then, AfterRecord
  <2> QED BY <1>3, <2>1 DEF SameAhead, ComesAt
<1> QED BY <1>1, <1>2, <1>3 DEF SameAhead

\* sar takes a message: what was second comes first.
LEMMA AheadShifted ==
  ASSUME pipe \in Seq(Message), pipe # << >>, pipe' = Tail(pipe), spc' = spc, rot' = rot,
         NEW i \in Nat \ {0}, NEW k, ComesAt(i + 1, k)
  PROVE  ComesAt(i, k)'
<1>1. Due' = Due /\ Then' = Then
  BY DEF Due, Tag, Then, AfterRecord
<1>2. Len(pipe') = Len(pipe) - 1 /\ Len(pipe) \in Nat \ {0}
  OBVIOUS
<1>3. i <= Len(pipe') => pipe'[i] = pipe[i + 1]
  BY <1>2
<1>4. i <= Len(pipe') => pipe'[i].kind = k
  BY <1>2, <1>3 DEF ComesAt
<1>5. i = Len(pipe') + 1 /\ spc' \notin Broken => Due' = k
  BY <1>1, <1>2 DEF ComesAt
<1>6. i = Len(pipe') + 2 /\ spc' = "data" => Then' = k
  BY <1>1, <1>2 DEF ComesAt
<1> QED BY <1>4, <1>5, <1>6 DEF ComesAt

\* sadc sends what was due: what comes stays the same, as far as it was known.
Sent(msg) ==
  /\ pipe' = Append(pipe, msg)
  /\ spc \notin SadcOver /\ msg.kind = Due /\ rot' = rot
  /\ spc = "data" => spc' = "save"

LEMMA AheadSent ==
  ASSUME pipe \in Seq(Message), NEW msg \in Message, Sent(msg),
         NEW i \in Nat \ {0}, NEW k, ComesAt(i, k),
         i <= Len(pipe) + 1 \/ (i = Len(pipe) + 2 /\ spc = "data")
  PROVE  ComesAt(i, k)'
<1>1. /\ Len(pipe') = Len(pipe) + 1 /\ Len(pipe) \in Nat
      /\ pipe'[Len(pipe) + 1] = msg
      /\ \A j \in 1..Len(pipe) : pipe'[j] = pipe[j]
  BY DEF Sent
<1>2. i <= Len(pipe') => pipe'[i].kind = k
  <2>1. CASE i <= Len(pipe)
    <3>1. pipe'[i] = pipe[i]
      BY <1>1, <2>1
    <3> QED BY <2>1, <3>1 DEF ComesAt
  <2>2. CASE i = Len(pipe) + 1
    BY <1>1, <2>2 DEF ComesAt, Sent, SadcOver, Broken
  <2> QED BY <1>1, <2>1, <2>2
<1>3. i = Len(pipe') + 1 /\ spc' \notin Broken => Due' = k
  <2>1. SUFFICES ASSUME i = Len(pipe) + 2, spc = "data"
                 PROVE  Due' = k
    BY <1>1
  <2>2. Due' = Then
    BY <2>1 DEF Due, Sent, Tag, ToMagic, ToList, Then, AfterRecord
  <2> QED BY <2>1, <2>2 DEF ComesAt
<1>4. ~(i = Len(pipe') + 2 /\ spc' = "data")
  BY <1>1
<1> QED BY <1>2, <1>3, <1>4 DEF ComesAt

\* The grammar and the lists when a process goes on without a message: sadc has
\* its list until it opens another file, and no rotation before the first record.
SadcKept ==
  /\ spc' \in Listed => spc \in Listed /\ list' = list
  /\ spc' \in BeforeRecord \/ spc \notin BeforeRecord
  /\ rot' = rot \/ rot' = 0 \/ spc \notin BeforeRecord
SarEarly == {"magic0", "list0", "rec0"}

LEMMA NoMessage ==
  ASSUME Typed, Grammar, FirstUntagged, ListsInForce, SameAhead, SadcKept,
         idseq' = idseq, rpc' = rpc \/ rpc' \notin SarEarly
  PROVE  (Grammar /\ FirstUntagged /\ ListsInForce)'
<1>1. pipe' = pipe /\ Len(pipe) \in Nat
  BY DEF SameAhead, Typed
<1>2. Grammar'
  <2>1. SUFFICES ASSUME NEW i \in 1..Len(pipe)
                 PROVE  /\ pipe[i].kind = "magic" => ComesAt(i + 1, "list")'
                        /\ pipe[i].kind = "list" => ComesAt(i + 1, "rec")'
                        /\ pipe[i].kind = "rec" => ComesAt(i + 1, "data")' /\ ComesAt(i + 2, AfterRecord(pipe[i].type))'
    BY <1>1 DEF Grammar
  <2>2. \A k : ComesAt(i + 1, k) => ComesAt(i + 1, k)'
    BY AheadKept
  <2>3. \A k : ComesAt(i + 2, k) => ComesAt(i + 2, k)'
    BY AheadKept
  <2> QED BY <1>1, <2>2, <2>3 DEF Grammar
<1>3. RecordSent => RecordSent'
  BY <1>1 DEF RecordSent
<1>4. FirstUntagged'
  <2>1. SUFFICES ASSUME rpc \in SarEarly, rpc' = rpc
                 PROVE  FirstUntagged'
    BY DEF FirstUntagged, SarEarly
  <2>2. \A i \in 1..Len(pipe) : pipe[i].kind = "rec" /\ pipe[i].type = "R_LAST_STATS"
          => \E j \in 1..(i - 1) : pipe[j].kind = "rec"
    BY <2>1 DEF FirstUntagged, SarEarly
  <2>3. (rot # 0 => RecordSent) /\ (spc \notin BeforeRecord => RecordSent)
    BY <2>1 DEF FirstUntagged, SarEarly
  <2>4. (rot' # 0 => RecordSent') /\ (spc' \notin BeforeRecord => RecordSent')
    BY <2>3, <1>3 DEF SadcKept
  <2> QED BY <1>1, <2>2, <2>4 DEF FirstUntagged
<1>5. \A i, l : InForce(i, l) => InForce(i, l)'
  BY <1>1 DEF InForce
<1>6. ListsInForce'
  BY <1>1, <1>5 DEF ListsInForce, SadcKept
<1> QED BY <1>2, <1>4, <1>6

\* What sar waits for stays the same when it does not move, or stops.
LEMMA ExpectsKept ==
  ASSUME Typed, Expects, SameAhead, rtype' = rtype, intr => intr',
         rpc' = rpc \/ rpc' \in SarOver
  PROVE  Expects'
<1>1. CASE rpc' = rpc
  <2>1. \A k : ComesAt(1, k) => ComesAt(1, k)'
    BY AheadKept
  <2>2. \A k : ComesAt(2, k) => ComesAt(2, k)'
    BY AheadKept
  <2> QED BY <1>1, <2>1, <2>2 DEF Expects
<1>2. CASE rpc' \in SarOver
  BY <1>2 DEF Expects, SarOver
<1> QED BY <1>1, <1>2

\* sar takes the next message: its list if that is what it is.
LEMMA Received ==
  ASSUME Typed, Grammar, FirstUntagged, ListsInForce, pipe # << >>, pipe' = Tail(pipe),
         spc' = spc, rot' = rot, list' = list,
         idseq' = IF Head(pipe).kind = "list" THEN Head(pipe).list ELSE idseq,
         rpc' \notin SarEarly \/ (rpc \in SarEarly /\ Head(pipe).kind # "rec")
  PROVE  (Grammar /\ FirstUntagged /\ ListsInForce)'
<1>1. /\ Len(pipe') = Len(pipe) - 1 /\ Len(pipe) \in Nat \ {0} /\ Head(pipe) = pipe[1]
      /\ \A i \in 1..Len(pipe') : i + 1 \in 1..Len(pipe) /\ pipe'[i] = pipe[i + 1]
  BY DEF Typed
<1>2. Grammar'
  <2>1. SUFFICES ASSUME NEW i \in 1..Len(pipe')
                 PROVE  (/\ pipe[i].kind = "magic" => ComesAt(i + 1, "list")
                         /\ pipe[i].kind = "list" => ComesAt(i + 1, "rec")
                         /\ pipe[i].kind = "rec" => ComesAt(i + 1, "data") /\ ComesAt(i + 2, AfterRecord(pipe[i].type)))'
    BY DEF Grammar
  <2>2. i + 1 \in 1..Len(pipe) /\ pipe'[i] = pipe[i + 1] /\ i \in Nat
    BY <1>1
  <2>3. \A k : ComesAt((i + 1) + 1, k) => ComesAt(i + 1, k)'
    BY <2>2, AheadShifted DEF Typed
  <2>4. \A k : ComesAt((i + 2) + 1, k) => ComesAt(i + 2, k)'
    BY <2>2, AheadShifted DEF Typed
  <2>5. (i + 2) + 1 = (i + 1) + 2
    BY <2>2
  <2> QED BY <2>2, <2>3, <2>4, <2>5 DEF Grammar
<1>3. Head(pipe).kind # "rec" /\ RecordSent => RecordSent'
  <2>1. SUFFICES ASSUME Head(pipe).kind # "rec", NEW j \in 1..Len(pipe), pipe[j].kind = "rec"
                 PROVE  RecordSent'
    BY DEF RecordSent
  <2>2. j - 1 \in 1..Len(pipe') /\ pipe'[j - 1] = pipe[j]
    BY <1>1, <2>1
  <2> QED BY <2>1, <2>2 DEF RecordSent
<1>4. FirstUntagged'
  <2>1. SUFFICES ASSUME rpc \in SarEarly, Head(pipe).kind # "rec"
                 PROVE  FirstUntagged'
    BY DEF FirstUntagged, SarEarly
  <2>2. ASSUME NEW i \in 1..Len(pipe'), pipe'[i].kind = "rec", pipe'[i].type = "R_LAST_STATS"
        PROVE  \E j \in 1..(i - 1) : pipe'[j].kind = "rec"
    <3>1. PICK j \in 1..((i + 1) - 1) : pipe[j].kind = "rec"
      BY <1>1, <2>1, <2>2 DEF FirstUntagged, SarEarly
    <3>2. j - 1 \in 1..(i - 1) /\ pipe'[j - 1] = pipe[j]
      BY <1>1, <2>1, <3>1
    <3> QED BY <3>1, <3>2
  <2>3. (rot' # 0 => RecordSent') /\ (spc' \notin BeforeRecord => RecordSent')
    BY <1>3, <2>1 DEF FirstUntagged, SarEarly
  <2> QED BY <2>2, <2>3 DEF FirstUntagged
<1>5. ASSUME NEW i \in 1..(Len(pipe') + 1), NEW l, InForce(i + 1, l)
      PROVE  InForce(i, l)'
  <2>1. ASSUME NEW j \in 1..(i - 1), pipe'[j].kind = "list",
               \A k \in (j + 1)..(i - 1) : pipe'[k].kind # "list"
        PROVE  l = pipe'[j].list
    <3>1. j + 1 \in 1..((i + 1) - 1) /\ pipe'[j] = pipe[j + 1]
      BY <1>1
    <3>2. ASSUME NEW k \in ((j + 1) + 1)..((i + 1) - 1)
          PROVE  pipe[k].kind # "list"
      <4>1. k - 1 \in (j + 1)..(i - 1) /\ pipe'[k - 1] = pipe[k]
        BY <1>1
      <4> QED BY <2>1, <4>1
    <3> QED BY <1>5, <2>1, <3>1, <3>2 DEF InForce
  <2>2. ASSUME \A j \in 1..(i - 1) : pipe'[j].kind # "list"
        PROVE  l = idseq'
    <3>1. ASSUME NEW k \in 2..((i + 1) - 1)
          PROVE  pipe[k].kind # "list"
      <4>1. k - 1 \in 1..(i - 1) /\ pipe'[k - 1] = pipe[k]
        BY <1>1
      <4> QED BY <2>2, <4>1
    <3>2. CASE Head(pipe).kind = "list"
      <4>1. 1 \in 1..((i + 1) - 1)
        OBVIOUS
      <4> QED BY <1>1, <1>5, <3>1, <3>2, <4>1 DEF InForce
    <3>3. CASE Head(pipe).kind # "list"
      <4>1. \A k \in 1..((i + 1) - 1) : pipe[k].kind # "list"
        BY <1>1, <3>1, <3>3
      <4> QED BY <1>5, <3>3, <4>1 DEF InForce
    <3> QED BY <3>2, <3>3
  <2> QED BY <2>1, <2>2 DEF InForce
<1>6. ListsInForce'
  <2>1. ASSUME NEW i \in 1..Len(pipe'), pipe'[i].kind = "data"
        PROVE  InForce(i, pipe[i].list)'
    <3>1. InForce(i + 1, pipe[i + 1].list)
      BY <1>1, <2>1 DEF ListsInForce
    <3>2. \A l : InForce(i + 1, l) => InForce(i, l)'
      BY <1>1, <1>5
    <3> QED BY <1>1, <3>1, <3>2
  <2>2. ASSUME spc' \in Listed
        PROVE  InForce(Len(pipe) + 1, list)'
    <3>1. PICK n \in 1..(Len(pipe') + 1) : n = Len(pipe)
      <4>1. Len(pipe) \in 1..(Len(pipe') + 1)
        BY <1>1
      <4> QED BY <4>1
    <3>2. PICK l : l = list
      OBVIOUS
    <3>3. InForce(n + 1, l)
      BY <2>2, <3>1, <3>2 DEF ListsInForce
    <3>4. InForce(n, l)'
      BY <1>5, <3>3
    <3>5. n = Len(pipe') + 1 /\ l = list'
      BY <1>1, <3>1, <3>2
    <3> QED BY <3>4, <3>5 DEF InForce
  <2> QED BY <2>1, <2>2 DEF ListsInForce
<1> QED BY <1>2, <1>4, <1>6

\* sadc sends what was due, with the list and the tag it has, and goes on.
Sequel(msg) ==
  /\ msg.kind = "magic" => spc' \in {"list0", "list"}
  /\ msg.kind = "list" => spc' \in {"sample", "saveagain"} /\ msg.list = list
  /\ msg.kind = "rec" => spc' = "data" /\ msg.type = Tag
  /\ msg.kind = "data" => spc = "data" /\ msg.list = list
  /\ spc' \in Listed => spc \in Listed \/ msg.kind = "list"
  /\ spc' \in BeforeRecord \/ spc \notin BeforeRecord \/ msg.kind = "rec"

LEMMA SentNext ==
  ASSUME Typed, Grammar, Expects, FirstUntagged, ListsInForce,
         NEW msg \in Message, Sent(msg), Sequel(msg),
         rpc' = rpc, rtype' = rtype, intr' = intr, idseq' = idseq, list' = list
  PROVE  (Grammar /\ Expects /\ FirstUntagged /\ ListsInForce)'
<1>1. /\ Len(pipe') = Len(pipe) + 1 /\ Len(pipe) \in Nat
      /\ pipe'[Len(pipe) + 1] = msg
      /\ \A j \in 1..Len(pipe) : pipe'[j] = pipe[j]
  BY DEF Sent, Typed
<1>2. Due = "data" => spc = "data"
  BY DEF Due, Then, AfterRecord
<1>3. spc \notin Broken /\ rot' = rot
  BY DEF Sent, SadcOver, Broken
<1>4. \A i \in Nat \ {0} : \A k : ComesAt(i, k) /\ i <= Len(pipe) + 1 => ComesAt(i, k)'
  BY AheadSent DEF Typed
<1>5. \A i \in Nat \ {0} : \A k : ComesAt(i, k) /\ i = Len(pipe) + 2 /\ spc = "data" => ComesAt(i, k)'
  BY AheadSent DEF Typed
<1>6. Grammar'
  <2>1. SUFFICES ASSUME NEW i \in 1..Len(pipe')
                 PROVE  (/\ pipe[i].kind = "magic" => ComesAt(i + 1, "list")
                         /\ pipe[i].kind = "list" => ComesAt(i + 1, "rec")
                         /\ pipe[i].kind = "rec" => ComesAt(i + 1, "data") /\ ComesAt(i + 2, AfterRecord(pipe[i].type)))'
    BY DEF Grammar
  <2>2. CASE i \in 1..Len(pipe)
    <3>1. pipe'[i] = pipe[i] /\ i + 1 \in Nat \ {0} /\ i + 2 \in Nat \ {0} /\ i + 1 <= Len(pipe) + 1
      BY <1>1, <2>2
    <3>2. pipe[i].kind = "magic" => ComesAt(i + 1, "list")'
      BY <1>4, <2>2, <3>1 DEF Grammar
    <3>3. pipe[i].kind = "list" => ComesAt(i + 1, "rec")'
      BY <1>4, <2>2, <3>1 DEF Grammar
    <3>4. pipe[i].kind = "rec" => ComesAt(i + 1, "data")'
      BY <1>4, <2>2, <3>1 DEF Grammar
    <3>5. ASSUME NEW k, pipe[i].kind = "rec", ComesAt(i + 2, k)
          PROVE  ComesAt(i + 2, k)'
      <4>1. CASE i + 2 <= Len(pipe) + 1
        BY <1>4, <3>1, <3>5, <4>1
      <4>2. CASE i = Len(pipe)
        <5>1. ComesAt(Len(pipe) + 1, "data")
          BY <2>2, <3>5, <4>2 DEF Grammar
        <5>2. spc = "data"
          BY <1>1, <1>2, <1>3, <5>1 DEF ComesAt
        <5> QED BY <1>5, <3>1, <3>5, <4>2, <5>2
      <4> QED BY <1>1, <2>2, <4>1, <4>2
    <3> QED BY <2>2, <3>1, <3>2, <3>3, <3>4, <3>5 DEF Grammar
  <2>3. CASE i = Len(pipe) + 1
    <3>1. pipe'[i] = msg /\ i + 1 = Len(pipe') + 1 /\ i + 2 = Len(pipe') + 2
      BY <1>1, <2>3
    <3>2. \A k : Due' = k => ComesAt(i + 1, k)'
      BY <1>1, <3>1 DEF ComesAt
    <3>3. \A k : (spc' = "data" => Then' = k) => ComesAt(i + 2, k)'
      BY <1>1, <3>1 DEF ComesAt
    <3>4. /\ spc' \in {"list0", "list"} => Due' = "list"
          /\ spc' \in {"sample", "saveagain"} => Due' = "rec"
          /\ spc' = "data" => Due' = "data"
      BY DEF Due, ToMagic, ToList
    <3>5. Then' = AfterRecord(Tag)
      BY <1>3 DEF Then, Tag, AfterRecord
    <3> QED BY <3>1, <3>2, <3>3, <3>4, <3>5 DEF Sequel
  <2> QED BY <1>1, <2>2, <2>3
<1>7. Expects'
  <2>1. \A k : ComesAt(1, k) => ComesAt(1, k)'
    BY <1>1, <1>4
  <2>2. ASSUME NEW k, ComesAt(1, "data"), ComesAt(2, k)
        PROVE  ComesAt(2, k)'
    <3>1. CASE Len(pipe) = 0
      <4>1. spc = "data"
        BY <1>2, <1>3, <2>2, <3>1 DEF ComesAt
      <4> QED BY <1>5, <2>2, <3>1, <4>1
    <3>2. CASE Len(pipe) # 0
      BY <1>1, <1>4, <2>2, <3>2
    <3> QED BY <3>1, <3>2
  <2> QED BY <2>1, <2>2 DEF Expects
<1>8. RecordSent => RecordSent'
  <2>1. SUFFICES ASSUME NEW j \in 1..Len(pipe), pipe[j].kind = "rec"
                 PROVE  RecordSent'
    BY DEF RecordSent
  <2> QED BY <1>1, <2>1 DEF RecordSent
<1>9. msg.kind = "rec" => RecordSent'
  <2>1. Len(pipe) + 1 \in 1..Len(pipe')
    BY <1>1
  <2> QED BY <1>1, <2>1 DEF RecordSent
<1>10. FirstUntagged'
  <2>1. SUFFICES ASSUME rpc \in SarEarly
                 PROVE  FirstUntagged'
    BY DEF FirstUntagged, SarEarly
  <2>2. ASSUME NEW i \in 1..Len(pipe'), pipe'[i].kind = "rec", pipe'[i].type = "R_LAST_STATS"
        PROVE  \E j \in 1..(i - 1) : pipe'[j].kind = "rec"
    <3>1. CASE i \in 1..Len(pipe)
      <4>1. PICK j \in 1..(i - 1) : pipe[j].kind = "rec"
        BY <1>1, <2>1, <2>2, <3>1 DEF FirstUntagged, SarEarly
      <4> QED BY <1>1, <3>1, <4>1
    <3>2. CASE i = Len(pipe) + 1
      <4>1. rot # 0
        BY <1>1, <2>2, <3>2 DEF Sequel, Tag
      <4>2. PICK j \in 1..Len(pipe) : pipe[j].kind = "rec"
        BY <2>1, <4>1 DEF FirstUntagged, SarEarly, RecordSent
      <4> QED BY <1>1, <3>2, <4>2
    <3> QED BY <1>1, <3>1, <3>2
  <2>3. (rot' # 0 => RecordSent') /\ (spc' \notin BeforeRecord => RecordSent')
    BY <1>3, <1>8, <1>9, <2>1 DEF FirstUntagged, SarEarly, Sequel
  <2> QED BY <2>2, <2>3 DEF FirstUntagged
<1>11. \A i \in 1..(Len(pipe) + 1) : \A l : InForce(i, l) => InForce(i, l)'
  BY <1>1 DEF InForce
<1>12. ListsInForce'
  <2>1. ASSUME NEW i \in 1..Len(pipe'), pipe'[i].kind = "data"
        PROVE  InForce(i, pipe[i].list)'
    <3>1. InForce(i, pipe'[i].list)
      <4>1. CASE i \in 1..Len(pipe)
        BY <1>1, <2>1, <4>1 DEF ListsInForce
      <4>2. CASE i = Len(pipe) + 1
        <5>1. spc \in Listed /\ pipe'[i].list = list
          BY <1>1, <2>1, <4>2 DEF Sequel, Listed
        <5> QED BY <4>2, <5>1 DEF ListsInForce
      <4> QED BY <1>1, <4>1, <4>2
    <3> QED BY <1>1, <1>11, <3>1
  <2>2. ASSUME spc' \in Listed
        PROVE  InForce(Len(pipe) + 1, list)'
    <3>1. CASE msg.kind = "list"
      BY <1>1, <3>1 DEF InForce, Sequel
    <3>2. CASE msg.kind # "list"
      <4>1. InForce(Len(pipe) + 1, list)
        BY <2>2, <3>2 DEF ListsInForce, Sequel
      <4> QED BY <1>1, <3>2, <4>1 DEF InForce
    <3> QED BY <3>1, <3>2
  <2> QED BY <2>1, <2>2 DEF ListsInForce
<1> QED BY <1>6, <1>7, <1>10, <1>12

-----------------------------------------------------------------------------
(* The types. *)

LEMMA MessageFields ==
  ASSUME NEW msg \in Message
  PROVE  /\ msg.kind \in {"magic", "list", "rec", "data"}
         /\ msg.kind = "list" => msg.list \in Seq(Activity)
         /\ msg.kind = "rec" => msg.type \in {"R_STATS", "R_LAST_STATS"}
BY DEF Message, MagicMsg

LEMMA SentTyped ==
  ASSUME Typed, NEW msg \in Message, NEW next \in SadcPc, Send(msg, next)
  PROVE  Typed'
<1>1. pipe' \in Seq(Message) /\ spc' \in SadcPc
  <2>1. pipe' = pipe \/ pipe' = Append(pipe, msg)
    BY Zenon DEF Send
  <2>2. spc' = next \/ spc' = "dead"
    BY Zenon DEF Send
  <2> QED BY <2>1, <2>2 DEF Typed, SadcPc, SadcOver, Broken
<1>2. /\ taken' = taken /\ list' = list
      /\ rpc' = rpc /\ rtype' = rtype
  BY Zenon DEF Send, sarvars
<1> QED BY <1>1, <1>2 DEF Typed

LEMMA SadcTyped ==
  ASSUME Typed, SadcStep
  PROVE  Typed'
<1> USE SadcPipeAssumption
<1>1. CASE SadcOpen
  <2>1. /\ pipe' = pipe /\ taken' = taken /\ rpc' = rpc /\ rtype' = rtype
        /\ spc' \in {"magic0", "failed"} /\ (list' = list \/ list' \in Lists)
    BY <1>1, Zenon DEF SadcOpen, sarvars
  <2> QED BY <2>1 DEF Typed, SadcPc, SadcBefore, SadcOver, Broken
<1>2. CASE SendHeader
  <2>1. MagicMsg \in Message /\ ListMsg(list) \in Message
    BY DEF Message, MagicMsg, ListMsg, Typed
  <2>2. {"list0", "sample", "list", "saveagain"} \subseteq SadcPc
    BY DEF SadcPc, SadcBefore
  <2> QED BY <1>2, <2>1, <2>2, SentTyped DEF SendHeader
<1>3. CASE SadcSample
  <2>1. /\ pipe' = pipe /\ taken' = taken + 1 /\ rpc' = rpc /\ rtype' = rtype
        /\ spc' = "rec" /\ list' = list
    BY <1>3, Zenon DEF SadcSample, sarvars
  <2> QED BY <2>1 DEF Typed, SadcPc
<1>4. CASE SendRecord
  <2>1. RecMsg(taken, Tag) \in Message /\ DataMsg(taken, list) \in Message
    BY DEF Message, RecMsg, DataMsg, Typed, Tag
  <2>2. {"data", "save"} \subseteq SadcPc
    BY DEF SadcPc
  <2> QED BY <1>4, <2>1, <2>2, SentTyped DEF SendRecord, Tag
<1>5. CASE Save
  <2>1. /\ pipe' = pipe /\ taken' = taken /\ rpc' = rpc /\ rtype' = rtype
        /\ spc' \in {"rotate", "count"} /\ list' = list
    BY <1>5 DEF Save, sarvars
  <2> QED BY <2>1 DEF Typed, SadcPc
<1>6. CASE SadcRotate
  <2>1. /\ pipe' = pipe /\ taken' = taken /\ rpc' = rpc /\ rtype' = rtype
        /\ spc' \in {"magic", "failed"} /\ (list' = list \/ list' \in Lists)
    BY <1>6, Zenon DEF SadcRotate, sarvars
  <2> QED BY <2>1 DEF Typed, SadcPc, SadcOver, Broken
<1>7. CASE SadcCount
  <2>1. /\ pipe' = pipe /\ taken' = taken /\ rpc' = rpc /\ rtype' = rtype
        /\ spc' \in {"check", "pause"} /\ list' = list
    BY <1>7 DEF SadcCount, sarvars
  <2> QED BY <2>1 DEF Typed, SadcPc
<1>8. CASE Alarm
  <2>1. /\ pipe' = pipe /\ taken' = taken /\ rpc' = rpc /\ rtype' = rtype
        /\ spc' = "check" /\ list' = list
    BY <1>8, Zenon DEF Alarm, sarvars
  <2> QED BY <2>1 DEF Typed, SadcPc
<1>9. CASE SadcCheck
  <2>1. /\ pipe' = pipe /\ taken' = taken /\ rpc' = rpc /\ rtype' = rtype
        /\ spc' \in {"done", "sample"} /\ list' = list
    BY <1>9 DEF SadcCheck, sarvars
  <2> QED BY <2>1 DEF Typed, SadcPc, SadcOver, Broken
<1> QED BY <1>1, <1>2, <1>3, <1>4, <1>5, <1>6, <1>7, <1>8, <1>9 DEF SadcStep

LEMMA SarTyped ==
  ASSUME Typed, SarStep
  PROVE  Typed'
<1>1. spc' = spc /\ taken' = taken /\ list' = list
  BY Zenon DEF SarStep, SarReadMagic, SarReadList, SarReadRecord, SarReadData, SarInstall, SarShow,
               SarTally, SarAverage, SarGoto, Receive, sadcvars
<1>2. pipe' = pipe \/ (pipe # << >> /\ pipe' = Tail(pipe))
  BY Zenon DEF SarStep, SarReadMagic, SarReadList, SarReadRecord, SarReadData, SarInstall, SarShow,
               SarTally, SarAverage, SarGoto, Receive
<1>3. pipe' \in Seq(Message)
  BY <1>2 DEF Typed
<1>4. rpc' \in SarPc
  <2>1. CASE SarReadMagic
    BY <2>1 DEF SarReadMagic, SarGoto, Expect, SarPc, SarBefore, SarOver
  <2>2. CASE SarReadList
    BY <2>2 DEF SarReadList, SarGoto, SarPc, SarBefore, SarOver
  <2>3. CASE SarReadRecord
    BY <2>3 DEF SarReadRecord, SarGoto, Expect, SarPc, SarBefore, SarOver
  <2>4. CASE SarReadData
    BY <2>4 DEF SarReadData, SarGoto, SarPc, SarBefore, SarOver
  <2>5. CASE SarInstall \/ SarShow
    BY <2>5 DEF SarInstall, SarShow, SarPc
  <2>6. CASE SarTally \/ SarAverage
    BY <2>6 DEF SarTally, SarAverage, SarPc, SarOver
  <2> QED BY <2>1, <2>2, <2>3, <2>4, <2>5, <2>6 DEF SarStep
<1>5. rtype' \in {"R_STATS", "R_LAST_STATS"}
  <2>1. CASE SarReadRecord
    <3>1. rtype' = rtype \/ (pipe # << >> /\ Head(pipe).kind = "rec" /\ rtype' = Head(pipe).type)
      BY <2>1, Zenon DEF SarReadRecord, SarGoto, Receive
    <3>2. pipe # << >> => Head(pipe) \in Message
      BY DEF Typed
    <3> QED BY <3>1, <3>2, MessageFields DEF Typed
  <2>2. CASE ~SarReadRecord
    <3>1. rtype' = rtype
      BY <2>2, Zenon DEF SarStep, SarReadMagic, SarReadList, SarReadData, SarInstall, SarShow,
                         SarTally, SarAverage, SarGoto
    <3> QED BY <3>1 DEF Typed
  <2> QED BY <2>1, <2>2
<1> QED BY <1>1, <1>3, <1>4, <1>5 DEF Typed

-----------------------------------------------------------------------------
(* The steps. *)

\* A step of sadc that sends nothing.
LEMMA SadcQuiet ==
  ASSUME IInv, SadcOpen \/ SadcSample \/ Save \/ SadcRotate \/ SadcCount \/ Alarm \/ SadcCheck
  PROVE  /\ SameAhead /\ SadcKept
         /\ rpc' = rpc /\ rtype' = rtype /\ intr' = intr /\ idseq' = idseq
<1>1. CASE SadcOpen
  <2>1. /\ pipe' = pipe /\ rpc' = rpc /\ rtype' = rtype /\ intr' = intr /\ idseq' = idseq /\ rot' = rot
        /\ spc = "open" /\ spc' \in {"magic0", "failed"}
    BY <1>1, Zenon DEF SadcOpen, sarvars
  <2> QED BY <2>1 DEF SameAhead, SadcKept, Due, ToMagic, SadcOver, Broken, Listed, BeforeRecord
<1>2. CASE SadcSample
  <2>1. /\ pipe' = pipe /\ rpc' = rpc /\ rtype' = rtype /\ intr' = intr /\ idseq' = idseq /\ rot' = rot
        /\ spc = "sample" /\ spc' = "rec" /\ list' = list
    BY <1>2, Zenon DEF SadcSample, sarvars
  <2> QED BY <2>1 DEF SameAhead, SadcKept, Due, ToMagic, ToList, SadcOver, Broken, Listed, BeforeRecord
<1>3. CASE Save
  <2>1. /\ pipe' = pipe /\ rpc' = rpc /\ rtype' = rtype /\ intr' = intr /\ idseq' = idseq /\ rot' = rot
        /\ spc \in {"save", "saveagain"} /\ list' = list
        /\ spc' = IF spc = "save" /\ rot # 0 THEN "rotate" ELSE "count"
    BY <1>3 DEF Save, sarvars
  <2>2. Due' = Due
    BY <2>1 DEF Due, ToMagic, ToList, Then, AfterRecord, Tag
  <2> QED BY <2>1, <2>2 DEF SameAhead, SadcKept, SadcOver, Broken, Listed, BeforeRecord
<1>4. CASE SadcRotate
  <2>1. /\ pipe' = pipe /\ rpc' = rpc /\ rtype' = rtype /\ intr' = intr /\ idseq' = idseq /\ rot' = 0
        /\ spc = "rotate" /\ spc' \in {"magic", "failed"}
    BY <1>4, Zenon DEF SadcRotate, sarvars
  <2> QED BY <2>1 DEF SameAhead, SadcKept, Due, ToMagic, SadcOver, Broken, Listed, BeforeRecord
<1>5. CASE SadcCount
  <2>1. /\ pipe' = pipe /\ rpc' = rpc /\ rtype' = rtype /\ intr' = intr /\ idseq' = idseq /\ rot' = rot
        /\ spc = "count" /\ spc' \in {"check", "pause"} /\ list' = list
    BY <1>5 DEF SadcCount, sarvars
  <2> QED BY <2>1 DEF SameAhead, SadcKept, Due, ToMagic, ToList, SadcOver, Broken, Listed, BeforeRecord
<1>6. CASE Alarm
  <2>1. /\ pipe' = pipe /\ rpc' = rpc /\ rtype' = rtype /\ intr' = intr /\ idseq' = idseq /\ rot' = rot
        /\ spc = "pause" /\ spc' = "check" /\ list' = list
    BY <1>6, Zenon DEF Alarm, sarvars
  <2> QED BY <2>1 DEF SameAhead, SadcKept, Due, ToMagic, ToList, SadcOver, Broken, Listed, BeforeRecord
<1>7. CASE SadcCheck
  <2>1. /\ pipe' = pipe /\ rpc' = rpc /\ rtype' = rtype /\ intr' = intr /\ idseq' = idseq
        /\ spc = "check" /\ spc' \in {"done", "sample"} /\ list' = list
    BY <1>7 DEF SadcCheck, sarvars
  <2> QED BY <2>1 DEF SameAhead, SadcKept, Due, ToMagic, ToList, SadcOver, Broken, Listed, BeforeRecord
<1> QED BY <1>1, <1>2, <1>3, <1>4, <1>5, <1>6, <1>7

\* A message is sent, or sadc dies of SIGPIPE.
LEMMA SendKeeps ==
  ASSUME IInv, NEW msg \in Message, NEW next \in SadcPc, Send(msg, next),
         spc \notin SadcOver, msg.kind = Due, next = "save" <=> spc = "data",
         spc' = next => Sequel(msg)
  PROVE  (Grammar /\ Expects /\ FirstUntagged /\ ListsInForce /\ InStep)'
<1>1. /\ rpc' = rpc /\ rtype' = rtype /\ intr' = intr /\ idseq' = idseq /\ list' = list /\ rot' = rot
  BY Zenon DEF Send, sarvars
<1>2. \/ pipe' = Append(pipe, msg) /\ spc' = next
      \/ pipe' = pipe /\ spc' = "dead"
  BY Zenon DEF Send
<1>3. CASE pipe' = Append(pipe, msg) /\ spc' = next
  BY <1>1, <1>3, SentNext DEF IInv, Sent, InStep
<1>4. CASE pipe' = pipe /\ spc' = "dead"
  <2>1. SameAhead /\ SadcKept
    BY <1>1, <1>4 DEF SameAhead, SadcKept, SadcOver, Broken, Listed, BeforeRecord
  <2> QED BY <1>1, <2>1, NoMessage, ExpectsKept DEF IInv, InStep
<1> QED BY <1>2, <1>3, <1>4

LEMMA SadcKeeps ==
  ASSUME IInv, SadcStep
  PROVE  (Grammar /\ Expects /\ FirstUntagged /\ ListsInForce /\ InStep)'
<1>1. CASE SendHeader
  <2>1. MagicMsg \in Message /\ MagicMsg.kind = "magic"
    BY DEF Message, MagicMsg
  <2>2. ListMsg(list) \in Message /\ ListMsg(list).kind = "list" /\ ListMsg(list).list = list
    BY DEF Message, ListMsg, IInv, Typed
  <2>3. {"list0", "sample", "list", "saveagain"} \subseteq SadcPc
    BY DEF SadcPc, SadcBefore
  <2>4. CASE spc \in {"magic0", "magic"}
    <3>1. PICK next \in {"list0", "list"} : Send(MagicMsg, next) /\ (next = "list0" <=> spc = "magic0")
      BY <1>1, <2>4 DEF SendHeader
    <3>2. spc' = next => Sequel(MagicMsg)
      BY <2>1, <2>4, <3>1 DEF Sequel, Listed, BeforeRecord, SadcOver, Broken
    <3>3. spc \notin SadcOver /\ Due = "magic"
      BY <2>4 DEF SadcOver, Broken, Due, ToMagic
    <3> QED BY <2>1, <2>3, <2>4, <3>1, <3>2, <3>3, SendKeeps
  <2>5. CASE spc \in {"list0", "list"}
    <3>1. PICK next \in {"sample", "saveagain"} : Send(ListMsg(list), next) /\ (next = "sample" <=> spc = "list0")
      BY <1>1, <2>5 DEF SendHeader
    <3>2. spc' = next => Sequel(ListMsg(list))
      BY <2>2, <2>5, <3>1 DEF Sequel, Listed, BeforeRecord, SadcOver, Broken
    <3>3. spc \notin SadcOver /\ Due = "list"
      BY <2>5 DEF SadcOver, Broken, Due, ToMagic, ToList
    <3> QED BY <2>2, <2>3, <2>5, <3>1, <3>2, <3>3, SendKeeps
  <2> QED BY <1>1, <2>4, <2>5 DEF SendHeader
<1>2. CASE SendRecord
  <2>1. /\ RecMsg(taken, Tag) \in Message /\ RecMsg(taken, Tag).kind = "rec"
        /\ RecMsg(taken, Tag).type = Tag
    BY DEF Message, RecMsg, Tag, IInv, Typed
  <2>2. DataMsg(taken, list) \in Message /\ DataMsg(taken, list).kind = "data" /\ DataMsg(taken, list).list = list
    BY DEF Message, DataMsg, IInv, Typed
  <2>3. {"data", "save"} \subseteq SadcPc
    BY DEF SadcPc
  <2>4. CASE spc = "rec"
    <3>1. Send(RecMsg(taken, Tag), "data")
      BY <1>2, <2>4 DEF SendRecord, Tag
    <3>2. spc' = "data" => Sequel(RecMsg(taken, Tag))
      BY <2>1, <2>4 DEF Sequel, Listed
    <3>3. spc \notin SadcOver /\ Due = "rec"
      BY <2>4 DEF SadcOver, Broken, Due, ToMagic, ToList
    <3> QED BY <2>1, <2>3, <2>4, <3>1, <3>2, <3>3, SendKeeps
  <2>5. CASE spc = "data"
    <3>1. Send(DataMsg(taken, list), "save")
      BY <1>2, <2>5 DEF SendRecord
    <3>2. spc' = "save" => Sequel(DataMsg(taken, list))
      BY <2>2, <2>5 DEF Sequel, Listed, BeforeRecord, SadcOver, Broken
    <3>3. spc \notin SadcOver /\ Due = "data"
      BY <2>5 DEF SadcOver, Broken, Due, ToMagic, ToList
    <3> QED BY <2>2, <2>3, <2>5, <3>1, <3>2, <3>3, SendKeeps
  <2> QED BY <1>2, <2>4, <2>5 DEF SendRecord
<1>3. CASE SadcOpen \/ SadcSample \/ Save \/ SadcRotate \/ SadcCount \/ Alarm \/ SadcCheck
  <2>1. /\ SameAhead /\ SadcKept
        /\ rpc' = rpc /\ rtype' = rtype /\ intr' = intr /\ idseq' = idseq
    BY <1>3, SadcQuiet
  <2> QED BY <2>1, NoMessage, ExpectsKept DEF IInv, InStep
<1> QED BY <1>1, <1>2, <1>3 DEF SadcStep

\* A step of sar, by where sar is and what it takes.
LEMMA SarKeeps ==
  ASSUME IInv, SarStep
  PROVE  (Grammar /\ Expects /\ FirstUntagged /\ ListsInForce /\ InStep)'
<1>1. spc' = spc /\ rot' = rot /\ list' = list
  BY Zenon DEF SarStep, SarReadMagic, SarReadList, SarReadRecord, SarReadData, SarInstall, SarShow,
               SarTally, SarAverage, SarGoto, Receive, sadcvars
<1>2. Len(pipe) \in Nat /\ (pipe = << >> <=> Len(pipe) = 0)
      /\ (pipe # << >> => Head(pipe) = pipe[1] /\ Head(pipe) \in Message)
  BY DEF IInv, Typed
<1>3. ASSUME pipe # << >>, pipe' = Tail(pipe), NEW k, ComesAt(1, k)
      PROVE  Head(pipe).kind = k
  BY <1>2, <1>3 DEF ComesAt
<1>4. ASSUME pipe # << >>, pipe' = Tail(pipe), NEW k, ComesAt(2, k)
      PROVE  ComesAt(1, k)'
  BY <1>1, <1>4, AheadShifted DEF IInv, Typed
<1>5. ASSUME pipe # << >>, pipe' = Tail(pipe), NEW k, NEW l,
             Head(pipe).kind = k, \A i \in 1..Len(pipe) : pipe[i].kind = k => ComesAt(i + 1, l)
      PROVE  ComesAt(1, l)'
  BY <1>2, <1>4, <1>5
<1>6. CASE pipe' = pipe /\ idseq' = idseq /\ rtype' = rtype /\ rpc' \notin SarEarly \cup {"garbled"} /\ Expects'
  <2>1. SameAhead /\ SadcKept
    BY <1>1, <1>6 DEF SameAhead, SadcKept
  <2> QED BY <1>6, <2>1, NoMessage DEF IInv, InStep
<1>7. CASE /\ pipe # << >> /\ pipe' = Tail(pipe) /\ Expects' /\ rpc' # "garbled"
           /\ idseq' = IF Head(pipe).kind = "list" THEN Head(pipe).list ELSE idseq
           /\ (rpc' \notin SarEarly \/ (rpc \in SarEarly /\ Head(pipe).kind # "rec"))
  BY <1>1, <1>7, Received DEF IInv, InStep
<1>9. ASSUME NEW label \in {"eod", "show"}, SarGoto(label), label = "show" => intr
      PROVE  (Grammar /\ Expects /\ FirstUntagged /\ ListsInForce /\ InStep)'
  <2>1. pipe' = pipe /\ rpc' = label /\ idseq' = idseq /\ rtype' = rtype /\ intr' = intr
    BY <1>9, Zenon DEF SarGoto
  <2>2. Expects'
    BY <1>9, <2>1 DEF Expects
  <2> QED BY <1>6, <1>9, <2>1, <2>2 DEF SarEarly
<1>10. CASE SarReadMagic
  <2>1. CASE Eof /\ SarGoto("eod")
    BY <1>9, <2>1
  <2>2. CASE Receive /\ rpc' = Expect("magic", IF rpc = "magic0" THEN "list0" ELSE "list") /\ idseq' = idseq
    <3>1. pipe # << >> /\ pipe' = Tail(pipe) /\ rpc \in {"magic0", "magic"}
      BY <1>10, <2>2, Zenon DEF Receive, SarReadMagic
    <3>2. Head(pipe).kind = "magic"
      BY <1>3, <3>1 DEF IInv, Expects
    <3>3. rpc' = IF rpc = "magic0" THEN "list0" ELSE "list"
      BY <2>2, <3>2 DEF Expect
    <3>4. ComesAt(1, "list")'
      BY <1>5, <3>1, <3>2 DEF IInv, Grammar
    <3>5. Expects'
      BY <3>1, <3>3, <3>4 DEF Expects
    <3> QED BY <1>7, <2>2, <3>1, <3>2, <3>3, <3>5 DEF SarEarly
  <2> QED BY <1>10, <2>1, <2>2, Zenon DEF SarReadMagic
<1>11. CASE SarReadList
  <2>1. CASE Eof /\ SarGoto("eod")
    BY <1>9, <2>1
  <2>2. CASE ~(Eof /\ SarGoto("eod"))
    <3>1. pipe # << >> /\ pipe' = Tail(pipe) /\ rpc \in {"list0", "list"}
      BY <1>11, <2>2, Zenon DEF Receive, SarReadList
    <3>2. Head(pipe).kind = "list"
      BY <1>3, <3>1 DEF IInv, Expects
    <3>3. /\ idseq' = Head(pipe).list
          /\ rpc' = IF rpc = "list" THEN "tally" ELSE IF selected' = {} THEN "nothing" ELSE "rec0"
      BY <1>11, <2>2, <3>2, Zenon DEF SarReadList
    <3>4. ComesAt(1, "rec")'
      BY <1>5, <3>1, <3>2 DEF IInv, Grammar
    <3>5. Expects'
      BY <3>1, <3>3, <3>4 DEF Expects
    <3> QED BY <1>7, <3>1, <3>2, <3>3, <3>5 DEF SarEarly
  <2> QED BY <2>1, <2>2
<1>12. CASE SarReadRecord
  <2>1. CASE Eof /\ SarGoto(IF intr THEN "show" ELSE "eod")
    BY <1>9, <2>1
  <2>2. CASE ~(Eof /\ SarGoto(IF intr THEN "show" ELSE "eod"))
    <3>1. pipe # << >> /\ pipe' = Tail(pipe) /\ rpc \in {"rec0", "rec"} /\ idseq' = idseq
      BY <1>12, <2>2, Zenon DEF Receive, SarReadRecord
    <3>2. Head(pipe).kind = "rec"
      BY <1>3, <3>1 DEF IInv, Expects
    <3>3. /\ rpc' = (IF rpc = "rec0" THEN "data0" ELSE "data")
          /\ rtype' = Head(pipe).type
      BY <1>12, <2>2, <3>2, Zenon DEF SarReadRecord, Expect
    <3>4. ComesAt(1, "data")'
      BY <1>5, <3>1, <3>2 DEF IInv, Grammar
    <3>5. ComesAt(2, AfterRecord(rtype))'
      <4>1. ComesAt(3, AfterRecord(Head(pipe).type))
        BY <1>2, <3>1, <3>2 DEF IInv, Grammar
      <4>2. ComesAt(2 + 1, AfterRecord(rtype'))
        BY <3>3, <4>1
      <4>3. ASSUME NEW k, ComesAt(2 + 1, k)
            PROVE  ComesAt(2, k)'
        BY <1>1, <3>1, <4>3, AheadShifted DEF IInv, Typed
      <4> QED BY <4>2, <4>3
    <3>6. rpc = "rec0" => rtype' = "R_STATS"
      <4>1. rpc = "rec0" => Head(pipe).type # "R_LAST_STATS"
        BY <1>2, <3>1, <3>2 DEF IInv, FirstUntagged
      <4> QED BY <1>2, <3>1, <3>2, <3>3, <4>1, MessageFields
    <3>7. Expects'
      BY <3>1, <3>3, <3>4, <3>5, <3>6 DEF Expects
    <3> QED BY <1>7, <3>1, <3>2, <3>3, <3>7 DEF SarEarly
  <2> QED BY <2>1, <2>2
<1>13. CASE SarReadData
  <2>1. CASE Eof /\ SarGoto("eod")
    BY <1>9, <2>1
  <2>2. CASE ~(Eof /\ SarGoto("eod"))
    <3>1. /\ pipe # << >> /\ pipe' = Tail(pipe) /\ rpc \in {"data0", "data"}
          /\ idseq' = idseq /\ rtype' = rtype
      BY <1>13, <2>2, Zenon DEF Receive, SarReadData
    <3>2. Head(pipe).kind = "data"
      BY <1>3, <3>1 DEF IInv, Expects
    <3>3. Head(pipe).list = idseq
      <4>1. InForce(1, pipe[1].list)
        BY <1>2, <3>1, <3>2 DEF IInv, ListsInForce
      <4> QED BY <1>2, <3>1, <4>1 DEF InForce
    <3>4. rpc' = IF rpc = "data0" THEN "install" ELSE "show"
      BY <1>13, <2>2, <3>2, <3>3, Zenon DEF SarReadData
    <3>5. ComesAt(2, AfterRecord(rtype)) /\ (rpc = "data0" => rtype = "R_STATS")
      BY <3>1 DEF IInv, Expects
    <3>6. ComesAt(1, AfterRecord(rtype))'
      <4>1. ASSUME NEW k, k = AfterRecord(rtype)
            PROVE  ComesAt(1, k)'
        BY <1>4, <3>1, <3>5, <4>1
      <4> QED BY <3>1, <4>1
    <3>7. Expects'
      BY <3>1, <3>4, <3>5, <3>6 DEF Expects, AfterRecord
    <3> QED BY <1>7, <3>1, <3>2, <3>4, <3>7 DEF SarEarly
  <2> QED BY <2>1, <2>2
<1>14. CASE SarInstall \/ SarShow \/ SarTally \/ SarAverage
  <2>1. pipe' = pipe /\ idseq' = idseq /\ rtype' = rtype
    BY <1>14, Zenon DEF SarInstall, SarShow, SarTally, SarAverage
  <2>2. \/ rpc = "install" /\ rpc' = "rec"
        \/ rpc = "show" /\ (rpc' = "avg" \/ (~intr /\ rpc' = IF rtype = "R_LAST_STATS" THEN "magic" ELSE "tally"))
        \/ rpc = "tally" /\ rpc' \in {"rec", "avg"}
        \/ rpc' = "done"
    BY <1>14, Zenon DEF SarInstall, SarShow, SarTally, SarAverage
  <2>3. SameAhead
    BY <1>1, <2>1 DEF SameAhead
  <2>4. \A k : ComesAt(1, k) => ComesAt(1, k)'
    BY <2>3, AheadKept
  <2>5. Expects'
    BY <2>2, <2>4 DEF IInv, Expects, AfterRecord
  <2> QED BY <1>6, <2>1, <2>2, <2>5 DEF SarEarly
<1> QED BY <1>10, <1>11, <1>12, <1>13, <1>14 DEF SarStep

\* Signals, deaths and the date: a process goes no further than its end.
LEMMA OthersKeep ==
  ASSUME IInv, Signal \/ Midnight \/ Die \/ UNCHANGED vars
  PROVE  IInv'
<1>1. /\ pipe' = pipe /\ taken' = taken /\ list' = list /\ rot' = rot
      /\ idseq' = idseq /\ rtype' = rtype
  BY Zenon DEF Signal, Midnight, Die, vars, sadcvars, sarvars
<1>2. rpc' = rpc \/ rpc' = "killed"
  <2>1. CASE Signal
    BY <2>1 DEF Signal, SarSignalled, SarUntouched
  <2>2. CASE Midnight \/ Die \/ UNCHANGED vars
    BY <2>2, Zenon DEF Midnight, Die, vars, sarvars
  <2> QED BY <2>1, <2>2
<1>3. spc' = spc \/ spc' = "dead" \/ (spc = "pause" /\ spc' = "check")
  <2>1. CASE Signal
    BY <2>1 DEF Signal, SadcSignalled
  <2>2. CASE Midnight \/ Die \/ UNCHANGED vars
    BY <2>2, Zenon DEF Midnight, Die, vars, sadcvars
  <2> QED BY <2>1, <2>2
<1>4. intr => intr'
  <2>1. CASE Signal
    BY <2>1 DEF Signal, SarSignalled, SarUntouched
  <2>2. CASE Midnight \/ Die \/ UNCHANGED vars
    BY <2>2, Zenon DEF Midnight, Die, vars, sarvars
  <2> QED BY <2>1, <2>2
<1>5. Typed'
  BY <1>1, <1>2, <1>3 DEF IInv, Typed, SadcPc, SarPc, SadcOver, Broken, SarOver
<1>6. SameAhead
  BY <1>1, <1>3 DEF SameAhead, Due, ToMagic, ToList, SadcOver, Broken
<1>7. SadcKept /\ (intr => intr')
  BY <1>1, <1>3, <1>4 DEF SadcKept, Listed, BeforeRecord, SadcOver, Broken
<1>8. (Grammar /\ FirstUntagged /\ ListsInForce)'
  BY <1>1, <1>2, <1>6, <1>7, NoMessage DEF IInv, SarEarly
<1>9. Expects'
  BY <1>1, <1>2, <1>6, <1>7, ExpectsKept DEF IInv, SarOver
<1>10. InStep'
  BY <1>2 DEF IInv, InStep
<1> QED BY <1>5, <1>8, <1>9, <1>10 DEF IInv

LEMMA InvariantAtInit == Init => IInv
<1> SUFFICES ASSUME Init
             PROVE  IInv
  OBVIOUS
<1>1. /\ pipe = << >> /\ spc = "open" /\ taken = 0 /\ rot = 0 /\ list = << >>
      /\ rpc = "magic0" /\ rtype = "R_STATS"
  BY Zenon DEF Init
<1>2. Typed
  BY <1>1 DEF Typed, SadcPc, SarPc, SadcBefore, SarBefore
<1>3. Grammar /\ ListsInForce /\ FirstUntagged
  BY <1>1 DEF Grammar, ListsInForce, FirstUntagged, Listed, BeforeRecord
<1>4. Expects
  BY <1>1 DEF Expects, ComesAt, Due, ToMagic
<1>5. InStep
  BY <1>1 DEF InStep
<1> QED BY <1>2, <1>3, <1>4, <1>5 DEF IInv

LEMMA InvariantKept == IInv /\ [Next]_vars => IInv'
<1> SUFFICES ASSUME IInv, [Next]_vars
             PROVE  IInv'
  OBVIOUS
<1>1. CASE SadcStep
  BY <1>1, SadcTyped, SadcKeeps DEF IInv
<1>2. CASE SarStep
  BY <1>2, SarTyped, SarKeeps DEF IInv
<1>3. CASE Signal \/ Midnight \/ Die \/ UNCHANGED vars
  BY <1>3, OthersKeep
<1> QED BY <1>1, <1>2, <1>3 DEF Next

\* sar never takes a message for another one: across rotations, signals and
\* deaths, a header is read where a header was written, a record where a record
\* was written, and the statistics with the list they were written with
\* (read_stats() and read_header_data() of sar.c against rw_sa_stat_loop() and
\* write_stats() of sadc.c).
THEOREM InStepCorrect == Spec => []InStep
<1>1. Init => IInv
  BY InvariantAtInit
<1>2. IInv /\ [Next]_vars => IInv'
  BY InvariantKept
<1>3. IInv => InStep
  BY DEF IInv
<1> QED BY <1>1, <1>2, <1>3, PTL DEF Spec

-----------------------------------------------------------------------------
(* What sar displays: whatever the size of the pipe, the rotations, the   *)
(* signals and the deaths, line n goes from sample n to sample n + 1, the *)
(* average is over the lines, the end of the pipe comes unexpected only   *)
(* when sadc died, and what was displayed was saved.                      *)

\* The types that Typed leaves out.
NrTyped ==
  /\ day \in Day /\ ofile \in Day /\ rot \in 0..LastDay /\ left \in Int
  /\ saved \in [Day -> Seq(Nat)] /\ caught \in BOOLEAN
  /\ selected \subseteq Activity /\ curr \in {0, 1}
  /\ hdr \in [Slot -> Nat] /\ buf \in [Slot -> [Activity -> Nat]]
  /\ togo \in Nat /\ intr \in BOOLEAN /\ nlines \in Nat

\* count of rw_sa_stat_loop() against the samples taken.  A signal that sadc
\* caught has reached sar, if sar was still there.
Between == SadcBefore \cup {"sample", "pause", "check", "done"}
Within == {"rec", "data", "save", "rotate", "magic", "list", "saveagain", "count"}
Counted ==
  /\ spc \in Between => left = CountArg - taken
  /\ spc \in Within => left = CountArg - taken + 1
  /\ spc \notin {"check"} \cup SadcOver => left > 0
  /\ spc = "check" => left >= 0
  /\ spc \notin SadcBefore \cup {"sample"} \cup Broken => taken > 0
  /\ spc = "done" => left = 0 \/ caught
  /\ caught => intr \/ rpc \in SarOver
  /\ spc = "rotate" => rot \in Day

\* The sample that sar took last, while it reads.
Reading == rpc \notin SarOver \cup {"avg"} /\ ~(rpc = "show" /\ intr)
Got ==
  CASE rpc \in SarEarly -> 0
    [] rpc \in {"data0", "install"} -> hdr[0]
    [] rpc = "rec" -> hdr[1 - curr]
    [] OTHER -> hdr[curr]

\* m is the number of the last record before message i.
NumberBefore(i, m) ==
  /\ \A j \in 1..(i - 1) :
       pipe[j].kind = "rec" /\ (\A k \in (j + 1)..(i - 1) : pipe[k].kind # "rec") => m = pipe[j].n
  /\ (\A j \in 1..(i - 1) : pipe[j].kind # "rec") => m = Got

\* Records come one by one, each with its own statistics, none is ahead of sadc.
SentLast == IF spc = "rec" THEN taken - 1 ELSE taken
Consecutive ==
  /\ \A i \in 1..Len(pipe) :
       /\ pipe[i].kind = "rec" => NumberBefore(i, pipe[i].n - 1)
       /\ pipe[i].kind = "data" => NumberBefore(i, pipe[i].n)
  /\ spc \notin Broken => NumberBefore(Len(pipe) + 1, SentLast)
Behind ==
  /\ \A i \in 1..Len(pipe) :
       /\ pipe[i].kind = "rec" => pipe[i].n <= SentLast
       /\ pipe[i].kind = "data" => pipe[i].n <= taken /\ (spc \in {"rec", "data"} => pipe[i].n < taken)
  /\ Reading => Got <= SentLast
  /\ Reading /\ spc = "data" /\ rpc \notin {"data0", "data"} => Got < taken
Numbered == (Reading => Consecutive) /\ Behind

\* What the slots of sar hold.
Has(s, n) == hdr[s] = n /\ \A a \in selected : buf[s][a] = n
OnTime == EndAt = 0 \/ 2 * (nlines + 1) < EndAt
EndsOnSample == \E k \in Nat : EndAt = 2 * k
NoAverage == nlines = 0 \/ ~EndsOnSample
Slots ==
  /\ rpc \in SarBefore => nlines = 0 /\ togo = NrLines /\ curr = 1 /\ ~intr
  /\ rpc \notin SarOver \cup {"magic0", "list0"} => selected \subseteq ToSet(idseq)
  /\ rpc \in {"data0", "install"} => hdr[0] = 1
  /\ rpc = "install" => Has(0, 1)
  /\ rpc \notin SarBefore \cup SarOver => Has(2, 1)
  /\ rpc \in {"rec", "data", "show"} =>
       /\ Has(1 - curr, nlines + 1)
       /\ nlines < NrLines /\ togo = NrLines - nlines
       /\ nlines = 0 \/ OnTime
  /\ rpc = "data" => hdr[curr] = nlines + 2
  /\ rpc = "show" => intr \/ Has(curr, nlines + 2)
  /\ rpc \in {"magic", "list", "tally"} =>
       \/ togo = 0 /\ NoAverage
       \/ /\ Has(curr, nlines + 1)
          /\ nlines > 0 /\ nlines <= NrLines
          /\ togo = 0 \/ (togo = NrLines - nlines + 1 /\ OnTime)
  /\ rpc = "avg" => Has(curr, nlines + 1) \/ NoAverage

\* The samples that were taken are in a file, but the one that sadc has at hand.
Saved ==
  Output # "none" =>
    \A k \in 1..taken :
      \/ \E d \in Day : k \in ToSet(saved[d])
      \/ k = taken /\ spc \in {"rec", "data", "save", "dead"}
Displayed ==
  /\ line.to \in Nat /\ line.to <= taken
  /\ spc \in {"rec", "data"} => line.to < taken

AverageRight == EndsOnSample => AverageSpansLines

LInv ==
  /\ IInv /\ NrTyped /\ Counted /\ Numbered /\ Slots /\ Saved /\ Displayed
  /\ LinesConsecutive /\ UnexpectedEnd /\ AverageRight

-----------------------------------------------------------------------------
(* The numbers of the records in the pipe. *)

LEMMA MessageNumbers ==
  ASSUME NEW msg \in Message
  PROVE  msg.kind \in {"rec", "data"} => msg.n \in Nat
BY DEF Message, MagicMsg

\* sar takes a message: the number of the last record it took follows.
LEMMA NumbersShifted ==
  ASSUME pipe \in Seq(Message), pipe # << >>, pipe' = Tail(pipe),
         Got' = IF Head(pipe).kind = "rec" THEN Head(pipe).n ELSE Got,
         NEW i \in 1..(Len(pipe') + 1), NEW m, NumberBefore(i + 1, m)
  PROVE  NumberBefore(i, m)'
<1>1. /\ Len(pipe') = Len(pipe) - 1 /\ Len(pipe) \in Nat \ {0} /\ Head(pipe) = pipe[1]
      /\ \A j \in 1..Len(pipe') : j + 1 \in 1..Len(pipe) /\ pipe'[j] = pipe[j + 1]
  OBVIOUS
<1>2. ASSUME NEW j \in 1..(i - 1), pipe'[j].kind = "rec",
             \A k \in (j + 1)..(i - 1) : pipe'[k].kind # "rec"
      PROVE  m = pipe'[j].n
  <2>1. j + 1 \in 1..((i + 1) - 1) /\ pipe'[j] = pipe[j + 1]
    BY <1>1
  <2>2. ASSUME NEW k \in ((j + 1) + 1)..((i + 1) - 1)
        PROVE  pipe[k].kind # "rec"
    <3>1. k - 1 \in (j + 1)..(i - 1) /\ pipe'[k - 1] = pipe[k]
      BY <1>1
    <3> QED BY <1>2, <3>1
  <2> QED BY <1>2, <2>1, <2>2 DEF NumberBefore
<1>3. ASSUME \A j \in 1..(i - 1) : pipe'[j].kind # "rec"
      PROVE  m = Got'
  <2>1. ASSUME NEW k \in 2..((i + 1) - 1)
        PROVE  pipe[k].kind # "rec"
    <3>1. k - 1 \in 1..(i - 1) /\ pipe'[k - 1] = pipe[k]
      BY <1>1
    <3> QED BY <1>3, <3>1
  <2>2. CASE Head(pipe).kind = "rec"
    <3>1. 1 \in 1..((i + 1) - 1)
      OBVIOUS
    <3> QED BY <1>1, <2>1, <2>2, <3>1 DEF NumberBefore
  <2>3. CASE Head(pipe).kind # "rec"
    <3>1. \A k \in 1..((i + 1) - 1) : pipe[k].kind # "rec"
      BY <1>1, <2>1, <2>3
    <3> QED BY <2>3, <3>1 DEF NumberBefore
  <2> QED BY <2>2, <2>3
<1> QED BY <1>2, <1>3 DEF NumberBefore

LEMMA NumbersReceived ==
  ASSUME Typed, Consecutive, pipe # << >>, pipe' = Tail(pipe), spc' = spc, taken' = taken,
         Got' = IF Head(pipe).kind = "rec" THEN Head(pipe).n ELSE Got
  PROVE  Consecutive'
<1>1. /\ Len(pipe') = Len(pipe) - 1 /\ Len(pipe) \in Nat \ {0}
      /\ \A i \in 1..Len(pipe') : i + 1 \in 1..Len(pipe) /\ pipe'[i] = pipe[i + 1]
  BY DEF Typed
<1>2. \A i \in 1..(Len(pipe') + 1) : \A m : NumberBefore(i + 1, m) => NumberBefore(i, m)'
  BY NumbersShifted DEF Typed
<1>3. ASSUME NEW i \in 1..Len(pipe')
      PROVE  (/\ pipe[i].kind = "rec" => NumberBefore(i, pipe[i].n - 1)
              /\ pipe[i].kind = "data" => NumberBefore(i, pipe[i].n))'
  <2>1. pipe'[i] = pipe[i + 1] /\ i \in 1..(Len(pipe') + 1)
    BY <1>1
  <2>2. pipe'[i].kind = "rec" => NumberBefore(i + 1, pipe'[i].n - 1)
    BY <1>1, <2>1 DEF Consecutive
  <2>3. pipe'[i].kind = "data" => NumberBefore(i + 1, pipe'[i].n)
    BY <1>1, <2>1 DEF Consecutive
  <2> QED BY <1>2, <2>1, <2>2, <2>3
<1>4. ASSUME spc' \notin Broken
      PROVE  NumberBefore(Len(pipe) + 1, SentLast)'
  <2>1. SentLast' = SentLast
    BY DEF SentLast
  <2>2. NumberBefore((Len(pipe') + 1) + 1, SentLast)
    BY <1>1, <1>4 DEF Consecutive
  <2>3. Len(pipe') + 1 \in 1..(Len(pipe') + 1)
    BY <1>1
  <2> QED BY <1>2, <2>1, <2>2, <2>3
<1> QED BY <1>3, <1>4 DEF Consecutive

\* sadc sends a message.
Numbering(msg) ==
  /\ msg.kind = "rec" => spc = "rec" /\ msg.n = taken
  /\ msg.kind = "data" => spc = "data" /\ msg.n = taken
  /\ spc = "rec" => msg.kind = "rec"
  /\ spc' # "rec"

LEMMA NumbersSent ==
  ASSUME Typed, Consecutive, NEW msg \in Message, pipe' = Append(pipe, msg),
         Numbering(msg), spc \notin Broken, taken' = taken, Got' = Got
  PROVE  Consecutive'
<1>1. /\ Len(pipe') = Len(pipe) + 1 /\ Len(pipe) \in Nat
      /\ pipe'[Len(pipe) + 1] = msg
      /\ \A j \in 1..Len(pipe) : pipe'[j] = pipe[j]
  BY DEF Typed
<1>2. \A i \in 1..(Len(pipe) + 1) : \A m : NumberBefore(i, m) => NumberBefore(i, m)'
  BY <1>1 DEF NumberBefore
<1>3. NumberBefore(Len(pipe) + 1, SentLast)
  BY DEF Consecutive
<1>4. ASSUME NEW i \in 1..Len(pipe')
      PROVE  (/\ pipe[i].kind = "rec" => NumberBefore(i, pipe[i].n - 1)
              /\ pipe[i].kind = "data" => NumberBefore(i, pipe[i].n))'
  <2>1. CASE i \in 1..Len(pipe)
    <3>1. pipe'[i] = pipe[i] /\ i \in 1..(Len(pipe) + 1)
      BY <1>1, <2>1
    <3>2. pipe'[i].kind = "rec" => NumberBefore(i, pipe'[i].n - 1)
      BY <2>1, <3>1 DEF Consecutive
    <3>3. pipe'[i].kind = "data" => NumberBefore(i, pipe'[i].n)
      BY <2>1, <3>1 DEF Consecutive
    <3> QED BY <1>2, <3>1, <3>2, <3>3
  <2>2. CASE i = Len(pipe) + 1
    <3>1. pipe'[i] = msg
      BY <1>1, <2>2
    <3>2. msg.kind = "rec" => SentLast = msg.n - 1
      BY DEF SentLast, Numbering
    <3>3. msg.kind = "data" => SentLast = msg.n
      BY DEF SentLast, Numbering
    <3>4. NumberBefore(i, SentLast) /\ i \in 1..(Len(pipe) + 1)
      BY <1>1, <1>3, <2>2
    <3>5. msg.kind = "rec" => NumberBefore(i, msg.n - 1)
      BY <3>2, <3>4
    <3>6. msg.kind = "data" => NumberBefore(i, msg.n)
      BY <3>3, <3>4
    <3> QED BY <1>2, <3>1, <3>4, <3>5, <3>6
  <2> QED BY <1>1, <2>1, <2>2
<1>5. NumberBefore(Len(pipe) + 1, SentLast)'
  <2>1. SentLast' = taken
    BY DEF SentLast, Numbering
  <2>2. CASE msg.kind = "rec"
    BY <1>1, <2>1, <2>2 DEF NumberBefore, Numbering
  <2>3. CASE msg.kind # "rec"
    <3>1. NumberBefore(Len(pipe) + 1, taken)
      BY <1>3, <2>3 DEF SentLast, Numbering
    <3> QED BY <1>1, <2>1, <2>3, <3>1 DEF NumberBefore
  <2> QED BY <2>2, <2>3
<1> QED BY <1>4, <1>5 DEF Consecutive

\* Nothing is sent nor read.
LEMMA NumbersKept ==
  ASSUME Consecutive, pipe' = pipe, Got' = Got, SentLast' = SentLast \/ spc' \in Broken,
         spc' \notin Broken => spc \notin Broken
  PROVE  Consecutive'
<1>1. \A i, m : NumberBefore(i, m) => NumberBefore(i, m)'
  BY DEF NumberBefore
<1> QED BY <1>1 DEF Consecutive

-----------------------------------------------------------------------------
(* What sar takes. *)

LEMMA Taken ==
  ASSUME IInv, pipe # << >>
  PROVE  /\ Head(pipe) \in Message /\ Head(pipe) = pipe[1] /\ 1 \in 1..Len(pipe)
         /\ rpc \in {"magic0", "magic"} => Head(pipe).kind = "magic"
         /\ rpc \in {"list0", "list"} => Head(pipe).kind = "list"
         /\ rpc \in {"rec0", "rec"} => Head(pipe).kind = "rec"
         /\ rpc \in {"data0", "data"} => Head(pipe).kind = "data" /\ Head(pipe).list = idseq
<1>1. Head(pipe) \in Message /\ Head(pipe) = pipe[1] /\ 1 \in 1..Len(pipe)
  BY DEF IInv, Typed
<1>2. \A k : ComesAt(1, k) => Head(pipe).kind = k
  BY <1>1 DEF ComesAt
<1>3. ASSUME rpc \in {"data0", "data"}
      PROVE  Head(pipe).kind = "data" /\ Head(pipe).list = idseq
  <2>1. Head(pipe).kind = "data"
    BY <1>2, <1>3 DEF IInv, Expects
  <2>2. InForce(1, pipe[1].list)
    BY <1>1, <2>1 DEF IInv, ListsInForce
  <2> QED BY <1>1, <2>1, <2>2 DEF InForce
<1> QED BY <1>1, <1>2, <1>3 DEF IInv, Expects

\* The end of the pipe where sar expects anything but a record: sadc died.
LEMMA EndMeans ==
  ASSUME IInv, Eof, rpc \in {"magic0", "magic", "list0", "list", "data0", "data"}
  PROVE  spc \in Broken
<1>1. PICK k \in {"magic", "list", "data"} : ComesAt(1, k)
  BY DEF IInv, Expects
<1>2. Len(pipe) = 0
  BY DEF Eof
<1>3. spc \notin Broken => Due = k
  BY <1>1, <1>2 DEF ComesAt
<1>4. spc = "done" => Due = "rec"
  BY DEF Due, ToMagic, ToList
<1> QED BY <1>3, <1>4 DEF Eof, SadcOver, Broken

\* The outcomes of the reads of sar.
SarKept == UNCHANGED << curr, togo, intr, line, nlines, average >>
Took(kind) == pipe # << >> /\ pipe' = Tail(pipe) /\ Head(pipe).kind = kind /\ SarKept
EndOfPipe ==
  /\ rpc \in {"magic0", "magic", "list0", "list", "rec0", "rec", "data0", "data"}
  /\ Eof /\ pipe' = pipe /\ SarKept /\ UNCHANGED << idseq, selected, hdr, rtype, buf >>
  /\ rpc' = IF rpc \in {"rec0", "rec"} /\ intr THEN "show" ELSE "eod"
TookMagic ==
  /\ rpc \in {"magic0", "magic"} /\ Took("magic")
  /\ rpc' = IF rpc = "magic0" THEN "list0" ELSE "list"
  /\ UNCHANGED << idseq, selected, hdr, rtype, buf >>
TookList ==
  /\ rpc \in {"list0", "list"} /\ Took("list")
  /\ idseq' = Head(pipe).list
  /\ selected' = selected \cap ToSet(idseq')
  /\ rpc' = IF rpc = "list" THEN "tally" ELSE IF selected' = {} THEN "nothing" ELSE "rec0"
  /\ UNCHANGED << hdr, rtype, buf >>
TookRecord ==
  /\ rpc \in {"rec0", "rec"} /\ Took("rec")
  /\ rpc' = IF rpc = "rec0" THEN "data0" ELSE "data"
  /\ hdr' = [hdr EXCEPT ![Slot0] = Head(pipe).n]
  /\ UNCHANGED << idseq, selected, buf >>
TookData ==
  /\ rpc \in {"data0", "data"} /\ Took("data")
  /\ rpc' = IF rpc = "data0" THEN "install" ELSE "show"
  /\ buf' = [buf EXCEPT ![Slot0] = [a \in Activity |-> IF a \in ToSet(idseq) THEN Head(pipe).n ELSE @[a]]]
  /\ UNCHANGED << idseq, selected, hdr, rtype >>

LEMMA SarOutcome ==
  ASSUME IInv, SarStep
  PROVE  /\ \/ EndOfPipe \/ TookMagic \/ TookList \/ TookRecord \/ TookData
            \/ SarInstall \/ SarShow \/ SarTally \/ SarAverage
         /\ UNCHANGED << day, nsig, spc, taken, left, rot, ofile, list, caught, saved >>
         /\ pipe' = pipe \/ (pipe # << >> /\ pipe' = Tail(pipe))
<1>1. UNCHANGED << day, nsig, spc, taken, left, rot, ofile, list, caught, saved >>
  BY Zenon DEF SarStep, SarReadMagic, SarReadList, SarReadRecord, SarReadData, SarInstall, SarShow,
               SarTally, SarAverage, SarGoto, Receive, sadcvars
<1>2. CASE SarReadMagic
  <2>1. ASSUME Eof, SarGoto("eod")
        PROVE  EndOfPipe
    <3>1. rpc \in {"magic0", "magic"}
      BY <1>2, Zenon DEF SarReadMagic
    <3>2. /\ pipe' = pipe /\ SarKept /\ UNCHANGED << idseq, selected, hdr, rtype, buf >>
          /\ rpc' = "eod"
      BY <2>1, Zenon DEF SarGoto, SarKept
    <3> QED BY <2>1, <3>1, <3>2 DEF EndOfPipe
  <2>2. ASSUME ~(Eof /\ SarGoto("eod"))
        PROVE  TookMagic
    <3>1. /\ rpc \in {"magic0", "magic"} /\ Receive
          /\ rpc' = Expect("magic", IF rpc = "magic0" THEN "list0" ELSE "list")
          /\ UNCHANGED << idseq, selected, curr, hdr, rtype, buf >>
      BY <1>2, <2>2, Zenon DEF SarReadMagic
    <3>2. pipe # << >> /\ pipe' = Tail(pipe) /\ UNCHANGED << togo, intr, line, nlines, average >>
      BY <3>1, Zenon DEF Receive
    <3>3. Head(pipe).kind = "magic"
      BY <3>1, <3>2, Taken
    <3> QED BY <3>1, <3>2, <3>3 DEF TookMagic, Took, SarKept, Expect
  <2> QED BY <1>1, <2>1, <2>2, Zenon DEF EndOfPipe, TookMagic, Took
<1>3. CASE SarReadList
  <2>1. ASSUME Eof, SarGoto("eod")
        PROVE  EndOfPipe
    <3>1. rpc \in {"list0", "list"}
      BY <1>3, Zenon DEF SarReadList
    <3>2. /\ pipe' = pipe /\ SarKept /\ UNCHANGED << idseq, selected, hdr, rtype, buf >>
          /\ rpc' = "eod"
      BY <2>1, Zenon DEF SarGoto, SarKept
    <3> QED BY <2>1, <3>1, <3>2 DEF EndOfPipe
  <2>2. ASSUME ~(Eof /\ SarGoto("eod"))
        PROVE  TookList
    <3>1. rpc \in {"list0", "list"} /\ Receive /\ UNCHANGED << curr, hdr, rtype, buf >>
      BY <1>3, <2>2, Zenon DEF SarReadList
    <3>2. pipe # << >> /\ pipe' = Tail(pipe) /\ UNCHANGED << togo, intr, line, nlines, average >>
      BY <3>1, Zenon DEF Receive
    <3>3. Head(pipe).kind = "list"
      BY <3>1, <3>2, Taken
    <3>4. /\ idseq' = Head(pipe).list
          /\ selected' = selected \cap ToSet(idseq')
          /\ rpc' = IF rpc = "list" THEN "tally" ELSE IF selected' = {} THEN "nothing" ELSE "rec0"
      BY <1>3, <2>2, <3>3, Zenon DEF SarReadList
    <3> QED BY <3>1, <3>2, <3>3, <3>4 DEF TookList, Took, SarKept
  <2> QED BY <1>1, <2>1, <2>2, Zenon DEF EndOfPipe, TookList, Took
<1>4. CASE SarReadRecord
  <2>1. ASSUME Eof, SarGoto(IF intr THEN "show" ELSE "eod")
        PROVE  EndOfPipe
    <3>1. rpc \in {"rec0", "rec"}
      BY <1>4, Zenon DEF SarReadRecord
    <3>2. /\ pipe' = pipe /\ SarKept /\ UNCHANGED << idseq, selected, hdr, rtype, buf >>
          /\ rpc' = IF intr THEN "show" ELSE "eod"
      BY <2>1, Zenon DEF SarGoto, SarKept
    <3> QED BY <2>1, <3>1, <3>2 DEF EndOfPipe
  <2>2. ASSUME ~(Eof /\ SarGoto(IF intr THEN "show" ELSE "eod"))
        PROVE  TookRecord
    <3>1. rpc \in {"rec0", "rec"} /\ Receive /\ UNCHANGED << idseq, selected, curr, buf >>
      BY <1>4, <2>2, Zenon DEF SarReadRecord
    <3>2. pipe # << >> /\ pipe' = Tail(pipe) /\ UNCHANGED << togo, intr, line, nlines, average >>
      BY <3>1, Zenon DEF Receive
    <3>3. Head(pipe).kind = "rec"
      BY <3>1, <3>2, Taken
    <3>4. /\ rpc' = Expect("rec", IF rpc = "rec0" THEN "data0" ELSE "data")
          /\ hdr' = [hdr EXCEPT ![Slot0] = IF Head(pipe).kind = "rec" THEN Head(pipe).n ELSE @]
      BY <1>4, <2>2, Zenon DEF SarReadRecord
    <3>5. hdr' = [hdr EXCEPT ![Slot0] = Head(pipe).n]
      BY <3>3, <3>4
    <3> QED BY <3>1, <3>2, <3>3, <3>4, <3>5 DEF TookRecord, Took, SarKept, Expect
  <2> QED BY <1>1, <2>1, <2>2, Zenon DEF EndOfPipe, TookRecord, Took
<1>5. CASE SarReadData
  <2>1. ASSUME Eof, SarGoto("eod")
        PROVE  EndOfPipe
    <3>1. rpc \in {"data0", "data"}
      BY <1>5, Zenon DEF SarReadData
    <3>2. /\ pipe' = pipe /\ SarKept /\ UNCHANGED << idseq, selected, hdr, rtype, buf >>
          /\ rpc' = "eod"
      BY <2>1, Zenon DEF SarGoto, SarKept
    <3> QED BY <2>1, <3>1, <3>2 DEF EndOfPipe
  <2>2. ASSUME ~(Eof /\ SarGoto("eod"))
        PROVE  TookData
    <3>1. rpc \in {"data0", "data"} /\ Receive /\ UNCHANGED << idseq, selected, curr, hdr, rtype >>
      BY <1>5, <2>2, Zenon DEF SarReadData
    <3>2. pipe # << >> /\ pipe' = Tail(pipe) /\ UNCHANGED << togo, intr, line, nlines, average >>
      BY <3>1, Zenon DEF Receive
    <3>3. Head(pipe).kind = "data" /\ Head(pipe).list = idseq
      BY <3>1, <3>2, Taken
    <3>4. /\ buf' = [buf EXCEPT ![Slot0] = [a \in Activity |-> IF a \in ToSet(idseq) THEN Head(pipe).n ELSE @[a]]]
          /\ rpc' = IF rpc = "data0" THEN "install" ELSE "show"
      BY <1>5, <2>2, <3>3, Zenon DEF SarReadData
    <3> QED BY <3>1, <3>2, <3>3, <3>4 DEF TookData, Took, SarKept
  <2> QED BY <1>1, <2>1, <2>2, Zenon DEF EndOfPipe, TookData, Took
<1>6. CASE SarInstall \/ SarShow \/ SarTally \/ SarAverage
  <2>1. pipe' = pipe
    BY <1>6, Zenon DEF SarInstall, SarShow, SarTally, SarAverage
  <2> QED BY <1>1, <1>6, <2>1
<1> QED BY <1>2, <1>3, <1>4, <1>5, <1>6 DEF SarStep

\* The number of what sar takes.
LEMMA TakenNumber ==
  ASSUME LInv, Reading, pipe # << >>
  PROVE  /\ Head(pipe).kind = "rec" =>
              Head(pipe).n \in Nat /\ Head(pipe).n - 1 = Got /\ Head(pipe).n <= SentLast
         /\ Head(pipe).kind = "data" =>
              /\ Head(pipe).n \in Nat /\ Head(pipe).n = Got /\ Head(pipe).n <= taken
              /\ spc \in {"rec", "data"} => Head(pipe).n < taken
<1>1. Head(pipe) \in Message /\ Head(pipe) = pipe[1] /\ 1 \in 1..Len(pipe)
  BY Taken DEF LInv
<1>2. Head(pipe).kind \in {"rec", "data"} => Head(pipe).n \in Nat
  BY <1>1, MessageNumbers
<1>3. \A m : NumberBefore(1, m) => m = Got
  BY DEF NumberBefore
<1>4. Consecutive /\ Behind
  BY DEF LInv, Numbered
<1> QED BY <1>1, <1>2, <1>3, <1>4 DEF Consecutive, Behind

-----------------------------------------------------------------------------
(* The steps of sar. *)

LEMMA SarNrTyped ==
  ASSUME LInv, SarStep
  PROVE  NrTyped'
<1>1. /\ UNCHANGED << day, nsig, spc, taken, left, rot, ofile, list, caught, saved >>
      /\ \/ EndOfPipe \/ TookMagic \/ TookList \/ TookRecord \/ TookData
         \/ SarInstall \/ SarShow \/ SarTally \/ SarAverage
  BY SarOutcome DEF LInv
<1>2. /\ selected' \subseteq Activity /\ curr' \in {0, 1} /\ hdr' \in [Slot -> Nat]
      /\ buf' \in [Slot -> [Activity -> Nat]] /\ togo' \in Nat /\ intr' \in BOOLEAN /\ nlines' \in Nat
  <2>1. CASE EndOfPipe \/ TookMagic \/ TookList
    <3>1. /\ UNCHANGED << curr, hdr, buf, togo, intr, nlines >>
          /\ selected' = selected \/ selected' = selected \cap ToSet(idseq')
      BY <2>1, Zenon DEF EndOfPipe, TookMagic, TookList, Took, SarKept
    <3> QED BY <3>1 DEF LInv, NrTyped
  <2>2. CASE TookRecord
    <3>1. Head(pipe) \in Message /\ Head(pipe).kind = "rec"
      BY <2>2, Taken DEF TookRecord, Took, LInv
    <3>2. Head(pipe).n \in Nat
      BY <3>1, MessageNumbers
    <3>3. UNCHANGED << selected, curr, buf, togo, intr, nlines >> /\ hdr' = [hdr EXCEPT ![Slot0] = Head(pipe).n]
      BY <2>2, Zenon DEF TookRecord, Took, SarKept
    <3> QED BY <3>2, <3>3 DEF LInv, NrTyped
  <2>3. CASE TookData
    <3>1. Head(pipe) \in Message /\ Head(pipe).kind = "data"
      BY <2>3, Taken DEF TookData, Took, LInv
    <3>2. Head(pipe).n \in Nat
      BY <3>1, MessageNumbers
    <3>3. /\ UNCHANGED << selected, curr, hdr, togo, intr, nlines >>
          /\ buf' = [buf EXCEPT ![Slot0] = [a \in Activity |-> IF a \in ToSet(idseq) THEN Head(pipe).n ELSE @[a]]]
      BY <2>3, Zenon DEF TookData, Took, SarKept
    <3>4. Slot0 \in Slot
      BY DEF Slot0, Slot, LInv, NrTyped
    <3>5. [a \in Activity |-> IF a \in ToSet(idseq) THEN Head(pipe).n ELSE buf[Slot0][a]] \in [Activity -> Nat]
      BY <3>2, <3>4 DEF LInv, NrTyped
    <3> QED BY <3>3, <3>5 DEF LInv, NrTyped
  <2>4. CASE SarInstall
    <3>1. /\ UNCHANGED << selected, curr, togo, intr, nlines >>
          /\ hdr' = [hdr EXCEPT ![2] = hdr[0]]
          /\ buf' = [buf EXCEPT ![2] = [a \in Activity |-> IF a \in ToSet(idseq) THEN buf[0][a] ELSE @[a]]]
      BY <2>4, Zenon DEF SarInstall
    <3>2. [a \in Activity |-> IF a \in ToSet(idseq) THEN buf[0][a] ELSE buf[2][a]] \in [Activity -> Nat]
      BY DEF LInv, NrTyped, Slot
    <3> QED BY <3>1, <3>2 DEF LInv, NrTyped, Slot
  <2>5. CASE SarShow
    <3>1. /\ UNCHANGED << selected, hdr, buf, intr >>
          /\ curr' = curr \/ curr' = 1 - curr
          /\ togo' = togo \/ togo' = 0
          /\ nlines' = nlines \/ nlines' = nlines + 1
      BY <2>5, Zenon DEF SarShow
    <3> QED BY <3>1 DEF LInv, NrTyped
  <2>6. CASE SarTally \/ SarAverage
    <3>1. UNCHANGED << selected, hdr, buf, intr, nlines >>
      BY <2>6, Zenon DEF SarTally, SarAverage
    <3>2. (curr' = curr \/ curr' = 1 - curr) /\ togo' \in Nat
      BY <2>6 DEF SarTally, SarAverage, LInv, NrTyped
    <3> QED BY <3>1, <3>2 DEF LInv, NrTyped
  <2> QED BY <1>1, <2>1, <2>2, <2>3, <2>4, <2>5, <2>6
<1> QED BY <1>1, <1>2 DEF LInv, NrTyped

\* rpc after a step: sar is past its first messages for good, and never over again.
LEMMA SarSlots ==
  ASSUME LInv, SarStep
  PROVE  Slots'
<1>1. \/ EndOfPipe \/ TookMagic \/ TookList \/ TookRecord \/ TookData
      \/ SarInstall \/ SarShow \/ SarTally \/ SarAverage
  BY SarOutcome DEF LInv, Slots
<1>2. NrTyped /\ NrTyped'
  BY SarNrTyped DEF LInv, Slots
<1>3. CASE EndOfPipe
  <2>1. /\ UNCHANGED << idseq, selected, curr, hdr, buf, togo, intr, nlines >>
        /\ rpc \in {"magic0", "magic", "list0", "list", "rec0", "rec", "data0", "data"}
        /\ rpc' = IF rpc \in {"rec0", "rec"} /\ intr THEN "show" ELSE "eod"
    BY <1>3, Zenon DEF EndOfPipe, SarKept
  <2>2. CASE rpc' = "eod"
    BY <2>2 DEF SarOver, SarBefore, LInv, Slots
  <2>3. CASE rpc' = "show"
    <3>1. rpc = "rec" /\ intr
      BY <2>1, <2>3 DEF SarBefore, LInv, Slots
    <3> QED BY <2>1, <2>3, <3>1 DEF SarOver, SarBefore, Has, OnTime, LInv, Slots
  <2> QED BY <2>1, <2>2, <2>3 DEF LInv, Slots
<1>4. CASE TookMagic
  <2>1. /\ UNCHANGED << idseq, selected, curr, hdr, buf, togo, intr, nlines >>
        /\ (rpc = "magic0" /\ rpc' = "list0") \/ (rpc = "magic" /\ rpc' = "list")
    BY <1>4 DEF TookMagic, Took, SarKept, LInv, Slots
  <2> QED BY <2>1 DEF SarOver, SarBefore, Has, OnTime, NoAverage, LInv, Slots
<1>5. CASE TookList
  <2>1. /\ UNCHANGED << curr, hdr, buf, togo, intr, nlines >>
        /\ rpc \in {"list0", "list"} /\ selected' = selected \cap ToSet(idseq')
        /\ rpc' = IF rpc = "list" THEN "tally" ELSE IF selected' = {} THEN "nothing" ELSE "rec0"
    BY <1>5, Zenon DEF TookList, Took, SarKept
  <2>2. \A t, n : Has(t, n) => Has(t, n)'
    BY <2>1 DEF Has, LInv, Slots
  <2>3. selected' \subseteq ToSet(idseq')
    BY <2>1 DEF LInv, Slots
  <2>4. CASE rpc = "list0"
    BY <2>1, <2>3, <2>4 DEF SarOver, SarBefore, LInv, Slots
  <2>5. CASE rpc = "list"
    <3>1. rpc' = "tally" /\ curr' = curr /\ nlines' = nlines /\ Has(2, 1)'
      BY <2>1, <2>2, <2>5 DEF SarOver, SarBefore, LInv, Slots
    <3>2. Has(curr, nlines + 1) => Has(curr, nlines + 1)'
      BY <2>2, <3>1 DEF LInv, Slots
    <3>3. (OnTime => OnTime') /\ (NoAverage => NoAverage')
      BY <2>1 DEF OnTime, NoAverage, LInv, Slots
    <3>4. (\/ togo = 0 /\ NoAverage
           \/ /\ Has(curr, nlines + 1)
              /\ nlines > 0 /\ nlines <= NrLines
              /\ togo = 0 \/ (togo = NrLines - nlines + 1 /\ OnTime))'
      BY <2>1, <2>5, <3>2, <3>3 DEF LInv, Slots
    <3> QED BY <2>1, <2>3, <2>5, <3>1, <3>4 DEF SarOver, SarBefore, LInv, Slots
  <2> QED BY <2>1, <2>4, <2>5 DEF LInv, Slots
<1>6. CASE TookRecord
  <2>1. /\ UNCHANGED << idseq, selected, curr, buf, togo, intr, nlines >>
        /\ rpc \in {"rec0", "rec"} /\ pipe # << >> /\ Head(pipe).kind = "rec"
        /\ rpc' = IF rpc = "rec0" THEN "data0" ELSE "data"
        /\ hdr' = [hdr EXCEPT ![Slot0] = Head(pipe).n]
    BY <1>6, Zenon DEF TookRecord, Took, SarKept
  <2>2. Reading
    BY <2>1 DEF Reading, SarOver, LInv, Slots
  <2>3. Head(pipe).n \in Nat /\ Head(pipe).n - 1 = Got
    BY <2>1, <2>2, TakenNumber DEF LInv, Slots
  <2>4. CASE rpc = "rec0"
    <3>1. Got = 0
      BY <2>4 DEF Got, SarEarly, LInv, Slots
    <3>2. hdr'[0] = 1
      BY <1>2, <2>1, <2>3, <2>4, <3>1 DEF Slot0, Slot, NrTyped, LInv, Slots
    <3> QED BY <2>1, <2>4, <3>2 DEF SarOver, SarBefore, LInv, Slots
  <2>5. CASE rpc = "rec"
    <3>1. Got = hdr[1 - curr] /\ Has(1 - curr, nlines + 1)
      BY <2>5 DEF Got, SarEarly, LInv, Slots
    <3>2. hdr'[curr] = nlines + 2
      <4>1. Slot0 = curr /\ curr \in Slot /\ nlines \in Nat
        BY <1>2, <2>5 DEF Slot0, Slot, NrTyped, LInv, Slots
      <4>2. hdr'[curr] = Head(pipe).n
        BY <1>2, <2>1, <4>1 DEF NrTyped, LInv, Slots
      <4> QED BY <2>3, <3>1, <4>1, <4>2 DEF Has, LInv, Slots
    <3>3. Has(1 - curr, nlines + 1)' /\ Has(2, 1)'
      BY <1>2, <2>1, <2>5, <3>1 DEF Slot0, Slot, NrTyped, Has, SarOver, SarBefore, LInv, Slots
    <3>4. OnTime => OnTime'
      BY <2>1 DEF OnTime, LInv, Slots
    <3> QED BY <2>1, <2>5, <3>2, <3>3, <3>4 DEF SarOver, SarBefore, LInv, Slots
  <2> QED BY <2>1, <2>4, <2>5 DEF LInv, Slots
<1>7. CASE TookData
  <2>1. /\ UNCHANGED << idseq, selected, curr, hdr, togo, intr, nlines >>
        /\ rpc \in {"data0", "data"} /\ pipe # << >> /\ Head(pipe).kind = "data"
        /\ rpc' = IF rpc = "data0" THEN "install" ELSE "show"
        /\ buf' = [buf EXCEPT ![Slot0] = [a \in Activity |-> IF a \in ToSet(idseq) THEN Head(pipe).n ELSE @[a]]]
    BY <1>7, Zenon DEF TookData, Took, SarKept
  <2>2. Reading
    BY <2>1 DEF Reading, SarOver, LInv, Slots
  <2>3. Head(pipe).n \in Nat /\ Head(pipe).n = Got
    BY <2>1, <2>2, TakenNumber DEF LInv, Slots
  <2>4. Slot0 \in Slot /\ Slot0 = IF rpc = "data0" THEN 0 ELSE curr
    BY <1>2, <2>1 DEF Slot0, Slot, NrTyped, LInv, Slots
  <2>5. selected \subseteq ToSet(idseq) /\ selected \subseteq Activity
    BY <1>2, <2>1 DEF SarOver, NrTyped, LInv, Slots
  <2>6. \A a \in selected : buf'[Slot0][a] = Got
    BY <1>2, <2>1, <2>3, <2>4, <2>5 DEF NrTyped, LInv, Slots
  <2>7. \A t \in Slot \ {Slot0} : buf'[t] = buf[t]
    BY <1>2, <2>1, <2>4 DEF NrTyped, LInv, Slots
  <2>8. CASE rpc = "data0"
    <3>1. Got = 1 /\ hdr[0] = 1
      BY <2>8 DEF Got, SarEarly, LInv, Slots
    <3>2. Has(0, 1)'
      BY <2>1, <2>4, <2>6, <2>8, <3>1 DEF Has, LInv, Slots
    <3> QED BY <2>1, <2>5, <2>8, <3>1, <3>2 DEF SarOver, SarBefore, LInv, Slots
  <2>9. CASE rpc = "data"
    <3>1. Got = hdr[curr] /\ hdr[curr] = nlines + 2
      BY <2>9 DEF Got, SarEarly, LInv, Slots
    <3>2. Has(curr, nlines + 2)'
      BY <2>1, <2>4, <2>6, <2>9, <3>1 DEF Has, LInv, Slots
    <3>3. 1 - curr \in Slot \ {Slot0} /\ 2 \in Slot \ {Slot0}
      <4>1. curr \in {0, 1} /\ Slot0 = curr
        BY <1>2, <2>4, <2>9 DEF NrTyped, LInv, Slots
      <4> QED BY <4>1 DEF Slot, LInv, Slots
    <3>4. Has(1 - curr, nlines + 1)' /\ Has(2, 1)'
      BY <2>1, <2>7, <2>9, <3>3 DEF Has, SarOver, SarBefore, LInv, Slots
    <3>5. OnTime => OnTime'
      BY <2>1 DEF OnTime, LInv, Slots
    <3> QED BY <2>1, <2>5, <2>9, <3>2, <3>4, <3>5 DEF SarOver, SarBefore, LInv, Slots
  <2> QED BY <2>1, <2>8, <2>9 DEF LInv, Slots
<1>8. CASE SarInstall
  <2>1. /\ UNCHANGED << idseq, selected, curr, togo, intr, nlines >>
        /\ rpc = "install" /\ rpc' = "rec"
        /\ hdr' = [hdr EXCEPT ![2] = hdr[0]]
        /\ buf' = [buf EXCEPT ![2] = [a \in Activity |-> IF a \in ToSet(idseq) THEN buf[0][a] ELSE @[a]]]
    BY <1>8, Zenon DEF SarInstall
  <2>2. selected \subseteq ToSet(idseq) /\ selected \subseteq Activity /\ Has(0, 1) /\ nlines = 0 /\ curr = 1
    BY <1>2, <2>1 DEF SarOver, SarBefore, NrTyped, LInv, Slots
  <2>3. hdr'[2] = 1 /\ hdr'[0] = 1 /\ buf'[0] = buf[0]
    BY <1>2, <2>1, <2>2 DEF Has, NrTyped, Slot, LInv, Slots
  <2>4. \A a \in selected : buf'[2][a] = buf[0][a]
    BY <1>2, <2>1, <2>2 DEF NrTyped, Slot, LInv, Slots
  <2>5. Has(2, 1)' /\ Has(0, 1)'
    BY <2>1, <2>2, <2>3, <2>4 DEF Has, LInv, Slots
  <2>6. NrLines > 0 /\ NrLines \in Nat
    BY SadcPipeAssumption DEF LInv, Slots
  <2>7. 1 - curr' = 0 /\ nlines' + 1 = 1 /\ togo' = NrLines - nlines'
    BY <2>1, <2>2, <2>6 DEF SarBefore, LInv, Slots
  <2>8. Has(1 - curr, nlines + 1)'
    BY <2>5, <2>7 DEF Has, LInv, Slots
  <2> QED BY <2>1, <2>2, <2>5, <2>6, <2>7, <2>8 DEF SarOver, SarBefore, LInv, Slots
<1>9. CASE SarShow
  <2>1. /\ UNCHANGED << idseq, selected, hdr, buf, intr >> /\ rpc = "show"
        /\ \/ intr /\ curr' = 1 - curr /\ rpc' = "avg" /\ nlines' = nlines
           \/ /\ ~intr /\ curr' = curr
              /\ nlines' = IF PastEnd(hdr[curr]) THEN nlines ELSE nlines + 1
              /\ togo' = IF PastEnd(hdr[curr]) \/ AtEnd(hdr[curr]) THEN 0 ELSE togo
              /\ rpc' = IF rtype = "R_LAST_STATS" THEN "magic" ELSE "tally"
    BY <1>9 DEF SarShow
  <2>2. \A t, n : Has(t, n) => Has(t, n)'
    BY <2>1 DEF Has
  <2>3. /\ Has(2, 1) /\ Has(1 - curr, nlines + 1) /\ nlines < NrLines /\ togo = NrLines - nlines
        /\ selected \subseteq ToSet(idseq) /\ (nlines = 0 \/ OnTime)
    BY <2>1 DEF SarOver, SarBefore, LInv, Slots
  <2>4. nlines \in Nat /\ NrLines \in Nat /\ EndAt \in Nat /\ togo' \in Nat
    BY <1>2, SadcPipeAssumption DEF NrTyped
  <2>5. CASE intr
    <3>1. Has(curr, nlines + 1)'
      BY <2>1, <2>3, <2>5 DEF Has
    <3> QED BY <2>1, <2>2, <2>3, <2>5, <3>1 DEF SarOver, SarBefore, Has, Slots
  <2>6. CASE ~intr
    <3>1. Has(curr, nlines + 2) /\ hdr[curr] = nlines + 2
      BY <2>1, <2>6 DEF Has, LInv, Slots
    <3>2. (\/ togo = 0 /\ NoAverage
           \/ /\ Has(curr, nlines + 1)
              /\ nlines > 0 /\ nlines <= NrLines
              /\ togo = 0 \/ (togo = NrLines - nlines + 1 /\ OnTime))'
      <4>1. CASE PastEnd(hdr[curr])
        <5>1. EndAt # 0 /\ 2 * (nlines + 2) > EndAt
          BY <3>1, <4>1 DEF PastEnd
        <5>2. ASSUME nlines # 0, NEW k \in Nat, EndAt = 2 * k
              PROVE  FALSE
          <6>1. 2 * (nlines + 1) < EndAt
            BY <2>3, <5>1, <5>2 DEF OnTime
          <6> QED BY <2>4, <5>1, <5>2, <6>1
        <5> QED BY <2>1, <2>6, <4>1, <5>2 DEF NoAverage, EndsOnSample
      <4>2. CASE ~PastEnd(hdr[curr])
        <5>1. nlines' = nlines + 1 /\ curr' = curr
          BY <2>1, <2>6, <4>2
        <5>2. Has(curr, nlines + 1)'
          <6>1. nlines' + 1 = nlines + 2
            BY <2>4, <5>1
          <6> QED BY <2>1, <3>1, <5>1, <6>1 DEF Has
        <5>3. nlines' > 0 /\ nlines' <= NrLines
          BY <2>3, <2>4, <5>1
        <5>4. togo' = 0 \/ (togo' = NrLines - nlines' + 1 /\ OnTime')
          <6>1. CASE AtEnd(hdr[curr])
            BY <2>1, <2>6, <6>1
          <6>2. CASE ~AtEnd(hdr[curr])
            <7>1. EndAt = 0 \/ 2 * (nlines + 2) < EndAt
              BY <2>4, <3>1, <4>2, <6>2 DEF PastEnd, AtEnd
            <7>2. OnTime'
              BY <2>4, <5>1, <7>1 DEF OnTime
            <7> QED BY <2>1, <2>3, <2>4, <2>6, <4>2, <5>1, <6>2, <7>2
          <6> QED BY <6>1, <6>2
        <5> QED BY <5>2, <5>3, <5>4
      <4> QED BY <4>1, <4>2
    <3> QED BY <2>1, <2>2, <2>3, <2>6, <3>2 DEF SarOver, SarBefore, Has, Slots
  <2> QED BY <2>5, <2>6
<1>10. CASE SarTally
  <2>1. /\ UNCHANGED << idseq, selected, hdr, buf, intr, nlines >> /\ rpc = "tally"
        /\ togo' = IF togo > 0 THEN togo - 1 ELSE 0
        /\ IF togo' # 0 THEN curr' = 1 - curr /\ rpc' = "rec" ELSE rpc' = "avg" /\ curr' = curr
    BY <1>10, Zenon DEF SarTally
  <2>2. \A t, n : Has(t, n) => Has(t, n)'
    BY <2>1 DEF Has
  <2>3. /\ Has(2, 1) /\ selected \subseteq ToSet(idseq)
        /\ \/ togo = 0 /\ NoAverage
           \/ /\ Has(curr, nlines + 1)
              /\ nlines > 0 /\ nlines <= NrLines
              /\ togo = 0 \/ (togo = NrLines - nlines + 1 /\ OnTime)
    BY <2>1 DEF SarOver, SarBefore, LInv, Slots
  <2>4. nlines \in Nat /\ NrLines \in Nat /\ togo \in Nat /\ curr \in {0, 1}
    BY <1>2, SadcPipeAssumption DEF NrTyped
  <2>5. CASE togo' # 0
    <3>1. Has(curr, nlines + 1) /\ nlines < NrLines /\ togo' = NrLines - nlines /\ OnTime
      <4> QED BY <2>1, <2>3, <2>4, <2>5
    <3>2. 1 - curr' = curr /\ nlines' = nlines /\ rpc' = "rec"
      BY <2>1, <2>4, <2>5
    <3>3. Has(1 - curr, nlines + 1)'
      BY <2>1, <3>1, <3>2 DEF Has
    <3>4. OnTime' /\ Has(2, 1)'
      BY <2>1, <2>2, <2>3, <3>1 DEF OnTime
    <3> QED BY <2>1, <2>3, <3>1, <3>2, <3>3, <3>4 DEF SarOver, SarBefore, Slots
  <2>6. CASE togo' = 0
    <3>1. rpc' = "avg" /\ curr' = curr /\ nlines' = nlines
      BY <2>1, <2>6
    <3>2. Has(curr, nlines + 1)' \/ NoAverage'
      <4>1. Has(curr, nlines + 1) \/ NoAverage
        BY <2>3
      <4> QED BY <2>1, <2>2, <3>1, <4>1 DEF NoAverage, Has
    <3> QED BY <2>1, <2>2, <2>3, <3>1, <3>2 DEF SarOver, SarBefore, Slots
  <2> QED BY <2>5, <2>6
<1>11. CASE SarAverage
  BY <1>11 DEF SarAverage, SarOver, SarBefore, LInv, Slots
<1> QED BY <1>1, <1>3, <1>4, <1>5, <1>6, <1>7, <1>8, <1>9, <1>10, <1>11

\* What sar took last, after a step of it.
LEMMA SarGot ==
  ASSUME LInv, SarStep, Reading'
  PROVE  /\ Reading
         /\ \/ pipe' = pipe /\ Got' = Got /\ rpc \notin {"data0", "data"}
            \/ /\ pipe # << >> /\ pipe' = Tail(pipe)
               /\ Got' = IF Head(pipe).kind = "rec" THEN Head(pipe).n ELSE Got
               /\ Head(pipe).kind = "rec" => rpc' \in {"data0", "data"}
               /\ rpc \in {"data0", "data"} => Head(pipe).kind = "data"
<1>1. \/ EndOfPipe \/ TookMagic \/ TookList \/ TookRecord \/ TookData
      \/ SarInstall \/ SarShow \/ SarTally \/ SarAverage
  BY SarOutcome DEF LInv
<1>2. curr \in {0, 1} /\ hdr \in [Slot -> Nat] /\ (rpc = "install" => curr = 1)
  BY DEF LInv, NrTyped, Slots, SarBefore
<1>3. CASE EndOfPipe
  BY <1>3 DEF EndOfPipe, SarKept, Reading, SarOver
<1>4. CASE TookMagic
  BY <1>4 DEF TookMagic, Took, SarKept, Reading, SarOver, Got, SarEarly
<1>5. CASE TookList
  <2>1. /\ UNCHANGED << curr, hdr, intr >> /\ pipe # << >> /\ pipe' = Tail(pipe) /\ Head(pipe).kind = "list"
        /\ (rpc = "list" /\ rpc' = "tally") \/ (rpc = "list0" /\ rpc' \in {"nothing", "rec0"})
    BY <1>5, Zenon DEF TookList, Took, SarKept
  <2> QED BY <2>1 DEF Reading, SarOver, Got, SarEarly
<1>6. CASE TookRecord
  <2>1. /\ UNCHANGED << curr, intr >> /\ pipe # << >> /\ pipe' = Tail(pipe) /\ Head(pipe).kind = "rec"
        /\ rpc \in {"rec0", "rec"} /\ rpc' = IF rpc = "rec0" THEN "data0" ELSE "data"
        /\ hdr' = [hdr EXCEPT ![Slot0] = Head(pipe).n]
    BY <1>6, Zenon DEF TookRecord, Took, SarKept
  <2>2. Slot0 \in Slot /\ Slot0 = IF rpc = "rec0" THEN 0 ELSE curr
    BY <1>2, <2>1 DEF Slot0, Slot
  <2>3. hdr'[Slot0] = Head(pipe).n
    BY <1>2, <2>1, <2>2
  <2> QED BY <2>1, <2>2, <2>3 DEF Reading, SarOver, Got, SarEarly
<1>7. CASE TookData
  <2>1. /\ UNCHANGED << curr, hdr, intr >> /\ pipe # << >> /\ pipe' = Tail(pipe) /\ Head(pipe).kind = "data"
        /\ rpc \in {"data0", "data"} /\ rpc' = IF rpc = "data0" THEN "install" ELSE "show"
    BY <1>7, Zenon DEF TookData, Took, SarKept
  <2> QED BY <2>1 DEF Reading, SarOver, Got, SarEarly
<1>8. CASE SarInstall
  <2>1. /\ pipe' = pipe /\ UNCHANGED << curr, intr >> /\ rpc = "install" /\ rpc' = "rec"
        /\ hdr' = [hdr EXCEPT ![2] = hdr[0]]
    BY <1>8, Zenon DEF SarInstall
  <2>2. hdr'[0] = hdr[0] /\ 1 - curr' = 0
    BY <1>2, <2>1 DEF Slot
  <2> QED BY <2>1, <2>2 DEF Reading, SarOver, Got, SarEarly
<1>9. CASE SarShow
  <2>1. /\ pipe' = pipe /\ UNCHANGED << hdr, intr >> /\ rpc = "show"
        /\ \/ rpc' = "avg"
           \/ ~intr /\ curr' = curr /\ rpc' \in {"magic", "tally"}
    BY <1>9 DEF SarShow
  <2> QED BY <2>1 DEF Reading, SarOver, Got, SarEarly
<1>10. CASE SarTally
  <2>1. /\ pipe' = pipe /\ UNCHANGED << hdr, intr >> /\ rpc = "tally"
        /\ rpc' = "avg" \/ (rpc' = "rec" /\ curr' = 1 - curr)
    BY <1>10 DEF SarTally
  <2>2. rpc' = "rec" => 1 - curr' = curr
    BY <1>2, <2>1
  <2> QED BY <2>1, <2>2 DEF Reading, SarOver, Got, SarEarly
<1>11. CASE SarAverage
  BY <1>11 DEF SarAverage, Reading, SarOver
<1> QED BY <1>1, <1>3, <1>4, <1>5, <1>6, <1>7, <1>8, <1>9, <1>10, <1>11

LEMMA SarNumbered ==
  ASSUME LInv, SarStep
  PROVE  Numbered'
<1>1. /\ UNCHANGED << spc, taken >> /\ SentLast' = SentLast
      /\ pipe' = pipe \/ (pipe # << >> /\ pipe' = Tail(pipe))
  BY SarOutcome DEF LInv, SentLast
<1>2. Typed /\ Numbered /\ Len(pipe) \in Nat
  BY DEF LInv, IInv, Typed
<1>3. ASSUME NEW i \in 1..Len(pipe')
      PROVE  (/\ pipe[i].kind = "rec" => pipe[i].n <= SentLast
              /\ pipe[i].kind = "data" => pipe[i].n <= taken /\ (spc \in {"rec", "data"} => pipe[i].n < taken))'
  <2>1. CASE pipe' = pipe
    BY <1>1, <1>2, <2>1 DEF Numbered, Behind
  <2>2. CASE pipe # << >> /\ pipe' = Tail(pipe)
    <3>1. i + 1 \in 1..Len(pipe) /\ pipe'[i] = pipe[i + 1]
      BY <1>2, <2>2 DEF Typed
    <3> QED BY <1>1, <1>2, <3>1 DEF Numbered, Behind
  <2> QED BY <1>1, <2>1, <2>2
<1>4. ASSUME Reading'
      PROVE  /\ Consecutive' /\ (Got <= SentLast)'
             /\ (spc = "data" /\ rpc \notin {"data0", "data"} => Got < taken)'
  <2>1. Reading
    BY <1>4, SarGot
  <2>2. CASE pipe' = pipe /\ Got' = Got /\ rpc \notin {"data0", "data"}
    <3>1. Consecutive'
      BY <1>1, <1>2, <2>1, <2>2, NumbersKept DEF Numbered
    <3> QED BY <1>1, <1>2, <2>1, <2>2, <3>1 DEF Numbered, Behind
  <2>3. CASE /\ pipe # << >> /\ pipe' = Tail(pipe)
             /\ Got' = IF Head(pipe).kind = "rec" THEN Head(pipe).n ELSE Got
             /\ Head(pipe).kind = "rec" => rpc' \in {"data0", "data"}
             /\ rpc \in {"data0", "data"} => Head(pipe).kind = "data"
    <3>1. Consecutive'
      BY <1>1, <1>2, <2>1, <2>3, NumbersReceived DEF Numbered
    <3>2. /\ Head(pipe).kind = "rec" => Head(pipe).n <= SentLast
          /\ Head(pipe).kind = "data" => Head(pipe).n = Got /\ (spc \in {"rec", "data"} => Head(pipe).n < taken)
      BY <2>1, <2>3, TakenNumber
    <3> QED BY <1>1, <1>2, <2>1, <2>3, <3>1, <3>2 DEF Numbered, Behind
  <2> QED BY <1>4, <2>2, <2>3, SarGot
<1> QED BY <1>3, <1>4 DEF Numbered, Behind

\* What sar displays.
LEMMA SarDisplays ==
  ASSUME LInv, SarStep
  PROVE  (Counted /\ Saved /\ Displayed /\ LinesConsecutive /\ UnexpectedEnd /\ AverageRight)'
<1>1. /\ UNCHANGED << day, nsig, spc, taken, left, rot, ofile, list, caught, saved >>
      /\ \/ EndOfPipe \/ TookMagic \/ TookList \/ TookRecord \/ TookData
         \/ SarInstall \/ SarShow \/ SarTally \/ SarAverage
  BY SarOutcome DEF LInv
<1>2. NrTyped /\ NrTyped' /\ taken \in Nat
  BY SarNrTyped DEF LInv, IInv, Typed
<1>3. rpc \notin SarOver /\ intr' = intr
  BY <1>1 DEF EndOfPipe, TookMagic, TookList, TookRecord, TookData, Took, SarKept,
              SarInstall, SarShow, SarTally, SarAverage, SarOver
<1>4. Counted'
  BY <1>1, <1>3 DEF LInv, Counted
<1>5. Saved'
  BY <1>1 DEF LInv, Saved
<1>6. (Displayed /\ LinesConsecutive)'
  <2>1. CASE SarShow /\ ~intr /\ ~PastEnd(hdr[curr])
    <3>1. rpc = "show" /\ line' = Line(1 - curr, curr) /\ nlines' = nlines + 1
      BY <2>1, Zenon DEF SarShow
    <3>2. Has(1 - curr, nlines + 1) /\ Has(curr, nlines + 2) /\ nlines \in Nat
      BY <1>2, <2>1, <3>1 DEF LInv, Slots, NrTyped
    <3>3. /\ line'.from = nlines + 1 /\ line'.to = nlines + 2
          /\ \A a \in DOMAIN line'.items : line'.items[a] = << nlines + 1, nlines + 2 >>
      BY <3>1, <3>2 DEF Line, Has
    <3>4. Reading /\ Got = nlines + 2
      BY <2>1, <3>1, <3>2 DEF Reading, SarOver, Got, SarEarly, Has
    <3>5. Got <= SentLast /\ (spc = "data" => Got < taken)
      BY <3>1, <3>4 DEF LInv, Numbered, Behind
    <3>6. Displayed'
      BY <1>1, <1>2, <3>2, <3>3, <3>4, <3>5 DEF Displayed, SentLast
    <3> QED BY <3>1, <3>2, <3>3, <3>6 DEF LinesConsecutive
  <2>2. CASE ~(SarShow /\ ~intr /\ ~PastEnd(hdr[curr]))
    <3>1. line' = line /\ nlines' = nlines
      BY <1>1, <2>2 DEF EndOfPipe, TookMagic, TookList, TookRecord, TookData, Took, SarKept,
                        SarInstall, SarShow, SarTally, SarAverage
    <3> QED BY <1>1, <3>1 DEF LInv, Displayed, LinesConsecutive
  <2> QED BY <2>1, <2>2
<1>7. UnexpectedEnd'
  <2>1. SUFFICES ASSUME rpc' = "eod"
                 PROVE  spc \in Broken
    BY <1>1 DEF UnexpectedEnd, Broken
  <2>2. EndOfPipe
    BY <1>1, <2>1 DEF TookMagic, TookList, TookRecord, TookData,
                      SarInstall, SarShow, SarTally, SarAverage
  <2>3. Eof /\ rpc \in {"magic0", "magic", "list0", "list", "rec0", "rec", "data0", "data"}
    BY <2>2 DEF EndOfPipe
  <2>4. CASE rpc \in {"rec0", "rec"}
    <3>1. ~intr
      BY <2>1, <2>2, <2>4 DEF EndOfPipe
    <3>2. SUFFICES ASSUME spc = "done"
                   PROVE  FALSE
      BY <2>3 DEF Eof, SadcOver, Broken
    <3>3. taken > 0 /\ left = CountArg - taken /\ left = 0
      BY <1>3, <3>1, <3>2 DEF LInv, Counted, Between, SadcBefore, Broken
    <3>4. taken = NrLines + 1
      BY <1>2, <3>3, SadcPipeAssumption DEF CountArg, NrTyped
    <3>5. Reading
      BY <2>4 DEF Reading, SarOver
    <3>6. NumberBefore(Len(pipe) + 1, SentLast) /\ Len(pipe) = 0
      BY <2>3, <3>2, <3>5 DEF LInv, Numbered, Consecutive, Broken, Eof
    <3>7. Got = taken
      BY <3>2, <3>6 DEF NumberBefore, SentLast
    <3>8. CASE rpc = "rec0"
      BY <1>2, <3>3, <3>7, <3>8 DEF Got, SarEarly
    <3>9. CASE rpc = "rec"
      BY <1>2, <3>4, <3>7, <3>9, SadcPipeAssumption DEF Got, SarEarly, LInv, Slots, Has, NrTyped
    <3> QED BY <2>4, <3>8, <3>9
  <2> QED BY <2>3, <2>4, EndMeans DEF LInv
<1>8. AverageRight'
  <2>1. SUFFICES ASSUME EndsOnSample, rpc' = "done", nlines' > 0
                 PROVE  AverageSpansLines'
    BY DEF AverageRight, AverageSpansLines
  <2>2. SarAverage
    BY <1>1, <2>1 DEF EndOfPipe, TookMagic, TookList, TookRecord, TookData, SarInstall, SarShow, SarTally
  <2>3. /\ rpc = "avg" /\ UNCHANGED << nlines, line >>
        /\ average' = IF nlines > 0 THEN Line(2, curr) ELSE NoLine
    BY <2>2, Zenon DEF SarAverage
  <2>4. Has(curr, nlines + 1) /\ Has(2, 1)
    <3>1. nlines # 0
      BY <1>2, <2>1, <2>3 DEF NrTyped
    <3> QED BY <2>1, <2>3, <3>1 DEF LInv, Slots, NoAverage, SarBefore, SarOver
  <2>5. line.to = nlines + 1
    BY <2>1, <2>3 DEF LInv, LinesConsecutive
  <2> QED BY <2>1, <2>3, <2>4, <2>5 DEF AverageSpansLines, Line, Has
<1> QED BY <1>4, <1>5, <1>6, <1>7, <1>8

-----------------------------------------------------------------------------
(* The steps of sadc. *)

\* A message is sent, or sadc dies of SIGPIPE.
Sends(msg, next) ==
  /\ (pipe' = Append(pipe, msg) /\ spc' = next) \/ (pipe' = pipe /\ spc' = "dead")
  /\ UNCHANGED << day, taken, left, rot, ofile, list, caught, saved >>

LEMMA SadcOutcome ==
  ASSUME SadcStep
  PROVE  /\ UNCHANGED << sarvars, day, caught >> /\ spc \notin SadcOver
         /\ \/ SadcOpen \/ SadcSample \/ Save \/ SadcRotate \/ SadcCount \/ Alarm \/ SadcCheck
            \/ spc \in {"magic0", "magic"} /\ Sends(MagicMsg, IF spc = "magic0" THEN "list0" ELSE "list")
            \/ spc \in {"list0", "list"} /\ Sends(ListMsg(list), IF spc = "list0" THEN "sample" ELSE "saveagain")
            \/ spc = "rec" /\ Sends(RecMsg(taken, Tag), "data")
            \/ spc = "data" /\ Sends(DataMsg(taken, list), "save")
<1>1. \A msg, next : Send(msg, next) => Sends(msg, next)
  BY Zenon DEF Send, Sends
<1>2. CASE SendHeader
  <2>1. spc \notin SadcOver
    BY <1>2 DEF SendHeader, SadcOver
  <2>2. UNCHANGED << sarvars, day, caught >>
    BY <1>2, Zenon DEF SendHeader, Send
  <2> QED BY <1>1, <1>2, <2>1, <2>2 DEF SendHeader
<1>3. CASE SendRecord
  <2>1. spc \notin SadcOver
    BY <1>3 DEF SendRecord, SadcOver
  <2>2. UNCHANGED << sarvars, day, caught >>
    BY <1>3, Zenon DEF SendRecord, Send
  <2> QED BY <1>1, <1>3, <2>1, <2>2 DEF SendRecord, Tag
<1>4. CASE SadcOpen \/ SadcSample \/ Save \/ SadcRotate \/ SadcCount \/ Alarm \/ SadcCheck
  <2>1. spc \notin SadcOver
    BY <1>4 DEF SadcOpen, SadcSample, Save, SadcRotate, SadcCount, Alarm, SadcCheck, SadcOver
  <2>2. UNCHANGED << sarvars, day, caught >>
    BY <1>4, Zenon DEF SadcOpen, SadcSample, Save, SadcRotate, SadcCount, Alarm, SadcCheck
  <2> QED BY <1>4, <2>1, <2>2
<1> QED BY <1>2, <1>3, <1>4 DEF SadcStep

LEMMA SadcCounts ==
  ASSUME LInv, SadcStep
  PROVE  (NrTyped /\ Counted /\ Saved /\ Displayed)'
<1>1. UNCHANGED << sarvars, day, caught >> /\ spc \notin SadcOver
  BY SadcOutcome
<1>2. /\ NrTyped /\ Counted /\ Saved /\ Displayed /\ taken \in Nat
      /\ NrLines \in Nat \ {0} /\ LastDay \in Nat \ {0}
  BY SadcPipeAssumption DEF LInv, IInv, Typed
<1>3. /\ selected' \subseteq Activity /\ curr' \in {0, 1} /\ hdr' \in [Slot -> Nat]
      /\ buf' \in [Slot -> [Activity -> Nat]] /\ togo' \in Nat /\ intr' \in BOOLEAN /\ nlines' \in Nat
      /\ day' \in Day /\ caught' \in BOOLEAN /\ line' = line /\ (caught' => intr' \/ rpc' \in SarOver)
  BY <1>1, <1>2 DEF NrTyped, sarvars, Counted
<1>4. CASE /\ spc \in {"magic0", "magic", "list0", "list", "rec", "data"}
           /\ \/ spc' = "dead"
              \/ spc = "magic0" /\ spc' = "list0"
              \/ spc = "magic" /\ spc' = "list"
              \/ spc = "list0" /\ spc' = "sample"
              \/ spc = "list" /\ spc' = "saveagain"
              \/ spc = "rec" /\ spc' = "data"
              \/ spc = "data" /\ spc' = "save"
           /\ UNCHANGED << day, taken, left, rot, ofile, list, caught, saved >>
  <2>1. NrTyped'
    BY <1>2, <1>3, <1>4 DEF NrTyped
  <2>2. Counted'
    BY <1>2, <1>3, <1>4 DEF Counted, SadcBefore, Broken, SadcOver, Between, Within
  <2>3. (Saved /\ Displayed)'
    BY <1>2, <1>3, <1>4 DEF Saved, Displayed
  <2> QED BY <2>1, <2>2, <2>3
<1>5. CASE SadcOpen
  <2>1. /\ spc = "open" /\ spc' \in {"magic0", "failed"} /\ ofile' \in Day
        /\ UNCHANGED << taken, left, rot, saved >>
    BY <1>2, <1>5 DEF SadcOpen, NrTyped
  <2>2. NrTyped'
    BY <1>2, <1>3, <2>1 DEF NrTyped
  <2>3. Counted'
    BY <1>2, <1>3, <2>1 DEF Counted, SadcBefore, Broken, SadcOver, Between, Within
  <2>4. (Saved /\ Displayed)'
    BY <1>2, <1>3, <2>1 DEF Saved, Displayed
  <2> QED BY <2>2, <2>3, <2>4
<1>6. CASE SadcSample
  <2>1. /\ spc = "sample" /\ spc' = "rec" /\ taken' = taken + 1
        /\ UNCHANGED << left, rot, ofile, saved >>
    BY <1>6, Zenon DEF SadcSample
  <2>2. NrTyped'
    BY <1>2, <1>3, <2>1 DEF NrTyped
  <2>3. Counted'
    BY <1>2, <1>3, <2>1 DEF Counted, SadcBefore, Broken, SadcOver, Between, Within, CountArg, NrTyped
  <2>4. (Saved /\ Displayed)'
    BY <1>2, <1>3, <2>1 DEF Saved, Displayed
  <2> QED BY <2>2, <2>3, <2>4
<1>7. CASE Save
  <2>1. /\ spc \in {"save", "saveagain"} /\ spc' \in {"rotate", "count"}
        /\ spc' = "rotate" => rot # 0
        /\ saved' = [saved EXCEPT ![ofile] = IF Output = "none" THEN @ ELSE Append(@, taken)]
        /\ UNCHANGED << taken, left, rot, ofile >>
    BY <1>7 DEF Save
  <2>2. NrTyped'
    BY <1>2, <1>3, <2>1 DEF NrTyped
  <2>3. rot # 0 => rot \in Day
    BY <1>2 DEF NrTyped, Day
  <2>4. Counted'
    BY <1>2, <1>3, <2>1, <2>3 DEF Counted, SadcBefore, Broken, SadcOver, Between, Within
  <2>5. Saved'
    <3>1. SUFFICES ASSUME Output # "none", NEW k \in 1..taken
                   PROVE  \E d \in Day : k \in ToSet(saved'[d])
      BY <2>1 DEF Saved
    <3>2. ofile \in Day /\ saved[ofile] \in Seq(Nat) /\ saved'[ofile] = Append(saved[ofile], taken)
      BY <1>2, <2>1, <3>1 DEF NrTyped
    <3>3. taken \in ToSet(saved'[ofile])
      <4>1. Len(saved[ofile]) + 1 \in DOMAIN saved'[ofile] /\ saved'[ofile][Len(saved[ofile]) + 1] = taken
        BY <1>2, <3>2
      <4> QED BY <4>1 DEF ToSet
    <3>4. ASSUME NEW d \in Day, k \in ToSet(saved[d])
          PROVE  k \in ToSet(saved'[d])
      <4>1. CASE d = ofile
        <5>1. PICK j \in DOMAIN saved[ofile] : saved[ofile][j] = k
          BY <3>4, <4>1 DEF ToSet
        <5>2. j \in DOMAIN saved'[ofile] /\ saved'[ofile][j] = k
          BY <1>2, <3>2, <5>1
        <5> QED BY <4>1, <5>2 DEF ToSet
      <4>2. CASE d # ofile
        BY <1>2, <2>1, <3>4, <4>2 DEF NrTyped
      <4> QED BY <4>1, <4>2
    <3>5. CASE k = taken
      BY <3>2, <3>3, <3>5
    <3>6. CASE k # taken
      <4>1. PICK d \in Day : k \in ToSet(saved[d])
        BY <1>2, <3>1, <3>6 DEF Saved
      <4> QED BY <3>4, <4>1
    <3> QED BY <3>5, <3>6
  <2>6. Displayed'
    BY <1>2, <1>3, <2>1 DEF Displayed
  <2> QED BY <2>2, <2>4, <2>5, <2>6
<1>8. CASE SadcRotate
  <2>1. /\ spc = "rotate" /\ spc' \in {"magic", "failed"} /\ rot' = 0 /\ ofile' = rot
        /\ UNCHANGED << taken, left, saved >>
    BY <1>8, Zenon DEF SadcRotate
  <2>2. NrTyped'
    BY <1>2, <1>3, <2>1 DEF NrTyped, Counted
  <2>3. Counted'
    BY <1>2, <1>3, <2>1 DEF Counted, SadcBefore, Broken, SadcOver, Between, Within
  <2>4. (Saved /\ Displayed)'
    BY <1>2, <1>3, <2>1 DEF Saved, Displayed
  <2> QED BY <2>2, <2>3, <2>4
<1>9. CASE SadcCount
  <2>1. /\ spc = "count" /\ spc' = (IF left = 1 THEN "check" ELSE "pause") /\ left' = left - 1
        /\ UNCHANGED << taken, rot, ofile, saved >>
    BY <1>9, Zenon DEF SadcCount
  <2>2. NrTyped'
    BY <1>2, <1>3, <2>1 DEF NrTyped
  <2>3. Counted'
    BY <1>2, <1>3, <2>1 DEF Counted, SadcBefore, Broken, SadcOver, Between, Within, CountArg, NrTyped
  <2>4. (Saved /\ Displayed)'
    BY <1>2, <1>3, <2>1 DEF Saved, Displayed
  <2> QED BY <2>2, <2>3, <2>4
<1>10. CASE Alarm
  <2>1. /\ spc = "pause" /\ spc' = "check"
        /\ UNCHANGED << taken, left, rot, ofile, saved >>
    BY <1>10, Zenon DEF Alarm
  <2>2. NrTyped'
    BY <1>2, <1>3, <2>1 DEF NrTyped
  <2>3. Counted'
    BY <1>2, <1>3, <2>1 DEF Counted, SadcBefore, Broken, SadcOver, Between, Within, NrTyped
  <2>4. (Saved /\ Displayed)'
    BY <1>2, <1>3, <2>1 DEF Saved, Displayed
  <2> QED BY <2>2, <2>3, <2>4
<1>11. CASE SadcCheck
  <2>1. /\ spc = "check"
        /\ \/ caught /\ spc' = "done" /\ rot' = rot
           \/ /\ rot' = IF Output = "daily" /\ ofile # day THEN day ELSE 0
              /\ spc' = IF left = 0 THEN "done" ELSE "sample"
        /\ UNCHANGED << taken, left, ofile, saved >>
    BY <1>11 DEF SadcCheck
  <2>2. NrTyped'
    BY <1>2, <1>3, <2>1 DEF NrTyped, Day
  <2>3. left >= 0
    BY <1>2, <2>1 DEF Counted
  <2>4. Counted'
    BY <1>1, <1>2, <1>3, <2>1 DEF Counted, SadcBefore, Broken, SadcOver, Between, Within, NrTyped
  <2>5. (Saved /\ Displayed)'
    BY <1>2, <1>3, <2>1 DEF Saved, Displayed
  <2> QED BY <2>2, <2>4, <2>5
<1> QED BY <1>4, <1>5, <1>6, <1>7, <1>8, <1>9, <1>10, <1>11, SadcOutcome DEF Sends

LEMMA SadcNumbered ==
  ASSUME LInv, SadcStep
  PROVE  Numbered'
<1>1. UNCHANGED << sarvars, day, caught >> /\ spc \notin SadcOver
  BY SadcOutcome
<1>2. Got' = Got /\ Reading' = Reading /\ rpc' = rpc
  BY <1>1 DEF sarvars, Got, Reading
<1>3. /\ Typed /\ Numbered /\ taken \in Nat /\ Len(pipe) \in Nat
      /\ spc \notin Broken /\ MagicMsg \in Message /\ ListMsg(list) \in Message
      /\ RecMsg(taken, Tag) \in Message /\ DataMsg(taken, list) \in Message
  BY <1>1 DEF LInv, IInv, Typed, SadcOver, Broken, Message, MagicMsg, ListMsg, RecMsg, DataMsg, Tag
<1>4. Got \in Int
  BY DEF LInv, NrTyped, Got, Slot
<1>5. \A i \in 1..Len(pipe) :
        /\ pipe[i].kind \in {"rec", "data"} => pipe[i].n \in Nat
        /\ pipe[i].kind = "rec" => pipe[i].n <= SentLast
        /\ pipe[i].kind = "data" => pipe[i].n <= taken /\ (spc \in {"rec", "data"} => pipe[i].n < taken)
  BY <1>3, MessageNumbers DEF Typed, Numbered, Behind
<1>6. ASSUME NEW msg \in Message, NEW next, Sends(msg, next), next \notin {"rec"} \cup Broken,
             msg.kind = "rec" => spc = "rec" /\ msg.n = taken,
             msg.kind = "data" => spc = "data" /\ msg.n = taken,
             spc = "rec" => msg.kind = "rec", next = "data" => spc = "rec"
      PROVE  Numbered'
  <2>1. taken' = taken /\ SentLast' = taken
    BY <1>6 DEF Sends, SentLast
  <2>2. CASE pipe' = pipe /\ spc' = "dead"
    <3>1. Reading' => Consecutive'
      BY <1>2, <1>3, <2>2, NumbersKept DEF Numbered, Broken
    <3>2. Behind'
      BY <1>2, <1>3, <1>4, <1>5, <2>1, <2>2 DEF Numbered, Behind, SentLast
    <3> QED BY <3>1, <3>2 DEF Numbered
  <2>3. CASE pipe' = Append(pipe, msg) /\ spc' = next
    <3>1. Reading' => Consecutive'
      BY <1>2, <1>3, <1>6, <2>1, <2>3, NumbersSent DEF Numbered, Numbering
    <3>2. /\ Len(pipe') = Len(pipe) + 1 /\ pipe'[Len(pipe) + 1] = msg
          /\ \A i \in 1..Len(pipe) : pipe'[i] = pipe[i]
      BY <1>3, <2>3 DEF Typed
    <3>3. ASSUME NEW i \in 1..Len(pipe')
          PROVE  /\ pipe'[i].kind = "rec" => pipe'[i].n <= taken
                 /\ pipe'[i].kind = "data" => pipe'[i].n <= taken /\ (spc' \in {"rec", "data"} => pipe'[i].n < taken)
      <4>1. CASE i \in 1..Len(pipe)
        BY <1>3, <1>5, <1>6, <2>3, <3>2, <4>1 DEF SentLast
      <4>2. CASE i = Len(pipe) + 1
        BY <1>3, <1>6, <2>3, <3>2, <4>2
      <4> QED BY <1>3, <3>2, <4>1, <4>2
    <3>4. Reading' => Got' <= taken /\ (spc' = "data" => Got' < taken)
      BY <1>2, <1>3, <1>4, <1>6, <2>3 DEF Numbered, Behind, SentLast
    <3>5. Behind'
      BY <2>1, <3>3, <3>4 DEF Behind
    <3> QED BY <3>1, <3>5 DEF Numbered
  <2> QED BY <1>6, <2>2, <2>3 DEF Sends
<1>7. CASE SadcOpen \/ SadcSample \/ Save \/ SadcRotate \/ SadcCount \/ Alarm \/ SadcCheck
  <2>1. /\ pipe' = pipe /\ spc \notin {"rec", "data"}
        /\ \/ spc = "sample" /\ spc' = "rec" /\ taken' = taken + 1
           \/ spc' \notin {"rec", "data"} /\ taken' = taken
    BY <1>7 DEF SadcOpen, SadcSample, Save, SadcRotate, SadcCount, Alarm, SadcCheck
  <2>2. SentLast' = SentLast /\ SentLast = taken
    BY <1>3, <2>1 DEF SentLast
  <2>3. Reading' => Consecutive'
    BY <1>2, <1>3, <2>1, <2>2, NumbersKept DEF Numbered
  <2>4. Behind'
    BY <1>2, <1>3, <1>4, <1>5, <2>1, <2>2 DEF Numbered, Behind
  <2> QED BY <2>3, <2>4 DEF Numbered
<1>8. CASE spc \in {"magic0", "magic"} /\ Sends(MagicMsg, IF spc = "magic0" THEN "list0" ELSE "list")
  BY <1>3, <1>6, <1>8 DEF MagicMsg, Broken
<1>9. CASE spc \in {"list0", "list"} /\ Sends(ListMsg(list), IF spc = "list0" THEN "sample" ELSE "saveagain")
  BY <1>3, <1>6, <1>9 DEF ListMsg, Broken
<1>10. CASE spc = "rec" /\ Sends(RecMsg(taken, Tag), "data")
  BY <1>3, <1>6, <1>10 DEF RecMsg, Broken
<1>11. CASE spc = "data" /\ Sends(DataMsg(taken, list), "save")
  BY <1>3, <1>6, <1>11 DEF DataMsg, Broken
<1> QED BY <1>7, <1>8, <1>9, <1>10, <1>11, SadcOutcome

\* What sar has got and displayed does not depend on sadc going on.
LEMMA SarUntroubled ==
  ASSUME LInv, SadcStep
  PROVE  (Slots /\ LinesConsecutive /\ UnexpectedEnd /\ AverageRight)'
<1>1. UNCHANGED << sarvars, day, caught >> /\ spc \notin SadcOver
  BY SadcOutcome
<1>2. Slots'
  BY <1>1 DEF LInv, Slots, sarvars, Has, OnTime, NoAverage
<1>3. (LinesConsecutive /\ AverageRight)'
  BY <1>1 DEF LInv, LinesConsecutive, AverageRight, AverageSpansLines, sarvars
<1>4. UnexpectedEnd'
  BY <1>1 DEF LInv, UnexpectedEnd, sarvars, SadcOver
<1> QED BY <1>2, <1>3, <1>4

-----------------------------------------------------------------------------
(* Signals, deaths and the date. *)

LEMMA OthersKeepLines ==
  ASSUME LInv, Signal \/ Midnight \/ Die \/ UNCHANGED vars
  PROVE  (NrTyped /\ Counted /\ Numbered /\ Slots /\ Saved /\ Displayed
            /\ LinesConsecutive /\ UnexpectedEnd /\ AverageRight)'
<1>1. UNCHANGED << pipe, taken, left, rot, ofile, list, saved, idseq, selected, curr, hdr, rtype,
                   buf, togo, line, nlines, average >>
  BY Zenon DEF Signal, Midnight, Die, vars, sadcvars, sarvars
<1>2. /\ rpc' = rpc \/ (rpc' = "killed" /\ rpc \notin SarOver)
      /\ intr' = intr \/ (intr' = TRUE /\ rpc \notin SarBefore /\ rpc' = rpc)
  <2>1. CASE Signal
    BY <2>1 DEF Signal, SarSignalled, SarUntouched, SarBefore, SarOver, LInv, NrTyped
  <2>2. CASE Midnight \/ Die \/ UNCHANGED vars
    BY <2>2, Zenon DEF Midnight, Die, vars, sarvars
  <2> QED BY <2>1, <2>2
<1>3. spc' = spc \/ (spc' = "dead" /\ spc \notin SadcOver) \/ (spc = "pause" /\ spc' = "check")
  <2>1. CASE Signal
    BY <2>1 DEF Signal, SadcSignalled
  <2>2. CASE Midnight \/ Die \/ UNCHANGED vars
    BY <2>2, Zenon DEF Midnight, Die, vars, sadcvars
  <2> QED BY <2>1, <2>2
<1>4. caught' \in BOOLEAN /\ (caught => caught') /\ (caught' => intr' \/ rpc' \in SarOver) /\ day' \in Day
  <2>1. CASE Signal
    <3>1. caught \in BOOLEAN /\ intr \in BOOLEAN /\ (caught => intr \/ rpc \in SarOver) /\ day' = day /\ day \in Day
      BY <2>1 DEF LInv, NrTyped, Counted, Signal
    <3>2. \/ caught' = (caught \/ spc \notin SadcBefore \cup SadcOver) /\ SarSignalled
          \/ caught' = (caught \/ spc \notin SadcBefore \cup SadcOver) /\ ~Forwards /\ SarUntouched
          \/ caught' = caught /\ SarSignalled
      BY <2>1 DEF Signal, SadcSignalled
    <3>3. SarSignalled => intr' \/ rpc' \in SarOver
      BY DEF SarSignalled, SarBefore, SarOver
    <3> QED BY <3>1, <3>2, <3>3 DEF Forwards, SarUntouched
  <2>2. CASE Midnight \/ Die \/ UNCHANGED vars
    <3>1. caught' = caught /\ intr' = intr /\ (day' = day \/ (day' = day + 1 /\ day < LastDay))
      BY <2>2, Zenon DEF Midnight, Die, vars, sadcvars, sarvars
    <3>2. LastDay \in Nat
      BY SadcPipeAssumption
    <3> QED BY <1>2, <3>1, <3>2 DEF LInv, NrTyped, Counted, Day, SarOver
  <2> QED BY <2>1, <2>2
<1>5. NrTyped'
  BY <1>1, <1>2, <1>4 DEF LInv, NrTyped
<1>6. Counted'
  BY <1>1, <1>3, <1>4 DEF LInv, NrTyped, Counted, SadcBefore, SadcOver, Broken, Between, Within
<1>7. Numbered'
  <2>1. (Reading' => Reading) /\ (Reading' => rpc' = rpc) /\ (rpc' = rpc => Got' = Got)
    BY <1>1, <1>2 DEF Reading, Got, SarOver
  <2>2. SentLast' = SentLast \/ (SentLast' = taken /\ spc' \in Broken)
    BY <1>1, <1>3 DEF SentLast, Broken
  <2>3. spc' \notin Broken => spc \notin Broken
    BY <1>3 DEF Broken, SadcOver
  <2>4. Reading' => Consecutive'
    BY <1>1, <2>1, <2>2, <2>3, NumbersKept DEF LInv, Numbered
  <2>5. SentLast \in Int /\ SentLast <= SentLast' /\ taken \in Nat /\ Got \in Int
    BY <2>2 DEF SentLast, LInv, IInv, Typed, NrTyped, Got, Slot
  <2>6. \A i \in 1..Len(pipe) : pipe[i].kind = "rec" => pipe[i].n \in Nat
    BY MessageNumbers DEF LInv, IInv, Typed
  <2>7. SentLast' \in Int
    BY <2>2, <2>5
  <2>8. Behind'
    BY <1>1, <1>3, <2>1, <2>5, <2>6, <2>7 DEF LInv, Numbered, Behind
  <2> QED BY <2>4, <2>8 DEF Numbered
<1>8. Slots'
  <2>1. Has(2, 1)' = Has(2, 1) /\ Has(0, 1)' = Has(0, 1) /\ OnTime' = OnTime /\ NoAverage' = NoAverage
    BY <1>1 DEF Has, OnTime, NoAverage
  <2>2. CASE rpc' = "killed"
    BY <2>2 DEF Slots, SarOver, SarBefore
  <2>3. CASE rpc' = rpc
    BY <1>1, <1>2, <2>3 DEF LInv, Slots, Has, OnTime, NoAverage
  <2> QED BY <1>2, <2>2, <2>3
<1>9. (Saved /\ Displayed)'
  BY <1>1, <1>3 DEF LInv, Saved, Displayed
<1>10. (LinesConsecutive /\ UnexpectedEnd /\ AverageRight)'
  BY <1>1, <1>2, <1>3 DEF LInv, LinesConsecutive, UnexpectedEnd, AverageRight, AverageSpansLines, SadcOver
<1> QED BY <1>5, <1>6, <1>7, <1>8, <1>9, <1>10

LEMMA LinesAtInit == Init => LInv
<1> SUFFICES ASSUME Init
             PROVE  LInv
  OBVIOUS
<1>1. /\ day = 1 /\ pipe = << >>
      /\ spc = "open" /\ taken = 0 /\ left = CountArg /\ rot = 0 /\ ofile = 1 /\ caught = FALSE
      /\ saved = [d \in Day |-> << >>]
      /\ rpc = "magic0" /\ selected = Wanted /\ curr = 1
      /\ hdr = [s \in Slot |-> 0] /\ buf = [s \in Slot |-> [a \in Activity |-> 0]]
      /\ togo = NrLines /\ intr = FALSE /\ line = NoLine /\ nlines = 0
  BY Zenon DEF Init
<1>2. IInv
  BY InvariantAtInit
<1>3. NrTyped
  <2>1. day \in Day /\ ofile \in Day /\ rot \in 0..LastDay /\ left \in Int /\ togo \in Nat
    BY <1>1, SadcPipeAssumption DEF Day, CountArg
  <2>2. saved \in [Day -> Seq(Nat)]
    BY <1>1
  <2>3. hdr \in [Slot -> Nat] /\ buf \in [Slot -> [Activity -> Nat]]
    BY <1>1
  <2>4. selected \subseteq Activity
    BY <1>1, SadcPipeAssumption
  <2> QED BY <1>1, <2>1, <2>2, <2>3, <2>4 DEF NrTyped
<1>4. Counted
  BY <1>1, SadcPipeAssumption DEF Counted, CountArg, SadcBefore, Between, Within, SadcOver, Broken
<1>5. Numbered
  BY <1>1 DEF Numbered, Consecutive, Behind, NumberBefore, Got, SarEarly, SentLast
<1>6. Slots
  BY <1>1 DEF Slots, SarBefore, SarOver
<1>7. Saved /\ Displayed
  BY <1>1 DEF Saved, Displayed, NoLine
<1>8. LinesConsecutive /\ UnexpectedEnd /\ AverageRight
  BY <1>1 DEF LinesConsecutive, UnexpectedEnd, AverageRight, AverageSpansLines
<1> QED BY <1>2, <1>3, <1>4, <1>5, <1>6, <1>7, <1>8 DEF LInv

-----------------------------------------------------------------------------
(* The theorems. *)

LEMMA LinesInvariant == Spec => []LInv
<1>1. Init => LInv
  BY LinesAtInit
<1>2. LInv /\ [Next]_vars => LInv'
  <2> SUFFICES ASSUME LInv, [Next]_vars
               PROVE  LInv'
    OBVIOUS
  <2>1. IInv'
    BY InvariantKept DEF LInv
  <2>2. CASE SadcStep
    BY <2>1, <2>2, SadcCounts, SadcNumbered, SarUntroubled DEF LInv
  <2>3. CASE SarStep
    BY <2>1, <2>3, SarNrTyped, SarSlots, SarNumbered, SarDisplays DEF LInv
  <2>4. CASE Signal \/ Midnight \/ Die \/ UNCHANGED vars
    BY <2>1, <2>4, OthersKeepLines DEF LInv
  <2> QED BY <2>2, <2>3, <2>4 DEF Next
<1> QED BY <1>1, <1>2, PTL DEF Spec

\* No sample is skipped and none is displayed twice, for each activity displayed,
\* also across a rotation that brings another list of activities: read_stats()
\* of sar.c changes slots with each line, and the records of rw_sa_stat_loop()
\* come one by one.
THEOREM LinesConsecutiveCorrect == Spec => []LinesConsecutive
<1>1. LInv => LinesConsecutive
  BY DEF LInv
<1> QED BY <1>1, LinesInvariant, PTL

\* "End of data collecting unexpected" is never said of a sadc that ended by
\* itself: it sends one record more than sar has lines to display, and a signal
\* that ends it earlier has reached sar (int_handler() of sadc.c).
THEOREM UnexpectedEndCorrect == Spec => []UnexpectedEnd
<1>1. LInv => UnexpectedEnd
  BY DEF LInv
<1> QED BY <1>1, LinesInvariant, PTL

\* What sar displays is in a file, but for the sample that sadc is about to write
\* or died with: write_stats() to the pipe, then to the file, in every iteration
\* of rw_sa_stat_loop().
THEOREM DisplayedIsSavedCorrect == Spec => []DisplayedIsSaved
<1>1. LInv => DisplayedIsSaved
  <2> SUFFICES ASSUME LInv, Output # "none", NEW k \in 1..line.to
               PROVE  (\E d \in Day : k \in ToSet(saved[d])) \/ (k = taken /\ spc \in {"save", "dead"})
    BY DEF DisplayedIsSaved
  <2>1. line.to \in Nat /\ taken \in Nat /\ line.to <= taken /\ (spc \in {"rec", "data"} => line.to < taken)
    BY DEF LInv, IInv, Typed, Displayed
  <2>2. k \in 1..taken /\ (spc \in {"rec", "data"} => k # taken)
    BY <2>1
  <2> QED BY <2>2 DEF LInv, Saved
<1> QED BY <1>1, LinesInvariant, PTL

\* The average of write_stats_avg() is over the lines that were displayed, when
\* there is no end time (-e) or when a sample is taken at that very time.  (An
\* end time between two samples lets read_stats() go on to a sample past it,
\* which is not displayed and is averaged all the same.)
THEOREM AverageSpansLinesCorrect == EndsOnSample => (Spec => []AverageSpansLines)
<1> SUFFICES ASSUME EndsOnSample
             PROVE  Spec => []AverageSpansLines
  OBVIOUS
<1>1. LInv => AverageSpansLines
  BY DEF LInv, AverageRight
<1> QED BY <1>1, LinesInvariant, PTL
=============================================================================
