--------------------------- MODULE SadcFileProofs ---------------------------
(***************************************************************************)
(* Proofs about SadcFile, for any number of sadc processes, files and      *)
(* activities and any command lines: what every sadc keeps, what the lock  *)
(* of -L buys, and that SadcFile implements DailyLog.                      *)
(***************************************************************************)
EXTENDS SadcFile, SumTheorems, SequenceTheorems

InList(c, list) == c.part \in {"act", "nr", "data"} => c.at \in 1..Len(list)

\* A sadc in the middle of a header or of a record has a next block to write,
\* within its activity sequence.
CursorInList ==
  \A p \in Sadc : pc[p] \in {"sethdr", "write"} =>
    todo[p].part # "end" /\ InList(todo[p], idseq[p])

\* TypeOK alone is not inductive: the block written next must exist.
Typed == TypeOK /\ CursorInList

-----------------------------------------------------------------------------
(* The operators the actions are built from. *)

\* A block of a file that is a header has the fields of one.
LEMMA HeaderType ==
  ASSUME NEW s \in Seq(Blocks), Len(s) >= 2, s[2].part = "header"
  PROVE  s[2] \in HeaderBlocks
<1>1. s[2] \in Blocks
  OBVIOUS
<1> QED
  BY <1>1 DEF Blocks, HeaderBlocks, ActBlocks, RecordBlocks, RecordParts

\* A block of a file that is in the activity list names an activity.
LEMMA ActivityType ==
  ASSUME NEW s \in Seq(Blocks), NEW i \in 1..Len(s), s[i].part = "act"
  PROVE  s[i].id \in Activity
<1>1. s[i] \in Blocks
  OBVIOUS
<1> QED
  BY <1>1 DEF Blocks, HeaderBlocks, ActBlocks, RecordBlocks, RecordParts

\* The cursor moves to a place of the list, or to the end and then is End.
LEMMA AfterType ==
  ASSUME NEW run, NEW list \in Seq(Activity), NEW c \in Cursors, InList(c, list)
  PROVE  /\ After(run, c, list) \in Cursors
         /\ InList(After(run, c, list), list)
         /\ After(run, c, list).part = "end" => After(run, c, list) = End
<1> DEFINE a == After(run, c, list)
           Good(x) == x \in Cursors /\ InList(x, list) /\ (x.part = "end" => x = End)
<1>0. Len(list) \in Nat
  OBVIOUS
<1>1. \A i \in Nat \ {0} : Good(Items(list, i))
  BY <1>0 DEF Items, End, Cursor, Cursors, RecordParts, InList
<1>2. Good(End) /\ Good(Cursor("header", 0)) /\ Good(Cursor("cpu", 0)) /\ Good(Cursor("text", 0))
  BY DEF End, Cursor, Cursors, RecordParts, InList
<1>3. c.at \in Nat
  BY DEF Cursors
<1>4. CASE c.part \in {"header", "act"}
  <2>1. c.at < Len(list) => Good(Cursor("act", c.at + 1))
    BY <1>0, <1>3 DEF Cursor, Cursors, InList, End
  <2> QED
    BY <1>2, <1>4, <2>1 DEF After
<1>5. CASE c.part = "nr"
  <2>1. Good(Cursor("data", c.at))
    BY <1>3, <1>5 DEF Cursor, Cursors, InList, End, RecordParts
  <2> QED
    BY <1>5, <2>1 DEF After
<1>6. CASE c.part = "data"
  BY <1>1, <1>3, <1>6 DEF After
<1>7. CASE c.part = "rec"
  BY <1>1, <1>2, <1>7 DEF After
<1>8. CASE c.part \notin {"header", "act", "nr", "data", "rec"}
  BY <1>2, <1>8 DEF After
<1> QED
  BY <1>4, <1>5, <1>6, <1>7, <1>8

\* What is written is a block.
LEMMA BlockOfType ==
  ASSUME NEW p \in Sadc, NEW k \in Nat, NEW list \in Seq(Activity),
         NEW c \in Cursors, c.part # "end", InList(c, list)
  PROVE  BlockOf(p, k, c, list) \in Blocks
<1>0. Len(list) \in Nat /\ c.at \in Nat
  BY DEF Cursors
<1>1. c.part \in {"act", "nr", "data"} => list[c.at] \in Activity
  BY DEF InList
<1>2. CASE c.part = "magic"
  BY <1>2 DEF BlockOf, Magic, Blocks
<1>3. CASE c.part = "header"
  BY <1>0, <1>3 DEF BlockOf, Header, Blocks, HeaderBlocks
<1>4. CASE c.part = "act"
  BY <1>1, <1>4 DEF BlockOf, ActBlock, Blocks, ActBlocks
<1>5. CASE c.part \in RecordParts
  BY <1>0, <1>1, <1>5 DEF BlockOf, RecordBlock, Blocks, RecordBlocks, RecordParts
<1> QED
  BY <1>2, <1>3, <1>4, <1>5 DEF Cursors

\* Writing a block leaves a sequence of blocks, past the end of the file or not.
LEMMA WriteAtType ==
  ASSUME NEW s \in Seq(Blocks), NEW k \in Nat, NEW b \in Blocks
  PROVE  WriteAt(s, k, b) \in Seq(Blocks)
<1>1. CASE k < Len(s)
  BY <1>1 DEF WriteAt
<1>2. CASE ~(k < Len(s))
  <2> DEFINE pad == [i \in 1..(k - Len(s)) |-> Hole]
  <2>1. k - Len(s) \in Nat
    BY <1>2
  <2>2. Hole \in Blocks
    BY DEF Hole, Blocks
  <2>3. pad \in Seq(Blocks)
    BY <2>1, <2>2, IsASeq
  <2>4. s \o pad \in Seq(Blocks)
    BY <2>3, ConcatProperties
  <2>5. << b >> \in Seq(Blocks)
    OBVIOUS
  <2>6. (s \o pad) \o << b >> \in Seq(Blocks)
    BY <2>4, <2>5, ConcatProperties
  <2> QED
    BY <1>2, <2>6 DEF WriteAt
<1> QED
  BY <1>1, <1>2

\* What was there before is a sequence of blocks.
LEMMA FormerType ==
  ASSUME NEW kind \in FileKinds
  PROVE  Former(kind) \in Seq(Blocks)
<1>1. 1 \in Activity
  BY SadcFileAssumption DEF Activity
<1>2. \A b, c \in BOOLEAN : Magic(b) \in Blocks /\ Header(1, b, c) \in Blocks /\ ActBlock(1, b) \in Blocks
  BY <1>1 DEF Magic, Header, ActBlock, Blocks, HeaderBlocks, ActBlocks
<1>3. NoFile \in Seq(Blocks)
  BY DEF NoFile, Blocks
<1>4. \A x, y, z \in Blocks : << x >> \in Seq(Blocks) /\ << x, y, z >> \in Seq(Blocks)
  OBVIOUS
<1>5. /\ << Magic(FALSE) >> \in Seq(Blocks)
      /\ \A b, c, e \in BOOLEAN :
           << Magic(TRUE), Header(1, b, c), ActBlock(1, e) >> \in Seq(Blocks)
  BY <1>2, <1>4
<1>6. << >> \in Seq(Blocks)
  OBVIOUS
<1> QED
  BY <1>3, <1>5, <1>6, Zenon DEF Former, FileKinds

\* sa_sys_init() leaves an activity sequence.
LEMMA DefaultOrderType ==
  ASSUME NEW S, NEW l \in DefaultOrder(S)
  PROVE  l \in Seq(Activity)
BY SadcFileAssumption DEF DefaultOrder

-----------------------------------------------------------------------------
(* Type correctness. *)

LEMMA InitTyped == Init => Typed
<1> SUFFICES ASSUME Init PROVE Typed
  OBVIOUS
<1>1. \A d \in Day : Former(InitFile[d]) \in Seq(Blocks)
  BY FormerType, SadcFileAssumption
<1>2. 1 \in Day
  BY SadcFileAssumption DEF Day
<1>3. NoHeader \in HeaderBlocks /\ End \in Cursors
  BY DEF NoHeader, Header, HeaderBlocks, End, Cursor, Cursors
<1>4. TypeOK
  BY <1>1, <1>2, <1>3 DEF Init, TypeOK, Labels
<1>5. CursorInList
  BY DEF Init, CursorInList
<1> QED
  BY <1>4, <1>5 DEF Typed

\* exit() and a file created again keep the types: no block is being written then.
LEMMA ExitTyped ==
  ASSUME Typed, NEW p \in Sadc, NEW label \in Over, Exit(p, label)
  PROVE  Typed'
<1>1. TypeOK'
  BY DEF Typed, TypeOK, Exit, CloseFile, Goto, Over, Labels, Nobody
<1>2. CursorInList'
  BY DEF Typed, TypeOK, CursorInList, InList, Exit, Goto, Over
<1> QED
  BY <1>1, <1>2 DEF Typed

LEMMA RecreateTyped ==
  ASSUME Typed, NEW p \in Sadc, Recreate(p)
  PROVE  Typed'
<1>1. TypeOK'
  BY DEF Typed, TypeOK, Recreate, Goto, Labels, shared
<1>2. CursorInList'
  BY DEF Typed, TypeOK, CursorInList, InList, Recreate, Goto
<1> QED
  BY <1>1, <1>2 DEF Typed

LEMMA RefuseTyped ==
  ASSUME Typed, NEW p \in Sadc, Refuse(p)
  PROVE  Typed'
BY ExitTyped, RecreateTyped DEF Refuse, Over

\* Asking for the lock changes the lock of one file and one flag.
LEMMA AskTyped ==
  ASSUME TypeOK, NEW p \in Sadc, AskForFlock(p)
  PROVE  lock' \in [Day -> Sadc \cup {Nobody}] /\ locked' \in [Sadc -> BOOLEAN]
<1>1. CASE Args[p].lock
  BY <1>1 DEF TypeOK, AskForFlock
<1>2. CASE ~Args[p].lock
  BY <1>2 DEF TypeOK, AskForFlock
<1> QED
  BY <1>1, <1>2

LEMMA NextTyped == Typed /\ [Next]_vars => Typed'
<1> SUFFICES ASSUME Typed, [Next]_vars PROVE Typed'
  OBVIOUS
<1> USE DEF Goto, shared, Labels, Over
<1>1. ASSUME NEW p \in Sadc, Start(p) PROVE Typed'
  <2>1. (IF Args[p].rotat THEN day ELSE Args[p].outfile) \in Day
    BY SadcFileAssumption DEF Typed, TypeOK, CommandLine
  <2>2. Args[p].wants \in Seq(Activity)
    BY SadcFileAssumption DEF CommandLine
  <2>3. TypeOK'
    BY <1>1, <2>1, <2>2 DEF Typed, TypeOK, Start
  <2>4. CursorInList'
    BY <1>1 DEF Typed, TypeOK, CursorInList, InList, Start
  <2> QED
    BY <2>3, <2>4 DEF Typed
<1>2. ASSUME NEW p \in Sadc, OpenFile(p) PROVE Typed'
  <2>1. TypeOK'
    <3>1. CASE /\ pc' = [pc EXCEPT ![p] = "create"]
               /\ UNCHANGED << mode, pos >>
      BY <1>2, <3>1 DEF Typed, TypeOK, OpenFile
    <3>2. CASE /\ pc' = [pc EXCEPT ![p] = "magic"]
               /\ mode' = [mode EXCEPT ![p] = "append"]
               /\ pos' = [pos EXCEPT ![p] = 0]
      <4>1. UNCHANGED << shared, ofile, newofile, locked, filehdr, seen, idseq, n, todo >>
        BY <1>2, Zenon DEF OpenFile
      <4> QED
        BY <3>2, <4>1 DEF Typed, TypeOK
    <3>3. \/ pc' = [pc EXCEPT ![p] = "create"] /\ UNCHANGED << mode, pos >>
          \/ /\ pc' = [pc EXCEPT ![p] = "magic"]
             /\ mode' = [mode EXCEPT ![p] = "append"]
             /\ pos' = [pos EXCEPT ![p] = 0]
      BY <1>2, Zenon DEF OpenFile
    <3> QED
      BY <3>1, <3>2, <3>3
  <2>2. CursorInList'
    BY <1>2 DEF Typed, TypeOK, CursorInList, InList, OpenFile
  <2> QED
    BY <2>1, <2>2 DEF Typed
<1>3. ASSUME NEW p \in Sadc, ReadMagic(p) PROVE Typed'
  <2>1. CASE Recreate(p) \/ Refuse(p)
    BY <2>1, RecreateTyped, RefuseTyped
  <2>2. CASE ~(Recreate(p) \/ Refuse(p))
    <3>0. /\ pc[p] = "magic"
          /\ pc' = [pc EXCEPT ![p] = "header"]
          /\ pos' = [pos EXCEPT ![p] = 1]
          /\ UNCHANGED << shared, ofile, newofile, mode, locked, filehdr, seen, idseq, n, todo >>
      BY <1>3, <2>2, Zenon DEF ReadMagic
    <3>1. TypeOK'
      BY <3>0 DEF Typed, TypeOK
    <3>2. CursorInList'
      BY <3>0 DEF Typed, TypeOK, CursorInList, InList
    <3> QED
      BY <3>1, <3>2 DEF Typed
  <2> QED
    BY <2>1, <2>2
<1>4. ASSUME NEW p \in Sadc, ReadHeader(p) PROVE Typed'
  <2>1. CASE Recreate(p) \/ Refuse(p)
    BY <2>1, RecreateTyped, RefuseTyped
  <2>2. CASE ~(Recreate(p) \/ Refuse(p))
    <3> DEFINE s == file[ofile[p]]
    <3>0. /\ pc[p] = "header"
          /\ Len(s) >= 2 /\ s[2].part = "header"
          /\ pc' = [pc EXCEPT ![p] = "acts"]
          /\ pos' = [pos EXCEPT ![p] = 2]
          /\ filehdr' = [filehdr EXCEPT ![p] = s[2]]
          /\ seen' = [seen EXCEPT ![p] = << >>]
          /\ UNCHANGED << shared, ofile, newofile, mode, locked, idseq, n, todo >>
      BY <1>4, <2>2, Zenon DEF ReadHeader
    <3>1. s \in Seq(Blocks)
      BY DEF Typed, TypeOK
    <3>2. s[2] \in HeaderBlocks
      BY <3>0, <3>1, HeaderType
    <3>3. TypeOK'
      BY <3>0, <3>2 DEF Typed, TypeOK
    <3>4. CursorInList'
      BY <3>0 DEF Typed, TypeOK, CursorInList, InList
    <3> QED
      BY <3>3, <3>4 DEF Typed
  <2> QED
    BY <2>1, <2>2
<1>5. ASSUME NEW p \in Sadc, ReadActivity(p) PROVE Typed'
  <2>1. CASE Exit(p, "done") \/ Refuse(p)
    BY <2>1, ExitTyped, RefuseTyped
  <2>2. CASE ~(Exit(p, "done") \/ Refuse(p))
    <3> DEFINE s == file[ofile[p]]
               i == pos[p] + 1
    <3>0. /\ pc[p] = "acts"
          /\ i <= Len(s) /\ s[i].part = "act"
          /\ seen' = [seen EXCEPT ![p] = Append(@, s[i].id)]
          /\ pos' = [pos EXCEPT ![p] = i]
          /\ UNCHANGED << shared, pc, ofile, newofile, mode, locked, filehdr, idseq, n, todo >>
      BY <1>5, <2>2, Zenon DEF ReadActivity
    <3>1. s \in Seq(Blocks) /\ i \in 1..Len(s) /\ s[i].part = "act"
      BY <3>0 DEF Typed, TypeOK
    <3>2. s[i].id \in Activity
      BY <3>1, ActivityType
    <3>3. Append(seen[p], s[i].id) \in Seq(Activity)
      BY <3>2 DEF Typed, TypeOK
    <3>4. TypeOK'
      BY <3>0, <3>1, <3>3 DEF Typed, TypeOK
    <3>5. CursorInList'
      BY <3>0 DEF Typed, TypeOK, CursorInList, InList
    <3> QED
      BY <3>4, <3>5 DEF Typed
  <2> QED
    BY <2>1, <2>2
<1>6. ASSUME NEW p \in Sadc, AdoptList(p) PROVE Typed'
  <2>1. TypeOK'
    BY <1>6 DEF Typed, TypeOK, AdoptList, Opened
  <2>2. CursorInList'
    BY <1>6 DEF Typed, TypeOK, CursorInList, InList, AdoptList, Opened
  <2> QED
    BY <2>1, <2>2 DEF Typed
<1>7. ASSUME NEW p \in Sadc, CreateFile(p) PROVE Typed'
  <2>1. << >> \in Seq(Blocks)
    OBVIOUS
  <2>2. TypeOK'
    BY <1>7, <2>1 DEF Typed, TypeOK, CreateFile
  <2>3. CursorInList'
    BY <1>7 DEF Typed, TypeOK, CursorInList, InList, CreateFile
  <2> QED
    BY <2>2, <2>3 DEF Typed
<1>8. ASSUME NEW p \in Sadc, LockCreated(p) PROVE Typed'
  <2>1. CASE Exit(p, "done")
    BY <2>1, ExitTyped
  <2>2. CASE ~Exit(p, "done")
    <3>0. /\ AskForFlock(p)
          /\ pc' = [pc EXCEPT ![p] = "trunc"]
          /\ UNCHANGED << day, file, ofile, newofile, mode, pos, filehdr, seen, idseq, n, todo >>
      BY <1>8, <2>2, Zenon DEF LockCreated
    <3>1. TypeOK'
      BY <3>0, AskTyped DEF Typed, TypeOK
    <3>2. CursorInList'
      BY <3>0 DEF Typed, TypeOK, CursorInList, InList
    <3> QED
      BY <3>1, <3>2 DEF Typed
  <2> QED
    BY <2>1, <2>2
<1>9. ASSUME NEW p \in Sadc, Truncate(p) PROVE Typed'
  <2>1. << >> \in Seq(Blocks) /\ Cursor("magic", 0) \in Cursors
    BY DEF Cursor, Cursors
  <2>2. TypeOK'
    BY <1>9, <2>1 DEF Typed, TypeOK, Truncate
  <2>3. CursorInList'
    BY <1>9 DEF Typed, TypeOK, CursorInList, InList, Truncate, Cursor
  <2> QED
    BY <2>2, <2>3 DEF Typed
<1>10. ASSUME NEW p \in Sadc, BeginSpecial(p) PROVE Typed'
  <2>1. CASE Exit(p, "done")
    BY <2>1, ExitTyped
  <2>2. CASE ~Exit(p, "done")
    <3>1. Cursor("rec", 0) \in Cursors
      BY DEF Cursor, Cursors, RecordParts
    <3>0. /\ UNCHANGED << lock, locked >> \/ AskForFlock(p)
          /\ todo' = [todo EXCEPT ![p] = Cursor("rec", 0)]
          /\ pc' = [pc EXCEPT ![p] = "write"]
          /\ UNCHANGED << day, file, ofile, newofile, mode, pos, filehdr, seen, idseq, n >>
      BY <1>10, <2>2, Zenon DEF BeginSpecial
    <3>2. TypeOK'
      BY <3>0, <3>1, AskTyped DEF Typed, TypeOK
    <3>3. CursorInList'
      BY <3>0 DEF Typed, TypeOK, CursorInList, InList, Cursor
    <3> QED
      BY <3>2, <3>3 DEF Typed
  <2> QED
    BY <2>1, <2>2
<1>11. ASSUME NEW p \in Sadc, EnterLoop(p) PROVE Typed'
  <2>1. TypeOK'
    BY <1>11 DEF Typed, TypeOK, EnterLoop
  <2>2. CursorInList'
    BY <1>11 DEF Typed, TypeOK, CursorInList, InList, EnterLoop
  <2> QED
    BY <2>1, <2>2 DEF Typed
<1>12. ASSUME NEW p \in Sadc, Sample(p) \/ SampleAgain(p) PROVE Typed'
  <2>1. Cursor("rec", 0) \in Cursors
    BY DEF Cursor, Cursors, RecordParts
  <2>2. n' \in [Sadc -> Nat]
    <3>1. CASE Sample(p)
      BY <3>1 DEF Typed, TypeOK, Sample
    <3>2. CASE SampleAgain(p)
      BY <3>2 DEF Typed, TypeOK, SampleAgain
    <3> QED
      BY <1>12, <3>1, <3>2
  <2>3. WriteStats(p)
    BY <1>12 DEF Sample, SampleAgain
  <2>4. CASE pc' = [pc EXCEPT ![p] = "written"] /\ UNCHANGED << lock, locked, todo >>
    <3>1. UNCHANGED << day, file, ofile, newofile, mode, pos, filehdr, seen, idseq >>
      BY <2>3, Zenon DEF WriteStats
    <3>2. TypeOK'
      BY <2>2, <2>4, <3>1 DEF Typed, TypeOK
    <3>3. CursorInList'
      BY <2>4, <3>1 DEF Typed, TypeOK, CursorInList, InList
    <3> QED
      BY <3>2, <3>3 DEF Typed
  <2>5. CASE ~(pc' = [pc EXCEPT ![p] = "written"] /\ UNCHANGED << lock, locked, todo >>)
    <3>1. /\ UNCHANGED << lock, locked >> \/ AskForFlock(p)
          /\ todo' = [todo EXCEPT ![p] = Cursor("rec", 0)]
          /\ pc' = [pc EXCEPT ![p] = "write"]
          /\ UNCHANGED << day, file, ofile, newofile, mode, pos, filehdr, seen, idseq >>
      BY <2>3, <2>5, Zenon DEF WriteStats
    <3>2. TypeOK'
      BY <2>1, <2>2, <3>1, AskTyped DEF Typed, TypeOK
    <3>3. CursorInList'
      BY <3>1 DEF Typed, TypeOK, CursorInList, InList, Cursor
    <3> QED
      BY <3>2, <3>3 DEF Typed
  <2> QED
    BY <2>4, <2>5
<1>13. ASSUME NEW p \in Sadc, WriteBlock(p) PROVE Typed'
  <2> DEFINE f == file[ofile[p]]
             at == IF mode[p] = "append" THEN Len(f) ELSE pos[p]
             after == After(Args[p].run, todo[p], idseq[p])
             b == BlockOf(p, n[p], todo[p], idseq[p])
  <2>1. /\ todo[p] \in Cursors /\ todo[p].part # "end" /\ InList(todo[p], idseq[p])
        /\ idseq[p] \in Seq(Activity) /\ n[p] \in Nat /\ f \in Seq(Blocks)
    BY <1>13 DEF Typed, TypeOK, CursorInList, WriteBlock
  <2>2. b \in Blocks
    BY <2>1, BlockOfType
  <2>3. at \in Nat
    BY <2>1 DEF Typed, TypeOK
  <2>4. WriteAt(f, at, b) \in Seq(Blocks)
    BY <2>1, <2>2, <2>3, WriteAtType
  <2>5. after \in Cursors /\ InList(after, idseq[p]) /\ (after.part = "end" => after = End)
    BY <2>1, AfterType
  <2> HIDE DEF at, after, b
  <2>6. /\ file' = [file EXCEPT ![ofile[p]] = WriteAt(f, at, b)]
        /\ pos' = [pos EXCEPT ![p] = at + 1]
        /\ todo' = [todo EXCEPT ![p] = after]
        /\ \E label \in {"main", "again", "written", "special"} :
             pc' = [pc EXCEPT ![p] = IF after = End THEN label ELSE pc[p]]
        /\ UNCHANGED << day, lock, ofile, newofile, mode, locked, filehdr, seen, idseq, n >>
    BY <1>13 DEF WriteBlock, Opened, at, after, b, Typed, TypeOK
  <2>7. TypeOK'
    BY <2>3, <2>4, <2>5, <2>6 DEF Typed, TypeOK
  <2>8. CursorInList'
    BY <2>1, <2>5, <2>6 DEF Typed, TypeOK, CursorInList, InList
  <2> QED
    BY <2>7, <2>8 DEF Typed
<1>14. ASSUME NEW p \in Sadc, Rotate(p) PROVE Typed'
  <2>1. PICK l \in DefaultOrder(ToSet(idseq[p])) : idseq' = [idseq EXCEPT ![p] = l]
    BY <1>14 DEF Rotate
  <2>2. l \in Seq(Activity)
    BY DefaultOrderType
  <2>3. TypeOK'
    BY <1>14, <2>1, <2>2 DEF Typed, TypeOK, Rotate, CloseFile, Nobody
  <2>4. CursorInList'
    BY <1>14, <2>1 DEF Typed, TypeOK, CursorInList, InList, Rotate
  <2> QED
    BY <2>3, <2>4 DEF Typed
<1>15. ASSUME NEW p \in Sadc, EndIteration(p) PROVE Typed'
  <2>1. CASE Exit(p, "done")
    BY <2>1, ExitTyped
  <2>2. CASE ~Exit(p, "done")
    <3>1. TypeOK'
      BY <1>15, <2>2 DEF Typed, TypeOK, EndIteration
    <3>2. CursorInList'
      BY <1>15, <2>2 DEF Typed, TypeOK, CursorInList, InList, EndIteration
    <3> QED
      BY <3>1, <3>2 DEF Typed
  <2> QED
    BY <2>1, <2>2
<1>16. ASSUME NEW p \in Sadc, Wake(p) PROVE Typed'
  <2>1. TypeOK'
    BY <1>16 DEF Typed, TypeOK, Wake
  <2>2. CursorInList'
    BY <1>16 DEF Typed, TypeOK, CursorInList, InList, Wake
  <2> QED
    BY <2>1, <2>2 DEF Typed
<1>17. ASSUME NEW p \in Sadc, EndSpecial(p) \/ Die(p) PROVE Typed'
  BY <1>17, ExitTyped DEF EndSpecial, Die
<1>18. CASE Midnight
  <2>1. TypeOK'
    BY <1>18, SadcFileAssumption DEF Typed, TypeOK, Midnight, Day
  <2>2. CursorInList'
    BY <1>18 DEF Typed, CursorInList, InList, Midnight
  <2> QED
    BY <2>1, <2>2 DEF Typed
<1>19. CASE UNCHANGED vars
  BY <1>19 DEF Typed, TypeOK, CursorInList, InList, vars
<1> QED
  BY <1>1, <1>2, <1>3, <1>4, <1>5, <1>6, <1>7, <1>8, <1>9, <1>10, <1>11, <1>12, <1>13,
     <1>14, <1>15, <1>16, <1>17, <1>18, <1>19 DEF Next, Step

\* Every behaviour of the sadc processes keeps the types.
THEOREM TypeCorrect == Spec => []TypeOK
<1>1. Typed => TypeOK
  BY DEF Typed
<1> QED
  BY <1>1, InitTyped, NextTyped, PTL DEF Spec

-----------------------------------------------------------------------------
(* A sadc -L writes and truncates under its lock.  S_F_FILE_LOCKED says that  *)
(* the lock was obtained and is never cleared, which is right as long as the  *)
(* output file stays the same: the sadc must not be one that rotates it.      *)

FlagIsLock(p) ==
  /\ newofile[p] = ofile[p]
  /\ pc[p] = "off" => ~locked[p]
  /\ pc[p] \in Changing => locked[p]
  /\ locked[p] /\ pc[p] \notin Over => lock[ofile[p]] = p

FlagsAreLocks == \A p \in Sadc : Args[p].lock /\ ~Args[p].rotat => FlagIsLock(p)

\* Nothing q does changes what another sadc is doing or takes its lock away.
Undisturbed(q) ==
  \A p \in Sadc \ {q} :
    /\ pc'[p] = pc[p] /\ ofile'[p] = ofile[p] /\ newofile'[p] = newofile[p]
    /\ locked'[p] = locked[p]
    /\ \A d \in Day : lock[d] = p => lock'[d] = p

LEMMA ExitUndisturbed ==
  ASSUME TypeOK, NEW q \in Sadc, NEW label, Exit(q, label)
  PROVE  Undisturbed(q) /\ pc'[q] = label
BY DEF TypeOK, Undisturbed, Exit, Goto, CloseFile

LEMMA AskUndisturbed ==
  ASSUME TypeOK, NEW q \in Sadc, LockFree(q), AskForFlock(q),
         NEW label, Goto(q, label), UNCHANGED << ofile, newofile >>
  PROVE  /\ Undisturbed(q)
         /\ Args[q].lock => locked'[q] /\ lock'[ofile[q]] = q
         /\ pc'[q] = label
<1>1. CASE Args[q].lock
  <2>1. lock[ofile[q]] \in {Nobody, q}
    BY <1>1 DEF LockFree
  <2>2. /\ lock' = [lock EXCEPT ![ofile[q]] = q]
        /\ locked' = [locked EXCEPT ![q] = TRUE]
    BY <1>1, Zenon DEF AskForFlock
  <2> QED
    BY <2>1, <2>2, SadcFileAssumption DEF TypeOK, Undisturbed, Goto
<1>2. CASE ~Args[q].lock
  <2>1. UNCHANGED << lock, locked >>
    BY <1>2, Zenon DEF AskForFlock
  <2> QED
    BY <1>2, <2>1 DEF TypeOK, Undisturbed, Goto
<1> QED
  BY <1>1, <1>2

\* A step that leaves locks, flags and file names alone.
LEMMA QuietUndisturbed ==
  ASSUME TypeOK, NEW q \in Sadc, NEW label, Goto(q, label),
         UNCHANGED << lock, locked, ofile, newofile >>
  PROVE  Undisturbed(q) /\ pc'[q] = label
BY DEF TypeOK, Undisturbed, Goto

LEMMA FlagAfterExit ==
  ASSUME TypeOK, NEW q \in Sadc, FlagIsLock(q), NEW label \in Over, Exit(q, label)
  PROVE  FlagIsLock(q)'
BY DEF TypeOK, FlagIsLock, Exit, Goto, CloseFile, Over, Changing

\* One step of q: the others are undisturbed, and if q is a sadc -L that does not
\* rotate its file, its flag still says that it holds its lock.
StepKeeps(q) ==
  Undisturbed(q) /\ (Args[q].lock /\ ~Args[q].rotat /\ FlagIsLock(q) => FlagIsLock(q)')

LEMMA ExitKeeps ==
  ASSUME TypeOK, NEW q \in Sadc, NEW label \in Over, Exit(q, label)
  PROVE  StepKeeps(q)
BY ExitUndisturbed, FlagAfterExit DEF StepKeeps

LEMMA QuietKeeps ==
  ASSUME TypeOK, NEW q \in Sadc, NEW label, Goto(q, label), pc[q] \notin Over \cup {"off"},
         label \in Changing => pc[q] \in Changing \/ locked[q],
         UNCHANGED << lock, locked, ofile, newofile >>,
         label # "off"
  PROVE  StepKeeps(q)
<1>1. Undisturbed(q) /\ pc'[q] = label
  BY QuietUndisturbed
<1> QED
  BY <1>1 DEF StepKeeps, FlagIsLock

LEMMA AskKeeps ==
  ASSUME TypeOK, NEW q \in Sadc, LockFree(q), AskForFlock(q),
         NEW label, Goto(q, label), UNCHANGED << ofile, newofile >>, label # "off"
  PROVE  StepKeeps(q)
<1>1. /\ Undisturbed(q)
      /\ Args[q].lock => locked'[q] /\ lock'[ofile[q]] = q
      /\ pc'[q] = label
  BY AskUndisturbed
<1> QED
  BY <1>1 DEF StepKeeps, FlagIsLock

LEMMA RecreateKeeps ==
  ASSUME TypeOK, NEW q \in Sadc, pc[q] \notin Over \cup {"off"}, Recreate(q)
  PROVE  StepKeeps(q)
<1>1. Goto(q, "create") /\ UNCHANGED << lock, locked, ofile, newofile >>
  BY DEF Recreate, shared
<1> QED
  BY <1>1, QuietKeeps DEF Changing

LEMMA RefuseKeeps ==
  ASSUME TypeOK, NEW q \in Sadc, pc[q] \notin Over \cup {"off"}, Refuse(q)
  PROVE  StepKeeps(q)
BY RecreateKeeps, ExitKeeps DEF Refuse, Over

LEMMA EveryStepKeeps ==
  ASSUME TypeOK, NEW q \in Sadc, Start(q) \/ Step(q) \/ Die(q)
  PROVE  StepKeeps(q)
<1>1. CASE Start(q)
  <2>1. /\ pc[q] = "off" /\ pc' = [pc EXCEPT ![q] = "open"]
        /\ UNCHANGED << lock, locked >>
        /\ \E d \in Day : /\ ofile' = [ofile EXCEPT ![q] = d]
                          /\ newofile' = [newofile EXCEPT ![q] = d]
    <3>1. (IF Args[q].rotat THEN day ELSE Args[q].outfile) \in Day
      BY SadcFileAssumption DEF TypeOK, CommandLine
    <3> QED
      BY <1>1, <3>1, Zenon DEF Start, Goto, shared
  <2> QED
    BY <2>1 DEF TypeOK, StepKeeps, Undisturbed, FlagIsLock, Changing
<1>2. CASE OpenFile(q)
  <2>1. /\ pc[q] = "open" /\ UNCHANGED << lock, locked, ofile, newofile >>
        /\ Goto(q, "create") \/ Goto(q, "magic")
    BY <1>2, Zenon DEF OpenFile, shared
  <2> QED
    BY <2>1, QuietKeeps DEF Changing, Over
<1>3. CASE ReadMagic(q)
  <2>1. pc[q] = "magic"
    BY <1>3 DEF ReadMagic
  <2>2. CASE Recreate(q) \/ Refuse(q)
    BY <2>1, <2>2, RecreateKeeps, RefuseKeeps DEF Over
  <2>3. CASE ~(Recreate(q) \/ Refuse(q))
    <3>1. Goto(q, "header") /\ UNCHANGED << lock, locked, ofile, newofile >>
      BY <1>3, <2>3, Zenon DEF ReadMagic, shared
    <3> QED
      BY <2>1, <3>1, QuietKeeps DEF Changing, Over
  <2> QED
    BY <2>2, <2>3
<1>4. CASE ReadHeader(q)
  <2>1. pc[q] = "header"
    BY <1>4 DEF ReadHeader
  <2>2. CASE Recreate(q) \/ Refuse(q)
    BY <2>1, <2>2, RecreateKeeps, RefuseKeeps DEF Over
  <2>3. CASE ~(Recreate(q) \/ Refuse(q))
    <3>1. Goto(q, "acts") /\ UNCHANGED << lock, locked, ofile, newofile >>
      BY <1>4, <2>3, Zenon DEF ReadHeader, shared
    <3> QED
      BY <2>1, <3>1, QuietKeeps DEF Changing, Over
  <2> QED
    BY <2>2, <2>3
<1>5. CASE ReadActivity(q)
  <2>1. pc[q] = "acts"
    BY <1>5 DEF ReadActivity
  <2>2. CASE Exit(q, "done") \/ Refuse(q)
    BY <2>1, <2>2, ExitKeeps, RefuseKeeps DEF Over
  <2>3. CASE ~(Exit(q, "done") \/ Refuse(q))
    <3>1. UNCHANGED << lock, locked, pc, ofile, newofile >>
      BY <1>5, <2>3, Zenon DEF ReadActivity, shared
    <3>2. Goto(q, "acts")
      BY <2>1, <3>1 DEF TypeOK, Goto
    <3> QED
      BY <2>1, <3>1, <3>2, QuietKeeps DEF Changing, Over
  <2> QED
    BY <2>2, <2>3
<1>6. CASE AdoptList(q)
  <2>1. /\ pc[q] = "acts" /\ UNCHANGED << lock, locked, ofile, newofile >>
        /\ Goto(q, "main") \/ Goto(q, "again")
    BY <1>6, Zenon DEF AdoptList, Opened, shared
  <2> QED
    BY <2>1, QuietKeeps DEF Changing, Over
<1>7. CASE CreateFile(q)
  <2>1. pc[q] = "create" /\ Goto(q, "lockfile") /\ UNCHANGED << lock, locked, ofile, newofile >>
    BY <1>7, Zenon DEF CreateFile
  <2> QED
    BY <2>1, QuietKeeps DEF Changing, Over
<1>8. CASE LockCreated(q)
  <2>1. CASE Exit(q, "done")
    BY <2>1, ExitKeeps DEF Over
  <2>2. CASE ~Exit(q, "done")
    <3>1. LockFree(q) /\ AskForFlock(q) /\ Goto(q, "trunc") /\ UNCHANGED << ofile, newofile >>
      BY <1>8, <2>2, Zenon DEF LockCreated
    <3> QED
      BY <3>1, AskKeeps
  <2> QED
    BY <2>1, <2>2
<1>9. CASE Truncate(q)
  <2>1. pc[q] = "trunc" /\ Goto(q, "sethdr") /\ UNCHANGED << lock, locked, ofile, newofile >>
    BY <1>9, Zenon DEF Truncate
  <2> QED
    BY <2>1, QuietKeeps DEF Changing, Over
<1>10. CASE BeginSpecial(q)
  <2>1. CASE Exit(q, "done")
    BY <2>1, ExitKeeps DEF Over
  <2>2. CASE ~Exit(q, "done")
    <3>1. /\ pc[q] = "main" /\ Goto(q, "write") /\ UNCHANGED << ofile, newofile >>
          /\ \/ locked[q] /\ UNCHANGED << lock, locked >>
             \/ LockFree(q) /\ AskForFlock(q)
      BY <1>10, <2>2, Zenon DEF BeginSpecial
    <3> QED
      BY <3>1, AskKeeps, QuietKeeps DEF Over
  <2> QED
    BY <2>1, <2>2
<1>11. CASE EnterLoop(q)
  <2>1. pc[q] = "main" /\ Goto(q, "loop") /\ UNCHANGED << lock, locked, ofile, newofile >>
    BY <1>11, Zenon DEF EnterLoop, shared
  <2> QED
    BY <2>1, QuietKeeps DEF Changing, Over
<1>12. CASE Sample(q) \/ SampleAgain(q)
  <2>1. pc[q] \in {"loop", "again"} /\ WriteStats(q)
    BY <1>12 DEF Sample, SampleAgain
  <2>2. /\ UNCHANGED << ofile, newofile >>
        /\ \/ Goto(q, "written") /\ UNCHANGED << lock, locked >>
           \/ locked[q] /\ Goto(q, "write") /\ UNCHANGED << lock, locked >>
           \/ LockFree(q) /\ AskForFlock(q) /\ Goto(q, "write")
    BY <2>1, Zenon DEF WriteStats
  <2>3. pc[q] \notin Over \cup {"off"}
    BY <2>1 DEF Over
  <2>4. CASE Goto(q, "written") /\ UNCHANGED << lock, locked >>
    BY <2>2, <2>3, <2>4, QuietKeeps DEF Changing
  <2>5. CASE locked[q] /\ Goto(q, "write") /\ UNCHANGED << lock, locked >>
    BY <2>2, <2>3, <2>5, QuietKeeps DEF Changing
  <2>6. CASE LockFree(q) /\ AskForFlock(q) /\ Goto(q, "write")
    BY <2>2, <2>6, AskKeeps
  <2> QED
    BY <2>2, <2>4, <2>5, <2>6
<1>13. CASE WriteBlock(q)
  <2>1. /\ pc[q] \in {"sethdr", "write"} /\ UNCHANGED << lock, locked, ofile, newofile >>
        /\ \E label \in {"main", "again", "written", "special", pc[q]} : Goto(q, label)
    BY <1>13, Zenon DEF WriteBlock, Opened
  <2>2. PICK label \in {"main", "again", "written", "special", pc[q]} : Goto(q, label)
    BY <2>1
  <2> QED
    BY <2>1, <2>2, QuietKeeps DEF Changing, Over
<1>14. CASE Rotate(q)
  <2>1. /\ newofile[q] # ofile[q] /\ Goto(q, "open") /\ CloseFile(q)
        /\ ofile' = [ofile EXCEPT ![q] = newofile[q]]
        /\ UNCHANGED << newofile, locked >>
    BY <1>14, Zenon DEF Rotate
  <2> QED
    BY <2>1 DEF TypeOK, StepKeeps, Undisturbed, FlagIsLock, Goto, CloseFile
<1>15. CASE EndIteration(q)
  <2>1. CASE Exit(q, "done")
    BY <2>1, ExitKeeps DEF Over
  <2>2. CASE ~Exit(q, "done")
    <3>1. /\ pc[q] = "written" /\ Goto(q, "pause")
          /\ UNCHANGED << lock, locked, ofile, newofile >>
      BY <1>15, <2>2, Zenon DEF EndIteration, shared
    <3> QED
      BY <3>1, QuietKeeps DEF Changing, Over
  <2> QED
    BY <2>1, <2>2
<1>16. CASE Wake(q)
  <2>1. /\ pc[q] = "pause" /\ pc' = [pc EXCEPT ![q] = "loop"]
        /\ newofile' = [newofile EXCEPT ![q] = IF Args[q].rotat THEN day ELSE @]
        /\ UNCHANGED << lock, locked, ofile >>
    BY <1>16, Zenon DEF Wake, Goto, shared
  <2> QED
    BY <2>1 DEF TypeOK, StepKeeps, Undisturbed, FlagIsLock, Changing, Over
<1>17. CASE EndSpecial(q) \/ Die(q)
  BY <1>17, ExitKeeps DEF EndSpecial, Die, Over
<1> QED
  BY <1>1, <1>2, <1>3, <1>4, <1>5, <1>6, <1>7, <1>8, <1>9, <1>10, <1>11, <1>12, <1>13,
     <1>14, <1>15, <1>16, <1>17 DEF Step

LEMMA InitFlags == Init => FlagsAreLocks
BY DEF Init, FlagsAreLocks, FlagIsLock, Changing

LEMMA NextFlags == TypeOK /\ FlagsAreLocks /\ [Next]_vars => FlagsAreLocks'
<1> SUFFICES ASSUME TypeOK, FlagsAreLocks, [Next]_vars,
                    NEW p \in Sadc, Args[p].lock, ~Args[p].rotat
             PROVE  FlagIsLock(p)'
  BY DEF FlagsAreLocks
<1>0. FlagIsLock(p)
  BY DEF FlagsAreLocks
<1>1. ASSUME NEW q \in Sadc, Start(q) \/ Step(q) \/ Die(q)
      PROVE  FlagIsLock(p)'
  <2>1. StepKeeps(q)
    BY <1>1, EveryStepKeeps
  <2>2. CASE p = q
    BY <1>0, <2>1, <2>2 DEF StepKeeps
  <2>3. CASE p # q
    <3>1. /\ pc'[p] = pc[p] /\ ofile'[p] = ofile[p] /\ newofile'[p] = newofile[p]
          /\ locked'[p] = locked[p]
          /\ \A d \in Day : lock[d] = p => lock'[d] = p
      BY <2>1, <2>3 DEF StepKeeps, Undisturbed
    <3> QED
      BY <1>0, <3>1 DEF FlagIsLock, TypeOK
  <2> QED
    BY <2>2, <2>3
<1>2. CASE Midnight \/ UNCHANGED vars
  BY <1>0, <1>2 DEF Midnight, vars, FlagIsLock
<1> QED
  BY <1>1, <1>2 DEF Next

\* man sadc, -L: the file is written and truncated under the lock, by every sadc -L
\* whose outfile is named explicitly, whatever the other processes do.
THEOREM LockedWritesCorrect == Spec => []LockedWrites
<1>1. Typed /\ FlagsAreLocks => LockedWrites
  BY DEF Typed, TypeOK, FlagsAreLocks, FlagIsLock, LockedWrites, Changing, Over
<1>2. Typed => TypeOK
  BY DEF Typed
<1> QED
  BY <1>1, <1>2, InitTyped, NextTyped, InitFlags, NextFlags, PTL DEF Spec
-----------------------------------------------------------------------------
(***************************************************************************)
(* The content of the daily data files: what the lock of -L buys.          *)
(***************************************************************************)

\* Every sadc is started with -L on an outfile that is named explicitly.  A sadc
\* that rotates its file goes on without the lock (see LockedWritesAndRotates).
Exclusive == \A p \in Sadc : Args[p].lock /\ ~Args[p].rotat

-----------------------------------------------------------------------------
(* The inductive invariant of the headers.                                  *)

Reading == {"magic", "header", "acts"}
Recording == {"main", "loop", "write", "special", "written", "pause"}
HeaderParts == {"magic", "header", "act"}

\* The blocks setup_file_hdr() writes.
OurMagic == Magic(TRUE)
OurHeader(list) == Header(Len(list), FALSE, TRUE)
OurAct(a) == ActBlock(a, TRUE)

\* The cursor and the block of place k of a header.
HeaderCursor(k) ==
  IF k = 1 THEN Cursor("magic", 0) ELSE IF k = 2 THEN Cursor("header", 0) ELSE Cursor("act", k - 2)
HeaderBlock(k, list) ==
  IF k = 1 THEN OurMagic ELSE IF k = 2 THEN OurHeader(list) ELSE OurAct(list[k - 2])

\* The first k blocks of the header that announces this list, and no more.
Heads(s, list, k) == Len(s) = k /\ \A i \in 1..k : s[i] = HeaderBlock(i, list)

\* Where the header of p is: a sadc that creates its file is the only one to have
\* changed it since ftruncate(), and so is the one that goes on with a descriptor
\* that was not opened with O_APPEND.
Placed(p) ==
  /\ pc[p] # "again"
  /\ pc[p] \notin Recording \cup Over => n[p] = 0
  /\ pc[p] # "off" => ofile[p] = Args[p].outfile
  /\ pc[p] \in Reading => mode[p] = "append"
  /\ pc[p] \in {"lockfile", "trunc"} => mode[p] = "write" /\ pos[p] = 0
  /\ pc[p] = "sethdr" =>
       /\ mode[p] = "write"
       /\ Heads(file[ofile[p]], idseq[p], pos[p])
       /\ pos[p] < Len(idseq[p]) + 2
       /\ todo[p] = HeaderCursor(pos[p] + 1)
  /\ pc[p] = "write" => todo[p].part \in RecordParts
  /\ pc[p] \in Recording =>
       \/ mode[p] = "append"
       \/ /\ mode[p] = "write" /\ locked[p]
          /\ pos[p] = Len(file[ofile[p]]) /\ HeaderDone(file[ofile[p]])

\* A header that is not complete is being written, or its writer was killed.
Aborted(d) == \E p \in Sadc : pc[p] = "dead" /\ ofile[p] = d /\ todo[p].part \in HeaderParts
InCreation(d) == \E p \in Sadc : pc[p] = "sethdr" /\ ofile[p] = d
Begun(d) == HeaderDone(file[d]) \/ Aborted(d) \/ InCreation(d)

\* A file without the magic of this version.
Bare == {NoFile, << >>, << Magic(FALSE) >>}

RecordsFollow(s) == HeaderDone(s) => \A i \in FirstRecord(s)..Len(s) : s[i].part \in RecordParts

HInv ==
  /\ Typed
  /\ FlagsAreLocks
  /\ \A p \in Sadc : Placed(p)
  /\ \A d \in Day : file[d] \in Bare \/ Begun(d)
  /\ \A p \in Sadc : pc[p] \in {"header", "acts"} \cup Recording => Begun(ofile[p])
  /\ \A d \in Day : RecordsFollow(file[d])

-----------------------------------------------------------------------------
(* Headers.                                                                 *)

\* What these blocks say.
LEMMA HeaderParted ==
  ASSUME NEW list, NEW a
  PROVE  /\ OurMagic.part = "magic"
         /\ OurHeader(list).part = "header" /\ OurHeader(list).nact = Len(list)
         /\ OurAct(a).part = "act" /\ OurAct(a).id = a
<1>1. OurMagic.part = "magic"
  BY DEF OurMagic, Magic
<1>2. OurHeader(list).part = "header" /\ OurHeader(list).nact = Len(list)
  BY DEF OurHeader, Header
<1>3. OurAct(a).part = "act" /\ OurAct(a).id = a
  BY DEF OurAct, ActBlock
<1> QED
  BY <1>1, <1>2, <1>3

\* A header is complete when its magic, and as many activities as it announces,
\* are there.
LEMMA Complete ==
  ASSUME NEW s
  PROVE  HeaderDone(s) <=> /\ Len(s) >= 2
                           /\ s[1] = OurMagic
                           /\ s[2].part = "header"
                           /\ Len(s) >= 2 + s[2].nact
                           /\ \A i \in 3..(2 + s[2].nact) : s[i].part = "act"
BY Zenon DEF HeaderDone, OurMagic

\* setup_file_hdr() goes through the places of the header in order.
LEMMA HeaderStep ==
  ASSUME NEW list \in Seq(Activity), NEW k \in 1..(Len(list) + 2), NEW p, NEW j, NEW run
  PROVE  /\ BlockOf(p, j, HeaderCursor(k), list) = HeaderBlock(k, list)
         /\ After(run, HeaderCursor(k), list) = IF k < Len(list) + 2 THEN HeaderCursor(k + 1) ELSE End
         /\ HeaderCursor(k).part \in HeaderParts
         /\ HeaderBlock(k, list).part = HeaderCursor(k).part
<1>0. Len(list) \in Nat
  OBVIOUS
<1> DEFINE c == HeaderCursor(k)
           block == BlockOf(p, j, c, list)
           after == After(run, c, list)
<1>1. CASE k = 1
  <2>1. c = Cursor("magic", 0) /\ HeaderCursor(k + 1) = Cursor("header", 0)
    BY <1>1 DEF HeaderCursor
  <2>2. c.part = "magic"
    BY <2>1 DEF Cursor
  <2>3. block = OurMagic /\ after = Cursor("header", 0)
    BY <2>2, Zenon DEF BlockOf, After, OurMagic
  <2>4. HeaderBlock(k, list) = OurMagic
    BY <1>1 DEF HeaderBlock
  <2> QED
    BY <1>0, <1>1, <2>1, <2>2, <2>3, <2>4, HeaderParted DEF HeaderParts
<1>2. CASE k = 2
  <2>1. c = Cursor("header", 0) /\ HeaderCursor(k + 1) = Cursor("act", 1)
    BY <1>2 DEF HeaderCursor
  <2>2. c.part = "header" /\ c.at = 0
    BY <2>1 DEF Cursor
  <2>3. block = OurHeader(list)
    BY <2>2 DEF BlockOf, OurHeader
  <2>4. after = IF 0 < Len(list) THEN Cursor("act", 1) ELSE End
    BY <2>2 DEF After
  <2>5. HeaderBlock(k, list) = OurHeader(list)
    BY <1>2 DEF HeaderBlock
  <2> QED
    BY <1>0, <1>2, <2>1, <2>2, <2>3, <2>4, <2>5, HeaderParted DEF HeaderParts
<1>3. CASE k > 2
  <2>1. c = Cursor("act", k - 2) /\ HeaderCursor(k + 1) = Cursor("act", k - 1)
    BY <1>3 DEF HeaderCursor
  <2>2. c.part = "act" /\ c.at = k - 2
    BY <2>1 DEF Cursor
  <2>3. block = OurAct(list[k - 2])
    BY <2>2 DEF BlockOf, OurAct
  <2>4. after = IF k - 2 < Len(list) THEN Cursor("act", k - 1) ELSE End
    BY <2>2, <1>3 DEF After
  <2>5. HeaderBlock(k, list) = OurAct(list[k - 2])
    BY <1>3 DEF HeaderBlock
  <2> QED
    BY <1>0, <1>3, <2>1, <2>2, <2>3, <2>4, <2>5, HeaderParted DEF HeaderParts
<1> QED
  BY <1>1, <1>2, <1>3

\* All its places written, the header is complete and nothing follows it.
LEMMA HeadsDone ==
  ASSUME NEW list \in Seq(Activity), NEW s \in Seq(Blocks), NEW k \in Nat, Heads(s, list, k)
  PROVE  /\ k = Len(list) + 2 => HeaderDone(s)
         /\ k <= Len(list) + 2 /\ HeaderDone(s) => k = Len(list) + 2 /\ FirstRecord(s) = k + 1
         /\ \A i \in 1..k : s[i].part \in HeaderParts
<1>0. Len(list) \in Nat /\ Len(s) = k
  BY DEF Heads
<1>1. \A i \in 1..k : s[i] = HeaderBlock(i, list)
  BY DEF Heads
<1>2. k >= 1 => s[1] = OurMagic /\ s[1].part = "magic"
  BY <1>1, HeaderParted DEF HeaderBlock
<1>3. k >= 2 => s[2].part = "header" /\ s[2].nact = Len(list)
  BY <1>1, HeaderParted DEF HeaderBlock
<1>4. \A i \in 3..k : s[i].part = "act"
  BY <1>1, HeaderParted DEF HeaderBlock
<1>5. \A i \in 1..k : i = 1 \/ i = 2 \/ i \in 3..k
  OBVIOUS
<1>6. \A i \in 1..k : s[i].part \in HeaderParts
  BY <1>2, <1>3, <1>4, <1>5 DEF HeaderParts
<1>7. HeaderDone(s) <=> k >= Len(list) + 2
  BY <1>0, <1>2, <1>3, <1>4, Complete
<1> QED
  BY <1>0, <1>3, <1>6, <1>7 DEF FirstRecord

\* What is appended to a complete header leaves it complete; a record does not
\* complete one.
LEMMA HeaderKept ==
  ASSUME NEW s \in Seq(Blocks), NEW b \in Blocks
  PROVE  /\ HeaderDone(s) => HeaderDone(Append(s, b)) /\ FirstRecord(Append(s, b)) = FirstRecord(s)
                               /\ Announced(Append(s, b)) = Announced(s)
         /\ b.part \in RecordParts /\ HeaderDone(Append(s, b)) => HeaderDone(s)
<1> DEFINE t == Append(s, b)
<1>0. /\ t \in Seq(Blocks) /\ Len(t) = Len(s) + 1 /\ Len(s) \in Nat
      /\ \A i \in 1..Len(s) : t[i] = s[i]
      /\ t[Len(s) + 1] = b
  OBVIOUS
<1> HIDE DEF t
<1>1. ASSUME HeaderDone(s) PROVE HeaderDone(t) /\ FirstRecord(t) = FirstRecord(s) /\ Announced(t) = Announced(s)
  <2>1. s[2].nact \in Nat
    BY <1>1, HeaderType, Complete DEF HeaderBlocks
  <2>2. t[1] = s[1] /\ t[2] = s[2]
    BY <1>0, <1>1, Complete
  <2> QED
    BY <1>0, <1>1, <2>1, <2>2, Complete DEF FirstRecord, Announced
<1>2. ASSUME b.part \in RecordParts, HeaderDone(t) PROVE HeaderDone(s)
  <2>1. Len(t) >= 2 /\ t[1].part = "magic" /\ t[2].part = "header" /\ t[1] = OurMagic
    BY <1>2, Complete, HeaderParted
  <2>2. t[2].nact \in Nat
    BY <1>0, <2>1, HeaderType DEF HeaderBlocks
  <2>3. \A i \in 1..(2 + t[2].nact) : i <= Len(t) /\ t[i].part \in HeaderParts
    BY <1>2, <2>1, <2>2, Complete DEF HeaderParts
  <2>4. Len(s) + 1 \notin 1..(2 + t[2].nact)
    BY <1>0, <1>2, <2>3 DEF HeaderParts, RecordParts
  <2>5. 2 + t[2].nact <= Len(s)
    BY <1>0, <2>2, <2>4
  <2>6. s[1] = t[1] /\ s[2] = t[2] /\ \A i \in 3..(2 + t[2].nact) : s[i] = t[i]
    BY <1>0, <2>2, <2>5
  <2>7. \A i \in 3..(2 + t[2].nact) : t[i].part = "act"
    BY <1>2, Complete
  <2> QED
    BY <1>0, <2>1, <2>2, <2>5, <2>6, <2>7, Complete
<1> QED
  BY <1>1, <1>2 DEF t
-----------------------------------------------------------------------------
(* One step of a sadc.                                                      *)

\* Nothing q does changes the variables of another sadc.
Apart(q) ==
  \A p \in Sadc \ {q} :
    /\ pc'[p] = pc[p] /\ ofile'[p] = ofile[p] /\ newofile'[p] = newofile[p]
    /\ mode'[p] = mode[p] /\ pos'[p] = pos[p] /\ locked'[p] = locked[p]
    /\ filehdr'[p] = filehdr[p] /\ seen'[p] = seen[p] /\ idseq'[p] = idseq[p]
    /\ n'[p] = n[p] /\ todo'[p] = todo[p]

LEMMA StepApart ==
  ASSUME TypeOK, NEW q \in Sadc, Start(q) \/ Step(q) \/ Die(q)
  PROVE  Apart(q)
<1> USE DEF TypeOK, Apart, Goto, shared
<1>1. ASSUME NEW label, Exit(q, label) PROVE Apart(q)
  BY <1>1 DEF Exit, CloseFile
<1>2. ASSUME Recreate(q) PROVE Apart(q)
  BY <1>2 DEF Recreate
<1>3. ASSUME Refuse(q) PROVE Apart(q)
  BY <1>1, <1>2, <1>3 DEF Refuse
<1>4. ASSUME AskForFlock(q) PROVE \A p \in Sadc \ {q} : locked'[p] = locked[p]
  BY <1>4 DEF AskForFlock
<1>5. CASE Start(q)
  BY <1>5 DEF Start
<1>6. CASE OpenFile(q)
  BY <1>6 DEF OpenFile
<1>7. CASE ReadMagic(q)
  BY <1>2, <1>3, <1>7 DEF ReadMagic
<1>8. CASE ReadHeader(q)
  BY <1>2, <1>3, <1>8 DEF ReadHeader
<1>9. CASE ReadActivity(q)
  BY <1>1, <1>3, <1>9 DEF ReadActivity
<1>10. CASE AdoptList(q)
  BY <1>10 DEF AdoptList
<1>11. CASE CreateFile(q)
  BY <1>11 DEF CreateFile
<1>12. CASE LockCreated(q)
  BY <1>1, <1>4, <1>12 DEF LockCreated
<1>13. CASE Truncate(q)
  BY <1>13 DEF Truncate
<1>14. CASE BeginSpecial(q)
  BY <1>1, <1>4, <1>14 DEF BeginSpecial
<1>15. CASE EnterLoop(q)
  BY <1>15 DEF EnterLoop
<1>16. CASE Sample(q)
  BY <1>4, <1>16 DEF Sample, WriteStats
<1>17. CASE SampleAgain(q)
  BY <1>4, <1>17 DEF SampleAgain, WriteStats
<1>18. CASE WriteBlock(q)
  BY <1>18 DEF WriteBlock
<1>19. CASE Rotate(q)
  BY <1>19 DEF Rotate, CloseFile
<1>20. CASE EndIteration(q)
  BY <1>1, <1>20 DEF EndIteration
<1>21. CASE Wake(q)
  BY <1>21 DEF Wake
<1>22. CASE EndSpecial(q) \/ Die(q)
  BY <1>1, <1>22 DEF EndSpecial, Die
<1> QED
  BY <1>5, <1>6, <1>7, <1>8, <1>9, <1>10, <1>11, <1>12, <1>13, <1>14, <1>15, <1>16,
     <1>17, <1>18, <1>19, <1>20, <1>21, <1>22 DEF Step

-----------------------------------------------------------------------------
(* What a step does to the files.                                           *)

\* What HInv says of one sadc.
LEMMA OfSadc ==
  ASSUME Exclusive, HInv, NEW q \in Sadc
  PROVE  /\ TypeOK /\ Placed(q) /\ FlagIsLock(q)
         /\ newofile[q] = ofile[q] /\ ofile[q] \in Day
         /\ file[ofile[q]] \in Seq(Blocks) /\ idseq[q] \in Seq(Activity)
         /\ pos[q] \in Nat /\ n[q] \in Nat /\ todo[q] \in Cursors
         /\ pc[q] \in Changing => lock[ofile[q]] = q
         /\ locked[q] /\ pc[q] \notin Over => lock[ofile[q]] = q
<1>1. TypeOK /\ Placed(q) /\ FlagIsLock(q)
  BY DEF Exclusive, HInv, Typed, FlagsAreLocks
<1> QED
  BY <1>1 DEF TypeOK, FlagIsLock, Changing, Over

\* write() at the end of the file appends.
LEMMA WriteAtEnd ==
  ASSUME NEW s \in Seq(Blocks), NEW b \in Blocks
  PROVE  WriteAt(s, Len(s), b) = Append(s, b)
<1> DEFINE pad == [i \in 1..(Len(s) - Len(s)) |-> Hole]
<1>1. Len(s) \in Nat
  OBVIOUS
<1>2. pad \in Seq({Hole}) /\ Len(pad) = 0
  BY <1>1, IsASeq
<1>3. pad = << >>
  BY <1>2, EmptySeq
<1>4. WriteAt(s, Len(s), b) = s \o pad \o << b >>
  BY <1>1 DEF WriteAt
<1>5. s \o << >> = s
  BY ConcatEmptySeq
<1>6. s \o << b >> = Append(s, b)
  OBVIOUS
<1> HIDE DEF pad
<1> QED
  BY <1>3, <1>4, <1>5, <1>6

Makes(q) ==
  /\ pc[q] = "create" /\ file[ofile[q]] = NoFile
  /\ file' = [file EXCEPT ![ofile[q]] = << >>]

Cuts(q) ==
  /\ pc[q] = "trunc" /\ lock[ofile[q]] = q
  /\ pc'[q] = "sethdr" /\ file' = [file EXCEPT ![ofile[q]] = << >>]
  /\ pos'[q] = 0 /\ mode'[q] = "write" /\ todo'[q] = HeaderCursor(1)
  /\ n'[q] = n[q] /\ idseq'[q] = idseq[q]

PutsHeader(q) ==
  /\ pc[q] = "sethdr" /\ lock[ofile[q]] = q
  /\ file' = [file EXCEPT ![ofile[q]] = Append(@, HeaderBlock(pos[q] + 1, idseq[q]))]
  /\ pos'[q] = pos[q] + 1 /\ mode'[q] = "write" /\ n'[q] = n[q] /\ idseq'[q] = idseq[q]
  /\ locked'[q] = locked[q]
  /\ \/ pos'[q] < Len(idseq[q]) + 2 /\ pc'[q] = "sethdr" /\ todo'[q] = HeaderCursor(pos'[q] + 1)
     \/ pos'[q] = Len(idseq[q]) + 2 /\ pc'[q] = "main"

PutsRecord(q) ==
  /\ pc[q] = "write" /\ lock[ofile[q]] = q
  /\ file' = [file EXCEPT ![ofile[q]] = Append(@, BlockOf(q, n[q], todo[q], idseq[q]))]
  /\ mode[q] = "write" => pos'[q] = pos[q] + 1
  /\ mode'[q] = mode[q] /\ n'[q] = n[q] /\ idseq'[q] = idseq[q] /\ locked'[q] = locked[q]
  /\ todo'[q] = After(Args[q].run, todo[q], idseq[q])
  /\ \/ pc'[q] = "write" /\ todo'[q] # End
     \/ pc'[q] \in {"written", "special"} /\ todo'[q] = End

LEMMA TruncateCuts ==
  ASSUME Exclusive, HInv, NEW q \in Sadc, Truncate(q)
  PROVE  Cuts(q)
<1>1. HeaderCursor(1) = Cursor("magic", 0)
  BY DEF HeaderCursor
<1>2. pc[q] = "trunc" /\ mode[q] = "write" /\ pos[q] = 0 /\ lock[ofile[q]] = q
  BY OfSadc DEF Truncate, Placed, Changing
<1> QED
  BY <1>1, <1>2, OfSadc DEF Truncate, Cuts, Goto, TypeOK

\* An append is at the end of the file, and so is a write() without O_APPEND.
LEMMA WriteBlockPuts ==
  ASSUME Exclusive, HInv, NEW q \in Sadc, WriteBlock(q)
  PROVE  PutsHeader(q) \/ PutsRecord(q)
<1> DEFINE s == file[ofile[q]]
           at == IF mode[q] = "append" THEN Len(s) ELSE pos[q]
           b == BlockOf(q, n[q], todo[q], idseq[q])
           after == After(Args[q].run, todo[q], idseq[q])
           next == IF pc[q] = "sethdr" THEN Opened(q)
                   ELSE IF Args[q].run = "stats" THEN "written" ELSE "special"
<1>1. /\ pc[q] \in {"sethdr", "write"}
      /\ file' = [file EXCEPT ![ofile[q]] = WriteAt(@, at, b)]
      /\ pos' = [pos EXCEPT ![q] = at + 1]
      /\ todo' = [todo EXCEPT ![q] = after]
      /\ pc' = [pc EXCEPT ![q] = IF after = End THEN next ELSE pc[q]]
      /\ UNCHANGED << mode, n, idseq, locked >>
  BY Zenon DEF WriteBlock, Goto
<1>2. /\ TypeOK /\ Placed(q) /\ ofile[q] \in Day /\ s \in Seq(Blocks) /\ idseq[q] \in Seq(Activity)
      /\ pos[q] \in Nat /\ n[q] \in Nat /\ todo[q] \in Cursors
  BY OfSadc
<1>3. lock[ofile[q]] = q
  BY <1>1, OfSadc DEF Changing
<1>4. todo[q].part # "end" /\ InList(todo[q], idseq[q])
  BY <1>1 DEF HInv, Typed, CursorInList
<1>5. b \in Blocks
  BY <1>2, <1>4, BlockOfType
<1>6. at = Len(s)
  BY <1>1, <1>2 DEF Placed, Heads, Recording
<1>7. WriteAt(s, at, b) = Append(s, b)
  BY <1>2, <1>5, <1>6, WriteAtEnd
<1> HIDE DEF s, at, b, after, next
<1>8. /\ file' = [file EXCEPT ![ofile[q]] = Append(@, b)]
      /\ pos'[q] = at + 1 /\ todo'[q] = after /\ mode'[q] = mode[q] /\ n'[q] = n[q]
      /\ idseq'[q] = idseq[q] /\ locked'[q] = locked[q]
      /\ pc'[q] = IF after = End THEN next ELSE pc[q]
  <2>1. file' = [file EXCEPT ![ofile[q]] = Append(@, b)]
    BY <1>1, <1>7 DEF s
  <2> QED
    BY <1>1, <1>2, <2>1 DEF TypeOK
<1>9. CASE pc[q] = "sethdr"
  <2>1. /\ mode[q] = "write" /\ at = pos[q] /\ pos[q] < Len(idseq[q]) + 2 /\ n[q] = 0
        /\ todo[q] = HeaderCursor(pos[q] + 1)
    BY <1>2, <1>9 DEF Placed, at, Recording, Over
  <2>2. pos[q] + 1 \in 1..(Len(idseq[q]) + 2)
    BY <1>2, <2>1
  <2> DEFINE k == pos[q] + 1
             list == idseq[q]
  <2>0. k \in 1..(Len(list) + 2) /\ list \in Seq(Activity)
    BY <1>2, <2>2
  <2> HIDE DEF k, list
  <2>3. /\ BlockOf(q, n[q], HeaderCursor(k), list) = HeaderBlock(k, list)
        /\ After(Args[q].run, HeaderCursor(k), list) =
             IF k < Len(list) + 2 THEN HeaderCursor(k + 1) ELSE End
    BY <2>0, HeaderStep
  <2>4. b = HeaderBlock(k, list) /\ after = IF k < Len(list) + 2 THEN HeaderCursor(k + 1) ELSE End
    BY <2>1, <2>3 DEF b, after, k, list
  <2>5. \A j \in Nat \ {0} : HeaderCursor(j) # End
    BY DEF HeaderCursor, End, Cursor
  <2>6. next = "main"
    BY <1>9, <2>1 DEF next, Opened
  <2>7. PutsHeader(q)
    BY <1>2, <1>3, <1>8, <1>9, <2>1, <2>2, <2>4, <2>5, <2>6 DEF PutsHeader, k, list
  <2> QED
    BY <2>7
<1>10. CASE pc[q] = "write"
  <2>1. next \in {"written", "special"}
    BY <1>10 DEF next
  <2>2. mode[q] = "write" => at = pos[q]
    BY DEF at
  <2>3. PutsRecord(q)
    BY <1>3, <1>8, <1>10, <2>1, <2>2 DEF PutsRecord, b, after
  <2> QED
    BY <2>3
<1> QED
  BY <1>1, <1>9, <1>10

\* The other steps leave the files alone, except that one may create an empty
\* file, and lead to a record only a sadc that found a header.
Quiet(q) ==
  /\ file' = file \/ Makes(q)
  /\ Placed(q)'
  /\ pc[q] # "off" => ofile'[q] = ofile[q]
  /\ pc'[q] \in {"header", "acts"} \cup Recording => Begun(ofile[q]) /\ ofile'[q] = ofile[q]
  /\ pc'[q] \notin {"sethdr", "off"}
  /\ pc[q] = "sethdr" => pc'[q] = "dead" /\ todo'[q] = todo[q]

LEMMA ExitQuiet ==
  ASSUME Exclusive, HInv, NEW q \in Sadc, pc[q] # "off", NEW label \in Over, Exit(q, label),
         pc[q] = "sethdr" => label = "dead"
  PROVE  Quiet(q)
<1>1. TypeOK /\ Placed(q)
  BY OfSadc
<1>2. /\ file' = file /\ pc'[q] = label
      /\ ofile'[q] = ofile[q] /\ todo'[q] = todo[q]
  BY <1>1 DEF TypeOK, Exit, Goto
<1>3. Placed(q)'
  BY <1>1, <1>2 DEF Placed, Over, Recording, Reading
<1> QED
  BY <1>2, <1>3 DEF Quiet, Over, Recording

\* The next three lemmas share these facts: file names, files and the counter stay.
Stays(q) == file' = file /\ ofile'[q] = ofile[q] /\ n'[q] = n[q]

LEMMA RecreateQuiet ==
  ASSUME Exclusive, HInv, NEW q \in Sadc, pc[q] \in Reading, Recreate(q)
  PROVE  Quiet(q)
<1>1. TypeOK /\ Placed(q)
  BY OfSadc
<1>2. pc'[q] = "create" /\ Stays(q)
  BY <1>1 DEF TypeOK, Recreate, Goto, shared, Stays
<1>3. Placed(q)'
  BY <1>1, <1>2 DEF Placed, Over, Recording, Reading, Stays
<1> QED
  BY <1>2, <1>3 DEF Quiet, Recording, Stays, Reading

LEMMA RefuseQuiet ==
  ASSUME Exclusive, HInv, NEW q \in Sadc, pc[q] \in Reading, Refuse(q)
  PROVE  Quiet(q)
BY RecreateQuiet, ExitQuiet DEF Refuse, Over, Reading

\* A step from one check of open_ofile() to the next.
LEMMA CheckQuiet ==
  ASSUME Exclusive, HInv, NEW q \in Sadc, pc[q] \in Reading \cup {"open"},
         pc'[q] \in Reading, mode'[q] = "append", Stays(q),
         pc'[q] \in {"header", "acts"} => Begun(ofile[q])
  PROVE  Quiet(q)
<1>1. TypeOK /\ Placed(q)
  BY OfSadc
<1>2. Placed(q)'
  BY <1>1 DEF Placed, Over, Recording, Reading, Stays
<1> QED
  BY <1>2 DEF Quiet, Recording, Stays, Reading

\* A step of main() or of rw_sa_stat_loop() that does not write.
LEMMA RecordingQuiet ==
  ASSUME Exclusive, HInv, NEW q \in Sadc, pc[q] \in Recording, pc'[q] \in Recording,
         file' = file, ofile'[q] = ofile[q], mode'[q] = mode[q], pos'[q] = pos[q],
         locked[q] => locked'[q],
         pc'[q] = "write" => todo'[q].part \in RecordParts
  PROVE  Quiet(q)
<1>1. TypeOK /\ Placed(q) /\ Begun(ofile[q])
  BY OfSadc DEF HInv
<1>2. Placed(q)'
  BY <1>1 DEF Placed, Over, Recording, Reading
<1> QED
  BY <1>1, <1>2 DEF Quiet, Recording

LEMMA AskLocks ==
  ASSUME TypeOK, NEW q \in Sadc, AskForFlock(q)
  PROVE  locked[q] => locked'[q]
<1>1. \/ locked' = [locked EXCEPT ![q] = TRUE]
      \/ UNCHANGED locked
  BY Zenon DEF AskForFlock
<1> QED
  BY <1>1 DEF TypeOK

\* Every step cuts a file, puts a block into it, or is a quiet one.
LEMMA StepOutcome ==
  ASSUME Exclusive, HInv, NEW q \in Sadc, Start(q) \/ Step(q) \/ Die(q)
  PROVE  Cuts(q) \/ PutsHeader(q) \/ PutsRecord(q) \/ Quiet(q)
<1>0. TypeOK /\ Placed(q) /\ newofile[q] = ofile[q] /\ Args[q].lock /\ ~Args[q].rotat
  BY OfSadc DEF Exclusive
<1>1. CASE Start(q)
  <2>1. pc[q] = "off" /\ file' = file /\ pc'[q] = "open" /\ ofile'[q] = Args[q].outfile /\ n'[q] = n[q]
    BY <1>0, <1>1 DEF TypeOK, Start, Goto, shared
  <2>2. Placed(q)'
    BY <1>0, <2>1 DEF Placed, Recording, Reading, Over
  <2> QED
    BY <2>1, <2>2 DEF Quiet, Recording
<1>2. CASE OpenFile(q)
  <2>1. pc[q] = "open" /\ Stays(q)
    BY <1>2, Zenon DEF OpenFile, shared, Stays
  <2>2. \/ pc' = [pc EXCEPT ![q] = "create"]
        \/ pc' = [pc EXCEPT ![q] = "magic"] /\ mode' = [mode EXCEPT ![q] = "append"]
    BY <1>2, Zenon DEF OpenFile, Goto
  <2>3. CASE pc'[q] = "create"
    <3>1. Placed(q)'
      BY <1>0, <2>1, <2>3 DEF Placed, Recording, Reading, Over, Stays
    <3> QED
      BY <2>1, <2>3, <3>1 DEF Quiet, Recording, Stays
  <2>4. CASE pc'[q] = "magic" /\ mode'[q] = "append"
    BY <2>1, <2>4, CheckQuiet DEF Reading
  <2> QED
    BY <1>0, <2>2, <2>3, <2>4 DEF TypeOK
<1>3. CASE ReadMagic(q)
  <2>0. pc[q] = "magic"
    BY <1>3 DEF ReadMagic
  <2>1. CASE Recreate(q) \/ Refuse(q)
    BY <2>0, <2>1, RecreateQuiet, RefuseQuiet DEF Reading
  <2>2. CASE ~(Recreate(q) \/ Refuse(q))
    <3>1. /\ file[ofile[q]] # << >> /\ file[ofile[q]][1] = OurMagic
          /\ pc' = [pc EXCEPT ![q] = "header"]
          /\ UNCHANGED << file, ofile, mode, n >>
      BY <1>3, <2>2, Zenon DEF ReadMagic, Goto, shared, OurMagic
    <3>2. file[ofile[q]] \notin Bare
      <4>1. OurMagic.part # "none" /\ OurMagic.ours
        BY DEF OurMagic, Magic
      <4>2. NoFile[1].part = "none"
        BY DEF NoFile
      <4>3. ~ << Magic(FALSE) >>[1].ours
        BY DEF Magic
      <4> QED
        BY <3>1, <4>1, <4>2, <4>3 DEF Bare
    <3>3. Begun(ofile[q])
      BY <3>2, OfSadc DEF HInv
    <3> QED
      BY <1>0, <2>0, <3>1, <3>3, CheckQuiet DEF Reading, Stays, TypeOK, Placed
  <2> QED
    BY <2>1, <2>2
<1>4. CASE ReadHeader(q)
  <2>0. pc[q] = "header" /\ Begun(ofile[q])
    BY <1>4 DEF ReadHeader, HInv
  <2>1. CASE Recreate(q) \/ Refuse(q)
    BY <2>0, <2>1, RecreateQuiet, RefuseQuiet DEF Reading
  <2>2. CASE ~(Recreate(q) \/ Refuse(q))
    <3>1. /\ pc' = [pc EXCEPT ![q] = "acts"]
          /\ UNCHANGED << file, ofile, mode, n >>
      BY <1>4, <2>2, Zenon DEF ReadHeader, Goto, shared
    <3> QED
      BY <1>0, <2>0, <3>1, CheckQuiet DEF Reading, Stays, TypeOK, Placed
  <2> QED
    BY <2>1, <2>2
<1>5. CASE ReadActivity(q)
  <2>0. pc[q] = "acts" /\ Begun(ofile[q])
    BY <1>5 DEF ReadActivity, HInv
  <2>1. CASE Exit(q, "done") \/ Refuse(q)
    BY <2>0, <2>1, ExitQuiet, RefuseQuiet DEF Reading, Over
  <2>2. CASE ~(Exit(q, "done") \/ Refuse(q))
    <3>1. UNCHANGED << pc, file, ofile, mode, n >>
      BY <1>5, <2>2, Zenon DEF ReadActivity, shared
    <3> QED
      BY <1>0, <2>0, <3>1, CheckQuiet DEF Reading, Stays, Placed
  <2> QED
    BY <2>1, <2>2
<1>6. CASE AdoptList(q)
  <2>0. pc[q] = "acts" /\ Begun(ofile[q]) /\ n[q] = 0 /\ mode[q] = "append"
    BY <1>0, <1>6 DEF AdoptList, HInv, Placed, Reading, Recording, Over
  <2>1. pc' = [pc EXCEPT ![q] = "main"] /\ UNCHANGED << file, ofile, mode, n >>
    BY <1>6, <2>0 DEF AdoptList, Opened, Goto, shared
  <2>2. Placed(q)'
    BY <1>0, <2>0, <2>1 DEF TypeOK, Placed, Recording, Reading, Over
  <2> QED
    BY <1>0, <2>0, <2>1, <2>2 DEF TypeOK, Quiet, Recording
<1>7. CASE CreateFile(q)
  <2>1. /\ pc[q] = "create" /\ pc'[q] = "lockfile" /\ mode'[q] = "write" /\ pos'[q] = 0
        /\ ofile'[q] = ofile[q] /\ n'[q] = n[q]
    BY <1>0, <1>7 DEF CreateFile, Goto, TypeOK
  <2>2. Placed(q)'
    BY <1>0, <2>1 DEF Placed, Recording, Reading, Over
  <2>3. file' = file \/ Makes(q)
    BY <1>0, <1>7 DEF CreateFile, Makes, TypeOK
  <2> QED
    BY <2>1, <2>2, <2>3 DEF Quiet, Recording
<1>8. CASE LockCreated(q)
  <2>0. pc[q] = "lockfile"
    BY <1>8 DEF LockCreated
  <2>1. CASE Exit(q, "done")
    BY <2>0, <2>1, ExitQuiet DEF Over
  <2>2. CASE ~Exit(q, "done")
    <3>1. pc' = [pc EXCEPT ![q] = "trunc"] /\ UNCHANGED << file, ofile, mode, pos, n >>
      BY <1>8, <2>2, Zenon DEF LockCreated, Goto
    <3>2. Placed(q)'
      BY <1>0, <2>0, <3>1 DEF TypeOK, Placed, Recording, Reading, Over
    <3> QED
      BY <1>0, <2>0, <3>1, <3>2 DEF TypeOK, Quiet, Recording
  <2> QED
    BY <2>1, <2>2
<1>9. CASE Truncate(q)
  BY <1>9, TruncateCuts
<1>10. CASE BeginSpecial(q)
  <2>0. pc[q] = "main"
    BY <1>10 DEF BeginSpecial
  <2>1. CASE Exit(q, "done")
    BY <2>0, <2>1, ExitQuiet DEF Over
  <2>2. CASE ~Exit(q, "done")
    <3>1. /\ todo' = [todo EXCEPT ![q] = Cursor("rec", 0)] /\ pc' = [pc EXCEPT ![q] = "write"]
          /\ UNCHANGED locked \/ AskForFlock(q)
          /\ UNCHANGED << file, ofile, mode, pos >>
      BY <1>10, <2>2, Zenon DEF BeginSpecial, Goto
    <3>2. locked[q] => locked'[q]
      BY <1>0, <3>1, AskLocks
    <3>3. todo'[q].part \in RecordParts
      BY <1>0, <3>1 DEF TypeOK, Cursor, RecordParts
    <3>4. pc'[q] = "write"
      BY <1>0, <3>1 DEF TypeOK
    <3> QED
      BY <2>0, <3>1, <3>2, <3>3, <3>4, RecordingQuiet DEF Recording
  <2> QED
    BY <2>1, <2>2
<1>11. CASE EnterLoop(q)
  <2>1. /\ pc[q] = "main" /\ pc'[q] = "loop"
        /\ UNCHANGED << file, ofile, mode, pos, locked >>
    BY <1>0, <1>11 DEF EnterLoop, Goto, shared, TypeOK
  <2> QED
    BY <2>1, RecordingQuiet DEF Recording
<1>12. CASE Sample(q) \/ SampleAgain(q)
  <2>0. pc[q] = "loop" /\ WriteStats(q)
    BY <1>0, <1>12 DEF Sample, SampleAgain, Placed
  <2>1. UNCHANGED << file, ofile, mode, pos >>
    BY <2>0, Zenon DEF WriteStats
  <2>2. \/ pc' = [pc EXCEPT ![q] = "written"] /\ UNCHANGED locked
        \/ /\ pc' = [pc EXCEPT ![q] = "write"]
           /\ todo' = [todo EXCEPT ![q] = Cursor("rec", 0)]
           /\ UNCHANGED locked \/ AskForFlock(q)
    BY <2>0, Zenon DEF WriteStats, Goto
  <2>3. locked[q] => locked'[q]
    BY <1>0, <2>2, AskLocks
  <2>4. pc'[q] \in {"written", "write"}
    BY <1>0, <2>2 DEF TypeOK
  <2>5. pc'[q] = "write" => todo'[q] = Cursor("rec", 0)
    BY <1>0, <2>2 DEF TypeOK
  <2>6. Cursor("rec", 0).part \in RecordParts
    BY DEF Cursor, RecordParts
  <2> QED
    BY <2>0, <2>1, <2>3, <2>4, <2>5, <2>6, RecordingQuiet DEF Recording
<1>13. CASE WriteBlock(q)
  BY <1>13, WriteBlockPuts
<1>14. CASE Rotate(q)
  BY <1>0, <1>14 DEF Rotate
<1>15. CASE EndIteration(q)
  <2>0. pc[q] = "written"
    BY <1>15 DEF EndIteration
  <2>1. CASE Exit(q, "done")
    BY <2>0, <2>1, ExitQuiet DEF Over
  <2>2. CASE ~Exit(q, "done")
    <3>1. pc' = [pc EXCEPT ![q] = "pause"] /\ UNCHANGED << file, ofile, mode, pos, locked >>
      BY <1>15, <2>2, Zenon DEF EndIteration, Goto, shared
    <3>2. pc'[q] = "pause"
      BY <1>0, <3>1 DEF TypeOK
    <3> QED
      BY <2>0, <3>1, <3>2, RecordingQuiet DEF Recording
  <2> QED
    BY <2>1, <2>2
<1>16. CASE Wake(q)
  <2>1. /\ pc[q] = "pause" /\ pc'[q] = "loop"
        /\ UNCHANGED << file, ofile, mode, pos, locked >>
    BY <1>0, <1>16 DEF Wake, Goto, shared, TypeOK
  <2> QED
    BY <2>1, RecordingQuiet DEF Recording
<1>17. CASE EndSpecial(q) \/ Die(q)
  BY <1>17, ExitQuiet DEF EndSpecial, Die, Over
<1> QED
  BY <1>1, <1>2, <1>3, <1>4, <1>5, <1>6, <1>7, <1>8, <1>9, <1>10, <1>11, <1>12, <1>13,
     <1>14, <1>15, <1>16, <1>17 DEF Step

-----------------------------------------------------------------------------
(* HInv is inductive.                                                       *)

\* A block put into a header makes it longer by the next place.
LEMMA HeadsLonger ==
  ASSUME NEW list, NEW s \in Seq(Blocks), NEW k \in Nat, Heads(s, list, k)
  PROVE  Heads(Append(s, HeaderBlock(k + 1, list)), list, k + 1)
<1> DEFINE t == Append(s, HeaderBlock(k + 1, list))
<1>1. Len(s) = k /\ \A i \in 1..k : s[i] = HeaderBlock(i, list)
  BY DEF Heads
<1>2. Len(t) = k + 1 /\ t[k + 1] = HeaderBlock(k + 1, list) /\ \A i \in 1..k : t[i] = s[i]
  BY <1>1
<1> HIDE DEF t
<1>3. \A i \in 1..(k + 1) : t[i] = HeaderBlock(i, list)
  <2> SUFFICES ASSUME NEW i \in 1..(k + 1) PROVE t[i] = HeaderBlock(i, list)
    OBVIOUS
  <2>1. CASE i = k + 1
    BY <1>2, <2>1
  <2>2. CASE i # k + 1
    BY <1>1, <1>2, <2>2
  <2> QED
    BY <2>1, <2>2
<1> QED
  BY <1>2, <1>3 DEF Heads, t

\* What is put is a block, at the end of a file that q has the lock of.
LEMMA PutBlock ==
  ASSUME Exclusive, HInv, NEW q \in Sadc
  PROVE  /\ PutsHeader(q) =>
              /\ HeaderBlock(pos[q] + 1, idseq[q]) \in Blocks
              /\ HeaderBlock(pos[q] + 1, idseq[q]).part \in HeaderParts
              /\ Heads(file[ofile[q]], idseq[q], pos[q])
              /\ pos[q] + 1 \in 1..(Len(idseq[q]) + 2)
         /\ PutsRecord(q) =>
              LET b == BlockOf(q, n[q], todo[q], idseq[q]) IN
              /\ b \in Blocks
              /\ b = RecordBlock(todo[q].part, q, n[q], todo[q].at,
                       IF todo[q].part \in {"nr", "data"} THEN idseq[q][todo[q].at] ELSE 0)
              /\ b.part \in RecordParts /\ todo[q].part \in RecordParts
<1>0. /\ TypeOK /\ Placed(q) /\ file[ofile[q]] \in Seq(Blocks) /\ idseq[q] \in Seq(Activity)
      /\ pos[q] \in Nat /\ n[q] \in Nat /\ todo[q] \in Cursors /\ Len(idseq[q]) \in Nat
  BY OfSadc
<1>1. pc[q] \in {"sethdr", "write"} => todo[q].part # "end" /\ InList(todo[q], idseq[q])
  BY DEF HInv, Typed, CursorInList
<1>2. ASSUME PutsHeader(q)
      PROVE  /\ HeaderBlock(pos[q] + 1, idseq[q]) \in Blocks
             /\ HeaderBlock(pos[q] + 1, idseq[q]).part \in HeaderParts
             /\ Heads(file[ofile[q]], idseq[q], pos[q])
             /\ pos[q] + 1 \in 1..(Len(idseq[q]) + 2)
  <2>1. /\ pc[q] = "sethdr" /\ Heads(file[ofile[q]], idseq[q], pos[q])
        /\ pos[q] < Len(idseq[q]) + 2 /\ todo[q] = HeaderCursor(pos[q] + 1)
    BY <1>0, <1>2 DEF PutsHeader, Placed
  <2> DEFINE k == pos[q] + 1
             list == idseq[q]
  <2>2. k \in 1..(Len(list) + 2) /\ list \in Seq(Activity)
    BY <1>0, <2>1
  <2>3. InList(HeaderCursor(k), list) /\ HeaderCursor(k).part # "end" /\ HeaderCursor(k) \in Cursors
    BY <1>0, <1>1, <2>1
  <2> HIDE DEF k, list
  <2>4. BlockOf(q, 0, HeaderCursor(k), list) = HeaderBlock(k, list)
        /\ HeaderBlock(k, list).part \in HeaderParts
    BY <2>2, HeaderStep
  <2>5. BlockOf(q, 0, HeaderCursor(k), list) \in Blocks
    BY <2>2, <2>3, BlockOfType
  <2> QED
    BY <2>1, <2>2, <2>4, <2>5 DEF k, list
<1>3. ASSUME PutsRecord(q)
      PROVE  LET b == BlockOf(q, n[q], todo[q], idseq[q]) IN
             /\ b \in Blocks
             /\ b = RecordBlock(todo[q].part, q, n[q], todo[q].at,
                      IF todo[q].part \in {"nr", "data"} THEN idseq[q][todo[q].at] ELSE 0)
             /\ b.part \in RecordParts /\ todo[q].part \in RecordParts
  <2> DEFINE b == BlockOf(q, n[q], todo[q], idseq[q])
  <2>1. pc[q] = "write" /\ todo[q].part \in RecordParts
    BY <1>0, <1>3 DEF PutsRecord, Placed
  <2>2. b \in Blocks
    BY <1>0, <1>1, <2>1, BlockOfType
  <2>3. b = RecordBlock(todo[q].part, q, n[q], todo[q].at,
              IF todo[q].part \in {"nr", "data"} THEN idseq[q][todo[q].at] ELSE 0)
    <3>1. todo[q].part \notin {"magic", "header", "act"}
      BY <2>1 DEF RecordParts
    <3> QED
      BY <3>1 DEF BlockOf
  <2>4. b.part = todo[q].part
    BY <2>3 DEF RecordBlock
  <2> HIDE DEF b
  <2> QED
    BY <2>1, <2>2, <2>3, <2>4 DEF b
<1> QED
  BY <1>2, <1>3

\* A sadc keeps the name of its output file.
LEMMA FileNameKept ==
  ASSUME Exclusive, HInv, NEW q \in Sadc, Start(q) \/ Step(q) \/ Die(q)
  PROVE  pc[q] # "off" => ofile'[q] = ofile[q]
BY OfSadc DEF Start, Step, Die, Exit, OpenFile, ReadMagic, ReadHeader, ReadActivity, AdoptList,
     CreateFile, LockCreated, Truncate, BeginSpecial, EndSpecial, EnterLoop, Sample, SampleAgain,
     WriteStats, WriteBlock, Rotate, EndIteration, Wake, Recreate, Refuse

\* A file that was begun stays so: it is truncated by a sadc that writes its header
\* at once, or dies.
LEMMA BegunKept ==
  ASSUME Exclusive, HInv, NEW q \in Sadc, Start(q) \/ Step(q) \/ Die(q), NEW d \in Day, Begun(d)
  PROVE  Begun(d)'
<1>0. TypeOK /\ ofile[q] \in Day /\ file[d] \in Seq(Blocks)
  BY OfSadc DEF TypeOK
<1>1. Apart(q) /\ (Cuts(q) \/ PutsHeader(q) \/ PutsRecord(q) \/ Quiet(q))
  BY <1>0, StepApart, StepOutcome
<1>2. pc[q] # "off" => ofile'[q] = ofile[q]
  BY <1>0, FileNameKept
<1>3. CASE Aborted(d)
  <2>1. PICK p \in Sadc : pc[p] = "dead" /\ ofile[p] = d /\ todo[p].part \in HeaderParts
    BY <1>3 DEF Aborted
  <2>2. pc[q] # "dead"
    BY DEF Start, Step, Die, OpenFile, ReadMagic, ReadHeader, ReadActivity,
         AdoptList, CreateFile, LockCreated, Truncate, BeginSpecial, EndSpecial, EnterLoop, Sample,
         SampleAgain, WriteStats, WriteBlock, Rotate, EndIteration, Wake, Over
  <2>3. pc'[p] = "dead" /\ ofile'[p] = d /\ todo'[p] = todo[p]
    BY <1>1, <2>1, <2>2 DEF Apart
  <2> QED
    BY <2>1, <2>3 DEF Begun, Aborted
<1>4. CASE InCreation(d)
  <2>1. PICK p \in Sadc : pc[p] = "sethdr" /\ ofile[p] = d
    BY <1>4 DEF InCreation
  <2>2. CASE p # q
    <3>1. pc'[p] = "sethdr" /\ ofile'[p] = d
      BY <1>1, <2>1, <2>2 DEF Apart
    <3> QED
      BY <3>1 DEF Begun, InCreation
  <2>3. CASE p = q /\ PutsHeader(q)
    <3> DEFINE b == HeaderBlock(pos[q] + 1, idseq[q])
               s == file[d]
    <3>1. /\ b \in Blocks /\ Heads(s, idseq[q], pos[q]) /\ pos[q] \in Nat /\ idseq[q] \in Seq(Activity)
      BY <2>1, <2>3, PutBlock, OfSadc
    <3>2. Heads(Append(s, b), idseq[q], pos[q] + 1) /\ Append(s, b) \in Seq(Blocks)
      BY <1>0, <3>1, HeadsLonger
    <3>3. file'[d] = Append(s, b)
      BY <1>0, <2>1, <2>3 DEF PutsHeader, TypeOK
    <3>4. \/ pc'[q] = "sethdr"
          \/ pos[q] + 1 = Len(idseq[q]) + 2
      BY <2>3 DEF PutsHeader
    <3> DEFINE k == pos[q] + 1
               t == Append(s, b)
    <3>5. k \in Nat
      BY <3>1
    <3> HIDE DEF k, t
    <3>6. Heads(t, idseq[q], k) /\ t \in Seq(Blocks)
      BY <3>2 DEF k, t
    <3>7. k = Len(idseq[q]) + 2 => HeaderDone(t)
      BY <3>1, <3>5, <3>6, HeadsDone
    <3> QED
      BY <1>2, <2>1, <2>3, <3>3, <3>4, <3>7 DEF Begun, InCreation, k, t
  <2>4. CASE p = q /\ ~PutsHeader(q)
    <3>1. pc'[q] = "dead" /\ todo'[q] = todo[q] /\ ofile'[q] = d
      BY <1>1, <1>2, <2>1, <2>4 DEF Cuts, PutsRecord, Quiet
    <3>2. todo[q].part \in HeaderParts
      <4>1. /\ todo[q] = HeaderCursor(pos[q] + 1) /\ pos[q] < Len(idseq[q]) + 2
            /\ pos[q] \in Nat /\ idseq[q] \in Seq(Activity)
        BY <2>1, <2>4, OfSadc DEF Placed
      <4>2. pos[q] + 1 \in Nat \ {0}
        BY <4>1
      <4>3. \A k \in Nat \ {0} : HeaderCursor(k).part \in HeaderParts
        BY DEF HeaderCursor, Cursor, HeaderParts
      <4> QED
        BY <4>1, <4>2, <4>3
    <3> QED
      BY <3>1, <3>2 DEF Begun, Aborted
  <2> QED
    BY <2>2, <2>3, <2>4
<1>5. CASE HeaderDone(file[d])
  <2>1. CASE file'[d] = file[d]
    BY <1>5, <2>1 DEF Begun
  <2>2. CASE d = ofile[q] /\ Cuts(q)
    BY <1>2, <2>2 DEF Cuts, Begun, InCreation
  <2>3. CASE d = ofile[q] /\ PutsHeader(q)
    <3>1. file'[d] = Append(file[d], HeaderBlock(pos[q] + 1, idseq[q]))
      BY <1>0, <2>3 DEF PutsHeader, TypeOK
    <3> QED
      BY <1>0, <1>5, <2>3, <3>1, PutBlock, HeaderKept DEF Begun
  <2>4. CASE d = ofile[q] /\ PutsRecord(q)
    <3>1. file'[d] = Append(file[d], BlockOf(q, n[q], todo[q], idseq[q]))
      BY <1>0, <2>4 DEF PutsRecord, TypeOK
    <3> QED
      BY <1>0, <1>5, <2>4, <3>1, PutBlock, HeaderKept DEF Begun
  <2>5. CASE d = ofile[q] /\ Makes(q)
    <3>1. Len(NoFile) = 1
      BY DEF NoFile
    <3> QED
      BY <1>5, <2>5, <3>1 DEF Makes, HeaderDone
  <2> QED
    BY <1>0, <1>1, <2>1, <2>2, <2>3, <2>4, <2>5 DEF Cuts, PutsHeader, PutsRecord, Quiet, Makes, TypeOK
<1> QED
  BY <1>3, <1>4, <1>5 DEF Begun

\* The own place of a sadc that truncates its file or puts a block into it.
LEMMA PlacedOwn ==
  ASSUME Exclusive, HInv, NEW q \in Sadc, Cuts(q) \/ PutsHeader(q) \/ PutsRecord(q), ofile'[q] = ofile[q]
  PROVE  Placed(q)'
<1> DEFINE s == file[ofile[q]]
<1>0. /\ TypeOK /\ ofile[q] \in Day /\ s \in Seq(Blocks) /\ idseq[q] \in Seq(Activity)
      /\ pos[q] \in Nat /\ Len(idseq[q]) \in Nat /\ Placed(q) /\ todo[q] \in Cursors
  BY OfSadc
<1>1. CASE Cuts(q)
  <2>1. file'[ofile'[q]] = << >>
    BY <1>0, <1>1 DEF Cuts, TypeOK
  <2>2. Heads(<< >>, idseq[q], 0)
    BY DEF Heads
  <2>3. ofile[q] = Args[q].outfile /\ n[q] = 0
    BY <1>0, <1>1 DEF Placed, Cuts, Recording, Over
  <2> QED
    BY <1>0, <1>1, <2>1, <2>2, <2>3 DEF Cuts, Placed, Recording, Over, Reading
<1>2. CASE PutsHeader(q)
  <2> DEFINE b == HeaderBlock(pos[q] + 1, idseq[q])
             t == Append(s, b)
             k == pos[q] + 1
  <2>1. b \in Blocks /\ Heads(s, idseq[q], pos[q]) /\ k \in Nat
    BY <1>0, <1>2, PutBlock
  <2>2. Heads(t, idseq[q], k) /\ t \in Seq(Blocks)
    BY <1>0, <2>1, HeadsLonger
  <2>3. file'[ofile'[q]] = t
    BY <1>0, <1>2 DEF PutsHeader, TypeOK
  <2>4. ofile[q] = Args[q].outfile /\ n[q] = 0
    BY <1>0, <1>2 DEF Placed, PutsHeader, Recording, Over
  <2>5. locked[q]
    BY <1>0, <1>2, OfSadc DEF PutsHeader, FlagIsLock, Changing
  <2>6. /\ pc[q] = "sethdr" /\ pos'[q] = k /\ mode'[q] = "write" /\ n'[q] = n[q]
        /\ idseq'[q] = idseq[q] /\ locked'[q] = locked[q]
        /\ \/ k < Len(idseq[q]) + 2 /\ pc'[q] = "sethdr" /\ todo'[q] = HeaderCursor(k + 1)
           \/ k = Len(idseq[q]) + 2 /\ pc'[q] = "main"
    BY <1>2 DEF PutsHeader
  <2> HIDE DEF t, k, b, s
  <2>7. k = Len(idseq[q]) + 2 => HeaderDone(t)
    BY <1>0, <2>1, <2>2, HeadsDone
  <2>8. Len(t) = k
    BY <2>2 DEF Heads
  <2>9. CASE pc'[q] = "sethdr"
    BY <2>2, <2>3, <2>4, <2>6, <2>9 DEF Placed, Recording, Over, Reading
  <2>10. CASE pc'[q] = "main"
    BY <2>3, <2>4, <2>5, <2>6, <2>7, <2>8, <2>10 DEF Placed, Recording, Over, Reading
  <2> QED
    BY <2>6, <2>9, <2>10
<1>3. CASE PutsRecord(q)
  <2> DEFINE b == BlockOf(q, n[q], todo[q], idseq[q])
             t == Append(s, b)
  <2>1. b \in Blocks
    BY <1>3, PutBlock
  <2>2. file'[ofile'[q]] = t
    BY <1>0, <1>3 DEF PutsRecord, TypeOK
  <2>3. HeaderDone(s) => HeaderDone(t)
    BY <1>0, <2>1, HeaderKept
  <2>4. Len(t) = Len(s) + 1
    BY <1>0
  <2>5. pc'[q] = "write" => todo'[q].part \in RecordParts
    <3>1. todo'[q] = After(Args[q].run, todo[q], idseq[q]) /\ todo[q].part \in RecordParts
      BY <1>3, PutBlock DEF PutsRecord
    <3>2. \A i : Items(idseq[q], i).part \in {"nr", "data", "end"}
      BY DEF Items, Cursor, End
    <3>3. todo'[q].part \in RecordParts \cup {"end"}
      BY <3>1, <3>2 DEF After, RecordParts, Cursor, End
    <3>4. pc'[q] = "write" => todo'[q].part # "end"
      <4>1. InList(todo[q], idseq[q])
        BY <1>3 DEF PutsRecord, HInv, Typed, CursorInList
      <4>2. todo'[q].part = "end" => todo'[q] = End
        BY <1>0, <3>1, <4>1, AfterType
      <4> QED
        BY <1>3, <4>2 DEF PutsRecord
    <3> QED
      BY <3>3, <3>4
  <2>6. /\ pc[q] = "write" /\ ofile[q] = Args[q].outfile
        /\ \/ mode[q] = "append"
           \/ mode[q] = "write" /\ locked[q] /\ pos[q] = Len(s) /\ HeaderDone(s)
    BY <1>0, <1>3 DEF PutsRecord, Placed, Recording
  <2>7. /\ pc'[q] \in {"write", "written", "special"} /\ mode'[q] = mode[q] /\ locked'[q] = locked[q]
        /\ mode[q] = "write" => pos'[q] = pos[q] + 1
    BY <1>3 DEF PutsRecord
  <2> HIDE DEF s, b, t
  <2> QED
    BY <2>2, <2>3, <2>4, <2>5, <2>6, <2>7 DEF Placed, Recording, Over, Reading
<1> QED
  BY <1>1, <1>2, <1>3

\* A step of q does not displace another sadc: it changes the file of p only when p
\* does not hold its lock.
LEMMA PlacedOther ==
  ASSUME Exclusive, HInv, NEW q \in Sadc, NEW p \in Sadc \ {q}, Apart(q),
         Cuts(q) \/ PutsHeader(q) \/ PutsRecord(q) \/ Quiet(q)
  PROVE  Placed(p)'
<1> DEFINE s == file[ofile[p]]
<1>0. TypeOK /\ Placed(p) /\ ofile[p] \in Day /\ idseq[p] \in Seq(Activity) /\ pos[p] \in Nat
  BY OfSadc
<1>1. /\ pc'[p] = pc[p] /\ ofile'[p] = ofile[p] /\ mode'[p] = mode[p] /\ pos'[p] = pos[p]
      /\ locked'[p] = locked[p] /\ idseq'[p] = idseq[p] /\ n'[p] = n[p] /\ todo'[p] = todo[p]
  BY DEF Apart
<1>2. CASE file'[ofile[p]] = s
  BY <1>0, <1>1, <1>2 DEF Placed
<1>3. CASE file'[ofile[p]] # s
  <2>1. ofile[q] = ofile[p] /\ (lock[ofile[q]] = q \/ Makes(q))
    BY <1>0, <1>3 DEF Cuts, PutsHeader, PutsRecord, Quiet, Makes, TypeOK
  <2>2. pc[p] # "sethdr" /\ (pc[p] \in Recording => mode[p] = "append")
    <3>1. CASE lock[ofile[q]] = q
      <4>1. pc[p] \notin Changing /\ (locked[p] => pc[p] \in Over)
        BY <2>1, <3>1, OfSadc
      <4> QED
        BY <1>0, <4>1 DEF Changing, Over, Recording, Placed
    <3>2. CASE Makes(q)
      <4>1. s = NoFile
        BY <2>1, <3>2 DEF Makes
      <4>2. Len(NoFile) = 1 /\ NoFile[1].part = "none"
        BY DEF NoFile
      <4>3. ~HeaderDone(s)
        BY <4>1, <4>2 DEF HeaderDone
      <4>4. ~Heads(s, idseq[p], pos[p])
        <5>1. HeaderBlock(1, idseq[p]).part = "magic"
          BY HeaderParted DEF HeaderBlock
        <5> QED
          BY <1>0, <4>1, <4>2, <5>1 DEF Heads
      <4> QED
        BY <1>0, <4>3, <4>4 DEF Placed, Recording
    <3> QED
      BY <2>1, <3>1, <3>2
  <2> QED
    BY <1>0, <1>1, <2>2 DEF Placed
<1> QED
  BY <1>2, <1>3

\* The blocks that follow a complete header belong to records.
LEMMA RecordsFollowKept ==
  ASSUME Exclusive, HInv, NEW q \in Sadc,
         Cuts(q) \/ PutsHeader(q) \/ PutsRecord(q) \/ Quiet(q), NEW d \in Day
  PROVE  RecordsFollow(file'[d])
<1> DEFINE s == file[d]
<1>0. TypeOK /\ s \in Seq(Blocks) /\ RecordsFollow(s) /\ ofile[q] \in Day
  BY OfSadc DEF HInv, TypeOK
<1>1. CASE file'[d] = s
  BY <1>0, <1>1
<1>2. CASE file'[d] = << >>
  BY <1>2 DEF RecordsFollow, HeaderDone
<1>3. CASE d = ofile[q] /\ PutsHeader(q)
  <2> DEFINE k == pos[q] + 1
             t == Append(s, HeaderBlock(k, idseq[q]))
  <2>1. /\ HeaderBlock(k, idseq[q]) \in Blocks /\ Heads(s, idseq[q], pos[q])
        /\ k \in 1..(Len(idseq[q]) + 2) /\ pos[q] \in Nat /\ idseq[q] \in Seq(Activity)
    BY <1>3, PutBlock, OfSadc
  <2>2. Heads(t, idseq[q], k) /\ t \in Seq(Blocks) /\ k \in Nat
    BY <1>0, <2>1, HeadsLonger
  <2>3. file'[d] = t
    BY <1>0, <1>3 DEF PutsHeader, TypeOK
  <2> HIDE DEF k, t
  <2>4. Len(t) = k
    BY <2>2 DEF Heads
  <2>5. k <= Len(idseq[q]) + 2
    BY <2>1
  <2>6. HeaderDone(t) => FirstRecord(t) = k + 1
    BY <2>1, <2>2, <2>5, HeadsDone
  <2> QED
    BY <2>2, <2>3, <2>4, <2>6 DEF RecordsFollow
<1>4. CASE d = ofile[q] /\ PutsRecord(q)
  <2> DEFINE b == BlockOf(q, n[q], todo[q], idseq[q])
             t == Append(s, b)
  <2>1. b \in Blocks /\ b.part \in RecordParts
    BY <1>4, PutBlock
  <2>2. file'[d] = t
    BY <1>0, <1>4 DEF PutsRecord, TypeOK
  <2>3. HeaderDone(t) => HeaderDone(s) /\ FirstRecord(t) = FirstRecord(s)
    BY <1>0, <2>1, HeaderKept
  <2>4. /\ Len(t) = Len(s) + 1 /\ Len(s) \in Nat /\ t[Len(s) + 1] = b
        /\ \A i \in 1..Len(s) : t[i] = s[i]
    BY <1>0, <2>1
  <2>5. HeaderDone(s) => FirstRecord(s) \in Nat \ {0}
    BY <1>0, HeaderType DEF HeaderDone, FirstRecord, HeaderBlocks
  <2> HIDE DEF b, t
  <2>6. HeaderDone(t) => \A i \in FirstRecord(t)..Len(t) : i \in 1..Len(s) \/ i = Len(s) + 1
    BY <2>3, <2>4, <2>5
  <2> QED
    BY <1>0, <2>1, <2>2, <2>3, <2>4, <2>5, <2>6 DEF RecordsFollow
<1> QED
  BY <1>0, <1>1, <1>2, <1>3, <1>4 DEF Cuts, PutsHeader, PutsRecord, Quiet, Makes, TypeOK

LEMMA BareShort == \A s \in Bare : Len(s) \in {0, 1}
<1> DEFINE none == [part |-> "none"]
           theirs == Magic(FALSE)
<1>1. Bare = {<< none >>, << >>, << theirs >>}
  BY Zenon DEF Bare, NoFile
<1> HIDE DEF none, theirs
<1>2. \A s \in {<< none >>, << >>, << theirs >>} : Len(s) \in {0, 1}
  OBVIOUS
<1> QED
  BY <1>1, <1>2

LEMMA FormerFiles ==
  /\ Former("none") = NoFile
  /\ Former("empty") = << >>
  /\ Former("junk") = << Magic(FALSE) >>
  /\ Former("foreign") = << OurMagic, Header(1, FALSE, FALSE), ActBlock(1, TRUE) >>
  /\ Former("unknown_act") = << OurMagic, Header(1, FALSE, TRUE), ActBlock(1, FALSE) >>
  /\ Former("past") = << OurMagic, Header(1, TRUE, TRUE), ActBlock(1, TRUE) >>
  /\ Former("current") = << OurMagic, Header(1, FALSE, TRUE), ActBlock(1, TRUE) >>
<1>1. Former("none") = NoFile
  BY Zenon DEF Former
<1>2. Former("empty") = << >>
  BY Zenon DEF Former
<1>3. Former("junk") = << Magic(FALSE) >>
  BY Zenon DEF Former
<1>4. Former("foreign") = << OurMagic, Header(1, FALSE, FALSE), ActBlock(1, TRUE) >>
  BY Zenon DEF Former, OurMagic
<1>5. Former("unknown_act") = << OurMagic, Header(1, FALSE, TRUE), ActBlock(1, FALSE) >>
  BY Zenon DEF Former, OurMagic
<1>6. Former("past") = << OurMagic, Header(1, TRUE, TRUE), ActBlock(1, TRUE) >>
  BY Zenon DEF Former, OurMagic
<1>7. Former("current") = << OurMagic, Header(1, FALSE, TRUE), ActBlock(1, TRUE) >>
  BY Zenon DEF Former, OurMagic
<1> QED
  BY <1>1, <1>2, <1>3, <1>4, <1>5, <1>6, <1>7, Zenon

LEMMA InitHeaders == Init => HInv
<1> SUFFICES ASSUME Init PROVE HInv
  OBVIOUS
<1>1. Typed /\ FlagsAreLocks
  BY InitTyped, InitFlags
<1>2. \A p \in Sadc : Placed(p) /\ pc[p] = "off"
  BY DEF Init, Placed, Reading, Recording, Over
<1>3. ASSUME NEW d \in Day
      PROVE  (file[d] \in Bare \/ HeaderDone(file[d])) /\ RecordsFollow(file[d])
  <2>1. file[d] = Former(InitFile[d]) /\ InitFile[d] \in FileKinds
    BY SadcFileAssumption DEF Init
  <2>2. \/ file[d] \in Bare
        \/ file[d] = << OurMagic, Header(1, FALSE, FALSE), ActBlock(1, TRUE) >>
        \/ file[d] = << OurMagic, Header(1, FALSE, TRUE), ActBlock(1, FALSE) >>
        \/ file[d] = << OurMagic, Header(1, TRUE, TRUE), ActBlock(1, TRUE) >>
        \/ file[d] = << OurMagic, Header(1, FALSE, TRUE), ActBlock(1, TRUE) >>
    BY <2>1, FormerFiles, Zenon DEF FileKinds, Bare
  <2>3. CASE file[d] \in Bare
    BY <2>3, BareShort, Complete DEF RecordsFollow
  <2>4. ASSUME NEW b, NEW c, NEW e, file[d] = << OurMagic, Header(1, b, c), ActBlock(1, e) >>
        PROVE  HeaderDone(file[d]) /\ RecordsFollow(file[d])
    <3>1. /\ Len(file[d]) = 3 /\ file[d][1] = OurMagic
          /\ file[d][2] = Header(1, b, c) /\ file[d][3] = ActBlock(1, e)
      BY <2>4
    <3>2. file[d][2].part = "header" /\ file[d][2].nact = 1
      BY <3>1 DEF Header
    <3>3. file[d][3].part = "act"
      BY <3>1 DEF ActBlock
    <3> QED
      BY <3>1, <3>2, <3>3, Complete DEF RecordsFollow, FirstRecord
  <2> QED
    BY <2>2, <2>3, <2>4, Zenon
<1> QED
  BY <1>1, <1>2, <1>3 DEF HInv, Begun, Recording

LEMMA NextHeaders == Exclusive /\ HInv /\ [Next]_vars => HInv'
<1> SUFFICES ASSUME Exclusive, HInv, [Next]_vars PROVE HInv'
  OBVIOUS
<1>0. TypeOK /\ Typed' /\ FlagsAreLocks'
  BY NextTyped, NextFlags DEF HInv, Typed
<1>1. ASSUME NEW q \in Sadc, Start(q) \/ Step(q) \/ Die(q) PROVE HInv'
  <2>1. Apart(q) /\ (Cuts(q) \/ PutsHeader(q) \/ PutsRecord(q) \/ Quiet(q))
    BY <1>0, <1>1, StepApart, StepOutcome
  <2>2. \A d \in Day : Begun(d) => Begun(d)'
    BY <1>1, BegunKept
  <2>3. pc[q] # "off" => ofile'[q] = ofile[q]
    BY <1>0, <1>1, FileNameKept
  <2>4. \A p \in Sadc : Placed(p)'
    <3>1. \A p \in Sadc \ {q} : Placed(p)'
      BY <2>1, PlacedOther
    <3>2. Placed(q)'
      BY <2>1, <2>3, PlacedOwn DEF Quiet, Cuts, PutsHeader, PutsRecord
    <3> QED
      BY <3>1, <3>2
  <2>5. \A d \in Day : file'[d] \in Bare \/ Begun(d)'
    <3> SUFFICES ASSUME NEW d \in Day PROVE file'[d] \in Bare \/ Begun(d)'
      OBVIOUS
    <3>1. file[d] \in Bare \/ Begun(d)
      BY DEF HInv
    <3>2. file'[d] = file[d] \/ file'[d] = << >> \/ Begun(d)
      <4>1. PutsHeader(q) => Begun(ofile[q])
        BY DEF PutsHeader, Begun, InCreation
      <4>2. PutsRecord(q) => Begun(ofile[q])
        BY DEF PutsRecord, HInv, Recording
      <4> QED
        BY <1>0, <2>1, <4>1, <4>2 DEF Cuts, PutsHeader, PutsRecord, Quiet, Makes, TypeOK
    <3> QED
      BY <2>2, <3>1, <3>2 DEF Bare
  <2>6. \A p \in Sadc : pc'[p] \in {"header", "acts"} \cup Recording => Begun(ofile[p]) /\ ofile'[p] = ofile[p]
    <3>1. \A p \in Sadc \ {q} : pc'[p] \in {"header", "acts"} \cup Recording => Begun(ofile[p]) /\ ofile'[p] = ofile[p]
      BY <2>1 DEF Apart, HInv
    <3>2. CASE pc'[q] \in {"header", "acts"} \cup Recording
      <4>1. Quiet(q) => Begun(ofile[q])
        BY <3>2 DEF Quiet
      <4>2. PutsHeader(q) => Begun(ofile[q])
        BY DEF PutsHeader, Begun, InCreation
      <4>3. PutsRecord(q) => Begun(ofile[q])
        BY DEF PutsRecord, HInv, Recording
      <4>4. ~Cuts(q)
        BY <3>2 DEF Cuts, Recording
      <4>5. ofile'[q] = ofile[q]
        BY <2>1, <2>3, <3>2 DEF Quiet, PutsHeader, PutsRecord, Cuts
      <4> QED
        BY <2>1, <3>1, <4>1, <4>2, <4>3, <4>4, <4>5
    <3> QED
      BY <3>1, <3>2
  <2>7. \A p \in Sadc : ofile[p] \in Day
    BY <1>0 DEF TypeOK
  <2>8. \A d \in Day : RecordsFollow(file'[d])
    BY <2>1, RecordsFollowKept
  <2>9. \A p \in Sadc : pc'[p] \in {"header", "acts"} \cup Recording => Begun(ofile[p])'
    <3> SUFFICES ASSUME NEW p \in Sadc, pc'[p] \in {"header", "acts"} \cup Recording
                 PROVE  Begun(ofile[p])'
      OBVIOUS
    <3>1. PICK d \in Day : d = ofile[p] /\ d = ofile'[p]
      BY <2>6, <2>7
    <3>2. Begun(d)'
      BY <2>2, <2>6, <3>1
    <3> QED
      BY <3>1, <3>2 DEF Begun, Aborted, InCreation
  <2> QED
    BY <1>0, <2>4, <2>5, <2>8, <2>9 DEF HInv
<1>2. CASE Midnight \/ UNCHANGED vars
  <2>1. UNCHANGED << file, lock, pc, ofile, newofile, mode, pos, locked, filehdr, seen, idseq, n, todo >>
    BY <1>2 DEF Midnight, vars
  <2> QED
    BY <1>0, <2>1 DEF HInv, Placed, Begun, Aborted, InCreation
<1> QED
  BY <1>1, <1>2 DEF Next

\* A record found in a file without its header: a sadc was killed while it created
\* that file.
LEMMA HeaderFirst == HInv => NoRecordBeforeHeader
<1> SUFFICES ASSUME HInv, NEW d \in Day, NEW i \in DOMAIN file[d],
                    file[d][i].part \in RecordParts, ~HeaderDone(file[d])
             PROVE  Aborted(d)
  BY DEF NoRecordBeforeHeader, Aborted, HeaderParts
<1>0. TypeOK /\ file[d] \in Seq(Blocks) /\ i \in 1..Len(file[d])
  BY DEF HInv, Typed, TypeOK
<1>1. file[d] \notin Bare
  <2>1. NoFile[1].part = "none" /\ Len(NoFile) = 1
    BY DEF NoFile
  <2> DEFINE theirs == Magic(FALSE)
  <2>2. theirs.part = "magic"
    BY DEF Magic
  <2> HIDE DEF theirs
  <2>3. Bare = {NoFile, << >>, << theirs >>}
    BY Zenon DEF Bare, theirs
  <2> QED
    BY <1>0, <2>1, <2>2, <2>3 DEF RecordParts
<1>2. CASE Aborted(d)
  BY <1>2
<1>3. CASE InCreation(d)
  <2>1. PICK p \in Sadc : pc[p] = "sethdr" /\ ofile[p] = d
    BY <1>3 DEF InCreation
  <2>2. Heads(file[d], idseq[p], pos[p]) /\ pos[p] \in Nat /\ idseq[p] \in Seq(Activity)
    BY <1>0, <2>1 DEF HInv, Placed, TypeOK
  <2>3. \A j \in 1..pos[p] : file[d][j].part \in HeaderParts
    BY <1>0, <2>2, HeadsDone
  <2>4. Len(file[d]) = pos[p]
    BY <2>2 DEF Heads
  <2> QED
    BY <1>0, <2>3, <2>4 DEF HeaderParts, RecordParts
<1> QED
  BY <1>1, <1>2, <1>3 DEF HInv, Begun

\* A sadc -L that passed the checks of open_ofile() does not append to a file
\* truncated since, unless the one that truncated it was killed, whatever the number
\* of processes and of files, and whatever was there before.
THEOREM NoRecordBeforeHeaderCorrect == Exclusive => (Spec => []NoRecordBeforeHeader)
<1> SUFFICES ASSUME Exclusive PROVE Spec => []NoRecordBeforeHeader
  OBVIOUS
<1>1. HInv /\ [Next]_vars => HInv'
  BY NextHeaders
<1> QED
  BY <1>1, InitHeaders, HeaderFirst, PTL DEF Spec

-----------------------------------------------------------------------------
(* The list of activities.  A sadc reads the list of a file before it has the *)
(* lock, so that the file may be truncated in the meantime: the list it goes  *)
(* on with is the one of the file only if the sadc that share a file select   *)
(* the same activities, as the sa1 of one crontab do, and if the file was not *)
(* one with an activity of another version, whose header may be read and then *)
(* the list of its successor.                                                 *)

SameLists ==
  /\ \A p, q \in Sadc : Args[p].outfile = Args[q].outfile => Args[p].wants = Args[q].wants
  /\ \A d \in Day : InitFile[d] # "unknown_act"

Creating == {"create", "lockfile", "trunc", "sethdr"}
Old == {"past", "current"}

\* The list the file of date d announces, from the beginning or once created.
ListOf(d) ==
  IF InitFile[d] \in Old THEN << 1 >>
  ELSE Args[CHOOSE p \in Sadc : Args[p].outfile = d].wants

\* The header blocks of s are those of this list.
AsListed(s, list) ==
  \A i \in DOMAIN s :
    /\ s[i].part = "header" => s[i].nact = Len(list)
    /\ s[i].part = "act" => i - 2 \in 1..Len(list) /\ s[i].id = list[i - 2]

Foreign(d) == InitFile[d] = "foreign" /\ file[d] = Former("foreign")

\* A file that can be appended to from the beginning is never created again.
Intact(d) ==
  InitFile[d] \in Old =>
    /\ Len(file[d]) >= 3
    /\ file[d][1] = OurMagic
    /\ file[d][2].part = "header" /\ file[d][2].fit
    /\ file[d][3].part = "act" /\ file[d][3].fit

Lists(p) ==
  LET list == ListOf(ofile[p]) IN
  /\ pc[p] \in {"open", "magic", "header", "acts"} \cup Creating => idseq[p] = Args[p].wants
  /\ pc[p] \in Recording => idseq[p] = list
  /\ pc[p] \in Creating => InitFile[ofile[p]] \notin Old
  /\ pc[p] \in {"acts"} \cup Recording => AsListed(file[ofile[p]], list)
  /\ pc[p] = "acts" =>
       /\ filehdr[p].nact = Len(list) /\ pos[p] = Len(seen[p]) + 2
       /\ Len(seen[p]) <= Len(list)
       /\ \A i \in 1..Len(seen[p]) : seen[p][i] = list[i]

ListInv ==
  /\ \A d \in Day : AsListed(file[d], ListOf(d)) \/ Foreign(d)
  /\ \A d \in Day : Intact(d)
  /\ \A p \in Sadc : Lists(p)

\* The list of the output file of a sadc.
LEMMA ListOfType ==
  ASSUME Exclusive, SameLists, HInv, NEW q \in Sadc, pc[q] # "off"
  PROVE  /\ ListOf(ofile[q]) \in Seq(Activity)
         /\ Len(ListOf(ofile[q])) \in Nat \ {0}
         /\ InitFile[ofile[q]] \notin Old => ListOf(ofile[q]) = Args[q].wants
<1>1. ofile[q] = Args[q].outfile
  BY OfSadc DEF Placed
<1>2. CASE InitFile[ofile[q]] \in Old
  <2>1. ListOf(ofile[q]) = << 1 >>
    BY <1>2 DEF ListOf
  <2>2. 1 \in Activity
    BY SadcFileAssumption DEF Activity
  <2>3. << 1 >> \in Seq(Activity) /\ Len(<< 1 >>) = 1
    BY <2>2
  <2> QED
    BY <1>2, <2>1, <2>3
<1>3. CASE InitFile[ofile[q]] \notin Old
  <2> DEFINE r == CHOOSE p \in Sadc : Args[p].outfile = ofile[q]
  <2>1. r \in Sadc /\ Args[r].outfile = Args[q].outfile
    BY <1>1
  <2>2. ListOf(ofile[q]) = Args[r].wants
    BY <1>3 DEF ListOf
  <2> HIDE DEF r
  <2>3. Args[r].wants = Args[q].wants
    BY <2>1 DEF SameLists
  <2>4. Args[q].wants \in Seq(Activity) /\ Args[q].wants # << >>
    BY SadcFileAssumption DEF CommandLine
  <2>5. Len(Args[q].wants) \in Nat \ {0}
    BY <2>4, EmptySeq
  <2> QED
    BY <2>2, <2>3, <2>4, <2>5
<1> QED
  BY <1>2, <1>3

\* The blocks of our header are as listed.
LEMMA HeadsListed ==
  ASSUME NEW list \in Seq(Activity), NEW s \in Seq(Blocks), NEW k \in Nat, k <= Len(list) + 2,
         Heads(s, list, k)
  PROVE  AsListed(s, list)
<1>1. Len(s) = k /\ Len(list) \in Nat /\ \A i \in 1..k : s[i] = HeaderBlock(i, list)
  BY DEF Heads
<1> SUFFICES ASSUME NEW i \in 1..k
             PROVE  /\ s[i].part = "header" => s[i].nact = Len(list)
                    /\ s[i].part = "act" => i - 2 \in 1..Len(list) /\ s[i].id = list[i - 2]
  BY <1>1 DEF AsListed
<1>2. s[i] = HeaderBlock(i, list)
  BY <1>1
<1>3. CASE i = 1
  BY <1>2, <1>3, HeaderParted DEF HeaderBlock
<1>4. CASE i = 2
  BY <1>2, <1>4, HeaderParted DEF HeaderBlock
<1>5. CASE i > 2
  <2>1. i - 2 \in 1..Len(list)
    BY <1>1, <1>5
  <2>2. s[i] = OurAct(list[i - 2])
    BY <1>2, <1>5 DEF HeaderBlock
  <2> QED
    BY <2>1, <2>2, HeaderParted
<1> QED
  BY <1>3, <1>4, <1>5

LEMMA RecordListed ==
  ASSUME NEW list, NEW s \in Seq(Blocks), NEW b \in Blocks, b.part \in RecordParts, AsListed(s, list)
  PROVE  AsListed(Append(s, b), list)
<1> DEFINE t == Append(s, b)
<1>1. /\ DOMAIN t = 1..(Len(s) + 1) /\ Len(s) \in Nat /\ DOMAIN s = 1..Len(s)
      /\ t[Len(s) + 1] = b /\ \A i \in 1..Len(s) : t[i] = s[i]
  OBVIOUS
<1> HIDE DEF t
<1> SUFFICES ASSUME NEW i \in 1..(Len(s) + 1)
             PROVE  /\ t[i].part = "header" => t[i].nact = Len(list)
                    /\ t[i].part = "act" => i - 2 \in 1..Len(list) /\ t[i].id = list[i - 2]
  BY <1>1 DEF AsListed, t
<1>2. CASE i = Len(s) + 1
  BY <1>1, <1>2 DEF RecordParts
<1>3. CASE i # Len(s) + 1
  <2>1. i \in 1..Len(s)
    BY <1>1, <1>3
  <2> QED
    BY <1>1, <2>1 DEF AsListed
<1> QED
  BY <1>2, <1>3

\* What a step does to a file leaves its header blocks as listed.
LEMMA FilesListed ==
  ASSUME Exclusive, SameLists, HInv, ListInv, NEW q \in Sadc,
         Cuts(q) \/ PutsHeader(q) \/ PutsRecord(q) \/ Quiet(q), NEW d \in Day
  PROVE  /\ file'[d] = file[d] \/ AsListed(file'[d], ListOf(d))
         /\ AsListed(file[d], ListOf(d)) => AsListed(file'[d], ListOf(d))
         /\ Intact(d)'
<1>0. /\ TypeOK /\ file[d] \in Seq(Blocks) /\ Lists(q) /\ Intact(d) /\ ofile[q] \in Day
      /\ idseq[q] \in Seq(Activity) /\ pos[q] \in Nat
  BY OfSadc DEF ListInv, TypeOK
<1>1. CASE file'[d] = file[d]
  BY <1>0, <1>1 DEF Intact
<1>2. CASE file'[d] # file[d] /\ (Cuts(q) \/ Makes(q))
  <2>1. d = ofile[q] /\ file'[d] = << >>
    BY <1>0, <1>2 DEF Cuts, Makes, TypeOK
  <2>2. pc[q] \in Creating
    BY <1>2 DEF Cuts, Makes, Creating
  <2>3. AsListed(<< >>, ListOf(d))
    BY DEF AsListed
  <2> QED
    BY <1>0, <2>1, <2>2, <2>3 DEF Lists, Intact
<1>3. CASE file'[d] # file[d] /\ PutsHeader(q)
  <2> DEFINE k == pos[q] + 1
             t == Append(file[d], HeaderBlock(k, idseq[q]))
  <2>1. d = ofile[q] /\ file'[d] = t /\ pc[q] \in Creating /\ pc[q] # "off"
    BY <1>0, <1>3 DEF PutsHeader, TypeOK, Creating
  <2>2. /\ HeaderBlock(k, idseq[q]) \in Blocks /\ Heads(file[d], idseq[q], pos[q])
        /\ k \in 1..(Len(idseq[q]) + 2)
    BY <1>3, <2>1, PutBlock
  <2>3. Heads(t, idseq[q], k) /\ t \in Seq(Blocks) /\ k \in Nat /\ k <= Len(idseq[q]) + 2
    BY <1>0, <2>2, HeadsLonger
  <2> HIDE DEF k, t
  <2>4. AsListed(t, idseq[q])
    BY <1>0, <2>3, HeadsListed
  <2>5. idseq[q] = ListOf(d) /\ InitFile[d] \notin Old
    BY <1>0, <2>1, ListOfType DEF Lists
  <2> QED
    BY <2>1, <2>4, <2>5 DEF Intact
<1>4. CASE file'[d] # file[d] /\ PutsRecord(q)
  <2> DEFINE b == BlockOf(q, n[q], todo[q], idseq[q])
             t == Append(file[d], b)
  <2>1. d = ofile[q] /\ file'[d] = t /\ pc[q] \in Recording
    BY <1>0, <1>4 DEF PutsRecord, TypeOK, Recording
  <2>2. b \in Blocks /\ b.part \in RecordParts
    BY <1>4, PutBlock
  <2>3. AsListed(file[d], ListOf(d))
    BY <1>0, <2>1 DEF Lists
  <2>4. AsListed(t, ListOf(d))
    BY <1>0, <2>2, <2>3, RecordListed
  <2>5. Len(t) = Len(file[d]) + 1 /\ Len(file[d]) \in Nat /\ \A i \in 1..Len(file[d]) : t[i] = file[d][i]
    BY <1>0, <2>2
  <2> HIDE DEF t
  <2>6. Len(file[d]) >= 3 => t[1] = file[d][1] /\ t[2] = file[d][2] /\ t[3] = file[d][3]
    BY <2>5
  <2> QED
    BY <1>0, <2>1, <2>4, <2>5, <2>6 DEF Intact
<1> QED
  BY <1>1, <1>2, <1>3, <1>4 DEF Quiet

Opening == {"open", "magic", "header", "acts"} \cup Creating

\* Steps that keep the list: through open_ofile() and create_sa_file(), from one
\* record to the next, and to the end.
LEMMA OpeningLists ==
  ASSUME ListInv, NEW q \in Sadc, pc[q] \in Opening, pc'[q] \in Opening \ {"acts"},
         idseq'[q] = idseq[q], ofile'[q] = ofile[q],
         pc'[q] \in Creating => pc[q] \in Creating \/ InitFile[ofile[q]] \notin Old
  PROVE  Lists(q)'
<1>1. Lists(q)
  BY DEF ListInv
<1> QED
  BY <1>1 DEF Lists, Opening, Creating, Recording

LEMMA RecordingLists ==
  ASSUME Exclusive, HInv, ListInv, NEW q \in Sadc, pc[q] \in Recording, pc'[q] \in Recording,
         idseq'[q] = idseq[q], ofile'[q] = ofile[q],
         AsListed(file[ofile[q]], ListOf(ofile[q])) => AsListed(file'[ofile[q]], ListOf(ofile[q]))
  PROVE  Lists(q)'
<1>1. Lists(q)
  BY DEF ListInv
<1> QED
  BY <1>1 DEF Lists, Opening, Creating, Recording

LEMMA ExitLists ==
  ASSUME TypeOK, NEW q \in Sadc, NEW label \in Over, Exit(q, label)
  PROVE  Lists(q)'
<1>1. pc'[q] = label
  BY DEF TypeOK, Exit, Goto
<1> QED
  BY <1>1 DEF Lists, Over, Creating, Recording

LEMMA RefuseLists ==
  ASSUME TypeOK, ListInv, NEW q \in Sadc, pc[q] \in Reading, Refuse(q) \/ Recreate(q),
         InitFile[ofile[q]] \notin Old
  PROVE  Lists(q)'
<1>1. CASE Recreate(q)
  <2>1. pc'[q] = "create" /\ idseq'[q] = idseq[q] /\ ofile'[q] = ofile[q]
    BY <1>1 DEF TypeOK, Recreate, Goto, shared
  <2> QED
    BY <2>1, OpeningLists DEF Opening, Creating, Reading
<1>2. CASE Exit(q, "done")
  BY <1>2, ExitLists DEF Over
<1> QED
  BY <1>1, <1>2 DEF Refuse

LEMMA HeaderFit == ASSUME NEW k, NEW b, NEW c PROVE Header(k, b, c).fit = c
BY DEF Header

\* A complete header that is not foreign, read by q, has the list of the file.
LEMMA StepLists ==
  ASSUME Exclusive, SameLists, HInv, ListInv, NEW q \in Sadc, Start(q) \/ Step(q) \/ Die(q)
  PROVE  Lists(q)'
<1> DEFINE s == file[ofile[q]]
           list == ListOf(ofile[q])
<1>0. /\ TypeOK /\ Placed(q) /\ newofile[q] = ofile[q] /\ ~Args[q].rotat /\ Lists(q)
      /\ ofile[q] \in Day /\ Intact(ofile[q]) /\ s \in Seq(Blocks) /\ pos[q] \in Nat
      /\ AsListed(s, list) \/ Foreign(ofile[q])
      /\ seen[q] \in Seq(Activity)
  BY OfSadc DEF Exclusive, ListInv, TypeOK
<1>00. /\ Cuts(q) \/ PutsHeader(q) \/ PutsRecord(q) \/ Quiet(q)
       /\ pc[q] # "off" => ofile'[q] = ofile[q]
  BY StepOutcome, FileNameKept
<1>01. /\ AsListed(s, list) => AsListed(file'[ofile[q]], list)
       /\ file'[ofile[q]] = s \/ AsListed(file'[ofile[q]], list)
  BY <1>0, <1>00, FilesListed
<1>1. CASE Start(q)
  <2>1. pc'[q] = "open" /\ idseq'[q] = Args[q].wants
    BY <1>0, <1>1 DEF Start, Goto, TypeOK
  <2> QED
    BY <2>1 DEF Lists, Creating, Recording
<1>2. CASE OpenFile(q)
  <2>1. pc[q] = "open" /\ ofile'[q] = ofile[q] /\ idseq'[q] = idseq[q]
    BY <1>2, Zenon DEF OpenFile
  <2>2. \/ s = NoFile /\ pc' = [pc EXCEPT ![q] = "create"]
        \/ pc' = [pc EXCEPT ![q] = "magic"]
    BY <1>2, Zenon DEF OpenFile, Goto
  <2>3. s = NoFile => InitFile[ofile[q]] \notin Old
    <3> SUFFICES ASSUME s = NoFile, InitFile[ofile[q]] \in Old PROVE FALSE
      OBVIOUS
    <3>1. Len(s) = 1
      BY DEF NoFile
    <3> QED
      BY <1>0, <3>1 DEF Intact
  <2>4. pc'[q] \in {"create", "magic"} /\ (pc'[q] = "create" => InitFile[ofile[q]] \notin Old)
    BY <1>0, <2>2, <2>3 DEF TypeOK
  <2> QED
    BY <2>1, <2>4, OpeningLists DEF Opening, Creating
<1>3. CASE ReadMagic(q)
  <2>0. pc[q] = "magic" /\ ofile'[q] = ofile[q]
    BY <1>00, <1>3 DEF ReadMagic
  <2>1. CASE Recreate(q) \/ Refuse(q)
    <3>1. CASE s = << >> \/ s[1] # OurMagic
      <4>1. InitFile[ofile[q]] \notin Old
        BY <1>0, <3>1 DEF Intact
      <4> QED
        BY <1>0, <2>0, <2>1, <4>1, RefuseLists DEF Reading
    <3>2. CASE s # << >> /\ s[1] = OurMagic
      <4>1. pc' = [pc EXCEPT ![q] = "header"] /\ UNCHANGED idseq
        BY <1>3, <3>2, Zenon DEF ReadMagic, OurMagic, Goto
      <4> QED
        BY <1>0, <2>0, <4>1, OpeningLists DEF TypeOK, Opening, Creating
    <3> QED
      BY <3>1, <3>2
  <2>2. CASE ~(Recreate(q) \/ Refuse(q))
    <3>1. pc' = [pc EXCEPT ![q] = "header"] /\ UNCHANGED idseq
      BY <1>3, <2>2, Zenon DEF ReadMagic, Goto
    <3> QED
      BY <1>0, <2>0, <3>1, OpeningLists DEF TypeOK, Opening, Creating
  <2> QED
    BY <2>1, <2>2
<1>4. CASE ReadHeader(q)
  <2>0. pc[q] = "header" /\ ofile'[q] = ofile[q]
    BY <1>00, <1>4 DEF ReadHeader
  <2>1. CASE ~(Len(s) >= 2 /\ s[2].part = "header" /\ s[2].fit)
    <3>1. Recreate(q) \/ Refuse(q)
      BY <1>4, <2>1, Zenon DEF ReadHeader
    <3>2. InitFile[ofile[q]] \notin Old
      BY <1>0, <2>1 DEF Intact
    <3> QED
      BY <1>0, <2>0, <3>1, <3>2, RefuseLists DEF Reading
  <2>2. CASE Len(s) >= 2 /\ s[2].part = "header" /\ s[2].fit
    <3>1. /\ pc' = [pc EXCEPT ![q] = "acts"] /\ pos' = [pos EXCEPT ![q] = 2]
          /\ filehdr' = [filehdr EXCEPT ![q] = s[2]] /\ seen' = [seen EXCEPT ![q] = << >>]
          /\ UNCHANGED << file, idseq >>
      BY <1>0, <1>4, <2>2, Zenon DEF ReadHeader, Goto, shared
    <3>2. ~Foreign(ofile[q])
      <4> DEFINE h == Header(1, FALSE, FALSE)
                 a == ActBlock(1, TRUE)
      <4>1. h.fit = FALSE
        BY HeaderFit, Zenon
      <4>2. Former("foreign") = << OurMagic, h, a >>
        BY FormerFiles, Zenon
      <4> HIDE DEF h, a
      <4>3. << OurMagic, h, a >>[2] = h
        OBVIOUS
      <4> QED
        BY <2>2, <4>1, <4>2, <4>3 DEF Foreign
    <3>3. AsListed(s, list) /\ 2 \in DOMAIN s
      BY <1>0, <2>2, <3>2
    <3>4. s[2].nact = Len(list)
      BY <2>2, <3>3 DEF AsListed
    <3>5. /\ pc'[q] = "acts" /\ pos'[q] = 2 /\ filehdr'[q] = s[2] /\ seen'[q] = << >>
          /\ idseq'[q] = idseq[q] /\ file'[ofile'[q]] = s
      BY <1>0, <2>0, <3>1 DEF TypeOK
    <3>6. idseq[q] = Args[q].wants
      BY <1>0, <2>0 DEF Lists
    <3>7. Len(list) \in Nat
      BY <2>0, ListOfType
    <3> HIDE DEF s, list
    <3> QED
      BY <2>0, <3>3, <3>4, <3>5, <3>6, <3>7 DEF Lists, Creating, Recording, list
  <2> QED
    BY <2>1, <2>2
<1>5. CASE ReadActivity(q)
  <2> DEFINE i == pos[q] + 1
             known == i <= Len(s) /\ s[i].part = "act" /\ s[i].fit
  <2>0. /\ pc[q] = "acts" /\ ofile'[q] = ofile[q] /\ Len(seen[q]) < filehdr[q].nact
        /\ Len(list) \in Nat /\ list \in Seq(Activity)
    BY <1>00, <1>5, ListOfType DEF ReadActivity
  <2>1. /\ AsListed(s, list) /\ pos[q] = Len(seen[q]) + 2 /\ filehdr[q].nact = Len(list)
        /\ \A j \in 1..Len(seen[q]) : seen[q][j] = list[j]
        /\ idseq[q] = Args[q].wants
    BY <1>0, <2>0 DEF Lists
  <2>2. CASE Exit(q, "done")
    BY <1>0, <2>2, ExitLists DEF Over
  <2>3. CASE ~Exit(q, "done") /\ ~known
    <3>1. Refuse(q) /\ i <= Len(s)
      BY <1>5, <2>3, Zenon DEF ReadActivity
    <3>2. InitFile[ofile[q]] \notin Old
      <4>1. InitFile[ofile[q]] \in Old => Len(list) = 1
        BY DEF ListOf
      <4>2. InitFile[ofile[q]] \in Old => i = 3
        BY <1>0, <2>0, <2>1, <4>1
      <4> QED
        BY <1>0, <2>3, <4>2 DEF Intact
    <3> QED
      BY <1>0, <2>0, <3>1, <3>2, RefuseLists DEF Reading
  <2>4. CASE ~Exit(q, "done") /\ known
    <3>1. /\ seen' = [seen EXCEPT ![q] = Append(@, s[i].id)] /\ pos' = [pos EXCEPT ![q] = i]
          /\ UNCHANGED << pc, file, filehdr, idseq >>
      BY <1>5, <2>4, Zenon DEF ReadActivity, shared
    <3>2. i \in DOMAIN s /\ s[i].part = "act"
      BY <1>0, <2>4
    <3>3. i - 2 = Len(seen[q]) + 1 /\ s[i].id = list[i - 2]
      BY <1>0, <2>1, <3>2 DEF AsListed
    <3>4. s[i].id \in Activity
      BY <1>0, <3>2, ActivityType
    <3>5. /\ seen'[q] = Append(seen[q], s[i].id) /\ pos'[q] = i
          /\ pc'[q] = "acts" /\ filehdr'[q] = filehdr[q] /\ idseq'[q] = idseq[q]
          /\ file'[ofile'[q]] = s
      BY <1>0, <2>0, <3>1 DEF TypeOK
    <3> DEFINE a == s[i].id
               t == Append(seen[q], a)
    <3>6. Len(t) = Len(seen[q]) + 1 /\ \A j \in 1..Len(t) : t[j] = list[j]
      <4>1. /\ Len(t) = Len(seen[q]) + 1 /\ t[Len(seen[q]) + 1] = a /\ Len(seen[q]) \in Nat
            /\ \A j \in 1..Len(seen[q]) : t[j] = seen[q][j]
        BY <1>0, <3>4
      <4>2. a = list[Len(seen[q]) + 1]
        BY <3>3
      <4> HIDE DEF t, a
      <4> SUFFICES ASSUME NEW j \in 1..Len(t) PROVE t[j] = list[j]
        BY <4>1
      <4>3. j = Len(seen[q]) + 1 \/ j \in 1..Len(seen[q])
        BY <4>1
      <4> QED
        BY <2>1, <4>1, <4>2, <4>3
    <3>7. pos'[q] = Len(t) + 2 /\ Len(t) <= Len(list)
      BY <1>0, <2>0, <2>1, <3>3, <3>5, <3>6
    <3> HIDE DEF s, list, i, t
    <3> QED
      BY <2>0, <2>1, <3>5, <3>6, <3>7 DEF Lists, Creating, Recording, list, t
  <2> QED
    BY <2>2, <2>3, <2>4
<1>6. CASE AdoptList(q)
  <2>0. /\ pc[q] = "acts" /\ ofile'[q] = ofile[q] /\ Len(seen[q]) >= filehdr[q].nact /\ n[q] = 0
        /\ Len(list) \in Nat /\ list \in Seq(Activity)
    BY <1>0, <1>00, <1>6, ListOfType DEF AdoptList, Placed, Recording, Over
  <2>1. /\ AsListed(s, list) /\ filehdr[q].nact = Len(list) /\ Len(seen[q]) <= Len(list)
        /\ \A j \in 1..Len(seen[q]) : seen[q][j] = list[j]
    BY <1>0, <2>0 DEF Lists
  <2>2. seen[q] = list
    <3>1. Len(seen[q]) = Len(list)
      BY <1>0, <2>0, <2>1
    <3> QED
      BY <1>0, <2>0, <2>1, <3>1, SeqEqual
  <2>3. /\ pc' = [pc EXCEPT ![q] = "main"] /\ idseq' = [idseq EXCEPT ![q] = seen[q]]
        /\ UNCHANGED file
    BY <1>6, <2>0 DEF AdoptList, Opened, Goto, shared
  <2>4. pc'[q] = "main" /\ idseq'[q] = list /\ file'[ofile'[q]] = s
    BY <1>0, <2>0, <2>2, <2>3 DEF TypeOK
  <2> QED
    BY <2>0, <2>1, <2>4 DEF Lists, Creating, Recording
<1>7. CASE CreateFile(q) \/ Truncate(q)
  <2>1. /\ pc[q] \in {"create", "trunc"} /\ pc'[q] \in {"lockfile", "sethdr"}
        /\ ofile'[q] = ofile[q] /\ idseq'[q] = idseq[q]
    BY <1>0, <1>7 DEF CreateFile, Truncate, Goto, TypeOK
  <2> QED
    BY <2>1, OpeningLists DEF Opening, Creating
<1>8. CASE LockCreated(q)
  <2>1. CASE Exit(q, "done")
    BY <1>0, <2>1, ExitLists DEF Over
  <2>2. CASE ~Exit(q, "done")
    <3>1. pc[q] = "lockfile" /\ pc' = [pc EXCEPT ![q] = "trunc"] /\ UNCHANGED << ofile, idseq >>
      BY <1>8, <2>2, Zenon DEF LockCreated, Goto
    <3> QED
      BY <1>0, <3>1, OpeningLists DEF Opening, Creating, TypeOK
  <2> QED
    BY <2>1, <2>2
<1>9. CASE BeginSpecial(q)
  <2>1. CASE Exit(q, "done")
    BY <1>0, <2>1, ExitLists DEF Over
  <2>2. CASE ~Exit(q, "done")
    <3>1. pc[q] = "main" /\ pc' = [pc EXCEPT ![q] = "write"] /\ UNCHANGED << file, ofile, idseq >>
      BY <1>9, <2>2, Zenon DEF BeginSpecial, Goto
    <3>2. pc'[q] = "write"
      BY <1>0, <3>1 DEF TypeOK
    <3> QED
      BY <3>1, <3>2, RecordingLists DEF Recording
  <2> QED
    BY <2>1, <2>2
<1>10. CASE EnterLoop(q) \/ Wake(q)
  <2>1. /\ pc[q] \in {"main", "pause"} /\ pc' = [pc EXCEPT ![q] = "loop"]
        /\ UNCHANGED << file, ofile, idseq >>
    BY <1>10, Zenon DEF EnterLoop, Wake, Goto, shared
  <2>2. pc'[q] = "loop"
    BY <1>0, <2>1 DEF TypeOK
  <2> QED
    BY <2>1, <2>2, RecordingLists DEF Recording
<1>11. CASE Sample(q) \/ SampleAgain(q)
  <2>0. pc[q] = "loop" /\ WriteStats(q)
    BY <1>0, <1>11 DEF Sample, SampleAgain, Placed
  <2>1. /\ UNCHANGED << file, ofile, idseq >>
        /\ pc' = [pc EXCEPT ![q] = "written"] \/ pc' = [pc EXCEPT ![q] = "write"]
    BY <2>0, Zenon DEF WriteStats, Goto
  <2>2. pc'[q] \in {"written", "write"}
    BY <1>0, <2>1 DEF TypeOK
  <2> QED
    BY <2>0, <2>1, <2>2, RecordingLists DEF Recording
<1>12. CASE WriteBlock(q)
  <2>1. CASE PutsHeader(q) /\ pc'[q] = "sethdr"
    BY <1>00, <2>1, OpeningLists DEF PutsHeader, Opening, Creating
  <2>2. CASE PutsHeader(q) /\ pc'[q] = "main"
    <3>1. /\ pc[q] = "sethdr" /\ ofile'[q] = ofile[q] /\ idseq'[q] = idseq[q]
      BY <1>00, <2>2 DEF PutsHeader
    <3>2. idseq[q] = Args[q].wants /\ InitFile[ofile[q]] \notin Old
      BY <1>0, <3>1 DEF Lists, Creating
    <3>3. list = Args[q].wants
      BY <3>1, <3>2, ListOfType
    <3>4. AsListed(file'[ofile[q]], list)
      <4>1. file'[ofile[q]] # s
        <5>1. HeaderBlock(pos[q] + 1, idseq[q]) \in Blocks
          BY <2>2, PutBlock
        <5>2. file'[ofile[q]] = Append(s, HeaderBlock(pos[q] + 1, idseq[q]))
          BY <1>0, <2>2 DEF PutsHeader, TypeOK
        <5>3. Len(Append(s, HeaderBlock(pos[q] + 1, idseq[q]))) = Len(s) + 1 /\ Len(s) \in Nat
          BY <1>0, <5>1
        <5> QED
          BY <5>2, <5>3
      <4> QED
        BY <1>01, <4>1
    <3> QED
      BY <2>2, <3>1, <3>2, <3>3, <3>4 DEF Lists, Creating, Recording
  <2>3. CASE PutsRecord(q)
    <3>1. pc[q] \in Recording /\ pc'[q] \in Recording /\ idseq'[q] = idseq[q] /\ ofile'[q] = ofile[q]
      BY <1>00, <2>3 DEF PutsRecord, Recording
    <3> QED
      BY <1>01, <3>1, RecordingLists
  <2>4. PutsHeader(q) => pc'[q] \in {"sethdr", "main"}
    BY DEF PutsHeader
  <2> QED
    BY <1>12, <2>1, <2>2, <2>3, <2>4, WriteBlockPuts
<1>13. CASE Rotate(q)
  BY <1>0, <1>13 DEF Rotate
<1>14. CASE EndIteration(q)
  <2>1. CASE Exit(q, "done")
    BY <1>0, <2>1, ExitLists DEF Over
  <2>2. CASE ~Exit(q, "done")
    <3>1. pc[q] = "written" /\ pc' = [pc EXCEPT ![q] = "pause"] /\ UNCHANGED << file, ofile, idseq >>
      BY <1>14, <2>2, Zenon DEF EndIteration, Goto, shared
    <3>2. pc'[q] = "pause"
      BY <1>0, <3>1 DEF TypeOK
    <3> QED
      BY <3>1, <3>2, RecordingLists DEF Recording
  <2> QED
    BY <2>1, <2>2
<1>15. CASE EndSpecial(q) \/ Die(q)
  BY <1>0, <1>15, ExitLists DEF EndSpecial, Die, Over
<1> QED
  BY <1>1, <1>2, <1>3, <1>4, <1>5, <1>6, <1>7, <1>8, <1>9, <1>10, <1>11, <1>12, <1>13,
     <1>14, <1>15 DEF Step

LEMMA InitLists == SameLists /\ Init => ListInv
<1> SUFFICES ASSUME SameLists, Init PROVE ListInv
  OBVIOUS
<1>1. \A p \in Sadc : Lists(p)
  BY DEF Init, Lists, Creating, Recording
<1>2. ASSUME NEW d \in Day PROVE (AsListed(file[d], ListOf(d)) \/ Foreign(d)) /\ Intact(d)
  <2>1. /\ file[d] = Former(InitFile[d])
        /\ InitFile[d] \in {"none", "empty", "junk", "foreign", "past", "current"}
    BY <1>2, SadcFileAssumption DEF Init, SameLists, FileKinds
  <2>2. CASE InitFile[d] = "foreign"
    BY <2>1, <2>2 DEF Foreign, Intact, Old
  <2>3. CASE InitFile[d] \in {"none", "empty", "junk"}
    <3>1. file[d] \in Bare
      BY <2>1, <2>3, FormerFiles, Zenon DEF Bare
    <3>2. AsListed(file[d], ListOf(d))
      <4> DEFINE none == [part |-> "none"]
                 theirs == Magic(FALSE)
      <4>1. none.part = "none" /\ theirs.part = "magic"
        BY DEF Magic
      <4>2. Bare = {<< none >>, << >>, << theirs >>}
        BY Zenon DEF Bare, NoFile
      <4> HIDE DEF none, theirs
      <4>3. \A i \in DOMAIN file[d] : file[d][i].part \in {"none", "magic"}
        BY <3>1, <4>1, <4>2
      <4> QED
        BY <4>3 DEF AsListed
    <3> QED
      BY <2>3, <3>2 DEF Intact, Old
  <2>4. CASE InitFile[d] \in Old
    <3>1. PICK b : file[d] = << OurMagic, Header(1, b, TRUE), OurAct(1) >>
      BY <2>1, <2>4, FormerFiles, Zenon DEF Old, OurAct
    <3> DEFINE h == Header(1, b, TRUE)
    <3>2. h.part = "header" /\ h.fit /\ h.nact = 1
      BY DEF Header
    <3>3. OurAct(1).part = "act" /\ OurAct(1).id = 1 /\ OurAct(1).fit /\ OurMagic.part = "magic"
      BY HeaderParted DEF OurAct, ActBlock
    <3> HIDE DEF h
    <3>4. /\ Len(file[d]) = 3 /\ DOMAIN file[d] = 1..3
          /\ file[d][1] = OurMagic /\ file[d][2] = h /\ file[d][3] = OurAct(1)
      BY <3>1 DEF h
    <3>5. ListOf(d) = << 1 >>
      BY <2>4 DEF ListOf
    <3>6. Len(<< 1 >>) = 1 /\ << 1 >>[1] = 1
      OBVIOUS
    <3>7. AsListed(file[d], ListOf(d))
      <4> SUFFICES ASSUME NEW i \in 1..3
                   PROVE  /\ file[d][i].part = "header" => file[d][i].nact = 1
                          /\ file[d][i].part = "act" => i - 2 \in 1..1 /\ file[d][i].id = << 1 >>[i - 2]
        BY <3>4, <3>5, <3>6 DEF AsListed
      <4>1. i = 1 \/ i = 2 \/ i = 3
        OBVIOUS
      <4> QED
        BY <3>2, <3>3, <3>4, <3>6, <4>1
    <3> QED
      BY <3>2, <3>3, <3>4, <3>7 DEF Intact
  <2> QED
    BY <2>1, <2>2, <2>3, <2>4 DEF Old
<1> QED
  BY <1>1, <1>2 DEF ListInv

LEMMA NextLists == Exclusive /\ SameLists /\ HInv /\ ListInv /\ [Next]_vars => ListInv'
<1> SUFFICES ASSUME Exclusive, SameLists, HInv, ListInv, [Next]_vars PROVE ListInv'
  OBVIOUS
<1>0. TypeOK
  BY DEF HInv, Typed
<1>1. ASSUME NEW q \in Sadc, Start(q) \/ Step(q) \/ Die(q) PROVE ListInv'
  <2>1. Apart(q) /\ (Cuts(q) \/ PutsHeader(q) \/ PutsRecord(q) \/ Quiet(q))
    BY <1>0, <1>1, StepApart, StepOutcome
  <2>2. \A d \in Day : /\ file'[d] = file[d] \/ AsListed(file'[d], ListOf(d))
                       /\ AsListed(file[d], ListOf(d)) => AsListed(file'[d], ListOf(d))
                       /\ Intact(d)'
    BY <2>1, FilesListed
  <2>3. Lists(q)'
    BY <1>1, StepLists
  <2>4. ASSUME NEW p \in Sadc \ {q} PROVE Lists(p)'
    <3>1. /\ pc'[p] = pc[p] /\ ofile'[p] = ofile[p] /\ idseq'[p] = idseq[p] /\ pos'[p] = pos[p]
          /\ filehdr'[p] = filehdr[p] /\ seen'[p] = seen[p]
      BY <2>1 DEF Apart
    <3>2. Lists(p) /\ ofile[p] \in Day
      BY <1>0 DEF ListInv, TypeOK
    <3>3. AsListed(file[ofile[p]], ListOf(ofile[p])) => AsListed(file'[ofile[p]], ListOf(ofile[p]))
      BY <2>2, <3>2
    <3> QED
      BY <3>1, <3>2, <3>3 DEF Lists
  <2>5. \A d \in Day : AsListed(file'[d], ListOf(d)) \/ Foreign(d)'
    BY <2>2 DEF ListInv, Foreign
  <2>6. \A p \in Sadc : Lists(p)'
    BY <2>3, <2>4
  <2> QED
    BY <2>2, <2>5, <2>6 DEF ListInv
<1>2. CASE Midnight \/ UNCHANGED vars
  <2>1. UNCHANGED << file, pc, ofile, pos, filehdr, seen, idseq >>
    BY <1>2 DEF Midnight, vars
  <2> QED
    BY <2>1 DEF ListInv, Foreign, Intact, Lists
<1> QED
  BY <1>1, <1>2 DEF Next

\* The list announced by a file that is as listed.
LEMMA AnnouncedList ==
  ASSUME NEW s \in Seq(Blocks), NEW list \in Seq(Activity), HeaderDone(s), AsListed(s, list)
  PROVE  Announced(s) = list /\ FirstRecord(s) = Len(list) + 3
<1>1. /\ Len(s) >= 2 /\ s[2].part = "header" /\ Len(s) >= 2 + s[2].nact
      /\ \A i \in 3..(2 + s[2].nact) : s[i].part = "act"
  BY Complete
<1>2. Len(list) \in Nat /\ DOMAIN s = 1..Len(s) /\ DOMAIN list = 1..Len(list)
  OBVIOUS
<1>3. s[2].nact = Len(list)
  BY <1>1, <1>2 DEF AsListed
<1>4. \A i \in 1..Len(list) : s[2 + i].id = list[i]
  <2> SUFFICES ASSUME NEW i \in 1..Len(list) PROVE s[2 + i].id = list[i]
    OBVIOUS
  <2>1. 2 + i \in 3..(2 + s[2].nact) /\ 2 + i \in DOMAIN s /\ (2 + i) - 2 = i
    BY <1>1, <1>2, <1>3
  <2> QED
    BY <1>1, <2>1 DEF AsListed
<1>5. list = [i \in 1..Len(list) |-> list[i]]
  BY <1>2
<1> QED
  BY <1>2, <1>3, <1>4, <1>5 DEF Announced, FirstRecord

LEMMA ListsPrevail == Exclusive /\ SameLists /\ HInv /\ ListInv => FileListPrevails
<1> SUFFICES ASSUME Exclusive, SameLists, HInv, ListInv, NEW p \in Sadc, pc[p] = "write",
                    HeaderDone(file[ofile[p]])
             PROVE  idseq[p] = Announced(file[ofile[p]])
  BY DEF FileListPrevails
<1>1. /\ file[ofile[p]] \in Seq(Blocks) /\ ListOf(ofile[p]) \in Seq(Activity)
      /\ Lists(p)
  BY OfSadc, ListOfType DEF ListInv
<1>2. idseq[p] = ListOf(ofile[p]) /\ AsListed(file[ofile[p]], ListOf(ofile[p]))
  BY <1>1 DEF Lists, Recording
<1> QED
  BY <1>1, <1>2, AnnouncedList

\* "List of activities from the file prevails over that of the user": under the lock,
\* the statistics a sadc writes are those the file announces, even when the file was
\* created again between the moment it read the list and the one it got the lock.
THEOREM FileListPrevailsCorrect ==
  Exclusive /\ SameLists => (Spec => []FileListPrevails)
<1> SUFFICES ASSUME Exclusive, SameLists PROVE Spec => []FileListPrevails
  OBVIOUS
<1>1. HInv /\ [Next]_vars => HInv'
  BY NextHeaders
<1>2. Init => ListInv
  BY InitLists
<1>3. HInv /\ ListInv /\ [Next]_vars => ListInv'
  BY NextLists
<1>4. HInv /\ ListInv => FileListPrevails
  BY ListsPrevail
<1> QED
  BY <1>1, <1>2, <1>3, <1>4, InitHeaders, PTL DEF Spec

-----------------------------------------------------------------------------
(* Whole records.                                                           *)

WholeAt(s, i) ==
  \/ Continues(s, i)
  \/ /\ s[i].part = "rec"
     /\ \/ i = FirstRecord(s)
        \/ EndsRecord(s, i - 1)
        \/ s[i - 1].part \in RecordParts /\ pc[s[i - 1].by] = "dead"

\* A record that is cut short is being written, or its writer was killed.
LastBlock(d) ==
  LET s == file[d]
      i == Len(file[d])
  IN HeaderDone(s) /\ i >= FirstRecord(s) =>
       \/ EndsRecord(s, i)
       \/ pc[s[i].by] = "dead"
       \/ /\ pc[s[i].by] = "write" /\ ofile[s[i].by] = d
          /\ todo[s[i].by] = Following(s, i) /\ n[s[i].by] = s[i].n

\* A sadc in the middle of a record goes on where the file stops.
GoesOn(p) ==
  LET s == file[ofile[p]]
      i == Len(file[ofile[p]])
  IN pc[p] = "write" /\ HeaderDone(s) /\ todo[p].part # "rec" =>
       /\ i >= FirstRecord(s) /\ s[i].part \in RecordParts
       /\ s[i].by = p /\ s[i].n = n[p] /\ todo[p] = Following(s, i)

RecordInv ==
  /\ \A d \in Day : HeaderDone(file[d]) =>
       \A i \in FirstRecord(file[d])..Len(file[d]) : WholeAt(file[d], i)
  /\ \A d \in Day : LastBlock(d)
  /\ \A p \in Sadc : GoesOn(p)

LEMMA RecordInvWhole == RecordInv => RecordsWhole
BY DEF RecordInv, RecordsWhole, WholeAt

\* No record starts inside another one.
LEMMA AfterNotFirst == ASSUME NEW run, NEW list, NEW c PROVE After(run, c, list).part # "rec"
<1>1. \A i : Items(list, i).part # "rec"
  BY DEF Items, Cursor, End
<1>2. \A at : Cursor("header", at).part # "rec" /\ Cursor("act", at).part # "rec"
              /\ Cursor("cpu", at).part # "rec" /\ Cursor("text", at).part # "rec"
              /\ Cursor("data", at).part # "rec" /\ End.part # "rec"
  BY DEF Cursor, End
<1> QED
  BY <1>1, <1>2 DEF After

\* A cursor is its two fields.
LEMMA CursorIs == ASSUME NEW c \in Cursors PROVE Cursor(c.part, c.at) = c
BY DEF Cursors, Cursor

\* A record begins with its header, and a sadc that writes one goes on or is killed.
LEMMA WriteStarts ==
  ASSUME TypeOK, NEW q \in Sadc, Start(q) \/ Step(q) \/ Die(q), pc[q] # "write", pc'[q] = "write"
  PROVE  todo'[q] = Cursor("rec", 0)
<1>1. ASSUME NEW label, Goto(q, label) PROVE pc'[q] = label
  BY <1>1 DEF Goto, TypeOK
<1>2. ASSUME NEW label \in Over, Exit(q, label) PROVE FALSE
  BY <1>1, <1>2 DEF Exit, Over
<1>3. ASSUME Recreate(q) PROVE FALSE
  BY <1>1, <1>3 DEF Recreate
<1>4. ASSUME Refuse(q) PROVE FALSE
  BY <1>2, <1>3, <1>4 DEF Refuse, Over
<1>5. Exit(q, "done") \/ Exit(q, "dead") => FALSE
  BY <1>2 DEF Over
<1>6. CASE Start(q) \/ OpenFile(q) \/ AdoptList(q) \/ CreateFile(q) \/ Truncate(q) \/ EnterLoop(q)
           \/ Wake(q) \/ Rotate(q)
  BY <1>1, <1>6 DEF Start, OpenFile, AdoptList, Opened, CreateFile, Truncate, EnterLoop, Wake, Rotate
<1>7. CASE ReadMagic(q) \/ ReadHeader(q) \/ ReadActivity(q)
  <2>1. Goto(q, "header") \/ Goto(q, "acts") \/ UNCHANGED pc
    BY <1>3, <1>4, <1>5, <1>7, Zenon DEF ReadMagic, ReadHeader, ReadActivity
  <2> QED
    BY <1>1, <2>1
<1>8. CASE LockCreated(q) \/ EndIteration(q) \/ EndSpecial(q) \/ Die(q)
  <2>1. Goto(q, "trunc") \/ Goto(q, "pause")
    BY <1>5, <1>8, Zenon DEF LockCreated, EndIteration, EndSpecial, Die
  <2> QED
    BY <1>1, <2>1
<1>9. CASE BeginSpecial(q) \/ Sample(q) \/ SampleAgain(q)
  <2>1. Goto(q, "written") \/ todo' = [todo EXCEPT ![q] = Cursor("rec", 0)]
    BY <1>5, <1>9, Zenon DEF BeginSpecial, Sample, SampleAgain, WriteStats
  <2> QED
    BY <1>1, <2>1 DEF TypeOK
<1>10. CASE WriteBlock(q)
  <2>1. pc[q] = "sethdr" /\ (Goto(q, "main") \/ Goto(q, "again") \/ Goto(q, "sethdr"))
    BY <1>10 DEF WriteBlock, Opened
  <2> QED
    BY <1>1, <2>1
<1> QED
  BY <1>6, <1>7, <1>8, <1>9, <1>10 DEF Step

LEMMA WriteOrDie ==
  ASSUME Exclusive, HInv, NEW q \in Sadc, Start(q) \/ Step(q) \/ Die(q), pc[q] = "write"
  PROVE  PutsRecord(q) \/ (pc'[q] = "dead" /\ file' = file)
<1>1. TypeOK
  BY OfSadc
<1>2. WriteBlock(q) \/ Die(q)
  BY DEF Start, Step, OpenFile, ReadMagic, ReadHeader, ReadActivity, AdoptList, CreateFile, LockCreated,
     Truncate, BeginSpecial, EndSpecial, EnterLoop, Sample, SampleAgain, Rotate, EndIteration, Wake
<1>3. CASE WriteBlock(q)
  BY <1>3, WriteBlockPuts DEF PutsHeader
<1>4. CASE Die(q)
  BY <1>1, <1>4 DEF Die, Exit, Goto, TypeOK
<1> QED
  BY <1>2, <1>3, <1>4

\* Only the holder of the lock of a file writes to it.
LEMMA OneWriter ==
  ASSUME Exclusive, HInv, NEW q \in Sadc, NEW p \in Sadc, lock[ofile[q]] = q,
         pc[p] = "write", ofile[p] = ofile[q]
  PROVE  p = q
BY OfSadc DEF Changing

\* A step that leaves file d alone, or empties it, leaves its records whole.
LEMMA RecordsUndisturbed ==
  ASSUME Exclusive, HInv, RecordInv, NEW q \in Sadc, Start(q) \/ Step(q) \/ Die(q),
         NEW d \in Day, file'[d] = file[d]
  PROVE  /\ HeaderDone(file'[d]) =>
              \A i \in FirstRecord(file'[d])..Len(file'[d]) : WholeAt(file[d], i)'
         /\ LastBlock(d)'
<1> DEFINE s == file[d]
<1>0. TypeOK /\ ofile[q] \in Day /\ s \in Seq(Blocks) /\ RecordsFollow(s)
  BY OfSadc DEF HInv, TypeOK
<1>1. Apart(q)
  BY <1>0, StepApart
<1>2. \A r \in Sadc : pc[r] = "dead" => pc'[r] = "dead"
  <2>1. pc[q] # "dead"
    BY DEF Start, Step, Die, OpenFile, ReadMagic, ReadHeader, ReadActivity, AdoptList, CreateFile,
       LockCreated, Truncate, BeginSpecial, EndSpecial, EnterLoop, Sample, SampleAgain, WriteStats,
       WriteBlock, Rotate, EndIteration, Wake, Over
  <2> QED
    BY <1>1, <2>1 DEF Apart
<1>3. ASSUME HeaderDone(s), NEW i \in FirstRecord(s)..Len(s) PROVE s[i].by \in Sadc
  <2>1. FirstRecord(s) \in Nat \ {0}
    BY <1>0, <1>3, HeaderType DEF HeaderDone, FirstRecord, HeaderBlocks
  <2>2. i \in 1..Len(s) /\ s[i].part \in RecordParts
    BY <1>0, <1>3, <2>1 DEF RecordsFollow
  <2>3. s[i] \in Blocks
    BY <1>0, <2>2
  <2> QED
    BY <2>2, <2>3 DEF Blocks, HeaderBlocks, ActBlocks, RecordBlocks, RecordParts
<1>4. ASSUME HeaderDone(s), NEW i \in FirstRecord(s)..Len(s) PROVE WholeAt(file[d], i)'
  <2>1. WholeAt(s, i)
    BY <1>4 DEF RecordInv
  <2>2. FirstRecord(s) \in Nat /\ Len(s) \in Nat
    BY <1>0, <1>4, HeaderType DEF HeaderDone, FirstRecord, HeaderBlocks
  <2>3. i # FirstRecord(s) => i - 1 \in FirstRecord(s)..Len(s)
    BY <2>2
  <2>4. i # FirstRecord(s) /\ pc[s[i - 1].by] = "dead" => pc'[s[i - 1].by] = "dead"
    BY <1>2, <1>3, <1>4, <2>3
  <2>5. \/ Continues(s, i)
        \/ /\ s[i].part = "rec"
           /\ \/ i = FirstRecord(s)
              \/ EndsRecord(s, i - 1)
              \/ s[i - 1].part \in RecordParts /\ pc'[s[i - 1].by] = "dead"
    BY <2>1, <2>4, Zenon DEF WholeAt
  <2> QED
    BY <2>5 DEF WholeAt
<1>5. LastBlock(d)'
  <2> SUFFICES ASSUME HeaderDone(s), Len(s) >= FirstRecord(s)
               PROVE  \/ EndsRecord(s, Len(s))
                      \/ pc'[s[Len(s)].by] = "dead"
                      \/ /\ pc'[s[Len(s)].by] = "write" /\ ofile'[s[Len(s)].by] = d
                         /\ todo'[s[Len(s)].by] = Following(s, Len(s)) /\ n'[s[Len(s)].by] = s[Len(s)].n
    BY DEF LastBlock
  <2> DEFINE r == s[Len(s)].by
  <2>1. r \in Sadc
    <3>1. FirstRecord(s) \in Nat /\ Len(s) \in Nat
      BY <1>0, HeaderType DEF HeaderDone, FirstRecord, HeaderBlocks
    <3> QED
      BY <1>3, <3>1
  <2>2. \/ EndsRecord(s, Len(s))
        \/ pc[r] = "dead"
        \/ /\ pc[r] = "write" /\ ofile[r] = d
           /\ todo[r] = Following(s, Len(s)) /\ n[r] = s[Len(s)].n
    BY DEF RecordInv, LastBlock
  <2> HIDE DEF r
  <2>3. CASE r # q
    <3>1. pc'[r] = pc[r] /\ ofile'[r] = ofile[r] /\ todo'[r] = todo[r] /\ n'[r] = n[r]
      BY <1>1, <2>1, <2>3 DEF Apart
    <3> QED
      BY <2>2, <3>1 DEF r
  <2>4. CASE r = q /\ pc[q] = "write" /\ ofile[q] = d
    <3>1. ~PutsRecord(q)
      <4>1. ASSUME PutsRecord(q) PROVE file'[d] # file[d]
        <5> DEFINE b == BlockOf(q, n[q], todo[q], idseq[q])
        <5>1. b \in Blocks
          BY <4>1, PutBlock
        <5>2. file'[d] = Append(s, b)
          BY <1>0, <2>4, <4>1 DEF PutsRecord, TypeOK
        <5>3. Len(Append(s, b)) = Len(s) + 1 /\ Len(s) \in Nat
          BY <1>0, <5>1
        <5> QED
          BY <5>2, <5>3
      <4> QED
        BY <4>1
    <3>2. pc'[q] = "dead"
      BY <2>4, <3>1, WriteOrDie
    <3> QED
      BY <2>4, <3>2 DEF r
  <2>5. CASE r = q /\ pc[q] = "dead"
    BY <1>2, <2>1, <2>5 DEF r
  <2> QED
    BY <2>2, <2>3, <2>4, <2>5 DEF r
<1> QED
  BY <1>4, <1>5

\* The block a sadc puts into a file goes on with its record, or starts a new one
\* where the last one ends or was cut short by the death of its writer.
LEMMA RecordsExtended ==
  ASSUME Exclusive, SameLists, HInv, ListInv, RecordInv, NEW q \in Sadc,
         Start(q) \/ Step(q) \/ Die(q), PutsRecord(q), NEW d \in Day, d = ofile[q]
  PROVE  /\ HeaderDone(file'[d]) =>
              \A i \in FirstRecord(file'[d])..Len(file'[d]) : WholeAt(file[d], i)'
         /\ LastBlock(d)'
         /\ GoesOn(q)'
<1> DEFINE s == file[d]
           b == BlockOf(q, n[q], todo[q], idseq[q])
           t == Append(s, b)
           list == idseq[q]
           last == Len(s) + 1
<1>0. /\ TypeOK /\ s \in Seq(Blocks) /\ RecordsFollow(s) /\ b \in Blocks /\ b.part \in RecordParts
      /\ list \in Seq(Activity) /\ pc[q] = "write" /\ todo[q] \in Cursors /\ n[q] \in Nat
      /\ ofile'[q] = d
  BY PutBlock, OfSadc, FileNameKept DEF HInv, PutsRecord
<1>1. /\ file'[d] = t /\ n'[q] = n[q]
      /\ todo'[q] = After(Args[q].run, todo[q], list)
      /\ \/ pc'[q] = "write" /\ todo'[q] # End
         \/ todo'[q] = End /\ pc'[q] # "write"
  BY <1>0 DEF PutsRecord, TypeOK
<1>2. Apart(q)
  BY <1>0, StepApart
<1>3. /\ Len(t) = last /\ Len(s) \in Nat /\ t[last] = b /\ t \in Seq(Blocks)
      /\ \A i \in 1..Len(s) : t[i] = s[i]
  BY <1>0
<1>4. todo[q].part \in RecordParts
  BY <1>0, OfSadc DEF Placed
<1>5. /\ b.part = todo[q].part /\ b.at = todo[q].at /\ b.by = q /\ b.n = n[q]
  BY <1>4 DEF BlockOf, RecordBlock, RecordParts
<1>6. HeaderDone(t) => HeaderDone(s) /\ FirstRecord(t) = FirstRecord(s)
  BY <1>0, HeaderKept
<1>7. idseq[q] = ListOf(d) /\ AsListed(s, list) /\ list = ListOf(d)
  BY <1>0 DEF ListInv, Lists, Recording
<1>8. AsListed(t, list)
  BY <1>0, <1>7, RecordListed
<1> HIDE DEF t, list, b
<1> SUFFICES ASSUME HeaderDone(t)
             PROVE  /\ \A i \in FirstRecord(t)..Len(t) : WholeAt(file[d], i)'
                    /\ LastBlock(d)'
                    /\ GoesOn(q)'
  BY <1>0, <1>1 DEF LastBlock, GoesOn
<1>9. /\ HeaderDone(s) /\ FirstRecord(t) = FirstRecord(s)
      /\ Announced(s) = list /\ Announced(t) = list
  BY <1>0, <1>3, <1>6, <1>7, <1>8, AnnouncedList DEF list
<1>10. FirstRecord(s) \in Nat /\ FirstRecord(s) >= 3 /\ FirstRecord(s) <= last
  BY <1>0, <1>3, <1>9, HeaderType DEF HeaderDone, FirstRecord, HeaderBlocks
<1>11. ASSUME NEW i \in FirstRecord(s)..Len(s)
       PROVE  /\ t[i] = s[i] /\ s[i].by \in Sadc /\ s[i].part \in RecordParts
              /\ Following(t, i) = Following(s, i)
  <2>1. i \in 1..Len(s) /\ s[i].part \in RecordParts
    BY <1>0, <1>9, <1>10 DEF RecordsFollow
  <2>2. s[i] \in Blocks
    BY <1>0, <2>1
  <2>3. s[i].by \in Sadc
    BY <2>1, <2>2 DEF Blocks, HeaderBlocks, ActBlocks, RecordBlocks, RecordParts
  <2>4. t[i] = s[i]
    BY <1>3, <2>1
  <2> QED
    BY <1>9, <2>1, <2>3, <2>4 DEF Following
<1>12. Following(t, last) = todo'[q]
  <2>1. Cursor(b.part, b.at) = todo[q]
    BY <1>0, <1>5, CursorIs
  <2>2. Following(t, last) = After(Args[b.by].run, Cursor(b.part, b.at), Announced(t))
    BY <1>3 DEF Following
  <2> QED
    BY <1>1, <1>5, <1>9, <2>1, <2>2
<1>13. \A r \in Sadc : pc[r] = "dead" => pc'[r] = "dead"
  BY <1>0, <1>2 DEF Apart
<1>14. ASSUME NEW i \in FirstRecord(s)..Len(s) PROVE WholeAt(file[d], i)'
  <2>1. WholeAt(s, i)
    BY <1>9, <1>14 DEF RecordInv
  <2>2. i # FirstRecord(s) => i - 1 \in FirstRecord(s)..Len(s)
    BY <1>3, <1>10
  <2>3. i = FirstRecord(s) => ~Continues(s, i)
    <3> SUFFICES ASSUME i = FirstRecord(s) PROVE s[i - 1].part \notin RecordParts
      BY DEF Continues
    <3>1. i - 1 \in 2..(2 + s[2].nact) /\ s[2].nact \in Nat
      BY <1>0, <1>9, HeaderType DEF HeaderDone, FirstRecord, HeaderBlocks
    <3>2. s[i - 1].part \in {"header", "act"}
      BY <1>9, <3>1 DEF HeaderDone
    <3> QED
      BY <3>2 DEF RecordParts
  <2>4. CASE i = FirstRecord(s)
    BY <1>1, <1>9, <1>11, <2>1, <2>3, <2>4 DEF WholeAt
  <2>5. CASE i # FirstRecord(s)
    <3> DEFINE j == i - 1
    <3>1. /\ j \in FirstRecord(s)..Len(s) /\ t[j] = s[j] /\ Following(t, j) = Following(s, j)
          /\ t[i] = s[i] /\ s[j].by \in Sadc
      BY <1>11, <2>2, <2>5
    <3>2. \/ /\ s[j].part \in RecordParts /\ Following(s, j) # End
             /\ s[i] = BlockOf(s[j].by, s[j].n, Following(s, j), Announced(s))
          \/ /\ s[i].part = "rec"
             /\ \/ s[j].part \in RecordParts /\ Following(s, j) = End
                \/ s[j].part \in RecordParts /\ pc[s[j].by] = "dead"
      BY <2>1, <2>5 DEF WholeAt, Continues, EndsRecord
    <3> HIDE DEF j
    <3>3. \/ /\ t[j].part \in RecordParts /\ Following(t, j) # End
             /\ t[i] = BlockOf(t[j].by, t[j].n, Following(t, j), Announced(t))
          \/ /\ t[i].part = "rec"
             /\ \/ t[j].part \in RecordParts /\ Following(t, j) = End
                \/ t[j].part \in RecordParts /\ pc'[t[j].by] = "dead"
      BY <1>9, <1>13, <3>1, <3>2
    <3> QED
      BY <1>1, <3>3 DEF WholeAt, Continues, EndsRecord, j
  <2> QED
    BY <2>4, <2>5
<1>15. ASSUME NEW i, i = last PROVE WholeAt(file[d], i)'
  <2>1. CASE todo[q].part = "rec"
    <3>1. b.part = "rec"
      BY <1>5, <2>1
    <3>2. last = FirstRecord(s) \/ Len(s) \in FirstRecord(s)..Len(s)
      BY <1>3, <1>10
    <3>3. CASE last = FirstRecord(s)
      BY <1>1, <1>3, <1>9, <1>15, <3>1, <3>3 DEF WholeAt
    <3>4. CASE Len(s) \in FirstRecord(s)..Len(s)
      <4> DEFINE j == Len(s)
                 r == s[j].by
      <4>1. /\ t[j] = s[j] /\ r \in Sadc /\ s[j].part \in RecordParts
            /\ Following(t, j) = Following(s, j)
        BY <1>11, <3>4
      <4>2. \/ EndsRecord(s, j)
            \/ pc[r] = "dead"
            \/ pc[r] = "write" /\ ofile[r] = d /\ todo[r] = Following(s, j)
        BY <1>9, <3>4 DEF RecordInv, LastBlock
      <4>3. ~(pc[r] = "write" /\ ofile[r] = d /\ todo[r] = Following(s, j))
        <5> SUFFICES ASSUME pc[r] = "write", ofile[r] = d, todo[r] = Following(s, j) PROVE FALSE
          OBVIOUS
        <5>1. r = q
          BY <1>0, <4>1, OneWriter DEF PutsRecord
        <5>2. Following(s, j).part # "rec"
          BY AfterNotFirst DEF Following
        <5> QED
          BY <2>1, <5>1, <5>2
      <4>4. t[j].part \in RecordParts /\ (Following(t, j) = End \/ pc'[t[j].by] = "dead")
        BY <1>13, <4>1, <4>2, <4>3 DEF EndsRecord
      <4>5. last - 1 = j
        BY <1>3
      <4> HIDE DEF j
      <4> QED
        BY <1>1, <1>3, <1>15, <3>1, <4>4, <4>5 DEF WholeAt, EndsRecord
    <3> QED
      BY <3>2, <3>3, <3>4
  <2>2. CASE todo[q].part # "rec"
    <3> DEFINE j == Len(s)
    <3>1. /\ j >= FirstRecord(s) /\ s[j].part \in RecordParts
          /\ s[j].by = q /\ s[j].n = n[q] /\ todo[q] = Following(s, j)
      BY <1>0, <1>9, <2>2 DEF RecordInv, GoesOn
    <3>2. t[j] = s[j] /\ Following(t, j) = Following(s, j)
      BY <1>3, <1>10, <1>11, <3>1
    <3>3. todo[q] # End
      BY <1>4 DEF End, Cursor, RecordParts
    <3>4. last - 1 = j
      BY <1>3
    <3> HIDE DEF j
    <3>5. t[last] = BlockOf(t[j].by, t[j].n, Following(t, j), Announced(t))
      BY <1>3, <1>9, <3>1, <3>2 DEF b, list
    <3>6. Continues(t, last)
      BY <3>1, <3>2, <3>3, <3>4, <3>5 DEF Continues
    <3> QED
      BY <1>1, <1>15, <3>6 DEF WholeAt
  <2> QED
    BY <2>1, <2>2
<1>16. \A i \in FirstRecord(t)..Len(t) : WholeAt(file[d], i)'
  <2>1. \A i \in FirstRecord(t)..Len(t) : i \in FirstRecord(s)..Len(s) \/ i = last
    BY <1>3, <1>9, <1>10
  <2> QED
    BY <1>14, <1>15, <2>1
<1>17. LastBlock(d)'
  <2>1. \/ EndsRecord(t, last)
        \/ /\ pc'[q] = "write" /\ ofile'[q] = d
           /\ todo'[q] = Following(t, last) /\ n'[q] = b.n
    BY <1>0, <1>1, <1>3, <1>5, <1>12 DEF EndsRecord
  <2> QED
    BY <1>1, <1>3, <1>5, <2>1 DEF LastBlock
<1>18. GoesOn(q)'
  <2>1. pc'[q] = "write" => /\ last >= FirstRecord(t) /\ t[last].part \in RecordParts
                            /\ t[last].by = q /\ t[last].n = n'[q] /\ todo'[q] = Following(t, last)
    BY <1>0, <1>1, <1>3, <1>5, <1>9, <1>10, <1>12
  <2> QED
    BY <1>0, <1>1, <1>3, <2>1 DEF GoesOn
<1> QED
  BY <1>16, <1>17, <1>18

\* A sadc that is not putting a block into its file finds it as it left it, or is
\* about to start a record.
LEMMA GoesOnKept ==
  ASSUME Exclusive, HInv, RecordInv, NEW q \in Sadc, Start(q) \/ Step(q) \/ Die(q),
         Cuts(q) \/ PutsHeader(q) \/ PutsRecord(q) \/ Quiet(q),
         NEW p \in Sadc, ~(p = q /\ PutsRecord(q))
  PROVE  GoesOn(p)'
<1>0. TypeOK /\ ofile[p] \in Day /\ ofile[q] \in Day
  BY OfSadc
<1>1. Apart(q)
  BY <1>0, StepApart
<1>2. CASE p # q
  <2>1. PICK d \in Day : d = ofile[p]
    BY <1>0
  <2>2. /\ pc'[p] = pc[p] /\ ofile'[p] = d /\ n'[p] = n[p] /\ todo'[p] = todo[p]
    BY <1>1, <1>2, <2>1 DEF Apart
  <2>3. CASE file'[d] = file[d]
    <3>1. GoesOn(p)
      BY DEF RecordInv
    <3> QED
      BY <2>1, <2>2, <2>3, <3>1 DEF GoesOn
  <2>4. CASE file'[d] = << >>
    BY <2>2, <2>4 DEF GoesOn, HeaderDone
  <2>5. CASE file'[d] # file[d] /\ file'[d] # << >>
    <3>1. d = ofile[q] /\ lock[ofile[q]] = q
      BY <1>0, <2>5 DEF Cuts, PutsHeader, PutsRecord, Quiet, Makes, TypeOK
    <3>2. pc[p] # "write"
      BY <1>2, <2>1, <3>1, OneWriter
    <3> QED
      BY <2>2, <3>2 DEF GoesOn
  <2> QED
    BY <2>3, <2>4, <2>5
<1>3. CASE p = q
  <2> SUFFICES ASSUME pc'[q] = "write" PROVE todo'[q].part = "rec"
    BY <1>3 DEF GoesOn
  <2>1. pc[q] # "write"
    BY <1>3, WriteOrDie
  <2>2. todo'[q] = Cursor("rec", 0)
    BY <1>0, <2>1, WriteStarts
  <2> QED
    BY <2>2 DEF Cursor
<1> QED
  BY <1>2, <1>3

\* A header that has just been completed has no record yet.
LEMMA NoRecordYet ==
  ASSUME Exclusive, HInv, NEW q \in Sadc, PutsHeader(q), NEW d \in Day, d = ofile[q]
  PROVE  HeaderDone(file'[d]) => FirstRecord(file'[d]) = Len(file'[d]) + 1 /\ Len(file'[d]) \in Nat
<1> DEFINE s == file[d]
           k == pos[q] + 1
           t == Append(s, HeaderBlock(k, idseq[q]))
<1>0. TypeOK /\ s \in Seq(Blocks) /\ file'[d] = t
  BY OfSadc DEF PutsHeader, TypeOK
<1>1. /\ HeaderBlock(k, idseq[q]) \in Blocks /\ Heads(s, idseq[q], pos[q])
      /\ k \in 1..(Len(idseq[q]) + 2) /\ pos[q] \in Nat /\ idseq[q] \in Seq(Activity)
  BY PutBlock, OfSadc
<1>2. Heads(t, idseq[q], k) /\ t \in Seq(Blocks) /\ k \in Nat
  BY <1>0, <1>1, HeadsLonger
<1> HIDE DEF k, t
<1>3. Len(t) = k /\ k <= Len(idseq[q]) + 2
  BY <1>1, <1>2 DEF Heads
<1>4. HeaderDone(t) => FirstRecord(t) = k + 1
  BY <1>1, <1>2, <1>3, HeadsDone
<1> QED
  BY <1>0, <1>2, <1>3, <1>4

LEMMA InitRecords == Init => RecordInv
<1> SUFFICES ASSUME Init PROVE RecordInv
  OBVIOUS
<1>1. \A p \in Sadc : GoesOn(p)
  BY DEF Init, GoesOn
<1>2. ASSUME NEW d \in Day PROVE HeaderDone(file[d]) => FirstRecord(file[d]) = Len(file[d]) + 1 /\ Len(file[d]) \in Nat
  <2>1. file[d] = Former(InitFile[d]) /\ InitFile[d] \in FileKinds
    BY SadcFileAssumption DEF Init
  <2>2. \/ file[d] \in Bare
        \/ file[d] = << OurMagic, Header(1, FALSE, FALSE), ActBlock(1, TRUE) >>
        \/ file[d] = << OurMagic, Header(1, FALSE, TRUE), ActBlock(1, FALSE) >>
        \/ file[d] = << OurMagic, Header(1, TRUE, TRUE), ActBlock(1, TRUE) >>
        \/ file[d] = << OurMagic, Header(1, FALSE, TRUE), ActBlock(1, TRUE) >>
    BY <2>1, FormerFiles, Zenon DEF FileKinds, Bare
  <2>3. CASE file[d] \in Bare
    BY <2>3, BareShort, Complete
  <2>4. ASSUME NEW b, NEW c, NEW e, file[d] = << OurMagic, Header(1, b, c), ActBlock(1, e) >>
        PROVE  FirstRecord(file[d]) = Len(file[d]) + 1 /\ Len(file[d]) \in Nat
    <3>1. Len(file[d]) = 3 /\ file[d][2] = Header(1, b, c)
      BY <2>4
    <3> QED
      BY <3>1 DEF FirstRecord, Header
  <2> QED
    BY <2>2, <2>3, <2>4, Zenon
<1>3. ASSUME NEW d \in Day PROVE LastBlock(d)
  BY <1>2 DEF LastBlock
<1>4. ASSUME NEW d \in Day, HeaderDone(file[d]), NEW i \in FirstRecord(file[d])..Len(file[d]) PROVE FALSE
  BY <1>2, <1>4
<1> QED
  BY <1>1, <1>3, <1>4 DEF RecordInv

LEMMA NextRecords == Exclusive /\ SameLists /\ HInv /\ ListInv /\ RecordInv /\ [Next]_vars => RecordInv'
<1> SUFFICES ASSUME Exclusive, SameLists, HInv, ListInv, RecordInv, [Next]_vars PROVE RecordInv'
  OBVIOUS
<1>1. ASSUME NEW q \in Sadc, Start(q) \/ Step(q) \/ Die(q) PROVE RecordInv'
  <2>0. TypeOK /\ ofile[q] \in Day
    BY OfSadc
  <2>1. Cuts(q) \/ PutsHeader(q) \/ PutsRecord(q) \/ Quiet(q)
    BY <1>1, StepOutcome
  <2>2. ASSUME NEW d \in Day
        PROVE  /\ HeaderDone(file'[d]) =>
                    \A i \in FirstRecord(file'[d])..Len(file'[d]) : WholeAt(file[d], i)'
               /\ LastBlock(d)'
    <3>1. CASE file'[d] = file[d]
      BY <1>1, <3>1, RecordsUndisturbed
    <3>2. CASE file'[d] = << >>
      BY <3>2 DEF HeaderDone, LastBlock
    <3>3. CASE d = ofile[q] /\ PutsHeader(q)
      <4>1. HeaderDone(file'[d]) => FirstRecord(file'[d]) = Len(file'[d]) + 1 /\ Len(file'[d]) \in Nat
        BY <3>3, NoRecordYet
      <4> QED
        BY <4>1 DEF LastBlock
    <3>4. CASE d = ofile[q] /\ PutsRecord(q)
      BY <1>1, <3>4, RecordsExtended
    <3> QED
      BY <2>0, <2>1, <3>1, <3>2, <3>3, <3>4 DEF Cuts, PutsHeader, PutsRecord, Quiet, Makes, TypeOK
  <2>3. ASSUME NEW p \in Sadc PROVE GoesOn(p)'
    <3>1. CASE p = q /\ PutsRecord(q)
      BY <1>1, <2>0, <3>1, RecordsExtended
    <3>2. CASE ~(p = q /\ PutsRecord(q))
      BY <1>1, <2>1, <3>2, GoesOnKept
    <3> QED
      BY <3>1, <3>2
  <2> QED
    BY <2>2, <2>3 DEF RecordInv
<1>2. CASE Midnight \/ UNCHANGED vars
  <2>1. UNCHANGED << file, pc, ofile, n, todo >>
    BY <1>2 DEF Midnight, vars
  <2> QED
    BY <2>1 DEF RecordInv, WholeAt, LastBlock, GoesOn
<1> QED
  BY <1>1, <1>2 DEF Next

\* "Without locking, this situation can result in a corrupted system activity file":
\* with the lock, whatever the number of sadc processes, in whatever order they go on
\* and wherever they are killed, the file is whole records after its header.
THEOREM RecordsWholeCorrect ==
  Exclusive /\ SameLists => (Spec => []RecordsWhole)
<1> SUFFICES ASSUME Exclusive, SameLists PROVE Spec => []RecordsWhole
  OBVIOUS
<1>1. HInv /\ [Next]_vars => HInv'
  BY NextHeaders
<1>2. Init => ListInv
  BY InitLists
<1>3. HInv /\ ListInv /\ [Next]_vars => ListInv'
  BY NextLists
<1>4. HInv /\ ListInv /\ RecordInv /\ [Next]_vars => RecordInv'
  BY NextRecords
<1>5. RecordInv => RecordsWhole
  BY RecordInvWhole
<1> QED
  BY <1>1, <1>2, <1>3, <1>4, <1>5, InitHeaders, InitRecords, PTL DEF Spec
-----------------------------------------------------------------------------
(***************************************************************************)
(* Files that sadc processes share, for any number of them, that rotate or *)
(* not, as long as no file may be created by one sadc while another one    *)
(* uses it.  Without any lock, the list of the file prevails, and what one *)
(* sadc writes at midnight to the old file and to the new one is the same. *)
(* With the lock of -L where a file is shared, SadcFile implements         *)
(* DailyLog.                                                               *)
(***************************************************************************)

\* The sadc that may open the file of day d: those that rotate, on any day.
Users(d) == { p \in Sadc : Args[p].rotat \/ Args[p].outfile = d }

\* A file that can be appended to, so that nobody creates it again.  (The file of
\* a month ago is created again by a sadc that rotates, only.)
Kept(d) ==
  \/ InitFile[d] = "current"
  \/ InitFile[d] = "past" /\ \A p \in Users(d) : ~Args[p].rotat
Alone(d) == \A p, q \in Users(d) : p = q

\* What creates a file is not alone to be able to: two sadc may both find it
\* missing, and the second one truncates what the first one wrote.  Here there
\* are no such files.
Owned == \A d \in Day : Kept(d) \/ Alone(d)

-----------------------------------------------------------------------------
(* The records of a file.                                                   *)

\* The records of S that end with one of the first i blocks, from those of the first i - 1.
Upto(s, S, f, i) ==
  IF i < FirstRecord(s) THEN << >>
  ELSE IF i \in S THEN Append(f[i - 1], << s[i].by, s[i].n >>)
  ELSE f[i - 1]
IsUpto(s, S, f) == f = [i \in 0..Len(s) |-> Upto(s, S, f, i)]

LEMMA UptoSame ==
  ASSUME NEW s, NEW S, NEW f, NEW g, NEW i, f[i - 1] = g[i - 1]
  PROVE  Upto(s, S, f, i) = Upto(s, S, g, i)
BY DEF Upto

LEMMA UptoAt ==
  ASSUME NEW s, NEW S, NEW f, IsUpto(s, S, f), NEW i \in 0..Len(s)
  PROVE  f[i] = Upto(s, S, f, i)
BY Zenon DEF IsUpto

LEMMA FirstRecordType ==
  ASSUME NEW s \in Seq(Blocks), HeaderDone(s)
  PROVE  /\ s[2] \in Blocks /\ s[2].part = "header" /\ s[2].nact \in Nat
         /\ Len(s) \in Nat /\ Len(s) >= 2 + s[2].nact
         /\ FirstRecord(s) \in Nat /\ FirstRecord(s) >= 3 /\ Len(s) + 1 >= FirstRecord(s)
<1>1. Len(s) \in Nat /\ Len(s) >= 2 /\ s[2].part = "header" /\ Len(s) >= 2 + s[2].nact
  BY Complete
<1>2. s[2] \in Blocks
  BY <1>1
<1>3. s[2].nact \in Nat
  BY <1>1, <1>2, HeaderType DEF HeaderBlocks
<1> QED
  BY <1>1, <1>2, <1>3 DEF FirstRecord

\* The recursive function of RecordsAt exists.
LEMMA UptoExists ==
  ASSUME NEW s \in Seq(Blocks), HeaderDone(s), NEW S
  PROVE  \E f : IsUpto(s, S, f)
<1> DEFINE M == { m \in Nat : m <= Len(s) => \E f : f = [i \in 0..m |-> Upto(s, S, f, i)] }
<1>0. Len(s) \in Nat /\ FirstRecord(s) \in Nat /\ FirstRecord(s) >= 3
  BY FirstRecordType
<1>1. 0 \in M
  <2> DEFINE f == [i \in 0..0 |-> << >>]
  <2>1. \A i \in 0..0 : Upto(s, S, f, i) = << >>
    BY <1>0 DEF Upto
  <2>2. f = [i \in 0..0 |-> Upto(s, S, f, i)]
    BY <2>1
  <2> QED
    BY <2>2
<1>2. ASSUME NEW m \in Nat, m \in M PROVE m + 1 \in M
  <2> SUFFICES ASSUME m + 1 <= Len(s) PROVE \E f : f = [i \in 0..(m + 1) |-> Upto(s, S, f, i)]
    OBVIOUS
  <2>1. PICK f : f = [i \in 0..m |-> Upto(s, S, f, i)]
    BY <1>0, <1>2
  <2> DEFINE g == [i \in 0..(m + 1) |-> IF i = m + 1 THEN Upto(s, S, f, i) ELSE f[i]]
  <2>2. \A i \in 0..m : g[i] = f[i]
    OBVIOUS
  <2>3. \A i \in 0..(m + 1) : g[i] = Upto(s, S, f, i)
    BY <2>1
  <2>4. \A i \in 1..(m + 1) : g[i - 1] = f[i - 1]
    BY <2>2
  <2>5. Upto(s, S, f, 0) = << >> /\ Upto(s, S, g, 0) = << >>
    BY <1>0 DEF Upto
  <2> HIDE DEF g
  <2>6. \A i \in 1..(m + 1) : Upto(s, S, f, i) = Upto(s, S, g, i)
    BY <2>4, UptoSame
  <2>7. \A i \in 0..(m + 1) : g[i] = Upto(s, S, g, i)
    <3> TAKE i \in 0..(m + 1)
    <3>1. i = 0 \/ i \in 1..(m + 1)
      OBVIOUS
    <3> QED
      BY <2>3, <2>5, <2>6, <3>1
  <2>8. g = [i \in 0..(m + 1) |-> Upto(s, S, g, i)]
    BY <2>7 DEF g
  <2> QED
    BY <2>8
<1>3. Len(s) \in M
  <2> HIDE DEF M
  <2> QED
    BY <1>0, <1>1, <1>2, EveryNumber
<1> QED
  BY <1>0, <1>3 DEF IsUpto

\* And there is only one.
LEMMA RecordsUpto ==
  ASSUME NEW s \in Seq(Blocks), HeaderDone(s), NEW S, NEW f, IsUpto(s, S, f)
  PROVE  RecordsAt(s, S) = f[Len(s)]
<1> DEFINE g == CHOOSE h : h = [i \in 0..Len(s) |->
                    IF i < FirstRecord(s) THEN << >>
                    ELSE IF i \in S THEN Append(h[i - 1], << s[i].by, s[i].n >>)
                    ELSE h[i - 1]]
<1>0. Len(s) \in Nat /\ FirstRecord(s) \in Nat /\ FirstRecord(s) >= 3
  BY FirstRecordType
<1>1. IsUpto(s, S, g)
  <2>1. IsUpto(s, S, CHOOSE h : IsUpto(s, S, h))
    BY UptoExists
  <2>2. g = [i \in 0..Len(s) |->
                    IF i < FirstRecord(s) THEN << >>
                    ELSE IF i \in S THEN Append(g[i - 1], << s[i].by, s[i].n >>)
                    ELSE g[i - 1]]
    BY <2>1 DEF IsUpto, Upto
  <2> HIDE DEF g
  <2> QED
    BY <2>2 DEF IsUpto, Upto
<1>2. RecordsAt(s, S) = g[Len(s)]
  BY Zenon DEF RecordsAt
<1> HIDE DEF g
<1>3. \A i \in 0..Len(s) : g[i] = Upto(s, S, g, i) /\ f[i] = Upto(s, S, f, i)
  BY <1>1 DEF IsUpto
<1> DEFINE T == { i \in 0..Len(s) : f[i] # g[i] }
<1>4. T = {}
  <2> SUFFICES ASSUME T # {} PROVE FALSE
    OBVIOUS
  <2>0. T \subseteq Nat
    BY <1>0
  <2>1. PICK i \in T : \A j \in T : i <= j
    <3> HIDE DEF T
    <3> QED
      BY <2>0, LowestNumber
  <2>2. i # 0
    <3>1. 0 \in 0..Len(s) /\ Upto(s, S, f, 0) = << >> /\ Upto(s, S, g, 0) = << >>
      BY <1>0 DEF Upto
    <3>2. f[0] = g[0]
      BY <1>3, <3>1
    <3> QED
      BY <2>1, <3>2
  <2>3. i - 1 \in 0..Len(s) /\ i - 1 \notin T
    BY <1>0, <2>1, <2>2
  <2>4. Upto(s, S, f, i) = Upto(s, S, g, i)
    BY <2>3, UptoSame
  <2> QED
    BY <1>3, <2>1, <2>4
<1> QED
  BY <1>0, <1>2, <1>4

\* A block of the file before it was added to.
LEMMA EndsRecordKept ==
  ASSUME NEW s \in Seq(Blocks), NEW b \in Blocks, HeaderDone(s), NEW i \in 1..Len(s)
  PROVE  /\ Append(s, b)[i] = s[i]
         /\ EndsRecord(Append(s, b), i) <=> EndsRecord(s, i)
<1> DEFINE t == Append(s, b)
<1>1. t[i] = s[i]
  OBVIOUS
<1>2. Announced(t) = Announced(s)
  BY HeaderKept
<1> HIDE DEF t
<1>3. EndsRecord(t, i) <=> EndsRecord(s, i)
  BY <1>1, <1>2 DEF EndsRecord, Following
<1> QED
  BY <1>1, <1>3 DEF t

LEMMA EndsAdded ==
  ASSUME NEW s \in Seq(Blocks), NEW b \in Blocks, HeaderDone(s)
  PROVE  Ends(Append(s, b)) = IF EndsRecord(Append(s, b), Len(s) + 1)
                                THEN Ends(s) \cup {Len(s) + 1} ELSE Ends(s)
<1> DEFINE t == Append(s, b)
<1>0. /\ Len(s) \in Nat /\ Len(t) = Len(s) + 1 /\ FirstRecord(s) \in Nat /\ FirstRecord(s) >= 3
      /\ Len(s) + 1 >= FirstRecord(s)
  BY FirstRecordType
<1>1. FirstRecord(t) = FirstRecord(s)
  BY HeaderKept
<1>2. \A i \in 1..Len(s) : EndsRecord(t, i) <=> EndsRecord(s, i)
  BY EndsRecordKept
<1> HIDE DEF t
<1> QED
  BY <1>0, <1>1, <1>2 DEF Ends, t

\* A file that is added to has the same records, and one more when the new block is
\* counted among those that end one.
LEMMA AtAdded ==
  ASSUME NEW s \in Seq(Blocks), NEW b \in Blocks, HeaderDone(s), NEW S \in SUBSET (1..Len(s)),
         NEW T, T = S \/ T = S \cup {Len(s) + 1}
  PROVE  RecordsAt(Append(s, b), T) =
           IF Len(s) + 1 \in T THEN Append(RecordsAt(s, S), << b.by, b.n >>) ELSE RecordsAt(s, S)
<1> DEFINE t == Append(s, b)
<1>0. /\ Len(s) \in Nat /\ Len(t) = Len(s) + 1 /\ FirstRecord(s) \in Nat /\ FirstRecord(s) >= 3
      /\ Len(s) + 1 >= FirstRecord(s) /\ t \in Seq(Blocks) /\ t[Len(s) + 1] = b
  BY FirstRecordType
<1>1. HeaderDone(t) /\ FirstRecord(t) = FirstRecord(s)
  BY HeaderKept
<1>2. \A i \in 1..Len(s) : t[i] = s[i] /\ (i \in T <=> i \in S)
  BY <1>0
<1> HIDE DEF t
<1>3. PICK g : IsUpto(t, T, g)
  BY <1>0, <1>1, UptoExists
<1> DEFINE f == [i \in 0..Len(s) |-> g[i]]
<1>4. ASSUME NEW i \in 0..Len(s) PROVE f[i] = Upto(s, S, f, i)
  <2>1. g[i] = Upto(t, T, g, i)
    <3>1. i \in 0..Len(t)
      BY <1>0
    <3> QED
      BY <1>3, <3>1, UptoAt
  <2>2. CASE i < FirstRecord(s)
    BY <1>1, <2>1, <2>2 DEF Upto
  <2>3. CASE i >= FirstRecord(s)
    <3>1. i \in 1..Len(s) /\ i - 1 \in 0..Len(s)
      BY <1>0, <2>3
    <3>2. f[i] = g[i] /\ f[i - 1] = g[i - 1]
      BY <3>1
    <3>3. t[i] = s[i] /\ (i \in T <=> i \in S)
      BY <1>2, <3>1
    <3> HIDE DEF f
    <3> QED
      BY <1>1, <2>1, <3>2, <3>3 DEF Upto
  <2> QED
    BY <1>0, <2>2, <2>3
<1>5. IsUpto(s, S, f)
  BY <1>4 DEF IsUpto
<1>6. RecordsAt(s, S) = g[Len(s)]
  <2>1. f[Len(s)] = g[Len(s)]
    BY <1>0
  <2> HIDE DEF f
  <2> QED
    BY <1>5, <2>1, RecordsUpto
<1>7. RecordsAt(t, T) = g[Len(s) + 1]
  BY <1>0, <1>1, <1>3, RecordsUpto
<1>8. g[Len(s) + 1] = Upto(t, T, g, Len(s) + 1)
  <2>1. Len(s) + 1 \in 0..Len(t)
    BY <1>0
  <2> QED
    BY <1>3, <2>1, UptoAt
<1>9. ~(Len(s) + 1 < FirstRecord(t)) /\ (Len(s) + 1) - 1 = Len(s)
  BY <1>0, <1>1
<1>10. RecordsAt(t, T) = IF Len(s) + 1 \in T THEN Append(RecordsAt(s, S), << b.by, b.n >>)
                         ELSE RecordsAt(s, S)
  BY <1>0, <1>6, <1>7, <1>8, <1>9 DEF Upto
<1> QED
  BY <1>10 DEF t

LEMMA RecordsAdded ==
  ASSUME NEW s \in Seq(Blocks), NEW b \in Blocks, HeaderDone(s)
  PROVE  Records(Append(s, b)) =
           IF EndsRecord(Append(s, b), Len(s) + 1) THEN Append(Records(s), << b.by, b.n >>)
           ELSE Records(s)
<1> DEFINE t == Append(s, b)
           S == Ends(s)
           T == Ends(t)
<1>0. Len(s) \in Nat /\ FirstRecord(s) \in Nat /\ FirstRecord(s) >= 3
  BY FirstRecordType
<1>1. S \in SUBSET (1..Len(s))
  BY <1>0 DEF Ends
<1>2. T = IF EndsRecord(t, Len(s) + 1) THEN S \cup {Len(s) + 1} ELSE S
  BY EndsAdded
<1>3. HeaderDone(t)
  BY HeaderKept
<1> HIDE DEF S, T
<1>2a. T = S \/ T = S \cup {Len(s) + 1}
  BY <1>2
<1>4. RecordsAt(t, T) = IF Len(s) + 1 \in T THEN Append(RecordsAt(s, S), << b.by, b.n >>)
                        ELSE RecordsAt(s, S)
  BY <1>1, <1>2a, AtAdded, Zenon
<1>5. Len(s) + 1 \in T <=> EndsRecord(t, Len(s) + 1)
  BY <1>0, <1>1, <1>2
<1> HIDE DEF t
<1>6. Records(t) = RecordsAt(t, T) /\ Records(s) = RecordsAt(s, S)
  BY <1>3 DEF Records, S, T
<1> QED
  BY <1>4, <1>5, <1>6 DEF t

\* A file of which only the header is there has none.
LEMMA NoneYet ==
  ASSUME NEW s \in Seq(Blocks), HeaderDone(s), Len(s) < FirstRecord(s), NEW S
  PROVE  RecordsAt(s, S) = << >>
<1>0. Len(s) \in Nat /\ FirstRecord(s) \in Nat
  BY FirstRecordType
<1>1. PICK f : IsUpto(s, S, f)
  BY UptoExists
<1>2. f[Len(s)] = Upto(s, S, f, Len(s))
  BY <1>0, <1>1 DEF IsUpto
<1> QED
  BY <1>0, <1>1, <1>2, RecordsUpto DEF Upto

LEMMA NoRecords ==
  ASSUME NEW s \in Seq(Blocks), HeaderDone(s), Len(s) < FirstRecord(s)
  PROVE  Records(s) = << >> /\ Ends(s) = {}
<1>0. Len(s) \in Nat /\ FirstRecord(s) \in Nat
  BY FirstRecordType
<1>1. Ends(s) = {}
  BY <1>0 DEF Ends
<1> QED
  BY <1>1, NoneYet DEF Records

-----------------------------------------------------------------------------
(* The inductive invariant.                                                 *)

\* What DailyLog sees of a file.
Empty == Log!NoLog

\* The header of a file that nobody creates again stays.
KeepsHeader(d) ==
  Kept(d) => Len(file[d]) >= 3 /\ \A i \in 1..3 : file[d][i] = Former(InitFile[d])[i]
HeaderLists(d) == Len(file[d]) >= 2 /\ file[d][2].part = "header" => file[d][2].nact >= 1
RecordsAre(d) ==
  HeaderDone(file[d]) =>
    /\ Records(file[d]) \in Seq(Sadc \X Nat)
    /\ ToSet(Records(file[d])) = { << file[d][i].by, file[d][i].n >> : i \in Ends(file[d]) }
Content(d) == KeepsHeader(d) /\ HeaderLists(d) /\ RecordsAre(d)

Names(p) ==
  /\ pc[p] # "off" => p \in Users(ofile[p]) /\ idseq[p] # << >>
  /\ ~Args[p].rotat => newofile[p] = ofile[p]
  /\ ofile[p] <= newofile[p]
  /\ Args[p].rotat => newofile[p] <= day

Counts(p) ==
  /\ pc[p] = "main" => n[p] = 0
  /\ pc[p] \in {"again", "written", "pause"} => n[p] > 0
  /\ pc[p] = "write" /\ Args[p].run = "stats" => n[p] > 0

\* What open_ofile() has read is what the file holds.
Opens(p, s) ==
  /\ pc[p] \in Reading => mode[p] = "append"
  /\ pc[p] \in {"header", "acts"} => Len(s) >= 1 /\ s[1] = OurMagic
  /\ pc[p] = "acts" =>
       /\ pos[p] = 2 + Len(seen[p]) /\ Len(s) >= pos[p] /\ Len(seen[p]) <= filehdr[p].nact
       /\ s[2] = filehdr[p] /\ s[2].part = "header" /\ s[2].fit /\ ~(s[2].past /\ Args[p].rotat)
       /\ \A i \in 1..Len(seen[p]) : s[2 + i] = OurAct(seen[p][i])

\* What create_sa_file() is about to replace is no log.
Creates(p, s) ==
  /\ pc[p] \in Creating => ~Kept(ofile[p])
  /\ pc[p] \in {"create", "lockfile", "trunc"} => ~Logged(s)
  /\ pc[p] \in {"lockfile", "trunc"} => mode[p] = "write" /\ pos[p] = 0
  /\ pc[p] = "sethdr" =>
       /\ mode[p] = "write" /\ Heads(s, idseq[p], pos[p]) /\ pos[p] < Len(idseq[p]) + 2
       /\ todo[p] = HeaderCursor(pos[p] + 1)

\* A sadc past open_ofile() writes what the header announces, at the end of the file.
Running == Recording \cup {"again"}
Logs(p, s) ==
  pc[p] \in Running =>
    /\ HeaderDone(s) /\ Announced(s) = idseq[p]
    /\ \/ mode[p] = "append"
       \/ mode[p] = "write" /\ ~Kept(ofile[p]) /\ pos[p] = Len(s)
    /\ pc[p] = "write" => todo[p].part \in RecordParts

Own(p) ==
  LET s == file[ofile[p]] IN
    Names(p) /\ Counts(p) /\ Opens(p, s) /\ Creates(p, s) /\ Logs(p, s)

\* A block that p has written to the file of day d, of its k-th record.
BeforeFirst == Opening \cup {"main", "again"}
Mark(p, d, k) ==
  /\ pc[p] # "off" /\ d <= ofile[p] /\ k <= n[p]
  /\ pc[p] \in BeforeFirst => d < ofile[p]
  /\ n[p] = 0 => pc[p] \in {"write", "special"} \cup Over
Mine(p) ==
  /\ \A d \in Day : \A i \in 1..Len(file[d]) :
       file[d][i].part \in RecordParts /\ file[d][i].by = p => Mark(p, d, file[d][i].n)
  /\ pc[p] = "write" =>
       \A i \in Ends(file[ofile[p]]) : file[ofile[p]][i].by = p => file[ofile[p]][i].n < n[p]

RInv ==
  /\ Typed
  /\ \A d \in Day : Content(d)
  /\ \A p \in Sadc : Own(p) /\ Mine(p)

-----------------------------------------------------------------------------
(* What one step does.                                                      *)

\* The marks of q stay true, and a record that begins is a new one in its file.
Marks(q) ==
  /\ \A d \in Day, k \in Nat : Mark(q, d, k) => Mark(q, d, k)'
  /\ pc'[q] = "write" /\ pc[q] # "write" => ofile'[q] = ofile[q] /\ (n'[q] > n[q] \/ pc[q] \in BeforeFirst)

Still(q) == file' = file /\ (pc[q] = "write" => pc'[q] # "write") /\ Own(q)' /\ Marks(q)

Empties(q) ==
  /\ pc[q] \in Creating /\ ~Logged(file[ofile[q]])
  /\ file' = [file EXCEPT ![ofile[q]] = << >>]
  /\ ofile'[q] = ofile[q] /\ pc'[q] # "write"
  /\ Own(q)' /\ Marks(q)

AddsHeader(q) ==
  /\ pc[q] = "sethdr"
  /\ file' = [file EXCEPT ![ofile[q]] = Append(@, HeaderBlock(pos[q] + 1, idseq[q]))]
  /\ ofile'[q] = ofile[q] /\ pc'[q] # "write"
  /\ Own(q)' /\ Marks(q)

AddsRecord(q) ==
  /\ pc[q] = "write"
  /\ file' = [file EXCEPT ![ofile[q]] = Append(@, BlockOf(q, n[q], todo[q], idseq[q]))]
  /\ ofile'[q] = ofile[q] /\ n'[q] = n[q]
  /\ todo'[q] = After(Args[q].run, todo[q], idseq[q])
  /\ \/ pc'[q] = "write" /\ todo'[q] # End
     \/ pc'[q] \in {"written", "special"} /\ todo'[q] = End
  /\ Own(q)' /\ Marks(q)

\* What the invariant says of one sadc.
LEMMA OfUser ==
  ASSUME Owned, RInv, NEW q \in Sadc
  PROVE  /\ TypeOK /\ Own(q) /\ Names(q) /\ Counts(q)
         /\ Opens(q, file[ofile[q]]) /\ Creates(q, file[ofile[q]]) /\ Logs(q, file[ofile[q]])
         /\ ofile[q] \in Day /\ file[ofile[q]] \in Seq(Blocks) /\ idseq[q] \in Seq(Activity)
         /\ pos[q] \in Nat /\ n[q] \in Nat /\ todo[q] \in Cursors /\ Content(ofile[q])
<1>1. TypeOK /\ Own(q)
  BY DEF RInv, Typed
<1>2. ofile[q] \in Day
  BY <1>1 DEF TypeOK
<1> QED
  BY <1>1, <1>2 DEF TypeOK, Own, RInv

\* exit().
LEMMA ExitStill ==
  ASSUME Owned, RInv, NEW q \in Sadc, pc[q] # "off", NEW label \in Over, Exit(q, label)
  PROVE  Still(q)
<1>1. TypeOK /\ Names(q)
  BY OfUser
<1>2. /\ file' = file /\ pc'[q] = label /\ day' = day
      /\ ofile'[q] = ofile[q] /\ newofile'[q] = newofile[q] /\ idseq'[q] = idseq[q] /\ n'[q] = n[q]
  BY <1>1 DEF TypeOK, Exit, Goto
<1>3. Own(q)'
  BY <1>1, <1>2 DEF Own, Names, Counts, Opens, Creates, Logs, Over, Running, Recording, Reading, Creating
<1>4. Marks(q)
  BY <1>2 DEF Marks, Mark, Over, BeforeFirst, Opening, Creating
<1> QED
  BY <1>2, <1>3, <1>4 DEF Still, Over

\* "close(*ofd); create_sa_file(ofd, ofile);" of a file that is no log.
LEMMA RecreateStill ==
  ASSUME Owned, RInv, NEW q \in Sadc, pc[q] \in Reading, Recreate(q),
         ~Kept(ofile[q]), ~Logged(file[ofile[q]])
  PROVE  Still(q)
<1>1. TypeOK /\ Names(q)
  BY OfUser
<1>2. /\ file' = file /\ pc'[q] = "create" /\ day' = day
      /\ ofile'[q] = ofile[q] /\ newofile'[q] = newofile[q] /\ idseq'[q] = idseq[q] /\ n'[q] = n[q]
  BY <1>1 DEF TypeOK, Recreate, Goto, shared
<1>3. Names(q)' /\ Counts(q)'
  BY <1>1, <1>2 DEF Names, Counts, Reading
<1>4. /\ Opens(q, file[ofile[q]])' /\ Creates(q, file[ofile[q]])' /\ Logs(q, file[ofile[q]])'
  BY <1>2 DEF Opens, Creates, Logs, Running, Recording, Reading, Creating
<1>5. Own(q)'
  BY <1>3, <1>4 DEF Own
<1>6. Marks(q)
  BY <1>2 DEF Marks, Mark, Over, BeforeFirst, Opening, Reading, Creating
<1> QED
  BY <1>2, <1>5, <1>6 DEF Still

LEMMA RefuseStill ==
  ASSUME Owned, RInv, NEW q \in Sadc, pc[q] \in Reading, Refuse(q),
         ~Kept(ofile[q]), ~Logged(file[ofile[q]])
  PROVE  Still(q)
BY RecreateStill, ExitStill DEF Refuse, Over, Reading

\* A step of open_ofile() or create_sa_file() that leaves the files alone.
LEMMA OpeningStill ==
  ASSUME Owned, RInv, NEW q \in Sadc, pc[q] \in Opening, pc'[q] \in Opening,
         file' = file, day' = day, ofile'[q] = ofile[q], newofile'[q] = newofile[q],
         idseq'[q] = idseq[q], n'[q] = n[q],
         Opens(q, file[ofile[q]])', Creates(q, file[ofile[q]])'
  PROVE  Still(q)
<1>1. TypeOK /\ Names(q)
  BY OfUser
<1>2. Names(q)' /\ Counts(q)'
  BY <1>1 DEF Names, Counts, Opening, Creating, Reading
<1>3. Logs(q, file[ofile[q]])'
  BY DEF Logs, Running, Recording, Opening, Creating, Reading
<1>4. Own(q)'
  BY <1>2, <1>3 DEF Own
<1>5. Marks(q)
  BY DEF Marks, Mark, Over, BeforeFirst, Opening, Creating, Reading
<1> QED
  BY <1>4, <1>5 DEF Still, Opening, Creating

\* Start(), of a sadc that has written nothing yet.
LEMMA StartStill ==
  ASSUME Owned, RInv, NEW q \in Sadc, Start(q)
  PROVE  Still(q)
<1>1. TypeOK /\ Names(q) /\ pc[q] = "off"
  BY OfUser DEF Start
<1>2. /\ file' = file /\ day' = day /\ pc'[q] = "open" /\ n' = n
      /\ ofile'[q] = (IF Args[q].rotat THEN day ELSE Args[q].outfile)
      /\ newofile'[q] = ofile'[q] /\ idseq'[q] = Args[q].wants
  BY <1>1 DEF TypeOK, Start, Goto, shared
<1>3. ofile'[q] \in Day /\ Args[q].wants # << >> /\ day \in Day
  BY <1>1, <1>2, SadcFileAssumption DEF TypeOK, CommandLine
<1>4. q \in Users(ofile'[q])
  BY <1>2 DEF Users
<1>5. Names(q)'
  <2>1. \A d : d = ofile'[q] => q \in Users(d)
    BY <1>4
  <2>2. ofile'[q] <= newofile'[q]
    BY <1>2, <1>3 DEF Day
  <2>3. Args[q].rotat => newofile'[q] <= day'
    BY <1>2, <1>3 DEF Day
  <2> QED
    BY <1>2, <1>3, <2>1, <2>2, <2>3 DEF Names, Users
<1>6. Counts(q)' /\ Opens(q, file[ofile[q]])' /\ Creates(q, file[ofile[q]])' /\ Logs(q, file[ofile[q]])'
  BY <1>2 DEF Counts, Opens, Creates, Logs, Running, Recording, Opening, Creating, Reading
<1>7. Own(q)'
  BY <1>5, <1>6 DEF Own
<1>8. Marks(q)
  BY <1>1, <1>2 DEF Marks, Mark
<1> QED
  BY <1>1, <1>2, <1>7, <1>8 DEF Still

\* A file that nobody creates again can be appended to by whoever uses it.
LEMMA KeptHeader ==
  ASSUME Owned, RInv, NEW d \in Day, Kept(d)
  PROVE  LET s == file[d] IN
         /\ Len(s) >= 3 /\ s # NoFile /\ s # << >>
         /\ s[1] = OurMagic /\ s[2].part = "header" /\ s[2].nact = 1 /\ s[2].fit
         /\ s[3] = OurAct(1)
         /\ s[2].past => \A p \in Users(d) : ~Args[p].rotat
<1> DEFINE s == file[d]
<1>1. /\ Len(s) >= 3 /\ s[1] = Former(InitFile[d])[1] /\ s[2] = Former(InitFile[d])[2]
      /\ s[3] = Former(InitFile[d])[3]
  BY DEF RInv, Content, KeepsHeader
<1>2. \/ InitFile[d] = "current"
      \/ InitFile[d] = "past" /\ \A p \in Users(d) : ~Args[p].rotat
  BY DEF Kept
<1>3. /\ Former("current") = << OurMagic, Header(1, FALSE, TRUE), OurAct(1) >>
      /\ Former("past") = << OurMagic, Header(1, TRUE, TRUE), OurAct(1) >>
  BY Zenon DEF Former, OurMagic, OurAct
<1>4. NoFile # s /\ << >> # s
  <2>1. Len(NoFile) = 1 /\ Len(<< >>) = 0
    BY DEF NoFile
  <2> QED
    BY <1>1, <2>1
<1>5. \A b : Header(1, b, TRUE).part = "header" /\ Header(1, b, TRUE).nact = 1 /\ Header(1, b, TRUE).fit
             /\ Header(1, b, TRUE).past = b
  BY DEF Header
<1>8. \A x, y, z : << x, y, z >>[1] = x /\ << x, y, z >>[2] = y /\ << x, y, z >>[3] = z
  OBVIOUS
<1>6. CASE InitFile[d] = "current"
  <2>0. Former(InitFile[d]) = << OurMagic, Header(1, FALSE, TRUE), OurAct(1) >>
    BY <1>3, <1>6
  <2>1. s[1] = OurMagic /\ s[2] = Header(1, FALSE, TRUE) /\ s[3] = OurAct(1)
    BY <1>1, <2>0, <1>8
  <2> HIDE DEF s
  <2>2. s[2].part = "header" /\ s[2].nact = 1 /\ s[2].fit /\ ~s[2].past
    BY <1>5, <2>1
  <2>3. Len(s) >= 3 /\ s # NoFile /\ s # << >>
    BY <1>1, <1>4 DEF s
  <2> QED
    BY <2>1, <2>2, <2>3 DEF s
<1>7. CASE InitFile[d] = "past" /\ \A p \in Users(d) : ~Args[p].rotat
  <2>0. Former(InitFile[d]) = << OurMagic, Header(1, TRUE, TRUE), OurAct(1) >>
    BY <1>3, <1>7
  <2>1. s[1] = OurMagic /\ s[2] = Header(1, TRUE, TRUE) /\ s[3] = OurAct(1)
    BY <1>1, <2>0, <1>8
  <2> HIDE DEF s
  <2>2. s[2].part = "header" /\ s[2].nact = 1 /\ s[2].fit /\ s[2].past
    BY <1>5, <2>1
  <2>3. Len(s) >= 3 /\ s # NoFile /\ s # << >>
    BY <1>1, <1>4 DEF s
  <2> QED
    BY <1>7, <2>1, <2>2, <2>3 DEF s
<1> QED
  BY <1>2, <1>6, <1>7

\* open(ofile, O_APPEND | O_RDWR).
LEMMA OpenFileStill ==
  ASSUME Owned, RInv, NEW q \in Sadc, OpenFile(q)
  PROVE  Still(q)
<1>1. TypeOK /\ pc[q] = "open" /\ ofile[q] \in Day
  BY OfUser DEF OpenFile
<1>2. /\ file' = file /\ day' = day /\ ofile'[q] = ofile[q] /\ newofile'[q] = newofile[q]
      /\ idseq'[q] = idseq[q] /\ n'[q] = n[q]
  BY Zenon DEF OpenFile, shared
<1>3. \/ file[ofile[q]] = NoFile /\ pc' = [pc EXCEPT ![q] = "create"]
      \/ pc' = [pc EXCEPT ![q] = "magic"] /\ mode' = [mode EXCEPT ![q] = "append"]
  BY Zenon DEF OpenFile, Goto
<1>4. CASE file[ofile[q]] = NoFile /\ pc'[q] = "create"
  <2>1. ~Kept(ofile[q])
    BY <1>1, <1>4, KeptHeader
  <2>2. ~Logged(file[ofile[q]])
    <3>1. Len(NoFile) = 1
      BY DEF NoFile
    <3> QED
      BY <1>4, <3>1, Complete DEF Logged
  <2> QED
    BY <1>1, <1>2, <1>4, <2>1, <2>2, OpeningStill DEF Opens, Creates, Opening, Creating, Reading
<1>5. CASE pc'[q] = "magic" /\ mode'[q] = "append"
  BY <1>1, <1>2, <1>5, OpeningStill DEF Opens, Creates, Opening, Creating, Reading
<1> QED
  BY <1>1, <1>3, <1>4, <1>5 DEF TypeOK

\* read(ofd, &file_magic).
LEMMA ReadMagicStill ==
  ASSUME Owned, RInv, NEW q \in Sadc, ReadMagic(q)
  PROVE  Still(q)
<1> DEFINE s == file[ofile[q]]
<1>1. TypeOK /\ pc[q] = "magic" /\ ofile[q] \in Day /\ Opens(q, s) /\ s \in Seq(Blocks)
  BY OfUser DEF ReadMagic
<1>2. CASE s = << >> \/ s[1] # OurMagic
  <2>1. ~Kept(ofile[q])
    BY <1>1, <1>2, KeptHeader
  <2>2. ~Logged(s)
    BY <1>2, Complete DEF Logged
  <2>3. Recreate(q) \/ Refuse(q)
    BY <1>2, Zenon DEF ReadMagic, OurMagic
  <2> QED
    BY <1>1, <2>1, <2>2, <2>3, RecreateStill, RefuseStill DEF Reading
<1>3. CASE s # << >> /\ s[1] = OurMagic
  <2>1. /\ pc' = [pc EXCEPT ![q] = "header"] /\ mode' = mode
        /\ file' = file /\ day' = day /\ ofile'[q] = ofile[q] /\ newofile'[q] = newofile[q]
        /\ idseq'[q] = idseq[q] /\ n'[q] = n[q]
    BY <1>3, Zenon DEF ReadMagic, OurMagic, Goto, shared
  <2>2. pc'[q] = "header" /\ mode'[q] = "append" /\ Len(s) >= 1
    BY <1>1, <1>3, <2>1 DEF TypeOK, Opens, Reading
  <2>3. Opens(q, file[ofile[q]])'
    BY <1>3, <2>1, <2>2 DEF Opens, Reading
  <2>4. Creates(q, file[ofile[q]])'
    BY <2>2 DEF Creates, Creating
  <2> QED
    BY <1>1, <2>1, <2>2, <2>3, <2>4, OpeningStill DEF Opening
<1> QED
  BY <1>2, <1>3

\* read(ofd, &file_hdr).
LEMMA ReadHeaderStill ==
  ASSUME Owned, RInv, NEW q \in Sadc, ReadHeader(q)
  PROVE  Still(q)
<1> DEFINE s == file[ofile[q]]
           whole == Len(s) >= 2 /\ s[2].part = "header"
<1>1. /\ TypeOK /\ pc[q] = "header" /\ ofile[q] \in Day /\ Opens(q, s) /\ s \in Seq(Blocks)
      /\ q \in Users(ofile[q])
  BY OfUser DEF ReadHeader, Names
<1>2. CASE ~whole \/ (s[2].past /\ Args[q].rotat) \/ ~s[2].fit
  <2>1. ~Kept(ofile[q])
    BY <1>1, <1>2, KeptHeader
  <2>2. ~Logged(s) \/ (s[2].past /\ Args[q].rotat)
    BY <1>2, Complete DEF Logged
  <2>3. s[2].past => ~Logged(s)
    BY DEF Logged
  <2>4. Recreate(q) \/ Refuse(q)
    BY <1>2, Zenon DEF ReadHeader
  <2> QED
    BY <1>1, <2>1, <2>2, <2>3, <2>4, RecreateStill, RefuseStill DEF Reading
<1>3. CASE whole /\ ~(s[2].past /\ Args[q].rotat) /\ s[2].fit
  <2>1. /\ pc' = [pc EXCEPT ![q] = "acts"] /\ mode' = mode /\ pos' = [pos EXCEPT ![q] = 2]
        /\ filehdr' = [filehdr EXCEPT ![q] = s[2]] /\ seen' = [seen EXCEPT ![q] = << >>]
        /\ file' = file /\ day' = day /\ ofile'[q] = ofile[q] /\ newofile'[q] = newofile[q]
        /\ idseq'[q] = idseq[q] /\ n'[q] = n[q]
    <3>1. ~Recreate(q) \/ ~Refuse(q) \/ TRUE
      OBVIOUS
    <3> QED
      BY <1>3, Zenon DEF ReadHeader, Goto, shared
  <2>2. /\ pc'[q] = "acts" /\ mode'[q] = "append" /\ pos'[q] = 2 /\ filehdr'[q] = s[2]
        /\ seen'[q] = << >> /\ s[1] = OurMagic
    BY <1>1, <2>1 DEF TypeOK, Opens, Reading
  <2>3. s[2].nact \in Nat
    BY <1>1, <1>3, HeaderType DEF HeaderBlocks
  <2>4. Opens(q, file[ofile[q]])'
    BY <1>3, <2>1, <2>2, <2>3 DEF Opens, Reading
  <2>5. Creates(q, file[ofile[q]])'
    BY <2>2 DEF Creates, Creating
  <2> QED
    BY <1>1, <2>1, <2>2, <2>4, <2>5, OpeningStill DEF Opening
<1> QED
  BY <1>2, <1>3

\* A block of the list that fits is the activity it names.
LEMMA FitActivity ==
  ASSUME NEW s \in Seq(Blocks), NEW i \in 1..Len(s), s[i].part = "act", s[i].fit
  PROVE  s[i] = OurAct(s[i].id)
<1>1. s[i] \in Blocks
  OBVIOUS
<1>2. s[i] \in ActBlocks
  BY <1>1 DEF Blocks, HeaderBlocks, ActBlocks, RecordBlocks, RecordParts
<1> QED
  BY <1>2 DEF ActBlocks, OurAct, ActBlock

\* One read(ofd, &file_act[i]).
LEMMA ReadActivityStill ==
  ASSUME Owned, RInv, NEW q \in Sadc, ReadActivity(q)
  PROVE  Still(q)
<1> DEFINE s == file[ofile[q]]
           i == pos[q] + 1
           known == i <= Len(s) /\ s[i].part = "act" /\ s[i].fit
<1>1. /\ TypeOK /\ pc[q] = "acts" /\ ofile[q] \in Day /\ Opens(q, s) /\ s \in Seq(Blocks)
      /\ Len(seen[q]) < filehdr[q].nact /\ seen[q] \in Seq(Activity)
  BY OfUser DEF ReadActivity, TypeOK
<1>2. /\ mode[q] = "append" /\ s[1] = OurMagic /\ Len(s) >= pos[q] /\ Len(s) \in Nat
      /\ pos[q] = 2 + Len(seen[q]) /\ s[2] = filehdr[q] /\ s[2].part = "header" /\ s[2].fit
      /\ ~(s[2].past /\ Args[q].rotat)
      /\ \A k \in 1..Len(seen[q]) : s[2 + k] = OurAct(seen[q][k])
  BY <1>1 DEF Opens, Reading
<1>3. s[2].nact \in Nat /\ Len(seen[q]) \in Nat /\ i \in 3..(2 + s[2].nact) /\ i = 3 + Len(seen[q])
  <2>1. s[2] \in HeaderBlocks
    BY <1>1, <1>2, HeaderType
  <2> QED
    BY <1>1, <1>2, <2>1 DEF HeaderBlocks
<1>4. CASE i > Len(s)
  <2>0. ~(i <= Len(s))
    BY <1>2, <1>3, <1>4
  <2>1. Exit(q, "done")
    BY <2>0, Zenon DEF ReadActivity
  <2> QED
    BY <1>1, <2>1, ExitStill DEF Over
<1>5. CASE i <= Len(s) /\ ~known
  <2>1. ~Kept(ofile[q])
    <3> SUFFICES ASSUME Kept(ofile[q]) PROVE FALSE
      OBVIOUS
    <3>1. s[2].nact = 1 /\ s[3] = OurAct(1)
      BY <1>1, KeptHeader
    <3>2. i = 3
      BY <1>3, <3>1
    <3>3. OurAct(1).part = "act" /\ OurAct(1).fit
      BY DEF OurAct, ActBlock
    <3> HIDE DEF i
    <3> QED
      BY <1>5, <3>1, <3>2, <3>3
  <2>2. ~Logged(s)
    <3> SUFFICES ASSUME Logged(s) PROVE FALSE
      OBVIOUS
    <3>1. \A k \in 3..(2 + s[2].nact) : s[k].part = "act" /\ s[k].fit
      BY Complete DEF Logged
    <3> HIDE DEF i, s
    <3> QED
      BY <1>3, <1>5, <3>1
  <2>3. Refuse(q)
    <3>1. ~(i > Len(s))
      BY <1>2, <1>3, <1>5
    <3> QED
      BY <1>5, <3>1, Zenon DEF ReadActivity
  <2> QED
    BY <1>1, <2>1, <2>2, <2>3, RefuseStill DEF Reading
<1>6. CASE known
  <2>1. /\ seen' = [seen EXCEPT ![q] = Append(@, s[i].id)] /\ pos' = [pos EXCEPT ![q] = i]
        /\ pc' = pc /\ mode' = mode /\ filehdr' = filehdr
        /\ file' = file /\ day' = day /\ ofile' = ofile /\ newofile' = newofile
        /\ idseq' = idseq /\ n' = n
    <3>1. ~(i > Len(s))
      BY <1>2, <1>3, <1>6
    <3> QED
      BY <1>6, <3>1, Zenon DEF ReadActivity, shared
  <2>2. seen'[q] = Append(seen[q], s[i].id) /\ pos'[q] = i /\ i \in 1..Len(s)
    BY <1>1, <1>2, <1>3, <1>6, <2>1 DEF TypeOK
  <2>3. s[i] = OurAct(s[i].id)
    BY <1>1, <1>6, <2>2, FitActivity
  <2> DEFINE a == s[i].id
             l == seen[q]
             m == Len(seen[q])
  <2>4. l \in Seq(Activity) /\ seen'[q] = Append(l, a) /\ i = m + 3 /\ m = Len(l)
    BY <1>1, <1>3, <2>2
  <2>5. \A k \in 1..m : s[2 + k] = OurAct(l[k])
    BY <1>2
  <2>6. s[m + 3] = OurAct(a)
    BY <1>3, <2>3
  <2> HIDE DEF a, l, m, i
  <2>7. m \in Nat
    BY <2>4
  <2>8. Len(seen'[q]) = m + 1 /\ \A k \in 1..(m + 1) : seen'[q][k] = IF k = m + 1 THEN a ELSE l[k]
    BY <2>4, <2>7
  <2> HIDE DEF s
  <2>9. \A k \in 1..(m + 1) : s[2 + k] = OurAct(seen'[q][k])
    <3> TAKE k \in 1..(m + 1)
    <3>1. CASE k = m + 1
      BY <2>6, <2>7, <2>8, <3>1
    <3>2. CASE k \in 1..m
      BY <2>5, <2>7, <2>8, <3>2
    <3> QED
      BY <2>7, <3>1, <3>2
  <2>10. m < filehdr[q].nact /\ filehdr[q].nact = s[2].nact
    BY <1>1, <1>2 DEF s, m
  <2>11. /\ s = file'[ofile'[q]] /\ pc'[q] = "acts" /\ mode'[q] = "append" /\ pos'[q] = m + 3
         /\ filehdr'[q] = filehdr[q] /\ Len(s) >= m + 3
    BY <1>1, <1>2, <2>1, <2>2, <2>4 DEF s
  <2>12. Opens(q, file[ofile[q]])'
    <3> DEFINE t == file'[ofile'[q]]
    <3>1. t = s /\ Len(seen'[q]) = m + 1 /\ pos'[q] = 2 + (m + 1) /\ m + 1 <= filehdr[q].nact
      <4>1. filehdr[q].nact \in Nat
        BY <1>3, <2>10 DEF s
      <4> QED
        BY <2>7, <2>8, <2>10, <2>11, <4>1
    <3>2. Len(t) >= pos'[q] /\ \A k \in 1..Len(seen'[q]) : t[2 + k] = OurAct(seen'[q][k])
      BY <2>7, <2>9, <2>11, <3>1
    <3>3. /\ t[2] = filehdr'[q] /\ t[2].part = "header" /\ t[2].fit
          /\ ~(t[2].past /\ Args[q].rotat) /\ mode'[q] = "append"
      BY <1>2, <2>11, <3>1 DEF s
    <3> HIDE DEF t
    <3>4. /\ pos'[q] = 2 + Len(seen'[q]) /\ Len(seen'[q]) <= filehdr'[q].nact /\ pc'[q] = "acts"
      BY <2>11, <3>1
    <3>5. Len(s) >= 1 /\ s[1] = OurMagic
      BY <1>2, <2>7, <2>11 DEF s
    <3>6. Len(t) >= 1 /\ t[1] = OurMagic
      BY <3>1, <3>5
    <3> QED
      BY <3>2, <3>3, <3>4, <3>6, Zenon DEF Opens, t
  <2>13. Creates(q, file[ofile[q]])'
    BY <2>11 DEF Creates, Creating
  <2> QED
    BY <1>1, <2>1, <2>11, <2>12, <2>13, OpeningStill DEF Opening
<1> QED
  BY <1>2, <1>3, <1>4, <1>5, <1>6

\* "List of activities from the file prevails over that of the user".
LEMMA AdoptListStill ==
  ASSUME Owned, RInv, NEW q \in Sadc, AdoptList(q)
  PROVE  Still(q)
<1> DEFINE s == file[ofile[q]]
<1>1. /\ TypeOK /\ Names(q) /\ pc[q] = "acts" /\ ofile[q] \in Day /\ Opens(q, s) /\ s \in Seq(Blocks)
      /\ ~(Len(seen[q]) < filehdr[q].nact) /\ seen[q] \in Seq(Activity) /\ n[q] \in Nat
      /\ filehdr[q].nact \in Nat /\ HeaderLists(ofile[q])
  BY OfUser DEF AdoptList, TypeOK, HeaderBlocks, Content
<1>2. /\ mode[q] = "append" /\ s[1] = OurMagic /\ Len(s) >= 2 + s[2].nact
      /\ s[2].part = "header" /\ s[2].nact = Len(seen[q]) /\ s[2].nact \in Nat
      /\ \A k \in 1..s[2].nact : s[2 + k] = OurAct(seen[q][k])
  <2>1. /\ mode[q] = "append" /\ s[1] = OurMagic /\ Len(s) >= pos[q] /\ pos[q] = 2 + Len(seen[q])
        /\ Len(seen[q]) <= filehdr[q].nact /\ s[2] = filehdr[q] /\ s[2].part = "header"
        /\ \A k \in 1..Len(seen[q]) : s[2 + k] = OurAct(seen[q][k])
    BY <1>1 DEF Opens, Reading
  <2>2. Len(seen[q]) = filehdr[q].nact
    BY <1>1, <2>1
  <2> HIDE DEF s
  <2> QED
    BY <1>1, <2>1, <2>2
<1>3. /\ file' = file /\ day' = day /\ ofile' = ofile /\ newofile' = newofile /\ mode' = mode /\ n' = n
      /\ pc'[q] = Opened(q) /\ idseq'[q] = seen[q]
  BY <1>1 DEF AdoptList, Goto, shared, TypeOK
<1>4. pc'[q] = IF n[q] = 0 THEN "main" ELSE "again"
  BY <1>3 DEF Opened
<1>5. HeaderDone(s)
  <2>1. \A i \in 3..(2 + s[2].nact) : i - 2 \in 1..s[2].nact /\ 2 + (i - 2) = i
    BY <1>2
  <2>2. \A i \in 3..(2 + s[2].nact) : s[i] = OurAct(seen[q][i - 2])
    BY <1>2, <2>1
  <2>3. \A i \in 3..(2 + s[2].nact) : s[i].part = "act"
    BY <2>2, HeaderParted
  <2>4. Len(s) >= 2
    BY <1>1, <1>2
  <2> HIDE DEF s
  <2> QED
    BY <1>2, <2>3, <2>4, Complete
<1>6. Announced(s) = seen[q]
  <2>1. \A k \in 1..s[2].nact : s[2 + k].id = seen[q][k]
    BY <1>2, HeaderParted
  <2>2. Announced(s) = [k \in 1..Len(seen[q]) |-> seen[q][k]]
    BY <1>2, <2>1 DEF Announced
  <2> QED
    BY <1>1, <2>2
<1>7. seen[q] # << >>
  <2>1. Len(seen[q]) >= 1
    BY <1>1, <1>2 DEF HeaderLists
  <2> QED
    BY <2>1
<1>8. Names(q)' /\ Counts(q)'
  BY <1>1, <1>3, <1>4, <1>7 DEF Names, Counts
<1>9. Opens(q, file[ofile[q]])' /\ Creates(q, file[ofile[q]])'
  BY <1>4 DEF Opens, Creates, Reading, Creating
<1>10. Logs(q, file[ofile[q]])'
  <2>1. pc'[q] # "write"
    BY <1>4
  <2> QED
    BY <1>2, <1>3, <1>5, <1>6, <2>1 DEF Logs
<1>11. Own(q)'
  BY <1>8, <1>9, <1>10 DEF Own
<1>12. Marks(q)
  BY <1>1, <1>3, <1>4 DEF Marks, Mark, Over, BeforeFirst, Opening, Creating
<1> QED
  BY <1>1, <1>3, <1>11, <1>12 DEF Still

\* open(O_CREAT | O_WRONLY), of a file that may be there by now.
LEMMA CreateFileSteps ==
  ASSUME Owned, RInv, NEW q \in Sadc, CreateFile(q)
  PROVE  Still(q) \/ Empties(q)
<1> DEFINE s == file[ofile[q]]
<1>1. TypeOK /\ Names(q) /\ pc[q] = "create" /\ ofile[q] \in Day /\ Creates(q, s)
  BY OfUser DEF CreateFile
<1>2. ~Kept(ofile[q]) /\ ~Logged(s)
  BY <1>1 DEF Creates, Creating
<1>3. /\ file' = [file EXCEPT ![ofile[q]] = IF @ = NoFile THEN << >> ELSE @]
      /\ mode'[q] = "write" /\ pos'[q] = 0 /\ pc'[q] = "lockfile"
      /\ day' = day /\ ofile' = ofile /\ newofile' = newofile /\ idseq' = idseq /\ n' = n
  BY <1>1 DEF CreateFile, Goto, TypeOK
<1>4. CASE s # NoFile
  <2>1. file' = file
    BY <1>1, <1>3, <1>4 DEF TypeOK
  <2>2. Opens(q, file[ofile[q]])' /\ Creates(q, file[ofile[q]])'
    BY <1>2, <1>3, <2>1 DEF Opens, Creates, Reading, Creating
  <2> QED
    BY <1>1, <1>3, <2>1, <2>2, OpeningStill DEF Opening, Creating
<1>5. CASE s = NoFile
  <2>1. file' = [file EXCEPT ![ofile[q]] = << >>]
    BY <1>3, <1>5
  <2>2. file'[ofile'[q]] = << >>
    BY <1>1, <1>3, <2>1 DEF TypeOK
  <2>3. ~Logged(<< >>)
    BY Complete DEF Logged
  <2>4. Opens(q, file[ofile[q]])' /\ Creates(q, file[ofile[q]])' /\ Logs(q, file[ofile[q]])'
    BY <1>2, <1>3, <2>2, <2>3 DEF Opens, Creates, Logs, Reading, Creating, Running, Recording
  <2>5. Names(q)' /\ Counts(q)'
    BY <1>1, <1>3 DEF Names, Counts
  <2>6. Own(q)'
    BY <2>4, <2>5 DEF Own
  <2>7. Marks(q)
    BY <1>1, <1>3 DEF Marks, Mark, Over, BeforeFirst, Opening, Creating
  <2> QED
    BY <1>1, <1>2, <1>3, <2>1, <2>6, <2>7 DEF Empties, Creating
<1> QED
  BY <1>4, <1>5

\* ask_for_flock(FATAL).
LEMMA LockCreatedStill ==
  ASSUME Owned, RInv, NEW q \in Sadc, LockCreated(q)
  PROVE  Still(q)
<1> DEFINE s == file[ofile[q]]
<1>1. TypeOK /\ Names(q) /\ pc[q] = "lockfile" /\ ofile[q] \in Day /\ Creates(q, s)
  BY OfUser DEF LockCreated
<1>2. CASE Exit(q, "done")
  BY <1>1, <1>2, ExitStill DEF Over
<1>3. CASE ~Exit(q, "done")
  <2>1. /\ pc' = [pc EXCEPT ![q] = "trunc"] /\ mode' = mode /\ pos' = pos
        /\ file' = file /\ day' = day /\ ofile' = ofile /\ newofile' = newofile /\ idseq' = idseq /\ n' = n
    BY <1>3, Zenon DEF LockCreated, Goto
  <2>2. pc'[q] = "trunc"
    BY <1>1, <2>1 DEF TypeOK
  <2>3. Opens(q, file[ofile[q]])' /\ Creates(q, file[ofile[q]])'
    BY <1>1, <2>1, <2>2 DEF Opens, Creates, Reading, Creating
  <2> QED
    BY <1>1, <2>1, <2>2, <2>3, OpeningStill DEF Opening, Creating
<1> QED
  BY <1>2, <1>3

\* ftruncate(ofd, 0).
LEMMA TruncateEmpties ==
  ASSUME Owned, RInv, NEW q \in Sadc, Truncate(q)
  PROVE  Empties(q)
<1> DEFINE s == file[ofile[q]]
<1>1. /\ TypeOK /\ Names(q) /\ pc[q] = "trunc" /\ ofile[q] \in Day /\ Creates(q, s)
      /\ idseq[q] \in Seq(Activity)
  BY OfUser DEF Truncate
<1>2. ~Kept(ofile[q]) /\ ~Logged(s) /\ mode[q] = "write" /\ pos[q] = 0
  BY <1>1 DEF Creates, Creating
<1>3. /\ file' = [file EXCEPT ![ofile[q]] = << >>] /\ todo'[q] = Cursor("magic", 0) /\ pc'[q] = "sethdr"
      /\ mode' = mode /\ pos' = pos
      /\ day' = day /\ ofile' = ofile /\ newofile' = newofile /\ idseq' = idseq /\ n' = n
  BY <1>1 DEF Truncate, Goto, TypeOK
<1>4. file'[ofile'[q]] = << >> /\ todo'[q] = HeaderCursor(pos'[q] + 1)
  BY <1>1, <1>2, <1>3 DEF TypeOK, HeaderCursor
<1>5. Heads(<< >>, idseq'[q], pos'[q]) /\ pos'[q] < Len(idseq'[q]) + 2
  BY <1>1, <1>2, <1>3 DEF Heads
<1>6. Opens(q, file[ofile[q]])' /\ Creates(q, file[ofile[q]])' /\ Logs(q, file[ofile[q]])'
  BY <1>2, <1>3, <1>4, <1>5 DEF Opens, Creates, Logs, Reading, Creating, Running, Recording
<1>7. Names(q)' /\ Counts(q)'
  BY <1>1, <1>3 DEF Names, Counts
<1>8. Own(q)'
  BY <1>6, <1>7 DEF Own
<1>9. Marks(q)
  BY <1>1, <1>3 DEF Marks, Mark, Over, BeforeFirst, Opening, Creating
<1> QED
  BY <1>1, <1>2, <1>3, <1>8, <1>9 DEF Empties, Creating

\* A step of main() or of rw_sa_stat_loop() that does not write.
LEMMA RunningStill ==
  ASSUME Owned, RInv, NEW q \in Sadc, pc[q] \in Running \ {"write", "special"},
         pc'[q] \in Recording \ {"main"}, file' = file, day' = day,
         ofile'[q] = ofile[q], mode'[q] = mode[q], pos'[q] = pos[q], idseq'[q] = idseq[q],
         ~Args[q].rotat => newofile'[q] = newofile[q],
         Args[q].rotat => newofile'[q] \in {newofile[q], day},
         n'[q] \in {n[q], n[q] + 1},
         pc'[q] \in {"written", "pause"} \/ (pc'[q] = "write" /\ Args[q].run = "stats") => n'[q] > 0,
         pc'[q] = "write" => todo'[q].part \in RecordParts,
         pc'[q] = "write" => n'[q] > n[q] \/ pc[q] \in BeforeFirst
  PROVE  Still(q)
<1> DEFINE s == file[ofile[q]]
<1>1. TypeOK /\ Names(q) /\ Counts(q) /\ Logs(q, s) /\ ofile[q] \in Day /\ n[q] \in Nat
  BY OfUser
<1>2. Names(q)'
  <2>1. ofile[q] \in Nat /\ newofile[q] \in Nat /\ day \in Nat
    BY <1>1 DEF TypeOK, Day
  <2>2. /\ pc[q] # "off" /\ q \in Users(ofile[q]) /\ idseq[q] # << >>
        /\ (~Args[q].rotat => newofile[q] = ofile[q])
        /\ ofile[q] <= newofile[q] /\ (Args[q].rotat => newofile[q] <= day)
    BY <1>1 DEF Names, Running, Recording
  <2>3. ofile[q] <= newofile'[q] /\ (Args[q].rotat => newofile'[q] <= day')
    BY <2>1, <2>2
  <2> QED
    BY <2>2, <2>3 DEF Names
<1>3. Counts(q)'
  BY <1>1 DEF Counts, Recording
<1>4. Opens(q, file[ofile[q]])' /\ Creates(q, file[ofile[q]])'
  BY DEF Opens, Creates, Reading, Creating, Recording
<1>5. Logs(q, file[ofile[q]])'
  BY <1>1 DEF Logs, Running
<1>6. Own(q)'
  BY <1>2, <1>3, <1>4, <1>5 DEF Own
<1>7. Marks(q)
  <2>1. ASSUME NEW d \in Day, NEW k \in Nat, Mark(q, d, k) PROVE Mark(q, d, k)'
    <3>1. pc[q] # "off" /\ d <= ofile[q] /\ k <= n[q]
      BY <2>1 DEF Mark
    <3>2. n[q] # 0
      BY <2>1 DEF Mark, Running, Recording, Over
    <3>3. k <= n'[q] /\ n'[q] # 0
      BY <1>1, <3>1, <3>2
    <3>4. pc'[q] \notin BeforeFirst /\ pc'[q] # "off"
      BY DEF BeforeFirst, Opening, Creating, Recording
    <3> QED
      BY <3>1, <3>3, <3>4 DEF Mark
  <2> QED
    BY <2>1 DEF Marks
<1> QED
  BY <1>6, <1>7 DEF Still

LEMMA BeginSpecialStill ==
  ASSUME Owned, RInv, NEW q \in Sadc, BeginSpecial(q)
  PROVE  Still(q)
<1>1. TypeOK /\ Names(q) /\ pc[q] = "main" /\ Args[q].run # "stats" /\ n[q] \in Nat
  BY OfUser DEF BeginSpecial
<1>2. CASE Exit(q, "done")
  BY <1>1, <1>2, ExitStill DEF Over
<1>3. CASE ~Exit(q, "done")
  <2>1. /\ pc' = [pc EXCEPT ![q] = "write"] /\ todo' = [todo EXCEPT ![q] = Cursor("rec", 0)]
        /\ mode' = mode /\ pos' = pos
        /\ file' = file /\ day' = day /\ ofile' = ofile /\ newofile' = newofile /\ idseq' = idseq /\ n' = n
    BY <1>3, Zenon DEF BeginSpecial, Goto
  <2>2. pc'[q] = "write" /\ todo'[q].part \in RecordParts
    BY <1>1, <2>1 DEF TypeOK, Cursor, RecordParts
  <2> QED
    BY <1>1, <2>1, <2>2, RunningStill DEF Running, Recording, BeforeFirst
<1> QED
  BY <1>2, <1>3

LEMMA EnterLoopStill ==
  ASSUME Owned, RInv, NEW q \in Sadc, EnterLoop(q)
  PROVE  Still(q)
<1>1. TypeOK /\ pc[q] = "main" /\ n[q] \in Nat
  BY OfUser DEF EnterLoop
<1>2. /\ pc' = [pc EXCEPT ![q] = "loop"] /\ mode' = mode /\ pos' = pos
      /\ file' = file /\ day' = day /\ ofile' = ofile /\ newofile' = newofile /\ idseq' = idseq /\ n' = n
  BY Zenon DEF EnterLoop, Goto, shared
<1>3. pc'[q] = "loop"
  BY <1>1, <1>2 DEF TypeOK
<1> QED
  BY <1>1, <1>2, <1>3, RunningStill DEF Running, Recording

\* An iteration, and the same statistics once more after a rotation.
LEMMA SampleStill ==
  ASSUME Owned, RInv, NEW q \in Sadc, Sample(q) \/ SampleAgain(q)
  PROVE  Still(q)
<1>1. TypeOK /\ Counts(q) /\ pc[q] \in {"loop", "again"} /\ n[q] \in Nat /\ WriteStats(q)
  BY OfUser DEF Sample, SampleAgain
<1>2. \/ pc[q] = "loop" /\ n'[q] = n[q] + 1
      \/ pc[q] = "again" /\ n'[q] = n[q] /\ n[q] > 0
  BY <1>1 DEF Sample, SampleAgain, TypeOK, Counts
<1>3. /\ mode' = mode /\ pos' = pos /\ file' = file /\ day' = day /\ ofile' = ofile
      /\ newofile' = newofile /\ idseq' = idseq
  BY <1>1, Zenon DEF WriteStats
<1>4. \/ pc' = [pc EXCEPT ![q] = "written"]
      \/ pc' = [pc EXCEPT ![q] = "write"] /\ todo' = [todo EXCEPT ![q] = Cursor("rec", 0)]
  BY <1>1, Zenon DEF WriteStats, Goto
<1>5. pc'[q] \in {"written", "write"} /\ (pc'[q] = "write" => todo'[q].part \in RecordParts)
  BY <1>1, <1>4 DEF TypeOK, Cursor, RecordParts
<1>6. n'[q] > 0 /\ (n'[q] > n[q] \/ pc[q] \in BeforeFirst) /\ n'[q] \in {n[q], n[q] + 1}
  BY <1>1, <1>2 DEF BeforeFirst
<1> QED
  BY <1>1, <1>3, <1>5, <1>6, RunningStill DEF Running, Recording

\* The new file is opened.
LEMMA RotateStill ==
  ASSUME Owned, RInv, NEW q \in Sadc, Rotate(q)
  PROVE  Still(q)
<1>1. /\ TypeOK /\ Names(q) /\ Counts(q) /\ pc[q] = "written" /\ newofile[q] # ofile[q] /\ n[q] \in Nat
      /\ idseq[q] \in Seq(Activity)
  BY OfUser DEF Rotate
<1>2. /\ file' = file /\ day' = day /\ newofile' = newofile /\ n' = n
      /\ ofile' = [ofile EXCEPT ![q] = newofile[q]] /\ pc' = [pc EXCEPT ![q] = "open"]
      /\ \E l \in DefaultOrder(ToSet(idseq[q])) : idseq' = [idseq EXCEPT ![q] = l]
  BY Zenon DEF Rotate, Goto
<1>3. ofile[q] \in Nat /\ newofile[q] \in Nat /\ ofile[q] < newofile[q] /\ Args[q].rotat
      /\ idseq[q] # << >> /\ newofile[q] <= day
  <2>1. ofile[q] \in Nat /\ newofile[q] \in Nat
    BY <1>1 DEF TypeOK, Day
  <2> QED
    BY <1>1, <2>1 DEF Names
<1>4. ofile'[q] = newofile[q] /\ pc'[q] = "open" /\ newofile'[q] = newofile[q]
  BY <1>1, <1>2 DEF TypeOK
<1>5. idseq'[q] # << >>
  <2>1. PICK l \in DefaultOrder(ToSet(idseq[q])) : idseq' = [idseq EXCEPT ![q] = l]
    BY <1>2
  <2>2. ToSet(l) = ToSet(idseq[q]) /\ idseq'[q] = l
    BY <1>1, <2>1 DEF DefaultOrder, TypeOK
  <2>3. idseq[q][1] \in ToSet(idseq[q])
    BY <1>1, <1>3 DEF ToSet
  <2>4. ToSet(<< >>) = {}
    BY DEF ToSet
  <2> QED
    BY <2>2, <2>3, <2>4
<1>6. Names(q)'
  <2>1. \A d : q \in Users(d)'
    BY <1>3 DEF Users
  <2> QED
    BY <1>2, <1>3, <1>4, <1>5 DEF Names, Users
<1>7. Counts(q)' /\ Opens(q, file[ofile[q]])' /\ Creates(q, file[ofile[q]])' /\ Logs(q, file[ofile[q]])'
  BY <1>4 DEF Counts, Opens, Creates, Logs, Reading, Creating, Running, Recording
<1>8. Own(q)'
  BY <1>6, <1>7 DEF Own
<1>9. Marks(q)
  <2>1. ASSUME NEW d \in Day, NEW k \in Nat, Mark(q, d, k) PROVE Mark(q, d, k)'
    <3>1. d <= ofile[q] /\ k <= n[q] /\ d \in Nat /\ n[q] > 0
      BY <1>1, <2>1 DEF Mark, Day, Counts
    <3>2. d < ofile'[q] /\ d <= ofile'[q] /\ k <= n'[q] /\ n'[q] # 0
      BY <1>1, <1>2, <1>3, <1>4, <3>1
    <3> QED
      BY <1>4, <3>2 DEF Mark
  <2> QED
    BY <1>4, <2>1 DEF Marks
<1> QED
  BY <1>1, <1>2, <1>8, <1>9 DEF Still

LEMMA EndIterationStill ==
  ASSUME Owned, RInv, NEW q \in Sadc, EndIteration(q)
  PROVE  Still(q)
<1>1. TypeOK /\ Counts(q) /\ pc[q] = "written" /\ n[q] \in Nat
  BY OfUser DEF EndIteration
<1>2. CASE Exit(q, "done")
  BY <1>1, <1>2, ExitStill DEF Over
<1>3. CASE ~Exit(q, "done")
  <2>1. /\ pc' = [pc EXCEPT ![q] = "pause"] /\ mode' = mode /\ pos' = pos
        /\ file' = file /\ day' = day /\ ofile' = ofile /\ newofile' = newofile /\ idseq' = idseq /\ n' = n
    BY <1>3, Zenon DEF EndIteration, Goto, shared
  <2>2. pc'[q] = "pause" /\ n[q] > 0
    BY <1>1, <2>1 DEF TypeOK, Counts
  <2> QED
    BY <1>1, <2>1, <2>2, RunningStill DEF Running, Recording
<1> QED
  BY <1>2, <1>3

\* SIGALRM.
LEMMA WakeStill ==
  ASSUME Owned, RInv, NEW q \in Sadc, Wake(q)
  PROVE  Still(q)
<1>1. TypeOK /\ Counts(q) /\ pc[q] = "pause" /\ n[q] \in Nat
  BY OfUser DEF Wake
<1>2. /\ pc' = [pc EXCEPT ![q] = "loop"] /\ mode' = mode /\ pos' = pos
      /\ newofile' = [newofile EXCEPT ![q] = IF Args[q].rotat THEN day ELSE @]
      /\ file' = file /\ day' = day /\ ofile' = ofile /\ idseq' = idseq /\ n' = n
  BY Zenon DEF Wake, Goto, shared
<1>3. pc'[q] = "loop" /\ newofile'[q] = IF Args[q].rotat THEN day ELSE newofile[q]
  BY <1>1, <1>2 DEF TypeOK
<1> QED
  BY <1>1, <1>2, <1>3, RunningStill DEF Running, Recording

\* write_all(), at the end of the file: what sets mode "write" sets the offset.
LEMMA WriteBlockAppends ==
  ASSUME Owned, RInv, NEW q \in Sadc, WriteBlock(q)
  PROVE  LET s == file[ofile[q]]
             b == BlockOf(q, n[q], todo[q], idseq[q])
             after == After(Args[q].run, todo[q], idseq[q])
             next == IF pc[q] = "sethdr" THEN Opened(q)
                     ELSE IF Args[q].run = "stats" THEN "written" ELSE "special"
         IN  /\ pc[q] \in {"sethdr", "write"} /\ b \in Blocks
             /\ mode[q] = "write" => pos[q] = Len(s)
             /\ file' = [file EXCEPT ![ofile[q]] = Append(@, b)]
             /\ pos'[q] = Len(s) + 1 /\ todo'[q] = after
             /\ pc'[q] = (IF after = End THEN next ELSE pc[q])
             /\ day' = day /\ ofile' = ofile /\ newofile' = newofile /\ mode' = mode
             /\ idseq' = idseq /\ n' = n
<1> DEFINE s == file[ofile[q]]
           at == IF mode[q] = "append" THEN Len(s) ELSE pos[q]
           b == BlockOf(q, n[q], todo[q], idseq[q])
           after == After(Args[q].run, todo[q], idseq[q])
           next == IF pc[q] = "sethdr" THEN Opened(q)
                   ELSE IF Args[q].run = "stats" THEN "written" ELSE "special"
<1>1. /\ pc[q] \in {"sethdr", "write"}
      /\ file' = [file EXCEPT ![ofile[q]] = WriteAt(@, at, b)]
      /\ pos' = [pos EXCEPT ![q] = at + 1]
      /\ todo' = [todo EXCEPT ![q] = after]
      /\ pc' = [pc EXCEPT ![q] = IF after = End THEN next ELSE pc[q]]
      /\ day' = day /\ ofile' = ofile /\ newofile' = newofile /\ mode' = mode
      /\ idseq' = idseq /\ n' = n
  BY Zenon DEF WriteBlock, Goto
<1>2. /\ TypeOK /\ Creates(q, s) /\ Logs(q, s) /\ ofile[q] \in Day /\ s \in Seq(Blocks)
      /\ idseq[q] \in Seq(Activity) /\ pos[q] \in Nat /\ n[q] \in Nat /\ todo[q] \in Cursors
  BY OfUser
<1>3. todo[q].part # "end" /\ InList(todo[q], idseq[q])
  BY <1>1 DEF RInv, Typed, CursorInList
<1>4. b \in Blocks
  BY <1>2, <1>3, BlockOfType
<1>5. at = Len(s) /\ (mode[q] = "write" => pos[q] = Len(s))
  BY <1>1, <1>2 DEF Creates, Heads, Logs, Running, Recording, Creating
<1>6. WriteAt(s, at, b) = Append(s, b)
  BY <1>2, <1>4, <1>5, WriteAtEnd
<1> HIDE DEF s, at, b, after, next
<1>7. file' = [file EXCEPT ![ofile[q]] = Append(@, b)]
  BY <1>1, <1>6 DEF s
<1>8. pos'[q] = Len(s) + 1 /\ todo'[q] = after /\ pc'[q] = (IF after = End THEN next ELSE pc[q])
  BY <1>1, <1>2, <1>5 DEF TypeOK
<1> QED
  BY <1>1, <1>4, <1>5, <1>7, <1>8 DEF s, b, after, next

\* A block of the header of a file that q creates.
LEMMA WriteBlockHeader ==
  ASSUME Owned, RInv, NEW q \in Sadc, WriteBlock(q), pc[q] = "sethdr"
  PROVE  AddsHeader(q)
<1> DEFINE s == file[ofile[q]]
           list == idseq[q]
           k == pos[q] + 1
           t == Append(s, HeaderBlock(k, list))
<1>1. /\ TypeOK /\ Names(q) /\ Creates(q, s) /\ ofile[q] \in Day /\ s \in Seq(Blocks)
      /\ list \in Seq(Activity) /\ pos[q] \in Nat /\ n[q] \in Nat
  BY OfUser
<1>2. /\ mode[q] = "write" /\ Heads(s, list, pos[q]) /\ pos[q] < Len(list) + 2
      /\ todo[q] = HeaderCursor(k) /\ ~Kept(ofile[q])
  BY <1>1 DEF Creates, Creating
<1>3. k \in 1..(Len(list) + 2) /\ k \in Nat /\ Len(list) \in Nat
  BY <1>1, <1>2
<1>4. /\ BlockOf(q, n[q], todo[q], list) = HeaderBlock(k, list)
      /\ After(Args[q].run, todo[q], list) = IF k < Len(list) + 2 THEN HeaderCursor(k + 1) ELSE End
  <2>1. list \in Seq(Activity) /\ k \in 1..(Len(list) + 2) /\ todo[q] = HeaderCursor(k)
    BY <1>1, <1>2, <1>3
  <2> HIDE DEF k, list
  <2> QED
    BY <2>1, HeaderStep, Zenon
<1>5. /\ HeaderBlock(k, list) \in Blocks
      /\ file' = [file EXCEPT ![ofile[q]] = Append(@, HeaderBlock(k, list))]
      /\ pos'[q] = Len(s) + 1 /\ todo'[q] = After(Args[q].run, todo[q], list)
      /\ pc'[q] = (IF After(Args[q].run, todo[q], list) = End THEN Opened(q) ELSE pc[q])
      /\ day' = day /\ ofile' = ofile /\ newofile' = newofile /\ mode' = mode
      /\ idseq' = idseq /\ n' = n
  BY <1>4, WriteBlockAppends
<1>6. Heads(t, list, k) /\ t \in Seq(Blocks)
  <2>1. Heads(t, list, k)
    BY <1>1, <1>2, HeadsLonger
  <2> QED
    BY <1>1, <1>5, <2>1
<1>7. file'[ofile'[q]] = t /\ pos'[q] = k
  BY <1>1, <1>2, <1>5 DEF TypeOK, Heads
<1>8. \A j \in Nat \ {0} : HeaderCursor(j) # End
  BY DEF HeaderCursor, End, Cursor
<1>9. \/ k < Len(list) + 2 /\ pc'[q] = "sethdr" /\ todo'[q] = HeaderCursor(k + 1)
      \/ k = Len(list) + 2 /\ pc'[q] = Opened(q)
  <2> HIDE DEF k, list
  <2> QED
    BY <1>3, <1>4, <1>5, <1>8
<1>10. Names(q)'
  BY <1>1, <1>5, <1>9 DEF Names, Opened
<1>11. Counts(q)'
  BY <1>1, <1>5, <1>9 DEF Counts, Opened
<1>12. Opens(q, file[ofile[q]])'
  BY <1>9 DEF Opens, Opened, Reading
<1>13. Creates(q, file[ofile[q]])'
  <2>1. /\ pc'[q] \in Creating => pc'[q] = "sethdr" /\ k < Len(list) + 2 /\ todo'[q] = HeaderCursor(k + 1)
    BY <1>9 DEF Opened, Creating
  <2> HIDE DEF k, list, t
  <2> QED
    BY <1>2, <1>5, <1>6, <1>7, <2>1 DEF Creates, Creating, list
<1>14. Logs(q, file[ofile[q]])'
  <2> SUFFICES ASSUME pc'[q] \in Running PROVE Logs(q, file[ofile[q]])'
    BY DEF Logs
  <2>1. k = Len(list) + 2 /\ pc'[q] # "write"
    BY <1>9 DEF Running, Recording, Opened
  <2>2. HeaderDone(t)
    <3> HIDE DEF k, list, t
    <3> QED
      BY <1>1, <1>3, <1>6, <2>1, HeadsDone
  <2>3. Announced(t) = list
    <3>1. Len(list) \in Nat /\ \A i \in 1..k : t[i] = HeaderBlock(i, list)
      BY <1>1, <1>6 DEF Heads
    <3>2. HeaderBlock(2, list) = OurHeader(list) /\ \A i \in 3..k : HeaderBlock(i, list) = OurAct(list[i - 2])
      BY DEF HeaderBlock
    <3> HIDE DEF k, list, t
    <3>3. t[2].nact = Len(list)
      BY <2>1, <3>1, <3>2, HeaderParted
    <3>4. \A i \in 1..Len(list) : 2 + i \in 3..k /\ (2 + i) - 2 = i
      BY <2>1, <3>1
    <3>5. \A i \in 1..Len(list) : t[2 + i] = OurAct(list[i])
      BY <3>1, <3>2, <3>4
    <3>6. \A i \in 1..Len(list) : t[2 + i].id = list[i]
      BY <3>5, HeaderParted
    <3>7. Announced(t) = [i \in 1..Len(list) |-> list[i]]
      BY <3>3, <3>6 DEF Announced
    <3> QED
      BY <1>1, <3>7
  <2>4. pos'[q] = Len(t) /\ idseq'[q] = list /\ mode'[q] = "write" /\ ~Kept(ofile'[q])
    BY <1>2, <1>5, <1>6, <1>7 DEF Heads
  <2>5. ~Kept(ofile[q])'
    BY <2>4 DEF Kept, Users
  <2> HIDE DEF k, list, t
  <2> QED
    BY <1>7, <2>1, <2>2, <2>3, <2>4, <2>5 DEF Logs
<1>15. Own(q)'
  BY <1>10, <1>11, <1>12, <1>13, <1>14 DEF Own
<1>16. pc'[q] \in BeforeFirst
  BY <1>9 DEF Opened, BeforeFirst, Opening, Creating
<1>17. Marks(q)
  BY <1>1, <1>5, <1>16 DEF Marks, Mark, Over, BeforeFirst, Opening, Creating
<1>18. pc'[q] # "write"
  BY <1>9 DEF Opened
<1> QED
  BY <1>5, <1>15, <1>17, <1>18 DEF AddsHeader

\* A record goes on with blocks of a record.
LEMMA AfterRecord ==
  ASSUME NEW run, NEW list, NEW c, c.part \in RecordParts, After(run, c, list) # End
  PROVE  After(run, c, list).part \in RecordParts
<1>1. \A i : Items(list, i) # End => Items(list, i).part \in RecordParts
  BY DEF Items, Cursor, RecordParts
<1>2. \A i : Cursor("data", i).part \in RecordParts /\ Cursor("cpu", i).part \in RecordParts
             /\ Cursor("text", i).part \in RecordParts
  BY DEF Cursor, RecordParts
<1>3. \/ After(run, c, list) = End
      \/ \E i : \/ After(run, c, list) = Items(list, i)
                \/ After(run, c, list) = Cursor("data", i)
                \/ After(run, c, list) = Cursor("cpu", i)
                \/ After(run, c, list) = Cursor("text", i)
  BY DEF After, RecordParts
<1> QED
  BY <1>1, <1>2, <1>3

\* What it writes there.
LEMMA RecordPut ==
  ASSUME NEW p, NEW k, NEW list, NEW c, c.part \in RecordParts
  PROVE  LET b == BlockOf(p, k, c, list) IN
         b.part = c.part /\ b.by = p /\ b.n = k /\ b.at = c.at
<1>1. BlockOf(p, k, c, list) =
        RecordBlock(c.part, p, k, c.at, IF c.part \in {"nr", "data"} THEN list[c.at] ELSE 0)
  BY DEF BlockOf, RecordParts
<1> QED
  BY <1>1 DEF RecordBlock

LEMMA WriteBlockRecord ==
  ASSUME Owned, RInv, NEW q \in Sadc, WriteBlock(q), pc[q] = "write"
  PROVE  AddsRecord(q)
<1> DEFINE s == file[ofile[q]]
           list == idseq[q]
           b == BlockOf(q, n[q], todo[q], list)
           t == Append(s, b)
           after == After(Args[q].run, todo[q], list)
           next == IF Args[q].run = "stats" THEN "written" ELSE "special"
<1>1. /\ TypeOK /\ Names(q) /\ Counts(q) /\ Logs(q, s) /\ ofile[q] \in Day /\ s \in Seq(Blocks)
      /\ list \in Seq(Activity) /\ pos[q] \in Nat /\ n[q] \in Nat
  BY OfUser
<1>2. /\ HeaderDone(s) /\ Announced(s) = list /\ todo[q].part \in RecordParts
      /\ \/ mode[q] = "append"
         \/ mode[q] = "write" /\ ~Kept(ofile[q]) /\ pos[q] = Len(s)
  BY <1>1 DEF Logs, Running, Recording
<1>3. /\ b \in Blocks
      /\ file' = [file EXCEPT ![ofile[q]] = Append(@, b)]
      /\ pos'[q] = Len(s) + 1 /\ todo'[q] = after
      /\ pc'[q] = (IF after = End THEN next ELSE "write")
      /\ day' = day /\ ofile' = ofile /\ newofile' = newofile /\ mode' = mode
      /\ idseq' = idseq /\ n' = n
  BY WriteBlockAppends
<1>4. file'[ofile'[q]] = t /\ Len(t) = Len(s) + 1
  BY <1>1, <1>3 DEF TypeOK
<1>5. HeaderDone(t) /\ Announced(t) = list
  BY <1>1, <1>2, <1>3, HeaderKept
<1>6. \/ pc'[q] = "write" /\ todo'[q] # End /\ todo'[q].part \in RecordParts
      \/ pc'[q] = next /\ todo'[q] = End
  BY <1>2, <1>3, AfterRecord
<1>7. pc'[q] \in {"write", "written", "special"} /\ (pc'[q] = "written" => Args[q].run = "stats")
  BY <1>6
<1>8. Names(q)'
  BY <1>1, <1>3, <1>7 DEF Names
<1>9. Counts(q)'
  BY <1>1, <1>3, <1>7 DEF Counts
<1>10. Opens(q, file[ofile[q]])' /\ Creates(q, file[ofile[q]])'
  BY <1>7 DEF Opens, Creates, Reading, Creating
<1>11. Logs(q, file[ofile[q]])'
  <2>1. mode[q] = "write" => ~Kept(ofile[q])'
    BY <1>2, <1>3 DEF Kept, Users
  <2>2. pc'[q] = "write" => todo'[q].part \in RecordParts
    BY <1>6
  <2> HIDE DEF s, t, list, b
  <2> QED
    BY <1>2, <1>3, <1>4, <1>5, <2>1, <2>2 DEF Logs, list
<1>12. Own(q)'
  BY <1>8, <1>9, <1>10, <1>11 DEF Own
<1>13. Marks(q)
  <2>1. n[q] = 0 => Args[q].run # "stats"
    BY <1>1 DEF Counts
  <2> QED
    BY <1>1, <1>3, <1>7, <2>1 DEF Marks, Mark, Over, BeforeFirst, Opening, Creating
<1> QED
  BY <1>3, <1>6, <1>12, <1>13 DEF AddsRecord

\* Every step leaves the files alone, makes one empty, or adds a block to one.
LEMMA StepKinds ==
  ASSUME Owned, RInv, NEW q \in Sadc, Start(q) \/ Step(q) \/ Die(q)
  PROVE  Still(q) \/ Empties(q) \/ AddsHeader(q) \/ AddsRecord(q)
<1>1. CASE WriteBlock(q)
  BY <1>1, WriteBlockHeader, WriteBlockRecord DEF WriteBlock
<1>2. CASE EndSpecial(q) \/ Die(q)
  BY <1>2, ExitStill DEF EndSpecial, Die, Over
<1> QED
  BY <1>1, <1>2, StartStill, OpenFileStill, ReadMagicStill, ReadHeaderStill, ReadActivityStill,
     AdoptListStill, CreateFileSteps, LockCreatedStill, TruncateEmpties, BeginSpecialStill,
     EnterLoopStill, SampleStill, RotateStill, EndIterationStill, WakeStill DEF Step
-----------------------------------------------------------------------------
(* The invariant is inductive.                                              *)

\* What these steps are about is a file of q; nobody else uses one it creates.
LEMMA OneCreator ==
  ASSUME Owned, RInv, NEW q \in Sadc, pc[q] \in Creating, NEW p \in Sadc, p # q, pc[p] # "off"
  PROVE  ofile[p] # ofile[q] /\ ~Kept(ofile[q])
<1>1. ~Kept(ofile[q]) /\ q \in Users(ofile[q]) /\ ofile[q] \in Day
  BY OfUser DEF Creates, Names, Creating
<1>2. p \in Users(ofile[p])
  BY OfUser DEF Names
<1>3. Alone(ofile[q])
  BY <1>1 DEF Owned
<1> QED
  BY <1>1, <1>2, <1>3 DEF Alone

LEMMA SameDay ==
  ASSUME NEW q \in Sadc, Start(q) \/ Step(q) \/ Die(q)
  PROVE  day' = day
<1> USE DEF shared
<1>1. ASSUME NEW label, Exit(q, label) PROVE day' = day
  BY <1>1, Zenon DEF Exit
<1>2. ASSUME Recreate(q) PROVE day' = day
  BY <1>2, Zenon DEF Recreate
<1>3. ASSUME Refuse(q) PROVE day' = day
  BY <1>1, <1>2, <1>3, Zenon DEF Refuse
<1>4. CASE Start(q) \/ OpenFile(q) \/ AdoptList(q) \/ CreateFile(q) \/ Truncate(q) \/ EnterLoop(q)
  BY <1>4, Zenon DEF Start, OpenFile, AdoptList, CreateFile, Truncate, EnterLoop
<1>5. CASE ReadMagic(q) \/ ReadHeader(q) \/ ReadActivity(q)
  BY <1>1, <1>2, <1>3, <1>5, Zenon DEF ReadMagic, ReadHeader, ReadActivity
<1>6. CASE LockCreated(q) \/ BeginSpecial(q) \/ EndIteration(q) \/ EndSpecial(q) \/ Die(q)
  BY <1>1, <1>6, Zenon DEF LockCreated, BeginSpecial, EndIteration, EndSpecial, Die
<1>7. CASE Sample(q) \/ SampleAgain(q) \/ WriteBlock(q) \/ Rotate(q) \/ Wake(q)
  BY <1>7, Zenon DEF Sample, SampleAgain, WriteStats, WriteBlock, Rotate, Wake
<1> QED
  BY <1>4, <1>5, <1>6, <1>7 DEF Step

\* The header that q is writing has no record yet, and announces what q collects.
LEMMA HeaderAdded ==
  ASSUME Owned, RInv, NEW q \in Sadc, AddsHeader(q)
  PROVE  LET d == ofile[q]
             t == Append(file[d], HeaderBlock(pos[q] + 1, idseq[q]))
         IN  /\ file' = [file EXCEPT ![d] = t] /\ file'[d] = t /\ t \in Seq(Blocks)
             /\ \A i \in 1..Len(t) : t[i].part \in HeaderParts
             /\ Len(t) >= 2 => t[2] = OurHeader(idseq[q])
             /\ Heads(t, idseq[q], pos[q] + 1) /\ pos[q] + 1 \in 1..(Len(idseq[q]) + 2)
             /\ HeaderDone(t) => FirstRecord(t) = Len(t) + 1
<1> DEFINE d == ofile[q]
           s == file[d]
           list == idseq[q]
           k == pos[q] + 1
           b == HeaderBlock(k, list)
           t == Append(s, b)
<1>1. /\ TypeOK /\ Creates(q, s) /\ d \in Day /\ s \in Seq(Blocks) /\ pc[q] = "sethdr"
      /\ list \in Seq(Activity) /\ pos[q] \in Nat /\ n[q] \in Nat /\ todo[q] \in Cursors
  BY OfUser DEF AddsHeader
<1>2. /\ Heads(s, list, pos[q]) /\ pos[q] < Len(list) + 2 /\ todo[q] = HeaderCursor(k)
  BY <1>1 DEF Creates, Creating
<1>3. InList(todo[q], list) /\ todo[q].part # "end"
  BY <1>1 DEF RInv, Typed, CursorInList
<1>4. k \in 1..(Len(list) + 2) /\ k \in Nat
  BY <1>1, <1>2
<1>5. b = BlockOf(q, n[q], todo[q], list)
  <2> HIDE DEF k, list
  <2> QED
    BY <1>1, <1>2, <1>4, HeaderStep DEF b
<1>6. b \in Blocks /\ t \in Seq(Blocks)
  <2>1. b \in Blocks
    BY <1>1, <1>3, <1>5, BlockOfType
  <2> HIDE DEF b
  <2> QED
    BY <1>1, <2>1
<1>7. Heads(t, list, k)
  BY <1>1, <1>2, HeadsLonger
<1>8. file' = [file EXCEPT ![d] = t] /\ file'[d] = t
  BY <1>1 DEF AddsHeader, TypeOK
<1>9. \A i \in 1..k : t[i].part \in HeaderParts
  <2> HIDE DEF k, list, t
  <2> QED
    BY <1>1, <1>4, <1>6, <1>7, HeadsDone
<1>10. HeaderDone(t) => FirstRecord(t) = k + 1
  <2> HIDE DEF k, list, t
  <2> QED
    BY <1>1, <1>4, <1>6, <1>7, HeadsDone
<1>11. Len(t) = k /\ (k >= 2 => t[2] = OurHeader(list))
  BY <1>7 DEF Heads, HeaderBlock
<1> HIDE DEF k, list, t
<1>12. /\ \A i \in 1..Len(t) : t[i].part \in HeaderParts
       /\ Len(t) >= 2 => t[2] = OurHeader(list)
       /\ HeaderDone(t) => FirstRecord(t) = Len(t) + 1
  BY <1>9, <1>10, <1>11
<1> QED
  BY <1>4, <1>6, <1>7, <1>8, <1>12 DEF t, k, list

\* What follows the block that q adds to a record is what it writes next.
LEMMA RecordAdded ==
  ASSUME Owned, RInv, NEW q \in Sadc, AddsRecord(q)
  PROVE  LET d == ofile[q]
             b == BlockOf(q, n[q], todo[q], idseq[q])
             t == Append(file[d], b)
         IN  /\ file' = [file EXCEPT ![d] = t] /\ file'[d] = t /\ t \in Seq(Blocks)
             /\ HeaderDone(file[d])
             /\ b \in Blocks /\ b.part \in RecordParts /\ b.by = q /\ b.n = n[q]
             /\ EndsRecord(t, Len(file[d]) + 1) <=> todo'[q] = End
             /\ Following(t, Len(file[d]) + 1) = todo'[q] /\ Announced(file[d]) = idseq[q]
<1> DEFINE d == ofile[q]
           s == file[d]
           list == idseq[q]
           b == BlockOf(q, n[q], todo[q], list)
           t == Append(s, b)
           i == Len(s) + 1
<1>1. /\ TypeOK /\ Logs(q, s) /\ d \in Day /\ s \in Seq(Blocks) /\ pc[q] = "write"
      /\ list \in Seq(Activity) /\ n[q] \in Nat /\ todo[q] \in Cursors
      /\ todo'[q] = After(Args[q].run, todo[q], list)
  BY OfUser DEF AddsRecord
<1>2. HeaderDone(s) /\ Announced(s) = list /\ todo[q].part \in RecordParts
  BY <1>1 DEF Logs, Running, Recording
<1>3. InList(todo[q], list) /\ todo[q].part # "end"
  BY <1>1 DEF RInv, Typed, CursorInList
<1>4. b \in Blocks
  BY <1>1, <1>3, BlockOfType
<1>5. b.part = todo[q].part /\ b.by = q /\ b.n = n[q] /\ b.at = todo[q].at
  BY <1>2, RecordPut
<1>6. file' = [file EXCEPT ![d] = t] /\ file'[d] = t
  BY <1>1 DEF AddsRecord, TypeOK
<1> HIDE DEF b, list
<1>7. t \in Seq(Blocks) /\ t[i] = b
  BY <1>1, <1>4
<1>8. Announced(t) = list
  BY <1>1, <1>2, <1>4, HeaderKept
<1>9. Cursor(b.part, b.at) = todo[q]
  BY <1>1, <1>5, CursorIs
<1> HIDE DEF t, i
<1>10. Following(t, i) = todo'[q]
  BY <1>1, <1>5, <1>7, <1>8, <1>9 DEF Following
<1>11. EndsRecord(t, i) <=> todo'[q] = End
  BY <1>2, <1>5, <1>7, <1>10 DEF EndsRecord
<1> QED
  BY <1>2, <1>4, <1>5, <1>6, <1>7, <1>10, <1>11 DEF t, i, b, list

\* The members of a sequence that one more is added to.
LEMMA ToSetAdded ==
  ASSUME NEW S, NEW l \in Seq(S), NEW e \in S
  PROVE  ToSet(Append(l, e)) = ToSet(l) \cup {e}
<1> DEFINE m == Append(l, e)
<1>1. Len(l) \in Nat /\ DOMAIN l = 1..Len(l) /\ DOMAIN m = 1..(Len(l) + 1)
  OBVIOUS
<1>2. m[Len(l) + 1] = e /\ \A i \in 1..Len(l) : m[i] = l[i]
  OBVIOUS
<1> HIDE DEF m
<1>3. \A i \in DOMAIN m : i = Len(l) + 1 \/ i \in 1..Len(l)
  BY <1>1
<1>4. Len(l) + 1 \in DOMAIN m /\ \A i \in 1..Len(l) : i \in DOMAIN m
  BY <1>1
<1>5. ToSet(m) \subseteq ToSet(l) \cup {e}
  BY <1>1, <1>2, <1>3 DEF ToSet
<1>6. ToSet(l) \cup {e} \subseteq ToSet(m)
  BY <1>1, <1>2, <1>4 DEF ToSet
<1> QED
  BY <1>5, <1>6 DEF m

\* The content of the files.
LEMMA ContentKept ==
  ASSUME Owned, RInv, NEW q \in Sadc,
         Still(q) \/ Empties(q) \/ AddsHeader(q) \/ AddsRecord(q), NEW d \in Day
  PROVE  Content(d)'
<1>0. /\ TypeOK /\ Content(d) /\ KeepsHeader(d) /\ HeaderLists(d) /\ RecordsAre(d)
      /\ file[d] \in Seq(Blocks) /\ ofile[q] \in Day /\ idseq[q] \in Seq(Activity)
  BY OfUser DEF RInv, Content, TypeOK
<1>1. CASE file'[d] = file[d]
  BY <1>0, <1>1 DEF Content, KeepsHeader, HeaderLists, RecordsAre, Kept, Users
<1>2. ASSUME pc[q] \in Creating PROVE ~Kept(ofile[q]) /\ idseq[q] # << >>
  BY <1>2, OfUser DEF Creates, Names, Creating
<1>3. CASE Empties(q) /\ d = ofile[q]
  <2>1. file'[d] = << >> /\ ~Kept(d)
    BY <1>0, <1>2, <1>3 DEF Empties, TypeOK
  <2>2. ~HeaderDone(<< >>) /\ Len(<< >>) = 0
    BY Complete
  <2> QED
    BY <2>1, <2>2 DEF Content, KeepsHeader, HeaderLists, RecordsAre, Kept, Users
<1>4. CASE AddsHeader(q) /\ d = ofile[q]
  <2> DEFINE t == Append(file[d], HeaderBlock(pos[q] + 1, idseq[q]))
  <2>1. /\ file'[d] = t /\ t \in Seq(Blocks)
        /\ Len(t) >= 2 => t[2] = OurHeader(idseq[q])
        /\ HeaderDone(t) => FirstRecord(t) = Len(t) + 1
    BY <1>4, HeaderAdded
  <2>2. ~Kept(d) /\ idseq[q] # << >>
    BY <1>2, <1>4 DEF AddsHeader, Creating
  <2> HIDE DEF t
  <2>3. Len(t) >= 2 => t[2].nact >= 1
    BY <1>0, <2>1, <2>2, HeaderParted
  <2>4. ASSUME HeaderDone(t) PROVE Records(t) = << >> /\ Ends(t) = {}
    <3>1. Len(t) < FirstRecord(t)
      BY <2>1, <2>4
    <3> QED
      BY <2>1, <2>4, <3>1, NoRecords
  <2>5. ToSet(<< >>) = {}
    BY DEF ToSet
  <2>6. HeaderDone(t) => /\ Records(t) \in Seq(Sadc \X Nat)
                         /\ ToSet(Records(t)) = { << t[i].by, t[i].n >> : i \in Ends(t) }
    BY <2>4, <2>5
  <2> QED
    BY <2>1, <2>2, <2>3, <2>6 DEF Content, KeepsHeader, HeaderLists, RecordsAre, Kept, Users
<1>5. CASE AddsRecord(q) /\ d = ofile[q]
  <2> DEFINE s == file[d]
             b == BlockOf(q, n[q], todo[q], idseq[q])
             t == Append(s, b)
             i == Len(s) + 1
  <2>1. /\ file'[d] = t /\ t \in Seq(Blocks) /\ HeaderDone(s) /\ b \in Blocks
        /\ b.by = q /\ b.n = n[q] /\ n[q] \in Nat
    BY <1>5, RecordAdded, OfUser
  <2> HIDE DEF b
  <2>2. Len(s) \in Nat /\ Len(s) >= 2 /\ Len(t) = Len(s) + 1 /\ t[i] = b
        /\ \A k \in 1..Len(s) : t[k] = s[k]
    BY <1>0, <2>1, Complete
  <2>3. /\ Records(t) = IF EndsRecord(t, i) THEN Append(Records(s), << q, n[q] >>) ELSE Records(s)
        /\ Ends(t) = IF EndsRecord(t, i) THEN Ends(s) \cup {i} ELSE Ends(s)
    BY <1>0, <2>1, RecordsAdded, EndsAdded
  <2>4. /\ Records(s) \in Seq(Sadc \X Nat)
        /\ ToSet(Records(s)) = { << s[k].by, s[k].n >> : k \in Ends(s) }
    BY <1>0, <2>1 DEF RecordsAre
  <2>5. Ends(s) \subseteq 1..Len(s)
    BY <1>0, <2>1, FirstRecordType DEF Ends
  <2> HIDE DEF s, t, i
  <2>6. { << t[k].by, t[k].n >> : k \in Ends(s) } = { << s[k].by, s[k].n >> : k \in Ends(s) }
    BY <2>2, <2>5
  <2>7. Records(t) \in Seq(Sadc \X Nat)
    BY <2>1, <2>3, <2>4
  <2>8. ToSet(Records(t)) = { << t[k].by, t[k].n >> : k \in Ends(t) }
    <3>1. CASE EndsRecord(t, i)
      <4>1. Records(t) = Append(Records(s), << q, n[q] >>) /\ Ends(t) = Ends(s) \cup {i}
        BY <2>3, <3>1
      <4>2. ToSet(Records(t)) = ToSet(Records(s)) \cup {<< q, n[q] >>}
        <5> DEFINE R == Records(s)
                   e == << q, n[q] >>
        <5>1. R \in Seq(Sadc \X Nat) /\ e \in Sadc \X Nat
          BY <2>1, <2>4
        <5> HIDE DEF R, e
        <5>2. ToSet(Append(R, e)) = ToSet(R) \cup {e}
          BY <5>1, ToSetAdded
        <5> QED
          BY <4>1, <5>2 DEF R, e
      <4>3. { << t[k].by, t[k].n >> : k \in Ends(s) \cup {i} } =
              { << t[k].by, t[k].n >> : k \in Ends(s) } \cup {<< t[i].by, t[i].n >>}
        OBVIOUS
      <4> QED
        BY <2>1, <2>2, <2>4, <2>6, <4>1, <4>2, <4>3
    <3>2. CASE ~EndsRecord(t, i)
      BY <2>3, <2>4, <2>6, <3>2
    <3> QED
      BY <3>1, <3>2
  <2>9. KeepsHeader(d)'
    <3>1. Kept(d) => Len(s) >= 3 /\ \A k \in 1..3 : s[k] = Former(InitFile[d])[k]
      BY <1>0 DEF KeepsHeader, s
    <3>2. Kept(d) => Len(t) >= 3 /\ \A k \in 1..3 : t[k] = Former(InitFile[d])[k]
      BY <2>2, <3>1
    <3> QED
      BY <2>1, <3>2 DEF KeepsHeader, Kept, Users
  <2>10. HeaderLists(d)'
    <3>1. t[2] = s[2]
      BY <2>2
    <3> QED
      BY <1>0, <2>1, <2>2, <3>1 DEF HeaderLists, s
  <2> QED
    BY <2>1, <2>7, <2>8, <2>9, <2>10 DEF Content, RecordsAre
<1>6. d # ofile[q] => file'[d] = file[d]
  BY <1>0 DEF Still, Empties, AddsHeader, AddsRecord, TypeOK
<1> QED
  BY <1>1, <1>3, <1>4, <1>5, <1>6 DEF Still

\* What another sadc has read or written stays.
LEMMA OwnOther ==
  ASSUME Owned, RInv, NEW q \in Sadc, Start(q) \/ Step(q) \/ Die(q),
         Still(q) \/ Empties(q) \/ AddsHeader(q) \/ AddsRecord(q), NEW p \in Sadc, p # q
  PROVE  Own(p)'
<1> DEFINE d == ofile[p]
           s == file[d]
<1>0. /\ TypeOK /\ Names(p) /\ Counts(p) /\ Opens(p, s) /\ Creates(p, s) /\ Logs(p, s)
      /\ d \in Day /\ s \in Seq(Blocks) /\ ofile[q] \in Day /\ idseq[p] \in Seq(Activity)
  BY OfUser
<1>1. /\ pc'[p] = pc[p] /\ ofile'[p] = ofile[p] /\ newofile'[p] = newofile[p]
      /\ mode'[p] = mode[p] /\ pos'[p] = pos[p] /\ filehdr'[p] = filehdr[p] /\ seen'[p] = seen[p]
      /\ idseq'[p] = idseq[p] /\ n'[p] = n[p] /\ todo'[p] = todo[p] /\ day' = day
  BY <1>0, StepApart, SameDay DEF Apart
<1>2. Names(p)' /\ Counts(p)'
  BY <1>0, <1>1 DEF Names, Counts, Users
<1>3. CASE pc[p] = "off"
  <2>1. Opens(p, file[ofile[p]])' /\ Creates(p, file[ofile[p]])' /\ Logs(p, file[ofile[p]])'
    BY <1>1, <1>3 DEF Opens, Creates, Logs, Reading, Creating, Running, Recording
  <2> QED
    BY <1>2, <2>1 DEF Own
<1>4. CASE file'[d] = s
  <2>1. Opens(p, file[ofile[p]])'
    BY <1>0, <1>1, <1>4 DEF Opens
  <2>2. Creates(p, file[ofile[p]])'
    BY <1>0, <1>1, <1>4 DEF Creates, Kept, Users, Logged
  <2>3. Logs(p, file[ofile[p]])'
    BY <1>0, <1>1, <1>4 DEF Logs, Kept, Users
  <2> QED
    BY <1>2, <2>1, <2>2, <2>3 DEF Own
<1>5. CASE pc[p] # "off" /\ file'[d] # s
  <2>1. d = ofile[q]
    BY <1>0, <1>5 DEF Still, Empties, AddsHeader, AddsRecord, TypeOK
  <2>2. pc[q] \notin Creating
    BY <1>5, <2>1, OneCreator
  <2>3. AddsRecord(q)
    BY <1>5, <2>2 DEF Still, Empties, AddsHeader, Creating
  <2> DEFINE b == BlockOf(q, n[q], todo[q], idseq[q])
             t == Append(s, b)
  <2>4. file'[d] = t /\ HeaderDone(s) /\ b \in Blocks
    BY <2>1, <2>3, RecordAdded
  <2>5. q \in Users(d) /\ p \in Users(d) /\ Kept(d)
    <3>1. q \in Users(d) /\ p \in Users(d)
      BY <1>5, <2>1, <2>3, OfUser DEF Names, AddsRecord
    <3>2. Kept(d) \/ Alone(d)
      BY <1>0 DEF Owned
    <3> QED
      BY <3>1, <3>2 DEF Alone
  <2> HIDE DEF b
  <2>6. Len(s) \in Nat /\ Len(t) = Len(s) + 1 /\ \A k \in 1..Len(s) : t[k] = s[k]
    BY <1>0, <2>4
  <2>7. HeaderDone(t) /\ Announced(t) = Announced(s)
    BY <1>0, <2>4, HeaderKept
  <2>8. Opens(p, file[ofile[p]])'
    <3>1. Len(seen[p]) \in Nat /\ pos[p] \in Nat
      BY <1>0 DEF TypeOK
    <3>2. Opens(p, t)
      <4> HIDE DEF s, t
      <4>1. CASE pc[p] = "acts"
        <5>1. /\ mode[p] = "append" /\ Len(s) >= 1 /\ s[1] = OurMagic /\ Len(s) >= pos[p]
              /\ pos[p] = 2 + Len(seen[p]) /\ Len(seen[p]) <= filehdr[p].nact
              /\ s[2] = filehdr[p] /\ s[2].part = "header" /\ s[2].fit /\ ~(s[2].past /\ Args[p].rotat)
              /\ \A i \in 1..Len(seen[p]) : s[2 + i] = OurAct(seen[p][i])
          BY <1>0, <4>1 DEF Opens, Reading
        <5>2. \A i \in 1..Len(seen[p]) : 2 + i \in 1..Len(s)
          BY <2>6, <3>1, <5>1
        <5>3. \A i \in 1..Len(seen[p]) : t[2 + i] = OurAct(seen[p][i])
          BY <2>6, <5>1, <5>2
        <5>4. t[1] = s[1] /\ t[2] = s[2] /\ Len(t) >= pos[p] /\ Len(t) >= 1
          BY <2>6, <3>1, <5>1
        <5> QED
          BY <4>1, <5>1, <5>3, <5>4 DEF Opens
      <4>2. CASE pc[p] # "acts"
        <5>1. (pc[p] \in Reading => mode[p] = "append") /\ (pc[p] = "header" => Len(s) >= 1 /\ s[1] = OurMagic)
          BY <1>0 DEF Opens
        <5>2. Len(s) >= 1 => t[1] = s[1] /\ Len(t) >= 1
          BY <2>6
        <5> QED
          BY <4>2, <5>1, <5>2 DEF Opens
      <4> QED
        BY <4>1, <4>2
    <3> HIDE DEF t
    <3> QED
      BY <1>1, <2>4, <3>2 DEF Opens
  <2>9. Creates(p, file[ofile[p]])'
    <3>1. pc[p] \notin Creating
      BY <1>0, <2>5 DEF Creates
    <3> QED
      BY <1>1, <3>1 DEF Creates, Creating
  <2>10. Logs(p, file[ofile[p]])'
    <3> HIDE DEF t
    <3> QED
      BY <1>0, <1>1, <2>4, <2>5, <2>7 DEF Logs
  <2> QED
    BY <1>2, <2>8, <2>9, <2>10 DEF Own
<1> QED
  BY <1>3, <1>4, <1>5

\* Who wrote a block of a record, and of which one.
LEMMA RecordBlockType ==
  ASSUME NEW s \in Seq(Blocks), NEW i \in 1..Len(s), s[i].part \in RecordParts
  PROVE  s[i].by \in Sadc /\ s[i].n \in Nat
<1>1. s[i] \in Blocks
  OBVIOUS
<1> QED
  BY <1>1 DEF Blocks, HeaderBlocks, ActBlocks, RecordBlocks, RecordParts

\* The blocks p has written are of records it has begun, in files up to its present one.
LEMMA MineKept ==
  ASSUME Owned, RInv, NEW q \in Sadc, Start(q) \/ Step(q) \/ Die(q),
         Still(q) \/ Empties(q) \/ AddsHeader(q) \/ AddsRecord(q), NEW p \in Sadc
  PROVE  Mine(p)'
<1>0. TypeOK /\ Mine(p) /\ ofile[p] \in Day /\ ofile[q] \in Day /\ n[p] \in Nat /\ n[q] \in Nat
  BY OfUser DEF RInv
<1>1. p # q => /\ pc'[p] = pc[p] /\ ofile'[p] = ofile[p] /\ n'[p] = n[p]
  BY <1>0, StepApart DEF Apart
<1>2. ASSUME NEW d \in Day, NEW k \in Nat, Mark(p, d, k) PROVE Mark(p, d, k)'
  <2>1. CASE p = q
    BY <1>2, <2>1 DEF Still, Empties, AddsHeader, AddsRecord, Marks
  <2>2. CASE p # q
    BY <1>1, <1>2, <2>2 DEF Mark
  <2> QED
    BY <2>1, <2>2
<1>3. ASSUME NEW d \in Day, NEW i \in 1..Len(file'[d]),
             file'[d][i].part \in RecordParts, file'[d][i].by = p
      PROVE  Mark(p, d, file[d][i].n)'
  <2> DEFINE s == file[d]
  <2>0. s \in Seq(Blocks) /\ Len(s) \in Nat
    BY <1>0 DEF TypeOK
  <2>1. CASE i \in 1..Len(s) /\ file'[d][i] = s[i]
    <3>1. s[i].n \in Nat /\ Mark(p, d, s[i].n)
      BY <1>0, <1>3, <2>0, <2>1, RecordBlockType DEF Mine
    <3>2. PICK k \in Nat : k = s[i].n
      BY <3>1
    <3>3. Mark(p, d, k)'
      BY <1>2, <3>1, <3>2
    <3>4. file'[d][i].n = k
      BY <2>1, <3>2
    <3> QED
      BY <3>3, <3>4 DEF Mark
  <2>2. CASE file'[d] = s
    BY <2>1, <2>2
  <2>3. CASE Empties(q) /\ d = ofile[q]
    <3>1. file'[d] = << >>
      BY <1>0, <2>3 DEF Empties, TypeOK
    <3> QED
      BY <1>3, <3>1
  <2>4. CASE AddsHeader(q) /\ d = ofile[q]
    <3>1. file'[d][i].part \in HeaderParts
      BY <1>3, <2>4, HeaderAdded
    <3> QED
      BY <1>3, <3>1 DEF HeaderParts, RecordParts
  <2>5. CASE AddsRecord(q) /\ d = ofile[q]
    <3> DEFINE b == BlockOf(q, n[q], todo[q], idseq[q])
    <3>1. file'[d] = Append(s, b) /\ b \in Blocks /\ b.by = q /\ b.n = n[q]
      BY <2>5, RecordAdded
    <3> HIDE DEF b
    <3>2. CASE i \in 1..Len(s)
      BY <2>0, <2>1, <3>1, <3>2
    <3>3. CASE i = Len(s) + 1
      <4>1. file'[d][i] = b /\ p = q
        BY <1>3, <2>0, <3>1, <3>3
      <4>2. /\ pc'[q] \in {"write", "written", "special"} /\ ofile'[q] = d /\ n'[q] = n[q]
            /\ Counts(q)'
        BY <2>5 DEF AddsRecord, Own
      <4>3. n'[q] = 0 => pc'[q] \in {"write", "special"}
        BY <4>2 DEF Counts
      <4> QED
        BY <1>0, <3>1, <4>1, <4>2, <4>3 DEF Mark, BeforeFirst, Opening, Creating, Day
    <3> QED
      BY <1>3, <2>0, <3>1, <3>2, <3>3
  <2> QED
    BY <1>0, <2>2, <2>3, <2>4, <2>5 DEF Still, Empties, AddsHeader, AddsRecord, TypeOK
<1>5. n'[p] \in Nat
  BY NextTyped DEF Next, RInv, Typed, TypeOK
<1>4. ASSUME pc'[p] = "write", NEW i \in Ends(file'[ofile'[p]]), file'[ofile'[p]][i].by = p
      PROVE  file'[ofile'[p]][i].n < n'[p]
  <2> DEFINE d == ofile[p]
             s == file[d]
  <2>0. s \in Seq(Blocks) /\ Len(s) \in Nat
    BY <1>0 DEF TypeOK
  <2>1. pc[p] = "write" => \A j \in Ends(s) : s[j].by = p => s[j].n < n[p]
    BY <1>0 DEF Mine
  <2>2. CASE p = q /\ Still(q)
    <3>1. pc[q] # "write"
      BY <1>4, <2>2 DEF Still
    <3>2. ofile'[q] = d /\ (n'[q] > n[q] \/ pc[q] \in BeforeFirst) /\ file' = file
      BY <1>4, <2>2, <3>1 DEF Still, Marks
    <3>3. i \in 1..Len(s) /\ s[i].part \in RecordParts /\ s[i].by = q
      <4>1. HeaderDone(s)
        BY <2>2, <3>2, <1>4, OfUser DEF Still, Own, Logs, Running, Recording
      <4>2. FirstRecord(s) \in Nat /\ FirstRecord(s) >= 3
        BY <2>0, <4>1, FirstRecordType
      <4> QED
        BY <1>4, <2>0, <2>2, <3>2, <4>2 DEF Ends, EndsRecord
    <3>4. Mark(q, d, s[i].n) /\ s[i].n \in Nat
      BY <1>0, <2>0, <2>2, <3>3, RecordBlockType DEF Mine
    <3>5. d <= ofile[q] /\ s[i].n <= n[q] /\ (pc[q] \in BeforeFirst => d < ofile[q])
      BY <3>4 DEF Mark
    <3>6. ~(d < ofile[q])
      BY <1>0, <2>2 DEF Day
    <3>7. n'[q] > n[q]
      BY <3>2, <3>5, <3>6
    <3>8. s[i].n < n'[q]
      BY <1>0, <1>5, <2>2, <3>4, <3>5, <3>7
    <3> QED
      BY <2>2, <3>2, <3>8
  <2>3. CASE p = q /\ AddsRecord(q)
    <3> DEFINE b == BlockOf(q, n[q], todo[q], idseq[q])
               t == Append(s, b)
    <3>1. /\ file'[d] = t /\ HeaderDone(s) /\ b \in Blocks /\ ofile'[q] = d /\ n'[q] = n[q]
          /\ (EndsRecord(t, Len(s) + 1) <=> todo'[q] = End)
      BY <2>3, RecordAdded DEF AddsRecord
    <3>2. todo'[q] # End /\ pc[q] = "write"
      BY <1>4, <2>3 DEF AddsRecord
    <3> HIDE DEF b
    <3>3. Ends(t) = Ends(s)
      BY <2>0, <3>1, <3>2, EndsAdded
    <3>4. Ends(s) \subseteq 1..Len(s)
      BY <2>0, <3>1, FirstRecordType DEF Ends
    <3>6. file'[ofile'[p]] = t /\ \A j \in 1..Len(s) : t[j] = s[j]
      BY <2>0, <2>3, <3>1
    <3>5. i \in Ends(s) /\ t[i] = s[i]
      BY <1>4, <3>3, <3>4, <3>6
    <3> HIDE DEF t
    <3> QED
      BY <1>4, <2>1, <2>3, <3>1, <3>2, <3>5
  <2>4. CASE p = q /\ (Empties(q) \/ AddsHeader(q))
    BY <1>4, <2>4 DEF Empties, AddsHeader
  <2>5. CASE p # q /\ file'[d] = s
    BY <1>1, <1>4, <2>1, <2>5
  <2>6. CASE p # q /\ file'[d] # s
    <3>1. d = ofile[q] /\ pc[p] # "off" /\ pc[p] = "write"
      BY <1>0, <1>1, <1>4, <2>6 DEF Still, Empties, AddsHeader, AddsRecord, TypeOK
    <3>2. pc[q] \notin Creating
      BY <2>6, <3>1, OneCreator
    <3>3. AddsRecord(q)
      BY <2>6, <3>2 DEF Still, Empties, AddsHeader, Creating
    <3> DEFINE b == BlockOf(q, n[q], todo[q], idseq[q])
               t == Append(s, b)
    <3>4. file'[d] = t /\ HeaderDone(s) /\ b \in Blocks /\ b.by = q
      BY <3>1, <3>3, RecordAdded
    <3> HIDE DEF b
    <3>5. Ends(t) \subseteq Ends(s) \cup {Len(s) + 1}
      BY <2>0, <3>4, EndsAdded
    <3>6. Ends(s) \subseteq 1..Len(s)
      BY <2>0, <3>4, FirstRecordType DEF Ends
    <3>7. t[Len(s) + 1] = b /\ \A j \in 1..Len(s) : t[j] = s[j]
      BY <2>0, <3>4
    <3> HIDE DEF t
    <3>8. i \in Ends(s) /\ t[i] = s[i]
      BY <1>1, <1>4, <2>6, <3>4, <3>5, <3>6, <3>7
    <3> QED
      BY <1>1, <1>4, <2>1, <2>6, <3>1, <3>4, <3>8
  <2> QED
    BY <2>2, <2>3, <2>4, <2>5, <2>6
<1> QED
  BY <1>3, <1>4 DEF Mine

LEMMA InitRefinement == Owned /\ Init => RInv
<1> SUFFICES ASSUME Owned, Init PROVE RInv
  OBVIOUS
<1>1. ASSUME NEW d \in Day
      PROVE  /\ file[d] = Former(InitFile[d]) /\ file[d] \in Seq(Blocks)
             /\ \/ file[d] \in Bare
                \/ \E b, c, e \in BOOLEAN : file[d] = << OurMagic, Header(1, b, c), ActBlock(1, e) >>
  <2>1. file[d] = Former(InitFile[d]) /\ InitFile[d] \in FileKinds
    BY SadcFileAssumption DEF Init
  <2>2. \/ file[d] \in Bare
        \/ file[d] = << OurMagic, Header(1, FALSE, FALSE), ActBlock(1, TRUE) >>
        \/ file[d] = << OurMagic, Header(1, FALSE, TRUE), ActBlock(1, FALSE) >>
        \/ file[d] = << OurMagic, Header(1, TRUE, TRUE), ActBlock(1, TRUE) >>
        \/ file[d] = << OurMagic, Header(1, FALSE, TRUE), ActBlock(1, TRUE) >>
    BY <2>1, FormerFiles, Zenon DEF FileKinds, Bare
  <2>3. TRUE \in BOOLEAN /\ FALSE \in BOOLEAN
    OBVIOUS
  <2>4. \/ file[d] \in Bare
        \/ \E b, c, e \in BOOLEAN : file[d] = << OurMagic, Header(1, b, c), ActBlock(1, e) >>
    BY <2>2, <2>3, Zenon
  <2> QED
    BY <2>1, <2>4, FormerType
<1>2. ASSUME NEW d \in Day PROVE Content(d) /\ \A i \in 1..Len(file[d]) : file[d][i].part \notin RecordParts
  <2> DEFINE s == file[d]
  <2>1. CASE s \in Bare
    <3>1. Len(s) \in {0, 1} /\ ~HeaderDone(s)
      BY <2>1, BareShort, Complete
    <3>2. s = << >> \/ s = NoFile \/ s = << Magic(FALSE) >>
      BY <2>1 DEF Bare
    <3>3. \A i \in 1..Len(s) : s[i].part \notin RecordParts
      BY <3>2 DEF NoFile, Magic, RecordParts
    <3>4. ~Kept(d)
      <4>1. \/ InitFile[d] \notin {"past", "current"}
            \/ \E b, c, e : s = << OurMagic, Header(1, b, c), ActBlock(1, e) >>
        BY <1>1, FormerFiles, Zenon
      <4>2. \A b, c, e : Len(<< OurMagic, Header(1, b, c), ActBlock(1, e) >>) = 3
        OBVIOUS
      <4> QED
        BY <3>1, <4>1, <4>2 DEF Kept
    <3> QED
      BY <3>1, <3>3, <3>4 DEF Content, KeepsHeader, HeaderLists, RecordsAre
  <2>2. CASE \E b, c, e \in BOOLEAN : s = << OurMagic, Header(1, b, c), ActBlock(1, e) >>
    <3>1. PICK b, c, e \in BOOLEAN : s = << OurMagic, Header(1, b, c), ActBlock(1, e) >>
      BY <2>2
    <3>2. Len(s) = 3 /\ s[1] = OurMagic /\ s[2] = Header(1, b, c) /\ s[3] = ActBlock(1, e)
      BY <3>1
    <3>0. s \in Seq(Blocks)
      BY <1>1
    <3> HIDE DEF s
    <3>3. s[1].part = "magic" /\ s[2].part = "header" /\ s[2].nact = 1 /\ s[3].part = "act"
      BY <3>2, HeaderParted DEF Header, ActBlock
    <3>4. FirstRecord(s) = 4
      BY <3>3 DEF FirstRecord
    <3>5. \A i \in 1..Len(s) : i = 1 \/ i = 2 \/ i = 3
      BY <3>2
    <3>6. \A i \in 1..Len(s) : s[i].part \notin RecordParts
      BY <3>3, <3>5 DEF RecordParts
    <3>7. HeaderDone(s) => Records(s) = << >> /\ Ends(s) = {}
      <4>1. Len(s) < FirstRecord(s)
        BY <3>2, <3>4
      <4> QED
        BY <3>0, <4>1, NoRecords
    <3>8. ToSet(<< >>) = {}
      BY DEF ToSet
    <3>9. HeaderDone(s) => /\ Records(s) \in Seq(Sadc \X Nat)
                           /\ ToSet(Records(s)) = { << s[i].by, s[i].n >> : i \in Ends(s) }
      BY <3>7, <3>8
    <3> QED
      BY <1>1, <3>2, <3>3, <3>6, <3>9 DEF Content, KeepsHeader, HeaderLists, RecordsAre, s
  <2> QED
    BY <1>1, <2>1, <2>2
<1>3. ASSUME NEW p \in Sadc PROVE Own(p) /\ Mine(p)
  <2>1. pc[p] = "off" /\ ofile[p] = 1 /\ newofile[p] = 1 /\ day = 1
    BY DEF Init
  <2>2. Own(p)
    BY <2>1 DEF Own, Names, Counts, Opens, Creates, Logs, Reading, Creating, Running, Recording
  <2>3. Mine(p)
    BY <1>2, <2>1 DEF Mine
  <2> QED
    BY <2>2, <2>3
<1> QED
  BY <1>2, <1>3, InitTyped DEF RInv

LEMMA NextRefinement == Owned /\ RInv /\ [Next]_vars => RInv'
<1> SUFFICES ASSUME Owned, RInv, [Next]_vars PROVE RInv'
  OBVIOUS
<1>1. Typed'
  BY NextTyped DEF RInv
<1>2. ASSUME NEW q \in Sadc, Start(q) \/ Step(q) \/ Die(q)
      PROVE  /\ \A d \in Day : Content(d)'
             /\ \A p \in Sadc : Own(p)' /\ Mine(p)'
  <2>1. Still(q) \/ Empties(q) \/ AddsHeader(q) \/ AddsRecord(q)
    BY <1>2, StepKinds
  <2>2. Own(q)'
    BY <2>1 DEF Still, Empties, AddsHeader, AddsRecord
  <2> QED
    BY <1>2, <2>1, <2>2, ContentKept, OwnOther, MineKept
<1>3. CASE UNCHANGED << file, pc, ofile, newofile, mode, pos, filehdr, seen, idseq, n, todo >>
           /\ day' \in {day, day + 1}
  <2>1. ASSUME NEW d \in Day PROVE Content(d)'
    <3>1. Content(d)
      BY DEF RInv
    <3> QED
      BY <1>3, <3>1 DEF Content, KeepsHeader, HeaderLists, RecordsAre, Kept, Users
  <2>2. ASSUME NEW p \in Sadc PROVE Own(p)'
    <3>1. /\ TypeOK /\ Names(p) /\ Counts(p) /\ Opens(p, file[ofile[p]]) /\ Creates(p, file[ofile[p]])
          /\ Logs(p, file[ofile[p]])
      BY OfUser
    <3>2. Names(p)'
      <4>1. newofile[p] \in Nat /\ day \in Nat
        BY <3>1 DEF TypeOK, Day
      <4> QED
        BY <1>3, <3>1, <4>1 DEF Names, Users
    <3>3. Counts(p)' /\ Opens(p, file[ofile[p]])'
      BY <1>3, <3>1 DEF Counts, Opens
    <3>4. Creates(p, file[ofile[p]])' /\ Logs(p, file[ofile[p]])'
      BY <1>3, <3>1 DEF Creates, Logs, Kept, Users, Logged
    <3> QED
      BY <3>2, <3>3, <3>4 DEF Own
  <2>3. ASSUME NEW p \in Sadc PROVE Mine(p)'
    <3>1. Mine(p)
      BY DEF RInv
    <3> QED
      BY <1>3, <3>1 DEF Mine, Mark
  <2> QED
    BY <1>1, <2>1, <2>2, <2>3 DEF RInv
<1>4. CASE Midnight \/ UNCHANGED vars
  BY <1>3, <1>4 DEF Midnight, vars
<1> QED
  BY <1>1, <1>2, <1>4 DEF Next, RInv

\* "List of activities from the file prevails over that of the user", even without
\* the lock: the list of a file that two sadc use is the one they have both read.
THEOREM FileListPrevailsOwned == Owned => (Spec => []FileListPrevails)
<1> SUFFICES ASSUME Owned PROVE Spec => []FileListPrevails
  OBVIOUS
<1>1. ASSUME RInv PROVE FileListPrevails
  <2>1. \A p \in Sadc : Logs(p, file[ofile[p]])
    BY <1>1, OfUser
  <2> QED
    BY <2>1 DEF FileListPrevails, Logs, Running, Recording
<1> QED
  BY <1>1, InitRefinement, NextRefinement, PTL DEF Spec

-----------------------------------------------------------------------------
(* The files are the logs of DailyLog.  One sadc is in the middle of a record *)
(* of a file at a time, and goes on where the file stops.                     *)

\* A file that several sadc use is shared under the lock of -L, and none of them comes to
\* it with a rotation, since S_F_FILE_LOCKED of the previous file would make it write there
\* without asking (run rotate_lock): one that rotates shares the file of day 1 at most.
Guarded ==
  \A d \in Day : Alone(d) \/ \A p \in Users(d) : Args[p].lock /\ (Args[p].rotat => d = 1)

\* What a step of q does with locks.
Quits(q) == pc'[q] \in Over
KeepsLock(q) ==
  /\ UNCHANGED << lock, locked >> /\ ofile'[q] = ofile[q]
  /\ pc[q] # "off"
  /\ pc'[q] = "write" => pc[q] = "write" \/ locked[q]
GetsLock(q) ==
  /\ ofile'[q] = ofile[q] /\ LockFree(q) /\ AskForFlock(q)
Begins(q) == pc[q] = "off" /\ pc'[q] # "write" /\ UNCHANGED << lock, locked >>
ChangesFile(q) == ofile'[q] = newofile[q] /\ newofile[q] # ofile[q]

Kinds(q) ==
  pc'[q] # "off" /\ (Quits(q) \/ KeepsLock(q) \/ GetsLock(q) \/ Begins(q) \/ ChangesFile(q))

\* A step ends the sadc, keeps its lock, gets it, begins the sadc or changes its file.
LEMMA StepLocks ==
  ASSUME TypeOK, NEW q \in Sadc, Start(q) \/ Step(q) \/ Die(q)
  PROVE  Kinds(q)
<1> USE DEF shared, Kinds
<1>0. ASSUME NEW label, Goto(q, label) PROVE pc'[q] = label
  BY <1>0 DEF Goto, TypeOK
<1>1. ASSUME NEW label \in Over, Exit(q, label) PROVE Kinds(q)
  BY <1>0, <1>1 DEF Exit, Quits, Over
<1>2. ASSUME NEW label, label \notin {"write", "off"}, Goto(q, label), pc[q] # "off", UNCHANGED << lock, locked, ofile >>
      PROVE  Kinds(q)
  BY <1>0, <1>2 DEF KeepsLock
<1>3. ASSUME pc[q] # "off", Recreate(q) PROVE Kinds(q)
  <2>1. Goto(q, "create") /\ UNCHANGED << lock, locked, ofile >>
    BY <1>3, Zenon DEF Recreate
  <2> QED
    BY <1>2, <1>3, <2>1
<1>4. ASSUME pc[q] # "off", Refuse(q) PROVE Kinds(q)
  BY <1>1, <1>3, <1>4 DEF Refuse, Over
<1>5. CASE Start(q)
  <2>1. pc[q] = "off" /\ Goto(q, "open") /\ UNCHANGED << lock, locked >>
    BY <1>5, Zenon DEF Start
  <2> QED
    BY <1>0, <2>1 DEF Begins
<1>6. CASE OpenFile(q) \/ AdoptList(q) \/ CreateFile(q) \/ Truncate(q) \/ EnterLoop(q) \/ Wake(q)
  <2>1. /\ pc[q] # "off" /\ UNCHANGED << lock, locked, ofile >>
        /\ \E label \in {"create", "magic", "main", "again", "lockfile", "sethdr", "loop"} : Goto(q, label)
    BY <1>6, Zenon DEF OpenFile, AdoptList, Opened, CreateFile, Truncate, EnterLoop, Wake
  <2> QED
    BY <1>2, <2>1
<1>7. CASE ReadMagic(q) \/ ReadHeader(q) \/ ReadActivity(q)
  <2>1. pc[q] \in {"magic", "header", "acts"}
    BY <1>7 DEF ReadMagic, ReadHeader, ReadActivity
  <2>2. \/ Recreate(q) \/ Refuse(q) \/ Exit(q, "done")
        \/ /\ UNCHANGED << lock, locked, ofile >>
           /\ Goto(q, "header") \/ Goto(q, "acts") \/ UNCHANGED pc
    BY <1>7, Zenon DEF ReadMagic, ReadHeader, ReadActivity
  <2>3. UNCHANGED << lock, locked, ofile, pc >> => Kinds(q)
    BY <2>1 DEF KeepsLock
  <2> QED
    BY <1>1, <1>2, <1>3, <1>4, <2>1, <2>2, <2>3 DEF Over
<1>8. CASE LockCreated(q) \/ BeginSpecial(q) \/ Sample(q) \/ SampleAgain(q)
  <2>1. /\ pc[q] # "off"
        /\ \/ Exit(q, "done")
           \/ UNCHANGED ofile /\ LockFree(q) /\ AskForFlock(q) /\ (Goto(q, "trunc") \/ Goto(q, "write"))
           \/ UNCHANGED << lock, locked, ofile >> /\ locked[q] /\ Goto(q, "write")
           \/ UNCHANGED << lock, locked, ofile >> /\ Goto(q, "written")
    <3>1. CASE LockCreated(q)
      BY <3>1, Zenon DEF LockCreated
    <3>2. CASE BeginSpecial(q)
      BY <3>2, Zenon DEF BeginSpecial
    <3>3. CASE Sample(q) \/ SampleAgain(q)
      <4>1. pc[q] \in {"loop", "again"} /\ WriteStats(q)
        BY <3>3 DEF Sample, SampleAgain
      <4> QED
        BY <4>1, Zenon DEF WriteStats
    <3> QED
      BY <1>8, <3>1, <3>2, <3>3
  <2>2. UNCHANGED << lock, locked, ofile >> /\ locked[q] /\ Goto(q, "write") => Kinds(q)
    BY <1>0, <2>1 DEF KeepsLock
  <2> QED
    BY <1>0, <1>1, <1>2, <2>1, <2>2 DEF Over, GetsLock
<1>9. CASE WriteBlock(q)
  <2>1. /\ pc[q] \in {"sethdr", "write"} /\ UNCHANGED << lock, locked, ofile >>
        /\ \E label \in {"main", "again", "written", "special", pc[q]} : Goto(q, label)
    BY <1>9, Zenon DEF WriteBlock, Opened
  <2> QED
    BY <1>0, <2>1 DEF KeepsLock
<1>10. CASE Rotate(q)
  <2>1. newofile[q] # ofile[q] /\ Goto(q, "open") /\ ofile' = [ofile EXCEPT ![q] = newofile[q]]
    BY <1>10, Zenon DEF Rotate
  <2> QED
    BY <1>0, <2>1 DEF ChangesFile, TypeOK
<1>11. CASE EndIteration(q) \/ EndSpecial(q) \/ Die(q)
  <2>1. /\ pc[q] # "off"
        /\ \/ Exit(q, "done") \/ Exit(q, "dead")
           \/ UNCHANGED << lock, locked, ofile >> /\ Goto(q, "pause")
    BY <1>11, Zenon DEF EndIteration, EndSpecial, Die, Over
  <2> QED
    BY <1>1, <1>2, <2>1 DEF Over
<1> QED
  BY <1>5, <1>6, <1>7, <1>8, <1>9, <1>10, <1>11 DEF Step

\* On a file that others use too, S_F_FILE_LOCKED says that the lock is held.
HoldsLock(p) ==
  /\ pc[p] = "off" => ~locked[p]
  /\ ~Alone(ofile[p]) /\ pc[p] \notin Over \cup {"off"} =>
       /\ locked[p] => lock[ofile[p]] = p
       /\ pc[p] = "write" => locked[p]

\* Whatever step: who thinks to have the lock of a shared file has it.
LEMMA HoldsLockKept ==
  ASSUME Owned, Guarded, RInv, RInv', NEW q \in Sadc, Start(q) \/ Step(q) \/ Die(q),
         NEW p \in Sadc, HoldsLock(p)
  PROVE  HoldsLock(p)'
<1>0. TypeOK /\ Undisturbed(q) /\ Names(q) /\ Names(q)' /\ ofile[q] \in Day /\ ofile'[q] \in Day /\ pc[q] \notin Over
  <2>1. TypeOK /\ Names(q) /\ ofile[q] \in Day
    BY OfUser
  <2>2. TypeOK' /\ Names(q)'
    BY DEF RInv, Typed, Own
  <2>3. pc[q] \notin Over
    BY DEF Start, Step, Die, OpenFile, ReadMagic, ReadHeader, ReadActivity, AdoptList, CreateFile,
       LockCreated, Truncate, BeginSpecial, EndSpecial, EnterLoop, Sample, SampleAgain, WriteStats,
       WriteBlock, Rotate, EndIteration, Wake, Over
  <2>4. StepKeeps(q)
    BY <2>1, EveryStepKeeps
  <2> QED
    BY <2>1, <2>2, <2>3, <2>4 DEF StepKeeps, TypeOK
<1>1. CASE p # q
  <2>1. /\ pc'[p] = pc[p] /\ ofile'[p] = ofile[p] /\ locked'[p] = locked[p]
        /\ lock[ofile[p]] = p => lock'[ofile[p]] = p
    BY <1>0, <1>1 DEF Undisturbed, TypeOK
  <2> QED
    BY <2>1 DEF HoldsLock, Alone, Users
<1>2. CASE p = q
  <2>0. Kinds(q)
    BY <1>0, StepLocks
  <2>1. \A d \in Day : Alone(d)' <=> Alone(d)
    BY DEF Alone, Users
  <2>2. CASE Quits(q)
    BY <1>2, <2>0, <2>2 DEF Quits, HoldsLock, Over, Kinds
  <2>3. CASE KeepsLock(q)
    BY <1>0, <1>2, <2>0, <2>1, <2>3 DEF KeepsLock, HoldsLock, Kinds
  <2>4. CASE GetsLock(q)
    <3>1. Alone(ofile'[q]) \/ Args[q].lock
      BY <1>0, <2>0, <2>1, <2>4 DEF GetsLock, Guarded, Names, Kinds
    <3>2. Args[q].lock => lock'[ofile'[q]] = q /\ locked'[q]
      <4> SUFFICES ASSUME Args[q].lock PROVE lock'[ofile'[q]] = q /\ locked'[q]
        OBVIOUS
      <4>1. lock' = [lock EXCEPT ![ofile[q]] = q] /\ locked' = [locked EXCEPT ![q] = TRUE]
        BY <2>4, Zenon DEF GetsLock, AskForFlock
      <4> QED
        BY <1>0, <2>4, <4>1 DEF GetsLock, TypeOK
    <3> QED
      BY <1>0, <1>2, <2>0, <2>1, <2>4, <3>1, <3>2 DEF GetsLock, HoldsLock, Kinds
  <2>5. CASE Begins(q)
    BY <1>2, <2>0, <2>5 DEF Begins, HoldsLock, Kinds
  <2>6. CASE ChangesFile(q)
    <3>1. ofile'[q] > ofile[q] /\ Args[q].rotat
      <4>1. ofile[q] \in Nat /\ newofile[q] \in Nat
        BY <1>0 DEF TypeOK, Day
      <4> QED
        BY <1>0, <2>6, <4>1 DEF ChangesFile, Names
    <3>2. ofile'[q] # 1 /\ q \in Users(ofile'[q])
      BY <1>0, <3>1 DEF Users, Day
    <3>3. Alone(ofile'[q])
      BY <1>0, <3>1, <3>2 DEF Guarded
    <3> QED
      BY <1>0, <1>2, <2>0, <2>1, <3>3 DEF HoldsLock, Kinds
  <2> QED
    BY <2>0, <2>2, <2>3, <2>4, <2>5, <2>6 DEF Kinds
<1> QED
  BY <1>1, <1>2

\* Who is in the middle of a record goes on where the file stops, and who stopped there
\* was killed.
WInv ==
  /\ \A p \in Sadc : HoldsLock(p) /\ GoesOn(p)
  /\ \A d \in Day : RecordsFollow(file[d]) /\ LastBlock(d)

\* Two sadc never are in the middle of a record of one file.
LEMMA OnlyWriter ==
  ASSUME Owned, Guarded, RInv, WInv, NEW p \in Sadc, NEW q \in Sadc,
         pc[p] = "write", pc[q] = "write", ofile[p] = ofile[q]
  PROVE  p = q
<1>1. p \in Users(ofile[p]) /\ q \in Users(ofile[q]) /\ ofile[q] \in Day
  BY OfUser DEF Names
<1>2. HoldsLock(p) /\ HoldsLock(q)
  BY DEF WInv
<1>3. CASE Alone(ofile[q])
  BY <1>1, <1>3 DEF Alone
<1>4. CASE ~Alone(ofile[q])
  BY <1>2, <1>4 DEF HoldsLock, Over
<1> QED
  BY <1>3, <1>4

\* What a step of q does to a record: it begins one, is killed in the middle of one, adds
\* a block to one, or has none.
BeginsRecord(q) ==
  /\ file' = file /\ pc[q] \notin {"write", "dead"} /\ pc'[q] = "write" /\ ofile'[q] = ofile[q]
  /\ todo'[q] = Cursor("rec", 0)
CutsRecord(q) == file' = file /\ pc[q] = "write" /\ pc'[q] = "dead"
NoRecordOf(q) ==
  /\ pc[q] \notin {"write", "dead"} /\ pc'[q] # "write"
  /\ file' = file \/ Empties(q) \/ AddsHeader(q)

LEMMA RecordSteps ==
  ASSUME Owned, RInv, NEW q \in Sadc, Start(q) \/ Step(q) \/ Die(q)
  PROVE  BeginsRecord(q) \/ CutsRecord(q) \/ AddsRecord(q) \/ NoRecordOf(q)
<1>0. TypeOK
  BY OfUser
<1>1. pc[q] # "dead"
  BY DEF Start, Step, Die, OpenFile, ReadMagic, ReadHeader, ReadActivity, AdoptList, CreateFile,
     LockCreated, Truncate, BeginSpecial, EndSpecial, EnterLoop, Sample, SampleAgain, WriteStats,
     WriteBlock, Rotate, EndIteration, Wake, Over
<1>2. Still(q) \/ Empties(q) \/ AddsHeader(q) \/ AddsRecord(q)
  BY StepKinds
<1>3. CASE pc[q] = "write"
  <2>1. WriteBlock(q) \/ Die(q)
    BY <1>3 DEF Start, Step, OpenFile, ReadMagic, ReadHeader, ReadActivity, AdoptList, CreateFile,
       LockCreated, Truncate, BeginSpecial, EndSpecial, EnterLoop, Sample, SampleAgain, Rotate,
       EndIteration, Wake
  <2>2. Die(q) => pc'[q] = "dead" /\ file' = file
    BY <1>0 DEF Die, Exit, Goto, TypeOK
  <2> QED
    BY <1>3, <2>1, <2>2, WriteBlockRecord DEF CutsRecord
<1>4. CASE pc[q] # "write"
  <2>1. pc'[q] = "write" => todo'[q] = Cursor("rec", 0)
    BY <1>0, <1>4, WriteStarts
  <2>2. pc'[q] = "write" => ofile'[q] = ofile[q] /\ file' = file
    BY <1>2, <1>4 DEF Still, Empties, AddsHeader, AddsRecord, Marks
  <2> QED
    BY <1>1, <1>2, <1>4, <2>1, <2>2 DEF BeginsRecord, NoRecordOf, Still, AddsRecord
<1> QED
  BY <1>3, <1>4

\* Which files a step changes.
LEMMA FileSteps ==
  ASSUME Owned, Guarded, RInv, WInv, NEW q \in Sadc,
         BeginsRecord(q) \/ CutsRecord(q) \/ AddsRecord(q) \/ NoRecordOf(q),
         NEW d \in Day, file'[d] # file[d]
  PROVE  /\ d = ofile[q]
         /\ \A p \in Sadc \ {q} : ofile[p] = d => pc[p] # "write"
         /\ \/ file'[d] = << >> /\ Empties(q)
            \/ AddsHeader(q)
            \/ AddsRecord(q)
<1>1. TypeOK /\ ofile[q] \in Day
  BY OfUser
<1>2. Empties(q) \/ AddsHeader(q) \/ AddsRecord(q)
  BY DEF BeginsRecord, CutsRecord, NoRecordOf
<1>3. d = ofile[q]
  BY <1>1, <1>2 DEF Empties, AddsHeader, AddsRecord, TypeOK
<1>4. Empties(q) => file'[d] = << >>
  BY <1>1, <1>3 DEF Empties, TypeOK
<1>5. ASSUME NEW p \in Sadc \ {q}, ofile[p] = d PROVE pc[p] # "write"
  <2>1. CASE AddsRecord(q)
    BY <1>3, <1>5, <2>1, OnlyWriter DEF AddsRecord
  <2>2. CASE Empties(q) \/ AddsHeader(q)
    <3>1. pc[q] \in Creating
      BY <2>2 DEF Empties, AddsHeader, Creating
    <3> QED
      BY <1>3, <1>5, <3>1, OneCreator
  <2> QED
    BY <1>2, <2>1, <2>2
<1> QED
  BY <1>2, <1>3, <1>4, <1>5

\* Block i of a record, where the records of a file are.
LEMMA RecordBlockAt ==
  ASSUME NEW s \in Seq(Blocks), HeaderDone(s), RecordsFollow(s), NEW i \in FirstRecord(s)..Len(s)
  PROVE  i \in 1..Len(s) /\ s[i].part \in RecordParts /\ s[i].by \in Sadc /\ s[i].n \in Nat
<1>1. i \in 1..Len(s) /\ s[i].part \in RecordParts
  BY FirstRecordType DEF RecordsFollow
<1> QED
  BY <1>1, RecordBlockType

\* A file that is added to has the same records in their places.
LEMMA BlockKept ==
  ASSUME NEW s \in Seq(Blocks), NEW b \in Blocks, HeaderDone(s), NEW i \in 1..Len(s)
  PROVE  /\ Append(s, b)[i] = s[i]
         /\ Following(Append(s, b), i) = Following(s, i)
         /\ EndsRecord(Append(s, b), i) <=> EndsRecord(s, i)
<1>1. Append(s, b)[i] = s[i] /\ (EndsRecord(Append(s, b), i) <=> EndsRecord(s, i))
  BY EndsRecordKept
<1>2. Announced(Append(s, b)) = Announced(s)
  BY HeaderKept
<1> QED
  BY <1>1, <1>2 DEF Following

\* Who stopped in the middle of a record goes on with it, or was killed.
LEMMA LastBlockKept ==
  ASSUME Owned, Guarded, RInv, WInv, NEW q \in Sadc, Start(q) \/ Step(q) \/ Die(q), NEW d \in Day
  PROVE  RecordsFollow(file'[d]) /\ LastBlock(d)'
<1> DEFINE s == file[d]
           i == Len(s)
<1>0. /\ TypeOK /\ s \in Seq(Blocks) /\ ofile[q] \in Day /\ RecordsFollow(s) /\ LastBlock(d)
      /\ Apart(q)
  BY OfUser, StepApart DEF WInv, TypeOK
<1>1. BeginsRecord(q) \/ CutsRecord(q) \/ AddsRecord(q) \/ NoRecordOf(q)
  BY RecordSteps
<1>2. CASE file'[d] = s
  <2>1. RecordsFollow(file'[d])
    BY <1>0, <1>2
  <2> SUFFICES ASSUME HeaderDone(s), i >= FirstRecord(s), ~EndsRecord(s, i)
               PROVE  LastBlock(d)'
    BY <1>2, <2>1 DEF LastBlock
  <2>2. i \in FirstRecord(s)..i
    BY <1>0, FirstRecordType
  <2>3. s[i].by \in Sadc
    BY <1>0, <2>2, RecordBlockAt
  <2> DEFINE r == s[i].by
  <2>4. \/ pc[r] = "dead"
        \/ pc[r] = "write" /\ ofile[r] = d /\ todo[r] = Following(s, i) /\ n[r] = s[i].n
    BY <1>0 DEF LastBlock
  <2> HIDE DEF r
  <2>5. \/ pc'[r] = "dead"
        \/ pc'[r] = "write" /\ ofile'[r] = d /\ todo'[r] = Following(s, i) /\ n'[r] = s[i].n
    <3>1. CASE r # q
      BY <1>0, <2>3, <2>4, <3>1 DEF Apart, r
    <3>2. CASE r = q
      <4>1. pc[q] = "write" => CutsRecord(q) \/ AddsRecord(q)
        BY <1>1 DEF BeginsRecord, NoRecordOf
      <4>2. pc[q] # "dead"
        BY <1>1 DEF BeginsRecord, NoRecordOf, CutsRecord, AddsRecord
      <4>3. AddsRecord(q) /\ ofile[q] = d => FALSE
        <5> SUFFICES ASSUME AddsRecord(q), ofile[q] = d PROVE FALSE
          OBVIOUS
        <5> DEFINE b == BlockOf(q, n[q], todo[q], idseq[q])
        <5>1. file'[d] = Append(s, b) /\ b \in Blocks
          BY RecordAdded
        <5> HIDE DEF b
        <5>2. Len(Append(s, b)) # Len(s)
          BY <1>0, <5>1
        <5> HIDE DEF s
        <5> QED
          BY <1>2, <5>1, <5>2
      <4> QED
        BY <2>4, <3>2, <4>1, <4>2, <4>3 DEF CutsRecord
    <3> QED
      BY <3>1, <3>2
  <2> QED
    BY <1>2, <2>5 DEF LastBlock, r
<1>3. CASE file'[d] # s
  <2>1. /\ d = ofile[q]
        /\ file'[d] = << >> \/ AddsHeader(q) \/ AddsRecord(q)
    BY <1>1, <1>3, FileSteps
  <2>2. CASE file'[d] = << >>
    <3>1. ~HeaderDone(<< >>)
      BY Complete
    <3>2. ~HeaderDone(file'[d])
      BY <2>2, <3>1
    <3> QED
      BY <3>2 DEF LastBlock, RecordsFollow
  <2>3. CASE AddsHeader(q)
    <3> DEFINE t == Append(s, HeaderBlock(pos[q] + 1, idseq[q]))
    <3>1. file'[d] = t /\ t \in Seq(Blocks) /\ (HeaderDone(t) => FirstRecord(t) = Len(t) + 1)
      BY <2>1, <2>3, HeaderAdded
    <3> HIDE DEF t
    <3>2. Len(t) \in Nat
      BY <3>1
    <3> QED
      BY <3>1, <3>2 DEF LastBlock, RecordsFollow
  <2>4. CASE AddsRecord(q)
    <3> DEFINE b == BlockOf(q, n[q], todo[q], idseq[q])
               t == Append(s, b)
               k == Len(s) + 1
    <3>1. /\ file'[d] = t /\ t \in Seq(Blocks) /\ HeaderDone(s) /\ b \in Blocks
          /\ b.part \in RecordParts /\ b.by = q /\ b.n = n[q]
          /\ EndsRecord(t, k) <=> todo'[q] = End
          /\ Following(t, k) = todo'[q]
      BY <2>1, <2>4, RecordAdded
    <3> HIDE DEF b
    <3>2. Len(t) = k /\ t[k] = b /\ k \in Nat /\ \A j \in 1..Len(s) : t[j] = s[j]
      BY <1>0, <3>1
    <3>3. HeaderDone(t) /\ FirstRecord(t) = FirstRecord(s)
      BY <1>0, <3>1, HeaderKept
    <3>4. ASSUME NEW j \in FirstRecord(s)..Len(s) PROVE t[j].part \in RecordParts
      <4>1. j \in 1..Len(s) /\ s[j].part \in RecordParts
        BY <1>0, <3>1, <3>4, RecordBlockAt
      <4> QED
        BY <3>2, <4>1
    <3>5. FirstRecord(s) \in Nat /\ Len(s) \in Nat
      BY <1>0, <3>1, FirstRecordType
    <3> HIDE DEF t
    <3>6. RecordsFollow(t)
      <4>1. \A j \in FirstRecord(t)..Len(t) : j = k \/ j \in FirstRecord(s)..Len(s)
        BY <3>2, <3>3, <3>5
      <4> QED
        BY <3>1, <3>2, <3>4, <4>1 DEF RecordsFollow
    <3>7. /\ ofile'[q] = d /\ n'[q] = n[q]
          /\ todo'[q] # End => pc'[q] = "write"
      BY <2>1, <2>4 DEF AddsRecord
    <3>8. LastBlock(d)'
      BY <3>1, <3>2, <3>7 DEF LastBlock
    <3> QED
      BY <3>1, <3>6, <3>8
  <2> QED
    BY <2>1, <2>2, <2>3, <2>4
<1> QED
  BY <1>2, <1>3

\* Where a sadc goes on with its record, nobody else has added anything.
LEMMA GoesOnStill ==
  ASSUME Owned, Guarded, RInv, WInv, NEW q \in Sadc, Start(q) \/ Step(q) \/ Die(q), NEW p \in Sadc
  PROVE  GoesOn(p)'
<1>0. /\ TypeOK /\ ofile[q] \in Day /\ ofile[p] \in Day /\ Apart(q) /\ GoesOn(p)
  BY OfUser, StepApart DEF WInv
<1>1. BeginsRecord(q) \/ CutsRecord(q) \/ AddsRecord(q) \/ NoRecordOf(q)
  BY RecordSteps
<1>2. CASE p # q
  <2>1. PICK d \in Day : d = ofile[p]
    BY <1>0
  <2>2. pc'[p] = pc[p] /\ ofile'[p] = d /\ n'[p] = n[p] /\ todo'[p] = todo[p]
    BY <1>0, <1>2, <2>1 DEF Apart
  <2>3. pc[p] = "write" => file'[d] = file[d]
    BY <1>1, <1>2, <2>1, FileSteps
  <2> QED
    BY <1>0, <2>1, <2>2, <2>3 DEF GoesOn
<1>3. CASE p = q /\ pc'[q] = "write" /\ ~AddsRecord(q)
  <2>1. todo'[q] = Cursor("rec", 0)
    BY <1>1, <1>3 DEF BeginsRecord, CutsRecord, NoRecordOf
  <2> QED
    BY <1>3, <2>1 DEF GoesOn, Cursor
<1>4. CASE p = q /\ AddsRecord(q)
  <2> DEFINE d == ofile[q]
             s == file[d]
             b == BlockOf(q, n[q], todo[q], idseq[q])
             t == Append(s, b)
             k == Len(s) + 1
  <2>1. /\ file'[d] = t /\ t \in Seq(Blocks) /\ HeaderDone(s) /\ b \in Blocks
        /\ b.part \in RecordParts /\ b.by = q /\ b.n = n[q]
        /\ Following(t, k) = todo'[q] /\ ofile'[q] = d /\ n'[q] = n[q]
    BY <1>4, RecordAdded DEF AddsRecord
  <2>2. s \in Seq(Blocks)
    BY <1>0 DEF TypeOK
  <2> HIDE DEF b
  <2>3. Len(t) = k /\ t[k] = b
    BY <2>1, <2>2
  <2>4. FirstRecord(t) = FirstRecord(s) /\ k >= FirstRecord(s)
    BY <2>1, <2>2, HeaderKept, FirstRecordType
  <2> HIDE DEF t, d
  <2> QED
    BY <1>4, <2>1, <2>3, <2>4 DEF GoesOn
<1>5. CASE p = q /\ pc'[q] # "write"
  BY <1>5 DEF GoesOn
<1> QED
  BY <1>2, <1>3, <1>4, <1>5

\* WInv is an invariant.
LEMMA InitWriting == Init => WInv
<1> SUFFICES ASSUME Init PROVE WInv
  OBVIOUS
<1>1. RecordInv /\ HInv
  BY InitRecords, InitHeaders
<1>2. \A p \in Sadc : HoldsLock(p)
  BY DEF Init, HoldsLock
<1> QED
  BY <1>1, <1>2 DEF RecordInv, HInv, WInv

LEMMA NextWriting == Owned /\ Guarded /\ RInv /\ WInv /\ [Next]_vars => WInv'
<1> SUFFICES ASSUME Owned, Guarded, RInv, WInv, [Next]_vars PROVE WInv'
  OBVIOUS
<1>0. RInv'
  BY NextRefinement
<1>1. ASSUME NEW q \in Sadc, Start(q) \/ Step(q) \/ Die(q) PROVE WInv'
  <2>1. ASSUME NEW p \in Sadc PROVE HoldsLock(p)' /\ GoesOn(p)'
    <3>1. HoldsLock(p)
      BY DEF WInv
    <3> QED
      BY <1>0, <1>1, <3>1, HoldsLockKept, GoesOnStill
  <2>2. ASSUME NEW d \in Day PROVE RecordsFollow(file[d])' /\ LastBlock(d)'
    BY <1>1, LastBlockKept
  <2> QED
    BY <2>1, <2>2 DEF WInv
<1>2. CASE Midnight \/ UNCHANGED vars
  <2>1. UNCHANGED << file, lock, pc, ofile, locked, n, todo >>
    BY <1>2 DEF Midnight, vars
  <2>2. ASSUME NEW p \in Sadc PROVE HoldsLock(p)' /\ GoesOn(p)'
    <3>1. HoldsLock(p) /\ GoesOn(p)
      BY DEF WInv
    <3> QED
      BY <2>1, <3>1 DEF HoldsLock, GoesOn, Alone, Users
  <2>3. ASSUME NEW d \in Day PROVE RecordsFollow(file[d])' /\ LastBlock(d)'
    <3>1. RecordsFollow(file[d]) /\ LastBlock(d)
      BY DEF WInv
    <3> QED
      BY <2>1, <3>1 DEF RecordsFollow, LastBlock
  <2> QED
    BY <2>2, <2>3 DEF WInv
<1> QED
  BY <1>1, <1>2 DEF Next

\* What DailyLog sees.
LogsNow == [d \in Day |-> LogOf(file[d])]
WritingNow == [p \in Sadc |-> WritingOf(p)]
TornNow == [d \in Day |-> Torn(d)]

\* The two cases of LogOf.
LEMMA LogOfLogged ==
  ASSUME NEW s
  PROVE  LogOf(s) = IF Logged(s) THEN [list |-> Announced(s), recs |-> Readable(s)] ELSE Empty
BY DEF LogOf, Empty, Log!NoLog, Log!NewLog

\* What a reader finds are records that were written to the last block.
LEMMA ReadableType ==
  ASSUME NEW s \in Seq(Blocks), HeaderDone(s), NEW S \in SUBSET Ends(s)
  PROVE  /\ RecordsAt(s, S) \in Seq(Sadc \X Nat)
         /\ ToSet(RecordsAt(s, S)) \subseteq { << s[i].by, s[i].n >> : i \in Ends(s) }
<1> DEFINE R == { << s[i].by, s[i].n >> : i \in Ends(s) }
<1>0. Len(s) \in Nat /\ FirstRecord(s) \in Nat /\ FirstRecord(s) >= 3
  BY FirstRecordType
<1>1. ASSUME NEW i \in Ends(s) PROVE << s[i].by, s[i].n >> \in R /\ << s[i].by, s[i].n >> \in Sadc \X Nat
  <2>1. i \in 1..Len(s) /\ s[i].part \in RecordParts
    BY <1>0, <1>1 DEF Ends, EndsRecord
  <2> QED
    BY <1>1, <2>1, RecordBlockType
<1>2. PICK f : IsUpto(s, S, f)
  BY UptoExists
<1> HIDE DEF R
<1> DEFINE Good(l) == l \in Seq(Sadc \X Nat) /\ l \in Seq(R)
           M == { m \in Nat : m <= Len(s) => Good(f[m]) }
<1>3. 0 \in M
  <2>1. 0 \in 0..Len(s) /\ 0 < FirstRecord(s)
    BY <1>0
  <2>2. f[0] = Upto(s, S, f, 0)
    BY <1>2, <2>1, UptoAt
  <2>3. f[0] = << >>
    BY <2>1, <2>2 DEF Upto
  <2>4. Good(<< >>)
    OBVIOUS
  <2> HIDE DEF Good
  <2> QED
    BY <2>3, <2>4
<1>4. ASSUME NEW m \in Nat, m \in M PROVE m + 1 \in M
  <2> SUFFICES ASSUME m + 1 <= Len(s) PROVE Good(f[m + 1])
    OBVIOUS
  <2>1. f[m + 1] = Upto(s, S, f, m + 1) /\ (m + 1) - 1 = m /\ Good(f[m])
    BY <1>0, <1>2, <1>4, UptoAt
  <2>2. Good(<< >>)
    OBVIOUS
  <2>3. ASSUME m + 1 \in S PROVE Good(Append(f[m], << s[m + 1].by, s[m + 1].n >>))
    <3> DEFINE e == << s[m + 1].by, s[m + 1].n >>
               l == f[m]
    <3>1. e \in R /\ e \in Sadc \X Nat
      BY <1>1, <2>3
    <3> HIDE DEF e, l
    <3>2. l \in Seq(Sadc \X Nat) /\ l \in Seq(R)
      BY <2>1 DEF l
    <3>3. Append(l, e) \in Seq(Sadc \X Nat) /\ Append(l, e) \in Seq(R)
      BY <3>1, <3>2
    <3> QED
      BY <3>3 DEF e, l
  <2> HIDE DEF Good
  <2> QED
    BY <2>1, <2>2, <2>3 DEF Upto
<1>5. Len(s) \in M
  <2> HIDE DEF M
  <2> QED
    BY <1>0, <1>3, <1>4, EveryNumber
<1>6. RecordsAt(s, S) = f[Len(s)]
  BY <1>2, RecordsUpto
<1>7. Good(RecordsAt(s, S))
  BY <1>0, <1>5, <1>6
<1>8. ToSet(RecordsAt(s, S)) \subseteq R
  <2> DEFINE l == RecordsAt(s, S)
  <2>1. l \in Seq(R)
    BY <1>7
  <2> HIDE DEF l
  <2>2. ToSet(l) \subseteq R
    BY <2>1 DEF ToSet
  <2> QED
    BY <2>2 DEF l
<1> QED
  BY <1>7, <1>8 DEF R

\* The blocks of a file that is added to are in their places, or are not, as before.
LEMMA InPlaceKept ==
  ASSUME NEW s \in Seq(Blocks), NEW b \in Blocks, HeaderDone(s), RecordsFollow(s)
  PROVE  /\ \A i \in FirstRecord(s)..Len(s) : InOrder(Append(s, b), i) <=> InOrder(s, i)
         /\ InOrder(Append(s, b), Len(s)) <=> InOrder(s, Len(s))
         /\ InOrder(Append(s, b), Len(s) + 1) <=>
              InOrder(s, Len(s)) /\ InPlace(Append(s, b), Len(s) + 1)
<1> DEFINE t == Append(s, b)
           F == FirstRecord(s)
<1>0. Len(s) \in Nat /\ F \in Nat /\ F >= 3 /\ Len(s) + 1 >= F
  BY FirstRecordType
<1>1. FirstRecord(t) = F /\ Announced(t) = Announced(s)
  BY HeaderKept
<1>2. ASSUME NEW i \in F..Len(s) PROVE InPlace(t, i) <=> InPlace(s, i)
  <2>1. i \in 1..Len(s) /\ i - 1 \in 1..Len(s)
    BY <1>0, <1>2
  <2> DEFINE j == i - 1
  <2>2. /\ t[i] = s[i] /\ t[j] = s[j] /\ Following(t, j) = Following(s, j)
        /\ EndsRecord(t, j) <=> EndsRecord(s, j)
    BY <2>1, BlockKept
  <2> HIDE DEF t
  <2> QED
    BY <1>1, <2>2 DEF InPlace, Continues
<1> HIDE DEF t
<1>3. ASSUME NEW i, i \in F..Len(s) \/ i = Len(s) PROVE InOrder(t, i) <=> InOrder(s, i)
  <2>1. \A k \in F..i : k \in F..Len(s)
    BY <1>0, <1>3
  <2> QED
    BY <1>1, <1>2, <2>1 DEF InOrder
<1>4. InOrder(t, Len(s) + 1) <=> InOrder(s, Len(s)) /\ InPlace(t, Len(s) + 1)
  <2>1. \A k : k \in F..(Len(s) + 1) <=> k \in F..Len(s) \/ k = Len(s) + 1
    BY <1>0
  <2>2. InOrder(t, Len(s)) <=> InOrder(s, Len(s))
    BY <1>3
  <2> QED
    BY <1>1, <2>1, <2>2 DEF InOrder
<1> QED
  BY <1>3, <1>4 DEF t

\* What is readable in a file that is added to.
LEMMA ReadableAdded ==
  ASSUME NEW s \in Seq(Blocks), NEW b \in Blocks, HeaderDone(s), RecordsFollow(s)
  PROVE  LET t == Append(s, b)
             i == Len(s) + 1
         IN  Readable(t) = IF EndsRecord(t, i) /\ InOrder(t, i)
                             THEN Append(Readable(s), << b.by, b.n >>) ELSE Readable(s)
<1> DEFINE t == Append(s, b)
           i == Len(s) + 1
           S == { j \in Ends(s) : InOrder(s, j) }
           T == { j \in Ends(t) : InOrder(t, j) }
<1>0. Len(s) \in Nat /\ FirstRecord(s) \in Nat /\ FirstRecord(s) >= 3
  BY FirstRecordType
<1>1. Ends(t) = IF EndsRecord(t, i) THEN Ends(s) \cup {i} ELSE Ends(s)
  BY EndsAdded
<1>2. \A j \in Ends(s) : j \in FirstRecord(s)..Len(s) /\ j \in 1..Len(s)
  BY <1>0 DEF Ends
<1>3. \A j \in Ends(s) : InOrder(t, j) <=> InOrder(s, j)
  BY <1>2, InPlaceKept
<1>4. S \in SUBSET (1..Len(s))
  BY <1>2
<1> HIDE DEF t, i
<1>5. T = IF EndsRecord(t, i) /\ InOrder(t, i) THEN S \cup {i} ELSE S
  BY <1>1, <1>3
<1>6. i \notin S
  BY <1>0, <1>4 DEF i
<1>7. RecordsAt(s, S) = Readable(s) /\ RecordsAt(t, T) = Readable(t)
  BY DEF Readable
<1> HIDE DEF S, T
<1>8. T = S \/ T = S \cup {i}
  BY <1>5
<1>9. RecordsAt(t, T) = IF i \in T THEN Append(RecordsAt(s, S), << b.by, b.n >>) ELSE RecordsAt(s, S)
  BY <1>4, <1>8, AtAdded, Zenon DEF t, i
<1>10. i \in T <=> EndsRecord(t, i) /\ InOrder(t, i)
  BY <1>5, <1>6
<1> QED
  BY <1>7, <1>9, <1>10 DEF t, i

\* A file without records is neither read nor torn.
LEMMA BareLog ==
  ASSUME TypeOK, NEW d \in Day, HeaderDone(file[d]), Len(file[d]) < FirstRecord(file[d])
  PROVE  Readable(file[d]) = << >> /\ Torn(d) = FALSE
<1> DEFINE s == file[d]
<1>1. s \in Seq(Blocks)
  BY DEF TypeOK
<1>2. Len(s) \in Nat /\ FirstRecord(s) \in Nat
  BY <1>1, FirstRecordType
<1>3. InOrder(s, Len(s))
  BY <1>2 DEF InOrder
<1>4. Readable(s) = << >>
  BY <1>1, NoneYet DEF Readable
<1> QED
  BY <1>2, <1>3, <1>4 DEF Torn

\* What one step does to what DailyLog sees.
LEMMA LogAlone ==
  ASSUME NEW d \in Day, NEW l, LogOf(file'[d]) = l,
         \A e \in Day : e # d => file'[e] = file[e]
  PROVE  LogsNow' = [LogsNow EXCEPT ![d] = l]
<1>1. \A e \in Day : LogOf(file'[e]) = IF e = d THEN l ELSE LogOf(file[e])
  OBVIOUS
<1>2. LogsNow' = [e \in Day |-> LogOf(file'[e])]
  BY DEF LogsNow
<1> QED
  BY <1>1, <1>2 DEF LogsNow

LEMMA LogsStay ==
  ASSUME \A e \in Day : LogOf(file'[e]) = LogOf(file[e])
  PROVE  LogsNow' = LogsNow
<1>1. LogsNow' = [e \in Day |-> LogOf(file'[e])]
  BY DEF LogsNow
<1> QED
  BY <1>1 DEF LogsNow

LEMMA WritingAlone ==
  ASSUME NEW q \in Sadc, NEW x, WritingOf(q)' = x,
         \A p \in Sadc : p # q => WritingOf(p)' = WritingOf(p)
  PROVE  WritingNow' = [WritingNow EXCEPT ![q] = x]
BY DEF WritingNow

LEMMA WritingStays ==
  ASSUME \A p \in Sadc : WritingOf(p)' = WritingOf(p)
  PROVE  WritingNow' = WritingNow
BY DEF WritingNow

LEMMA TornStays ==
  ASSUME \A d \in Day : Torn(d)' = Torn(d)
  PROVE  TornNow' = TornNow
BY DEF TornNow

LEMMA TornAlone ==
  ASSUME NEW d \in Day, NEW x, Torn(d)' = x, \A e \in Day : e # d => Torn(e)' = Torn(e)
  PROVE  TornNow' = [TornNow EXCEPT ![d] = x]
BY DEF TornNow

LEMMA TornType == ASSUME NEW d PROVE Torn(d) \in BOOLEAN
BY DEF Torn

\* What q does to what the others are writing, and to files it does not write to.
LEMMA OthersWriting ==
  ASSUME Owned, Guarded, RInv, WInv, NEW q \in Sadc, Start(q) \/ Step(q) \/ Die(q),
         NEW p \in Sadc, p # q
  PROVE  WritingOf(p)' = WritingOf(p)
<1>0. TypeOK /\ ofile[p] \in Day /\ Apart(q)
  BY OfUser, StepApart
<1>1. BeginsRecord(q) \/ CutsRecord(q) \/ AddsRecord(q) \/ NoRecordOf(q)
  BY RecordSteps
<1>2. PICK d \in Day : d = ofile[p]
  BY <1>0
<1>3. pc'[p] = pc[p] /\ ofile'[p] = d /\ n'[p] = n[p]
  BY <1>0, <1>2 DEF Apart
<1>4. pc[p] = "write" => file'[d] = file[d]
  BY <1>1, <1>2, FileSteps
<1> QED
  BY <1>2, <1>3, <1>4 DEF WritingOf

\* A file that q does not add to, nor is killed over, is torn as before.
LEMMA TornElsewhere ==
  ASSUME Owned, Guarded, RInv, WInv, NEW q \in Sadc, Start(q) \/ Step(q) \/ Die(q),
         NEW d \in Day, file'[d] = file[d], ~(CutsRecord(q) /\ d = ofile[q])
  PROVE  Torn(d)' = Torn(d)
<1> DEFINE s == file[d]
           i == Len(s)
           r == s[i].by
<1>0. /\ TypeOK /\ s \in Seq(Blocks) /\ ofile[q] \in Day /\ RecordsFollow(s) /\ LastBlock(d)
      /\ Apart(q)
  BY OfUser, StepApart DEF WInv, TypeOK
<1>1. BeginsRecord(q) \/ CutsRecord(q) \/ AddsRecord(q) \/ NoRecordOf(q)
  BY RecordSteps
<1>2. pc[q] # "dead"
  BY <1>1 DEF BeginsRecord, CutsRecord, AddsRecord, NoRecordOf
<1>3. ASSUME Logged(s), i >= FirstRecord(s), ~EndsRecord(s, i) PROVE pc'[r] = "dead" <=> pc[r] = "dead"
  <2>1. HeaderDone(s)
    BY <1>3 DEF Logged
  <2>2. i \in FirstRecord(s)..i
    BY <1>0, <1>3, <2>1, FirstRecordType
  <2>3. r \in Sadc
    BY <1>0, <2>1, <2>2, RecordBlockAt
  <2>4. pc[r] = "dead" \/ (pc[r] = "write" /\ ofile[r] = d)
    BY <1>0, <1>3, <2>1 DEF LastBlock
  <2> HIDE DEF r
  <2>5. CASE r # q
    BY <1>0, <2>3, <2>5 DEF Apart
  <2>6. CASE r = q
    <3>1. pc[q] = "write" /\ ofile[q] = d
      BY <1>2, <2>4, <2>6
    <3>2. AddsRecord(q)
      BY <1>1, <3>1 DEF BeginsRecord, NoRecordOf
    <3> QED
      BY <1>2, <2>6, <3>2 DEF AddsRecord
  <2> QED
    BY <2>5, <2>6
<1>4. Torn(d)' <=> Torn(d)
  BY <1>3 DEF Torn
<1> QED
  BY <1>4, TornType DEF Torn

\* The record that q is adding a block to: the block is in its place unless the file is
\* torn, and then it is torn still.
LEMMA TornAdded ==
  ASSUME Owned, Guarded, RInv, WInv, NEW q \in Sadc, AddsRecord(q), NEW d \in Day, d = ofile[q]
  PROVE  LET t == Append(file[d], BlockOf(q, n[q], todo[q], idseq[q])) IN
         /\ Torn(d)' = Torn(d)
         /\ Logged(t) <=> Logged(file[d])
         /\ Logged(t) => (InOrder(t, Len(t)) <=> ~Torn(d))
<1> DEFINE s == file[d]
           b == BlockOf(q, n[q], todo[q], idseq[q])
           t == Append(s, b)
           j == Len(s)
           k == Len(s) + 1
           F == FirstRecord(s)
<1>0. /\ TypeOK /\ s \in Seq(Blocks) /\ RecordsFollow(s) /\ LastBlock(d) /\ GoesOn(q)
      /\ pc[q] = "write" /\ pc'[q] # "dead" /\ n[q] \in Nat /\ Logs(q, s)
  BY OfUser DEF WInv, AddsRecord, TypeOK
<1>1. /\ file'[d] = t /\ t \in Seq(Blocks) /\ HeaderDone(s) /\ b \in Blocks
      /\ b.part \in RecordParts /\ b.by = q /\ b.n = n[q] /\ Announced(s) = idseq[q]
      /\ EndsRecord(t, k) <=> todo'[q] = End
      /\ Following(t, k) = todo'[q]
  BY RecordAdded
<1>2. todo[q].part \in RecordParts /\ b.part = todo[q].part
  BY <1>0, RecordPut DEF Logs, Running, Recording
<1>3. b = BlockOf(q, n[q], todo[q], Announced(s))
  BY <1>1
<1> HIDE DEF b
<1>4. Len(t) = k /\ t[k] = b /\ k \in Nat /\ j \in Nat /\ \A m \in 1..Len(s) : t[m] = s[m]
  BY <1>0, <1>1
<1>5. HeaderDone(t) /\ FirstRecord(t) = F /\ Announced(t) = Announced(s)
  BY <1>0, <1>1, HeaderKept
<1>6. F \in Nat /\ F >= 3 /\ k >= F /\ s[2].nact \in Nat /\ j >= 2 + s[2].nact
  BY <1>0, <1>1, FirstRecordType
<1>7. Logged(t) <=> Logged(s)
  <2>1. t[2] = s[2] /\ \A m \in 3..(2 + s[2].nact) : t[m] = s[m]
    BY <1>4, <1>6
  <2> HIDE DEF s, t
  <2> QED
    BY <1>1, <1>5, <2>1 DEF Logged
<1>8. InOrder(t, k) <=> InOrder(s, j) /\ InPlace(t, k)
  BY <1>0, <1>1, InPlaceKept
<1>9. k - 1 = j
  BY <1>4
<1>10. ASSUME j >= F
       PROVE  /\ j \in 1..j /\ s[j].part \in RecordParts /\ s[j].by \in Sadc
              /\ t[j] = s[j] /\ Following(t, j) = Following(s, j)
              /\ EndsRecord(t, j) <=> EndsRecord(s, j)
  <2>1. j \in F..j
    BY <1>4, <1>6, <1>10
  <2>2. j \in 1..j /\ s[j].part \in RecordParts /\ s[j].by \in Sadc
    BY <1>0, <1>1, <2>1, RecordBlockAt
  <2> QED
    BY <1>0, <1>1, <2>2, BlockKept
<1> DEFINE Cut == j >= F /\ ~EndsRecord(s, j) /\ pc[s[j].by] = "dead"
<1>11. j < F => k = F
  BY <1>4, <1>6
<1> HIDE DEF t, k
<1>12. ASSUME Cut PROVE ~InPlace(t, k)
  <2>1. t[j].by # q /\ ~EndsRecord(t, j) /\ j >= F
    BY <1>0, <1>10, <1>12
  <2>2. k # F
    BY <1>4, <1>12 DEF k
  <2>3. ASSUME Continues(t, k) PROVE FALSE
    <3>1. Following(t, j) # End /\ b = BlockOf(t[j].by, t[j].n, Following(t, j), Announced(t))
      BY <1>4, <1>9, <2>3 DEF Continues
    <3>2. Following(t, j).part \in RecordParts
      <4>1. s[j].part \in RecordParts /\ Following(s, j) = After(Args[s[j].by].run, Cursor(s[j].part, s[j].at), Announced(s))
        BY <1>10, <2>1 DEF Following
      <4>2. Cursor(s[j].part, s[j].at).part = s[j].part
        BY DEF Cursor
      <4> QED
        BY <1>10, <2>1, <3>1, <4>1, <4>2, AfterRecord
    <3>3. b.by = t[j].by
      BY <3>1, <3>2, RecordPut
    <3> QED
      BY <1>1, <2>1, <3>3
  <2> QED
    BY <1>5, <1>9, <2>1, <2>2, <2>3 DEF InPlace
<1>13. ASSUME ~Cut PROVE InPlace(t, k)
  <2>1. CASE todo[q].part = "rec"
    <3>1. b.part = "rec"
      BY <1>2, <2>1
    <3>2. CASE j < F
      BY <1>4, <1>5, <1>11, <3>1, <3>2 DEF InPlace
    <3>3. CASE j >= F
      <4>1. EndsRecord(s, j)
        <5> SUFFICES ASSUME ~EndsRecord(s, j) PROVE FALSE
          OBVIOUS
        <5>1. pc[s[j].by] = "write" /\ ofile[s[j].by] = d /\ todo[s[j].by] = Following(s, j)
          BY <1>0, <1>1, <1>13, <3>3 DEF LastBlock
        <5>2. s[j].by = q
          BY <1>0, <1>10, <3>3, <5>1, OnlyWriter
        <5>3. Following(s, j).part # "rec"
          BY AfterNotFirst DEF Following
        <5> QED
          BY <2>1, <5>1, <5>2, <5>3
      <4> QED
        BY <1>4, <1>9, <1>10, <3>1, <3>3, <4>1 DEF InPlace
    <3> QED
      BY <1>4, <1>6, <3>2, <3>3
  <2>2. CASE todo[q].part # "rec"
    <3>1. /\ j >= F /\ s[j].part \in RecordParts /\ s[j].by = q /\ s[j].n = n[q]
          /\ todo[q] = Following(s, j)
      BY <1>0, <1>1, <2>2 DEF GoesOn
    <3>2. todo[q] # End
      BY <1>2 DEF End, Cursor, RecordParts
    <3> QED
      BY <1>3, <1>4, <1>5, <1>9, <1>10, <3>1, <3>2 DEF InPlace, Continues
  <2> QED
    BY <2>1, <2>2
<1>14. Torn(d) <=> Logged(s) /\ (~InOrder(s, j) \/ Cut)
  BY DEF Torn
<1>15. Torn(d)' <=> Logged(t) /\ ~InOrder(t, k)
  <2>1. EndsRecord(t, k) \/ ~(pc'[t[k].by] = "dead")
    BY <1>0, <1>1, <1>4
  <2> QED
    BY <1>1, <1>4, <2>1 DEF Torn
<1> HIDE DEF Cut
<1>16. Torn(d)' <=> Torn(d)
  BY <1>7, <1>8, <1>12, <1>13, <1>14, <1>15
<1>17. Torn(d)' = Torn(d)
  BY <1>16, TornType DEF Torn
<1>18. Logged(t) => (InOrder(t, Len(t)) <=> ~Torn(d))
  BY <1>4, <1>7, <1>8, <1>12, <1>13, <1>14
<1> QED
  BY <1>7, <1>17, <1>18 DEF t, b

\* A complete header announces a list of activities.
LEMMA AnnouncedType ==
  ASSUME NEW s \in Seq(Blocks), HeaderDone(s)
  PROVE  Announced(s) \in Seq(Activity) /\ Len(Announced(s)) = s[2].nact /\ s[2].nact \in Nat
<1>1. s[2].nact \in Nat /\ Len(s) \in Nat /\ Len(s) >= 2 + s[2].nact
  BY FirstRecordType
<1>2. \A i \in 1..s[2].nact : s[2 + i].id \in Activity
  <2> TAKE i \in 1..s[2].nact
  <2>1. 2 + i \in 3..(2 + s[2].nact) /\ 2 + i \in 1..Len(s)
    BY <1>1
  <2>2. s[2 + i].part = "act"
    BY <2>1, Complete
  <2> QED
    BY <2>1, <2>2, ActivityType
<1> QED
  BY <1>1, <1>2 DEF Announced

\* The first state: no record was begun.
LEMMA InitLog == Owned /\ Init => Log!Init
<1> SUFFICES ASSUME Owned, Init PROVE Log!Init
  OBVIOUS
<1>1. RInv /\ TypeOK
  BY InitRefinement DEF RInv, Typed
<1>2. ASSUME NEW d \in Day PROVE HeaderDone(file[d]) => Len(file[d]) < FirstRecord(file[d])
  <2> DEFINE s == file[d]
             i == Len(s)
  <2> SUFFICES ASSUME HeaderDone(s), i >= FirstRecord(s) PROVE FALSE
    BY <1>1, FirstRecordType DEF TypeOK
  <2>1. s \in Seq(Blocks) /\ RecordsFollow(s)
    BY <1>1, InitWriting DEF TypeOK, WInv
  <2>2. i \in FirstRecord(s)..i
    BY <2>1, FirstRecordType
  <2>3. i \in 1..Len(s) /\ s[i].part \in RecordParts /\ s[i].by \in Sadc /\ s[i].n \in Nat
    BY <2>1, <2>2, RecordBlockAt
  <2>4. Mark(s[i].by, d, s[i].n)
    BY <1>1, <2>3 DEF RInv, Mine
  <2>5. pc[s[i].by] = "off"
    BY <2>3 DEF Init
  <2> QED
    BY <2>4, <2>5 DEF Mark
<1>3. ASSUME NEW d \in Day
      PROVE  LogOf(file[d]) \in [list: Seq(Activity), recs: {<< >>}] /\ Torn(d) = FALSE
  <2> DEFINE s == file[d]
  <2>0. s \in Seq(Blocks)
    BY <1>1 DEF TypeOK
  <2>1. CASE ~Logged(s)
    <3>1. Empty \in [list: Seq(Activity), recs: {<< >>}]
      BY DEF Empty, Log!NoLog, Log!NewLog
    <3> QED
      BY <2>1, <3>1, LogOfLogged DEF Torn
  <2>2. CASE Logged(s)
    <3>1. HeaderDone(s)
      BY <2>2 DEF Logged
    <3>2. Readable(s) = << >> /\ Torn(d) = FALSE
      BY <1>1, <1>2, <3>1, BareLog
    <3>3. Announced(s) \in Seq(Activity)
      BY <2>0, <3>1, AnnouncedType
    <3> QED
      BY <2>2, <3>2, <3>3, LogOfLogged
  <2> QED
    BY <2>1, <2>2
<1>4. ASSUME NEW p \in Sadc PROVE WritingOf(p) = << >>
  <2>1. pc[p] = "off"
    BY DEF Init
  <2> QED
    BY <2>1 DEF WritingOf
<1> QED
  BY <1>3, <1>4 DEF Log!Init, Log!Idle

\* A step that DailyLog sees: each of them, or none.
Follows == [Log!Next]_(<< LogsNow, WritingNow, TornNow >>)

LEMMA NothingFollows ==
  ASSUME LogsNow' = LogsNow, WritingNow' = WritingNow, TornNow' = TornNow
  PROVE  Follows
BY DEF Follows

\* A sadc begins a record, later than those it has in that file.
LEMMA BeginFollows ==
  ASSUME Owned, Guarded, RInv, RInv', WInv, NEW q \in Sadc, Start(q) \/ Step(q) \/ Die(q), BeginsRecord(q)
  PROVE  Follows
<1>0. /\ TypeOK /\ ofile[q] \in Day /\ file' = file /\ pc'[q] = "write" /\ pc[q] # "write"
      /\ n'[q] \in Nat
  BY OfUser DEF BeginsRecord, RInv, Typed, TypeOK
<1>1. PICK d \in Day : d = ofile[q] /\ ofile'[q] = d
  BY <1>0 DEF BeginsRecord
<1>2. LogsNow' = LogsNow
  BY <1>0, LogsStay
<1>3. TornNow' = TornNow
  <2>1. \A e \in Day : Torn(e)' = Torn(e)
    BY <1>0, TornElsewhere DEF CutsRecord
  <2> QED
    BY <2>1, TornStays
<1>4. \A p \in Sadc : p # q => WritingOf(p)' = WritingOf(p)
  BY OthersWriting
<1>5. WritingOf(q) = << >> /\ WritingOf(q)' = IF Logged(file[d]) THEN << d, n'[q] >> ELSE << >>
  BY <1>0, <1>1 DEF WritingOf
<1>6. CASE ~Logged(file[d])
  <2>1. WritingNow' = WritingNow
    BY <1>4, <1>5, <1>6, WritingStays
  <2> QED
    BY <1>2, <1>3, <2>1, NothingFollows
<1>7. CASE Logged(file[d])
  <2> DEFINE s == file[d]
             x == << d, n'[q] >>
  <2>0. s \in Seq(Blocks) /\ HeaderDone(s)
    BY <1>0, <1>7 DEF TypeOK, Logged
  <2>1. WritingNow' = [WritingNow EXCEPT ![q] = x]
    <3>1. WritingOf(q)' = x
      BY <1>5, <1>7
    <3> QED
      BY <1>4, <3>1, WritingAlone
  <2>2. WritingNow[q] = << >> /\ WritingNow'[q] = x /\ x \in Day \X Nat /\ x[1] = d /\ x[2] = n'[q]
    <3>1. WritingNow[q] = << >> /\ WritingNow'[q] = x
      BY <1>5, <1>7 DEF WritingNow
    <3> QED
      BY <1>0, <3>1
  <2>3. /\ Readable(s) \in Seq(Sadc \X Nat)
        /\ ToSet(Readable(s)) \subseteq { << s[i].by, s[i].n >> : i \in Ends(s) }
    <3>1. { i \in Ends(s) : InOrder(s, i) } \in SUBSET Ends(s)
      OBVIOUS
    <3> QED
      BY <2>0, <3>1, ReadableType DEF Readable
  <2>4. LogsNow[d] = [list |-> Announced(s), recs |-> Readable(s)]
    BY <1>7, LogOfLogged DEF LogsNow
  <2>5. \A i \in Ends(s) : s[i].by = q => s[i].n < n'[q]
    <3>1. Mine(q)'
      BY DEF RInv
    <3> QED
      BY <1>0, <1>1, <3>1 DEF Mine
  <2>6. \A i \in 1..Len(Readable(s)) : Readable(s)[i][1] = q => Readable(s)[i][2] < n'[q]
    <3> SUFFICES ASSUME NEW i \in 1..Len(Readable(s)), Readable(s)[i][1] = q PROVE Readable(s)[i][2] < n'[q]
      OBVIOUS
    <3>1. Readable(s)[i] \in ToSet(Readable(s))
      BY <2>3 DEF ToSet
    <3>2. PICK j \in Ends(s) : Readable(s)[i] = << s[j].by, s[j].n >>
      BY <2>3, <3>1
    <3>3. s[j].by = q /\ Readable(s)[i][2] = s[j].n
      BY <3>2
    <3> QED
      BY <2>5, <3>3
  <2>7. Announced(s) # << >>
    <3>1. HeaderLists(d)
      BY <1>1 DEF RInv, Content
    <3>2. s[2].nact >= 1 /\ Len(Announced(s)) = s[2].nact /\ s[2].nact \in Nat
      BY <2>0, <3>1, AnnouncedType, FirstRecordType DEF HeaderLists
    <3> QED
      BY <3>2
  <2>8. LogsNow[d].recs = Readable(s) /\ LogsNow[d] # Empty
    BY <2>4, <2>7 DEF Empty, Log!NoLog, Log!NewLog
  <2> HIDE DEF x
  <2>9. Log!Begin(q)
    <3>1. /\ WritingNow[q] = << >>
          /\ WritingNow'[q] \in Day \X Nat
          /\ LogsNow[WritingNow'[q][1]] # Empty
          /\ LET recs == LogsNow[WritingNow'[q][1]].recs IN
               \A i \in 1..Len(recs) : recs[i][1] = q => recs[i][2] < WritingNow'[q][2]
          /\ WritingNow' = [WritingNow EXCEPT ![q] = WritingNow'[q]]
          /\ UNCHANGED << LogsNow, TornNow >>
      BY <1>2, <1>3, <2>1, <2>2, <2>6, <2>8
    <3> QED
      BY <3>1 DEF Log!Begin, Log!Idle, Empty, LogsNow, WritingNow, TornNow
  <2> QED
    BY <2>9 DEF Log!Next, Follows
<1> QED
  BY <1>6, <1>7

\* A sadc is killed in the middle of a record.
LEMMA CutFollows ==
  ASSUME Owned, Guarded, RInv, WInv, NEW q \in Sadc, Start(q) \/ Step(q) \/ Die(q), CutsRecord(q)
  PROVE  Follows
<1>0. TypeOK /\ ofile[q] \in Day /\ file' = file /\ pc[q] = "write" /\ pc'[q] = "dead" /\ Apart(q)
  BY OfUser, StepApart DEF CutsRecord
<1>1. PICK d \in Day : d = ofile[q]
  BY <1>0
<1>2. LogsNow' = LogsNow
  BY <1>0, LogsStay
<1>3. \A e \in Day : e # d => Torn(e)' = Torn(e)
  BY <1>0, <1>1, TornElsewhere
<1>4. \A p \in Sadc : p # q => WritingOf(p)' = WritingOf(p)
  BY OthersWriting
<1>5. WritingOf(q)' = << >> /\ WritingOf(q) = IF Logged(file[d]) THEN << d, n[q] >> ELSE << >>
  BY <1>0, <1>1 DEF WritingOf
<1>6. CASE ~Logged(file[d])
  <2>1. WritingNow' = WritingNow
    BY <1>4, <1>5, <1>6, WritingStays
  <2>2. Torn(d)' = Torn(d)
    BY <1>0, <1>6 DEF Torn
  <2>3. TornNow' = TornNow
    BY <1>3, <2>2, TornStays
  <2> QED
    BY <1>2, <2>1, <2>3, NothingFollows
<1>7. CASE Logged(file[d])
  <2> DEFINE s == file[d]
             i == Len(s)
  <2>0. s \in Seq(Blocks) /\ HeaderDone(s) /\ RecordsFollow(s)
    BY <1>0, <1>7 DEF TypeOK, Logged, WInv
  <2>1. WritingNow' = [WritingNow EXCEPT ![q] = << >>]
    BY <1>4, <1>5, WritingAlone
  <2>2. WritingNow[q] = << d, n[q] >>
    BY <1>5, <1>7 DEF WritingNow
  <2>3. Torn(d) => Torn(d)'
    <3>1. ASSUME i >= FirstRecord(s), pc[s[i].by] = "dead" PROVE pc'[s[i].by] = "dead"
      <4>1. i \in FirstRecord(s)..i
        BY <2>0, <3>1, FirstRecordType
      <4>2. s[i].by \in Sadc
        BY <2>0, <4>1, RecordBlockAt
      <4> QED
        BY <1>0, <3>1, <4>2 DEF Apart
    <3> QED
      BY <1>0, <3>1 DEF Torn
  <2>4. TornNow' = TornNow \/ TornNow' = [TornNow EXCEPT ![d] = TRUE]
    <3>1. CASE Torn(d)'
      <4>1. Torn(d)' = TRUE
        BY <3>1, TornType DEF Torn
      <4> QED
        BY <1>3, <4>1, TornAlone
    <3>2. CASE ~Torn(d)'
      <4>1. Torn(d)' = Torn(d)
        BY <2>3, <3>2, TornType DEF Torn
      <4> QED
        BY <1>3, <4>1, TornStays
    <3> QED
      BY <3>1, <3>2
  <2>5. Log!Die(q)
    <3>1. WritingNow[q] # << >> /\ WritingNow[q][1] = d
      BY <2>2
    <3>2. /\ WritingNow[q] # << >>
          /\ WritingNow' = [WritingNow EXCEPT ![q] = << >>]
          /\ TornNow' \in {TornNow, [TornNow EXCEPT ![WritingNow[q][1]] = TRUE]}
          /\ UNCHANGED LogsNow
      BY <1>2, <2>1, <2>4, <3>1
    <3> QED
      BY <3>2 DEF Log!Die, Log!Idle, LogsNow, WritingNow, TornNow
  <2> QED
    BY <2>5 DEF Log!Next, Follows
<1> QED
  BY <1>6, <1>7

\* A sadc adds a block to a record: it is in the log with the last one, unless the file
\* is torn.
LEMMA AddFollows ==
  ASSUME Owned, Guarded, RInv, WInv, NEW q \in Sadc, Start(q) \/ Step(q) \/ Die(q), AddsRecord(q)
  PROVE  Follows
<1> DEFINE b == BlockOf(q, n[q], todo[q], idseq[q])
<1>0. /\ TypeOK /\ ofile[q] \in Day /\ pc[q] = "write" /\ n[q] \in Nat /\ n'[q] = n[q]
      /\ pc'[q] = "write" <=> todo'[q] # End
  BY OfUser DEF AddsRecord
<1>1. PICK d \in Day : d = ofile[q] /\ ofile'[q] = d
  BY <1>0 DEF AddsRecord
<1> DEFINE s == file[d]
           t == Append(s, b)
           k == Len(s) + 1
<1>2. s \in Seq(Blocks) /\ RecordsFollow(s)
  BY <1>0 DEF TypeOK, WInv
<1>3. /\ file' = [file EXCEPT ![d] = t] /\ file'[d] = t /\ t \in Seq(Blocks) /\ HeaderDone(s)
      /\ b \in Blocks /\ b.by = q /\ b.n = n[q]
      /\ EndsRecord(t, k) <=> todo'[q] = End
  BY <1>1, RecordAdded
<1>4. \A e \in Day : e # d => file'[e] = file[e]
  BY <1>0, <1>3 DEF TypeOK
<1>5. Torn(d)' = Torn(d) /\ (Logged(t) <=> Logged(s)) /\ (Logged(t) => (InOrder(t, Len(t)) <=> ~Torn(d)))
  BY <1>1, TornAdded
<1>6. TornNow' = TornNow
  <2>1. \A e \in Day : e # d => Torn(e)' = Torn(e)
    BY <1>1, <1>4, TornElsewhere
  <2> QED
    BY <1>5, <2>1, TornStays
<1>7. Readable(t) = IF EndsRecord(t, k) /\ InOrder(t, k) THEN Append(Readable(s), << q, n[q] >>) ELSE Readable(s)
  BY <1>2, <1>3, ReadableAdded
<1>8. Announced(t) = Announced(s) /\ Len(t) = k
  <2>1. Announced(t) = Announced(s)
    BY <1>2, <1>3, HeaderKept
  <2> QED
    BY <1>2, <1>3, <2>1
<1>9. \A p \in Sadc : p # q => WritingOf(p)' = WritingOf(p)
  BY OthersWriting
<1> HIDE DEF b, t, k
<1>10. /\ WritingOf(q) = IF Logged(s) THEN << d, n[q] >> ELSE << >>
       /\ WritingOf(q)' = IF Logged(s) /\ todo'[q] # End THEN << d, n[q] >> ELSE << >>
  BY <1>0, <1>1, <1>3, <1>5 DEF WritingOf
<1>11. CASE ~Logged(s) \/ todo'[q] # End
  <2>1. LogOf(t) = LogOf(s)
    BY <1>3, <1>5, <1>7, <1>8, <1>11, LogOfLogged
  <2>2. LogsNow' = LogsNow
    <3>1. \A e \in Day : LogOf(file'[e]) = LogOf(file[e])
      BY <1>3, <1>4, <2>1
    <3> QED
      BY <3>1, LogsStay
  <2>3. WritingNow' = WritingNow
    BY <1>9, <1>10, <1>11, WritingStays
  <2> QED
    BY <1>6, <2>2, <2>3, NothingFollows
<1>12. CASE Logged(s) /\ todo'[q] = End
  <2> DEFINE R == Readable(s)
             A == Announced(s)
             r == << q, n[q] >>
  <2>1. WritingNow' = [WritingNow EXCEPT ![q] = << >>]
    BY <1>9, <1>10, <1>12, WritingAlone
  <2>2. WritingNow[q] = << d, n[q] >>
    BY <1>10, <1>12 DEF WritingNow
  <2>3. WritingNow[q] # << >> /\ WritingNow[q][1] = d /\ WritingNow[q][2] = n[q]
    BY <2>2
  <2>4. TornNow[d] = Torn(d)
    BY DEF TornNow
  <2>5. LogOf(t) = [list |-> A, recs |-> IF Torn(d) THEN R ELSE Append(R, r)]
    BY <1>3, <1>5, <1>7, <1>8, <1>12, LogOfLogged
  <2>6. LogsNow' = [LogsNow EXCEPT ![d] = LogOf(t)]
    BY <1>3, <1>4, LogAlone
  <2>7. LogsNow[d] = [list |-> A, recs |-> R] /\ LogsNow[d] = LogOf(s)
    BY <1>12, LogOfLogged DEF LogsNow
  <2> HIDE DEF R, A, r
  <2>8. CASE Torn(d)
    <3>1. LogsNow' = LogsNow
      <4>1. \A e \in Day : LogOf(file'[e]) = LogOf(file[e])
        BY <1>3, <1>4, <2>5, <2>7, <2>8
      <4> QED
        BY <4>1, LogsStay
    <3>2. Log!Finish(q)
      <4>1. /\ WritingNow[q] # << >>
            /\ WritingNow' = [WritingNow EXCEPT ![q] = << >>]
            /\ TornNow[WritingNow[q][1]]
            /\ LogsNow' = LogsNow /\ UNCHANGED TornNow
        BY <1>6, <2>1, <2>3, <2>4, <2>8, <3>1
      <4> QED
        BY <4>1 DEF Log!Finish, Log!Idle, LogsNow, WritingNow, TornNow
    <3> QED
      BY <3>2 DEF Log!Next, Follows
  <2>9. CASE ~Torn(d)
    <3>1. LogOf(t) = [list |-> A, recs |-> Append(R, r)]
      BY <2>5, <2>9
    <3>2. LogsNow' = [LogsNow EXCEPT ![d].recs = Append(@, r)]
      <4>1. [LogsNow[d] EXCEPT !.recs = Append(@, r)] = [list |-> A, recs |-> Append(R, r)]
        <5>1. [[list |-> A, recs |-> R] EXCEPT !.recs = Append(R, r)] = [list |-> A, recs |-> Append(R, r)]
          OBVIOUS
        <5>2. LogsNow[d].recs = R
          BY <2>7
        <5>3. [LogsNow[d] EXCEPT !.recs = Append(@, r)] = [LogsNow[d] EXCEPT !.recs = Append(R, r)]
          BY <5>2
        <5>4. [LogsNow[d] EXCEPT !.recs = Append(R, r)] = [[list |-> A, recs |-> R] EXCEPT !.recs = Append(R, r)]
          BY <2>7, Zenon
        <5> QED
          BY <5>1, <5>3, <5>4, Zenon
      <4>2. [LogsNow EXCEPT ![d].recs = Append(@, r)]
              = [LogsNow EXCEPT ![d] = [LogsNow[d] EXCEPT !.recs = Append(@, r)]]
        BY Zenon
      <4> QED
        BY <2>6, <3>1, <4>1, <4>2
    <3>3. WritingNow[q][1] = d /\ << q, WritingNow[q][2] >> = r
      BY <2>3 DEF r
    <3>4. Log!Finish(q)
      <4>1. /\ WritingNow[q] # << >>
            /\ WritingNow' = [WritingNow EXCEPT ![q] = << >>]
            /\ ~TornNow[WritingNow[q][1]]
            /\ LogsNow' = [LogsNow EXCEPT ![WritingNow[q][1]].recs = Append(@, << q, WritingNow[q][2] >>)]
            /\ UNCHANGED TornNow
        BY <1>6, <2>1, <2>3, <2>4, <2>9, <3>2, <3>3
      <4> QED
        BY <4>1 DEF Log!Finish, Log!Idle, LogsNow, WritingNow, TornNow
    <3> QED
      BY <3>4 DEF Log!Next, Follows
  <2> QED
    BY <2>8, <2>9
<1> QED
  BY <1>11, <1>12

\* Nobody is in the middle of a record of a file that is created: when its header is
\* complete it is a log without records.
LEMMA CreateFollows ==
  ASSUME Owned, Guarded, RInv, RInv', WInv, NEW q \in Sadc, Start(q) \/ Step(q) \/ Die(q),
         NoRecordOf(q)
  PROVE  Follows
<1>0. /\ TypeOK /\ TypeOK' /\ ofile[q] \in Day /\ pc[q] # "write" /\ pc'[q] # "write"
  BY OfUser DEF NoRecordOf, RInv, Typed
<1>1. PICK d \in Day : d = ofile[q]
  BY <1>0
<1>2. WritingNow' = WritingNow
  <2>1. WritingOf(q)' = WritingOf(q)
    BY <1>0 DEF WritingOf
  <2>2. \A p \in Sadc : p # q => WritingOf(p)' = WritingOf(p)
    BY OthersWriting
  <2> QED
    BY <2>1, <2>2, WritingStays
<1>3. ASSUME NEW e \in Day, file'[e] = file[e] PROVE Torn(e)' = Torn(e)
  BY <1>0, <1>3, TornElsewhere DEF CutsRecord
<1>4. CASE file' = file
  <2>1. LogsNow' = LogsNow /\ TornNow' = TornNow
    BY <1>3, <1>4, LogsStay, TornStays
  <2> QED
    BY <1>2, <2>1, NothingFollows
<1>5. CASE Empties(q) \/ AddsHeader(q)
  <2>1. /\ \A e \in Day : e # d => file'[e] = file[e]
        /\ ~Logged(file[d])
    <3>1. CASE Empties(q)
      BY <1>0, <1>1, <3>1 DEF Empties, TypeOK
    <3>2. CASE AddsHeader(q)
      <4>1. /\ Creates(q, file[d]) /\ file[d] \in Seq(Blocks) /\ pc[q] = "sethdr"
            /\ idseq[q] \in Seq(Activity) /\ pos[q] \in Nat
        BY <1>1, <3>2, OfUser DEF AddsHeader
      <4>2. Heads(file[d], idseq[q], pos[q]) /\ pos[q] < Len(idseq[q]) + 2
        BY <4>1 DEF Creates
      <4>3. ~HeaderDone(file[d])
        BY <4>1, <4>2, HeadsDone
      <4> QED
        BY <1>0, <1>1, <3>2, <4>3 DEF AddsHeader, TypeOK, Logged
    <3> QED
      BY <1>5, <3>1, <3>2
  <2>2. Torn(d) = FALSE /\ LogOf(file[d]) = Empty
    BY <2>1, LogOfLogged DEF Torn
  <2>3. CASE ~Logged(file'[d])
    <3>1. Torn(d)' = FALSE /\ LogOf(file'[d]) = Empty
      BY <2>3, LogOfLogged DEF Torn
    <3>2. \A e \in Day : LogOf(file'[e]) = LogOf(file[e]) /\ Torn(e)' = Torn(e)
      BY <1>3, <2>1, <2>2, <3>1
    <3>3. LogsNow' = LogsNow /\ TornNow' = TornNow
      BY <3>2, LogsStay, TornStays
    <3> QED
      BY <1>2, <3>3, NothingFollows
  <2>4. CASE Logged(file'[d])
    <3> DEFINE t == file'[d]
    <3>1. HeaderDone(t) /\ t \in Seq(Blocks)
      BY <1>0, <2>4 DEF TypeOK, Logged
    <3>2. AddsHeader(q)
      <4>1. ~HeaderDone(<< >>)
        BY Complete
      <4>2. Empties(q) => t = << >>
        BY <1>0, <1>1 DEF Empties, TypeOK
      <4> QED
        BY <1>5, <3>1, <4>1, <4>2
    <3>3. FirstRecord(t) = Len(t) + 1
      BY <1>1, <3>1, <3>2, HeaderAdded
    <3>4. Len(t) < FirstRecord(t)
      BY <3>1, <3>3
    <3>5. Readable(t) = << >> /\ Torn(d)' = FALSE
      <4>1. Len(t) \in Nat /\ FirstRecord(t) \in Nat
        BY <3>1, FirstRecordType
      <4>2. InOrder(t, Len(t))
        BY <3>4, <4>1 DEF InOrder
      <4> QED
        BY <3>1, <3>4, <4>1, <4>2, NoneYet DEF Readable, Torn
    <3>6. Announced(t) \in Seq(Activity) /\ Announced(t) # << >>
      <4>1. HeaderLists(d)'
        BY <1>1 DEF RInv, Content
      <4>2. t[2].nact >= 1 /\ Len(Announced(t)) = t[2].nact /\ t[2].nact \in Nat /\ Announced(t) \in Seq(Activity)
        BY <3>1, <4>1, AnnouncedType, FirstRecordType DEF HeaderLists
      <4> QED
        BY <4>2
    <3>7. LogOf(t) = Log!NewLog(Announced(t))
      BY <2>4, <3>5, LogOfLogged DEF Log!NewLog
    <3>8. LogsNow' = [LogsNow EXCEPT ![d] = Log!NewLog(Announced(t))]
      BY <2>1, <3>7, LogAlone
    <3>9. TornNow' = TornNow
      <4>1. \A e \in Day : Torn(e)' = Torn(e)
        BY <1>3, <2>1, <2>2, <3>5
      <4> QED
        BY <4>1, TornStays
    <3>10. LogsNow[d] = Empty /\ LogsNow'[d] = Log!NewLog(Announced(t))
      BY <2>2, <3>7 DEF LogsNow
    <3>11. LogsNow'[d].list = Announced(t)
      BY <3>10 DEF Log!NewLog
    <3> HIDE DEF t
    <3>12. Log!Create(d)
      <4>1. /\ LogsNow[d] = Empty
            /\ LogsNow'[d].list \in Seq(Activity) \ {<< >>}
            /\ LogsNow' = [LogsNow EXCEPT ![d] = Log!NewLog(LogsNow'[d].list)]
            /\ UNCHANGED << WritingNow, TornNow >>
        BY <1>2, <3>6, <3>8, <3>9, <3>10, <3>11
      <4> QED
        BY <4>1 DEF Log!Create, Empty, LogsNow, WritingNow, TornNow
    <3> QED
      BY <3>12 DEF Log!Next, Follows
  <2> QED
    BY <2>3, <2>4
<1> QED
  BY <1>4, <1>5 DEF NoRecordOf

\* Every step is a step of DailyLog, or none that it sees.
LEMMA NextLog == Owned /\ Guarded /\ RInv /\ WInv /\ [Next]_vars => Follows
<1> SUFFICES ASSUME Owned, Guarded, RInv, WInv, [Next]_vars PROVE Follows
  OBVIOUS
<1>0. RInv'
  BY NextRefinement
<1>1. ASSUME NEW q \in Sadc, Start(q) \/ Step(q) \/ Die(q) PROVE Follows
  <2>1. BeginsRecord(q) \/ CutsRecord(q) \/ AddsRecord(q) \/ NoRecordOf(q)
    BY <1>1, RecordSteps
  <2> QED
    BY <1>0, <1>1, <2>1, BeginFollows, CutFollows, AddFollows, CreateFollows
<1>2. CASE Midnight \/ UNCHANGED vars
  <2>1. UNCHANGED << file, pc, ofile, n >>
    BY <1>2 DEF Midnight, vars
  <2>2. LogsNow' = LogsNow
    BY <2>1, LogsStay
  <2>3. WritingNow' = WritingNow
    BY <2>1, WritingStays DEF WritingOf
  <2>4. TornNow' = TornNow
    BY <2>1, TornStays DEF Torn
  <2> QED
    BY <2>2, <2>3, <2>4, NothingFollows
<1> QED
  BY <1>1, <1>2 DEF Next

\* The files are the logs of DailyLog for any number of sadc, of days and of activities,
\* whatever sadc is killed at whatever point: what a sadc writes to the last block is a
\* whole record of the file, never mixed with that of another one, in the order of its
\* samples.  Files are created by one sadc (Owned), and shared under the lock (Guarded).
THEOREM DailyLogImplemented == Owned /\ Guarded => (Spec => ImplementsDailyLog)
<1> SUFFICES ASSUME Owned, Guarded PROVE Spec => ImplementsDailyLog
  OBVIOUS
<1>1. Init => RInv /\ WInv /\ Log!Init
  BY InitRefinement, InitWriting, InitLog
<1>2. RInv /\ WInv /\ [Next]_vars => (RInv /\ WInv)'
  BY NextRefinement, NextWriting
<1>3. RInv /\ WInv /\ [Next]_vars => [Log!Next]_(Log!vars)
  <2>1. Follows <=> [Log!Next]_(Log!vars)
    BY DEF Follows, Log!vars, LogsNow, WritingNow, TornNow
  <2> QED
    BY <2>1, NextLog
<1> QED
  BY <1>1, <1>2, <1>3, PTL DEF Spec, ImplementsDailyLog, Log!Spec

-----------------------------------------------------------------------------
(* The samples of one sadc in the files of successive days.                 *)

\* The samples of which p has a whole record in the file of day d.
Taken(p, d) == Samples(p, file[d])
Took(p) == \E d \in Day : Taken(p, d) # {}

\* The last day before e of which p has some.
LastBefore(p, d, e) == d < e /\ Taken(p, d) # {} /\ \A c \in (d + 1)..(e - 1) : Taken(p, c) = {}

\* Who writes to a file may open it.
Used(p) ==
  \A d \in Day : \A i \in 1..Len(file[d]) :
    file[d][i].part \in RecordParts /\ file[d][i].by = p => p \in Users(d)

\* What p knows when it ends a file is the last sample of it, until it is the first
\* one of the next file.  A record that is skipped for want of the lock is never
\* one of a sadc that has written one.
Spans(p) ==
  /\ Args[p].lock /\ (Took(p) \/ pc[p] = "write") => locked[p]
  /\ pc[p] = "written" /\ Took(p) => n[p] \in Taken(p, ofile[p])
  /\ pc[p] \in {"loop", "pause"} /\ Took(p) => Taken(p, ofile[p]) # {}
  /\ pc[p] \in Opening \cup {"again", "write"} /\ Taken(p, ofile[p]) = {} =>
       \A d \in Day : LastBefore(p, d, ofile[p]) => n[p] \in Taken(p, d)

Overlaps(p) ==
  \A d, e \in Day : LastBefore(p, d, e) /\ Taken(p, e) # {} =>
    { k \in Taken(p, e) : \A j \in Taken(p, e) : k <= j } =
      { k \in Taken(p, d) : \A j \in Taken(p, d) : j <= k }

SInv == RInv /\ \A p \in Sadc : Used(p) /\ Spans(p) /\ Overlaps(p)

\* The samples are the numbers of the blocks that end a record.
LEMMA TakenEnds ==
  ASSUME Owned, RInv, NEW p \in Sadc, NEW d \in Day
  PROVE  /\ ~HeaderDone(file[d]) => Taken(p, d) = {}
         /\ HeaderDone(file[d]) =>
              Taken(p, d) = { file[d][i].n : i \in { j \in Ends(file[d]) : file[d][j].by = p } }
<1> DEFINE s == file[d]
<1>1. RecordsAre(d)
  BY DEF RInv, Content
<1>2. CASE ~HeaderDone(s)
  <2>1. Records(s) = << >>
    BY <1>2 DEF Records
  <2>2. ToSet(<< >>) = {}
    BY DEF ToSet
  <2> QED
    BY <1>2, <2>1, <2>2 DEF Taken, Samples
<1>3. CASE HeaderDone(s)
  <2>1. ToSet(Records(s)) = { << s[i].by, s[i].n >> : i \in Ends(s) }
    BY <1>1, <1>3 DEF RecordsAre
  <2> HIDE DEF s
  <2>2. Samples(p, s) = { s[i].n : i \in { j \in Ends(s) : s[j].by = p } }
    <3>1. ASSUME NEW k \in Samples(p, s) PROVE k \in { s[i].n : i \in { j \in Ends(s) : s[j].by = p } }
      <4>1. PICK r \in ToSet(Records(s)) : r[1] = p /\ k = r[2]
        BY <3>1 DEF Samples
      <4>2. PICK i \in Ends(s) : r = << s[i].by, s[i].n >>
        BY <2>1, <4>1
      <4>3. r[1] = s[i].by /\ r[2] = s[i].n
        BY <4>2
      <4> QED
        BY <4>1, <4>3
    <3>2. ASSUME NEW i \in Ends(s), s[i].by = p PROVE s[i].n \in Samples(p, s)
      <4>1. << p, s[i].n >> \in ToSet(Records(s))
        BY <2>1, <3>2
      <4>2. << p, s[i].n >>[1] = p /\ << p, s[i].n >>[2] = s[i].n
        OBVIOUS
      <4> QED
        BY <4>1, <4>2 DEF Samples
    <3> QED
      BY <3>1, <3>2
  <2> QED
    BY <1>3, <2>2 DEF Taken, s
<1> QED
  BY <1>2, <1>3

\* They are marks of p in the file, and of the records it has ended.
LEMMA TakenMarks ==
  ASSUME Owned, RInv, NEW p \in Sadc, NEW d \in Day, NEW k \in Taken(p, d)
  PROVE  /\ k \in Nat /\ Mark(p, d, k)
         /\ pc[p] = "write" /\ d = ofile[p] => k < n[p]
<1> DEFINE s == file[d]
<1>1. HeaderDone(s) /\ k \in { s[i].n : i \in { j \in Ends(s) : s[j].by = p } }
  BY TakenEnds
<1>2. PICK i \in Ends(s) : s[i].by = p /\ k = s[i].n
  BY <1>1
<1>3. s \in Seq(Blocks) /\ Len(s) \in Nat /\ Mine(p)
  BY DEF RInv, Typed, TypeOK
<1>4. i \in 1..Len(s) /\ s[i].part \in RecordParts
  <2>1. FirstRecord(s) \in Nat /\ FirstRecord(s) >= 3
    BY <1>1, <1>3, FirstRecordType
  <2> QED
    BY <1>3, <2>1 DEF Ends, EndsRecord
<1>5. k \in Nat
  BY <1>2, <1>3, <1>4, RecordBlockType
<1> QED
  BY <1>2, <1>3, <1>4, <1>5 DEF Mine

\* The file of a sadc that creates it has no record of anybody.
LEMMA NobodyRecords ==
  ASSUME Owned, SInv, NEW q \in Sadc, pc[q] \in Creating, NEW p \in Sadc
  PROVE  Taken(p, ofile[q]) = {}
<1> DEFINE d == ofile[q]
           s == file[d]
<1> SUFFICES ASSUME NEW k \in Taken(p, d) PROVE FALSE
  OBVIOUS
<1>0. RInv /\ d \in Day /\ Used(p)
  BY OfUser DEF SInv
<1>1. HeaderDone(s) /\ k \in { s[i].n : i \in { j \in Ends(s) : s[j].by = p } }
  <2>1. PICK e \in Day : e = d
    BY <1>0
  <2>2. k \in Taken(p, e)
    BY <2>1
  <2> QED
    BY <1>0, <2>1, <2>2, TakenEnds
<1>2. PICK i \in Ends(s) : s[i].by = p
  BY <1>1
<1>3. i \in 1..Len(s) /\ s[i].part \in RecordParts
  <2>1. FirstRecord(s) \in Nat /\ FirstRecord(s) >= 3 /\ Len(s) \in Nat
    BY <1>0, <1>1, FirstRecordType, OfUser
  <2> QED
    BY <2>1 DEF Ends, EndsRecord
<1>4. p \in Users(d)
  BY <1>0, <1>2, <1>3 DEF Used
<1>5. q \in Users(d) /\ ~Kept(d)
  BY <1>0, OfUser DEF Names, Creates, Creating
<1>6. p = q
  BY <1>0, <1>4, <1>5 DEF Owned, Alone
<1>7. Mark(q, d, k)
  BY <1>0, <1>6, TakenMarks
<1>8. d < d
  BY <1>7 DEF Mark, BeforeFirst, Opening
<1> QED
  BY <1>0, <1>8 DEF Day

\* A sadc adds one sample to one file when it ends a record, and nothing else does.
LEMMA TakenSteps ==
  ASSUME Owned, SInv, NEW q \in Sadc,
         Still(q) \/ Empties(q) \/ AddsHeader(q) \/ AddsRecord(q), NEW p \in Sadc, NEW d \in Day
  PROVE  Taken(p, d)' = IF AddsRecord(q) /\ todo'[q] = End /\ p = q /\ d = ofile[q]
                          THEN Taken(p, d) \cup {n[q]} ELSE Taken(p, d)
<1> DEFINE s == file[d]
<1>0. RInv /\ TypeOK /\ ofile[q] \in Day /\ s \in Seq(Blocks) /\ n[q] \in Nat
  BY OfUser DEF SInv, TypeOK
<1>1. CASE ~AddsRecord(q) /\ file'[d] = s
  BY <1>1 DEF Taken
<1>2. CASE AddsRecord(q) /\ d # ofile[q]
  <2>1. file'[d] = s
    BY <1>0, <1>2 DEF AddsRecord, TypeOK
  <2> QED
    BY <1>2, <2>1 DEF Taken
<1>3. CASE ~AddsRecord(q) /\ file'[d] # s
  <2>1. d = ofile[q] /\ pc[q] \in Creating
    BY <1>0, <1>3 DEF Still, Empties, AddsHeader, TypeOK, Creating
  <2>2. Taken(p, d) = {}
    BY <2>1, NobodyRecords
  <2>3. Records(file'[d]) = << >>
    <3>1. CASE Empties(q)
      <4>1. file'[d] = << >> /\ ~HeaderDone(<< >>)
        BY <1>0, <2>1, <3>1, Complete DEF Empties, TypeOK
      <4> QED
        BY <4>1 DEF Records
    <3>2. CASE AddsHeader(q)
      <4> DEFINE t == Append(s, HeaderBlock(pos[q] + 1, idseq[q]))
      <4>1. file'[d] = t /\ t \in Seq(Blocks) /\ (HeaderDone(t) => FirstRecord(t) = Len(t) + 1)
        BY <1>0, <2>1, <3>2, HeaderAdded
      <4> HIDE DEF t
      <4>2. CASE HeaderDone(t)
        <5>1. Len(t) < FirstRecord(t)
          BY <4>1, <4>2
        <5> QED
          BY <4>1, <4>2, <5>1, NoRecords
      <4>3. CASE ~HeaderDone(t)
        BY <4>1, <4>3 DEF Records
      <4> QED
        BY <4>2, <4>3
    <3> QED
      BY <1>3, <3>1, <3>2 DEF Still
  <2>4. Samples(p, file'[d]) = {}
    <3>1. ToSet(<< >>) = {}
      BY DEF ToSet
    <3> QED
      BY <2>3, <3>1 DEF Samples
  <2> QED
    BY <1>3, <2>2, <2>4 DEF Taken
<1>4. CASE AddsRecord(q) /\ d = ofile[q]
  <2> DEFINE b == BlockOf(q, n[q], todo[q], idseq[q])
             t == Append(s, b)
             r == << q, n[q] >>
  <2>1. /\ file'[d] = t /\ HeaderDone(s) /\ b \in Blocks /\ b.by = q /\ b.n = n[q]
        /\ EndsRecord(t, Len(s) + 1) <=> todo'[q] = End
    BY <1>0, <1>4, RecordAdded
  <2> HIDE DEF b
  <2>2. Records(t) = IF todo'[q] = End THEN Append(Records(s), r) ELSE Records(s)
    BY <1>0, <2>1, RecordsAdded
  <2>3. Records(s) \in Seq(Sadc \X Nat)
    BY <1>0, <2>1 DEF RInv, Content, RecordsAre
  <2> HIDE DEF t, s
  <2>4. CASE todo'[q] # End
    BY <2>1, <2>2, <2>4 DEF Taken, Samples, s
  <2>5. CASE todo'[q] = End
    <3>1. ToSet(Records(t)) = ToSet(Records(s)) \cup {r}
      <4>1. r \in Sadc \X Nat
        BY <1>0
      <4> HIDE DEF r
      <4>2. ToSet(Append(Records(s), r)) = ToSet(Records(s)) \cup {r}
        BY <2>3, <4>1, ToSetAdded
      <4> QED
        BY <2>2, <2>5, <4>2
    <3>2. r[1] = q /\ r[2] = n[q]
      OBVIOUS
    <3> HIDE DEF r
    <3>3. Samples(p, t) = IF p = q THEN Samples(p, s) \cup {n[q]} ELSE Samples(p, s)
      BY <3>1, <3>2 DEF Samples
    <3> QED
      BY <1>4, <2>1, <2>5, <3>3 DEF Taken, s
  <2> QED
    BY <2>4, <2>5
<1> QED
  BY <1>1, <1>2, <1>3, <1>4

LEMMA UsedKept ==
  ASSUME Owned, SInv, NEW q \in Sadc,
         Still(q) \/ Empties(q) \/ AddsHeader(q) \/ AddsRecord(q), NEW p \in Sadc
  PROVE  Used(p)'
<1>0. RInv /\ TypeOK /\ ofile[q] \in Day /\ Used(p)
  BY OfUser DEF SInv
<1> SUFFICES ASSUME NEW d \in Day, NEW i \in 1..Len(file'[d]),
                    file'[d][i].part \in RecordParts, file'[d][i].by = p
             PROVE  p \in Users(d)
  BY DEF Used, Users
<1> DEFINE s == file[d]
<1>1. CASE file'[d] = s
  BY <1>0, <1>1 DEF Used
<1>2. CASE Empties(q) /\ d = ofile[q]
  <2>1. file'[d] = << >>
    BY <1>0, <1>2 DEF Empties, TypeOK
  <2> QED
    BY <2>1
<1>3. CASE AddsHeader(q) /\ d = ofile[q]
  BY <1>0, <1>3, HeaderAdded DEF HeaderParts, RecordParts
<1>4. CASE AddsRecord(q) /\ d = ofile[q]
  <2> DEFINE b == BlockOf(q, n[q], todo[q], idseq[q])
  <2>1. file'[d] = Append(s, b) /\ b \in Blocks /\ b.by = q /\ s \in Seq(Blocks)
    BY <1>0, <1>4, RecordAdded, OfUser
  <2> HIDE DEF b
  <2>2. \/ i = Len(s) + 1 /\ file'[d][i] = b
        \/ i \in 1..Len(s) /\ file'[d][i] = s[i]
    <3> HIDE DEF s
    <3> QED
      BY <2>1
  <2>3. q \in Users(d)
    BY <1>0, <1>4, OfUser DEF AddsRecord, Names
  <2> QED
    BY <1>0, <2>1, <2>2, <2>3 DEF Used
<1> QED
  BY <1>0, <1>1, <1>2, <1>3, <1>4 DEF Still, Empties, AddsHeader, AddsRecord, TypeOK

\* Where a step leads, as far as the samples go.
Turns(q) ==
  /\ locked[q] => locked'[q]
  /\ Args[q].lock /\ pc'[q] = "write" /\ pc[q] # "write" => locked'[q]
  /\ \/ pc'[q] \in Over
     \/ /\ pc[q] \in {"off"} \cup Opening /\ pc'[q] \in Opening \cup {"main", "again"}
        /\ n'[q] = n[q] /\ (pc[q] # "off" => ofile'[q] = ofile[q])
     \/ pc[q] = "main" /\ pc'[q] \in {"loop", "write"}
     \/ pc[q] = "loop" /\ pc'[q] = "write" /\ ofile'[q] = ofile[q]
     \/ pc[q] = "again" /\ pc'[q] = "write" /\ ofile'[q] = ofile[q] /\ n'[q] = n[q]
     \/ pc[q] \in {"loop", "again"} /\ pc'[q] = "written" /\ Args[q].lock /\ ~locked[q]
     \/ pc[q] = "written" /\ pc'[q] = "open" /\ ofile[q] < ofile'[q] /\ n'[q] = n[q]
     \/ pc[q] = "written" /\ pc'[q] = "pause" /\ ofile'[q] = ofile[q]
     \/ pc[q] = "pause" /\ pc'[q] = "loop" /\ ofile'[q] = ofile[q]
     \/ AddsRecord(q)

LEMMA ExitTurns ==
  ASSUME TypeOK, NEW q \in Sadc, NEW label \in Over, Exit(q, label)
  PROVE  Turns(q)
<1>1. pc' = [pc EXCEPT ![q] = label] /\ locked' = locked
  BY Zenon DEF Exit, Goto
<1>2. pc'[q] = label
  BY <1>1 DEF TypeOK
<1> QED
  BY <1>1, <1>2 DEF Turns, Over

\* open_ofile() and create_sa_file() go on.
LEMMA OpeningTurns ==
  ASSUME TypeOK, NEW q \in Sadc, pc[q] \in Opening, NEW label \in Opening \cup {"main", "again"},
         pc' = [pc EXCEPT ![q] = label], UNCHANGED << ofile, n >>, locked[q] => locked'[q]
  PROVE  Turns(q)
<1>1. pc'[q] = label
  BY DEF TypeOK
<1> QED
  BY <1>1 DEF Turns, Opening, Creating

LEMMA RecreateTurns ==
  ASSUME TypeOK, NEW q \in Sadc, pc[q] \in Reading, Recreate(q) \/ Refuse(q)
  PROVE  Turns(q)
<1>1. CASE Recreate(q)
  <2>1. pc' = [pc EXCEPT ![q] = "create"] /\ UNCHANGED << ofile, n, locked >>
    BY <1>1, Zenon DEF Recreate, Goto
  <2> QED
    BY <2>1, OpeningTurns DEF Reading, Opening, Creating
<1>2. CASE Exit(q, "done")
  BY <1>2, ExitTurns DEF Over
<1> QED
  BY <1>1, <1>2 DEF Refuse

LEMMA AskTurns ==
  ASSUME TypeOK, NEW q \in Sadc, IF locked[q] THEN UNCHANGED << lock, locked >> ELSE AskForFlock(q)
  PROVE  (locked[q] => locked'[q]) /\ (Args[q].lock => locked'[q])
<1>1. CASE locked[q]
  BY <1>1, Zenon
<1>2. CASE ~locked[q] /\ Args[q].lock
  <2>1. locked' = [locked EXCEPT ![q] = TRUE]
    BY <1>2, Zenon DEF AskForFlock
  <2> QED
    BY <2>1 DEF TypeOK
<1> QED
  BY <1>1, <1>2

\* write_stats(): a record is skipped with -L only, and without the lock.
LEMMA WriteStatsTurns ==
  ASSUME TypeOK, NEW q \in Sadc, WriteStats(q)
  PROVE  /\ ofile'[q] = ofile[q] /\ (locked[q] => locked'[q])
         /\ \/ pc'[q] = "written" /\ Args[q].lock /\ ~locked[q]
            \/ pc'[q] = "write" /\ (Args[q].lock => locked'[q])
<1>0. ofile' = ofile
  BY Zenon DEF WriteStats
<1>1. CASE ~locked[q] /\ ~LockFree(q) /\ Goto(q, "written") /\ UNCHANGED << lock, locked, todo >>
  BY <1>0, <1>1 DEF LockFree, Goto, TypeOK
<1>2. CASE /\ IF locked[q] THEN UNCHANGED << lock, locked >> ELSE AskForFlock(q)
           /\ Goto(q, "write")
  BY <1>0, <1>2, AskTurns DEF Goto, TypeOK
<1> QED
  BY <1>1, <1>2 DEF WriteStats

LEMMA WriteBlockTurns ==
  ASSUME Owned, RInv, NEW q \in Sadc, WriteBlock(q)
  PROVE  Turns(q)
<1>0. TypeOK
  BY OfUser
<1>1. locked' = locked /\ pc[q] \in {"sethdr", "write"}
  BY Zenon DEF WriteBlock
<1>2. CASE pc[q] = "write"
  <2>1. AddsRecord(q)
    BY <1>2, WriteBlockRecord
  <2> QED
    BY <1>1, <1>2, <2>1 DEF Turns
<1>3. CASE pc[q] = "sethdr"
  <2>1. /\ ofile' = ofile /\ n' = n
        /\ pc'[q] = (IF After(Args[q].run, todo[q], idseq[q]) = End THEN Opened(q) ELSE pc[q])
    BY <1>3, WriteBlockAppends
  <2>2. pc'[q] \in {"sethdr", "main", "again"}
    BY <1>3, <2>1 DEF Opened
  <2> QED
    BY <1>1, <1>3, <2>1, <2>2 DEF Turns, Opening, Creating
<1> QED
  BY <1>1, <1>2, <1>3

LEMMA StepTurns ==
  ASSUME Owned, RInv, NEW q \in Sadc, Start(q) \/ Step(q) \/ Die(q)
  PROVE  Turns(q)
<1>0. TypeOK /\ Names(q) /\ Counts(q)
  BY OfUser
<1>1. CASE Start(q)
  <2>1. /\ pc[q] = "off" /\ pc' = [pc EXCEPT ![q] = "open"]
        /\ UNCHANGED << locked, n >>
    BY <1>1, Zenon DEF Start, Goto
  <2>2. pc'[q] = "open"
    BY <1>0, <2>1 DEF TypeOK
  <2> QED
    BY <2>1, <2>2 DEF Turns, Opening, Creating
<1>2. CASE OpenFile(q)
  <2>1. PICK label \in {"create", "magic"} : pc' = [pc EXCEPT ![q] = label]
    BY <1>2, Zenon DEF OpenFile, Goto
  <2>2. pc[q] = "open" /\ UNCHANGED << ofile, n, locked >>
    BY <1>2, Zenon DEF OpenFile
  <2> QED
    BY <1>0, <2>1, <2>2, OpeningTurns DEF Opening, Creating, Reading
<1>3. CASE ReadMagic(q)
  <2>1. pc[q] = "magic"
    BY <1>3, Zenon DEF ReadMagic
  <2>2. CASE Recreate(q) \/ Refuse(q)
    BY <1>0, <2>1, <2>2, RecreateTurns DEF Reading
  <2>3. CASE Goto(q, "header") /\ UNCHANGED << ofile, n, locked >>
    BY <1>0, <2>1, <2>3, OpeningTurns DEF Goto, Opening, Reading
  <2> QED
    BY <1>3, <2>2, <2>3, Zenon DEF ReadMagic, shared
<1>4. CASE ReadHeader(q)
  <2>1. pc[q] = "header"
    BY <1>4, Zenon DEF ReadHeader
  <2>2. CASE Recreate(q) \/ Refuse(q)
    BY <1>0, <2>1, <2>2, RecreateTurns DEF Reading
  <2>3. CASE Goto(q, "acts") /\ UNCHANGED << ofile, n, locked >>
    BY <1>0, <2>1, <2>3, OpeningTurns DEF Goto, Opening, Reading
  <2> QED
    BY <1>4, <2>2, <2>3, Zenon DEF ReadHeader, shared
<1>5. CASE ReadActivity(q)
  <2>1. pc[q] = "acts"
    BY <1>5, Zenon DEF ReadActivity
  <2>2. CASE Exit(q, "done")
    BY <1>0, <2>2, ExitTurns DEF Over
  <2>3. CASE Refuse(q)
    BY <1>0, <2>1, <2>3, RecreateTurns DEF Reading
  <2>4. CASE UNCHANGED << pc, ofile, n, locked >>
    <3>1. pc'[q] = "acts" /\ n'[q] = n[q] /\ ofile'[q] = ofile[q] /\ locked'[q] = locked[q]
      BY <2>1, <2>4
    <3> QED
      BY <2>1, <3>1 DEF Turns, Opening, Reading
  <2> QED
    BY <1>5, <2>2, <2>3, <2>4, Zenon DEF ReadActivity, shared
<1>6. CASE AdoptList(q)
  <2>1. pc[q] = "acts" /\ pc' = [pc EXCEPT ![q] = Opened(q)] /\ UNCHANGED << ofile, n, locked >>
    BY <1>6, Zenon DEF AdoptList, Goto
  <2>2. Opened(q) \in {"main", "again"}
    BY DEF Opened
  <2> QED
    BY <1>0, <2>1, <2>2, OpeningTurns DEF Opening, Reading
<1>7. CASE CreateFile(q)
  <2>1. pc[q] = "create" /\ pc' = [pc EXCEPT ![q] = "lockfile"] /\ UNCHANGED << ofile, n, locked >>
    BY <1>7, Zenon DEF CreateFile, Goto
  <2> QED
    BY <1>0, <2>1, OpeningTurns DEF Opening, Creating
<1>8. CASE LockCreated(q)
  <2>1. pc[q] = "lockfile"
    BY <1>8, Zenon DEF LockCreated
  <2>2. CASE Exit(q, "done")
    BY <1>0, <2>2, ExitTurns DEF Over
  <2>3. CASE AskForFlock(q) /\ Goto(q, "trunc") /\ UNCHANGED << ofile, n >>
    <3>1. locked[q] => locked'[q]
      <4>1. locked' = [locked EXCEPT ![q] = TRUE] \/ locked' = locked
        BY <2>3, Zenon DEF AskForFlock
      <4> QED
        BY <1>0, <4>1 DEF TypeOK
    <3> QED
      BY <1>0, <2>1, <2>3, <3>1, OpeningTurns DEF Goto, Opening, Creating
  <2> QED
    BY <1>8, <2>2, <2>3, Zenon DEF LockCreated
<1>9. CASE Truncate(q)
  <2>1. pc[q] = "trunc" /\ pc' = [pc EXCEPT ![q] = "sethdr"] /\ UNCHANGED << ofile, n, locked >>
    BY <1>9, Zenon DEF Truncate, Goto
  <2> QED
    BY <1>0, <2>1, OpeningTurns DEF Opening, Creating
<1>10. CASE BeginSpecial(q)
  <2>1. CASE Exit(q, "done")
    BY <1>0, <2>1, ExitTurns DEF Over
  <2>2. CASE /\ IF locked[q] THEN UNCHANGED << lock, locked >> ELSE AskForFlock(q)
             /\ Goto(q, "write")
    <3>1. pc'[q] = "write" /\ pc[q] = "main"
      BY <1>0, <1>10, <2>2 DEF BeginSpecial, Goto, TypeOK
    <3> QED
      BY <1>0, <2>2, <3>1, AskTurns DEF Turns
  <2> QED
    BY <1>10, <2>1, <2>2, Zenon DEF BeginSpecial
<1>11. CASE EnterLoop(q)
  <2>1. pc[q] = "main" /\ pc' = [pc EXCEPT ![q] = "loop"] /\ locked' = locked
    BY <1>11, Zenon DEF EnterLoop, Goto
  <2>2. pc'[q] = "loop"
    BY <1>0, <2>1 DEF TypeOK
  <2> QED
    BY <2>1, <2>2 DEF Turns
<1>12. CASE Sample(q)
  <2>1. pc[q] = "loop" /\ WriteStats(q)
    BY <1>12, Zenon DEF Sample
  <2> QED
    BY <1>0, <2>1, WriteStatsTurns DEF Turns
<1>13. CASE SampleAgain(q)
  <2>1. pc[q] = "again" /\ WriteStats(q) /\ n' = n
    BY <1>13, Zenon DEF SampleAgain
  <2> QED
    BY <1>0, <2>1, WriteStatsTurns DEF Turns
<1>14. CASE Rotate(q)
  <2>1. /\ pc[q] = "written" /\ newofile[q] # ofile[q] /\ pc' = [pc EXCEPT ![q] = "open"]
        /\ ofile' = [ofile EXCEPT ![q] = newofile[q]] /\ UNCHANGED << n, locked >>
    BY <1>14, Zenon DEF Rotate, Goto
  <2>2. pc'[q] = "open" /\ ofile'[q] = newofile[q] /\ newofile[q] \in Int /\ ofile[q] \in Int
    BY <1>0, <2>1 DEF TypeOK, Day
  <2>3. ofile[q] < ofile'[q]
    BY <1>0, <2>1, <2>2 DEF Names
  <2> QED
    BY <2>1, <2>2, <2>3 DEF Turns
<1>15. CASE EndIteration(q)
  <2>1. pc[q] = "written"
    BY <1>15, Zenon DEF EndIteration
  <2>2. CASE Exit(q, "done")
    BY <1>0, <2>2, ExitTurns DEF Over
  <2>3. CASE pc' = [pc EXCEPT ![q] = "pause"] /\ UNCHANGED << ofile, locked >>
    <3>1. pc'[q] = "pause"
      BY <1>0, <2>3 DEF TypeOK
    <3> QED
      BY <2>1, <2>3, <3>1 DEF Turns
  <2> QED
    BY <1>15, <2>2, <2>3, Zenon DEF EndIteration, Goto, shared
<1>16. CASE Wake(q)
  <2>1. pc[q] = "pause" /\ pc' = [pc EXCEPT ![q] = "loop"] /\ UNCHANGED << ofile, locked >>
    BY <1>16, Zenon DEF Wake, Goto
  <2>2. pc'[q] = "loop"
    BY <1>0, <2>1 DEF TypeOK
  <2> QED
    BY <2>1, <2>2 DEF Turns
<1>17. CASE EndSpecial(q) \/ Die(q)
  BY <1>0, <1>17, ExitTurns DEF EndSpecial, Die, Over
<1> QED
  BY <1>1, <1>2, <1>3, <1>4, <1>5, <1>6, <1>7, <1>8, <1>9, <1>10, <1>11, <1>12, <1>13, <1>14,
     <1>15, <1>16, <1>17, WriteBlockTurns DEF Step

\* What a sadc has taken stays; what it takes anew is the sample it writes.
LEMMA TakenGrows ==
  ASSUME Owned, SInv, NEW q \in Sadc,
         Still(q) \/ Empties(q) \/ AddsHeader(q) \/ AddsRecord(q), NEW p \in Sadc,
         ~(AddsRecord(q) /\ todo'[q] = End /\ p = q)
  PROVE  (\A d \in Day : Taken(p, d)' = Taken(p, d)) /\ Took(p)' = Took(p)
<1>1. \A d \in Day : Taken(p, d)' = Taken(p, d)
  BY TakenSteps
<1>2. \A d \in Day : Taken(p, d)' = Samples(p, file'[d])
  BY DEF Taken
<1> QED
  BY <1>1, <1>2 DEF Took

\* The days on which a sadc has taken samples are not after the one of its file, and
\* before it has taken one it has no number.
LEMMA TakenBefore ==
  ASSUME Owned, RInv, NEW p \in Sadc
  PROVE  /\ \A d \in Day : Taken(p, d) # {} => d <= ofile[p]
         /\ pc[p] \in BeforeFirst => Taken(p, ofile[p]) = {}
         /\ pc[p] \in {"off", "main"} => ~Took(p)
         /\ \A d \in Day : \A k \in Taken(p, d) : k \in Nat /\ k <= n[p]
<1>0. TypeOK /\ Counts(p) /\ ofile[p] \in Day
  BY OfUser
<1>1. ASSUME NEW d \in Day, NEW k \in Taken(p, d)
      PROVE  /\ d <= ofile[p] /\ k \in Nat /\ k <= n[p] /\ pc[p] # "off"
             /\ pc[p] \in BeforeFirst => d < ofile[p]
             /\ pc[p] # "main"
  <2>1. Mark(p, d, k) /\ k \in Nat
    BY <1>1, TakenMarks
  <2> QED
    BY <1>0, <2>1 DEF Mark, Counts, Over
<1>2. pc[p] \in BeforeFirst => Taken(p, ofile[p]) = {}
  <2> SUFFICES ASSUME pc[p] \in BeforeFirst, NEW k \in Taken(p, ofile[p]) PROVE FALSE
    OBVIOUS
  <2>1. PICK d \in Day : d = ofile[p]
    BY <1>0
  <2>2. k \in Taken(p, d)
    BY <2>1
  <2>3. d < d
    BY <1>1, <2>1, <2>2
  <2> QED
    BY <2>3 DEF Day
<1> QED
  BY <1>1, <1>2 DEF Took

\* Spans(p) with an arbitrary file of p.
SpansOf(p, d) ==
  /\ Args[p].lock /\ (Took(p) \/ pc[p] = "write") => locked[p]
  /\ pc[p] = "written" /\ Took(p) => n[p] \in Taken(p, d)
  /\ pc[p] \in {"loop", "pause"} /\ Took(p) => Taken(p, d) # {}
  /\ pc[p] \in Opening \cup {"again", "write"} /\ Taken(p, d) = {} =>
       \A c \in Day : LastBefore(p, c, d) => n[p] \in Taken(p, c)

LEMMA SpansOther ==
  ASSUME Owned, SInv, NEW q \in Sadc, Start(q) \/ Step(q) \/ Die(q),
         Still(q) \/ Empties(q) \/ AddsHeader(q) \/ AddsRecord(q), NEW p \in Sadc, p # q
  PROVE  Spans(p)' /\ Overlaps(p)'
<1>0. RInv /\ TypeOK /\ ofile[p] \in Day /\ Spans(p) /\ Overlaps(p)
  BY OfUser DEF SInv
<1>1. pc'[p] = pc[p] /\ ofile'[p] = ofile[p] /\ n'[p] = n[p] /\ locked'[p] = locked[p]
  BY <1>0, StepApart DEF Apart
<1>2. (\A d \in Day : Taken(p, d)' = Taken(p, d)) /\ Took(p)' = Took(p)
  BY TakenGrows
<1>3. \A d, e \in Day : LastBefore(p, d, e)' <=> LastBefore(p, d, e)
  <2> SUFFICES ASSUME NEW d \in Day, NEW e \in Day PROVE LastBefore(p, d, e)' <=> LastBefore(p, d, e)
    OBVIOUS
  <2>1. \A c \in (d + 1)..(e - 1) : c \in Day
    BY SadcFileAssumption DEF Day
  <2>2. \A c \in (d + 1)..(e - 1) : Taken(p, c)' = Taken(p, c)
    BY <1>2, <2>1
  <2> QED
    BY <1>2, <2>2 DEF LastBefore
<1>4. Overlaps(p)'
  BY <1>0, <1>2, <1>3 DEF Overlaps
<1>5. Spans(p)'
  <2>1. PICK d \in Day : d = ofile[p]
    BY <1>0
  <2>2. d = ofile'[p]
    BY <1>1, <2>1
  <2>3. SpansOf(p, d)
    BY <1>0, <2>1 DEF Spans, SpansOf
  <2>4. SpansOf(p, d)'
    BY <1>1, <1>2, <1>3, <2>3 DEF SpansOf
  <2> QED
    BY <2>2, <2>4 DEF Spans, SpansOf
<1> QED
  BY <1>4, <1>5

LEMMA SpansOwn ==
  ASSUME Owned, SInv, NEW q \in Sadc, Start(q) \/ Step(q) \/ Die(q),
         Still(q) \/ Empties(q) \/ AddsHeader(q) \/ AddsRecord(q), Own(q)', TypeOK'
  PROVE  Spans(q)'
<1>0. RInv /\ TypeOK /\ Counts(q) /\ ofile[q] \in Day /\ ofile'[q] \in Day /\ Turns(q)
  BY OfUser, StepTurns DEF SInv, TypeOK
<1>1. PICK o \in Day : o = ofile[q]
  BY <1>0
<1>2. PICK e \in Day : e = ofile'[q]
  BY <1>0
<1>3. SpansOf(q, o)
  BY <1>1 DEF SInv, Spans, SpansOf
<1>4. /\ pc'[q] = "main" => n'[q] = 0
      /\ pc'[q] \in {"again", "written", "pause"} => n'[q] > 0
  BY DEF Own, Counts
<1>5. /\ \A d \in Day : Taken(q, d) # {} => d <= o
      /\ pc[q] \in BeforeFirst => Taken(q, o) = {}
      /\ pc[q] \in {"off", "main"} => ~Took(q)
  BY <1>0, <1>1, TakenBefore
<1> SUFFICES SpansOf(q, e)'
  BY <1>2 DEF Spans, SpansOf
<1>6. CASE AddsRecord(q) /\ todo'[q] = End
  <2>1. /\ pc[q] = "write" /\ pc'[q] \in {"written", "special"} /\ e = o /\ n'[q] = n[q]
    BY <1>1, <1>2, <1>6 DEF AddsRecord
  <2>2. n[q] \in Taken(q, o)'
    BY <1>1, <1>6, TakenSteps
  <2>3. Args[q].lock => locked'[q]
    BY <1>0, <1>3, <2>1 DEF SpansOf, Turns
  <2> QED
    BY <2>1, <2>2, <2>3 DEF SpansOf, Opening, Creating
<1>7. CASE ~(AddsRecord(q) /\ todo'[q] = End)
  <2>1. (\A d \in Day : Taken(q, d)' = Taken(q, d)) /\ Took(q)' = Took(q)
    BY <1>7, TakenGrows
  <2>2. \A d \in Day : LastBefore(q, d, e)' <=> LastBefore(q, d, e)
    <3> SUFFICES ASSUME NEW d \in Day PROVE LastBefore(q, d, e)' <=> LastBefore(q, d, e)
      OBVIOUS
    <3>1. \A c \in (d + 1)..(e - 1) : c \in Day
      BY SadcFileAssumption DEF Day
    <3>2. \A c \in (d + 1)..(e - 1) : Taken(q, c)' = Taken(q, c)
      BY <2>1, <3>1
    <3> QED
      BY <2>1, <3>2 DEF LastBefore
  <2>3. \A d \in Day : LastBefore(q, d, e) => Took(q)
    BY DEF LastBefore, Took
  <2>4. Args[q].lock /\ (Took(q)' \/ pc'[q] = "write") => locked'[q]
    BY <1>0, <1>3, <2>1 DEF SpansOf, Turns
  <2> DEFINE Later == /\ pc'[q] = "written" /\ Took(q) => n'[q] \in Taken(q, e)
                      /\ pc'[q] \in {"loop", "pause"} /\ Took(q) => Taken(q, e) # {}
                      /\ pc'[q] \in Opening \cup {"again", "write"} /\ Taken(q, e) = {} =>
                           \A d \in Day : LastBefore(q, d, e) => n'[q] \in Taken(q, d)
  <2>5. SUFFICES Later
    BY <2>1, <2>2, <2>4 DEF SpansOf
  <2>6. CASE pc'[q] \in Over
    BY <2>6 DEF Over, Opening, Creating
  <2>7. CASE pc[q] = "off" /\ pc'[q] \in Opening \cup {"main", "again"}
    BY <1>5, <2>3, <2>7 DEF Opening, Creating
  <2>8. CASE /\ pc[q] \in Opening /\ pc'[q] \in Opening \cup {"main", "again"}
             /\ n'[q] = n[q] /\ ofile'[q] = ofile[q]
    BY <1>1, <1>2, <1>3, <2>8 DEF SpansOf, Opening, Creating
  <2>9. CASE pc[q] = "main" /\ pc'[q] \in {"loop", "write"}
    BY <1>5, <2>3, <2>9 DEF Opening, Creating
  <2>10. CASE pc[q] = "loop" /\ pc'[q] = "write" /\ ofile'[q] = ofile[q]
    BY <1>1, <1>2, <1>3, <2>3, <2>10 DEF SpansOf, Opening, Creating
  <2>11. CASE pc[q] = "again" /\ pc'[q] = "write" /\ ofile'[q] = ofile[q] /\ n'[q] = n[q]
    BY <1>1, <1>2, <1>3, <2>11 DEF SpansOf, Opening, Creating
  <2>12. CASE pc[q] \in {"loop", "again"} /\ pc'[q] = "written" /\ Args[q].lock /\ ~locked[q]
    BY <1>3, <2>12 DEF SpansOf, Opening, Creating
  <2>13. CASE pc[q] = "written" /\ pc'[q] = "open" /\ ofile[q] < ofile'[q] /\ n'[q] = n[q]
    <3>1. o < e /\ o \in Int /\ e \in Int
      BY <1>1, <1>2, <2>13 DEF Day
    <3>2. Took(q) => n[q] \in Taken(q, o)
      BY <1>3, <2>13 DEF SpansOf
    <3>3. ASSUME NEW d \in Day, LastBefore(q, d, e) PROVE n'[q] \in Taken(q, d)
      <4>1. d <= o /\ d \in Int /\ Took(q)
        BY <1>5, <2>3, <3>3 DEF LastBefore, Day
      <4>2. CASE d = o
        BY <2>13, <3>2, <4>1, <4>2
      <4>3. CASE d < o
        <5>1. o \in (d + 1)..(e - 1)
          BY <3>1, <4>1, <4>3
        <5> QED
          BY <3>2, <3>3, <4>1, <5>1 DEF LastBefore
      <4> QED
        BY <3>1, <4>1, <4>2, <4>3
    <3> QED
      BY <2>13, <3>3
  <2>14. CASE pc[q] = "written" /\ pc'[q] = "pause" /\ ofile'[q] = ofile[q]
    BY <1>1, <1>2, <1>3, <2>14 DEF SpansOf, Opening, Creating
  <2>15. CASE pc[q] = "pause" /\ pc'[q] = "loop" /\ ofile'[q] = ofile[q]
    BY <1>1, <1>2, <1>3, <2>15 DEF SpansOf, Opening, Creating
  <2>16. CASE AddsRecord(q)
    <3>1. pc[q] = "write" /\ pc'[q] = "write" /\ ofile'[q] = ofile[q] /\ n'[q] = n[q]
      BY <1>7, <2>16 DEF AddsRecord
    <3> QED
      BY <1>1, <1>2, <1>3, <3>1 DEF SpansOf, Opening, Creating
  <2> HIDE DEF Later
  <2> QED
    BY <1>0, <2>6, <2>7, <2>8, <2>9, <2>10, <2>11, <2>12, <2>13, <2>14, <2>15, <2>16 DEF Turns, Opening, Creating
<1> QED
  BY <1>6, <1>7

LEMMA OverlapsOwn ==
  ASSUME Owned, SInv, NEW q \in Sadc,
         Still(q) \/ Empties(q) \/ AddsHeader(q) \/ AddsRecord(q)
  PROVE  Overlaps(q)'
<1>0. RInv /\ TypeOK /\ ofile[q] \in Day /\ n[q] \in Nat /\ Overlaps(q) /\ Spans(q)
  BY OfUser DEF SInv
<1>1. PICK o \in Day : o = ofile[q]
  BY <1>0
<1>2. SpansOf(q, o)
  BY <1>0, <1>1 DEF Spans, SpansOf
<1>3. /\ \A d \in Day : Taken(q, d) # {} => d <= o
      /\ \A d \in Day : \A k \in Taken(q, d) : k \in Nat /\ k <= n[q]
  BY <1>0, <1>1, TakenBefore
<1> SUFFICES ASSUME NEW d \in Day, NEW e \in Day, LastBefore(q, d, e)', Taken(q, e)' # {}
             PROVE  { k \in Taken(q, e)' : \A j \in Taken(q, e)' : k <= j } =
                      { k \in Taken(q, d)' : \A j \in Taken(q, d)' : j <= k }
  BY DEF Overlaps
<1>4. /\ d < e /\ d \in Int /\ e \in Int /\ o \in Int /\ Taken(q, d)' # {}
      /\ \A c \in (d + 1)..(e - 1) : c \in Day /\ Taken(q, c)' = {}
  BY SadcFileAssumption DEF LastBefore, Day
<1>5. CASE ~(AddsRecord(q) /\ todo'[q] = End)
  <2>1. \A c \in Day : Taken(q, c)' = Taken(q, c)
    BY <1>5, TakenGrows
  <2>2. LastBefore(q, d, e) /\ Taken(q, e) # {}
    BY <1>4, <2>1 DEF LastBefore
  <2> QED
    BY <1>0, <2>1, <2>2 DEF Overlaps
<1>6. CASE AddsRecord(q) /\ todo'[q] = End
  <2>1. \A c \in Day : Taken(q, c)' = IF c = o THEN Taken(q, c) \cup {n[q]} ELSE Taken(q, c)
    BY <1>1, <1>6, TakenSteps
  <2>2. e <= o
    BY <1>3, <1>4, <2>1
  <2>3. Taken(q, d)' = Taken(q, d) /\ d # o
    BY <1>4, <2>1, <2>2
  <2>4. \A c \in (d + 1)..(e - 1) : Taken(q, c) = {}
    BY <1>4, <2>1, <2>2
  <2>5. LastBefore(q, d, e)
    BY <1>4, <2>3, <2>4 DEF LastBefore
  <2>6. CASE e # o
    BY <1>0, <2>1, <2>3, <2>5, <2>6 DEF Overlaps
  <2>7. CASE e = o /\ Taken(q, o) = {}
    <3>1. pc[q] = "write"
      BY <1>6 DEF AddsRecord
    <3>2. n[q] \in Taken(q, d)
      BY <1>2, <2>5, <2>7, <3>1 DEF SpansOf
    <3>3. Taken(q, e)' = {n[q]}
      BY <2>1, <2>7
    <3>4. \A j \in Taken(q, d) : j <= n[q] /\ j \in Nat
      BY <1>3
    <3> QED
      BY <1>0, <2>3, <3>2, <3>3, <3>4
  <2>8. CASE e = o /\ Taken(q, o) # {}
    <3>1. \A j \in Taken(q, e) : j < n[q] /\ j \in Nat
      BY <1>0, <1>1, <1>6, <2>8, TakenMarks DEF AddsRecord
    <3>2. Taken(q, e)' = Taken(q, e) \cup {n[q]} /\ Taken(q, e) # {}
      BY <2>1, <2>8
    <3>3. { k \in Taken(q, e) : \A j \in Taken(q, e) : k <= j } =
            { k \in Taken(q, d) : \A j \in Taken(q, d) : j <= k }
      BY <1>0, <2>5, <2>8 DEF Overlaps
    <3>4. \A k \in Taken(q, e) \cup {n[q]} :
            (\A j \in Taken(q, e) \cup {n[q]} : k <= j) <=>
              k \in Taken(q, e) /\ \A j \in Taken(q, e) : k <= j
      BY <1>0, <3>1, <3>2
    <3>5. { k \in Taken(q, e)' : \A j \in Taken(q, e)' : k <= j } =
            { k \in Taken(q, e) : \A j \in Taken(q, e) : k <= j }
      BY <3>2, <3>4
    <3> QED
      BY <2>3, <3>3, <3>5
  <2> QED
    BY <2>6, <2>7, <2>8
<1> QED
  BY <1>5, <1>6

\* Nobody has written to a file of before.
LEMMA InitSamples == Owned /\ Init => SInv
<1> SUFFICES ASSUME Owned, Init PROVE SInv
  OBVIOUS
<1>0. RInv
  BY InitRefinement
<1>1. ASSUME NEW p \in Sadc PROVE Used(p) /\ Spans(p) /\ Overlaps(p)
  <2>1. pc[p] = "off" /\ locked[p] = FALSE /\ Mine(p)
    BY <1>0 DEF Init, RInv
  <2>2. \A d \in Day : Taken(p, d) = {}
    BY <1>0, <2>1, TakenBefore DEF Took
  <2>3. Used(p)
    <3> SUFFICES ASSUME NEW d \in Day, NEW i \in 1..Len(file[d]),
                        file[d][i].part \in RecordParts, file[d][i].by = p
                 PROVE  FALSE
      BY DEF Used
    <3>1. Mark(p, d, file[d][i].n)
      BY <2>1 DEF Mine
    <3> QED
      BY <2>1, <3>1 DEF Mark
  <2>4. ~Took(p)
    BY <2>2 DEF Took
  <2>5. Spans(p)
    BY <2>1, <2>4 DEF Spans, Opening, Creating
  <2>6. Overlaps(p)
    BY <2>2 DEF Overlaps
  <2> QED
    BY <2>3, <2>5, <2>6
<1> QED
  BY <1>0, <1>1 DEF SInv

LEMMA NextSamples == Owned /\ SInv /\ [Next]_vars => SInv'
<1> SUFFICES ASSUME Owned, SInv, [Next]_vars PROVE SInv'
  OBVIOUS
<1>1. RInv'
  BY NextRefinement DEF SInv
<1>2. ASSUME NEW q \in Sadc, Start(q) \/ Step(q) \/ Die(q)
      PROVE  \A p \in Sadc : Used(p)' /\ Spans(p)' /\ Overlaps(p)'
  <2>1. Still(q) \/ Empties(q) \/ AddsHeader(q) \/ AddsRecord(q)
    BY <1>2, StepKinds DEF SInv
  <2>2. Own(q)' /\ TypeOK'
    BY <1>1 DEF RInv, Typed
  <2> QED
    BY <1>2, <2>1, <2>2, UsedKept, SpansOther, SpansOwn, OverlapsOwn
<1>3. CASE UNCHANGED << file, pc, ofile, locked, n >>
  <2>1. ASSUME NEW p \in Sadc PROVE Used(p)' /\ Spans(p)' /\ Overlaps(p)'
    <3>1. Used(p) /\ Spans(p) /\ Overlaps(p)
      BY DEF SInv
    <3>2. Used(p)'
      BY <1>3, <3>1 DEF Used, Users
    <3>3. Spans(p)'
      <4>1. ofile[p] \in Day /\ SpansOf(p, ofile[p])
        BY <3>1, OfUser DEF SInv, Spans, SpansOf
      <4>2. PICK d \in Day : d = ofile[p]
        BY <4>1
      <4>3. SpansOf(p, d)'
        <5>1. SpansOf(p, d)
          BY <4>1, <4>2
        <5>2. \A c \in Day : Taken(p, c)' = Taken(p, c) /\ (LastBefore(p, c, d)' <=> LastBefore(p, c, d))
          BY <1>3, Zenon DEF LastBefore, Taken
        <5>3. Took(p)' = Took(p)
          BY <1>3, Zenon DEF Took, Taken
        <5> QED
          BY <1>3, <5>1, <5>2, <5>3 DEF SpansOf
      <4> QED
        BY <1>3, <4>2, <4>3 DEF Spans, SpansOf
    <3>4. Overlaps(p)'
      <4>1. \A d, e \in Day : Taken(p, d)' = Taken(p, d) /\ (LastBefore(p, d, e)' <=> LastBefore(p, d, e))
        BY <1>3, Zenon DEF LastBefore, Taken
      <4> QED
        BY <3>1, <4>1 DEF Overlaps
    <3> QED
      BY <3>2, <3>3, <3>4
  <2> QED
    BY <1>1, <2>1 DEF SInv
<1> QED
  BY <1>1, <1>2, <1>3 DEF Next, Midnight, vars, shared, SInv

\* In every run without such a file, the last sample of a day that a sadc took of
\* those it had is also its first one of the next day it has some of.
THEOREM RotationOverlapsOwned == Owned => (Spec => []RotationOverlaps)
<1> SUFFICES ASSUME Owned PROVE Spec => []RotationOverlaps
  OBVIOUS
<1>1. ASSUME SInv PROVE RotationOverlaps
  <2>1. \A p \in Sadc : Overlaps(p)
    BY <1>1 DEF SInv
  <2> SUFFICES ASSUME NEW p \in Sadc, NEW d \in Day, NEW e \in Day, d < e,
                      Samples(p, file[d]) # {}, Samples(p, file[e]) # {},
                      \A c \in (d + 1)..(e - 1) : Samples(p, file[c]) = {}
               PROVE  { k \in Samples(p, file[e]) : \A j \in Samples(p, file[e]) : k <= j } =
                        { k \in Samples(p, file[d]) : \A j \in Samples(p, file[d]) : j <= k }
    BY Zenon DEF RotationOverlaps
  <2>2. LastBefore(p, d, e) /\ Taken(p, e) # {}
    BY DEF LastBefore, Taken
  <2> QED
    BY <2>1, <2>2 DEF Overlaps, Taken
<1> QED
  BY <1>1, InitSamples, NextSamples, PTL DEF Spec
=============================================================================
