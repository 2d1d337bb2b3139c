------------------------- MODULE MCActBuffersProofs -------------------------
(***************************************************************************)
(* The theorems of ActBuffersProofs for what the run checks: a behaviour   *)
(* of either instance, the one of the constants or the one of the          *)
(* activities with sub-items, CPUs x interrupts and CPUs x frequencies.    *)
(***************************************************************************)
EXTENDS MCActBuffers, ActBuffersProofs

SubsProofs == INSTANCE ActBuffersProofs WITH
                Fixed <- {}, Listed <- {}, Always <- {}, Irq <- {irq}, Freq <- {freq},
                Selected <- SubItems, FirstFiles <- SomeSubs, NextFiles <- SomeSubs,
                MaxItems <- 2, MaxSubs <- 2

\* The instance of the theorems is the one that is checked.
LEMMA SameInit == Subs!Init <=> SubsProofs!Init
BY Zenon DEF Subs!Init, SubsProofs!Init, Subs!Activity, SubsProofs!Activity, Subs!Counted,
             SubsProofs!Counted

LEMMA SameNext == Subs!Next <=> SubsProofs!Next
BY Zenon
   DEF Subs!Next, Subs!SysInit, Subs!OpenFile, Subs!Header, Subs!ResetStats, Subs!ReadStats,
       Subs!WriteStdout, Subs!WriteFile, Subs!Activity, Subs!Counted, Subs!Matrix, Subs!Items,
       Subs!Machine, Subs!Count, Subs!SizedAgain, Subs!Read, Subs!sadc, Subs!sar, Subs!Kept,
       Subs!Lesser, Subs!Found, Subs!CountNr, Subs!CountNr2, Subs!Adopt, Subs!FileNr,
       Subs!Larger, Subs!NewFile, Subs!Doubled, Subs!Needed, Subs!Reallocated, Subs!RoomAfter,
       Subs!Allocate, Subs!MoreBuffers, SubsProofs!Next, SubsProofs!SysInit, SubsProofs!OpenFile,
       SubsProofs!Header, SubsProofs!ResetStats, SubsProofs!ReadStats, SubsProofs!WriteStdout,
       SubsProofs!WriteFile, SubsProofs!Activity, SubsProofs!Counted, SubsProofs!Matrix,
       SubsProofs!Items, SubsProofs!Machine, SubsProofs!Count, SubsProofs!SizedAgain,
       SubsProofs!Read, SubsProofs!sadc, SubsProofs!sar, SubsProofs!Kept, SubsProofs!Lesser,
       SubsProofs!Found, SubsProofs!CountNr, SubsProofs!CountNr2, SubsProofs!Adopt,
       SubsProofs!FileNr, SubsProofs!Larger, SubsProofs!NewFile, SubsProofs!Doubled,
       SubsProofs!Needed, SubsProofs!Reallocated, SubsProofs!RoomAfter, SubsProofs!Allocate,
       SubsProofs!MoreBuffers

LEMMA SameProperties ==
  /\ SubsProofs!HeaderAccepted => Subs!HeaderAccepted
  /\ SubsProofs!ReadCanGrow => Subs!ReadCanGrow
  /\ SubsProofs!InBounds => Subs!InBounds
  /\ SubsProofs!WritesWhatWasRead => Subs!WritesWhatWasRead
BY Zenon
   DEF Subs!HeaderAccepted, Subs!ReadCanGrow, Subs!InBounds, Subs!WritesWhatWasRead, Subs!AsRead,
       Subs!Activity, Subs!Counted, Subs!Matrix, SubsProofs!HeaderAccepted,
       SubsProofs!ReadCanGrow, SubsProofs!InBounds, SubsProofs!WritesWhatWasRead,
       SubsProofs!AsRead, SubsProofs!Activity, SubsProofs!Counted, SubsProofs!Matrix

\* The lists of the files are lists of activities, with their numbers of items.
LEMMA SubsLists == SomeSubs \subseteq SubsProofs!FileList \cup {SubsProofs!NewFile}
<1>1. SubsProofs!NewFile = NewFile
  BY DEF SubsProofs!NewFile, NewFile
<1>2. SubsProofs!Activity = SubItems /\ SubsProofs!Matrix = SubItems
  BY DEF SubsProofs!Activity, SubsProofs!Counted, SubsProofs!Matrix, SubItems
<1>3. ASSUME NEW a \in SubItems, NEW m \in 1..2
      PROVE  List(SubItems, {a}, 2, m) \in SubsProofs!FileList
  <2>1. List(SubItems, {a}, 2, m) \in
          [listed: SUBSET SubItems, nr: [SubItems -> 1..2], nr2: [SubItems -> 1..2]]
    <3>1. [b \in SubItems |-> IF b \in Fixed THEN 1 ELSE 2] \in [SubItems -> 1..2]
      OBVIOUS
    <3>2. [b \in SubItems |-> m] \in [SubItems -> 1..2]
      OBVIOUS
    <3>3. {a} \in SUBSET SubItems
      OBVIOUS
    <3> QED
      BY <3>1, <3>2, <3>3, Zenon DEF List
  <2> QED
    BY <1>2, <2>1 DEF SubsProofs!FileList
<1>4. ASSUME NEW l \in SomeSubs PROVE l = NewFile \/ l \in SubsProofs!FileList
  <2>1. l = NewFile \/ \E a \in SubItems, m \in 1..2 : l = List(SubItems, {a}, 2, m)
    BY <1>4 DEF SomeSubs
  <2> QED
    BY <1>3, <2>1
<1> QED
  BY <1>1, <1>4

\* What the theorems assume of the constants holds of that instance.
LEMMA SubsConstants == SubsProofs!ActBuffersAssumption
<1>1. SubItems \subseteq SubsProofs!Activity
  BY DEF SubsProofs!Activity, SubsProofs!Counted, SubItems
<1>2. {irq} \cap {freq} = {}
  BY ActivitiesDiffer
<1> QED
  BY <1>1, <1>2, SubsLists DEF SubsProofs!ActBuffersAssumption

\* The invariants of both instances.
ListsInvariants == TypeOK /\ Announced /\ Roomy /\ SarRoomy /\ Held
SubsInvariants ==
  /\ SubsProofs!TypeOK /\ SubsProofs!Announced
  /\ SubsProofs!Roomy /\ SubsProofs!SarRoomy /\ SubsProofs!Held
Invariants == IF of = "matrix" THEN SubsInvariants ELSE ListsInvariants

LEMMA InitInvariants == MCInit => Invariants
<1>1. SubsProofs!Init => SubsInvariants
  BY SubsConstants, SubsProofs!InitTyped, SubsProofs!InitAnnounced, SubsProofs!InitRoomy,
     SubsProofs!InitSarRoomy, SubsProofs!InitHeld DEF SubsInvariants
<1>2. Init => ListsInvariants
  BY InitTyped, InitAnnounced, InitRoomy, InitSarRoomy, InitHeld DEF ListsInvariants
<1> QED
  BY <1>1, <1>2, SameInit, Zenon DEF MCInit, Invariants

\* A step of a behaviour is a step of its instance.
LEMMA StepOfInstance ==
  ASSUME [MCNext]_<<vars, of>>
  PROVE  /\ of' = of
         /\ of = "matrix" => [SubsProofs!Next]_vars
         /\ of # "matrix" => [Next]_vars
<1>1. CASE of = "matrix" /\ Subs!Next /\ UNCHANGED of
  BY <1>1, SameNext, Zenon
<1>2. CASE of = "lists" /\ Next /\ UNCHANGED of
  BY <1>2
<1>3. CASE UNCHANGED << vars, of >>
  BY <1>3
<1> QED
  BY <1>1, <1>2, <1>3, Zenon DEF MCNext

LEMMA NextInvariants == Invariants /\ [MCNext]_<<vars, of>> => Invariants'
<1> SUFFICES ASSUME Invariants, [MCNext]_<<vars, of>> PROVE Invariants'
  OBVIOUS
<1>1. CASE of = "matrix"
  <2>1. [SubsProofs!Next]_vars /\ of' = of
    BY <1>1, StepOfInstance, Zenon
  <2>2. SubsInvariants
    BY <1>1 DEF Invariants
  <2>3. [SubsProofs!Next]_(SubsProofs!vars)
    BY <2>1 DEF vars, SubsProofs!vars
  <2>4. SubsInvariants'
    BY <2>2, <2>3, SubsConstants, SubsProofs!NextTyped, SubsProofs!NextAnnounced,
       SubsProofs!NextRoomy, SubsProofs!NextSarRoomy, SubsProofs!NextHeld DEF SubsInvariants
  <2> QED
    BY <1>1, <2>1, <2>4 DEF Invariants
<1>2. CASE of # "matrix"
  <2>1. [Next]_vars /\ of' = of
    BY <1>2, StepOfInstance, Zenon
  <2>2. ListsInvariants'
    BY <1>2, <2>1, NextTyped, NextAnnounced, NextRoomy, NextSarRoomy, NextHeld
       DEF Invariants, ListsInvariants
  <2> QED
    BY <1>2, <2>1, <2>2 DEF Invariants
<1> QED
  BY <1>1, <1>2

-----------------------------------------------------------------------------

\* sar accepts every header that sadc sends: whatever the machine has, whatever the
\* list of the file says, and after every rotation.
THEOREM MCHeaderAcceptedCorrect == MCSpec => []MCHeaderAccepted
<1>1. Invariants => MCHeaderAccepted
  <2>1. SubsInvariants => Subs!HeaderAccepted
    BY SameProperties DEF SubsInvariants, SubsProofs!Announced, SubsProofs!HeaderAccepted
  <2>2. ListsInvariants => HeaderAccepted
    BY DEF ListsInvariants, Announced, HeaderAccepted
  <2> QED
    BY <2>1, <2>2, Zenon DEF Invariants, MCHeaderAccepted
<1> QED
  BY <1>1, InitInvariants, NextInvariants, PTL DEF MCSpec

\* The loop that makes a buffer larger ends: it never starts from an empty one.
THEOREM MCReadCanGrowCorrect == MCSpec => []MCReadCanGrow
<1>1. Invariants => MCReadCanGrow
  <2>1. SubsInvariants => Subs!ReadCanGrow
    BY SameProperties DEF SubsInvariants, SubsProofs!Announced, SubsProofs!ReadCanGrow
  <2>2. ListsInvariants => ReadCanGrow
    BY DEF ListsInvariants, Announced, ReadCanGrow
  <2> QED
    BY <2>1, <2>2, Zenon DEF Invariants, MCReadCanGrow
<1> QED
  BY <1>1, InitInvariants, NextInvariants, PTL DEF MCSpec

\* What sadc reads and clears, and what sar receives, fits in the buffers, for as long
\* as sadc runs, whatever the machine has each time and whatever files it rotates to:
\* of every activity, A_IRQ included, whose buffers have been sized with its sub-items.
THEOREM MCInBoundsCorrect == MCSpec => []MCInBounds
<1>1. Invariants => MCInBounds
  <2>1. SubsInvariants => Subs!InBounds
    BY SubsConstants, SubsProofs!RoomyInBounds, SameProperties DEF SubsInvariants
  <2>2. ListsInvariants => InBounds
    BY RoomyInBounds DEF ListsInvariants
  <2> QED
    BY <2>1, <2>2, Zenon DEF Invariants, MCInBounds
<1> QED
  BY <1>1, InitInvariants, NextInvariants, PTL DEF MCSpec

\* The structures written for an activity are those that were read in the same
\* iteration, in the old file as in the new one of a rotation, whatever that file
\* lists: if they fitted when they were read, and the items counted at the rotation are
\* as many as those read, with the same sub-items.  Without sub-items these are the
\* only activities of which what is written was read.
THEOREM MCWritesWhatWasReadCorrect == MCSpec => []MCWritesWhatWasRead
<1>1. Invariants => MCWritesWhatWasRead
  <2>1. SubsInvariants => Subs!WritesWhatWasRead
    BY SubsConstants, SubsProofs!HeldWrites, SameProperties DEF SubsInvariants
  <2>2. ListsInvariants => WritesWhatWasRead
    BY HeldWrites DEF ListsInvariants
  <2> QED
    BY <2>1, <2>2, Zenon DEF Invariants, MCWritesWhatWasRead
<1> QED
  BY <1>1, InitInvariants, NextInvariants, PTL DEF MCSpec
=============================================================================
