---------------------------- MODULE MCActBuffers ----------------------------
(* Small instances of ActBuffers for TLC. *)
EXTENDS ActBuffers

CONSTANTS
  mem, disk, cpu, irq, freq,   \* activities
  Instances                    \* the instances to check: "lists", "matrix"

ASSUME ActivitiesDiffer == irq # freq

VARIABLE of   \* the instance the behaviour is of

List(A, S, n, m) ==
  [listed |-> S, nr |-> [a \in A |-> IF a \in Fixed THEN 1 ELSE n], nr2 |-> [a \in A |-> m]]

\* Files that list some of the activities, with few or many items.
SomeLists ==
  {NewFile} \cup { List(Activity, S, n, 1) : S \in {{mem, disk}, {mem, cpu}, {disk, cpu}}, n \in 1..MaxItems }

\* CPUs x interrupts and CPUs x frequencies, and files that list one of them.
SubItems == {irq, freq}
SomeSubs == {NewFile} \cup { List(SubItems, {a}, 2, m) : a \in SubItems, m \in 1..2 }
Subs == INSTANCE ActBuffers WITH
          Fixed <- {}, Listed <- {}, Always <- {}, Irq <- {irq}, Freq <- {freq}, Selected <- SubItems,
          FirstFiles <- SomeSubs, NextFiles <- SomeSubs, MaxItems <- 2, MaxSubs <- 2

MCInit ==
  /\ of \in Instances
  /\ IF of = "matrix" THEN Subs!Init ELSE Init

MCNext ==
  \/ of = "matrix" /\ Subs!Next /\ UNCHANGED of
  \/ of = "lists" /\ Next /\ UNCHANGED of

MCSpec == MCInit /\ [][MCNext]_<<vars, of>>

(* The properties of ActBuffers, in both instances. *)

\* What is written is what was read.
MCWritesWhatWasRead == IF of = "matrix" THEN Subs!WritesWhatWasRead ELSE WritesWhatWasRead

\* What is read, cleared or received fits in its buffer.
MCInBounds == IF of = "matrix" THEN Subs!InBounds ELSE InBounds

\* A buffer that is too small can be doubled.
MCReadCanGrow == IF of = "matrix" THEN Subs!ReadCanGrow ELSE ReadCanGrow

\* sar accepts the header it is sent.
MCHeaderAccepted == IF of = "matrix" THEN Subs!HeaderAccepted ELSE HeaderAccepted
=============================================================================
