-------------------------- MODULE ActBuffersProofs --------------------------
(***************************************************************************)
(* Proofs about the buffers of the activities: that sar accepts every      *)
(* header, that a buffer that is too small can be made larger, that        *)
(* everything fits where it is put, and that what is written is what was   *)
(* read, for any activities, any number of items and sub-items and any     *)
(* lists of the files that sadc is started on and rotates to.              *)
(***************************************************************************)
EXTENDS ActBuffers, SumTheorems

-----------------------------------------------------------------------------
(* The inductive invariants.                                                *)

\* Activities collected have items, sub-items and buffers.
Announced ==
  /\ phase # "init" => \A a \in Always : nr_ini[a] >= 0
  /\ phase \in {"open", "open again", "header", "header again"} => \A a \in collected : nr_ini[a] > 0
  /\ phase # "init" => \A a \in collected : nr_allocated[a] > 0 /\ nr2[a] > 0

\* The buffer has room for the structures of the items allocated.
Room(a) == nr_allocated[a] * nr2[a] <= cells[a]

\* sadc: only buffers of matrices may be of another size than their items and
\* sub-items.
Roomy ==
  /\ \A a \in Fixed : nr0[a] = 1
  /\ \A a \in Activity \ Matrix : nr2[a] = 1
  /\ misfit \subseteq Matrix
  /\ \A a \in Activity \ misfit : Room(a)
  /\ phase = "stdout" => \A a \in collected : nr0[a] <= nr_allocated[a]

\* sar has buffers of what is collected once it has read the header.
SarRoomy ==
  /\ \A a \in Activity \ smisfit : snr_allocated[a] * snr2[a] <= scells[a]
  /\ phase \in {"reset", "read", "stdout", "file", "file again"} =>
       \A a \in collected : snr_allocated[a] > 0
  /\ phase = "file" => \A a \in collected : snr[a] <= snr_allocated[a]

\* Before the list of a new file may change the sub-items.
SameSubs == phase \notin {"header again", "file again"}

\* What is known of one activity from its reading to the last writing of it.
HeldOf(a) ==
  /\ held[a] <= cells[a]
  /\ a \notin Matrix => was[a] \in {0, 1}
  /\ phase \in {"init", "read"} => was[a] = 0
  /\ phase \in Holding /\ a \in lost /\ a \notin Matrix => held[a] < nr0[a]
  /\ phase \in Holding /\ a \notin lost /\ was[a] # 0 =>
       /\ nr0[a] <= nr_allocated[a]
       /\ SameSubs \/ nr2[a] = was[a] => held[a] = nr0[a] * was[a]
  /\ phase \in {"stdout", "file", "init again"} =>
       /\ was[a] # 0 => was[a] = nr2[a]
       /\ a \in collected => was[a] # 0

Held == \A a \in Activity : HeldOf(a)

-----------------------------------------------------------------------------
(* Doubling.  The library's induction theorems take an operator, so the        *)
(* induction here is over the members of a set.                             *)

\* What the loop of Doubled says of the function it looks up.
Doubles(h, m) == h = [j \in Nat |-> IF j >= m THEN j ELSE h[2 * j]]

\* There is such a function.
LEMMA DoublesExists ==
  ASSUME NEW m \in Nat
  PROVE  \E h : Doubles(h, m)
<1> DEFINE Upto(g, d) == \A j \in Nat : j # 0 /\ j + d >= m => g[j] = IF j >= m THEN j ELSE g[2 * j]
           S == { d \in Nat : \E g \in [Nat -> Nat] : Upto(g, d) }
<1>1. 0 \in S
  <2>1. Upto([j \in Nat |-> j], 0) /\ [j \in Nat |-> j] \in [Nat -> Nat]
    OBVIOUS
  <2> QED
    BY <2>1
<1>2. ASSUME NEW d \in Nat, d \in S PROVE d + 1 \in S
  <2>1. PICK g \in [Nat -> Nat] : Upto(g, d)
    BY <1>2
  <2> DEFINE f == [j \in Nat |-> IF j >= m THEN j ELSE g[2 * j]]
  <2>2. f \in [Nat -> Nat]
    OBVIOUS
  <2>3. ASSUME NEW j \in Nat, j # 0, j + (d + 1) >= m, j < m PROVE f[j] = f[2 * j]
    <3>1. 2 * j \in Nat /\ 2 * j # 0 /\ 2 * j + d >= m
      BY <2>3
    <3>2. f[2 * j] = g[2 * j]
      BY <2>1, <3>1
    <3> QED
      BY <2>3, <3>2
  <2>4. ASSUME NEW j \in Nat, j >= m PROVE f[j] = j
    BY <2>4
  <2> HIDE DEF f
  <2>5. Upto(f, d + 1)
    BY <2>3, <2>4
  <2> QED
    BY <2>2, <2>5
<1>3. m \in S
  <2> HIDE DEF S
  <2> QED
    BY <1>1, <1>2, EveryNumber
<1>4. PICK g \in [Nat -> Nat] : Upto(g, m)
  BY <1>3
<1> DEFINE h == [g EXCEPT ![0] = 0]
<1>5. ASSUME NEW j \in Nat PROVE h[j] = IF j >= m THEN j ELSE h[2 * j]
  <2>1. CASE j = 0
    BY <2>1
  <2>2. CASE j # 0
    <3>1. 2 * j \in Nat /\ 2 * j # 0 /\ h[2 * j] = g[2 * j] /\ h[j] = g[j]
      BY <2>2
    <3>2. g[j] = IF j >= m THEN j ELSE g[2 * j]
      BY <1>4, <2>2
    <3> QED
      BY <3>1, <3>2
  <2> QED
    BY <2>1, <2>2
<1>6. h \in [Nat -> Nat]
  OBVIOUS
<1> HIDE DEF h
<1>7. Doubles(h, m)
  BY <1>5, <1>6 DEF Doubles
<1> QED
  BY <1>7

\* The result of doubling k until it is at least m: k itself when it is large
\* enough, and never twice m.
LEMMA DoubledBounds ==
  ASSUME NEW k \in Nat, NEW m \in Nat
  PROVE  /\ Doubled(k, m) \in Nat /\ Doubled(k, m) >= m /\ Doubled(k, m) >= k
         /\ Doubled(k, m) = k \/ Doubled(k, m) <= 2 * m
<1>1. CASE k = 0
  BY <1>1 DEF Doubled
<1>2. CASE k # 0
  <2> DEFINE twice == CHOOSE h : h = [j \in Nat |-> IF j >= m THEN j ELSE h[2 * j]]
  <2>1. Doubled(k, m) = twice[k]
    BY <1>2, Zenon DEF Doubled
  <2>2. Doubles(CHOOSE h : Doubles(h, m), m)
    BY DoublesExists
  <2>3. twice = [j \in Nat |-> IF j >= m THEN j ELSE twice[2 * j]]
    BY <2>2 DEF Doubles
  <2> HIDE DEF twice
  <2> DEFINE Fine(j) == /\ twice[j] \in Nat /\ twice[j] >= m /\ twice[j] >= j
                        /\ twice[j] = j \/ twice[j] <= 2 * m
             S == { d \in Nat : \A j \in Nat : j # 0 /\ j + d >= m => Fine(j) }
  <2>4. 0 \in S
    BY <2>3
  <2>5. ASSUME NEW d \in Nat, d \in S PROVE d + 1 \in S
    <3> SUFFICES ASSUME NEW j \in Nat, j # 0, j + (d + 1) >= m PROVE Fine(j)
      OBVIOUS
    <3>1. CASE j >= m
      BY <2>3, <3>1
    <3>2. CASE ~(j >= m)
      <4>1. 2 * j \in Nat /\ 2 * j # 0 /\ 2 * j + d >= m
        BY <3>2
      <4>2. Fine(2 * j)
        BY <2>5, <4>1
      <4>3. twice[j] = twice[2 * j]
        BY <2>3, <3>2
      <4> QED
        BY <3>2, <4>2, <4>3
    <3> QED
      BY <3>1, <3>2
  <2>6. m \in S
    <3> HIDE DEF S
    <3> QED
      BY <2>4, <2>5, EveryNumber
  <2>7. Fine(k)
    BY <1>2, <2>6
  <2> QED
    BY <2>1, <2>7
<1> QED
  BY <1>1, <1>2

-----------------------------------------------------------------------------
(* Counts and products of them.                                             *)

LEMMA Products ==
  ASSUME NEW x \in Nat, NEW y \in Nat
  PROVE  x * y \in Nat /\ (x > 0 => y <= x * y)
<1>1. CASE x = 0
  BY <1>1
<1>2. CASE x > 0
  <2>1. PICK z \in Nat : x = z + 1
    <3>1. x - 1 \in Nat /\ x = (x - 1) + 1
      BY <1>2
    <3> QED
      BY <3>1
  <2>2. (z + 1) * y = z * y + y /\ z * y \in Nat
    OBVIOUS
  <2> QED
    BY <2>1, <2>2
<1> QED
  BY <1>1, <1>2

LEMMA ProductGrows ==
  ASSUME NEW x \in Int, NEW y \in Int, NEW z \in Nat, x <= y
  PROVE  x * z <= y * z
<1>1. PICK d \in Nat : y = x + d
  <2>1. y - x \in Nat /\ y = x + (y - x)
    OBVIOUS
  <2> QED
    BY <2>1
<1>2. (x + d) * z = x * z + d * z /\ d * z \in Nat /\ x * z \in Int
  OBVIOUS
<1> QED
  BY <1>1, <1>2

LEMMA Bounds == MaxItems \in Nat /\ MaxItems >= 1 /\ MaxSubs \in Nat /\ MaxSubs >= 1
BY ActBuffersAssumption

LEMMA TypeParts ==
  ASSUME TypeOK, NEW a \in Activity
  PROVE  /\ nr_ini[a] \in Counts /\ nr2[a] \in 0..MaxSubs /\ nr_allocated[a] \in Sizes
         /\ nr0[a] \in Counts /\ cells[a] \in Nat /\ held[a] \in Int /\ was[a] \in 0..MaxSubs
         /\ snr_ini[a] \in Counts /\ snr2[a] \in 0..MaxSubs
         /\ snr_allocated[a] \in Sizes /\ scells[a] \in Nat /\ snr[a] \in Counts
BY DEF TypeOK

LEMMA NumberParts ==
  ASSUME TypeOK, NEW a \in Activity
  PROVE  /\ nr_ini[a] \in Int /\ nr2[a] \in Nat /\ cells[a] \in Nat
         /\ nr_allocated[a] \in Nat /\ nr0[a] \in Int /\ snr_ini[a] \in Int /\ snr2[a] \in Nat
         /\ snr_allocated[a] \in Nat /\ snr[a] \in Int /\ held[a] \in Int /\ was[a] \in Nat
         /\ scells[a] \in Nat
BY TypeParts, Bounds DEF Counts, Sizes

LEMMA Kinds ==
  ASSUME NEW a \in Activity
  PROVE  /\ a \in Matrix => a \in Counted /\ a \notin Always /\ a \notin Fixed /\ a \notin Listed
         /\ a \notin Matrix /\ a \notin Fixed => a \in Listed
         /\ a \notin Matrix /\ a \in Listed => a \in Counted
         /\ a \in Fixed => a \notin Counted
         /\ a \in Counted => a \notin Fixed
BY ActBuffersAssumption DEF Activity, Counted, Matrix

\* What the machine has.
LEMMA MachineParts ==
  ASSUME NEW m \in Machine
  PROVE  /\ m.items \in Items
         /\ \A a \in Matrix : m.subs[a] \in 0..MaxSubs
BY DEF Machine

LEMMA ItemsParts ==
  ASSUME NEW i \in Items
  PROVE  \A a \in Counted : i[a] \in 0..MaxItems /\ i[a] \in Nat /\ i[a] <= MaxItems
BY Bounds DEF Items

\* sa_sys_init() counts sub-items when there are items, and takes an activity with
\* no sub-items for one with no items.
LEMMA Counting ==
  ASSUME TypeOK, NEW m \in Machine, NEW a \in Activity
  PROVE  /\ Found(a, m) \in Counts /\ CountNr(a, m) \in Counts /\ CountNr2(a, m) \in 0..MaxSubs
         /\ CountNr(a, m) > 0 => CountNr(a, m) = Found(a, m) /\ CountNr2(a, m) > 0
         /\ CountNr(a, m) > 0 => CountNr(a, m) \in 1..MaxItems
         /\ CountNr(a, m) > 0 => CountNr(a, m) * CountNr2(a, m) \in Nat
         /\ a \notin Matrix => CountNr2(a, m) = nr2[a]
<1>0. a \in Counted => m.items[a] \in 0..MaxItems
  BY MachineParts, ItemsParts
<1>1. Found(a, m) \in Counts
  BY <1>0, TypeParts, Bounds DEF Found, Counts
<1>2. CountNr2(a, m) \in 0..MaxSubs /\ (a \notin Matrix => CountNr2(a, m) = nr2[a])
  BY MachineParts, TypeParts DEF CountNr2
<1>3. /\ CountNr(a, m) \in Counts
      /\ CountNr(a, m) > 0 => CountNr(a, m) = Found(a, m) /\ CountNr2(a, m) > 0
  BY <1>1, <1>2, Bounds DEF CountNr, Counts
<1>4. CountNr(a, m) > 0 => CountNr(a, m) \in 1..MaxItems
  BY <1>3, Bounds DEF Counts
<1>5. CountNr(a, m) > 0 => CountNr(a, m) * CountNr2(a, m) \in Nat
  BY <1>2, <1>4, Bounds, Products
<1> QED
  BY <1>1, <1>2, <1>3, <1>4, <1>5

\* read_stats() leaves room for the items there are, and one CPU more than there
\* is for the frequencies.
LEMMA ReallocatedBounds ==
  ASSUME TypeOK, NEW a \in Activity, NEW n \in 0..MaxItems
  PROVE  /\ Reallocated(a, n) \in Sizes /\ Reallocated(a, n) >= n
         /\ Reallocated(a, n) >= nr_allocated[a]
         /\ Reallocated(a, n) \in Nat /\ RoomAfter(a, n) \in Nat
<1>1. Needed(a, n) \in 0..(MaxItems + 1) /\ Needed(a, n) >= n
  BY Bounds DEF Needed
<1>2. nr_allocated[a] \in Nat /\ nr_allocated[a] <= 2 * (MaxItems + 1) /\ Needed(a, n) \in Nat
  BY <1>1, TypeParts, Bounds DEF Sizes
<1>3. /\ Reallocated(a, n) \in Nat /\ Reallocated(a, n) >= Needed(a, n)
      /\ Reallocated(a, n) >= nr_allocated[a]
      /\ Reallocated(a, n) = nr_allocated[a] \/ Reallocated(a, n) <= 2 * Needed(a, n)
  BY <1>2, DoubledBounds DEF Reallocated
<1>4. Reallocated(a, n) \in Sizes /\ Reallocated(a, n) >= n
  BY <1>1, <1>2, <1>3, Bounds DEF Sizes
<1>5. nr2[a] * Reallocated(a, n) \in Nat
  BY <1>3, NumberParts, Products
<1> QED
  BY <1>3, <1>4, <1>5, TypeParts DEF RoomAfter

\* So does sar.
LEMMA MoreBuffersBounds ==
  ASSUME TypeOK, NEW a \in Activity, NEW n \in Counts
  PROVE  /\ MoreBuffers(a, n) \in Sizes /\ MoreBuffers(a, n) >= n
         /\ MoreBuffers(a, n) >= snr_allocated[a]
<1>1. snr_allocated[a] \in Nat /\ snr_allocated[a] <= 2 * (MaxItems + 1)
  BY TypeParts, Bounds DEF Sizes
<1>2. CASE n <= snr_allocated[a]
  BY <1>1, <1>2, Bounds DEF MoreBuffers, Sizes, Counts
<1>3. CASE n > snr_allocated[a]
  <2>1. n \in Nat /\ n <= MaxItems
    BY <1>1, <1>3, Bounds DEF Counts
  <2>2. CASE snr_allocated[a] = 0
    BY <1>3, <2>1, <2>2, Bounds DEF MoreBuffers, Sizes
  <2>3. CASE snr_allocated[a] # 0
    <3>1. MoreBuffers(a, n) = Doubled(2 * snr_allocated[a], n)
      BY <1>1, <1>3, <2>1, <2>3 DEF MoreBuffers
    <3>2. PICK k \in Nat : k = 2 * snr_allocated[a]
      BY <1>1
    <3>3. /\ Doubled(k, n) \in Nat /\ Doubled(k, n) >= n /\ Doubled(k, n) >= k
          /\ Doubled(k, n) = k \/ Doubled(k, n) <= 2 * n
      BY <2>1, DoubledBounds
    <3>4. Doubled(k, n) <= 2 * n
      BY <1>1, <1>3, <2>1, <3>2, <3>3
    <3> QED
      BY <1>1, <2>1, <3>1, <3>2, <3>3, <3>4, Bounds DEF Sizes
  <2> QED
    BY <2>2, <2>3
<1> QED
  BY <1>1, <1>2, <1>3, Bounds DEF Counts

-----------------------------------------------------------------------------
(* Types.                                                                   *)

LEMMA InitTyped == Init => TypeOK
<1> SUFFICES ASSUME Init PROVE TypeOK
  OBVIOUS
<1>1. /\ 0 \in 0..MaxSubs /\ 1 \in 0..MaxSubs /\ 1 \in Counts /\ -1 \in Counts /\ 0 \in Sizes
      /\ 0 \in Nat
  BY Bounds DEF Counts, Sizes
<1> QED
  BY <1>1, ActBuffersAssumption DEF Init, TypeOK, Phases

\* A file that can be appended to.
LEMMA Listing ==
  ASSUME NEW f \in FirstFiles \cup NextFiles, f # NewFile
  PROVE  /\ f.listed \subseteq Activity
         /\ \A a \in Activity : f.nr[a] \in 1..MaxItems /\ f.nr2[a] \in 1..MaxSubs
         /\ \A a \in Activity \ Matrix : f.nr2[a] = 1
<1>1. f \in FileList
  BY ActBuffersAssumption
<1> QED
  BY <1>1, Zenon DEF FileList

\* The numbers of items that open_ofile() takes.
LEMMA FileNrTyped ==
  ASSUME TypeOK, NEW f \in FirstFiles \cup NextFiles, f # NewFile, NEW a \in Activity
  PROVE  FileNr(a, f) \in Counts
BY Listing, TypeParts, Bounds DEF FileNr, Counts

\* sa_sys_init(), for one activity.
SysInitAt(m, a) ==
  /\ nr_ini'[a] = CountNr(a, m) /\ nr2'[a] = CountNr2(a, m)
  /\ held'[a] = Kept(held[a], cells'[a])
  /\ a \in collected' <=> a \in collected /\ CountNr(a, m) > 0
  /\ a \in collected' =>
       /\ cells'[a] = CountNr(a, m) * CountNr2(a, m) /\ nr_allocated'[a] = CountNr(a, m)
       /\ a \in lost' <=> a \in lost \/ CountNr(a, m) < nr0[a] \/ CountNr2(a, m) # nr2[a]
       /\ a \notin misfit'
  /\ a \notin collected' =>
       /\ cells'[a] = cells[a] /\ nr_allocated'[a] = nr_allocated[a]
       /\ a \in lost' <=> a \in lost
       /\ a \in misfit' <=> a \in misfit \/ (CountNr2(a, m) > nr2[a] /\ nr_allocated[a] > 0)

LEMMA SysInitStep ==
  ASSUME TypeOK, SysInit
  PROVE  \E m \in Machine :
           /\ phase \in {"init", "init again"}
           /\ phase' = IF phase = "init" THEN "open" ELSE "open again"
           /\ UNCHANGED << nr0, was, sar >> /\ collected' \subseteq collected
           /\ lost \subseteq lost' /\ (misfit' \subseteq Activity) /\ (lost' \subseteq Activity)
           /\ DOMAIN nr_ini' = Activity /\ nr_ini' = [a \in Activity |-> nr_ini'[a]]
           /\ nr2' = [a \in Activity |-> nr2'[a]] /\ cells' = [a \in Activity |-> cells'[a]]
           /\ nr_allocated' = [a \in Activity |-> nr_allocated'[a]]
           /\ held' = [a \in Activity |-> held'[a]]
           /\ \A a \in Activity : SysInitAt(m, a)
<1>1. PICK m \in Machine : Count(m)
  BY Zenon DEF SysInit
<1>2. /\ phase \in {"init", "init again"} /\ phase' = IF phase = "init" THEN "open" ELSE "open again"
      /\ UNCHANGED << nr0, was, sar >>
  BY Zenon DEF SysInit
<1> DEFINE sized == { b \in collected : CountNr(b, m) > 0 }
<1>3. /\ nr_ini' = [b \in Activity |-> CountNr(b, m)] /\ nr2' = [b \in Activity |-> CountNr2(b, m)]
      /\ collected' = sized
      /\ cells' = [b \in Activity |-> IF b \in sized THEN CountNr(b, m) * CountNr2(b, m) ELSE cells[b]]
      /\ held' = [b \in Activity |-> Kept(held[b], cells'[b])]
      /\ nr_allocated' = [b \in Activity |-> IF b \in sized THEN CountNr(b, m) ELSE nr_allocated[b]]
      /\ lost' = lost \cup { b \in sized : CountNr(b, m) < nr0[b] \/ CountNr2(b, m) # nr2[b] }
      /\ misfit' = (misfit \ sized) \cup
                     { b \in Activity \ sized : CountNr2(b, m) > nr2[b] /\ nr_allocated[b] > 0 }
  BY <1>1, Zenon DEF Count, SizedAgain
<1>4. \A a : a \in sized <=> a \in collected /\ CountNr(a, m) > 0
  OBVIOUS
<1>5. collected \subseteq Activity /\ lost \subseteq Activity /\ misfit \subseteq Activity
  BY DEF TypeOK
<1> HIDE DEF sized
<1>6. ASSUME NEW a \in Activity PROVE SysInitAt(m, a)
  BY <1>3, <1>4 DEF SysInitAt
<1>7. /\ collected' \subseteq collected /\ lost \subseteq lost' /\ misfit' \subseteq Activity
      /\ lost' \subseteq Activity
  BY <1>3, <1>4, <1>5
<1>8. /\ DOMAIN nr_ini' = Activity /\ nr_ini' = [a \in Activity |-> nr_ini'[a]]
      /\ nr2' = [a \in Activity |-> nr2'[a]] /\ cells' = [a \in Activity |-> cells'[a]]
      /\ nr_allocated' = [a \in Activity |-> nr_allocated'[a]] /\ held' = [a \in Activity |-> held'[a]]
  BY <1>3
<1> QED
  BY <1>2, <1>6, <1>7, <1>8

LEMMA SysInitTyped == TypeOK /\ SysInit => TypeOK'
<1> SUFFICES ASSUME TypeOK, SysInit PROVE TypeOK'
  OBVIOUS
<1>1. PICK m \in Machine :
           /\ phase' = IF phase = "init" THEN "open" ELSE "open again"
           /\ UNCHANGED << nr0, was, sar >> /\ collected' \subseteq collected
           /\ (misfit' \subseteq Activity) /\ (lost' \subseteq Activity)
           /\ nr_ini' = [a \in Activity |-> nr_ini'[a]]
           /\ nr2' = [a \in Activity |-> nr2'[a]] /\ cells' = [a \in Activity |-> cells'[a]]
           /\ nr_allocated' = [a \in Activity |-> nr_allocated'[a]]
           /\ held' = [a \in Activity |-> held'[a]]
           /\ \A a \in Activity : SysInitAt(m, a)
  BY SysInitStep
<1>2. ASSUME NEW a \in Activity
      PROVE  /\ nr_ini'[a] \in Counts /\ nr2'[a] \in 0..MaxSubs /\ cells'[a] \in Nat
             /\ nr_allocated'[a] \in Sizes
  <2>1. CountNr(a, m) > 0 => CountNr(a, m) \in Sizes
    BY Counting, Bounds DEF Sizes
  <2>2. SysInitAt(m, a)
    BY <1>1
  <2>3. /\ CountNr(a, m) \in Counts /\ CountNr2(a, m) \in 0..MaxSubs
        /\ CountNr(a, m) > 0 => CountNr(a, m) * CountNr2(a, m) \in Nat
    BY Counting
  <2> QED
    BY <2>1, <2>2, <2>3, TypeParts DEF SysInitAt
<1>3. ASSUME NEW a \in Activity PROVE held'[a] \in Int
  <2>1. cells'[a] \in Int /\ held[a] \in Int
    BY <1>2, NumberParts, TypeParts
  <2>2. Kept(held[a], cells'[a]) \in Int
    BY <2>1 DEF Kept, Lesser
  <2> QED
    BY <1>1, <2>2 DEF SysInitAt
<1>4. phase' \in Phases /\ collected' \subseteq Activity
  BY <1>1 DEF Phases, TypeOK
<1>5. /\ nr_ini' \in [Activity -> Counts] /\ nr2' \in [Activity -> 0..MaxSubs]
      /\ cells' \in [Activity -> Nat] /\ nr_allocated' \in [Activity -> Sizes]
      /\ held' \in [Activity -> Int]
  BY <1>1, <1>2, <1>3
<1> QED
  BY <1>1, <1>4, <1>5 DEF TypeOK, sar

\* open_ofile() on a file that can be appended to, for one activity.
AdoptAt(f, a) ==
  /\ held'[a] = Kept(held[a], cells'[a])
  /\ a \in f.listed =>
       /\ nr_ini'[a] = FileNr(a, f) /\ nr2'[a] = f.nr2[a]
       /\ nr_allocated'[a] = Larger(nr_ini'[a], nr_allocated[a])
       /\ nr_allocated'[a] >= nr_allocated[a]
       /\ cells'[a] = nr_allocated'[a] * nr2'[a]
  /\ a \notin f.listed =>
       /\ nr_ini'[a] = nr_ini[a] /\ nr2'[a] = nr2[a]
       /\ nr_allocated'[a] = nr_allocated[a] /\ cells'[a] = cells[a]

LEMMA AdoptStep ==
  ASSUME TypeOK, NEW f \in FirstFiles \cup NextFiles, f # NewFile, Adopt(f)
  PROVE  /\ collected' = f.listed /\ lost' = lost /\ misfit' = misfit \ f.listed
         /\ nr_ini' \in [Activity -> Counts] /\ nr2' \in [Activity -> 0..MaxSubs]
         /\ nr_allocated' \in [Activity -> Sizes] /\ cells' \in [Activity -> Nat]
         /\ held' \in [Activity -> Int]
         /\ \A a \in Activity : AdoptAt(f, a)
<1>1. /\ collected' = f.listed /\ misfit' = misfit \ f.listed /\ lost' = lost
      /\ nr_ini' = [a \in Activity |-> IF a \in f.listed THEN FileNr(a, f) ELSE nr_ini[a]]
      /\ nr2' = [a \in Activity |-> IF a \in f.listed THEN f.nr2[a] ELSE nr2[a]]
      /\ nr_allocated' = [a \in Activity |->
           IF a \in f.listed THEN Larger(nr_ini'[a], nr_allocated[a]) ELSE nr_allocated[a]]
      /\ cells' = [a \in Activity |-> IF a \in f.listed THEN nr_allocated'[a] * nr2'[a] ELSE cells[a]]
      /\ held' = [a \in Activity |-> Kept(held[a], cells'[a])]
  BY Zenon DEF Adopt
<1>2. nr_ini' \in [Activity -> Counts]
  BY <1>1, FileNrTyped, TypeParts
<1>3. nr2' \in [Activity -> 0..MaxSubs]
  BY <1>1, Listing, TypeParts, Bounds
<1>4. \A a \in Activity : /\ Larger(nr_ini'[a], nr_allocated[a]) \in Sizes
                          /\ Larger(nr_ini'[a], nr_allocated[a]) >= nr_allocated[a]
  BY <1>2, TypeParts, Bounds DEF Larger, Counts, Sizes
<1>5. nr_allocated' \in [Activity -> Sizes]
  BY <1>1, <1>4, TypeParts
<1>6. cells' \in [Activity -> Nat]
  <2>1. ASSUME NEW a \in Activity PROVE nr_allocated'[a] * nr2'[a] \in Nat
    <3>1. nr_allocated'[a] \in Nat /\ nr2'[a] \in Nat
      BY <1>3, <1>5, Bounds DEF Sizes
    <3> QED
      BY <3>1, Products
  <2> QED
    BY <1>1, <2>1, TypeParts
<1>7. held' \in [Activity -> Int]
  <2>1. ASSUME NEW a \in Activity PROVE Kept(held[a], cells'[a]) \in Int
    <3>1. cells'[a] \in Int /\ held[a] \in Int
      BY <1>6, NumberParts
    <3> QED
      BY <3>1 DEF Kept, Lesser
  <2> QED
    BY <1>1, <2>1
<1>8. ASSUME NEW a \in Activity PROVE AdoptAt(f, a)
  BY <1>1, <1>4 DEF AdoptAt
<1> QED
  BY <1>1, <1>2, <1>3, <1>5, <1>6, <1>7, <1>8

\* open_ofile() leaves everything as it is, or adopts the list of a file.
LEMMA OpenFileCases ==
  ASSUME OpenFile
  PROVE  /\ phase \in {"open", "open again"}
         /\ phase' = (IF phase = "open" THEN "header" ELSE "header again")
         /\ UNCHANGED sar
         /\ \/ UNCHANGED sadc
            \/ /\ UNCHANGED << nr0, was >>
               /\ \E f \in FirstFiles \cup NextFiles : f # NewFile /\ Adopt(f)
<1>1. PICK f \in FirstFiles \cup NextFiles :
        IF f = NewFile THEN UNCHANGED sadc ELSE Adopt(f) /\ UNCHANGED << nr0, was >>
  BY Zenon DEF OpenFile
<1>2. /\ phase \in {"open", "open again"}
      /\ phase' = (IF phase = "open" THEN "header" ELSE "header again")
      /\ UNCHANGED sar
  BY DEF OpenFile
<1>3. CASE f = NewFile
  BY <1>1, <1>2, <1>3
<1>4. CASE f # NewFile
  BY <1>1, <1>2, <1>4
<1> QED
  BY <1>3, <1>4

LEMMA OpenFileTyped == TypeOK /\ OpenFile => TypeOK'
<1> SUFFICES ASSUME TypeOK, OpenFile PROVE TypeOK'
  OBVIOUS
<1>1. UNCHANGED sar /\ phase' \in Phases
  BY OpenFileCases DEF Phases
<1>2. CASE UNCHANGED sadc
  BY <1>1, <1>2 DEF TypeOK, sar, sadc
<1>3. ASSUME NEW f \in FirstFiles \cup NextFiles, f # NewFile, Adopt(f), UNCHANGED << nr0, was >>
      PROVE  TypeOK'
  <2>1. /\ collected' \subseteq Activity /\ lost' = lost /\ misfit' \subseteq misfit
        /\ nr_ini' \in [Activity -> Counts] /\ nr2' \in [Activity -> 0..MaxSubs]
        /\ nr_allocated' \in [Activity -> Sizes] /\ cells' \in [Activity -> Nat]
        /\ held' \in [Activity -> Int]
    BY <1>3, AdoptStep, Listing
  <2> QED
    BY <1>1, <1>3, <2>1 DEF TypeOK, sar
<1> QED
  BY <1>2, <1>3, OpenFileCases

LEMMA ResetStatsTyped == TypeOK /\ ResetStats => TypeOK'
<1>1. 0 \in Int /\ 0 \in 0..MaxSubs
  BY Bounds
<1> QED
  BY <1>1 DEF TypeOK, ResetStats, Phases, sar

\* read_stats(), for one activity.
ReadAt(items, a) ==
  /\ a \in collected \cap Counted =>
       /\ nr0'[a] = items[a] /\ nr_allocated'[a] = Reallocated(a, items[a])
       /\ cells'[a] = RoomAfter(a, items[a]) /\ items[a] \in 0..MaxItems
       /\ a \in misfit' <=> \/ a \in misfit
                            \/ a \notin Freq /\ Reallocated(a, items[a]) # nr_allocated[a] /\ nr2[a] > 1
  /\ a \notin collected \cap Counted =>
       /\ nr0'[a] = nr0[a] /\ nr_allocated'[a] = nr_allocated[a]
       /\ cells'[a] = cells[a] /\ (a \in misfit' <=> a \in misfit)
  /\ a \in collected => held'[a] = Lesser(nr0'[a] * nr2[a], cells'[a]) /\ was'[a] = nr2[a]
  /\ a \notin collected => held'[a] = held[a] /\ was'[a] = was[a]

LEMMA ReadStep ==
  ASSUME TypeOK, ReadStats
  PROVE  /\ phase = "read" /\ phase' = "stdout" /\ UNCHANGED << collected, nr_ini, nr2, sar >>
         /\ misfit \subseteq misfit' /\ lost' = misfit' \cap collected
         /\ \E items \in Items :
              /\ nr0' = [a \in Activity |-> nr0'[a]] /\ cells' = [a \in Activity |-> cells'[a]]
              /\ nr_allocated' = [a \in Activity |-> nr_allocated'[a]]
              /\ held' = [a \in Activity |-> held'[a]] /\ was' = [a \in Activity |-> was'[a]]
              /\ \A a \in Activity : ReadAt(items, a)
              /\ misfit' \subseteq misfit \cup Counted
<1>1. PICK items \in Items : Read(items)
  BY Zenon DEF ReadStats
<1>2. phase = "read" /\ phase' = "stdout" /\ UNCHANGED << collected, nr_ini, nr2, sar >>
  BY Zenon DEF ReadStats
<1> DEFINE counted == collected \cap Counted
<1>3. /\ nr0' = [a \in Activity |-> IF a \in counted THEN items[a] ELSE nr0[a]]
      /\ nr_allocated' = [a \in Activity |->
           IF a \in counted THEN Reallocated(a, items[a]) ELSE nr_allocated[a]]
      /\ cells' = [a \in Activity |-> IF a \in counted THEN RoomAfter(a, items[a]) ELSE cells[a]]
      /\ held' = [a \in Activity |->
           IF a \in collected THEN Lesser(nr0'[a] * nr2[a], cells'[a]) ELSE held[a]]
      /\ was' = [a \in Activity |-> IF a \in collected THEN nr2[a] ELSE was[a]]
      /\ misfit' = misfit \cup
           { a \in counted \ Freq : Reallocated(a, items[a]) # nr_allocated[a] /\ nr2[a] > 1 }
      /\ lost' = misfit' \cap collected
  BY <1>1, Zenon DEF Read
<1>4. ASSUME NEW a \in Activity PROVE ReadAt(items, a)
  BY <1>3, ItemsParts DEF ReadAt
<1>5. /\ nr0' = [a \in Activity |-> nr0'[a]] /\ cells' = [a \in Activity |-> cells'[a]]
      /\ nr_allocated' = [a \in Activity |-> nr_allocated'[a]]
      /\ held' = [a \in Activity |-> held'[a]] /\ was' = [a \in Activity |-> was'[a]]
  BY <1>3
<1>6. misfit \subseteq misfit' /\ misfit' \subseteq misfit \cup Counted
  BY <1>3
<1> QED
  BY <1>2, <1>3, <1>4, <1>5, <1>6

LEMMA ReadStatsTyped == TypeOK /\ ReadStats => TypeOK'
<1> SUFFICES ASSUME TypeOK, ReadStats PROVE TypeOK'
  OBVIOUS
<1>1. PICK items \in Items :
              /\ nr0' = [a \in Activity |-> nr0'[a]] /\ cells' = [a \in Activity |-> cells'[a]]
              /\ nr_allocated' = [a \in Activity |-> nr_allocated'[a]]
              /\ held' = [a \in Activity |-> held'[a]] /\ was' = [a \in Activity |-> was'[a]]
              /\ \A a \in Activity : ReadAt(items, a)
              /\ misfit' \subseteq misfit \cup Counted
  BY ReadStep
<1>2. ASSUME NEW a \in Activity
      PROVE  /\ nr0'[a] \in Counts /\ nr_allocated'[a] \in Sizes /\ cells'[a] \in Nat
             /\ held'[a] \in Int /\ was'[a] \in 0..MaxSubs
  <2>1. nr0'[a] \in Counts /\ nr_allocated'[a] \in Sizes /\ cells'[a] \in Nat
    BY <1>1, ReallocatedBounds, TypeParts, Bounds DEF Counts, ReadAt
  <2>2. nr2[a] \in 0..MaxSubs /\ nr2[a] \in Int /\ nr0'[a] \in Int
    BY <2>1, TypeParts, Bounds DEF Counts
  <2>3. Lesser(nr0'[a] * nr2[a], cells'[a]) \in Int
    BY <2>1, <2>2 DEF Lesser
  <2> QED
    BY <1>1, <2>1, <2>2, <2>3, TypeParts DEF ReadAt
<1>3. misfit' \subseteq Activity /\ lost' \subseteq Activity
  BY <1>1, ReadStep DEF TypeOK, Activity
<1>4. /\ nr0' \in [Activity -> Counts] /\ nr_allocated' \in [Activity -> Sizes]
      /\ cells' \in [Activity -> Nat] /\ held' \in [Activity -> Int] /\ was' \in [Activity -> 0..MaxSubs]
  BY <1>1, <1>2
<1>5. phase' = "stdout" /\ UNCHANGED << collected, nr_ini, nr2, sar >>
  BY ReadStep
<1> QED
  BY <1>3, <1>4, <1>5 DEF TypeOK, Phases, sar

LEMMA WriteFileTyped == TypeOK /\ WriteFile => TypeOK'
BY DEF TypeOK, WriteFile, Phases, sadc, sar

\* read_header_data() and allocate_structures(), for one activity.
LEMMA HeaderStep ==
  ASSUME TypeOK, Header, NEW a \in Activity
  PROVE  /\ snr_ini'[a] = IF a \in collected THEN nr_ini[a] ELSE snr_ini[a]
         /\ snr2'[a] = IF a \in collected THEN nr2[a] ELSE snr2[a]
         /\ IF snr_ini'[a] > snr_allocated[a]
            THEN snr_allocated'[a] = snr_ini'[a] /\ scells'[a] = snr_ini'[a] * snr2'[a]
            ELSE snr_allocated'[a] = snr_allocated[a] /\ scells'[a] = scells[a]
<1>1. /\ snr_ini' = [b \in Activity |-> IF b \in collected THEN nr_ini[b] ELSE snr_ini[b]]
      /\ snr2' = [b \in Activity |-> IF b \in collected THEN nr2[b] ELSE snr2[b]]
      /\ snr_allocated' = [b \in Activity |-> Allocate(b, snr_ini'[b]).nr]
      /\ scells' = [b \in Activity |-> Allocate(b, snr_ini'[b]).room]
  BY Zenon DEF Header
<1>2. snr_allocated'[a] = Allocate(a, snr_ini'[a]).nr /\ scells'[a] = Allocate(a, snr_ini'[a]).room
  BY <1>1
<1>3. PICK n : n = snr_ini'[a]
  OBVIOUS
<1>4. /\ n > snr_allocated[a] => Allocate(a, n) = [nr |-> n, room |-> n * snr2'[a]]
      /\ ~(n > snr_allocated[a]) => Allocate(a, n) = [nr |-> snr_allocated[a], room |-> scells[a]]
  BY DEF Allocate
<1>5. snr_ini'[a] = IF a \in collected THEN nr_ini[a] ELSE snr_ini[a]
  BY <1>1
<1>6. snr2'[a] = IF a \in collected THEN nr2[a] ELSE snr2[a]
  BY <1>1
<1> QED
  BY <1>2, <1>3, <1>4, <1>5, <1>6

LEMMA HeaderTyped == TypeOK /\ Header => TypeOK'
<1> SUFFICES ASSUME TypeOK, Header PROVE TypeOK'
  OBVIOUS
<1>1. /\ phase' = IF phase = "header" THEN "reset" ELSE "file again"
      /\ UNCHANGED << sadc, snr >>
      /\ snr_ini' = [b \in Activity |-> IF b \in collected THEN nr_ini[b] ELSE snr_ini[b]]
      /\ snr2' = [b \in Activity |-> IF b \in collected THEN nr2[b] ELSE snr2[b]]
      /\ snr_allocated' = [b \in Activity |-> Allocate(b, snr_ini'[b]).nr]
      /\ scells' = [b \in Activity |-> Allocate(b, snr_ini'[b]).room]
  BY Zenon DEF Header
<1>2. snr_ini' \in [Activity -> Counts] /\ snr2' \in [Activity -> 0..MaxSubs]
  BY <1>1, TypeParts
<1>3. ASSUME NEW a \in Activity PROVE snr_allocated'[a] \in Sizes /\ scells'[a] \in Nat
  <2>1. CASE snr_ini'[a] > snr_allocated[a]
    <3>1. snr_ini'[a] \in Nat /\ snr_ini'[a] \in Sizes
      BY <1>2, <2>1, TypeParts, Bounds DEF Counts, Sizes
    <3>2. snr2'[a] \in Nat
      BY <1>2, Bounds
    <3> QED
      BY <2>1, <3>1, <3>2, HeaderStep, Products
  <2>2. CASE ~(snr_ini'[a] > snr_allocated[a])
    BY <2>2, HeaderStep, TypeParts
  <2> QED
    BY <2>1, <2>2
<1>4. snr_allocated' \in [Activity -> Sizes] /\ scells' \in [Activity -> Nat]
  BY <1>1, <1>3
<1>5. phase' \in Phases /\ smisfit' \subseteq Activity
  BY <1>1 DEF Phases, Header
<1> QED
  BY <1>1, <1>2, <1>4, <1>5 DEF TypeOK, sadc

\* read_sadc_stat_bunch(), for one activity.
LEMMA StdoutStep ==
  ASSUME TypeOK, WriteStdout, NEW a \in Activity
  PROVE  /\ snr'[a] = IF a \in collected THEN nr0[a] ELSE snr[a]
         /\ snr_allocated'[a] = IF a \in collected \cap Counted THEN MoreBuffers(a, nr0[a]) ELSE snr_allocated[a]
         /\ scells'[a] = IF snr_allocated'[a] # snr_allocated[a] THEN snr_allocated'[a] * snr2[a] ELSE scells[a]
<1>1. snr' = [b \in Activity |-> IF b \in collected THEN nr0[b] ELSE snr[b]]
  BY Zenon DEF WriteStdout
<1>2. snr_allocated' = [b \in Activity |->
        IF b \in collected \cap Counted THEN MoreBuffers(b, nr0[b]) ELSE snr_allocated[b]]
  BY Zenon DEF WriteStdout
<1>3. scells' = [b \in Activity |->
        IF snr_allocated'[b] # snr_allocated[b] THEN snr_allocated'[b] * snr2[b] ELSE scells[b]]
  BY Zenon DEF WriteStdout
<1> QED
  BY <1>1, <1>2, <1>3

LEMMA WriteStdoutTyped == TypeOK /\ WriteStdout => TypeOK'
<1> SUFFICES ASSUME TypeOK, WriteStdout PROVE TypeOK'
  OBVIOUS
<1>1. ASSUME NEW a \in Activity PROVE snr'[a] \in Counts /\ snr_allocated'[a] \in Sizes
  BY StdoutStep, MoreBuffersBounds, TypeParts
<1>2. ASSUME NEW a \in Activity PROVE scells'[a] \in Nat
  <2>1. snr_allocated'[a] \in Nat /\ snr2[a] \in Nat
    BY <1>1, NumberParts, Bounds DEF Sizes
  <2> QED
    BY <2>1, StdoutStep, TypeParts, Products
<1>3. /\ phase' = "file" /\ UNCHANGED << sadc, snr_ini, snr2 >>
      /\ DOMAIN snr' = Activity /\ DOMAIN snr_allocated' = Activity /\ DOMAIN scells' = Activity
      /\ snr' = [a \in Activity |-> snr'[a]] /\ snr_allocated' = [a \in Activity |-> snr_allocated'[a]]
      /\ scells' = [a \in Activity |-> scells'[a]]
  BY DEF WriteStdout
<1>5. smisfit' \subseteq Activity
  BY DEF WriteStdout, TypeOK
<1>4. snr' \in [Activity -> Counts] /\ snr_allocated' \in [Activity -> Sizes] /\ scells' \in [Activity -> Nat]
  BY <1>1, <1>2, <1>3
<1> QED
  BY <1>3, <1>4, <1>5 DEF TypeOK, Phases, sadc

LEMMA NextTyped == TypeOK /\ [Next]_vars => TypeOK'
<1>1. TypeOK /\ UNCHANGED vars => TypeOK'
  BY DEF TypeOK, vars
<1> QED
  BY <1>1, SysInitTyped, OpenFileTyped, HeaderTyped, ResetStatsTyped, ReadStatsTyped,
     WriteStdoutTyped, WriteFileTyped, Zenon DEF Next

\* The counts stay within their bounds; above all, however often the buffers are
\* doubled, they have no room for more than twice the items there may be.
THEOREM TypeCorrect == Spec => []TypeOK
BY InitTyped, NextTyped, PTL DEF Spec

-----------------------------------------------------------------------------
(* What is announced.                                                       *)

LEMMA SysInitAnnounced == TypeOK /\ Announced /\ SysInit => Announced'
<1> SUFFICES ASSUME TypeOK, Announced, SysInit PROVE Announced'
  OBVIOUS
<1>1. phase' \in {"open", "open again"}
  BY DEF SysInit
<1>2. PICK m \in Machine : \A a \in Activity : SysInitAt(m, a)
  BY SysInitStep
<1>3. ASSUME NEW a \in Always PROVE nr_ini'[a] >= 0
  <2>1. a \in Activity /\ a \in Counted
    BY ActBuffersAssumption DEF Activity, Counted
  <2>2. Found(a, m) = m.items[a] /\ m.items[a] \in Nat
    BY <2>1, MachineParts, ItemsParts DEF Found
  <2>3. CountNr(a, m) >= 0
    BY <2>2 DEF CountNr
  <2> QED
    BY <1>2, <2>1, <2>3 DEF SysInitAt
<1>4. ASSUME NEW a \in collected' PROVE nr_ini'[a] > 0 /\ nr2'[a] > 0 /\ nr_allocated'[a] > 0
  <2>1. a \in Activity /\ SysInitAt(m, a)
    BY <1>2, SysInitTyped DEF TypeOK
  <2>2. CountNr(a, m) > 0 => CountNr2(a, m) > 0
    BY <2>1, Counting
  <2> QED
    BY <2>1, <2>2 DEF SysInitAt
<1> QED
  BY <1>1, <1>3, <1>4 DEF Announced

LEMMA OpenFileAnnounced == TypeOK /\ Announced /\ OpenFile => Announced'
<1> SUFFICES ASSUME TypeOK, Announced, OpenFile PROVE Announced'
  OBVIOUS
<1>1. phase \in {"open", "open again"} /\ phase' \in {"header", "header again"}
  BY DEF OpenFile
<1>2. CASE UNCHANGED sadc
  BY <1>1, <1>2 DEF Announced, sadc
<1>3. ASSUME NEW f \in FirstFiles \cup NextFiles, f # NewFile, Adopt(f) PROVE Announced'
  <2>1. collected' = f.listed /\ \A a \in Activity : AdoptAt(f, a)
    BY <1>3, AdoptStep
  <2>2. ASSUME NEW a \in Activity PROVE FileNr(a, f) > 0 /\ f.nr2[a] > 0
    <3>1. f.nr[a] \in Nat /\ f.nr[a] > 0 /\ f.nr2[a] > 0
      BY <1>3, Listing, Bounds
    <3>2. a \in Always => nr_ini[a] >= 0 /\ nr_ini[a] \in Int
      BY <1>1, NumberParts DEF Announced
    <3>3. CASE a \in Always /\ nr_ini[a] # 0
      BY <3>1, <3>2, <3>3 DEF FileNr
    <3>4. CASE ~(a \in Always /\ nr_ini[a] # 0)
      BY <3>1, <3>4 DEF FileNr
    <3> QED
      BY <3>3, <3>4
  <2>3. ASSUME NEW a \in Always PROVE nr_ini'[a] >= 0
    <3>1. a \in Activity /\ AdoptAt(f, a) /\ nr_ini[a] >= 0
      BY <1>1, <2>1, ActBuffersAssumption DEF Activity, Counted, Announced
    <3>2. FileNr(a, f) > 0 /\ FileNr(a, f) \in Int
      BY <1>3, <2>2, <3>1, FileNrTyped, Bounds DEF Counts
    <3> QED
      BY <3>1, <3>2 DEF AdoptAt
  <2>4. ASSUME NEW a \in collected' PROVE nr_ini'[a] > 0 /\ nr2'[a] > 0 /\ nr_allocated'[a] > 0
    <3>1. a \in Activity /\ a \in f.listed
      BY <1>3, <2>1, Listing
    <3>2. AdoptAt(f, a) /\ FileNr(a, f) > 0 /\ f.nr2[a] > 0
      BY <2>1, <2>2, <3>1
    <3>3. nr_ini'[a] > 0 /\ nr2'[a] > 0 /\ nr_allocated'[a] = Larger(nr_ini'[a], nr_allocated[a])
      BY <3>1, <3>2 DEF AdoptAt
    <3>4. nr_ini'[a] \in Int /\ nr_allocated[a] \in Int
      BY <1>3, <3>1, <3>2, FileNrTyped, NumberParts, Bounds DEF Counts, AdoptAt
    <3> QED
      BY <3>3, <3>4 DEF Larger
  <2> QED
    BY <1>1, <2>3, <2>4 DEF Announced
<1> QED
  BY <1>2, <1>3, OpenFileCases

LEMMA ReadStatsAnnounced == TypeOK /\ Announced /\ ReadStats => Announced'
<1> SUFFICES ASSUME TypeOK, Announced, ReadStats PROVE Announced'
  OBVIOUS
<1>1. /\ phase = "read" /\ phase' = "stdout"
      /\ collected' = collected /\ nr_ini' = nr_ini /\ nr2' = nr2
  BY DEF ReadStats
<1>2. PICK items \in Items : \A a \in Activity : ReadAt(items, a)
  BY ReadStep
<1>3. ASSUME NEW a \in collected PROVE nr_allocated'[a] > 0
  <2>1. a \in Activity /\ nr_allocated[a] > 0 /\ nr_allocated[a] \in Nat /\ ReadAt(items, a)
    BY <1>1, <1>2, NumberParts DEF Announced, TypeOK
  <2>2. items[a] \in 0..MaxItems => Reallocated(a, items[a]) \in Nat /\ Reallocated(a, items[a]) > 0
    BY <2>1, ReallocatedBounds
  <2> QED
    BY <2>1, <2>2 DEF ReadAt
<1> QED
  BY <1>1, <1>3 DEF Announced

LEMMA NextAnnounced == TypeOK /\ Announced /\ [Next]_vars => Announced'
<1> SUFFICES ASSUME TypeOK, Announced, [Next]_vars PROVE Announced'
  OBVIOUS
<1>1. CASE Header
  BY <1>1 DEF Announced, Header, sadc
<1>2. CASE ResetStats
  BY <1>2 DEF Announced, ResetStats
<1>3. CASE WriteStdout
  BY <1>3 DEF Announced, WriteStdout, sadc
<1>4. CASE WriteFile
  BY <1>4 DEF Announced, WriteFile, sadc
<1>5. CASE UNCHANGED vars
  BY <1>5 DEF Announced, vars
<1> QED
  BY <1>1, <1>2, <1>3, <1>4, <1>5, SysInitAnnounced, OpenFileAnnounced, ReadStatsAnnounced,
     Zenon DEF Next

LEMMA InitAnnounced == Init => Announced
BY DEF Init, Announced

\* sar accepts every header that sadc sends: whatever the machine has, whatever the
\* list of the file says, and after every rotation.
THEOREM HeaderAcceptedCorrect == Spec => []HeaderAccepted
<1>1. Announced => HeaderAccepted
  BY DEF Announced, HeaderAccepted
<1> QED
  BY <1>1, InitTyped, NextTyped, InitAnnounced, NextAnnounced, PTL DEF Spec

\* The loop that makes a buffer larger ends: it never starts from an empty one.
THEOREM ReadCanGrowCorrect == Spec => []ReadCanGrow
<1>1. Announced => ReadCanGrow
  BY DEF Announced, ReadCanGrow
<1> QED
  BY <1>1, InitTyped, NextTyped, InitAnnounced, NextAnnounced, PTL DEF Spec

-----------------------------------------------------------------------------
(* What fits where it is put.                                               *)

\* Neither the buffers nor what is known of them changes.
LEMMA RoomyKept ==
  ASSUME Roomy, UNCHANGED << collected, nr2, nr_allocated, nr0, cells, misfit >>,
         phase' = "stdout" => phase = "stdout"
  PROVE  Roomy'
BY DEF Roomy, Room

LEMMA SysInitRoomy ==
  ASSUME TypeOK, Roomy, SysInit
  PROVE  Roomy'
<1>1. PICK m \in Machine : \A a \in Activity : SysInitAt(m, a)
  BY SysInitStep
<1>2. nr0' = nr0 /\ phase' # "stdout" /\ misfit' \subseteq Activity
  BY SysInitStep DEF SysInit
<1>3. ASSUME NEW a \in Activity \ Matrix PROVE nr2'[a] = 1 /\ a \notin misfit'
  <2>1. nr2[a] = 1 /\ a \notin misfit /\ CountNr2(a, m) = nr2[a] /\ SysInitAt(m, a)
    BY <1>1, Counting DEF Roomy
  <2> QED
    BY <2>1 DEF SysInitAt
<1>4. ASSUME NEW a \in Activity \ misfit' PROVE Room(a)'
  <2>1. /\ SysInitAt(m, a) /\ nr_allocated[a] \in Nat /\ nr2[a] \in Nat /\ cells[a] \in Nat
        /\ CountNr2(a, m) \in Nat /\ CountNr(a, m) \in Int
    BY <1>1, Counting, NumberParts, Bounds DEF Counts
  <2>2. CASE a \in collected'
    <3>1. CountNr(a, m) * CountNr2(a, m) \in Int
      BY <2>1
    <3> QED
      BY <2>1, <2>2, <3>1 DEF SysInitAt, Room
  <2>3. CASE a \notin collected'
    <3>1. /\ nr_allocated'[a] = nr_allocated[a] /\ cells'[a] = cells[a]
          /\ nr2'[a] = CountNr2(a, m) /\ a \notin misfit
          /\ CountNr2(a, m) <= nr2[a] \/ nr_allocated[a] = 0
      BY <1>4, <2>1, <2>3 DEF SysInitAt
    <3>2. nr_allocated[a] * nr2[a] <= cells[a]
      BY <3>1 DEF Roomy, Room
    <3>3. nr_allocated[a] * CountNr2(a, m) <= nr_allocated[a] * nr2[a]
      <4>1. CASE nr_allocated[a] = 0
        BY <2>1, <4>1
      <4>2. CASE CountNr2(a, m) <= nr2[a]
        <5>1. CountNr2(a, m) * nr_allocated[a] <= nr2[a] * nr_allocated[a]
          BY <2>1, <4>2, ProductGrows
        <5> QED
          BY <2>1, <5>1
      <4> QED
        BY <3>1, <4>1, <4>2
    <3>4. nr_allocated[a] * CountNr2(a, m) \in Int /\ nr_allocated[a] * nr2[a] \in Int
      BY <2>1
    <3> QED
      BY <2>1, <3>1, <3>2, <3>3, <3>4 DEF Room
  <2> QED
    BY <2>2, <2>3
<1>5. \A a \in Fixed : nr0'[a] = 1
  BY <1>2 DEF Roomy
<1>6. misfit' \subseteq Matrix
  BY <1>2, <1>3
<1> QED
  BY <1>2, <1>3, <1>4, <1>5, <1>6 DEF Roomy

LEMMA OpenFileRoomy ==
  ASSUME TypeOK, Roomy, OpenFile
  PROVE  Roomy'
<1>1. phase' # "stdout"
  BY OpenFileCases
<1>2. CASE UNCHANGED sadc
  BY <1>1, <1>2, RoomyKept DEF sadc
<1>3. ASSUME NEW f \in FirstFiles \cup NextFiles, f # NewFile, Adopt(f), UNCHANGED << nr0, was >>
      PROVE  Roomy'
  <2>1. /\ misfit' = misfit \ f.listed /\ nr_allocated' \in [Activity -> Sizes]
        /\ nr2' \in [Activity -> 0..MaxSubs] /\ \A a \in Activity : AdoptAt(f, a)
    BY <1>3, AdoptStep
  <2>2. ASSUME NEW a \in Activity \ Matrix PROVE nr2'[a] = 1
    <3>1. f.nr2[a] = 1 /\ nr2[a] = 1 /\ AdoptAt(f, a)
      BY <1>3, <2>1, Listing DEF Roomy
    <3> QED
      BY <3>1 DEF AdoptAt
  <2>3. ASSUME NEW a \in Activity \ misfit' PROVE Room(a)'
    <3>1. AdoptAt(f, a) /\ nr_allocated'[a] \in Int /\ nr2'[a] \in Int
      BY <2>1, Bounds DEF Sizes
    <3>2. CASE a \in f.listed
      <4>1. nr_allocated'[a] * nr2'[a] \in Int
        BY <3>1
      <4> QED
        BY <3>1, <3>2, <4>1 DEF AdoptAt, Room
    <3>3. CASE a \notin f.listed
      BY <2>1, <2>3, <3>1, <3>3 DEF AdoptAt, Room, Roomy
    <3> QED
      BY <3>2, <3>3
  <2>4. (\A a \in Fixed : nr0'[a] = 1) /\ misfit' \subseteq Matrix
    BY <1>3, <2>1 DEF Roomy
  <2> QED
    BY <1>1, <2>2, <2>3, <2>4 DEF Roomy
<1> QED
  BY <1>2, <1>3, OpenFileCases

LEMMA ReadStatsRoomy ==
  ASSUME TypeOK, Announced, Roomy, ReadStats
  PROVE  Roomy'
<1>1. PICK items \in Items : /\ \A a \in Activity : ReadAt(items, a)
                             /\ misfit' \subseteq misfit \cup Counted
  BY ReadStep
<1>2. phase = "read" /\ collected' = collected /\ nr2' = nr2 /\ misfit \subseteq misfit'
  BY ReadStep
<1>3. ASSUME NEW a \in Fixed PROVE nr0'[a] = 1
  <2>1. a \in Activity /\ a \notin Counted /\ ReadAt(items, a)
    BY <1>1, Kinds DEF Activity
  <2> QED
    BY <2>1 DEF ReadAt, Roomy
<1>4. ASSUME NEW a \in Activity \ Matrix PROVE nr2'[a] = 1 /\ a \notin misfit'
  <2>1. ReadAt(items, a) /\ nr2[a] = 1 /\ a \notin misfit
    BY <1>1 DEF Roomy
  <2> QED
    BY <1>2, <2>1 DEF ReadAt
<1>5. ASSUME NEW a \in Activity \ misfit' PROVE Room(a)'
  <2>1. /\ ReadAt(items, a) /\ Room(a) /\ nr2[a] \in Nat /\ nr_allocated[a] \in Nat
        /\ cells[a] \in Nat
    BY <1>1, <1>2, <1>5, NumberParts DEF Roomy
  <2>2. CASE a \in collected \cap Counted
    <3>1. items[a] \in 0..MaxItems
      BY <2>1, <2>2 DEF ReadAt
    <3>2. Reallocated(a, items[a]) \in Nat /\ RoomAfter(a, items[a]) \in Nat
      BY <3>1, ReallocatedBounds
    <3>3. Reallocated(a, items[a]) * nr2[a] <= RoomAfter(a, items[a])
      <4>1. CASE Reallocated(a, items[a]) = nr_allocated[a]
        BY <2>1, <3>2, <4>1 DEF RoomAfter, Room
      <4>2. CASE Reallocated(a, items[a]) # nr_allocated[a] /\ a \in Freq
        <5>1. RoomAfter(a, items[a]) = nr2[a] * Reallocated(a, items[a])
          BY <4>2 DEF RoomAfter
        <5>2. nr2[a] * Reallocated(a, items[a]) = Reallocated(a, items[a]) * nr2[a]
          BY <2>1, <3>2
        <5> QED
          BY <3>2, <5>1, <5>2
      <4>3. CASE Reallocated(a, items[a]) # nr_allocated[a] /\ a \notin Freq
        <5>1. RoomAfter(a, items[a]) = Reallocated(a, items[a])
          BY <4>3 DEF RoomAfter
        <5>2. ~(nr2[a] > 1)
          <6>1. a \in misfit' <=> \/ a \in misfit
                                  \/ a \notin Freq /\ Reallocated(a, items[a]) # nr_allocated[a] /\ nr2[a] > 1
            BY <2>1, <2>2, Zenon DEF ReadAt
          <6> QED
            BY <1>5, <4>3, <6>1, Zenon
        <5>3. nr2[a] = 0 \/ nr2[a] = 1
          BY <2>1, <5>2
        <5> QED
          BY <3>2, <5>1, <5>3
      <4> QED
        BY <4>1, <4>2, <4>3
    <3> QED
      BY <1>2, <2>1, <2>2, <3>3 DEF ReadAt, Room
  <2>3. CASE a \notin collected \cap Counted
    BY <1>2, <2>1, <2>3 DEF ReadAt, Room
  <2> QED
    BY <2>2, <2>3
<1>6. ASSUME NEW a \in collected PROVE nr0'[a] <= nr_allocated'[a]
  <2>1. a \in Activity /\ ReadAt(items, a) /\ nr_allocated[a] > 0 /\ nr_allocated[a] \in Nat
    BY <1>1, <1>2, NumberParts DEF TypeOK, Announced
  <2>2. CASE a \in Counted
    <3>1. items[a] \in 0..MaxItems
      BY <2>1, <2>2 DEF ReadAt
    <3>2. Reallocated(a, items[a]) >= items[a]
      BY <2>1, <3>1, ReallocatedBounds
    <3>3. items[a] \in Int /\ Reallocated(a, items[a]) \in Int
      BY <2>1, <3>1, ReallocatedBounds, Bounds
    <3> QED
      BY <2>1, <2>2, <3>2, <3>3 DEF ReadAt
  <2>3. CASE a \notin Counted
    <3>1. a \in Fixed
      BY <2>1, <2>3 DEF Activity
    <3> QED
      BY <1>3, <2>1, <2>3, <3>1 DEF ReadAt
  <2> QED
    BY <2>2, <2>3
<1>7. misfit' \subseteq Matrix
  BY <1>1, <1>4 DEF Roomy, Activity, Counted, Matrix
<1> QED
  BY <1>2, <1>3, <1>4, <1>5, <1>6, <1>7 DEF Roomy

LEMMA NextRoomy == TypeOK /\ Announced /\ Roomy /\ [Next]_vars => Roomy'
<1> SUFFICES ASSUME TypeOK, Announced, Roomy, [Next]_vars PROVE Roomy'
  OBVIOUS
<1>1. CASE Header
  BY <1>1, RoomyKept DEF Header, sadc
<1>2. CASE ResetStats
  BY <1>2, RoomyKept DEF ResetStats
<1>3. CASE WriteStdout
  BY <1>3, RoomyKept DEF WriteStdout, sadc
<1>4. CASE WriteFile
  BY <1>4, RoomyKept DEF WriteFile, sadc
<1>5. CASE UNCHANGED vars
  BY <1>5, RoomyKept DEF vars
<1> QED
  BY <1>1, <1>2, <1>3, <1>4, <1>5, SysInitRoomy, OpenFileRoomy, ReadStatsRoomy, Zenon DEF Next

LEMMA InitRoomy == Init => Roomy
<1> SUFFICES ASSUME Init PROVE Roomy
  OBVIOUS
<1>1. \A a \in Activity : cells[a] = 0 /\ nr_allocated[a] = 0 /\ nr2[a] = 1
  BY DEF Init
<1>2. \A a \in Fixed : a \in Activity /\ nr0[a] = 1
  BY DEF Init, Activity
<1>3. phase = "init" /\ misfit = {}
  BY DEF Init
<1> QED
  BY <1>1, <1>2, <1>3 DEF Roomy, Room

LEMMA HeaderSarRoomy ==
  ASSUME TypeOK, Announced, SarRoomy, Header
  PROVE  SarRoomy'
<1>1. /\ phase \in {"header", "header again"} /\ phase' \in {"reset", "file again"}
      /\ collected' = collected
      /\ smisfit' = { a \in Activity : snr_ini'[a] <= snr_allocated[a]
                                         /\ (a \in smisfit \/ snr2'[a] > snr2[a]) }
  BY DEF Header, sadc
<1>2. ASSUME NEW a \in Activity \ smisfit' PROVE snr_allocated'[a] * snr2'[a] <= scells'[a]
  <2>1. /\ snr_allocated[a] \in Nat /\ snr2[a] \in Nat /\ scells[a] \in Nat
        /\ snr2'[a] \in Nat /\ snr_ini'[a] \in Int
    <3>1. snr2'[a] \in 0..MaxSubs /\ snr_ini'[a] \in Counts
      BY HeaderTyped DEF TypeOK
    <3> QED
      BY <3>1, NumberParts, Bounds DEF Counts
  <2>2. CASE snr_ini'[a] > snr_allocated[a]
    <3>1. snr_allocated'[a] = snr_ini'[a] /\ scells'[a] = snr_ini'[a] * snr2'[a]
      BY <2>2, HeaderStep
    <3>2. snr_ini'[a] * snr2'[a] \in Int
      BY <2>1
    <3> QED
      BY <3>1, <3>2
  <2>3. CASE ~(snr_ini'[a] > snr_allocated[a])
    <3>1. snr_allocated'[a] = snr_allocated[a] /\ scells'[a] = scells[a]
      BY <2>3, HeaderStep
    <3>2. a \notin smisfit /\ snr2'[a] <= snr2[a]
      <4>1. snr_ini'[a] <= snr_allocated[a] /\ snr2[a] \in Int /\ snr2'[a] \in Int
        BY <2>1, <2>3
      <4>2. ~(snr_ini'[a] <= snr_allocated[a] /\ (a \in smisfit \/ snr2'[a] > snr2[a]))
        BY <1>1, <1>2
      <4> QED
        BY <4>1, <4>2
    <3>3. snr_allocated[a] * snr2[a] <= scells[a]
      BY <3>2 DEF SarRoomy
    <3>4. snr2'[a] * snr_allocated[a] <= snr2[a] * snr_allocated[a]
      BY <2>1, <3>2, ProductGrows
    <3>5. /\ snr2'[a] * snr_allocated[a] = snr_allocated[a] * snr2'[a]
          /\ snr2[a] * snr_allocated[a] = snr_allocated[a] * snr2[a]
          /\ snr_allocated[a] * snr2'[a] \in Int /\ snr_allocated[a] * snr2[a] \in Int
      BY <2>1
    <3> QED
      BY <2>1, <3>1, <3>3, <3>4, <3>5
  <2> QED
    BY <2>2, <2>3
<1>3. ASSUME NEW a \in collected PROVE snr_allocated'[a] > 0
  <2>1. a \in Activity
    BY DEF TypeOK
  <2>2. nr_ini[a] > 0
    BY <1>1 DEF Announced
  <2>3. nr_ini[a] \in Int /\ snr_allocated[a] \in Int
    BY <2>1, NumberParts
  <2> QED
    BY <2>1, <2>2, <2>3, HeaderStep
<1> QED
  BY <1>1, <1>2, <1>3 DEF SarRoomy

LEMMA WriteStdoutSarRoomy ==
  ASSUME TypeOK, Roomy, SarRoomy, WriteStdout
  PROVE  SarRoomy'
<1>1. /\ phase = "stdout" /\ phase' = "file" /\ collected' = collected /\ snr2' = snr2
      /\ smisfit' = { a \in smisfit : snr_allocated'[a] = snr_allocated[a] }
  BY DEF WriteStdout, sadc
<1>2. ASSUME NEW a \in Activity \ smisfit' PROVE snr_allocated'[a] * snr2[a] <= scells'[a]
  <2>1. snr_allocated'[a] \in Nat /\ snr2[a] \in Nat
    <3>1. snr_allocated'[a] \in Sizes
      BY WriteStdoutTyped DEF TypeOK
    <3> QED
      BY <3>1, NumberParts, Bounds DEF Sizes
  <2>2. CASE snr_allocated'[a] = snr_allocated[a]
    <3>1. a \notin smisfit /\ scells'[a] = scells[a]
      BY <1>1, <1>2, <2>2, StdoutStep
    <3> QED
      BY <2>2, <3>1 DEF SarRoomy
  <2>3. CASE snr_allocated'[a] # snr_allocated[a]
    <3>1. scells'[a] = snr_allocated'[a] * snr2[a] /\ snr_allocated'[a] * snr2[a] \in Int
      BY <2>1, <2>3, StdoutStep
    <3> QED
      BY <3>1
  <2> QED
    BY <2>2, <2>3
<1>3. ASSUME NEW a \in collected PROVE snr_allocated'[a] > 0 /\ snr'[a] <= snr_allocated'[a]
  <2>1. /\ a \in Activity /\ snr_allocated[a] \in Nat /\ nr0[a] \in Counts /\ nr0[a] \in Int
        /\ snr_allocated[a] > 0
    BY <1>1, NumberParts, TypeParts DEF SarRoomy, TypeOK
  <2>2. CASE a \in Counted
    <3>1. snr'[a] = nr0[a] /\ snr_allocated'[a] = MoreBuffers(a, nr0[a])
      BY <2>1, <2>2, StdoutStep
    <3>2. /\ snr_allocated'[a] \in Nat /\ snr_allocated'[a] >= nr0[a]
          /\ snr_allocated'[a] >= snr_allocated[a]
      BY <2>1, <3>1, MoreBuffersBounds, Bounds DEF Sizes
    <3> QED
      BY <2>1, <3>1, <3>2
  <2>3. CASE a \notin Counted
    <3>1. a \in Fixed /\ nr0[a] = 1
      BY <2>1, <2>3 DEF Activity, Roomy
    <3>2. snr'[a] = 1 /\ snr_allocated'[a] = snr_allocated[a]
      BY <2>1, <2>3, <3>1, StdoutStep
    <3> QED
      BY <2>1, <3>2
  <2> QED
    BY <2>2, <2>3
<1> QED
  BY <1>1, <1>2, <1>3 DEF SarRoomy

\* sar has not moved, and is not sent anything else.
LEMMA SarRoomyKept ==
  ASSUME SarRoomy, UNCHANGED << snr2, snr_allocated, scells, snr, smisfit >>,
         \/ phase' \notin {"reset", "read", "stdout", "file", "file again"}
         \/ /\ phase \in {"reset", "read", "stdout", "file", "file again"}
            /\ phase' = "file" => phase = "file"
            /\ collected' = collected
  PROVE  SarRoomy'
BY DEF SarRoomy

LEMMA NextSarRoomy == TypeOK /\ Announced /\ Roomy /\ SarRoomy /\ [Next]_vars => SarRoomy'
<1> SUFFICES ASSUME TypeOK, Announced, Roomy, SarRoomy, [Next]_vars PROVE SarRoomy'
  OBVIOUS
<1>1. CASE SysInit
  BY <1>1, SarRoomyKept DEF SysInit, sar
<1>2. CASE OpenFile
  BY <1>2, SarRoomyKept DEF OpenFile, sar
<1>3. CASE ResetStats
  BY <1>3, SarRoomyKept DEF ResetStats, sar
<1>4. CASE ReadStats
  BY <1>4, SarRoomyKept DEF ReadStats, sar
<1>5. CASE WriteFile
  BY <1>5, SarRoomyKept DEF WriteFile, sadc, sar
<1>6. CASE UNCHANGED vars
  BY <1>6 DEF SarRoomy, vars
<1> QED
  BY <1>1, <1>2, <1>3, <1>4, <1>5, <1>6, HeaderSarRoomy, WriteStdoutSarRoomy, Zenon DEF Next

LEMMA InitSarRoomy == Init => SarRoomy
<1> SUFFICES ASSUME Init PROVE SarRoomy
  OBVIOUS
<1>1. \A a \in Activity : snr_allocated[a] = 0 /\ snr2[a] = 1 /\ scells[a] = 0
  BY DEF Init
<1> QED
  BY <1>1 DEF SarRoomy, Init

LEMMA RoomyInBounds == TypeOK /\ Roomy /\ SarRoomy => InBounds
<1> SUFFICES ASSUME TypeOK, Roomy, SarRoomy PROVE InBounds
  OBVIOUS
<1>1. ASSUME phase = "stdout", NEW a \in collected \ misfit PROVE nr0[a] * nr2[a] <= cells[a]
  <2>1. a \in Activity
    BY DEF TypeOK
  <2>2. /\ nr0[a] \in Int /\ nr_allocated[a] \in Nat /\ nr2[a] \in Nat /\ cells[a] \in Nat
        /\ nr0[a] <= nr_allocated[a] /\ nr_allocated[a] * nr2[a] <= cells[a]
    BY <1>1, <2>1, NumberParts DEF Roomy, Room
  <2>3. nr0[a] * nr2[a] <= nr_allocated[a] * nr2[a]
    BY <2>2, ProductGrows
  <2>4. nr0[a] * nr2[a] \in Int /\ nr_allocated[a] * nr2[a] \in Int
    BY <2>2
  <2> QED
    BY <2>2, <2>3, <2>4
<1>2. ASSUME NEW a \in Activity \ misfit PROVE nr_allocated[a] * nr2[a] <= cells[a]
  BY DEF Roomy, Room
<1>3. ASSUME phase = "file", NEW a \in collected \ smisfit PROVE snr[a] * snr2[a] <= scells[a]
  <2>1. a \in Activity
    BY DEF TypeOK
  <2>2. /\ snr[a] \in Int /\ snr_allocated[a] \in Nat /\ snr2[a] \in Nat /\ scells[a] \in Nat
        /\ snr[a] <= snr_allocated[a] /\ snr_allocated[a] * snr2[a] <= scells[a]
    BY <1>3, <2>1, NumberParts DEF SarRoomy
  <2>3. snr[a] * snr2[a] <= snr_allocated[a] * snr2[a]
    BY <2>2, ProductGrows
  <2>4. snr[a] * snr2[a] \in Int /\ snr_allocated[a] * snr2[a] \in Int
    BY <2>2
  <2> QED
    BY <2>2, <2>3, <2>4
<1> QED
  BY <1>1, <1>2, <1>3 DEF InBounds

\* What sadc reads and clears, and what sar receives, fits in the buffers, for as long
\* as sadc runs, whatever the machine has each time and whatever files it rotates to:
\* of every activity whose buffers have been sized with its sub-items.
THEOREM InBoundsCorrect == Spec => []InBounds
<1> DEFINE Inv == TypeOK /\ Announced /\ Roomy /\ SarRoomy
<1>1. Init => Inv
  BY InitTyped, InitAnnounced, InitRoomy, InitSarRoomy
<1>2. Inv /\ [Next]_vars => Inv'
  BY NextTyped, NextAnnounced, NextRoomy, NextSarRoomy
<1>3. Inv => InBounds
  BY RoomyInBounds
<1> QED
  BY <1>1, <1>2, <1>3, PTL DEF Spec

-----------------------------------------------------------------------------
(* What is written.                                                         *)

\* Nothing that is known of the activities changes.
LEMMA HeldKept ==
  ASSUME Held, UNCHANGED << collected, nr2, nr_allocated, nr0, cells, held, was, lost >>,
         \/ phase' = phase
         \/ phase = "stdout" /\ phase' = "file"
         \/ phase = "file" /\ phase' = "init again"
         \/ phase' \in {"reset", "open", "header"}
         \/ phase \in {"open again", "header again"} /\ phase' \in {"header again", "file again"}
  PROVE  Held'
<1> SUFFICES ASSUME NEW a \in Activity PROVE HeldOf(a)'
  BY DEF Held
<1>1. HeldOf(a)
  BY DEF Held
<1> QED
  BY <1>1 DEF HeldOf, SameSubs, Holding

LEMMA SysInitHeld ==
  ASSUME TypeOK, Roomy, Held, SysInit
  PROVE  Held'
<1>1. PICK m \in Machine : \A a \in Activity : SysInitAt(m, a)
  BY SysInitStep
<1>2. /\ nr0' = nr0 /\ was' = was /\ TypeOK' /\ phase \in {"init", "init again"}
      /\ phase' = (IF phase = "init" THEN "open" ELSE "open again")
  BY SysInitTyped DEF SysInit
<1> SUFFICES ASSUME NEW a \in Activity PROVE HeldOf(a)'
  BY DEF Held
<1>3. /\ HeldOf(a) /\ SysInitAt(m, a) /\ held[a] \in Int /\ was[a] \in Nat /\ cells[a] \in Int
      /\ cells'[a] \in Int /\ nr0[a] \in Int /\ nr2[a] \in Nat /\ CountNr(a, m) \in Int
      /\ CountNr2(a, m) \in Nat /\ nr_allocated[a] \in Int
  <2>1. HeldOf(a) /\ SysInitAt(m, a)
    <3>1. HeldOf(a)
      BY Zenon DEF Held
    <3>2. SysInitAt(m, a)
      BY <1>1, Zenon
    <3> QED
      BY <3>1, <3>2
  <2>2. /\ held[a] \in Int /\ was[a] \in Nat /\ cells[a] \in Int /\ nr0[a] \in Int
        /\ nr2[a] \in Nat /\ nr_allocated[a] \in Int
    BY NumberParts
  <2>3. CountNr(a, m) \in Int /\ CountNr2(a, m) \in Nat
    BY Counting, Bounds DEF Counts
  <2>4. cells'[a] \in Int
    <3>1. TypeOK'
      BY <1>2, Zenon
    <3>2. cells' \in [Activity -> Nat]
      BY <3>1, Zenon DEF TypeOK
    <3> QED
      BY <3>2
  <2> QED
    BY <2>1, <2>2, <2>3, <2>4
<1>4. /\ held'[a] <= cells'[a] /\ held'[a] <= held[a] /\ held'[a] \in Int
      /\ held[a] <= cells'[a] => held'[a] = held[a]
      /\ was'[a] = was[a]
  <2>1. held'[a] = Kept(held[a], cells'[a])
    BY <1>3, Zenon DEF SysInitAt
  <2>2. held[a] \in Int /\ cells'[a] \in Int
    BY <1>3, Zenon
  <2>3. was'[a] = was[a]
    BY <1>2, Zenon
  <2>4. held'[a] = IF held[a] < cells'[a] THEN held[a] ELSE cells'[a]
    BY <2>1 DEF Kept, Lesser
  <2> QED
    BY <2>2, <2>3, <2>4
<1>5. CASE phase = "init"
  BY <1>2, <1>3, <1>4, <1>5 DEF HeldOf, Holding
<1>6. CASE phase = "init again"
  <2>1. phase' = "open again" /\ phase \in Holding /\ phase' \in Holding /\ SameSubs
    BY <1>2, <1>6 DEF Holding, SameSubs
  <2>2. ASSUME a \in lost', a \notin Matrix PROVE held'[a] < nr0[a]
    <3>1. CASE a \in lost
      <4>1. held[a] < nr0[a]
        BY <1>3, <2>1, <2>2, <3>1, Zenon DEF HeldOf
      <4> QED
        BY <1>3, <1>4, <4>1
    <3>2. CASE a \notin lost
      <4>1. /\ a \in collected' /\ cells'[a] = CountNr(a, m) * CountNr2(a, m)
            /\ CountNr(a, m) < nr0[a] \/ CountNr2(a, m) # nr2[a]
        BY <1>3, <2>2, <3>2 DEF SysInitAt
      <4>2. CountNr2(a, m) = nr2[a] /\ nr2[a] = 1
        BY <1>3, <2>2, Counting DEF Roomy
      <4>3. cells'[a] = CountNr(a, m) /\ CountNr(a, m) < nr0[a]
        BY <1>3, <4>1, <4>2
      <4> QED
        BY <1>3, <1>4, <4>3
    <3> QED
      BY <3>1, <3>2
  <2>3. ASSUME a \notin lost', was[a] # 0
        PROVE  nr0[a] <= nr_allocated'[a] /\ held'[a] = nr0[a] * was[a]
    <3>1. /\ a \notin lost /\ nr0[a] <= nr_allocated[a] /\ was[a] = nr2[a]
          /\ held[a] = nr0[a] * was[a]
      BY <1>3, <1>6, <2>1, <2>3 DEF HeldOf, SysInitAt
    <3>2. CASE a \in collected'
      <4>1. /\ cells'[a] = CountNr(a, m) * nr2[a] /\ nr_allocated'[a] = CountNr(a, m)
            /\ CountNr(a, m) >= nr0[a]
        BY <1>3, <2>3, <3>2 DEF SysInitAt
      <4>2. nr0[a] * nr2[a] <= CountNr(a, m) * nr2[a]
        BY <1>3, <4>1, ProductGrows
      <4> QED
        BY <1>4, <3>1, <4>1, <4>2
    <3>3. CASE a \notin collected'
      BY <1>3, <1>4, <3>1, <3>3 DEF HeldOf, SysInitAt
    <3> QED
      BY <3>2, <3>3
  <2> QED
    BY <1>2, <1>3, <1>4, <2>1, <2>2, <2>3 DEF HeldOf
<1> QED
  BY <1>2, <1>5, <1>6

LEMMA OpenFileHeld ==
  ASSUME TypeOK, Held, OpenFile
  PROVE  Held'
<1>1. /\ phase \in {"open", "open again"}
      /\ phase' = (IF phase = "open" THEN "header" ELSE "header again")
  BY OpenFileCases
<1>2. CASE UNCHANGED sadc
  BY <1>1, <1>2, HeldKept DEF sadc
<1>3. ASSUME NEW f \in FirstFiles \cup NextFiles, f # NewFile, Adopt(f), UNCHANGED << nr0, was >>
      PROVE  Held'
  <2>1. lost' = lost /\ \A a \in Activity : AdoptAt(f, a)
    BY <1>3, AdoptStep
  <2>2. TypeOK'
    BY OpenFileTyped
  <2> SUFFICES ASSUME NEW a \in Activity PROVE HeldOf(a)'
    BY DEF Held
  <2>3. /\ HeldOf(a) /\ AdoptAt(f, a) /\ held[a] \in Int /\ was[a] \in Nat /\ cells[a] \in Int
        /\ cells'[a] \in Int /\ nr0[a] \in Int /\ nr2'[a] \in Nat /\ nr_allocated'[a] \in Int
        /\ nr_allocated[a] \in Int
    BY <2>1, <2>2, NumberParts, Bounds DEF Held, TypeOK, Sizes
  <2>4. /\ held'[a] <= cells'[a] /\ held'[a] <= held[a] /\ held'[a] \in Int
        /\ held[a] <= cells'[a] => held'[a] = held[a]
        /\ was'[a] = was[a]
    BY <1>3, <2>3 DEF AdoptAt, Kept, Lesser
  <2>5. nr_allocated'[a] >= nr_allocated[a]
    BY <2>3 DEF AdoptAt
  <2>6. CASE phase = "open"
    BY <1>1, <1>3, <2>1, <2>3, <2>4, <2>6 DEF HeldOf, Holding
  <2>7. CASE phase = "open again"
    <3>1. phase' = "header again" /\ phase \in Holding /\ phase' \in Holding /\ SameSubs
      BY <1>1, <2>7 DEF Holding, SameSubs
    <3>2. ASSUME a \notin lost, was[a] # 0, nr2'[a] = was[a]
          PROVE  held'[a] = nr0[a] * was[a]
      <4>1. nr0[a] <= nr_allocated[a] /\ held[a] = nr0[a] * was[a] /\ held[a] <= cells[a]
        BY <2>3, <3>1, <3>2 DEF HeldOf
      <4>2. CASE a \in f.listed
        <5>1. cells'[a] = nr_allocated'[a] * was[a]
          BY <2>3, <3>2, <4>2 DEF AdoptAt
        <5>2. nr0[a] * was[a] <= nr_allocated'[a] * was[a]
          BY <2>3, <2>5, <4>1, ProductGrows
        <5> QED
          BY <2>4, <4>1, <5>1, <5>2
      <4>3. CASE a \notin f.listed
        BY <2>3, <2>4, <4>1, <4>3 DEF AdoptAt
      <4> QED
        BY <4>2, <4>3
    <3>3. ASSUME a \in lost, a \notin Matrix PROVE held'[a] < nr0[a]
      <4>1. held[a] < nr0[a]
        BY <2>3, <3>1, <3>3, Zenon DEF HeldOf
      <4> QED
        BY <2>3, <2>4, <4>1
    <3>4. ASSUME a \notin lost, was[a] # 0 PROVE nr0[a] <= nr_allocated'[a]
      <4>1. nr0[a] <= nr_allocated[a]
        BY <2>3, <3>1, <3>4, Zenon DEF HeldOf
      <4> QED
        BY <2>3, <2>5, <4>1
    <3> QED
      BY <1>3, <2>1, <2>3, <2>4, <3>1, <3>2, <3>3, <3>4 DEF HeldOf, SameSubs
  <2> QED
    BY <1>1, <2>6, <2>7
<1> QED
  BY <1>2, <1>3, OpenFileCases

LEMMA ResetStatsHeld ==
  ASSUME TypeOK, ResetStats
  PROVE  Held'
<1> SUFFICES ASSUME NEW a \in Activity PROVE HeldOf(a)'
  BY DEF Held
<1>1. held'[a] = 0 /\ was'[a] = 0 /\ phase' = "read" /\ cells' = cells /\ cells[a] \in Nat
  BY NumberParts DEF ResetStats
<1> QED
  BY <1>1 DEF HeldOf, Holding

LEMMA ReadStatsHeld ==
  ASSUME TypeOK, Announced, Roomy, Held, ReadStats
  PROVE  Held'
<1>1. PICK items \in Items : \A a \in Activity : ReadAt(items, a)
  BY ReadStep
<1>2. /\ phase = "read" /\ phase' = "stdout" /\ collected' = collected /\ nr2' = nr2
      /\ lost' = misfit' \cap collected
  BY ReadStep
<1>3. TypeOK' /\ Roomy'
  BY ReadStatsTyped, ReadStatsRoomy
<1> SUFFICES ASSUME NEW a \in Activity PROVE HeldOf(a)'
  BY DEF Held
<1>4. /\ HeldOf(a) /\ ReadAt(items, a) /\ nr2[a] \in Nat /\ nr0'[a] \in Int /\ cells'[a] \in Int
      /\ nr_allocated'[a] \in Nat /\ held[a] \in Int /\ cells[a] \in Int
  BY <1>1, <1>3, NumberParts, Bounds DEF Held, TypeOK, Counts, Sizes
<1>5. a \notin Matrix => nr2[a] = 1 /\ a \notin lost'
  BY <1>2, <1>3 DEF Roomy
<1>6. CASE a \in collected
  <2>1. nr2[a] # 0
    BY <1>2, <1>4, <1>6 DEF Announced
  <2>2. /\ held'[a] = Lesser(nr0'[a] * nr2[a], cells'[a]) /\ was'[a] = nr2[a]
    BY <1>4, <1>6 DEF ReadAt
  <2>3. nr0'[a] * nr2[a] \in Int
    BY <1>4
  <2>4. held'[a] <= cells'[a]
    BY <1>4, <2>2, <2>3 DEF Lesser
  <2>5. nr0'[a] <= nr_allocated'[a]
    BY <1>2, <1>3, <1>6 DEF Roomy
  <2>6. ASSUME a \notin lost' PROVE held'[a] = nr0'[a] * nr2[a]
    <3>1. nr_allocated'[a] * nr2[a] <= cells'[a]
      BY <1>2, <1>3, <1>6, <2>6 DEF Roomy, Room
    <3>2. nr0'[a] * nr2[a] <= nr_allocated'[a] * nr2[a] /\ nr_allocated'[a] * nr2[a] \in Int
      BY <1>4, <2>5, ProductGrows
    <3> QED
      BY <1>4, <2>2, <2>3, <3>1, <3>2 DEF Lesser
  <2> QED
    BY <1>2, <1>5, <2>1, <2>2, <2>4, <2>5, <2>6 DEF HeldOf, Holding
<1>7. CASE a \notin collected
  <2>1. held'[a] = held[a] /\ was'[a] = was[a] /\ cells'[a] = cells[a] /\ was[a] = 0 /\ a \notin lost'
    BY <1>2, <1>4, <1>7 DEF ReadAt, HeldOf
  <2> QED
    BY <1>2, <1>4, <1>7, <2>1 DEF HeldOf
<1> QED
  BY <1>6, <1>7

LEMMA NextHeld == TypeOK /\ Announced /\ Roomy /\ Held /\ [Next]_vars => Held'
<1> SUFFICES ASSUME TypeOK, Announced, Roomy, Held, [Next]_vars PROVE Held'
  OBVIOUS
<1>1. CASE Header
  BY <1>1, HeldKept DEF Header, sadc
<1>2. CASE WriteStdout
  BY <1>2, HeldKept DEF WriteStdout, sadc
<1>3. CASE WriteFile
  BY <1>3, HeldKept DEF WriteFile, sadc
<1>4. CASE UNCHANGED vars
  BY <1>4, HeldKept DEF vars
<1> QED
  BY <1>1, <1>2, <1>3, <1>4, SysInitHeld, OpenFileHeld, ResetStatsHeld, ReadStatsHeld, Zenon DEF Next

LEMMA InitHeld == Init => Held
<1> SUFFICES ASSUME Init, NEW a \in Activity PROVE HeldOf(a)
  BY DEF Held
<1>1. held[a] = 0 /\ was[a] = 0 /\ cells[a] = 0 /\ phase = "init"
  BY DEF Init
<1> QED
  BY <1>1 DEF HeldOf, Holding

LEMMA HeldWrites == TypeOK /\ Announced /\ Roomy /\ Held => WritesWhatWasRead
<1> SUFFICES ASSUME TypeOK, Announced, Roomy, Held PROVE WritesWhatWasRead
  OBVIOUS
<1>1. ASSUME phase \in {"stdout", "file"}, NEW a \in collected \ lost PROVE AsRead(a)
  <2>1. a \in Activity
    BY DEF TypeOK
  <2>2. HeldOf(a)
    BY <2>1 DEF Held
  <2>3. was[a] = nr2[a] /\ held[a] = nr0[a] * nr2[a]
    BY <1>1, <2>2 DEF HeldOf, Holding, SameSubs
  <2> QED
    BY <2>3, Zenon DEF AsRead
<1>2. ASSUME phase = "file again", NEW a \in collected
      PROVE  /\ was[a] = nr2[a] /\ a \notin lost => AsRead(a)
             /\ a \notin Matrix => (AsRead(a) <=> was[a] # 0 /\ a \notin lost)
  <2>1. a \in Activity
    BY DEF TypeOK
  <2>0. phase \in Holding
    BY <1>2 DEF Holding
  <2>2. /\ HeldOf(a) /\ nr2[a] > 0 /\ nr2[a] \in Int /\ held[a] \in Int /\ nr0[a] \in Int
        /\ a \notin Matrix => nr2[a] = 1
    <3>1. nr2[a] > 0
      BY <1>2 DEF Announced
    <3>2. HeldOf(a) /\ (a \notin Matrix => nr2[a] = 1)
      BY <2>1 DEF Held, Roomy
    <3> QED
      BY <2>1, <3>1, <3>2, NumberParts
  <2>3. ASSUME was[a] = nr2[a], a \notin lost PROVE AsRead(a)
    <3>1. was[a] # 0
      BY <2>2, <2>3
    <3>2. held[a] = nr0[a] * was[a]
      BY <2>0, <2>2, <2>3, <3>1, Zenon DEF HeldOf
    <3> QED
      BY <2>1, <2>3, <3>2, Zenon DEF AsRead
  <2>4. ASSUME AsRead(a), a \notin Matrix PROVE was[a] # 0 /\ a \notin lost
    <3>1. was[a] = nr2[a] /\ held[a] = nr0[a] * nr2[a]
      BY <2>4 DEF AsRead
    <3>2. was[a] # 0 /\ held[a] = nr0[a]
      BY <2>2, <2>4, <3>1
    <3>3. a \in lost => held[a] < nr0[a]
      BY <2>0, <2>2, <2>4, Zenon DEF HeldOf
    <3> QED
      BY <2>2, <3>2, <3>3
  <2>5. ASSUME a \notin Matrix, was[a] # 0 PROVE was[a] = nr2[a]
    BY <2>2, <2>5 DEF HeldOf
  <2> QED
    BY <2>3, <2>4, <2>5
<1> QED
  BY <1>1, <1>2 DEF WritesWhatWasRead

\* The structures written for an activity are those that were read in the same
\* iteration, in the old file as in the new one of a rotation, whatever that file
\* lists: if they fitted when they were read, and the items counted at the rotation are
\* as many as those read, with the same sub-items.  Without sub-items these are the
\* only activities of which what is written was read.
THEOREM WritesWhatWasReadCorrect == Spec => []WritesWhatWasRead
<1> DEFINE Inv == TypeOK /\ Announced /\ Roomy /\ Held
<1>1. Init => Inv
  BY InitTyped, InitAnnounced, InitRoomy, InitHeld
<1>2. Inv /\ [Next]_vars => Inv'
  BY NextTyped, NextAnnounced, NextRoomy, NextHeld
<1>3. Inv => WritesWhatWasRead
  BY HeldWrites
<1> QED
  BY <1>1, <1>2, <1>3, PTL DEF Spec
=============================================================================
