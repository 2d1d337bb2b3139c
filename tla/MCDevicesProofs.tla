--------------------------- MODULE MCDevicesProofs ---------------------------
(***************************************************************************)
(* The reports of iostat, cifsiostat and tapestat, whatever comes, leaves  *)
(* and comes back between two readings, and for any number of devices, of  *)
(* readings and of registrations.                                          *)
(***************************************************************************)
EXTENDS MCDevices, SumTheorems, SequenceTheorems

\* A line is told to be of a device or of a group by its name.
NamesApart == Groups \cap Devices = {}

\* A sum is taken over the devices of a group.
FiniteDevices == IsFiniteSet(Devices)

Kinds == Groups \cup {NoGroup}

\* What main() of iostat has made of the command line: -p takes a device of the
\* list, and a group is entered with its devices, displayed even if unused.
OptionOK(o) ==
  /\ o.pdev \subseteq DOMAIN o.listed /\ o.groups \subseteq Groups /\ o.last \in Kinds
  /\ \A d \in DOMAIN o.listed : o.listed[d] \in Kinds
  /\ o.groups # {} => o.unfiltered

LEMMA OptionsOK ==
  ASSUME NEW o \in IoOptions
  PROVE  OptionOK(o)
<1>1. CASE \/ o = [AllDisks EXCEPT !.ext = TRUE, !.pretty = TRUE]
           \/ o = [AllDisks EXCEPT !.omit = TRUE, !.zero = TRUE, !.count = 2]
           \/ o = [AllDisks EXCEPT !.every = TRUE, !.json = TRUE, !.ext = TRUE]
  <2>1. o.pdev = {} /\ o.groups = {} /\ o.last = NoGroup /\ o.listed = << >>
    BY <1>1 DEF AllDisks, Plain
  <2> QED
    BY <2>1 DEF OptionOK, Kinds
<1>2. CASE \/ o = [Plain EXCEPT !.listed = [d \in {"sda"} |-> NoGroup], !.pdev = {"sda"}]
           \/ o = [Plain EXCEPT !.listed = [d \in {"sda1"} |-> NoGroup], !.ext = TRUE]
  <2>1. /\ o.groups = {} /\ o.last = NoGroup
        /\ \/ o.listed = [d \in {"sda"} |-> NoGroup] /\ o.pdev = {"sda"}
           \/ o.listed = [d \in {"sda1"} |-> NoGroup] /\ o.pdev = {}
    BY <1>2 DEF Plain
  <2> QED
    BY <2>1 DEF OptionOK, Kinds
<1>3. CASE \E g \in Groups : \E e \in BOOLEAN : o = [InGroup(g) EXCEPT !.ext = e]
  <2>1. PICK g \in Groups : \E e \in BOOLEAN : o = [InGroup(g) EXCEPT !.ext = e]
    BY <1>3
  <2>2. o.pdev = {} /\ o.groups = {g} /\ o.last = g /\ o.listed = [d \in Disks |-> g] /\ o.unfiltered
    BY <2>1 DEF InGroup, Plain
  <2> QED
    BY <2>2 DEF OptionOK, Kinds
<1>4. CASE \E g \in Groups : o = [InGroup(g) EXCEPT !.groups = Groups, !.json = TRUE, !.gonly = TRUE]
  <2>1. PICK g \in Groups : o = [InGroup(g) EXCEPT !.groups = Groups, !.json = TRUE, !.gonly = TRUE]
    BY <1>4
  <2>2. o.pdev = {} /\ o.groups = Groups /\ o.last = g /\ o.listed = [d \in Disks |-> g] /\ o.unfiltered
    BY <2>1 DEF InGroup, Plain
  <2> QED
    BY <2>2 DEF OptionOK, Kinds
<1>5. o \in IoByName \/ o \in IoOneGroup \/ o \in IoAllGroups
  BY DEF IoOptions
<1>6. o \in IoOneGroup => \E g \in Groups : \E e \in BOOLEAN : o = [InGroup(g) EXCEPT !.ext = e]
  BY DEF IoOneGroup
<1>7. o \in IoAllGroups =>
        \E g \in Groups : o = [InGroup(g) EXCEPT !.groups = Groups, !.json = TRUE, !.gonly = TRUE]
  BY DEF IoAllGroups
<1>8. o \in IoByName => OptionOK(o)
  BY <1>1, <1>2 DEF IoByName
<1> QED
  BY <1>3, <1>4, <1>5, <1>6, <1>7, <1>8

-----------------------------------------------------------------------------
(* The devices. *)

\* What the devices have counted, now and at the previous reading.
Grew(d) == Stayed(d) => kern[d].ios >= lastk[d].ios /\ kern[d].sec >= lastk[d].sec
Shown == [up: BOOLEAN, ios: Nat, sec: Nat, reg: Nat]
KernOK ==
  /\ kern \in [Devices -> Shown] /\ lastk \in [Devices -> Shown] /\ sample \in Nat
  /\ \A d \in Devices : Grew(d)

\* The modules of the three tools are about the same devices.
LEMMA SameDevices ==
  /\ I!Elapse <=> Elapse
  /\ C!Elapse <=> Elapse
  /\ I!KernInit <=> KernInit
  /\ C!KernInit <=> KernInit
  /\ I!Devices = Devices /\ C!Devices = Devices
<1>1. I!Devices = Devices /\ C!Devices = Devices
  BY DEF I!Devices, C!Devices, Devices
<1>2. (I!Elapse <=> Elapse) /\ (C!Elapse <=> Elapse)
  BY Zenon DEF I!Elapse, C!Elapse, Elapse, I!Fates, C!Fates, Fates, I!Allowed, C!Allowed, Allowed,
     I!After, C!After, After, I!Fresh, C!Fresh, Fresh, I!Absent, C!Absent, Absent,
     I!Disk, C!Disk, Disk, I!Devices, C!Devices, Devices
<1>3. (I!KernInit <=> KernInit) /\ (C!KernInit <=> KernInit)
  BY Zenon DEF I!KernInit, C!KernInit, KernInit, I!Fresh, C!Fresh, Fresh, I!Absent, C!Absent, Absent,
     I!Devices, C!Devices, Devices
<1> QED
  BY <1>1, <1>2, <1>3

LEMMA AfterType ==
  ASSUME NEW k \in Shown, NEW f \in Fates
  PROVE  /\ After(k, f) \in Shown
         /\ k.up /\ After(k, f).up /\ k.reg = After(k, f).reg =>
              After(k, f).ios >= k.ios /\ After(k, f).sec >= k.sec
<1> USE DevicesAssumption
<1>1. /\ f[1] \in {"works", "again", "leaves"}
      /\ f[1] \in {"works", "again"} => f[2] \in Nat \X Nat
  BY DEF Fates
<1>2. k.ios \in Nat /\ k.sec \in Nat /\ k.reg \in Nat /\ k.up \in BOOLEAN
  BY DEF Shown
<1>3. CASE f[1] = "works"
  <2> DEFINE x == f[2][1]
             y == f[2][2]
  <2>1. After(k, f) = IF k.up THEN [k EXCEPT !.ios = @ + x, !.sec = @ + y] ELSE k
    BY <1>3 DEF After
  <2>2. x \in Nat /\ y \in Nat
    BY <1>1, <1>3
  <2> HIDE DEF x, y
  <2>3. CASE ~k.up
    BY <2>1, <2>3
  <2>4. CASE k.up
    <3>1. After(k, f) = [k EXCEPT !.ios = @ + x, !.sec = @ + y]
      BY <2>1, <2>4
    <3>2. After(k, f) = [up |-> k.up, ios |-> k.ios + x, sec |-> k.sec + y, reg |-> k.reg]
      BY <3>1 DEF Shown
    <3> QED
      BY <1>2, <2>2, <3>2 DEF Shown
  <2> QED
    BY <2>3, <2>4
<1>4. CASE f[1] = "again"
  <2>1. After(k, f) = Fresh(f[2], k.reg + 1)
    BY <1>4 DEF After
  <2> QED
    BY <1>1, <1>2, <1>4, <2>1 DEF Shown, Fresh
<1>5. CASE f[1] = "leaves"
  <2>1. After(k, f) = Absent(k.reg)
    BY <1>5 DEF After
  <2> QED
    BY <1>2, <2>1 DEF Shown, Absent
<1> QED
  BY <1>1, <1>3, <1>4, <1>5

\* Time passes.
LEMMA Elapsed ==
  ASSUME KernOK, Elapse, lastk' = kern, sample' = sample
  PROVE  KernOK'
<1> USE DevicesAssumption
<1>1. PICK f \in [Disks -> Fates] : kern' = [d \in Devices |-> After(kern[d], f[Disk(d)])]
  BY Zenon DEF Elapse
<1>2. ASSUME NEW d \in Devices PROVE kern'[d] \in Shown /\ Grew(d)'
  <2>1. Disk(d) \in Disks /\ f[Disk(d)] \in Fates
    BY DEF Disk, Devices
  <2>2. kern[d] \in Shown /\ kern'[d] = After(kern[d], f[Disk(d)])
    BY <1>1 DEF KernOK
  <2> QED
    BY <2>1, <2>2, AfterType DEF Grew, Stayed
<1>3. kern' \in [Devices -> Shown]
  BY <1>1, <1>2
<1> QED
  BY <1>2, <1>3 DEF KernOK

LEMMA KernAtInit ==
  ASSUME KernInit
  PROVE  KernOK /\ sample = 0 /\ \A d \in Devices : ~lastk[d].up
<1>1. \A d \in Devices : kern[d] \in Shown
  <2>1. Fresh(<< 1, 1 >>, 0) \in Shown /\ Absent(0) \in Shown
    BY DEF Fresh, Absent, Shown
  <2> QED
    BY <2>1 DEF KernInit
<1>2. \A d \in Devices : lastk[d] = Absent(0) /\ Absent(0) \in Shown /\ ~Absent(0).up
  BY DEF KernInit, Absent, Shown
<1> QED
  BY <1>1, <1>2 DEF KernInit, KernOK, Grew, Stayed

-----------------------------------------------------------------------------
(* The samples of iostat and of cifsiostat.                                 *)

Held == [ios: Nat, sec: Nat, at: Nat, reg: Nat]
TwoSamples == [{0, 1} -> Held]

\* A sample that was never filled is zero.
NeverFilled(s) == s.at = 0 => s.ios = 0 /\ s.sec = 0

\* The counters of a device, as a reading copied them.
Copies(s, k) == s.ios = k.ios /\ s.sec = k.sec

IoEntry == [in: BOOLEAN, dev_tp: {0, 1, 2}, exist: BOOLEAN, num: BOOLEAN, grp: Kinds, st: TwoSamples]

Listed(d) == d \in DOMAIN opt.listed

\* The type of a device entered on the command line that was registered then.
TypeEntered(d) == IF d \in Disks THEN IF d \in opt.pdev THEN 2 ELSE 1 ELSE 0

\* The entry of a device is that of the command line, or that of a reading.
IoEntered(d) ==
  /\ Listed(d) => dev_list[d].in /\ dev_list[d].dev_tp = IF dev_list[d].num THEN TypeEntered(d) ELSE 0
  /\ ~Listed(d) /\ dev_list[d].in =>
       /\ dev_list[d].num /\ I!Selected(d)
       /\ dev_list[d].dev_tp = IF d \in Disks THEN 1 ELSE 0

\* The last reading found the devices that are there, and copied their counters.
IoCurrent(d) ==
  /\ dev_list[d].exist <=> kern[d].up /\ I!Selected(d)
  /\ dev_list[d].exist => dev_list[d].in /\ Copies(dev_list[d].st[curr], kern[d])

\* The reading before it found those that were there, and copied theirs.
IoBefore(d) ==
  lastk[d].up /\ I!Selected(d) => dev_list[d].in /\ Copies(dev_list[d].st[1 - curr], lastk[d])

IoType ==
  /\ pc \in {"read", "write", "pause", "done"} /\ opt \in IoOptions
  /\ dev_list \in [Devices -> IoEntry] /\ curr \in {0, 1}
  /\ \A d \in Devices : \A i \in {0, 1} : NeverFilled(dev_list[d].st[i])

IoInv ==
  /\ IoType
  /\ \A d \in Devices : IoEntered(d)
  /\ pc \in {"write", "pause"} => \A d \in Devices : IoCurrent(d)
  /\ pc \in {"read", "write"} => \A d \in Devices : IoBefore(d)

-----------------------------------------------------------------------------
(* cifsiostat.                                                              *)

CifsEntry == [in: BOOLEAN, exist: BOOLEAN, st: TwoSamples]

CifsInv ==
  /\ pc \in {"read", "write", "pause", "done"} /\ opt \in OtherOptions
  /\ dev_list \in [Devices -> CifsEntry] /\ curr \in {0, 1}
  /\ \A d \in Devices : \A i \in {0, 1} : NeverFilled(dev_list[d].st[i])
  /\ pc \in {"write", "pause"} => \A d \in Devices :
       /\ dev_list[d].exist <=> kern[d].up
       /\ dev_list[d].exist => Copies(dev_list[d].st[curr], kern[d])
  /\ pc \in {"read", "write"} => \A d \in Devices :
       lastk[d].up => Copies(dev_list[d].st[1 - curr], lastk[d])

-----------------------------------------------------------------------------
(* tapestat.                                                                *)

Cell == [valid: BOOLEAN, st: Held]
Cells == Seq(Cell)
Drives == DOMAIN tape_new_stats

\* An element that is valid is that of a drive that was read.
TapeRead(e, i) ==
  e.valid => Ready(i) /\ Copies(e.st, kern[DriveSeq[i]]) /\ NeverFilled(e.st)

\* The element of the previous reading.
TapeBefore(e, i) ==
  e.valid => /\ sample > 1 => lastk[DriveSeq[i]].up
             /\ lastk[DriveSeq[i]].up => Copies(e.st, lastk[DriveSeq[i]])

TapeType ==
  /\ pc \in {"read", "write", "pause", "done"}
  /\ tape_old_stats \in Cells /\ tape_new_stats \in Cells
  /\ Len(tape_old_stats) = Len(tape_new_stats) /\ Len(tape_new_stats) <= Len(DriveSeq)

TapeInv ==
  /\ TapeType
  /\ pc = "read" => sample = 0 \/ Len(tape_new_stats) > 0
  /\ pc \in {"write", "pause"} => sample > 0
  /\ pc = "read" /\ sample = 0 => Len(tape_new_stats) = 0 /\ \A d \in Devices : ~lastk[d].up
  /\ pc = "read" => \A i \in Drives :
       /\ tape_old_stats[i].valid => lastk[DriveSeq[i]].up /\ NeverFilled(tape_old_stats[i].st)
       /\ TapeBefore(tape_old_stats[i], i)
  /\ pc = "write" => \A i \in Drives :
       /\ TapeRead(tape_new_stats[i], i) /\ TapeBefore(tape_old_stats[i], i)
       /\ tape_new_stats[i].valid /\ tape_old_stats[i].valid => NeverFilled(tape_old_stats[i].st)
  /\ pc = "write" => count = 0 \/ Len(tape_new_stats) > 0
  /\ pc = "pause" => Len(tape_new_stats) > 0 /\ \A i \in Drives : TapeRead(tape_old_stats[i], i)

-----------------------------------------------------------------------------
(* The readings of cifsiostat.                                              *)

\* The counters copied by a reading.
LEMMA StatsHeld ==
  ASSUME KernOK, NEW d \in Devices, NEW n \in Nat \ {0}, NEW s,
         s = [ios |-> kern[d].ios, sec |-> kern[d].sec, at |-> n, reg |-> kern[d].reg]
  PROVE  s \in Held /\ NeverFilled(s) /\ Copies(s, kern[d])
<1>1. kern[d] \in Shown
  BY DEF KernOK
<1> QED
  BY <1>1 DEF Shown, Held, NeverFilled, Copies

LEMMA NothingHeld ==
  ASSUME NEW s, s = [ios |-> 0, sec |-> 0, at |-> 0, reg |-> 0]
  PROVE  s \in Held /\ NeverFilled(s)
  BY DEF Held, NeverFilled

LEMMA CifsRead ==
  ASSUME KernOK, CifsInv, C!ReadStats
  PROVE  KernOK' /\ CifsInv'
<1>1. /\ pc = "read" /\ sample' = sample + 1
      /\ kern' = kern /\ lastk' = lastk /\ opt' = opt /\ curr' = curr
      /\ pc' \in {"write", "done"}
  BY Zenon DEF C!ReadStats
<1>2. KernOK'
  BY <1>1 DEF KernOK, Grew, Stayed
<1>3. sample' \in Nat \ {0} /\ curr \in {0, 1} /\ dev_list \in [Devices -> CifsEntry]
  BY <1>1 DEF KernOK, CifsInv
<1>4. CASE dev_list' = C!ReadList
  <2>1. ASSUME NEW d \in Devices, kern[d].up
        PROVE  /\ dev_list'[d] \in CifsEntry /\ dev_list'[d].exist
               /\ Copies(dev_list'[d].st[curr], kern[d])
               /\ dev_list'[d].st[1 - curr] = dev_list[d].st[1 - curr]
               /\ NeverFilled(dev_list'[d].st[curr])
    <3> DEFINE s == [ios |-> kern[d].ios, sec |-> kern[d].sec, at |-> sample', reg |-> kern[d].reg]
               t == [dev_list[d].st EXCEPT ![curr] = s]
    <3>1. dev_list'[d] = [in |-> TRUE, exist |-> TRUE, st |-> t]
      BY <1>4, <2>1, SameDevices DEF C!ReadList, C!ReadShare, C!Stats
    <3>2. s \in Held /\ NeverFilled(s) /\ Copies(s, kern[d])
      BY <1>3, StatsHeld
    <3> HIDE DEF s
    <3>3. dev_list[d] \in CifsEntry
      BY <1>3
    <3>4. dev_list[d].st \in TwoSamples
      BY <3>3 DEF CifsEntry
    <3>5. t \in TwoSamples /\ t[curr] = s /\ t[1 - curr] = dev_list[d].st[1 - curr]
      BY <1>3, <3>2, <3>4 DEF TwoSamples
    <3> HIDE DEF t
    <3> QED
      BY <3>1, <3>2, <3>5 DEF CifsEntry
  <2>2. ASSUME NEW d \in Devices, ~kern[d].up
        PROVE  /\ dev_list'[d] \in CifsEntry /\ dev_list'[d].exist = FALSE
               /\ dev_list'[d].st = dev_list[d].st
    <3>1. dev_list'[d] = [dev_list[d] EXCEPT !.exist = FALSE]
      BY <1>4, <2>2, SameDevices DEF C!ReadList
    <3>2. dev_list[d] \in CifsEntry
      BY <1>3
    <3> QED
      BY <3>1, <3>2 DEF CifsEntry
  <2>3. DOMAIN dev_list' = Devices /\ dev_list' = [d \in Devices |-> dev_list'[d]]
    BY <1>4, SameDevices DEF C!ReadList
  <2>4. dev_list' \in [Devices -> CifsEntry]
    BY <2>1, <2>2, <2>3
  <2>5. ASSUME NEW d \in Devices, NEW i \in {0, 1} PROVE NeverFilled(dev_list'[d].st[i])
    <3>1. NeverFilled(dev_list[d].st[i])
      BY DEF CifsInv
    <3>2. i = curr \/ i = 1 - curr
      BY <1>3
    <3> QED
      BY <2>1, <2>2, <3>1, <3>2
  <2>6. ASSUME NEW d \in Devices, lastk[d].up
        PROVE  Copies(dev_list'[d].st[1 - curr], lastk[d])
    BY <1>1, <2>1, <2>2, <2>6 DEF CifsInv
  <2> QED
    BY <1>1, <1>2, <1>3, <2>1, <2>2, <2>4, <2>5, <2>6 DEF CifsInv
<1>5. CASE /\ \A d \in Devices : ~kern[d].up
           /\ dev_list' = [d \in Devices |-> [dev_list[d] EXCEPT !.exist = FALSE]]
  <2>1. ASSUME NEW d \in Devices
        PROVE  /\ dev_list'[d] \in CifsEntry /\ dev_list'[d].exist = FALSE
               /\ dev_list'[d].st = dev_list[d].st
    <3>1. dev_list[d] \in CifsEntry
      BY <1>3
    <3> QED
      BY <1>5, <3>1 DEF CifsEntry
  <2>2. dev_list' \in [Devices -> CifsEntry]
    BY <1>5, <2>1
  <2> QED
    BY <1>1, <1>2, <1>5, <2>1, <2>2 DEF CifsInv
<1> QED
  BY <1>4, <1>5, SameDevices DEF C!ReadStats

-----------------------------------------------------------------------------
(* Lines.                                                                   *)

LEMMA MinusTrue ==
  ASSUME NEW a \in Int, NEW b \in Int
  PROVE  (Minus(a, b) - (a - b)) % Width = 0
<1> DEFINE x == a - b
           q == x \div Width
           y == (x % Width) - x
<1>1. Width \in Nat \ {0} /\ x \in Int
  BY DevicesAssumption
<1> HIDE DEF x
<1>2. x = Width * q + (x % Width) /\ q \in Int /\ x % Width \in Int
  BY <1>1
<1> HIDE DEF q
<1> DEFINE p == Width * q
<1>3. y = Width * (-q) /\ -q \in Int
  <2>1. p \in Int /\ x = p + (x % Width)
    BY <1>1, <1>2
  <2>2. Width * (-q) = -p
    BY <1>1, <1>2
  <2> HIDE DEF p
  <2>3. y = -p
    BY <1>1, <1>2, <2>1
  <2> QED
    BY <1>2, <2>2, <2>3
<1> HIDE DEF y
<1>4. y % Width = 0
  <2>1. PICK k \in Int : y = Width * k
    BY <1>3
  <2> QED
    BY <1>1, <2>1
<1> QED
  BY <1>4 DEF Minus, x, y

LEMMA ZeroTrue == \A a \in Int : (a - a) % Width = 0
<1>1. Width \in Nat \ {0}
  BY DevicesAssumption
<1>2. 0 % Width = 0
  BY <1>1
<1> QED
  BY <1>2

\* The line of a device says what it did.
Tells(d, ios, sec) ==
  (ios - Did(d).ios) % Width = 0 /\ (sec - Did(d).sec) % Width = 0

\* Differences of the counters of now and of a sample that is the one of the
\* previous reading if the device stayed.
LEMMA DifferenceTells ==
  ASSUME KernOK, NEW d \in Devices, NEW i \in Held, NEW j \in Held,
         Copies(i, kern[d]), Stayed(d) => Copies(j, lastk[d]), NeverFilled(j),
         Stayed(d) \/ j.at = 0
  PROVE  Tells(d, Minus(i.ios, j.ios), Minus(i.sec, j.sec))
<1>1. i.ios \in Int /\ i.sec \in Int /\ j.ios \in Int /\ j.sec \in Int
  BY DEF Held
<1>2. Did(d).ios = i.ios - j.ios /\ Did(d).sec = i.sec - j.sec
  <2>1. CASE Stayed(d)
    BY <2>1 DEF Did, Copies
  <2>2. CASE ~Stayed(d)
    BY <1>1, <2>2 DEF Did, Copies, NeverFilled
  <2> QED
    BY <2>1, <2>2
<1> QED
  BY <1>1, <1>2, MinusTrue DEF Tells

\* A report, or none, leaves what was displayed as it was.
LEMMA SameOut ==
  ASSUME LinesTrue, \/ out' = {}
                    \/ out' = out /\ kern' = kern /\ lastk' = lastk
  PROVE  LinesTrue'
<1>1. CASE out' = {}
  BY <1>1 DEF LinesTrue, OfDevices
<1>2. CASE out' = out /\ kern' = kern /\ lastk' = lastk
  BY <1>2 DEF LinesTrue, OfDevices, Stayed, Did
<1> QED
  BY <1>1, <1>2

-----------------------------------------------------------------------------
(* The reports of cifsiostat.                                               *)

LEMMA CifsLine ==
  ASSUME KernOK, CifsInv, pc = "write", NEW d \in Devices, dev_list[d].exist
  PROVE  /\ C!Line(d).name = d
         /\ Stayed(d) \/ C!Line(d).at = 0 => Tells(d, C!Line(d).ios, C!Line(d).sec)
<1> DEFINE i == dev_list[d].st[curr]
           j == dev_list[d].st[1 - curr]
<1>1. dev_list[d] \in CifsEntry /\ curr \in {0, 1} /\ 1 - curr \in {0, 1}
  BY DEF CifsInv
<1>2. dev_list[d].st \in [{0, 1} -> Held]
  BY <1>1 DEF CifsEntry, TwoSamples
<1>3. i \in Held /\ j \in Held
  BY <1>1, <1>2
<1>4. Copies(i, kern[d]) /\ NeverFilled(j) /\ (lastk[d].up => Copies(j, lastk[d]))
  BY <1>1 DEF CifsInv
<1>5. /\ C!Line(d).name = d /\ C!Line(d).at = j.at
      /\ C!Line(d).ios = Minus(i.ios, j.ios) /\ C!Line(d).sec = Minus(i.sec, j.sec)
  BY DEF C!Line, C!Minus, Minus
<1> HIDE DEF i, j
<1>6. Stayed(d) => Copies(j, lastk[d])
  BY <1>4 DEF Stayed
<1> QED
  BY <1>3, <1>4, <1>5, <1>6, DifferenceTells

LEMMA CifsWrite ==
  ASSUME KernOK, CifsInv, LinesTrue, C!WriteStats
  PROVE  KernOK' /\ CifsInv' /\ LinesTrue' /\ C!DevicesReported'
<1>1. /\ pc = "write" /\ pc' \in {"done", "pause"}
      /\ kern' = kern /\ lastk' = lastk /\ sample' = sample
      /\ opt' = opt /\ dev_list' = dev_list /\ curr' = curr /\ skip' = skip
      /\ out' = IF skip THEN {} ELSE C!Report
  BY Zenon DEF C!WriteStats, C!kernVars
<1>2. KernOK' /\ CifsInv'
  <2>1. KernOK'
    BY <1>1 DEF KernOK, Grew, Stayed
  <2>2. CifsInv'
    BY <1>1 DEF CifsInv
  <2> QED
    BY <2>1, <2>2
<1>3. CASE skip
  <2>1. LinesTrue'
    BY <1>1, <1>3, SameOut
  <2> QED
    BY <1>1, <1>2, <1>3, <2>1 DEF C!DevicesReported
<1>4. CASE ~skip
  <2>1. out' = {C!Line(d) : d \in {e \in Devices : dev_list[e].exist}}
    BY <1>1, <1>4, SameDevices DEF C!Report
  <2>2. LinesTrue'
    <3> SUFFICES ASSUME NEW l \in OfDevices', (Stayed(l.name) \/ l.at = 0)'
                 PROVE  (/\ (l.ios - Did(l.name).ios) % Width = 0
                         /\ (l.sec - Did(l.name).sec) % Width = 0)'
      BY DEF LinesTrue
    <3>1. PICK d \in Devices : dev_list[d].exist /\ l = C!Line(d)
      BY <2>1 DEF OfDevices
    <3>2. Did(d)' = Did(d) /\ (Stayed(d)' <=> Stayed(d))
      BY <1>1 DEF Did, Stayed
    <3>3. l.name = d
      BY <1>1, <3>1, CifsLine
    <3>4. Stayed(d) \/ l.at = 0
      BY <1>1, <3>2, <3>3 DEF Stayed
    <3>5. Tells(d, l.ios, l.sec)
      BY <1>1, <3>1, <3>4, CifsLine
    <3>6. Did(l.name)' = Did(d)
      BY <1>1, <3>3 DEF Did, Stayed
    <3> QED
      BY <3>5, <3>6 DEF Tells
  <2>3. \A d \in Devices : dev_list[d].exist => C!Line(d).name = d
    BY <1>1, CifsLine
  <2>4. \A d \in Devices : dev_list[d].exist <=> kern[d].up
    BY <1>1 DEF CifsInv
  <2>5. {l.name : l \in {m \in out' : m.name \in Devices}} = {d \in Devices : kern[d].up}
    BY <2>1, <2>3, <2>4
  <2>6. C!DevicesReported'
    BY <1>1, <2>5, SameDevices DEF C!DevicesReported, C!OfDevices
  <2> QED
    BY <1>2, <2>2, <2>6
<1> QED
  BY <1>3, <1>4

LEMMA CifsPause ==
  ASSUME KernOK, CifsInv, LinesTrue, C!Pause
  PROVE  KernOK' /\ CifsInv' /\ LinesTrue' /\ C!DevicesReported'
<1>1. /\ pc = "pause" /\ pc' = "read" /\ lastk' = kern /\ sample' = sample /\ C!Elapse
      /\ opt' = opt /\ dev_list' = dev_list /\ curr' = 1 - curr /\ out' = {}
  BY Zenon DEF C!Pause
<1>2. KernOK'
  BY <1>1, SameDevices, Elapsed
<1>3. curr \in {0, 1} /\ curr' \in {0, 1} /\ 1 - curr' = curr
  BY <1>1 DEF CifsInv
<1>4. CifsInv'
  BY <1>1, <1>3 DEF CifsInv
<1>5. LinesTrue'
  BY <1>1, SameOut
<1> QED
  BY <1>1, <1>2, <1>4, <1>5 DEF C!DevicesReported

LEMMA CifsNext ==
  ASSUME KernOK, CifsInv, LinesTrue, C!DevicesReported, C!Next
  PROVE  KernOK' /\ CifsInv' /\ LinesTrue' /\ C!DevicesReported'
<1>1. CASE C!ReadStats
  <2>1. pc' \in {"write", "done"} /\ out' = out /\ kern' = kern /\ lastk' = lastk
    BY <1>1, Zenon DEF C!ReadStats
  <2>2. LinesTrue'
    BY <2>1, SameOut
  <2> QED
    BY <1>1, <2>1, <2>2, CifsRead DEF C!DevicesReported
<1>2. CASE C!Interrupted
  <2>1. /\ pc = "pause" /\ pc' = "done" /\ out' = out /\ kern' = kern /\ lastk' = lastk
        /\ sample' = sample /\ opt' = opt /\ dev_list' = dev_list /\ curr' = 1 - curr
    BY <1>2, Zenon DEF C!Interrupted, C!kernVars
  <2>2. KernOK'
    BY <2>1 DEF KernOK, Grew, Stayed
  <2>3. curr \in {0, 1} /\ curr' \in {0, 1}
    BY <2>1 DEF CifsInv
  <2>4. CifsInv'
    BY <2>1, <2>3 DEF CifsInv
  <2>5. LinesTrue'
    BY <2>1, SameOut
  <2> QED
    BY <2>1, <2>2, <2>4, <2>5 DEF C!DevicesReported
<1>3. CASE C!Done
  <2>1. /\ pc = "done" /\ pc' = pc /\ out' = out /\ kern' = kern /\ lastk' = lastk
        /\ sample' = sample /\ opt' = opt /\ dev_list' = dev_list /\ curr' = curr
    BY <1>3, Zenon DEF C!Done, C!vars, C!kernVars, C!toolVars
  <2>2. KernOK'
    BY <2>1 DEF KernOK, Grew, Stayed
  <2>3. CifsInv'
    BY <2>1 DEF CifsInv
  <2>4. LinesTrue'
    BY <2>1, SameOut
  <2> QED
    BY <2>1, <2>2, <2>3, <2>4 DEF C!DevicesReported
<1> QED
  BY <1>1, <1>2, <1>3, CifsWrite, CifsPause DEF C!Next

-----------------------------------------------------------------------------
(* The drives of tapestat.                                                  *)

LEMMA Arrays ==
  ASSUME NEW n \in Nat, NEW s \in [1..n -> Cell]
  PROVE  s \in Cells /\ Len(s) = n
<1>1. s \in UNION {[1..m -> Cell] : m \in Nat}
  OBVIOUS
<1>2. s \in Seq(Cell)
  BY <1>1, SeqDef
<1> QED
  BY <1>2, LenProperties DEF Cells

LEMMA NewMaxBound ==
  ASSUME TapeType
  PROVE  NewMax \in Len(tape_new_stats)..Len(DriveSeq) \/ NewMax = 0
<1> DEFINE n == Len(DriveSeq)
           R == {i \in Numbers : Ready(i)}
           m == CHOOSE i \in Numbers : Ready(i) /\ \A j \in Numbers : Ready(j) => j <= i
<1>1. n \in Nat /\ Numbers = 1..n
  BY DrivesAssumption DEF Numbers
<1>2. Len(tape_new_stats) \in 0..n
  BY DEF TapeType, Cells
<1>3. CASE R = {}
  BY <1>3 DEF NewMax
<1>4. CASE R # {}
  <2> DEFINE T == {n - i : i \in R}
  <2>1. T \subseteq Nat /\ T # {}
    BY <1>1, <1>4
  <2>2. PICK x \in T : \A y \in T : x <= y
    BY <2>1, LowestNumber
  <2>3. PICK i \in R : x = n - i
    OBVIOUS
  <2>4. ASSUME NEW j \in R PROVE j <= i
    <3>1. n - i <= n - j
      BY <2>2, <2>3
    <3> QED
      BY <1>1, <3>1
  <2>5. m \in 1..n
    <3>1. \E k \in Numbers : Ready(k) /\ \A j \in Numbers : Ready(j) => j <= k
      BY <2>4
    <3>2. m \in Numbers
      BY <3>1, Zenon
    <3> QED
      BY <1>1, <3>2
  <2>6. NewMax = IF m > Len(tape_new_stats) THEN m ELSE Len(tape_new_stats)
    BY <1>4 DEF NewMax, max_tape_drives
  <2> HIDE DEF m
  <2> QED
    BY <1>1, <1>2, <2>5, <2>6
<1> QED
  BY <1>3, <1>4

\* A cell with some counters.
LEMMA CellOf ==
  ASSUME NEW x \in Held, NEW b \in BOOLEAN, NEW e, e = [valid |-> b, st |-> x]
  PROVE  e \in Cell /\ e.valid = b /\ e.st = x
  BY DEF Cell

LEMMA CellWith ==
  ASSUME NEW e \in Cell, NEW b \in BOOLEAN
  PROVE  [e EXCEPT !.valid = b] \in Cell /\ [e EXCEPT !.valid = b].valid = b
  BY DEF Cell

LEMMA Uninit ==
  ASSUME NEW g \in Garbage
  PROVE  /\ Uninitialised(g) \in Cell /\ Uninitialised(g).valid = FALSE
         /\ [Uninitialised(g) EXCEPT !.valid = TRUE] \in Cell
<1> DEFINE r == [NoStats EXCEPT !.ios = g, !.sec = g]
<1>1. g \in Nat
  BY DrivesAssumption
<1>2. NoStats \in Held
  BY NothingHeld DEF NoStats
<1>3. \A h \in Held : [h EXCEPT !.ios = g, !.sec = g] \in Held
  BY <1>1 DEF Held
<1>4. r \in Held
  BY <1>2, <1>3
<1>5. Uninitialised(g) = [valid |-> FALSE, st |-> r]
  BY DEF Uninitialised, Element
<1> HIDE DEF r
<1>6. Uninitialised(g) \in Cell /\ Uninitialised(g).valid = FALSE
  BY <1>4, <1>5, CellOf
<1> QED
  BY <1>6, CellWith
\* The drive of an element.
LEMMA Drive ==
  ASSUME NEW i \in 1..Len(DriveSeq)
  PROVE  DriveSeq[i] \in Devices /\ i \in Numbers
  BY DrivesAssumption DEF Numbers

LEMMA TapeGather ==
  ASSUME KernOK, TapeInv, pc = "read", max_tape_drives = 0, sample' = sample + 1,
         kern' = kern, lastk' = lastk, pc' = "write", Gather,
         count' = IF NewMax = 0 THEN 0 ELSE count
  PROVE  TapeInv'
<1> DEFINE n == NewMax
           zero == [ios |-> 0, sec |-> 0, at |-> 0, reg |-> 0]
<1>1. sample = 0 /\ sample' = 1 /\ \A d \in Devices : ~lastk[d].up
  BY DEF TapeInv, max_tape_drives
<1>2. n \in Nat /\ n <= Len(DriveSeq)
  <2>1. Len(tape_new_stats) \in Nat /\ Len(DriveSeq) \in Nat /\ TapeType
    BY DrivesAssumption DEF TapeInv, TapeType, Cells
  <2> QED
    BY <2>1, NewMaxBound
<1>3. PICK g \in Garbage :
        /\ tape_new_stats' = [i \in 1..n |->
             IF Ready(i) THEN Element(Stats(DriveSeq[i], sample'), TRUE) ELSE Uninitialised(g)]
        /\ tape_old_stats' = [i \in 1..n |->
             IF Ready(i) THEN Element(NoStats, TRUE) ELSE [Uninitialised(g) EXCEPT !.valid = TRUE]]
  BY Zenon DEF Gather
<1> HIDE DEF n
<1>4. ASSUME NEW i \in 1..n PROVE DriveSeq[i] \in Devices
  BY <1>2, Drive, DrivesAssumption
<1>5. ASSUME NEW i \in 1..n, Ready(i)
      PROVE  /\ \E s \in Held : /\ Copies(s, kern[DriveSeq[i]]) /\ NeverFilled(s)
                               /\ tape_new_stats'[i] = [valid |-> TRUE, st |-> s]
             /\ tape_old_stats'[i] = [valid |-> TRUE, st |-> zero]
  <2> DEFINE s == [ios |-> kern[DriveSeq[i]].ios, sec |-> kern[DriveSeq[i]].sec, at |-> 1,
                   reg |-> kern[DriveSeq[i]].reg]
  <2>1. s \in Held /\ Copies(s, kern[DriveSeq[i]]) /\ NeverFilled(s)
    BY <1>4, StatsHeld
  <2>2. tape_new_stats'[i] = [valid |-> TRUE, st |-> s]
    BY <1>1, <1>3, <1>5 DEF Element, Stats
  <2>3. tape_old_stats'[i] = [valid |-> TRUE, st |-> zero]
    BY <1>3, <1>5 DEF Element, NoStats
  <2> HIDE DEF s, zero
  <2> QED
    BY <2>1, <2>2, <2>3
<1>6. ASSUME NEW i \in 1..n, ~Ready(i)
      PROVE  /\ tape_new_stats'[i] = Uninitialised(g)
             /\ tape_old_stats'[i] = [Uninitialised(g) EXCEPT !.valid = TRUE]
  BY <1>3, <1>6
<1>7. zero \in Held /\ NeverFilled(zero)
  BY NothingHeld
<1> HIDE DEF zero
<1>8. ASSUME NEW i \in 1..n
      PROVE  tape_new_stats'[i] \in Cell /\ tape_old_stats'[i] \in Cell
  <2>1. CASE Ready(i)
    BY <1>5, <1>7, <2>1, CellOf
  <2>2. CASE ~Ready(i)
    BY <1>6, <2>2, Uninit
  <2> QED
    BY <2>1, <2>2
<1>9. tape_new_stats' \in [1..n -> Cell] /\ tape_old_stats' \in [1..n -> Cell]
  BY <1>3, <1>8
<1>10. /\ tape_new_stats' \in Cells /\ tape_old_stats' \in Cells
       /\ Len(tape_new_stats') = n /\ Len(tape_old_stats') = n
  BY <1>2, <1>9, Arrays
<1>11. ASSUME NEW i \in 1..n
       PROVE  /\ TapeRead(tape_new_stats[i], i)' /\ TapeBefore(tape_old_stats[i], i)'
              /\ (tape_new_stats[i].valid => NeverFilled(tape_old_stats[i].st))'
  <2>1. CASE Ready(i)
    <3>1. PICK s \in Held : /\ Copies(s, kern[DriveSeq[i]]) /\ NeverFilled(s)
                            /\ tape_new_stats'[i] = [valid |-> TRUE, st |-> s]
      BY <1>5, <2>1
    <3>2. tape_new_stats'[i].st = s /\ tape_old_stats'[i].st = zero
      BY <1>5, <1>7, <2>1, <3>1, CellOf
    <3>3. TapeRead(tape_new_stats[i], i)'
      BY <2>1, <3>1, <3>2 DEF TapeRead, Ready
    <3>4. TapeBefore(tape_old_stats[i], i)'
      BY <1>1, <1>4 DEF TapeBefore
    <3> QED
      BY <1>7, <3>2, <3>3, <3>4
  <2>2. CASE ~Ready(i)
    <3>1. ~tape_new_stats'[i].valid
      BY <1>6, <2>2, Uninit
    <3> QED
      BY <1>1, <1>4, <3>1 DEF TapeRead, TapeBefore
  <2> QED
    BY <2>1, <2>2
<1>12. Drives' = 1..n
  BY <1>9 DEF Drives
<1>13. count' = 0 \/ Len(tape_new_stats') > 0
  BY <1>2, <1>10 DEF n
<1>14. TapeType'
  BY <1>2, <1>10 DEF TapeType
<1> QED
  BY <1>1, <1>11, <1>12, <1>13, <1>14 DEF TapeInv

LEMMA TapeUpdate ==
  ASSUME KernOK, TapeInv, pc = "read", max_tape_drives > 0, sample' = sample + 1,
         kern' = kern, lastk' = lastk, pc' = "write", Update
  PROVE  TapeInv'
<1> DEFINE len == Len(tape_new_stats)
           n == IF NewMax > len THEN NewMax ELSE len
<1>1. /\ sample' \in Nat \ {0} /\ len \in Nat /\ len > 0 /\ Len(tape_old_stats) = len
      /\ tape_new_stats \in [1..len -> Cell] /\ tape_old_stats \in [1..len -> Cell]
      /\ Len(DriveSeq) \in Nat
  BY LenProperties, DrivesAssumption DEF TapeInv, TapeType, Cells, KernOK, max_tape_drives
<1>2. n \in Nat /\ len <= n /\ n <= Len(DriveSeq)
  <2>1. TapeType /\ len <= Len(DriveSeq)
    BY DEF TapeInv, TapeType
  <2> QED
    BY <1>1, <2>1, NewMaxBound
<1>3. PICK g \in Garbage :
        /\ tape_old_stats' = Grown(tape_old_stats, g)
        /\ tape_new_stats' = [i \in DOMAIN Grown(tape_new_stats, g) |->
             Updated(Grown(tape_new_stats, g)[i], Grown(tape_old_stats, g)[i], i)]
  BY Zenon DEF Update
<1> DEFINE old == Grown(tape_old_stats, g)
           new == Grown(tape_new_stats, g)
<1>4. /\ old = [i \in 1..n |-> IF i <= len THEN tape_old_stats[i] ELSE Uninitialised(g)]
      /\ new = [i \in 1..n |-> IF i <= len THEN tape_new_stats[i] ELSE Uninitialised(g)]
  BY <1>1 DEF Grown
<1>5. /\ tape_old_stats' = old
      /\ tape_new_stats' = [i \in 1..n |-> Updated(new[i], old[i], i)]
  <2>1. DOMAIN new = 1..n
    BY <1>4
  <2> QED
    BY <1>3, <2>1
<1> HIDE DEF old, new, n, len
<1>6. ASSUME NEW i \in 1..n
      PROVE  /\ old[i] \in Cell /\ new[i] \in Cell
             /\ old[i].valid => i \in 1..len /\ old[i] = tape_old_stats[i]
  <2>1. CASE i <= len
    BY <1>1, <1>2, <1>4, <2>1
  <2>2. CASE ~(i <= len)
    BY <1>4, <2>2, Uninit
  <2> QED
    BY <2>1, <2>2
<1>7. ASSUME NEW i \in 1..n
      PROVE  tape_new_stats'[i] \in Cell /\ TapeRead(tape_new_stats[i], i)'
  <2>1. DriveSeq[i] \in Devices
    BY <1>1, <1>2, Drive
  <2> DEFINE s == [ios |-> kern[DriveSeq[i]].ios, sec |-> kern[DriveSeq[i]].sec, at |-> sample',
                   reg |-> kern[DriveSeq[i]].reg]
             v == ~(s.sec < old[i].st.sec)
  <2>2. s \in Held /\ Copies(s, kern[DriveSeq[i]]) /\ NeverFilled(s)
    BY <1>1, <2>1, StatsHeld
  <2>3. tape_new_stats'[i] = Updated(new[i], old[i], i)
    BY <1>5
  <2>4. CASE Ready(i)
    <3>1. tape_new_stats'[i] = [valid |-> v, st |-> s]
      BY <2>3, <2>4 DEF Updated, Element, Stats
    <3>2. v \in BOOLEAN
      OBVIOUS
    <3> HIDE DEF v, s
    <3> QED
      BY <2>2, <2>4, <3>1, <3>2 DEF Cell, TapeRead, Ready
  <2>5. CASE ~Ready(i)
    <3>1. tape_new_stats'[i] = [new[i] EXCEPT !.valid = FALSE]
      BY <2>3, <2>5 DEF Updated
    <3>2. tape_new_stats'[i] \in Cell /\ tape_new_stats'[i].valid = FALSE
      BY <1>6, <3>1 DEF Cell
    <3> QED
      BY <3>2 DEF TapeRead
  <2> QED
    BY <2>4, <2>5
<1>8. tape_new_stats' \in [1..n -> Cell] /\ tape_old_stats' \in [1..n -> Cell]
  <2>1. tape_new_stats' \in [1..n -> Cell]
    BY <1>5, <1>7
  <2>2. old = [i \in 1..n |-> old[i]]
    BY <1>4
  <2>3. old \in [1..n -> Cell]
    BY <1>6, <2>2
  <2> QED
    BY <1>5, <2>1, <2>3
<1>9. /\ tape_new_stats' \in Cells /\ tape_old_stats' \in Cells
      /\ Len(tape_new_stats') = n /\ Len(tape_old_stats') = n
  BY <1>2, <1>8, Arrays
<1>10. ASSUME NEW i \in 1..n
       PROVE  /\ TapeBefore(tape_old_stats[i], i)'
              /\ (tape_old_stats[i].valid => NeverFilled(tape_old_stats[i].st))'
  <2>1. CASE ~old[i].valid
    BY <1>5, <2>1 DEF TapeBefore
  <2>2. CASE old[i].valid
    <3>1. i \in 1..len /\ tape_old_stats'[i] = tape_old_stats[i] /\ tape_old_stats[i].valid
      BY <1>5, <1>6, <2>2
    <3>2. i \in Drives
      BY <1>1, <3>1 DEF Drives
    <3> QED
      BY <3>1, <3>2 DEF TapeInv, TapeBefore
  <2> QED
    BY <2>1, <2>2
<1>11. Drives' = 1..n
  BY <1>8 DEF Drives
<1>12. Len(tape_new_stats') > 0 /\ Len(tape_new_stats') <= Len(DriveSeq)
  BY <1>1, <1>2, <1>9
<1>13. TapeType'
  BY <1>9, <1>12 DEF TapeType
<1> QED
  BY <1>1, <1>7, <1>10, <1>11, <1>12, <1>13 DEF TapeInv

-----------------------------------------------------------------------------
(* The reports of tapestat.                                                 *)

LEMMA TapeLine ==
  ASSUME KernOK, TapeInv, pc = "write", NEW i \in Drives, Displayed(i)
  PROVE  /\ Line(i).name = DriveSeq[i] /\ DriveSeq[i] \in Devices
         /\ kern[DriveSeq[i]].up /\ (sample > 1 => lastk[DriveSeq[i]].up)
         /\ Stayed(DriveSeq[i]) \/ Line(i).at = 0 =>
              Tells(DriveSeq[i], Line(i).ios, Line(i).sec)
<1> DEFINE d == DriveSeq[i]
           new == tape_new_stats[i].st
           old == tape_old_stats[i].st
<1>1. /\ Drives = 1..Len(tape_new_stats) /\ Drives = 1..Len(tape_old_stats)
      /\ Len(tape_new_stats) <= Len(DriveSeq) /\ Len(tape_new_stats) \in Nat
      /\ tape_new_stats[i] \in Cell /\ tape_old_stats[i] \in Cell
  BY LenProperties DEF TapeInv, TapeType, Cells, Drives
<1>2. d \in Devices
  BY <1>1, Drive, DrivesAssumption
<1>3. new \in Held /\ old \in Held
  BY <1>1 DEF Cell
<1>4. /\ TapeRead(tape_new_stats[i], i) /\ TapeBefore(tape_old_stats[i], i)
      /\ tape_new_stats[i].valid /\ tape_old_stats[i].valid /\ NeverFilled(old)
  BY DEF TapeInv, Displayed
<1>5. /\ Line(i).name = d /\ Line(i).at = old.at
      /\ Line(i).ios = Minus(new.ios, old.ios) /\ Line(i).sec = Minus(new.sec, old.sec)
  BY DEF Line
<1>6. /\ kern[d].up /\ Copies(new, kern[d]) /\ (sample > 1 => lastk[d].up)
      /\ lastk[d].up => Copies(old, lastk[d])
  BY <1>4 DEF TapeRead, TapeBefore, Ready
<1>7. NeverFilled(old)
  BY <1>4
<1> HIDE DEF new, old, d
<1>8. Stayed(d) => Copies(old, lastk[d])
  BY <1>6 DEF Stayed
<1>9. Stayed(d) \/ Line(i).at = 0 => Tells(d, Line(i).ios, Line(i).sec)
  BY <1>2, <1>3, <1>5, <1>6, <1>7, <1>8, DifferenceTells
<1> QED
  BY <1>2, <1>5, <1>6, <1>9 DEF d

LEMMA TapeWrite ==
  ASSUME KernOK, TapeInv, LinesTrue, DrivesReported, WriteStats
  PROVE  KernOK' /\ TapeInv' /\ LinesTrue' /\ DrivesReported'
<1>1. /\ pc = "write" /\ kern' = kern /\ lastk' = lastk /\ sample' = sample
      /\ tape_old_stats' = tape_new_stats /\ tape_new_stats' = tape_old_stats
      /\ count' = IF ~skip /\ count > 0 THEN count - 1 ELSE count
      /\ pc' = IF count' = 0 THEN "done" ELSE "pause"
      /\ out' = IF skip THEN {} ELSE Report
  BY Zenon DEF WriteStats, Swap, kernVars
<1>2. KernOK'
  BY <1>1 DEF KernOK, Grew, Stayed
<1>3. TapeType' /\ Drives' = Drives
  BY <1>1, LenProperties DEF TapeInv, TapeType, Cells, Drives
<1>4. TapeInv'
  <2>1. pc' \in {"pause", "done"}
    BY <1>1
  <2>2. pc' = "pause" => Len(tape_new_stats') > 0 /\ sample' > 0
    BY <1>1 DEF TapeInv, TapeType
  <2>3. ASSUME NEW i \in Drives PROVE TapeRead(tape_old_stats[i], i)'
    BY <1>1 DEF TapeInv, TapeRead, Ready
  <2> QED
    BY <1>3, <2>1, <2>2, <2>3 DEF TapeInv
<1>5. ASSUME NEW l \in out', l.name \in Devices
      PROVE  \E i \in Drives : Displayed(i) /\ l = Line(i) /\ l.name = DriveSeq[i]
  <2>1. PICK i \in Drives : Displayed(i) /\ l = Line(i)
    BY <1>1, <1>5 DEF Report, Drives
  <2> QED
    BY <1>1, <2>1, TapeLine
<1>6. DrivesReported'
  <2> SUFFICES ASSUME NEW l \in out', l.name \in Devices
               PROVE  kern'[l.name].up /\ (sample' > 1 => lastk'[l.name].up)
    BY DEF DrivesReported, OfDevices
  <2>1. PICK i \in Drives : Displayed(i) /\ l = Line(i) /\ l.name = DriveSeq[i]
    BY <1>5
  <2> QED
    BY <1>1, <2>1, TapeLine
<1>7. LinesTrue'
  <2> SUFFICES ASSUME NEW l \in OfDevices', (Stayed(l.name) \/ l.at = 0)'
               PROVE  (/\ (l.ios - Did(l.name).ios) % Width = 0
                       /\ (l.sec - Did(l.name).sec) % Width = 0)'
    BY DEF LinesTrue
  <2>1. PICK i \in Drives : Displayed(i) /\ l = Line(i) /\ l.name = DriveSeq[i]
    BY <1>5 DEF OfDevices
  <2>2. Stayed(DriveSeq[i]) \/ l.at = 0
    BY <1>1, <2>1 DEF Stayed
  <2>3. Tells(DriveSeq[i], l.ios, l.sec)
    BY <1>1, <2>1, <2>2, TapeLine
  <2>4. Did(l.name)' = Did(DriveSeq[i])
    BY <1>1, <2>1 DEF Did, Stayed
  <2> QED
    BY <2>3, <2>4 DEF Tells
<1> QED
  BY <1>2, <1>4, <1>6, <1>7

LEMMA TapePause ==
  ASSUME KernOK, TapeInv, LinesTrue, DrivesReported, Pause
  PROVE  KernOK' /\ TapeInv' /\ LinesTrue' /\ DrivesReported'
<1>1. /\ pc = "pause" /\ pc' = "read" /\ lastk' = kern /\ sample' = sample /\ Elapse
      /\ tape_old_stats' = tape_old_stats /\ tape_new_stats' = tape_new_stats /\ out' = {}
  BY Zenon DEF Pause
<1>2. KernOK'
  BY <1>1, Elapsed
<1>3. TapeType' /\ Drives' = Drives /\ Len(tape_new_stats') > 0 /\ sample' > 0
  BY <1>1 DEF TapeInv, TapeType, Drives
<1>4. ASSUME NEW i \in Drives
      PROVE  (/\ tape_old_stats[i].valid => lastk[DriveSeq[i]].up /\ NeverFilled(tape_old_stats[i].st)
              /\ TapeBefore(tape_old_stats[i], i))'
  BY <1>1 DEF TapeInv, TapeRead, TapeBefore, Ready
<1>5. TapeInv'
  BY <1>1, <1>3, <1>4 DEF TapeInv
<1>6. LinesTrue'
  BY <1>1, SameOut
<1> QED
  BY <1>1, <1>2, <1>5, <1>6 DEF DrivesReported, OfDevices

\* The report is that of the last reading.
Blank == pc \in {"read", "write"} => out = {}

LEMMA TapeSameOut ==
  ASSUME DrivesReported, out' = out, kern' = kern, lastk' = lastk,
         sample' = sample \/ out = {}
  PROVE  DrivesReported'
  BY DEF DrivesReported, OfDevices

LEMMA TapeNext ==
  ASSUME KernOK, TapeInv, LinesTrue, DrivesReported, Blank, Next
  PROVE  KernOK' /\ TapeInv' /\ LinesTrue' /\ DrivesReported' /\ Blank'
<1>1. CASE GatherStats
  <2>1. /\ pc = "read" /\ max_tape_drives = 0 /\ sample' = sample + 1
        /\ kern' = kern /\ lastk' = lastk /\ out' = out
        /\ \/ /\ pc' = "done" /\ tape_old_stats' = tape_old_stats
              /\ tape_new_stats' = tape_new_stats
           \/ /\ pc' = "write" /\ Gather /\ count' = IF NewMax = 0 THEN 0 ELSE count
    BY <1>1, Zenon DEF GatherStats
  <2>2. KernOK'
    BY <2>1 DEF KernOK, Grew, Stayed
  <2>3. TapeInv'
    <3>1. CASE /\ pc' = "done" /\ tape_old_stats' = tape_old_stats
               /\ tape_new_stats' = tape_new_stats
      BY <3>1 DEF TapeInv, TapeType
    <3>2. CASE pc' = "write" /\ Gather /\ count' = IF NewMax = 0 THEN 0 ELSE count
      BY <2>1, <3>2, TapeGather
    <3> QED
      BY <2>1, <3>1, <3>2
  <2>4. out = {} /\ out' = {}
    BY <2>1 DEF Blank
  <2> QED
    BY <2>1, <2>2, <2>3, <2>4, SameOut, TapeSameOut DEF Blank
<1>2. CASE UpdateStats
  <2>1. /\ pc = "read" /\ max_tape_drives > 0 /\ sample' = sample + 1
        /\ kern' = kern /\ lastk' = lastk /\ out' = out /\ pc' = "write" /\ Update
    BY <1>2, Zenon DEF UpdateStats
  <2>2. KernOK'
    BY <2>1 DEF KernOK, Grew, Stayed
  <2>3. TapeInv'
    BY <2>1, TapeUpdate
  <2>4. out = {} /\ out' = {}
    BY <2>1 DEF Blank
  <2> QED
    BY <2>1, <2>2, <2>3, <2>4, SameOut, TapeSameOut DEF Blank
<1>3. CASE WriteStats
  <2>1. pc' \in {"pause", "done"}
    BY <1>3, Zenon DEF WriteStats
  <2> QED
    BY <1>3, <2>1, TapeWrite DEF Blank
<1>4. CASE Pause
  <2>1. out' = {}
    BY <1>4, Zenon DEF Pause
  <2> QED
    BY <1>4, <2>1, TapePause DEF Blank
<1>5. CASE Interrupted \/ Done
  <2>1. /\ pc' = "done" /\ out' = out /\ kern' = kern /\ lastk' = lastk /\ sample' = sample
        /\ tape_old_stats' = tape_old_stats /\ tape_new_stats' = tape_new_stats
    BY <1>5, Zenon DEF Interrupted, Done, vars, kernVars, toolVars
  <2>2. KernOK'
    BY <2>1 DEF KernOK, Grew, Stayed
  <2>3. TapeInv'
    BY <2>1 DEF TapeInv, TapeType
  <2> QED
    BY <2>1, <2>2, <2>3, SameOut, TapeSameOut DEF Blank
<1> QED
  BY <1>1, <1>2, <1>3, <1>4, <1>5 DEF Next

-----------------------------------------------------------------------------
(* Sums over finite sets of devices.                                        *)

\* What counts the same has the same sum.
LEMMA TotalSame ==
  ASSUME NEW S, NEW u, NEW v, \A x \in S : u[x] = v[x], NEW n, IsTotal(n, u, S)
  PROVE  IsTotal(n, v, S)
<1>1. PICK h : Sums(h, u, S) /\ n = h[S]
  BY DEF IsTotal
<1>2. ASSUME NEW s \in SUBSET S PROVE SumOf(h, u, s) = SumOf(h, v, s)
  <2>1. CASE s = {}
    BY <2>1 DEF SumOf
  <2>2. CASE s # {}
    <3>1. (CHOOSE x \in s : TRUE) \in S
      BY <2>2
    <3> QED
      BY <2>2, <3>1 DEF SumOf
  <2> QED
    BY <2>1, <2>2
<1>3. Sums(h, v, S)
  BY <1>1, <1>2 DEF Sums
<1> QED
  BY <1>1, <1>3 DEF IsTotal

\* The sum of a sum.
LEMMA TotalPlus ==
  ASSUME NEW S, IsFiniteSet(S), NEW u, NEW v, NEW w,
         \A x \in S : v[x] \in Nat /\ w[x] \in Nat /\ u[x] = v[x] + w[x],
         NEW a, IsTotal(a, u, S), NEW b, IsTotal(b, v, S), NEW c, IsTotal(c, w, S)
  PROVE  a = b + c /\ b \in Nat /\ c \in Nat
<1>1. PICK f : Sums(f, u, S) /\ a = f[S]
  BY DEF IsTotal
<1>2. PICK g : Sums(g, v, S) /\ b = g[S]
  BY DEF IsTotal
<1>3. PICK h : Sums(h, w, S) /\ c = h[S]
  BY DEF IsTotal
<1>4. \A s \in SUBSET S : g[s] \in Nat /\ h[s] \in Nat
  BY <1>2, <1>3, SumNat
<1> DEFINE X == {s \in SUBSET S : f[s] = g[s] + h[s]}
<1>5. ASSUME NEW s \in SUBSET S, \A x \in s : s \ {x} \in X PROVE f[s] = g[s] + h[s]
  <2>1. CASE s = {}
    BY <1>1, <1>2, <1>3, <2>1, SumStep
  <2>2. CASE s # {}
    <3> DEFINE d == CHOOSE x \in s : TRUE
    <3>1. d \in s
      BY <2>2
    <3>2. f[s] = SumOf(f, u, s) /\ g[s] = SumOf(g, v, s) /\ h[s] = SumOf(h, w, s)
      BY <1>1, <1>2, <1>3 DEF Sums
    <3>3. f[s] = u[d] + f[s \ {d}] /\ g[s] = v[d] + g[s \ {d}] /\ h[s] = w[d] + h[s \ {d}]
      BY <2>2, <3>2 DEF SumOf
    <3> HIDE DEF d
    <3>4. f[s \ {d}] = g[s \ {d}] + h[s \ {d}]
      BY <1>5, <3>1
    <3>5. u[d] = v[d] + w[d] /\ v[d] \in Nat /\ w[d] \in Nat
      BY <3>1
    <3>6. g[s \ {d}] \in Nat /\ h[s \ {d}] \in Nat
      BY <1>4
    <3> QED
      BY <3>3, <3>4, <3>5, <3>6
  <2> QED
    BY <2>1, <2>2
<1>6. X = SUBSET S
  <2>1. \A s \in SUBSET S : (\A x \in s : s \ {x} \in X) => s \in X
    BY <1>5
  <2>2. X \subseteq SUBSET S
    OBVIOUS
  <2> HIDE DEF X
  <2> QED
    BY <2>1, <2>2, AllSubsets
<1>7. S \in X
  BY <1>6
<1> QED
  BY <1>1, <1>2, <1>3, <1>4, <1>7

-----------------------------------------------------------------------------
(* The list of iostat.                                                      *)

\* An entry with x as a sample.
Filling(e, c, x) == [e EXCEPT !.st[c] = x]

LEMMA EntryFilled ==
  ASSUME NEW e \in IoEntry, NEW x \in Held, NEW c \in {0, 1}, NEW f, f = Filling(e, c, x)
  PROVE  /\ f \in IoEntry /\ f.in = e.in /\ f.dev_tp = e.dev_tp /\ f.exist = e.exist
         /\ f.num = e.num /\ f.grp = e.grp
         /\ f.st[c] = x /\ f.st[1 - c] = e.st[1 - c]
<1> DEFINE t == [e.st EXCEPT ![c] = x]
<1>1. e.st \in TwoSamples
  BY DEF IoEntry
<1>2. t \in TwoSamples /\ t[c] = x /\ t[1 - c] = e.st[1 - c]
  BY <1>1 DEF TwoSamples
<1>3. f = [e EXCEPT !.st = t]
  BY DEF Filling
<1> HIDE DEF t
<1>4. /\ f \in IoEntry /\ f.in = e.in /\ f.dev_tp = e.dev_tp /\ f.exist = e.exist
      /\ f.num = e.num /\ f.grp = e.grp /\ f.st = t
  BY <1>2, <1>3 DEF IoEntry
<1> QED
  BY <1>2, <1>4

LEMMA EntryExists ==
  ASSUME NEW e \in IoEntry, NEW b \in BOOLEAN, NEW f, f = [e EXCEPT !.exist = b]
  PROVE  /\ f \in IoEntry /\ f.in = e.in /\ f.dev_tp = e.dev_tp /\ f.exist = b
         /\ f.num = e.num /\ f.grp = e.grp /\ f.st = e.st
  BY DEF IoEntry

LEMMA EntryNew ==
  ASSUME KernOK, NEW d \in Devices, NEW g \in Kinds, NEW dtype \in {0, 2}, NEW e,
         e = I!NewEntry(d, dtype, g)
  PROVE  /\ e \in IoEntry /\ e.in /\ e.exist /\ e.num = kern[d].up
         /\ e.dev_tp = IF kern[d].up /\ d \in Disks THEN IF dtype = 2 THEN 2 ELSE 1 ELSE 0
         /\ \A i \in {0, 1} : NeverFilled(e.st[i])
<1> DEFINE t == [i \in {0, 1} |-> NoStats]
           k == IF kern[d].up /\ d \in Disks THEN IF dtype = 2 THEN 2 ELSE 1 ELSE 0
           u == kern[d].up
<1>1. NoStats \in Held /\ NeverFilled(NoStats)
  BY NothingHeld DEF NoStats
<1>2. t \in TwoSamples /\ \A i \in {0, 1} : NeverFilled(t[i])
  BY <1>1 DEF TwoSamples
<1>3. u \in BOOLEAN /\ k \in {0, 1, 2}
  BY DEF KernOK, Shown
<1>4. e = [in |-> TRUE, dev_tp |-> k, exist |-> TRUE, num |-> u, grp |-> g, st |-> t]
  BY DEF I!NewEntry, I!T_PART, I!T_DEV, I!T_PART_DEV, I!Slots, I!NoStats, NoStats
<1> HIDE DEF t, k, u
<1>5. e \in IoEntry /\ e.in /\ e.exist /\ e.num = u /\ e.dev_tp = k /\ e.st = t
  BY <1>2, <1>3, <1>4 DEF IoEntry
<1> QED
  BY <1>2, <1>5 DEF u, k

\* The entry of a device that a reading finds.
LEMMA IoFound ==
  ASSUME KernOK, IoInv, NEW d \in Devices, kern[d].up, sample' = sample + 1, NEW e,
         e = I!Filled(I!Found([dev_list[d] EXCEPT !.exist = FALSE], d), d)
  PROVE  /\ e \in IoEntry /\ e.in /\ e.exist /\ Copies(e.st[curr], kern[d])
         /\ \A i \in {0, 1} : NeverFilled(e.st[i])
         /\ dev_list[d].in => /\ e.num = dev_list[d].num /\ e.dev_tp = dev_list[d].dev_tp
                              /\ e.grp = dev_list[d].grp
                              /\ e.st[1 - curr] = dev_list[d].st[1 - curr]
         /\ ~dev_list[d].in => e.num /\ e.dev_tp = IF d \in Disks THEN 1 ELSE 0
<1> DEFINE x == [ios |-> kern[d].ios, sec |-> kern[d].sec, at |-> sample', reg |-> kern[d].reg]
           e0 == dev_list[d]
           e1 == [e0 EXCEPT !.exist = FALSE]
           e2 == I!Found(e1, d)
<1>1. /\ e0 \in IoEntry /\ curr \in {0, 1} /\ sample' \in Nat \ {0} /\ opt.last \in Kinds
      /\ \A i \in {0, 1} : NeverFilled(e0.st[i])
  BY OptionsOK DEF IoInv, IoType, KernOK, OptionOK
<1>2. x \in Held /\ Copies(x, kern[d]) /\ NeverFilled(x)
  BY <1>1, StatsHeld
<1>3. e = [e2 EXCEPT !.st[curr] = x]
  BY DEF I!Filled, I!Stats
<1> HIDE DEF x, e0
<1>4. /\ e1 \in IoEntry /\ e1.in = e0.in /\ e1.dev_tp = e0.dev_tp /\ e1.num = e0.num
      /\ e1.grp = e0.grp /\ e1.st = e0.st
  BY <1>1, EntryExists
<1> HIDE DEF e1
<1>5. CASE e0.in
  <2>1. e2 = [e1 EXCEPT !.exist = TRUE]
    BY <1>4, <1>5 DEF I!Found
  <2> HIDE DEF e2
  <2>2. /\ e2 \in IoEntry /\ e2.in = e1.in /\ e2.dev_tp = e1.dev_tp /\ e2.num = e1.num
        /\ e2.grp = e1.grp /\ e2.st = e1.st /\ e2.exist
    BY <1>4, <2>1, EntryExists
  <2>3. /\ e \in IoEntry /\ e.in = e2.in /\ e.exist = e2.exist /\ e.dev_tp = e2.dev_tp
        /\ e.num = e2.num /\ e.grp = e2.grp /\ e.st[curr] = x /\ e.st[1 - curr] = e2.st[1 - curr]
    <3>1. PICK c \in {0, 1} : c = curr
      BY <1>1
    <3>2. e = Filling(e2, c, x)
      BY <1>3, <3>1 DEF Filling
    <3>3. x \in Held /\ e2 \in IoEntry
      BY <1>2, <2>2
    <3>4. /\ e \in IoEntry /\ e.in = e2.in /\ e.dev_tp = e2.dev_tp /\ e.exist = e2.exist
          /\ e.num = e2.num /\ e.grp = e2.grp
          /\ e.st[c] = x /\ e.st[1 - c] = e2.st[1 - c]
      BY <3>2, <3>3, EntryFilled
    <3> QED
      BY <3>1, <3>4
  <2>4. \A i \in {0, 1} : NeverFilled(e.st[i])
    BY <1>1, <1>2, <1>4, <2>2, <2>3
  <2> QED
    BY <1>2, <1>4, <1>5, <2>2, <2>3, <2>4 DEF e0
<1>6. CASE ~e0.in
  <2>1. e2 = I!NewEntry(d, 0, opt.last)
    BY <1>4, <1>6 DEF I!Found, I!T_PART
  <2> HIDE DEF e2
  <2>2. /\ e2 \in IoEntry /\ e2.in /\ e2.dev_tp = (IF d \in Disks THEN 1 ELSE 0) /\ e2.num
        /\ e2.exist /\ \A i \in {0, 1} : NeverFilled(e2.st[i])
    BY <1>1, <2>1, EntryNew
  <2>3. /\ e \in IoEntry /\ e.in = e2.in /\ e.exist = e2.exist /\ e.dev_tp = e2.dev_tp
        /\ e.num = e2.num /\ e.grp = e2.grp /\ e.st[curr] = x /\ e.st[1 - curr] = e2.st[1 - curr]
    <3>1. PICK c \in {0, 1} : c = curr
      BY <1>1
    <3>2. e = Filling(e2, c, x)
      BY <1>3, <3>1 DEF Filling
    <3>3. x \in Held /\ e2 \in IoEntry
      BY <1>2, <2>2
    <3>4. /\ e \in IoEntry /\ e.in = e2.in /\ e.dev_tp = e2.dev_tp /\ e.exist = e2.exist
          /\ e.num = e2.num /\ e.grp = e2.grp
          /\ e.st[c] = x /\ e.st[1 - c] = e2.st[1 - c]
      BY <3>2, <3>3, EntryFilled
    <3> QED
      BY <3>1, <3>4
  <2>4. \A i \in {0, 1} : NeverFilled(e.st[i])
    BY <1>1, <1>2, <2>2, <2>3
  <2> QED
    BY <1>2, <1>6, <2>2, <2>3, <2>4 DEF e0
<1> QED
  BY <1>5, <1>6

\* What is selected is what is listed and what comes along with it.
LEMMA IoSelects ==
  ASSUME IoInv, NEW d \in Devices
  PROVE  I!Selected(d) <=> \/ opt.every
                           \/ opt.all /\ d \in Disks
                           \/ Listed(d) /\ dev_list[d].num
                           \/ /\ d \in Parts /\ DiskOf[d] \in opt.pdev
                              /\ dev_list[DiskOf[d]].num
  BY DEF I!Selected, Listed

\* The entries that are read are those of the devices that are there and selected.
LEMMA IoReads ==
  ASSUME KernOK, IoInv, ~opt.every, NEW d \in Devices, NEW l,
         l = [k \in Devices |-> [dev_list[k] EXCEPT !.exist = FALSE]]
  PROVE  d \in I!ReadAlone(l) \cup I!ReadAlong(l) <=> kern[d].up /\ I!Selected(d)
<1>1. ASSUME NEW k \in Devices
      PROVE  l[k].in = dev_list[k].in /\ l[k].dev_tp = dev_list[k].dev_tp /\ l[k].num = dev_list[k].num
  <2>1. dev_list[k] \in IoEntry
    BY DEF IoInv, IoType
  <2> QED
    BY <2>1, EntryExists
<1>2. /\ Disks \cap Parts = {} /\ Devices = Disks \cup Parts
      /\ d \in Parts => DiskOf[d] \in Disks /\ DiskOf[d] \in Devices
  BY DevicesAssumption DEF Devices
<1>3. opt.pdev \subseteq DOMAIN opt.listed
  BY OptionsOK DEF IoInv, IoType, OptionOK
<1>4. d \in I!ReadAlone(l) <=> /\ dev_list[d].in /\ kern[d].up
                               /\ IF dev_list[d].dev_tp = 0 THEN dev_list[d].num ELSE d \in Disks
  BY <1>1, SameDevices DEF I!ReadAlone, I!T_PART
<1>5. d \in I!ReadAlong(l) <=>
        \/ d \in Parts /\ kern[d].up /\ dev_list[DiskOf[d]].in /\ dev_list[DiskOf[d]].dev_tp = 2
        \/ d \in Disks /\ opt.all /\ kern[d].up
  BY <1>1, <1>2 DEF I!ReadAlong, I!T_PART_DEV
<1>6. IoEntered(d) /\ (d \in Parts => IoEntered(DiskOf[d]))
  BY <1>2 DEF IoInv
<1>7. ASSUME d \in Parts
      PROVE  (dev_list[DiskOf[d]].in /\ dev_list[DiskOf[d]].dev_tp = 2)
               <=> DiskOf[d] \in opt.pdev /\ dev_list[DiskOf[d]].num
  <2> DEFINE w == DiskOf[d]
  <2>1. w \in Disks /\ IoEntered(w)
    BY <1>2, <1>6, <1>7
  <2> HIDE DEF w
  <2>2. (dev_list[w].in /\ dev_list[w].dev_tp = 2) <=> w \in opt.pdev /\ dev_list[w].num
    <3>1. CASE Listed(w)
      BY <2>1, <3>1 DEF IoEntered, TypeEntered
    <3>2. CASE ~Listed(w)
      BY <1>3, <2>1, <3>2 DEF IoEntered, Listed
    <3> QED
      BY <3>1, <3>2
  <2> QED
    BY <2>2 DEF w
<1>8. I!Selected(d) <=> \/ opt.all /\ d \in Disks
                        \/ Listed(d) /\ dev_list[d].num
                        \/ /\ d \in Parts /\ DiskOf[d] \in opt.pdev
                           /\ dev_list[DiskOf[d]].num
  BY IoSelects
<1>9. CASE Listed(d)
  <2>1. dev_list[d].in /\ dev_list[d].dev_tp = IF dev_list[d].num THEN TypeEntered(d) ELSE 0
    BY <1>6, <1>9 DEF IoEntered
  <2>2. (IF dev_list[d].dev_tp = 0 THEN dev_list[d].num ELSE d \in Disks) <=> dev_list[d].num
    BY <1>2, <2>1 DEF TypeEntered
  <2> QED
    BY <1>2, <1>4, <1>5, <1>7, <1>8, <1>9, <2>1, <2>2
<1>10. CASE ~Listed(d)
  <2>1. dev_list[d].in => /\ dev_list[d].num /\ I!Selected(d)
                          /\ dev_list[d].dev_tp = IF d \in Disks THEN 1 ELSE 0
    BY <1>6, <1>10 DEF IoEntered
  <2> QED
    BY <1>2, <1>4, <1>5, <1>7, <1>8, <1>10, <2>1
<1> QED
  BY <1>9, <1>10

\* The devices that a reading should find.
IoThere(d) == kern[d].up /\ I!Selected(d)

LEMMA IoReadEntries ==
  ASSUME KernOK, IoInv, I!ReadStats
  PROVE  /\ dev_list' \in [Devices -> IoEntry]
         /\ \A d \in Devices : IoThere(d) =>
              /\ dev_list'[d].in /\ dev_list'[d].exist
              /\ Copies(dev_list'[d].st[curr], kern[d])
              /\ \A i \in {0, 1} : NeverFilled(dev_list'[d].st[i])
              /\ dev_list[d].in => /\ dev_list'[d].num = dev_list[d].num
                                   /\ dev_list'[d].dev_tp = dev_list[d].dev_tp
                                   /\ dev_list'[d].grp = dev_list[d].grp
                                   /\ dev_list'[d].st[1 - curr] = dev_list[d].st[1 - curr]
              /\ ~dev_list[d].in => /\ dev_list'[d].num
                                    /\ dev_list'[d].dev_tp = IF d \in Disks THEN 1 ELSE 0
         /\ \A d \in Devices : ~IoThere(d) =>
              /\ ~dev_list'[d].exist /\ dev_list'[d].in = dev_list[d].in
              /\ dev_list'[d].num = dev_list[d].num /\ dev_list'[d].dev_tp = dev_list[d].dev_tp
              /\ dev_list'[d].grp = dev_list[d].grp /\ dev_list'[d].st = dev_list[d].st
<1> DEFINE l == [k \in Devices |-> [dev_list[k] EXCEPT !.exist = FALSE]]
           Finds(d) == I!Filled(I!Found(l[d], d), d)
<1>1. /\ pc = "read" /\ pc' = "write" /\ sample' = sample + 1
      /\ kern' = kern /\ lastk' = lastk /\ opt' = opt /\ curr' = curr
      /\ dev_list' = IF opt.every THEN I!ReadDiskstats(I!SetNonexistent(dev_list))
                                  ELSE I!ReadSysfs(I!SetNonexistent(dev_list))
  BY Zenon DEF I!ReadStats
<1>3. I!SetNonexistent(dev_list) = l
  BY SameDevices DEF I!SetNonexistent
<1>4. ASSUME NEW d \in Devices
      PROVE  dev_list'[d] = IF IoThere(d) THEN Finds(d) ELSE l[d]
  <2>1. CASE opt.every
    <3>1. dev_list' = I!ReadDiskstats(l)
      BY <1>1, <1>3, <2>1
    <3>2. dev_list'[d] = IF kern[d].up THEN Finds(d) ELSE l[d]
      <4> HIDE DEF l
      <4> QED
        BY <3>1, SameDevices DEF I!ReadDiskstats
    <3>3. I!Selected(d)
      BY <2>1, IoSelects
    <3> QED
      BY <3>2, <3>3 DEF IoThere
  <2>2. CASE ~opt.every
    <3>1. dev_list' = I!ReadSysfs(l)
      BY <1>1, <1>3, <2>2
    <3>2. d \in I!ReadAlone(l) \cup I!ReadAlong(l) <=> IoThere(d)
      BY <2>2, IoReads DEF IoThere
    <3> HIDE DEF l
    <3>3. dev_list'[d] = IF d \in I!ReadAlone(l) \cup I!ReadAlong(l) THEN Finds(d) ELSE l[d]
      BY <3>1, SameDevices DEF I!ReadSysfs
    <3> QED
      BY <3>2, <3>3
  <2> QED
    BY <2>1, <2>2
<1>5. ASSUME NEW d \in Devices, IoThere(d)
      PROVE  /\ dev_list'[d] \in IoEntry /\ dev_list'[d].in /\ dev_list'[d].exist
             /\ Copies(dev_list'[d].st[curr], kern[d])
             /\ \A i \in {0, 1} : NeverFilled(dev_list'[d].st[i])
             /\ dev_list[d].in => /\ dev_list'[d].num = dev_list[d].num
                                  /\ dev_list'[d].dev_tp = dev_list[d].dev_tp
                                  /\ dev_list'[d].grp = dev_list[d].grp
                                  /\ dev_list'[d].st[1 - curr] = dev_list[d].st[1 - curr]
             /\ ~dev_list[d].in => /\ dev_list'[d].num
                                   /\ dev_list'[d].dev_tp = IF d \in Disks THEN 1 ELSE 0
  <2>1. dev_list'[d] = I!Filled(I!Found([dev_list[d] EXCEPT !.exist = FALSE], d), d)
    BY <1>4, <1>5
  <2> QED
    BY <1>1, <1>5, <2>1, IoFound DEF IoThere
<1>6. ASSUME NEW d \in Devices, ~IoThere(d)
      PROVE  /\ dev_list'[d] \in IoEntry /\ ~dev_list'[d].exist
             /\ dev_list'[d].in = dev_list[d].in /\ dev_list'[d].num = dev_list[d].num
             /\ dev_list'[d].dev_tp = dev_list[d].dev_tp
             /\ dev_list'[d].grp = dev_list[d].grp /\ dev_list'[d].st = dev_list[d].st
  <2>1. dev_list'[d] = [dev_list[d] EXCEPT !.exist = FALSE]
    BY <1>4, <1>6
  <2>2. dev_list[d] \in IoEntry
    BY DEF IoInv, IoType
  <2> QED
    BY <2>1, <2>2, EntryExists
<1> HIDE DEF l, Finds
<1>7. dev_list' \in [Devices -> IoEntry]
  <2>1. dev_list' = [d \in Devices |-> dev_list'[d]]
    BY <1>1, SameDevices, Zenon DEF I!ReadDiskstats, I!ReadSysfs
  <2> QED
    BY <1>5, <1>6, <2>1
<1> QED
  BY <1>5, <1>6, <1>7

LEMMA IoRead ==
  ASSUME KernOK, IoInv, I!ReadStats
  PROVE  /\ KernOK' /\ IoInv'
         /\ \A d \in Devices : I!Selected(d)' <=> I!Selected(d)
<1>1. /\ pc = "read" /\ pc' = "write" /\ sample' = sample + 1
      /\ kern' = kern /\ lastk' = lastk /\ opt' = opt /\ curr' = curr
  BY Zenon DEF I!ReadStats
<1>2. KernOK'
  BY <1>1 DEF KernOK, Grew, Stayed
<1>3. dev_list' \in [Devices -> IoEntry]
  BY IoReadEntries
<1>4. ASSUME NEW d \in Devices, IoThere(d)
      PROVE  /\ dev_list'[d].in /\ dev_list'[d].exist
             /\ Copies(dev_list'[d].st[curr], kern[d])
             /\ \A i \in {0, 1} : NeverFilled(dev_list'[d].st[i])
             /\ dev_list[d].in => /\ dev_list'[d].num = dev_list[d].num
                                  /\ dev_list'[d].dev_tp = dev_list[d].dev_tp
                                  /\ dev_list'[d].st[1 - curr] = dev_list[d].st[1 - curr]
             /\ ~dev_list[d].in => /\ dev_list'[d].num
                                   /\ dev_list'[d].dev_tp = IF d \in Disks THEN 1 ELSE 0
  BY <1>4, IoReadEntries
<1>5. ASSUME NEW d \in Devices, ~IoThere(d)
      PROVE  /\ ~dev_list'[d].exist /\ dev_list'[d].in = dev_list[d].in
             /\ dev_list'[d].num = dev_list[d].num
             /\ dev_list'[d].dev_tp = dev_list[d].dev_tp /\ dev_list'[d].st = dev_list[d].st
  BY <1>5, IoReadEntries
<1>6. IoType'
  <2>1. \A d \in Devices : \A i \in {0, 1} : NeverFilled(dev_list'[d].st[i])
    BY <1>4, <1>5 DEF IoInv, IoType
  <2> QED
    BY <1>1, <1>3, <2>1 DEF IoInv, IoType
<1>7. ASSUME NEW d \in Devices, Listed(d)
      PROVE  /\ dev_list[d].in /\ dev_list'[d].in /\ dev_list'[d].num = dev_list[d].num
             /\ dev_list'[d].dev_tp = dev_list[d].dev_tp
  BY <1>4, <1>5, <1>7 DEF IoInv, IoEntered
<1>8. ASSUME NEW d \in Devices PROVE I!Selected(d)' <=> I!Selected(d)
  <2>1. opt.pdev \subseteq DOMAIN opt.listed
    BY OptionsOK DEF IoInv, IoType, OptionOK
  <2>2. d \in Parts => DiskOf[d] \in Devices
    BY DevicesAssumption DEF Devices
  <2>3. Listed(d) => dev_list'[d].num = dev_list[d].num
    BY <1>7
  <2>4. d \in Parts /\ DiskOf[d] \in opt.pdev => dev_list'[DiskOf[d]].num = dev_list[DiskOf[d]].num
    BY <1>7, <2>1, <2>2 DEF Listed
  <2> QED
    BY <1>1, <2>3, <2>4 DEF I!Selected, Listed
<1>9. ASSUME NEW d \in Devices PROVE IoCurrent(d)'
  <2>1. CASE IoThere(d)
    BY <1>1, <1>4, <1>8, <2>1 DEF IoCurrent, IoThere
  <2>2. CASE ~IoThere(d)
    BY <1>1, <1>5, <1>8, <2>2 DEF IoCurrent, IoThere
  <2> QED
    BY <2>1, <2>2
<1>10. ASSUME NEW d \in Devices PROVE IoBefore(d)'
  <2>1. SUFFICES ASSUME lastk[d].up, I!Selected(d)
                 PROVE  dev_list'[d].in /\ Copies(dev_list'[d].st[1 - curr], lastk[d])
    BY <1>1, <1>8 DEF IoBefore
  <2>2. dev_list[d].in /\ Copies(dev_list[d].st[1 - curr], lastk[d])
    BY <1>1, <2>1 DEF IoInv, IoBefore
  <2> QED
    BY <1>4, <1>5, <2>2
<1>11. ASSUME NEW d \in Devices PROVE IoEntered(d)'
  <2>1. IoEntered(d)
    BY DEF IoInv
  <2>2. Listed(d)' <=> Listed(d)
    BY <1>1 DEF Listed
  <2>3. CASE Listed(d)
    BY <1>1, <1>7, <2>1, <2>2, <2>3 DEF IoEntered, TypeEntered
  <2>4. CASE ~Listed(d)
    <3>1. CASE dev_list[d].in
      BY <1>4, <1>5, <1>8, <2>1, <2>2, <2>4, <3>1 DEF IoEntered
    <3>2. CASE ~dev_list[d].in
      <4>1. IoThere(d) <=> dev_list'[d].in
        BY <1>4, <1>5, <3>2
      <4>2. dev_list'[d].in => /\ dev_list'[d].num
                              /\ dev_list'[d].dev_tp = IF d \in Disks THEN 1 ELSE 0
        BY <1>4, <3>2, <4>1
      <4>3. dev_list'[d].in => I!Selected(d)'
        BY <1>8, <4>1 DEF IoThere
      <4> QED
        BY <2>2, <2>4, <4>2, <4>3 DEF IoEntered
    <3> QED
      BY <3>1, <3>2
  <2> QED
    BY <2>3, <2>4
<1> QED
  BY <1>1, <1>2, <1>6, <1>8, <1>9, <1>10, <1>11 DEF IoInv

-----------------------------------------------------------------------------
(* The reports of iostat.                                                   *)

\* The values of a line, whether or not the report is an extended one.
LEMMA ValuesTell ==
  ASSUME KernOK, NEW d \in Devices, NEW i \in Held, NEW j \in Held,
         Copies(i, kern[d]), Stayed(d) => Copies(j, lastk[d]), NeverFilled(j),
         Stayed(d) \/ j.at = 0
  PROVE  Tells(d, I!Values(i, j)[1], I!Values(i, j)[2])
<1>1. /\ i.ios \in Nat /\ i.sec \in Nat /\ j.ios \in Nat /\ j.sec \in Nat
      /\ j.ios <= i.ios /\ j.sec <= i.sec
  <2>1. i.ios \in Nat /\ i.sec \in Nat /\ j.ios \in Nat /\ j.sec \in Nat
    BY DEF Held
  <2>2. CASE Stayed(d)
    BY <2>1, <2>2 DEF KernOK, Grew, Copies
  <2>3. CASE ~Stayed(d)
    BY <2>1, <2>3 DEF NeverFilled
  <2> QED
    BY <2>1, <2>2, <2>3
<1>2. CASE opt.ext
  <2>1. I!Values(i, j)[1] = i.ios - j.ios /\ I!Values(i, j)[2] = i.sec - j.sec
    BY <1>1, <1>2 DEF I!Values, I!Guarded
  <2>2. Did(d).ios = i.ios - j.ios /\ Did(d).sec = i.sec - j.sec
    <3>1. CASE Stayed(d)
      BY <3>1 DEF Did, Copies
    <3>2. CASE ~Stayed(d)
      BY <1>1, <3>2 DEF Did, Copies, NeverFilled
    <3> QED
      BY <3>1, <3>2
  <2>3. i.ios - j.ios \in Int /\ i.sec - j.sec \in Int
    BY <1>1
  <2> QED
    BY <2>1, <2>2, <2>3, ZeroTrue DEF Tells
<1>3. CASE ~opt.ext
  <2>1. I!Values(i, j)[1] = Minus(i.ios, j.ios) /\ I!Values(i, j)[2] = Minus(i.sec, j.sec)
    BY <1>1, <1>3 DEF I!Values, I!Minus, Minus
  <2>2. Tells(d, Minus(i.ios, j.ios), Minus(i.sec, j.sec))
    BY DifferenceTells
  <2> QED
    BY <2>1, <2>2
<1> QED
  BY <1>2, <1>3

\* The samples of a device that is displayed.
DeviceLine(d, p) == I!Line(d, p, dev_list[d].st[curr], dev_list[d].st[1 - curr], 1)

LEMMA IoLine ==
  ASSUME KernOK, IoInv, pc = "write", NEW d \in Devices, dev_list[d].exist, NEW p
  PROVE  /\ DeviceLine(d, p).name = d /\ DeviceLine(d, p).part = p
         /\ Stayed(d) \/ DeviceLine(d, p).at = 0 =>
              Tells(d, DeviceLine(d, p).ios, DeviceLine(d, p).sec)
<1> DEFINE i == dev_list[d].st[curr]
           j == dev_list[d].st[1 - curr]
           base == IF I!Replaced(i, j) THEN NoStats ELSE j
           v == I!Values(i, base)
<1>1. dev_list[d] \in IoEntry /\ curr \in {0, 1} /\ 1 - curr \in {0, 1}
  BY DEF IoInv, IoType
<1>2. dev_list[d].st \in [{0, 1} -> Held]
  BY <1>1 DEF IoEntry, TwoSamples
<1>3. i \in Held /\ j \in Held /\ NeverFilled(j)
  BY <1>1, <1>2 DEF IoInv, IoType
<1>4. NoStats \in Held /\ NeverFilled(NoStats)
  BY NothingHeld DEF NoStats
<1>5. kern[d].up /\ I!Selected(d) /\ Copies(i, kern[d]) /\ (lastk[d].up => Copies(j, lastk[d]))
  BY DEF IoInv, IoCurrent, IoBefore
<1>6. /\ DeviceLine(d, p).name = d /\ DeviceLine(d, p).part = p
      /\ DeviceLine(d, p).at = base.at
      /\ DeviceLine(d, p).ios = v[1] /\ DeviceLine(d, p).sec = v[2]
  BY DEF DeviceLine, I!Line, I!NoStats, NoStats
<1> HIDE DEF i, j
<1>7. Stayed(d) => ~I!Replaced(i, j) /\ Copies(j, lastk[d])
  <2>1. i.ios \in Nat /\ j.ios \in Nat /\ i.sec \in Nat /\ j.sec \in Nat
    BY <1>3 DEF Held
  <2>2. ASSUME Stayed(d) PROVE Copies(j, lastk[d]) /\ ~(i.ios < j.ios)
    BY <1>5, <2>1, <2>2 DEF KernOK, Grew, Copies, Stayed
  <2> QED
    BY <2>2 DEF I!Replaced
<1>8. base \in Held /\ NeverFilled(base) /\ (Stayed(d) => Copies(base, lastk[d]))
  BY <1>3, <1>4, <1>7
<1> HIDE DEF base
<1>9. Stayed(d) \/ base.at = 0 => Tells(d, v[1], v[2])
  BY <1>3, <1>5, <1>8, ValuesTell
<1> QED
  BY <1>6, <1>9

\* The devices that have a line in a report.
IoLines ==
  {d \in Devices :
     /\ dev_list[d].in /\ dev_list[d].exist /\ ~(opt.gonly /\ dev_list[d].grp # NoGroup)
     /\ I!Active(dev_list[d].st[curr], dev_list[d].st[1 - curr])}

\* The devices that should have one.
IoShown(d) ==
  /\ kern[d].up /\ I!Selected(d)
  /\ opt.unfiltered \/ kern[d].ios # 0
  /\ ~(opt.gonly /\ dev_list[d].grp # NoGroup)

LEMMA IoReport ==
  ASSUME NamesApart, KernOK, IoInv, pc = "write"
  PROVE  {l \in I!Report : l.name \in Devices} =
         UNION {{DeviceLine(d, p) : d \in IoLines} : p \in I!FirstPart..I!LastPart}
<1> DEFINE Parts4 == I!FirstPart..I!LastPart
<1>1. opt.groups \subseteq Groups
  BY OptionsOK DEF IoInv, IoType, OptionOK
<1>2. ASSUME NEW p, NEW l \in I!GroupLines(p) PROVE l.name \in Groups
  <2>1. PICK g \in opt.groups :
          l = I!Line(g, p, I!GroupStats(g, p), groups[g].st[1 - curr], I!GroupType(g) - I!T_GROUP)
    BY DEF I!GroupLines
  <2>2. l.name = g
    BY <2>1 DEF I!Line
  <2> QED
    BY <1>1, <2>2
<1>3. ASSUME NEW p PROVE I!DeviceLines(p) = {DeviceLine(d, p) : d \in IoLines}
  BY SameDevices, Zenon DEF I!DeviceLines, IoLines, DeviceLine
<1>4. ASSUME NEW p, NEW d \in IoLines PROVE DeviceLine(d, p).name = d /\ d \in Devices
  BY IoLine DEF IoLines
<1>5. \A l : l.name \in Devices => I!Printed(l)
  BY DEF I!Printed, NamesApart
<1>6. I!Report = {l \in UNION {I!DeviceLines(p) \cup I!GroupLines(p) : p \in Parts4} : I!Printed(l)}
  BY Zenon DEF I!Report, I!AllLines
<1> HIDE DEF Parts4
<1> DEFINE L(p) == {DeviceLine(d, p) : d \in IoLines}
<1>7. ASSUME NEW p PROVE \A l \in L(p) : l.name \in Devices /\ l \in I!DeviceLines(p)
  BY <1>3, <1>4
<1>8. ASSUME NEW p, NEW l, l.name \in Devices, l \in I!DeviceLines(p) \cup I!GroupLines(p)
      PROVE  l \in L(p)
  BY <1>2, <1>3, <1>8 DEF NamesApart
<1> HIDE DEF L
<1>9. {l \in I!Report : l.name \in Devices} = UNION {L(p) : p \in Parts4}
  BY <1>5, <1>6, <1>7, <1>8
<1> QED
  BY <1>9 DEF L, Parts4

LEMMA IoWrite ==
  ASSUME NamesApart, KernOK, IoInv, LinesTrue, I!WriteStats
  PROVE  KernOK' /\ IoInv' /\ LinesTrue' /\ I!DevicesReported'
<1>1. /\ pc = "write" /\ pc' \in {"done", "pause"}
      /\ kern' = kern /\ lastk' = lastk /\ sample' = sample
      /\ opt' = opt /\ dev_list' = dev_list /\ curr' = curr /\ skip' = skip
      /\ out' = IF skip THEN {} ELSE I!Report
  BY Zenon DEF I!WriteStats, I!kernVars
<1>2. KernOK'
  BY <1>1 DEF KernOK, Grew, Stayed
<1>3. \A d \in Devices : I!Selected(d)' <=> I!Selected(d)
  BY <1>1 DEF I!Selected
<1>4. IoInv'
  <2>1. IoType'
    BY <1>1 DEF IoInv, IoType
  <2>2. \A d \in Devices : IoEntered(d)'
    BY <1>1, <1>3 DEF IoInv, IoEntered, Listed, TypeEntered
  <2>3. \A d \in Devices : IoCurrent(d)'
    BY <1>1, <1>3 DEF IoInv, IoCurrent
  <2> QED
    BY <1>1, <2>1, <2>2, <2>3 DEF IoInv
<1>5. CASE skip
  <2>1. LinesTrue'
    BY <1>1, <1>5, SameOut
  <2> QED
    BY <1>1, <1>2, <1>4, <1>5, <2>1 DEF I!DevicesReported
<1>6. CASE ~skip
  <2> DEFINE F == I!FirstPart
             G == I!LastPart
  <2>1. OfDevices' = UNION {{DeviceLine(d, p) : d \in IoLines} : p \in F..G}
    BY <1>1, <1>6, IoReport DEF OfDevices
  <2>2. ASSUME NEW d \in IoLines, NEW p
        PROVE  /\ d \in Devices /\ DeviceLine(d, p).name = d /\ DeviceLine(d, p).part = p
               /\ Stayed(d) \/ DeviceLine(d, p).at = 0 =>
                    Tells(d, DeviceLine(d, p).ios, DeviceLine(d, p).sec)
    BY <1>1, IoLine DEF IoLines
  <2>3. LinesTrue'
    <3> SUFFICES ASSUME NEW l \in OfDevices', (Stayed(l.name) \/ l.at = 0)'
                 PROVE  (/\ (l.ios - Did(l.name).ios) % Width = 0
                         /\ (l.sec - Did(l.name).sec) % Width = 0)'
      BY DEF LinesTrue
    <3>1. PICK p \in F..G, d \in IoLines : l = DeviceLine(d, p)
      BY <2>1
    <3>2. d \in Devices /\ l.name = d
      BY <2>2, <3>1
    <3>3. Stayed(d) \/ l.at = 0
      BY <1>1, <3>2 DEF Stayed
    <3>4. Tells(d, l.ios, l.sec)
      BY <2>2, <3>1, <3>3
    <3>5. Did(l.name)' = Did(d)
      BY <1>1, <3>2 DEF Did, Stayed
    <3> QED
      BY <3>4, <3>5 DEF Tells
  <2> DEFINE D == {d \in Devices : IoShown(d)}
  <2>4. ~opt.zero => IoLines = D
    <3> SUFFICES ASSUME ~opt.zero, NEW d \in Devices PROVE d \in IoLines <=> IoShown(d)
      BY DEF IoLines
    <3>1. IoCurrent(d)
      BY <1>1 DEF IoInv
    <3>2. dev_list[d].exist =>
            (I!Active(dev_list[d].st[curr], dev_list[d].st[1 - curr]) <=>
               opt.unfiltered \/ kern[d].ios # 0)
      BY <3>1 DEF I!Active, IoCurrent, Copies
    <3> QED
      BY <3>1, <3>2 DEF IoLines, IoCurrent, IoShown
  <2>5. ASSUME NEW p \in F..G
        PROVE  {l.name : l \in {m \in OfDevices' : m.part = p}} = IoLines
    <3> HIDE DEF F, G
    <3>1. ASSUME NEW d \in IoLines
          PROVE  \E l \in OfDevices' : l.part = p /\ l.name = d
      BY <2>1, <2>2
    <3>2. ASSUME NEW l \in OfDevices', l.part = p PROVE l.name \in IoLines
      BY <2>1, <2>2
    <3> QED
      BY <3>1, <3>2
  <2>6. I!OfDevices' = OfDevices'
    BY SameDevices DEF I!OfDevices, OfDevices
  <2>7. I!FirstPart' = F /\ I!LastPart' = G
    BY <1>1 DEF I!FirstPart, I!LastPart, I!InParts
  <2>8. D = {d \in Devices : IoShown(d)'}
    <3>1. \A d \in Devices : IoShown(d)' <=> IoShown(d)
      BY <1>1, <1>3 DEF IoShown
    <3> QED
      BY <3>1
  <2> HIDE DEF D, F, G
  <2>9. I!DevicesReported'
    <3> SUFFICES ASSUME ~opt.zero, NEW p \in F..G
                 PROVE  {l.name : l \in {m \in OfDevices' : m.part = p}} = D
      BY <1>1, <2>6, <2>7, <2>8, SameDevices DEF I!DevicesReported, IoShown
    <3> QED
      BY <2>4, <2>5
  <2> QED
    BY <1>2, <1>4, <2>3, <2>9
<1> QED
  BY <1>5, <1>6

LEMMA IoPause ==
  ASSUME KernOK, IoInv, LinesTrue, I!Pause
  PROVE  KernOK' /\ IoInv' /\ LinesTrue' /\ I!DevicesReported'
<1>1. /\ pc = "pause" /\ pc' = "read" /\ lastk' = kern /\ sample' = sample /\ I!Elapse
      /\ opt' = opt /\ dev_list' = dev_list /\ curr' = 1 - curr /\ out' = {}
  BY Zenon DEF I!Pause
<1>2. KernOK'
  BY <1>1, SameDevices, Elapsed
<1>3. curr \in {0, 1} /\ curr' \in {0, 1} /\ 1 - curr' = curr
  BY <1>1 DEF IoInv, IoType
<1>4. \A d \in Devices : I!Selected(d)' <=> I!Selected(d)
  BY <1>1 DEF I!Selected
<1>5. IoType'
  BY <1>1, <1>3 DEF IoInv, IoType
<1>6. \A d \in Devices : IoEntered(d)'
  BY <1>1, <1>4 DEF IoInv, IoEntered, Listed, TypeEntered
<1>7. \A d \in Devices : IoBefore(d)'
  BY <1>1, <1>3, <1>4 DEF IoInv, IoBefore, IoCurrent
<1>8. LinesTrue'
  BY <1>1, SameOut
<1> QED
  BY <1>1, <1>2, <1>5, <1>6, <1>7, <1>8 DEF IoInv, I!DevicesReported

LEMMA IoNext ==
  ASSUME NamesApart, KernOK, IoInv, LinesTrue, I!DevicesReported, Blank, I!Next
  PROVE  KernOK' /\ IoInv' /\ LinesTrue' /\ I!DevicesReported' /\ Blank'
<1>1. CASE I!ReadStats
  <2>1. pc = "read" /\ pc' = "write" /\ out' = out /\ kern' = kern /\ lastk' = lastk
    BY <1>1, Zenon DEF I!ReadStats
  <2> QED
    BY <1>1, <2>1, IoRead, SameOut DEF I!DevicesReported, Blank
<1>2. CASE I!WriteStats
  <2>1. pc' \in {"done", "pause"}
    BY <1>2, Zenon DEF I!WriteStats
  <2> QED
    BY <1>2, <2>1, IoWrite DEF Blank
<1>3. CASE I!Pause
  <2>1. out' = {}
    BY <1>3, Zenon DEF I!Pause
  <2> QED
    BY <1>3, <2>1, IoPause DEF Blank
<1>4. CASE I!Interrupted \/ I!Done
  <2>1. /\ pc' = "done" /\ out' = out /\ kern' = kern /\ lastk' = lastk
        /\ sample' = sample /\ opt' = opt /\ dev_list' = dev_list
        /\ curr' = curr \/ curr' = 1 - curr
    BY <1>4, Zenon DEF I!Interrupted, I!Done, I!vars, I!kernVars, I!toolVars
  <2>2. KernOK'
    BY <2>1 DEF KernOK, Grew, Stayed
  <2>3. curr' \in {0, 1}
    BY <2>1 DEF IoInv, IoType
  <2>4. IoType'
    BY <2>1, <2>3 DEF IoInv, IoType
  <2>5. \A d \in Devices : I!Selected(d)' <=> I!Selected(d)
    BY <2>1 DEF I!Selected
  <2>6. \A d \in Devices : IoEntered(d)'
    BY <2>1, <2>5 DEF IoInv, IoEntered, Listed, TypeEntered
  <2>7. LinesTrue'
    BY <2>1, SameOut
  <2> QED
    BY <2>1, <2>2, <2>4, <2>6, <2>7 DEF IoInv, I!DevicesReported, Blank
<1> QED
  BY <1>1, <1>2, <1>3, <1>4 DEF I!Next

LEMMA CifsBlank ==
  ASSUME Blank, C!Next
  PROVE  Blank'
<1>1. CASE C!ReadStats
  <2>1. pc = "read" /\ out' = out
    BY <1>1, Zenon DEF C!ReadStats
  <2> QED
    BY <2>1 DEF Blank
<1>2. CASE C!WriteStats
  <2>1. pc' \in {"done", "pause"}
    BY <1>2, Zenon DEF C!WriteStats
  <2> QED
    BY <2>1 DEF Blank
<1>3. CASE C!Pause
  <2>1. out' = {}
    BY <1>3, Zenon DEF C!Pause
  <2> QED
    BY <2>1 DEF Blank
<1>4. CASE C!Interrupted \/ C!Done
  <2>1. pc' = "done"
    BY <1>4, Zenon DEF C!Interrupted, C!Done, C!vars, C!toolVars
  <2> QED
    BY <2>1 DEF Blank
<1> QED
  BY <1>1, <1>2, <1>3, <1>4 DEF C!Next

-----------------------------------------------------------------------------
(* The groups of iostat.                                                    *)

Ios(k) == [d \in Devices |-> k[d].ios]
Secs(k) == [d \in Devices |-> k[d].sec]

\* The devices of a group that are there in k, and a sample that is their sum.
Has(g, k) == {d \in Devices : k[d].up /\ I!Selected(d) /\ dev_list[d].grp = g}
Holds(s, k, M) == IsTotal(s.ios, Ios(k), M) /\ IsTotal(s.sec, Secs(k), M)

\* What a group has summed up is what its devices had counted then.
IoGroups ==
  /\ \A g \in Groups : DOMAIN groups[g].st = {0, 1}
  /\ ~I!InParts => \A g \in opt.groups :
       /\ pc \in {"read", "write"} => Holds(groups[g].st[1 - curr], lastk, Has(g, lastk))
       /\ pc = "pause" => Holds(groups[g].st[curr], kern, Has(g, kern))

\* What a group sums up when its members are displayed.
LEMMA MembersTotal ==
  ASSUME FiniteDevices, KernOK, IoInv, pc = "write", NEW g, opt.unfiltered
  PROVE  Holds(I!GroupStats(g, I!FirstPart), kern, Has(g, kern))
<1> DEFINE M == Has(g, kern)
           s == I!GroupStats(g, I!FirstPart)
           vi == [d \in M |-> kern[d].ios]
           vs == [d \in M |-> kern[d].sec]
           Qi(h) == h = [t \in SUBSET M |->
                           IF t = {} THEN 0 ELSE dev_list[CHOOSE x \in t : TRUE].st[curr].ios
                                               + h[t \ {CHOOSE x \in t : TRUE}]]
           Qs(h) == h = [t \in SUBSET M |->
                           IF t = {} THEN 0 ELSE dev_list[CHOOSE x \in t : TRUE].st[curr].sec
                                               + h[t \ {CHOOSE x \in t : TRUE}]]
<1>1. I!Added(g) = M
  <2>1. \A d \in Devices : IoCurrent(d)
    BY DEF IoInv
  <2> QED
    BY <2>1, SameDevices DEF I!Added, I!Members, Has, IoCurrent
<1>2. s.ios = (CHOOSE h : Qi(h))[M]
  <2>1. s.ios = I!MapThenSumSet(LAMBDA d : dev_list[d].st[curr].ios, I!Added(g))
    BY DEF I!GroupStats
  <2>2. s.ios = (CHOOSE h : h = [t \in SUBSET I!Added(g) |->
                           IF t = {} THEN 0 ELSE dev_list[CHOOSE x \in t : TRUE].st[curr].ios
                                               + h[t \ {CHOOSE x \in t : TRUE}]])[I!Added(g)]
    BY <2>1, Zenon DEF I!MapThenSumSet, I!MapThenFoldSet
  <2> QED
    BY <1>1, <2>2, Zenon
<1>3. s.sec = (CHOOSE h : Qs(h))[M]
  <2>1. s.sec = I!MapThenSumSet(LAMBDA d : dev_list[d].st[curr].sec, I!Added(g))
    BY DEF I!GroupStats
  <2>2. s.sec = (CHOOSE h : h = [t \in SUBSET I!Added(g) |->
                           IF t = {} THEN 0 ELSE dev_list[CHOOSE x \in t : TRUE].st[curr].sec
                                               + h[t \ {CHOOSE x \in t : TRUE}]])[I!Added(g)]
    BY <2>1, Zenon DEF I!MapThenSumSet, I!MapThenFoldSet
  <2> QED
    BY <1>1, <2>2, Zenon
<1>4. IsFiniteSet(M)
  BY FS_Subset DEF FiniteDevices, Has
<1>5. \A d \in M : /\ kern[d].ios \in Nat /\ kern[d].sec \in Nat
                   /\ Copies(dev_list[d].st[curr], kern[d])
  <2>1. \A d \in Devices : IoCurrent(d) /\ kern[d] \in Shown
    BY DEF IoInv, KernOK
  <2> QED
    BY <2>1 DEF Has, IoCurrent, Shown
<1> HIDE DEF M, s
<1>6. ASSUME NEW h PROVE (Qi(h) <=> Sums(h, vi, M)) /\ (Qs(h) <=> Sums(h, vs, M))
  <2>1. ASSUME NEW t \in SUBSET M, t # {}
        PROVE  /\ (CHOOSE x \in t : TRUE) \in t
               /\ dev_list[CHOOSE x \in t : TRUE].st[curr].ios = vi[CHOOSE x \in t : TRUE]
               /\ dev_list[CHOOSE x \in t : TRUE].st[curr].sec = vs[CHOOSE x \in t : TRUE]
    <3>1. PICK c : c = CHOOSE x \in t : TRUE
      OBVIOUS
    <3>2. c \in t
      BY <2>1, <3>1
    <3>3. dev_list[c].st[curr].ios = vi[c] /\ dev_list[c].st[curr].sec = vs[c]
      BY <1>5, <3>2 DEF Copies
    <3> QED
      BY <3>1, <3>2, <3>3
  <2> HIDE DEF vi, vs
  <2> QED
    BY <2>1 DEF Sums, SumOf
<1>7. vi \in [M -> Nat] /\ vs \in [M -> Nat]
  BY <1>5
<1> HIDE DEF vi, vs
<1> HIDE DEF Qi, Qs
<1>8. (\E h : Qi(h)) /\ (\E h : Qs(h))
  <2>1. (\E h : Sums(h, vi, M)) /\ (\E h : Sums(h, vs, M))
    BY <1>4, <1>7, SumExists
  <2> QED
    BY <1>6, <2>1
<1>9. Sums(CHOOSE h : Qi(h), vi, M) /\ Sums(CHOOSE h : Qs(h), vs, M)
  BY <1>6, <1>8
<1>10. IsTotal(s.ios, vi, M) /\ IsTotal(s.sec, vs, M)
  BY <1>2, <1>3, <1>9 DEF IsTotal
<1>11. \A d \in M : vi[d] = Ios(kern)[d] /\ vs[d] = Secs(kern)[d]
  BY DEF vi, vs, M, Has, Ios, Secs
<1>12. Holds(s, kern, M)
  BY <1>10, <1>11, TotalSame DEF Holds
<1> QED
  BY <1>12 DEF s, M

\* What the devices did between two values of their counters, and the sums of it.
DoneIn(k, lk, d) ==
  IF k[d].up /\ lk[d].up /\ k[d].reg = lk[d].reg
    THEN [ios |-> k[d].ios - lk[d].ios, sec |-> k[d].sec - lk[d].sec]
    ELSE [ios |-> k[d].ios, sec |-> k[d].sec]
SumIos(k, lk, M) == I!MapThenSumSet(LAMBDA d : DoneIn(k, lk, d).ios, M)
SumSecs(k, lk, M) == I!MapThenSumSet(LAMBDA d : DoneIn(k, lk, d).sec, M)

DoneIos == [d \in Devices |-> Did(d).ios]
DoneSecs == [d \in Devices |-> Did(d).sec]

LEMMA DidTotal ==
  ASSUME KernOK, NEW M, M \subseteq Devices, IsFiniteSet(M)
  PROVE  /\ IsTotal(SumIos(kern, lastk, M), DoneIos, M)
         /\ IsTotal(SumSecs(kern, lastk, M), DoneSecs, M)
<1> DEFINE vi == [d \in M |-> Did(d).ios]
           vs == [d \in M |-> Did(d).sec]
           Qi(h) == h = [t \in SUBSET M |->
                           IF t = {} THEN 0 ELSE DoneIn(kern, lastk, CHOOSE x \in t : TRUE).ios
                                               + h[t \ {CHOOSE x \in t : TRUE}]]
           Qs(h) == h = [t \in SUBSET M |->
                           IF t = {} THEN 0 ELSE DoneIn(kern, lastk, CHOOSE x \in t : TRUE).sec
                                               + h[t \ {CHOOSE x \in t : TRUE}]]
<1>1. SumIos(kern, lastk, M) = (CHOOSE h : Qi(h))[M]
  BY Zenon DEF SumIos, I!MapThenSumSet, I!MapThenFoldSet
<1>2. SumSecs(kern, lastk, M) = (CHOOSE h : Qs(h))[M]
  BY Zenon DEF SumSecs, I!MapThenSumSet, I!MapThenFoldSet
<1>3. ASSUME NEW d \in M
      PROVE  /\ Did(d).ios \in Nat /\ Did(d).sec \in Nat
             /\ DoneIn(kern, lastk, d) = Did(d)
  <2>1. kern[d] \in Shown /\ lastk[d] \in Shown /\ Grew(d)
    BY DEF KernOK
  <2> QED
    BY <2>1 DEF Shown, Grew, Did, Stayed, DoneIn
<1>4. ASSUME NEW h PROVE (Qi(h) <=> Sums(h, vi, M)) /\ (Qs(h) <=> Sums(h, vs, M))
  <2>1. ASSUME NEW t \in SUBSET M, t # {}
        PROVE  /\ (CHOOSE x \in t : TRUE) \in t
               /\ DoneIn(kern, lastk, CHOOSE x \in t : TRUE).ios = vi[CHOOSE x \in t : TRUE]
               /\ DoneIn(kern, lastk, CHOOSE x \in t : TRUE).sec = vs[CHOOSE x \in t : TRUE]
    <3>1. PICK c : c = CHOOSE x \in t : TRUE
      OBVIOUS
    <3>2. c \in t
      BY <2>1, <3>1
    <3>3. DoneIn(kern, lastk, c).ios = vi[c] /\ DoneIn(kern, lastk, c).sec = vs[c]
      BY <1>3, <3>2
    <3> QED
      BY <3>1, <3>2, <3>3
  <2> HIDE DEF vi, vs
  <2> QED
    BY <2>1 DEF Sums, SumOf
<1>5. vi \in [M -> Nat] /\ vs \in [M -> Nat]
  BY <1>3
<1> HIDE DEF vi, vs
<1> HIDE DEF Qi, Qs
<1>6. (\E h : Qi(h)) /\ (\E h : Qs(h))
  <2>1. (\E h : Sums(h, vi, M)) /\ (\E h : Sums(h, vs, M))
    BY <1>5, SumExists
  <2> QED
    BY <1>4, <2>1
<1>7. Sums(CHOOSE h : Qi(h), vi, M) /\ Sums(CHOOSE h : Qs(h), vs, M)
  BY <1>4, <1>6
<1>8. IsTotal(SumIos(kern, lastk, M), vi, M) /\ IsTotal(SumSecs(kern, lastk, M), vs, M)
  BY <1>1, <1>2, <1>7 DEF IsTotal
<1>9. \A d \in M : vi[d] = DoneIos[d] /\ vs[d] = DoneSecs[d]
  BY DEF vi, vs, DoneIos, DoneSecs
<1> QED
  BY <1>8, <1>9, TotalSame
\* What the devices of a group did, and what is said of the lines of groups.
DidIos(g) == I!MapThenSumSet(LAMBDA d : I!Did(d).ios, I!Members(g))
DidSecs(g) == I!MapThenSumSet(LAMBDA d : I!Did(d).sec, I!Members(g))
Settled(g) ==
  \A d \in Devices : dev_list[d].grp = g => Stayed(d) \/ (~kern[d].up /\ ~lastk[d].up)
GroupTold(l) ==
  l.name \in Groups /\ ~I!InParts /\ Settled(l.name) =>
     (l.ios - DidIos(l.name)) % Width = 0 /\ (l.sec - DidSecs(l.name)) % Width = 0

LEMMA ToldNow == I!GroupsTrue' <=> \A l \in out' : GroupTold(l)'
  BY SameDevices, Zenon DEF I!GroupsTrue, GroupTold, Settled, DidIos, DidSecs, I!Stayed, Stayed

LEMMA DidNow ==
  ASSUME NEW g
  PROVE  /\ DidIos(g)' = SumIos(kern', lastk', I!Members(g)')
         /\ DidSecs(g)' = SumSecs(kern', lastk', I!Members(g)')
<1>1. DidIos(g)' = SumIos(kern', lastk', I!Members(g)')
  BY Zenon DEF DidIos, I!Did, I!Stayed, DoneIn, SumIos, I!MapThenSumSet, I!MapThenFoldSet
<1>2. DidSecs(g)' = SumSecs(kern', lastk', I!Members(g)')
  BY Zenon DEF DidSecs, I!Did, I!Stayed, DoneIn, SumSecs, I!MapThenSumSet, I!MapThenFoldSet
<1> QED
  BY <1>1, <1>2

\* The values of the line of a group whose counters grew by a and b.
LEMMA GroupLine ==
  ASSUME NEW i, NEW j, NEW a \in Nat, NEW b \in Nat, j.ios \in Nat, j.sec \in Nat,
         i.ios = j.ios + a, i.sec = j.sec + b, NEW g, NEW p, NEW n
  PROVE  /\ (I!Line(g, p, i, j, n).ios - a) % Width = 0
         /\ (I!Line(g, p, i, j, n).sec - b) % Width = 0
<1> DEFINE v == I!Values(i, j)
<1>1. ~I!Replaced(i, j)
  BY DEF I!Replaced
<1>2. I!Line(g, p, i, j, n).ios = v[1] /\ I!Line(g, p, i, j, n).sec = v[2]
  BY <1>1 DEF I!Line
<1>3. CASE opt.ext
  <2>1. v[1] = i.ios - j.ios /\ v[2] = i.sec - j.sec
    BY <1>3 DEF I!Values, I!Guarded
  <2>2. v[1] = a /\ v[2] = b
    BY <2>1
  <2> QED
    BY <1>2, <2>2, ZeroTrue
<1>4. CASE ~opt.ext
  <2>1. v[1] = Minus(i.ios, j.ios) /\ v[2] = Minus(i.sec, j.sec)
    BY <1>4 DEF I!Values, I!Minus, Minus
  <2>2. i.ios - j.ios = a /\ i.sec - j.sec = b
    OBVIOUS
  <2>3. (Minus(i.ios, j.ios) - a) % Width = 0 /\ (Minus(i.sec, j.sec) - b) % Width = 0
    <3>1. i.ios \in Int /\ j.ios \in Int /\ i.sec \in Int /\ j.sec \in Int
      OBVIOUS
    <3>2. /\ (Minus(i.ios, j.ios) - (i.ios - j.ios)) % Width = 0
          /\ (Minus(i.sec, j.sec) - (i.sec - j.sec)) % Width = 0
      BY <3>1, MinusTrue
    <3> QED
      BY <2>2, <3>2
  <2> QED
    BY <1>2, <2>1, <2>3
<1> QED
  BY <1>3, <1>4
\* The line of a group is in the report of its sums.
LEMMA GroupReported ==
  ASSUME NamesApart, KernOK, IoInv, pc = "write", ~I!InParts, NEW l \in I!Report, l.name \in Groups
  PROVE  /\ l.name \in opt.groups
         /\ \E n : l = I!Line(l.name, 0, I!GroupStats(l.name, 0), groups[l.name].st[1 - curr], n)
<1>1. I!FirstPart = 0 /\ I!LastPart = 0
  BY DEF I!FirstPart, I!LastPart
<1>2. PICK p \in 0..0 : l \in I!DeviceLines(p) \cup I!GroupLines(p)
  BY <1>1, Zenon DEF I!Report, I!AllLines
<1>3. p = 0
  BY <1>2
<1>4. l \notin I!DeviceLines(p)
  <2>1. SUFFICES ASSUME l \in I!DeviceLines(p) PROVE FALSE
    OBVIOUS
  <2>2. PICK d \in Devices : l = I!Line(d, p, dev_list[d].st[curr], dev_list[d].st[1 - curr], 1)
    BY <2>1, SameDevices, Zenon DEF I!DeviceLines
  <2>3. l.name = d
    BY <2>2 DEF I!Line
  <2> QED
    BY <2>3 DEF NamesApart
<1>5. PICK g \in opt.groups :
        l = I!Line(g, p, I!GroupStats(g, p), groups[g].st[1 - curr], I!GroupType(g) - I!T_GROUP)
  BY <1>2, <1>4 DEF I!GroupLines
<1>6. l.name = g
  BY <1>5 DEF I!Line
<1> QED
  BY <1>3, <1>5, <1>6

LEMMA IoGroupsWrite ==
  ASSUME NamesApart, FiniteDevices, KernOK, IoInv, IoGroups, I!WriteStats
  PROVE  IoGroups' /\ I!GroupsTrue'
<1>1. /\ pc = "write" /\ pc' \in {"done", "pause"}
      /\ kern' = kern /\ lastk' = lastk
      /\ opt' = opt /\ dev_list' = dev_list /\ curr' = curr
      /\ out' = IF skip THEN {} ELSE I!Report
      /\ groups' = [g \in Groups |->
                      IF g \notin opt.groups THEN groups[g]
                      ELSE [dev_tp |-> I!GroupType(g),
                            st |-> [groups[g].st EXCEPT ![curr] = I!GroupStats(g, I!LastPart)]]]
  BY Zenon DEF I!WriteStats, I!kernVars
<1>2. /\ opt.groups \subseteq Groups /\ (opt.groups # {} => opt.unfiltered)
      /\ curr \in {0, 1}
  BY OptionsOK DEF IoInv, IoType, OptionOK
<1>3. \A g \in Groups : DOMAIN groups'[g].st = {0, 1}
  BY <1>1 DEF IoGroups
<1>4. (I!InParts' <=> I!InParts) /\ (~I!InParts => I!FirstPart = 0 /\ I!LastPart = 0)
  BY <1>1 DEF I!InParts, I!FirstPart, I!LastPart
<1>5. ASSUME NEW g \in opt.groups, ~I!InParts
      PROVE  Holds(I!GroupStats(g, 0), kern, Has(g, kern))
  BY <1>1, <1>2, <1>4, <1>5, MembersTotal
<1>6. ASSUME NEW g PROVE Has(g, kern)' = Has(g, kern)
  <2>1. \A d \in Devices : I!Selected(d)' <=> I!Selected(d)
    BY <1>1 DEF I!Selected
  <2> QED
    BY <1>1, <2>1 DEF Has
<1>7. IoGroups'
  <2>1. SUFFICES ASSUME NEW g \in opt.groups, ~I!InParts
                 PROVE  Holds(groups[g].st[curr], kern, Has(g, kern))'
    BY <1>1, <1>3, <1>4 DEF IoGroups
  <2>2. groups'[g].st[curr'] = I!GroupStats(g, 0)
    BY <1>1, <1>2, <1>4, <2>1 DEF IoGroups
  <2>3. Holds(groups[g].st[curr], kern, Has(g, kern))' <=>
          Holds(I!GroupStats(g, 0), kern, Has(g, kern))
    BY <1>1, <1>6, <2>2 DEF Holds, Ios, Secs
  <2> QED
    BY <1>5, <2>1, <2>3
<1>8. ASSUME NEW l \in out', l.name \in Groups, ~I!InParts, Settled(l.name)'
      PROVE  ((l.ios - DidIos(l.name)) % Width = 0 /\ (l.sec - DidSecs(l.name)) % Width = 0)'
  <2> DEFINE g == l.name
             M == Has(g, kern)
             i == I!GroupStats(g, 0)
             j == groups[g].st[1 - curr]
             a == SumIos(kern, lastk, M)
             b == SumSecs(kern, lastk, M)
  <2>1. l \in I!Report
    BY <1>1, <1>8
  <2>2. g \in opt.groups /\ \E n : l = I!Line(g, 0, i, j, n)
    BY <1>1, <1>8, <2>1, GroupReported
  <2>3. Settled(g)
    BY <1>1, <1>8 DEF Settled, Stayed
  <2>4. Has(g, lastk) = M
    BY <2>3 DEF Has, Settled, Stayed
  <2>5. I!Members(g)' = M
    <3>1. \A d \in Devices : IoCurrent(d)
      BY <1>1 DEF IoInv
    <3> QED
      BY <1>1, <3>1, SameDevices DEF I!Members, Has, IoCurrent
  <2>6. DidIos(g)' = a /\ DidSecs(g)' = b
    <3>1. /\ DidIos(g)' = SumIos(kern', lastk', I!Members(g)')
          /\ DidSecs(g)' = SumSecs(kern', lastk', I!Members(g)')
      BY DidNow
    <3>2. SumIos(kern', lastk', I!Members(g)') = a /\ SumSecs(kern', lastk', I!Members(g)') = b
      BY <1>1, <2>5, Zenon
    <3> QED
      BY <3>1, <3>2, Zenon
  <2>7. Holds(i, kern, M) /\ Holds(j, lastk, M)
    BY <1>1, <1>5, <1>8, <2>2, <2>4 DEF IoGroups
  <2>8. M \subseteq Devices /\ IsFiniteSet(M)
    BY FS_Subset DEF FiniteDevices, Has
  <2>9. IsTotal(a, DoneIos, M) /\ IsTotal(b, DoneSecs, M)
    BY <2>8, DidTotal
  <2>10. ASSUME NEW d \in M
         PROVE  /\ Ios(lastk)[d] \in Nat /\ DoneIos[d] \in Nat
                /\ Ios(kern)[d] = Ios(lastk)[d] + DoneIos[d]
                /\ Secs(lastk)[d] \in Nat /\ DoneSecs[d] \in Nat
                /\ Secs(kern)[d] = Secs(lastk)[d] + DoneSecs[d]
    <3>1. kern[d] \in Shown /\ lastk[d] \in Shown /\ Grew(d)
      BY <2>8 DEF KernOK
    <3>2. Stayed(d)
      BY <2>3 DEF Has, Settled
    <3> QED
      BY <2>8, <3>1, <3>2 DEF Shown, Grew, Ios, Secs, DoneIos, DoneSecs, Did
  <2> HIDE DEF g, M, i, j, a, b
  <2>11. i.ios = j.ios + a /\ j.ios \in Nat /\ a \in Nat
    BY <2>7, <2>8, <2>9, <2>10, TotalPlus DEF Holds
  <2>12. i.sec = j.sec + b /\ j.sec \in Nat /\ b \in Nat
    BY <2>7, <2>8, <2>9, <2>10, TotalPlus DEF Holds
  <2>13. (l.ios - a) % Width = 0 /\ (l.sec - b) % Width = 0
    <3>1. PICK n : l = I!Line(g, 0, i, j, n)
      BY <2>2
    <3>2. /\ (I!Line(g, 0, i, j, n).ios - a) % Width = 0
          /\ (I!Line(g, 0, i, j, n).sec - b) % Width = 0
      BY <2>11, <2>12, GroupLine
    <3> QED
      BY <3>1, <3>2
  <2> QED
    BY <2>6, <2>13 DEF g
<1>9. I!GroupsTrue'
  BY <1>4, <1>8, ToldNow DEF GroupTold
<1> QED
  BY <1>7, <1>9
LEMMA IoGroupsRead ==
  ASSUME KernOK, IoInv, IoGroups, I!ReadStats
  PROVE  IoGroups'
<1>1. /\ pc = "read" /\ pc' = "write" /\ lastk' = lastk /\ opt' = opt /\ curr' = curr
      /\ groups' = groups
  BY Zenon DEF I!ReadStats
<1>2. I!InParts' <=> I!InParts
  BY <1>1 DEF I!InParts
<1>3. ASSUME NEW g PROVE Has(g, lastk)' = Has(g, lastk)
  <2>1. ASSUME NEW d \in Devices, lastk[d].up, I!Selected(d)
        PROVE  dev_list'[d].grp = dev_list[d].grp
    <3>1. dev_list[d].in
      BY <1>1, <2>1 DEF IoInv, IoBefore
    <3> QED
      BY <3>1, IoReadEntries
  <2>2. \A d \in Devices : I!Selected(d)' <=> I!Selected(d)
    BY IoRead
  <2> QED
    BY <1>1, <2>1, <2>2 DEF Has
<1>4. SUFFICES ASSUME NEW g \in opt.groups, ~I!InParts
               PROVE  Holds(groups[g].st[1 - curr], lastk, Has(g, lastk))'
  BY <1>1, <1>2 DEF IoGroups
<1>5. Holds(groups[g].st[1 - curr], lastk, Has(g, lastk))' <=>
        Holds(groups[g].st[1 - curr], lastk, Has(g, lastk))
  BY <1>1, <1>3 DEF Holds, Ios, Secs
<1> QED
  BY <1>1, <1>4, <1>5 DEF IoGroups

LEMMA IoGroupsPause ==
  ASSUME IoInv, IoGroups, I!Pause
  PROVE  IoGroups'
<1>1. /\ pc = "pause" /\ pc' = "read" /\ lastk' = kern
      /\ opt' = opt /\ dev_list' = dev_list /\ curr' = 1 - curr /\ groups' = groups
  BY Zenon DEF I!Pause
<1>2. curr \in {0, 1} /\ 1 - curr' = curr
  BY <1>1 DEF IoInv, IoType
<1>3. I!InParts' <=> I!InParts
  BY <1>1 DEF I!InParts
<1>4. ASSUME NEW g PROVE Has(g, lastk)' = Has(g, kern)
  <2>1. \A d \in Devices : I!Selected(d)' <=> I!Selected(d)
    BY <1>1 DEF I!Selected
  <2> QED
    BY <1>1, <2>1 DEF Has
<1>5. SUFFICES ASSUME NEW g \in opt.groups, ~I!InParts
               PROVE  Holds(groups[g].st[1 - curr], lastk, Has(g, lastk))'
  BY <1>1, <1>3 DEF IoGroups
<1>6. Holds(groups[g].st[1 - curr], lastk, Has(g, lastk))' <=>
        Holds(groups[g].st[curr], kern, Has(g, kern))
  BY <1>1, <1>2, <1>4 DEF Holds, Ios, Secs
<1> QED
  BY <1>1, <1>5, <1>6 DEF IoGroups

LEMMA IoGroupsInit ==
  ASSUME KernOK, \A d \in Devices : ~lastk[d].up, IoInv, I!Init
  PROVE  IoGroups
<1>1. /\ pc = "read" /\ curr = 1
      /\ groups = [g \in Groups |-> [dev_tp |-> I!T_GROUP, st |-> [i \in I!Slots |-> I!NoStats]]]
  BY Zenon DEF I!Init
<1>2. opt.groups \subseteq Groups
  BY OptionsOK DEF IoInv, IoType, OptionOK
<1>3. \A g \in Groups : groups[g].st = [i \in {0, 1} |-> NoStats]
  BY <1>1 DEF I!Slots, I!NoStats, NoStats
<1>4. ASSUME NEW v \in [Devices -> Nat] PROVE IsTotal(0, v, {})
  <2>1. IsFiniteSet({}) /\ {} \subseteq Devices
    BY FS_EmptySet
  <2>2. PICK h : Sums(h, v, {})
    BY <2>1, SumExists
  <2>3. {} \in SUBSET {} /\ h[{}] = 0
    BY <2>2, SumStep
  <2> QED
    BY <2>2, <2>3 DEF IsTotal
<1>5. ASSUME NEW g PROVE Has(g, lastk) = {}
  BY DEF Has
<1>6. Ios(lastk) \in [Devices -> Nat] /\ Secs(lastk) \in [Devices -> Nat]
  BY DEF KernOK, Shown, Ios, Secs
<1>7. ASSUME NEW g \in opt.groups PROVE Holds(groups[g].st[1 - curr], lastk, Has(g, lastk))
  <2>1. IsTotal(0, Ios(lastk), {}) /\ IsTotal(0, Secs(lastk), {})
    BY <1>4, <1>6
  <2>2. groups[g].st[1 - curr].ios = 0 /\ groups[g].st[1 - curr].sec = 0
    BY <1>1, <1>2, <1>3 DEF NoStats
  <2> QED
    BY <1>5, <2>1, <2>2, Zenon DEF Holds
<1> QED
  BY <1>1, <1>3, <1>7 DEF IoGroups

\* What is said of the lines remains true while nothing it is about changes.
LEMMA ToldSame ==
  ASSUME I!GroupsTrue, out' = out, kern' = kern, lastk' = lastk, opt' = opt, dev_list' = dev_list
  PROVE  I!GroupsTrue'
<1>1. \A l \in out : GroupTold(l)
  BY SameDevices, Zenon DEF I!GroupsTrue, GroupTold, Settled, DidIos, DidSecs, I!Stayed, Stayed
<1>2. ASSUME NEW g
      PROVE  DidIos(g) = SumIos(kern, lastk, I!Members(g)) /\ DidSecs(g) = SumSecs(kern, lastk, I!Members(g))
  <2>1. DidIos(g) = SumIos(kern, lastk, I!Members(g))
    BY Zenon DEF DidIos, I!Did, I!Stayed, DoneIn, SumIos, I!MapThenSumSet, I!MapThenFoldSet
  <2>2. DidSecs(g) = SumSecs(kern, lastk, I!Members(g))
    BY Zenon DEF DidSecs, I!Did, I!Stayed, DoneIn, SumSecs, I!MapThenSumSet, I!MapThenFoldSet
  <2> QED
    BY <2>1, <2>2
<1>3. ASSUME NEW l \in out PROVE GroupTold(l)'
  <2> DEFINE g == l.name
  <2>1. I!Members(g)' = I!Members(g)
    BY DEF I!Members
  <2>2. SumIos(kern', lastk', I!Members(g)') = SumIos(kern, lastk, I!Members(g))
    BY <2>1, Zenon
  <2>3. SumSecs(kern', lastk', I!Members(g)') = SumSecs(kern, lastk, I!Members(g))
    BY <2>1, Zenon
  <2>4. DidIos(g)' = DidIos(g) /\ DidSecs(g)' = DidSecs(g)
    <3>1. DidIos(g)' = SumIos(kern', lastk', I!Members(g)') /\ DidIos(g) = SumIos(kern, lastk, I!Members(g))
      BY <1>2, DidNow
    <3>2. DidSecs(g)' = SumSecs(kern', lastk', I!Members(g)') /\ DidSecs(g) = SumSecs(kern, lastk, I!Members(g))
      BY <1>2, DidNow
    <3> QED
      BY <2>2, <2>3, <3>1, <3>2, Zenon
  <2>5. (I!InParts' <=> I!InParts) /\ (Settled(g)' <=> Settled(g))
    BY DEF I!InParts, Settled, Stayed
  <2> QED
    BY <1>1, <2>4, <2>5 DEF GroupTold
<1> QED
  BY <1>3, ToldNow

LEMMA IoGroupsNext ==
  ASSUME NamesApart, FiniteDevices, KernOK, IoInv, IoGroups, Blank, I!GroupsTrue, I!Next
  PROVE  IoGroups' /\ I!GroupsTrue'
<1>1. CASE I!ReadStats
  <2>1. out' = {}
    <3>1. pc = "read" /\ out' = out
      BY <1>1, Zenon DEF I!ReadStats
    <3> QED
      BY <3>1 DEF Blank
  <2> QED
    BY <1>1, <2>1, IoGroupsRead, ToldNow
<1>2. CASE I!WriteStats
  BY <1>2, IoGroupsWrite
<1>3. CASE I!Pause
  <2>1. out' = {}
    BY <1>3, Zenon DEF I!Pause
  <2> QED
    BY <1>3, <2>1, IoGroupsPause, ToldNow
<1>4. CASE I!Interrupted \/ I!Done
  <2>1. /\ pc' = "done" /\ out' = out /\ kern' = kern /\ lastk' = lastk
        /\ opt' = opt /\ dev_list' = dev_list /\ groups' = groups
    BY <1>4, Zenon DEF I!Interrupted, I!Done, I!vars, I!kernVars, I!toolVars
  <2>2. IoGroups'
    BY <2>1 DEF IoGroups
  <2>3. I!GroupsTrue'
    BY <2>1, ToldSame
  <2> QED
    BY <2>2, <2>3
<1> QED
  BY <1>1, <1>2, <1>3, <1>4 DEF I!Next

-----------------------------------------------------------------------------
(* The three tools.                                                         *)

MCInv ==
  /\ KernOK /\ Blank
  /\ tool = "iostat" => IoInv
  /\ tool = "cifsiostat" => CifsInv
  /\ tool = "tapestat" => TapeInv

Reported == MCInv /\ LinesTrue /\ ReportsDevices

LEMMA IoAtInit ==
  ASSUME KernOK, \A d \in Devices : ~lastk[d].up, I!Init
  PROVE  IoInv /\ pc = "read" /\ out = {}
<1>1. /\ pc = "read" /\ out = {} /\ curr = 1 /\ opt \in IoOptions
      /\ dev_list = [d \in Devices |->
            IF d \notin DOMAIN opt.listed THEN I!Unlisted
            ELSE I!NewEntry(d, IF d \in opt.pdev THEN I!T_PART_DEV ELSE I!T_PART, opt.listed[d])]
  BY SameDevices, Zenon DEF I!Init
<1>2. OptionOK(opt)
  BY <1>1, OptionsOK
<1>3. ASSUME NEW d \in Devices, ~Listed(d)
      PROVE  /\ dev_list[d] \in IoEntry /\ ~dev_list[d].in
             /\ \A i \in {0, 1} : NeverFilled(dev_list[d].st[i])
  <2> DEFINE t == [i \in {0, 1} |-> NoStats]
  <2>1. NoStats \in Held /\ NeverFilled(NoStats)
    BY NothingHeld DEF NoStats
  <2>2. t \in TwoSamples /\ \A i \in {0, 1} : NeverFilled(t[i])
    BY <2>1 DEF TwoSamples
  <2>3. dev_list[d] = [in |-> FALSE, dev_tp |-> 0, exist |-> FALSE, num |-> FALSE,
                       grp |-> NoGroup, st |-> t]
    BY <1>1, <1>3 DEF Listed, I!Unlisted, I!T_PART, I!Slots, I!NoStats, NoStats
  <2> HIDE DEF t
  <2> QED
    BY <2>2, <2>3 DEF IoEntry, Kinds
<1>4. ASSUME NEW d \in Devices, Listed(d)
      PROVE  /\ dev_list[d] \in IoEntry /\ dev_list[d].in
             /\ \A i \in {0, 1} : NeverFilled(dev_list[d].st[i])
             /\ dev_list[d].dev_tp = IF dev_list[d].num THEN TypeEntered(d) ELSE 0
  <2> DEFINE k == IF d \in opt.pdev THEN 2 ELSE 0
  <2>1. dev_list[d] = I!NewEntry(d, k, opt.listed[d])
    BY <1>1, <1>4 DEF Listed, I!T_PART, I!T_PART_DEV
  <2>2. k \in {0, 2} /\ opt.listed[d] \in Kinds
    BY <1>2, <1>4 DEF OptionOK, Listed
  <2>3. k = 2 <=> d \in opt.pdev
    OBVIOUS
  <2> HIDE DEF k
  <2>4. /\ dev_list[d] \in IoEntry /\ dev_list[d].in /\ dev_list[d].num = kern[d].up
        /\ dev_list[d].dev_tp = (IF kern[d].up /\ d \in Disks THEN IF k = 2 THEN 2 ELSE 1 ELSE 0)
        /\ \A i \in {0, 1} : NeverFilled(dev_list[d].st[i])
    BY <2>1, <2>2, EntryNew
  <2> QED
    BY <2>3, <2>4 DEF TypeEntered
<1>5. IoType
  <2>1. dev_list \in [Devices -> IoEntry]
    BY <1>1, <1>3, <1>4
  <2> QED
    BY <1>1, <1>3, <1>4, <2>1 DEF IoType
<1>6. \A d \in Devices : IoEntered(d)
  BY <1>3, <1>4 DEF IoEntered
<1>7. \A d \in Devices : IoBefore(d)
  BY DEF IoBefore
<1> QED
  BY <1>1, <1>5, <1>6, <1>7 DEF IoInv

LEMMA CifsAtInit ==
  ASSUME KernOK, \A d \in Devices : ~lastk[d].up, C!Init
  PROVE  CifsInv /\ pc = "read" /\ out = {}
<1> DEFINE t == [i \in {0, 1} |-> NoStats]
           e == [in |-> FALSE, exist |-> FALSE, st |-> t]
<1>1. /\ pc = "read" /\ out = {} /\ curr = 1 /\ opt \in OtherOptions
      /\ dev_list = [d \in Devices |-> C!Unlisted]
  BY SameDevices, Zenon DEF C!Init
<1>2. NoStats \in Held /\ NeverFilled(NoStats)
  BY NothingHeld DEF NoStats
<1>3. t \in TwoSamples /\ \A i \in {0, 1} : NeverFilled(t[i])
  BY <1>2 DEF TwoSamples
<1>4. C!Unlisted = e
  BY DEF C!Unlisted, C!Slots, C!NoStats, NoStats
<1> HIDE DEF t
<1>5. e \in CifsEntry /\ e.st = t
  BY <1>3 DEF CifsEntry
<1>6. dev_list = [d \in Devices |-> e]
  BY <1>1, <1>4
<1> HIDE DEF e
<1> QED
  BY <1>1, <1>3, <1>5, <1>6 DEF CifsInv

LEMMA TapeAtInit ==
  ASSUME KernOK, sample = 0, \A d \in Devices : ~lastk[d].up, Init
  PROVE  TapeInv /\ pc = "read" /\ out = {}
<1>1. /\ pc = "read" /\ out = {} /\ tape_old_stats = << >> /\ tape_new_stats = << >>
  BY Zenon DEF Init
<1>2. << >> \in Cells /\ Len(<< >>) = 0 /\ Len(DriveSeq) \in Nat
  BY DrivesAssumption DEF Cells
<1>3. TapeType
  BY <1>1, <1>2 DEF TapeType
<1>4. Drives = {}
  BY <1>1 DEF Drives
<1> QED
  BY <1>1, <1>2, <1>3, <1>4 DEF TapeInv

LEMMA ReportedInit ==
  ASSUME MCInit
  PROVE  Reported
<1>1. KernInit
  BY SameDevices DEF MCInit, Init, I!Init, C!Init
<1>2. KernOK /\ sample = 0 /\ \A d \in Devices : ~lastk[d].up
  BY <1>1, KernAtInit
<1>3. /\ \/ tool = "iostat" /\ IoInv
         \/ tool = "cifsiostat" /\ CifsInv
         \/ tool = "tapestat" /\ TapeInv
      /\ pc = "read" /\ out = {}
  BY <1>2, IoAtInit, CifsAtInit, TapeAtInit DEF MCInit
<1>4. MCInv
  BY <1>2, <1>3 DEF MCInv, Blank
<1>5. LinesTrue
  BY <1>3 DEF LinesTrue, OfDevices
<1>6. ReportsDevices
  BY <1>3 DEF ReportsDevices, I!DevicesReported, C!DevicesReported, DrivesReported, OfDevices
<1> QED
  BY <1>4, <1>5, <1>6 DEF Reported

LEMMA ReportedNext ==
  ASSUME NamesApart, Reported, [MCNext]_mcVars
  PROVE  Reported'
<1>1. CASE OfIostat /\ I!Next
  <2>1. tool = "iostat" /\ tool' = "iostat"
    BY <1>1 DEF OfIostat
  <2> QED
    BY <1>1, <2>1, IoNext DEF Reported, MCInv, ReportsDevices
<1>2. CASE OfCifsiostat /\ C!Next
  <2>1. tool = "cifsiostat" /\ tool' = "cifsiostat"
    BY <1>2 DEF OfCifsiostat
  <2> QED
    BY <1>2, <2>1, CifsNext, CifsBlank DEF Reported, MCInv, ReportsDevices
<1>3. CASE OfTapestat /\ Next
  <2>1. tool = "tapestat" /\ tool' = "tapestat"
    BY <1>3 DEF OfTapestat
  <2> QED
    BY <1>3, <2>1, TapeNext DEF Reported, MCInv, ReportsDevices
<1>4. CASE UNCHANGED mcVars
  <2>1. /\ tool' = tool /\ dev_list' = dev_list /\ groups' = groups /\ curr' = curr
        /\ uptime_cs' = uptime_cs /\ kern' = kern /\ lastk' = lastk /\ sample' = sample
        /\ pc' = pc /\ opt' = opt /\ tape_old_stats' = tape_old_stats
        /\ tape_new_stats' = tape_new_stats /\ count' = count /\ skip' = skip /\ out' = out
    BY <1>4 DEF mcVars, vars, kernVars, toolVars
  <2>2. KernOK' /\ Blank'
    BY <2>1 DEF Reported, MCInv, KernOK, Grew, Stayed, Blank
  <2>3. \A d \in Devices : I!Selected(d)' <=> I!Selected(d)
    BY <2>1 DEF I!Selected
  <2>4. IoInv => IoInv'
    BY <2>1, <2>3 DEF IoInv, IoType, IoEntered, IoCurrent, IoBefore, Listed, TypeEntered
  <2>5. CifsInv => CifsInv'
    BY <2>1 DEF CifsInv
  <2>6. TapeInv => TapeInv'
    BY <2>1 DEF TapeInv, TapeType, TapeRead, TapeBefore, Drives, Ready
  <2>7. LinesTrue'
    BY <2>1, SameOut DEF Reported
  <2>8. ReportsDevices' <=> ReportsDevices
    <3>1. I!DevicesReported' <=> I!DevicesReported
      BY <2>1, Zenon DEF I!DevicesReported, I!OfDevices, I!Selected, I!FirstPart, I!LastPart, I!InParts
    <3>2. C!DevicesReported' <=> C!DevicesReported
      BY <2>1, Zenon DEF C!DevicesReported, C!OfDevices
    <3>3. DrivesReported' <=> DrivesReported
      BY <2>1, Zenon DEF DrivesReported, OfDevices
    <3> QED
      BY <2>1, <3>1, <3>2, <3>3 DEF ReportsDevices
  <2> QED
    BY <2>1, <2>2, <2>4, <2>5, <2>6, <2>7, <2>8 DEF Reported, MCInv
<1> QED
  BY <1>1, <1>2, <1>3, <1>4 DEF MCNext

-----------------------------------------------------------------------------
(* For any devices, works, bounds and widths.                               *)

LEMMA ReportedAlways == NamesApart => (MCSpec => []Reported)
<1> SUFFICES ASSUME NamesApart PROVE MCSpec => []Reported
  OBVIOUS
<1>1. MCInit => Reported
  BY ReportedInit
<1>2. Reported /\ [MCNext]_mcVars => Reported'
  BY ReportedNext
<1> QED
  BY <1>1, <1>2, PTL DEF MCSpec

\* iostat, cifsiostat and tapestat report the devices they should, whichever
\* devices leave and come back between two readings, and however many there
\* are: set_devices_nonexistent() of iostat.c, cifsiostat.c, and the validity
\* flags of tapestat.c.
THEOREM MCReportsDevices == NamesApart => (MCSpec => []ReportsDevices)
<1> SUFFICES ASSUME NamesApart PROVE MCSpec => []ReportsDevices
  OBVIOUS
<1>1. MCSpec => []Reported
  BY ReportedAlways
<1>2. Reported => ReportsDevices
  BY DEF Reported
<1> QED
  BY <1>1, <1>2, PTL

\* The groups too.
Summed == Reported /\ (tool = "iostat" => IoGroups /\ I!GroupsTrue)

LEMMA SummedAlways == NamesApart /\ FiniteDevices => (MCSpec => []Summed)
<1> SUFFICES ASSUME NamesApart, FiniteDevices PROVE MCSpec => []Summed
  OBVIOUS
<1>1. MCInit => Summed
  <2> SUFFICES ASSUME MCInit PROVE Summed
    OBVIOUS
  <2>1. Reported
    BY ReportedInit
  <2>2. ASSUME tool = "iostat" PROVE IoGroups /\ I!GroupsTrue
    <3>1. I!Init /\ KernInit
      BY <2>2, SameDevices DEF MCInit, I!Init
    <3>2. KernOK /\ \A d \in Devices : ~lastk[d].up
      BY <3>1, KernAtInit
    <3>3. IoInv
      BY <2>1, <2>2 DEF Reported, MCInv
    <3>4. IoGroups
      BY <3>1, <3>2, <3>3, IoGroupsInit
    <3>5. out = {}
      BY <3>1, Zenon DEF I!Init
    <3>6. I!GroupsTrue
      BY <3>5, Zenon DEF I!GroupsTrue
    <3> QED
      BY <3>4, <3>6
  <2> QED
    BY <2>1, <2>2 DEF Summed
<1>2. Summed /\ [MCNext]_mcVars => Summed'
  <2> SUFFICES ASSUME Summed, [MCNext]_mcVars PROVE Summed'
    OBVIOUS
  <2>1. Reported'
    BY ReportedNext DEF Summed
  <2>2. ASSUME tool' = "iostat" PROVE IoGroups' /\ I!GroupsTrue'
    <3>1. CASE OfIostat /\ I!Next
      <4>1. tool = "iostat"
        BY <3>1 DEF OfIostat
      <4> QED
        BY <3>1, <4>1, IoGroupsNext DEF Summed, Reported, MCInv
    <3>2. CASE (OfCifsiostat /\ C!Next) \/ (OfTapestat /\ Next)
      <4>1. tool' = tool /\ tool # "iostat"
        BY <3>2 DEF OfCifsiostat, OfTapestat
      <4> QED
        BY <2>2, <4>1
    <3>3. CASE UNCHANGED mcVars
      <4>1. /\ tool' = tool /\ dev_list' = dev_list /\ groups' = groups /\ curr' = curr
            /\ kern' = kern /\ lastk' = lastk /\ pc' = pc /\ opt' = opt /\ out' = out
        BY <3>3 DEF mcVars, vars, kernVars, toolVars
      <4>2. IoGroups' <=> IoGroups
        BY <4>1, Zenon DEF IoGroups, I!InParts, Holds, Has, Ios, Secs, I!Selected
      <4>3. I!GroupsTrue => I!GroupsTrue'
        BY <4>1, ToldSame
      <4> QED
        BY <2>2, <4>1, <4>2, <4>3 DEF Summed
    <3> QED
      BY <3>1, <3>2, <3>3 DEF MCNext
  <2> QED
    BY <2>1, <2>2 DEF Summed
<1> QED
  BY <1>1, <1>2, PTL DEF MCSpec

\* The lines are true: that of a device is what it did since the previous
\* report if it stayed registered, and since it was registered if there is no
\* sample to compare it with; that of a group (-g) is the sum of what its
\* devices did, if they all stayed.  write_basic_stat(), write_ext_stat() and
\* compute_device_groups_stats() of iostat.c, write_cifs_stat() of cifsiostat.c,
\* tape_calc_one_stats() of tapestat.c.
THEOREM MCReportsTrue == NamesApart /\ FiniteDevices => (MCSpec => []MCLinesTrue)
<1> SUFFICES ASSUME NamesApart, FiniteDevices PROVE MCSpec => []MCLinesTrue
  OBVIOUS
<1>1. MCSpec => []Summed
  BY SummedAlways
<1>2. Summed => MCLinesTrue
  BY DEF Summed, Reported, MCLinesTrue
<1> QED
  BY <1>1, <1>2, PTL
=============================================================================
