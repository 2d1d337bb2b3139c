------------------------------- MODULE Pidstat ------------------------------
(***************************************************************************)
(* pidstat: processes and threads that start, work and end, and whose      *)
(* numbers are used again, while pidstat takes its samples.                *)
(*                                                                         *)
(* pid_list is a linked list: the processes in ascending order, each       *)
(* followed by its threads.  An entry keeps three samples, two that        *)
(* alternate and the first one (2) for the averages.  The entries of the   *)
(* tasks that a reading does not find are freed at the end of the reading. *)
(*                                                                         *)
(* Three activities stand for those of the tool: "cpu" and "sw" (CPU usage *)
(* and context switches) are counters, "mem" a gauge whose average is that *)
(* of the reports.  The CPU time of a process is that of all its threads.  *)
(***************************************************************************)
EXTENDS Integers, Sequences, FiniteSets, SequencesExt, FiniteSetsExt

CONSTANTS
    Pids,           \* numbers of tasks: a set of positive integers
    MayBe,          \* MayBe[n]: the processes task n may belong to (n: a process)
    TaskWorks,      \* what a task does in an interval: <<cpu, sw, mem>>
    PidOptions,     \* command lines: see TypeOK
    MaxBirths,      \* bound: how many tasks have had the same number
    MaxPidReads     \* bound: number of readings of a run

VARIABLES
    task,           \* what the kernel shows of each number
    task0, task1,   \* task at the first reading, and at the previous one
    lost,           \* the numbers that were not processes at some reading
    gauge,          \* the reports each task was in since it was found, and its memory
    mixed,          \* the numbers taken over by another task of the same process between
                    \* two readings, whose reports are added to those of the former
    promoted,       \* a thread at one reading was a process at the next (see ThreadsFollow)
    nread,          \* number of readings
    ppc,            \* "begin", "first", "read", "write", "pause", "average", "done"
    popt,           \* the options of this run
    pid_list,       \* sequence of entries
    pcurr,          \* which of the first two samples is the current one
    pcount,         \* reports left, -1 if unlimited
    pout            \* the last report: set of lines

taskVars == <<task, task0, task1, lost, gauge, mixed, promoted, nread>>
pidVars == <<taskVars, ppc, popt, pid_list, pcurr, pcount, pout>>

(* ------------------------------ the kernel ------------------------------ *)

(* tgid is 0 if the number is not used; group is the CPU time of a process, *)
(* that of all its threads, those that have ended included.                 *)
Born(p, w, b) ==
    [tgid |-> p, cpu |-> w[1], sw |-> w[2], mem |-> w[3], group |-> 0, birth |-> b]
Ended(b) == Born(0, <<0, 0, 0>>, b)

Fates ==
    ({"lives"} \X {0} \X TaskWorks) \cup {<<"ends", 0, <<0, 0, 0>>>>}
    \cup ({"starts"} \X (UNION {MayBe[n] : n \in Pids}) \X {<<1, 1, 1>>})

Possible(n, f) ==
    CASE f[1] = "lives" -> task[n].tgid # 0
      [] f[1] = "ends"  -> TRUE
      [] OTHER          -> f[2] \in MayBe[n] /\ task[n].birth < MaxBirths

TaskNext(n, f) ==
    CASE f[1] = "lives" -> [task[n] EXCEPT !.cpu = @ + f[3][1], !.sw = @ + f[3][2], !.mem = f[3][3]]
      [] f[1] = "ends"  -> Ended(task[n].birth)
      [] OTHER          -> Born(f[2], f[3], task[n].birth + 1)

Same(t, n) == t[n].birth = task[n].birth

(* A thread lives no longer than its process. *)
TasksElapse ==
    \E f \in [Pids -> Fates] :
        /\ \A n \in Pids : Possible(n, f[n])
        /\ LET t == [n \in Pids |-> TaskNext(n, f[n])]
           IN  /\ \A n \in Pids : t[n].tgid # 0 =>
                    /\ t[t[n].tgid].tgid = t[n].tgid
                    /\ Same(t, n) => Same(t, t[n].tgid)
               /\ task' = [p \in Pids |->
                    IF t[p].tgid # p THEN t[p]
                    ELSE [t[p] EXCEPT !.group = @ + MapThenSumSet(
                            LAMBDA n : t[n].cpu - IF Same(t, n) THEN task[n].cpu ELSE 0,
                            {n \in Pids : t[n].tgid = p})]]

Processes == {n \in Pids : task[n].tgid = n}
Threads(p) == {n \in Pids : task[n].tgid = p}

(* ------------------------------- the list ------------------------------- *)

NoSample == [cpu |-> 0, sw |-> 0, mem |-> 0]
NoEntry == <<0, 0>>

(* read_proc_pid_stat() and the others: of a process, or of a thread. *)
Sampled(n, isThread) ==
    [cpu |-> IF isThread THEN task[n].cpu ELSE task[n].group,
     sw |-> task[n].sw, mem |-> task[task[n].tgid].mem]

(* An entry is known by id, which its threads have as tgid (a pointer): its *)
(* number, and another one for each of the entries with that number.        *)
Entry(id, n, tgid) ==
    [id |-> id, pid |-> n, tgid |-> tgid, exist |-> FALSE,
     st |-> [i \in 0..2 |-> NoSample], total |-> 0, asum |-> 0]

NewId(l, n) == <<n, 1 + Max({0} \cup {l[i].id[2] : i \in DOMAIN l})>>

FirstOf(S, l) == IF S = {} THEN Len(l) + 1 ELSE Min(S)

ProcessPlace(l, n) == FirstOf({i \in DOMAIN l : l[i].tgid = NoEntry /\ l[i].pid >= n}, l)

(* add_list_pid() for a process: in ascending order, threads left aside. *)
AddProcess(l, n) ==
    LET i == ProcessPlace(l, n)
    IN  IF i <= Len(l) /\ l[i].pid = n THEN l ELSE InsertAt(l, i, Entry(NewId(l, n), n, NoEntry))

(* The first entry with the number of the process is taken for it ... *)
LeaderOf(l, p) == FirstOf({i \in DOMAIN l : l[i].pid = p}, l)

(* ... and the thread is looked for, or inserted, among the entries after it. *)
ThreadPlace(l, n, p) ==
    LET i == LeaderOf(l, p)
    IN  FirstOf({j \in DOMAIN l : j > i /\ (l[j].tgid # l[i].id \/ l[j].pid >= n)}, l)

IsThread(l, n, p, k) == k <= Len(l) /\ l[k].tgid = l[LeaderOf(l, p)].id /\ l[k].pid = n

AddThread(l, n, p) ==
    LET k == ThreadPlace(l, n, p)
    IN  IF IsThread(l, n, p, k) THEN l
        ELSE InsertAt(l, k, Entry(NewId(l, n), n, l[LeaderOf(l, p)].id))

(* The entry is found, and its counters copied in the current sample. *)
Fill(l, k, cur, isThread) ==
    [i \in DOMAIN l |->
        IF i # k THEN l[i]
        ELSE [l[i] EXCEPT !.exist = TRUE, !.st[cur] = Sampled(l[i].pid, isThread)]]

LastPid == Max(Pids)

ReadTask(l, n, p, cur) ==
    LET m == AddThread(l, n, p) IN Fill(m, ThreadPlace(m, n, p), cur, TRUE)

(* read_task_stats() *)
ReadTasks(l, p, cur) ==
    LET upTo[n \in 0..LastPid] ==
            IF n = 0 THEN l
            ELSE IF n \in Threads(p) THEN ReadTask(upTo[n - 1], n, p, cur) ELSE upTo[n - 1]
    IN  upTo[LastPid]

(* A process is read, and with -t its threads. *)
ReadProcess(l, p, cur) ==
    LET m == Fill(l, ProcessPlace(l, p), cur, FALSE)
    IN  IF popt.tid THEN ReadTasks(m, p, cur) ELSE m

(* Mutant of FreeUnused: the entries of tasks that have ended are kept. *)
FreeUnusedNever(l) == l

(* sfree_pid() *)
FreeUnused(l) ==
    LET upTo[i \in 0..Len(l)] ==
            IF i = 0 THEN <<>>
            ELSE IF l[i].exist THEN Append(upTo[i - 1], l[i]) ELSE upTo[i - 1]
    IN  upTo[Len(l)]

(* The processes that are read: those of /proc, or those of the list.  One   *)
(* that ends while it is read is as one that had ended before.               *)
IsRead(l, n) ==
    n \in Processes /\ (popt.all \/ \E i \in DOMAIN l : l[i].tgid = NoEntry /\ l[i].pid = n)

(* read_stats() *)
ReadList(l, cur) ==
    LET upTo[n \in 0..LastPid] ==
            IF n = 0 THEN l
            ELSE IF ~IsRead(l, n) THEN upTo[n - 1]
            ELSE ReadProcess(IF popt.all THEN AddProcess(upTo[n - 1], n) ELSE upTo[n - 1], n, cur)
    IN  FreeUnused(upTo[LastPid])

(* Mutant of Nonexistent: what was found before stays found. *)
NonexistentNever(l) == l

(* set_pid_nonexistent() *)
Nonexistent(l) == [i \in DOMAIN l |-> [l[i] EXCEPT !.exist = FALSE]]

(* The processes of the command line. *)
Requested ==
    LET upTo[n \in 0..LastPid] ==
            IF n = 0 THEN <<>>
            ELSE IF n \in popt.pids THEN AddProcess(upTo[n - 1], n) ELSE upTo[n - 1]
    IN  upTo[LastPid]

(* ------------------------------ the reports ----------------------------- *)

(* Some value of the activities that are displayed together has changed. *)
IsActive(e, acts, prev, cur) == popt.active => \E a \in acts : e.st[cur][a] # e.st[prev][a]

(* A leader is marked as displayed for the activities just displayed.  The  *)
(* flags of memory that was freed may be anything: g.                        *)
LeaderShown(e, acts, prev, cur, g) ==
    LET L == {i \in DOMAIN pid_list : pid_list[i].id = e.tgid}
    IN  IF L = {} THEN g
        ELSE \A i \in L : IsActive(pid_list[i], acts, prev, cur) /\ pid_list[i].pid \in popt.G

(* get_pid_to_display() *)
IsDisplayed(e, acts, prev, cur, g) ==
    /\ e.exist
    /\ IsActive(e, acts, prev, cur)
    /\ popt.match => IF e.tgid = NoEntry THEN e.pid \in popt.G
                     ELSE LeaderShown(e, acts, prev, cur, g)

AddGauge(e, cur) == [e EXCEPT !.total = @ + e.st[cur].mem, !.asum = @ + 1]

Summing == "mem" \in popt.acts /\ ~popt.json /\ ~popt.oneline

(* Mutant of Summed: only the tasks displayed are counted. *)
SummedIfActive(l, cur) ==
    [i \in DOMAIN l |->
        IF Summing /\ l[i].exist /\ IsActive(l[i], {"mem"}, 1 - cur, cur)
        THEN AddGauge(l[i], cur) ELSE l[i]]

(* The averages of gauges: a report counts for every task that exists. *)
Summed(l, cur) ==
    [i \in DOMAIN l |-> IF Summing /\ l[i].exist THEN AddGauge(l[i], cur) ELSE l[i]]

(* The values displayed: rates, and a gauge or the sum for its average. *)
CpuValue(e, prev, cur) == e.st[cur].cpu - e.st[prev].cpu

SwitchValue(e, prev, cur) == e.st[cur].sw - e.st[prev].sw

MemoryValue(e, prev, cur) == IF prev = 2 THEN e.total ELSE e.st[cur].mem

Value(e, act, prev, cur) ==
    CASE act = "cpu" -> CpuValue(e, prev, cur)
      [] act = "sw"  -> SwitchValue(e, prev, cur)
      [] act = "mem" -> MemoryValue(e, prev, cur)

(* The lines of the tasks displayed for these activities. *)
TaskLines(acts, prev, cur, g) ==
    {[act |-> a, pid |-> pid_list[i].pid, thread |-> pid_list[i].tgid # NoEntry,
      val |-> Value(pid_list[i], a, prev, cur), n |-> IF prev = 2 THEN pid_list[i].asum ELSE 1,
      prev |-> prev] :
        a \in acts, i \in {k \in DOMAIN pid_list : IsDisplayed(pid_list[k], acts, prev, cur, g)}}

(* write_stats_core(): all the activities on one line (-h), or one after *)
(* another.                                                               *)
Lines(prev, cur, g) ==
    IF popt.oneline THEN TaskLines(popt.acts, prev, cur, g)
    ELSE UNION {TaskLines({a}, prev, cur, g) : a \in popt.acts}

(* ------------------------------- the loop ------------------------------- *)

(* Which numbers a reading finds, for the properties. *)
Alive(n) == IF popt.tid THEN task[n].tgid # 0 ELSE task[n].tgid = n

NoReports == [total |-> 0, n |-> 0]

ReadFirst ==
    /\ ppc = "begin"
    /\ nread' = nread + 1
    /\ task0' = task
    /\ lost' = Pids \ Processes
    /\ LET l == ReadList(pid_list, 0)
       IN  pid_list' = IF popt.interval
                       THEN [i \in DOMAIN l |-> [l[i] EXCEPT !.st[2] = l[i].st[0]]] ELSE l
    /\ ppc' = IF popt.interval THEN "first" ELSE "boot"
    /\ UNCHANGED <<task, task1, gauge, mixed, promoted, popt, pcurr, pcount, pout>>

(* Since boot: the other sample is zeros. *)
WriteSinceBoot ==
    /\ ppc = "boot"
    /\ \E g \in BOOLEAN : pout' = Lines(1, 0, g)
    /\ pid_list' = Summed(pid_list, 0)
    /\ ppc' = "done"
    /\ UNCHANGED <<taskVars, popt, pcurr, pcount>>

ReadStats ==
    /\ ppc = "read"
    /\ nread' = nread + 1
    /\ lost' = lost \cup (Pids \ Processes)
    /\ gauge' = [n \in Pids |->
                    LET g == IF Same(task1, n) THEN gauge[n] ELSE NoReports
                    IN  IF Alive(n) THEN [total |-> g.total + task[task[n].tgid].mem, n |-> g.n + 1]
                        ELSE NoReports]
    /\ mixed' = {n \in Pids : /\ Alive(n) /\ task1[n].tgid = task[n].tgid
                              /\ n \in mixed \/ (~Same(task1, n) /\ gauge[n].n # 0)}
    /\ promoted' = (promoted \/ \E n \in Processes : popt.tid /\ task1[n].tgid \notin {0, n})
    /\ pid_list' = ReadList(Nonexistent(pid_list), pcurr)
    /\ ppc' = "write"
    /\ UNCHANGED <<task, task0, task1, popt, pcurr, pcount, pout>>

(* The loop ends at once if no task is left to display. *)
WriteStats ==
    /\ ppc = "write"
    /\ \E g \in BOOLEAN : pout' = Lines(1 - pcurr, pcurr, g)
    /\ pid_list' = Summed(pid_list, pcurr)
    /\ IF pout' = {} /\ ~popt.all
       THEN ppc' = "done" /\ UNCHANGED pcount
       ELSE /\ pcount' = IF pcount > 0 THEN pcount - 1 ELSE pcount
            /\ ppc' = IF pcount' # 0 THEN "pause"
                      ELSE IF popt.json \/ popt.oneline THEN "done" ELSE "average"
    /\ UNCHANGED <<taskVars, popt, pcurr>>

(* write_stats_avg() *)
Average ==
    /\ ppc = "average"
    /\ \E g \in BOOLEAN : pout' = Lines(2, pcurr, g)
    /\ ppc' = "done"
    /\ UNCHANGED <<taskVars, popt, pid_list, pcurr, pcount>>

Pause ==
    /\ ppc \in {"first", "pause"} /\ nread < MaxPidReads
    /\ TasksElapse
    /\ task1' = task
    /\ pcurr' = IF ppc = "pause" THEN 1 - pcurr ELSE pcurr
    /\ pout' = {}
    /\ ppc' = "read"
    /\ UNCHANGED <<task0, lost, gauge, mixed, promoted, nread, popt, pid_list, pcount>>

(* SIGINT or SIGTERM, and with -e SIGCHLD: no average in the first interval. *)
Interrupted ==
    /\ \/ ppc = "first" /\ ppc' = "done" /\ UNCHANGED pcount
       \/ /\ ppc = "pause" /\ pcount' = 0
          /\ ppc' = IF popt.json \/ popt.oneline THEN "done" ELSE "average"
    /\ UNCHANGED <<taskVars, popt, pid_list, pcurr, pout>>

Done == ppc = "done" /\ UNCHANGED pidVars

Init ==
    /\ \E of \in [Pids -> Pids \cup {0}] :
        /\ \A n \in Pids : of[n] # 0 => of[n] \in MayBe[n] /\ of[of[n]] = of[n]
        /\ task = [n \in Pids |->
                    IF of[n] = 0 THEN Ended(0)
                    ELSE [Born(of[n], <<1, 1, 1>>, 0) EXCEPT
                            !.group = IF of[n] = n THEN Cardinality({m \in Pids : of[m] = n}) ELSE 0]]
    /\ task0 = task /\ task1 = task
    /\ lost = {} /\ gauge = [n \in Pids |-> NoReports] /\ mixed = {} /\ promoted = FALSE
    /\ nread = 0
    /\ ppc = "begin"
    /\ popt \in PidOptions
    /\ pid_list = Requested
    /\ pcurr = 1
    /\ pcount = popt.count
    /\ pout = {}

Next ==
    \/ ReadFirst \/ WriteSinceBoot \/ ReadStats \/ WriteStats \/ Average
    \/ Pause \/ Interrupted \/ Done

Spec == Init /\ [][Next]_pidVars

(* ------------------------------ properties ------------------------------ *)

Acts == {"cpu", "sw", "mem"}

TypeOK ==
    /\ \A n \in Pids : task[n].tgid \in Pids \cup {0} /\ task[n].birth \in 0..MaxBirths
    /\ popt \in [all: BOOLEAN, active: BOOLEAN, tid: BOOLEAN, match: BOOLEAN, G: SUBSET Pids,
                 pids: SUBSET Pids, acts: SUBSET Acts, oneline: BOOLEAN, json: BOOLEAN,
                 interval: BOOLEAN, count: Int]
    /\ \A e \in Range(pid_list) :
            e.pid \in Pids /\ e.st \in [0..2 -> [cpu: Nat, sw: Nat, mem: Nat]]
    /\ \A i, j \in DOMAIN pid_list : pid_list[i].id = pid_list[j].id => i = j
    /\ pcurr \in {0, 1} /\ nread \in 0..MaxPidReads

(* The task of a number has not been replaced by another of the same process *)
(* between the two readings.                                                 *)
NotReplaced(n, then) == Same(then, n) \/ then[n].tgid # task[n].tgid

(* What a task has done since an earlier reading of it, or since it exists. *)
Since(n, act, isThread, then) ==
    LET of(t) == IF act = "cpu" /\ ~isThread THEN t[n].group ELSE t[n][act]
    IN  of(task) - (IF Same(then, n) THEN of(then) ELSE 0)

(* The counters displayed for a task are what it did since the sample before  *)
(* (the first one, for the averages), or since it started if it was not there *)
(* then: the samples of a task that has ended are never those of the next one *)
(* with the same number, if that one is found at a later reading than the     *)
(* first to miss the former, or in another process.  (A number that is used   *)
(* again in the same process, between two readings, takes over the entry.)    *)
(* That is so until a number of a thread becomes that of a process: from then *)
(* on threads may be in the wrong place (see ThreadsFollow), where they are   *)
(* not found again.                                                           *)
TaskLinesTrue ==
    ~promoted => \A l \in pout :
        LET then == IF l.prev = 2 THEN task0 ELSE task1
        IN  l.act # "mem" /\ popt.interval /\ NotReplaced(l.pid, then) =>
                l.val = Since(l.pid, l.act, l.thread, then)

(* The processes that a report is about: every one that exists, or those on  *)
(* the command line that have never been missed.                             *)
Listed(n) == popt.all \/ n \in popt.pids \ lost

(* A report has a line for each process and (-t) thread that is there, for   *)
(* each activity, and none for one that has ended; until the number of a     *)
(* thread becomes that of a process.                                         *)
TasksReported ==
    ppc = "pause" /\ ~popt.active /\ ~promoted =>
        \A a \in popt.acts :
            {<<l.pid, l.thread>> : l \in {m \in pout : m.act = a}} =
            {<<n, FALSE>> : n \in {p \in Processes : Listed(p) /\ (popt.match => p \in popt.G)}}
            \cup {<<n, TRUE>> : n \in {t \in Pids : popt.tid /\ task[t].tgid # 0
                    /\ Listed(task[t].tgid) /\ (popt.match => task[t].tgid \in popt.G)}}

(* The average of a gauge is that of the reports made since the task was      *)
(* found, with as many samples, and none of the memory of a former task with  *)
(* the same number is left in it: unless both were in the same process and no *)
(* reading has missed the number in between, which makes one average of the   *)
(* two tasks (mixed), or the number of a thread has become that of a process. *)
GaugesAveraged ==
    ~promoted => \A l \in pout : l.act = "mem" /\ l.prev = 2 =>
        (l.val = gauge[l.pid].total /\ l.n = gauge[l.pid].n <=> l.pid \notin mixed)

(* add_list_pid(): "It will be inserted in ascending order immediately       *)
(* following its TGID."  The entry of a former thread with the number of the *)
(* process is taken for it (promoted).                                       *)
ThreadsFollow ==
    \A i \in DOMAIN pid_list : pid_list[i].tgid # NoEntry =>
        /\ i > 1
        /\ \/ pid_list[i - 1].id = pid_list[i].tgid
           \/ /\ pid_list[i - 1].tgid = pid_list[i].tgid
              /\ pid_list[i - 1].pid < pid_list[i].pid
=============================================================================
