------------------------------- MODULE MCTasks ------------------------------
(***************************************************************************)
(* mpstat over processors and interrupts, or pidstat over processes and    *)
(* threads: tool says which the behaviour is a run of.  The variables of   *)
(* the other keep their initial values.                                    *)
(***************************************************************************)
EXTENDS Mpstat

CONSTANTS
    Pids, MayBe, TaskWorks, PidOptions, MaxBirths, MaxPidReads,
    Tools           \* the tools this instance runs

VARIABLES
    tool, task, task0, task1, lost, gauge, mixed, promoted, nread, ppc, popt,
    pid_list, pcurr, pcount, pout

pidVars == <<task, task0, task1, lost, gauge, mixed, promoted, nread, ppc, popt, pid_list, pcurr, pcount, pout>>
mcVars == <<tool, mpVars, pidVars>>

(* ------------------------------ the instances --------------------------- *)

MCNode == <<1, 2, 1>>
MCLists == {<<"a", "b">>, <<"b">>}
MCWeight == [n \in Names |-> IF n = "a" THEN 1 ELSE 3]
MCWorks == {<<1, 0, 1, 1>>, <<0, -1, 1, 0>>}

Mp == [interval |-> TRUE, P |-> TRUE, hotplug |-> TRUE, json |-> FALSE, count |-> 2]
MCMpOptions == {Mp, [Mp EXCEPT !.interval = FALSE, !.hotplug = FALSE],
                [Mp EXCEPT !.P = FALSE, !.json = TRUE, !.count = -1]}

(* Task 2 is a thread of process 1 or a process, task 3 a thread of either. *)
AnyProcess == <<{1}, {1, 2}, {1, 2}>>

MCTaskWorks == {<<1, 1, 2>>, <<0, 1, 1>>}

Pid == [all |-> TRUE, active |-> TRUE, tid |-> FALSE, match |-> FALSE, G |-> {}, pids |-> {},
        acts |-> {"cpu", "mem"}, oneline |-> FALSE, json |-> FALSE, interval |-> TRUE, count |-> -1]
MCPidOptions == {
    Pid, [Pid EXCEPT !.active = FALSE, !.tid = TRUE, !.count = 2],
    [Pid EXCEPT !.tid = TRUE, !.acts = {"cpu", "sw"}, !.oneline = TRUE],
    [Pid EXCEPT !.active = FALSE, !.tid = TRUE, !.match = TRUE, !.G = {2}],
    [Pid EXCEPT !.all = FALSE, !.active = FALSE, !.tid = TRUE, !.pids = {1, 2}, !.json = TRUE,
                !.acts = {"sw"}],
    [Pid EXCEPT !.interval = FALSE] }

(* ------------------------------ composition ----------------------------- *)

P == INSTANCE Pidstat

NoCpus ==
    /\ kern = <<>> /\ first = <<>> /\ before = <<>> /\ seen = <<>> /\ reads = 0
    /\ mpc = "done" /\ mopt = <<>> /\ cpu_nr = 0 /\ irqcpu_nr = 0
    /\ st_cpu = <<>> /\ st_irq = <<>> /\ st_irqcpu = <<>>
    /\ mcurr = 0 /\ mcount = 0 /\ mout = NoReport

MCInit ==
    /\ tool \in Tools
    /\ \/ tool = "mpstat" /\ Init
          /\ task = <<>> /\ task0 = <<>> /\ task1 = <<>> /\ lost = {} /\ gauge = <<>>
          /\ mixed = {} /\ promoted = FALSE /\ nread = 0
          /\ ppc = "done" /\ popt = <<>> /\ pid_list = <<>> /\ pcurr = 0 /\ pcount = 0 /\ pout = {}
       \/ tool = "pidstat" /\ P!Init /\ NoCpus

OfMpstat == tool = "mpstat" /\ UNCHANGED <<tool, pidVars>>
OfPidstat == tool = "pidstat" /\ UNCHANGED <<tool, mpVars>>

MCNext ==
    \/ OfMpstat /\ Next
    \/ OfPidstat /\ P!Next

MCSpec == MCInit /\ [][MCNext]_mcVars

(* ------------------------- what the proofs suppose ---------------------- *)

\* What processors do in an interval: the time of one that may have come back in
\* it has gone on.
TimePasses ==
  \A w \in CpuWorks : /\ w[1] \in Nat /\ w[2] \in Int /\ w[3] \in Nat /\ w[4] \in Nat
                      /\ w[2] >= 0 => w[1] + w[3] > 0

MpOptionsOK == MpOptions \subseteq [interval: BOOLEAN, P: BOOLEAN, hotplug: BOOLEAN, json: BOOLEAN, count: Int]

\* Interrupts have a line each, and NR_IRQCPU_PREALLOC is enough for those that
\* may appear after mpstat has started.
RoomForIrqs ==
  /\ \A irqs \in IrqLists : \A i, j \in DOMAIN irqs : irqs[i] = irqs[j] => i = j
  /\ \A old, new \in IrqLists : Len(new) <= Len(old) + Prealloc

\* The lines of /proc/interrupts are in the order of their numbers.
IrqsInOrder == \A old, new \in IrqLists : InList(old) = InList(new) => old = new

\* An interrupt occurs at most Top times on a processor in an interval, and all
\* that have occurred can be counted, those of a processor together.
Counted(Top) ==
  /\ Top \in Nat /\ Weight \in [Names -> Nat]
  /\ \A n \in Names : Weight[n] <= Top /\ \A w \in CpuWorks : w[4] * Weight[n] <= Top
  /\ \A irqs \in IrqLists : (Len(irqs) + 1) * ((MaxReads + 2) * Top) < IrqWidth

CountsFit == \E Top \in 0..IrqWidth : Counted(Top)

PidsOK ==
  /\ Pids \subseteq Nat \ {0} /\ Pids # {} /\ IsFiniteSet(Pids)
  /\ \A n \in Pids : MayBe[n] \subseteq Pids

PidOptionsOK ==
  PidOptions \subseteq [all: BOOLEAN, active: BOOLEAN, tid: BOOLEAN, match: BOOLEAN, G: SUBSET Pids,
                        pids: SUBSET Pids, acts: SUBSET {"cpu", "sw", "mem"}, oneline: BOOLEAN,
                        json: BOOLEAN, interval: BOOLEAN, count: Int]

(* The theorems say which of these they need: the instances have all of them. *)
ASSUME TasksAssumption ==
  TimePasses /\ MpOptionsOK /\ RoomForIrqs /\ IrqsInOrder /\ CountsFit /\ PidsOK /\ PidOptionsOK

(* ------------------------------- properties ----------------------------- *)

(* mpstat, what the lines of the processors hold, and those of the interrupts
   that change places. *)
MCLinesTrue == tool = "mpstat" => CpuLinesTrue /\ IrqLinesTrue

(* mpstat, interrupts of processors that come back. *)
MCIrqReturns == tool = "mpstat" => IrqReturns

(* mpstat, interrupts when a processor is plugged in. *)
MCIrqTrue == tool = "mpstat" => IrqTrue

(* pidstat, counters of tasks. *)
TaskLinesTrue == tool = "pidstat" => P!TaskLinesTrue

(* pidstat, which tasks are in a report. *)
TasksReported == tool = "pidstat" => P!TasksReported

(* pidstat, averages of gauges. *)
GaugesAveraged == tool = "pidstat" => P!GaugesAveraged

(* pidstat, the order of the list of tasks. *)
ThreadsFollow == tool = "pidstat" => P!ThreadsFollow
=============================================================================
