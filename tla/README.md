# Formal models of sysstat

TLA+ models of the sysstat programs, the TLC configurations that check them on
small instances, and TLAPS proofs of what holds for every instance. Every
definition is translated from the C source; the map in `PROJECT.json` gives
the lines it stands for.

- [The system](#the-system): components, state, interactions, what is hard
- [The modules](#the-modules): how each corresponds to the code
- [The runs](#the-runs): what is checked, bounds, fairness
- [The proofs](#the-proofs)
- [Where the code and its documents differ](#where-the-code-and-its-documents-differ)
- [What is not modelled](#what-is-not-modelled), [The plan](#the-plan)

To check: `tlc -config append.cfg MCSadcFile` (and so on, see the table of
runs), and `tlapm` on each module of theorems: `SumTheorems`,
`SadcFileProofs`, `SadcPipeProofs`, `SarReportProofs`, `ActBuffersProofs`,
`MCActBuffersProofs`, `MCDevicesProofs`, `MCTasksProofs` (`SadcFileProofs` and
`SarReportProofs` take five minutes each, `MCTasksProofs` eight, the others less than three).

## The system

sysstat collects statistics of a Linux machine and reports on them. One half is
a pipeline with persistent files: **sadc** samples `/proc` and `/sys` into daily
data files, or into a pipe for **sar**; **sar** and **sadf** report from the
pipe or from the files. The other half is a family of stand-alone samplers
(**iostat**, **mpstat**, **pidstat**, **cifsiostat**, **tapestat**) that read,
compare with the sample before, print, and sleep.

```
 cron/systemd --> sa1 --> sadc --append--> saDD  <--read-- sar -f, sadf, sadf -c (sa_conv)
                           ^ |              ^
            fork, exec     | | pipe         | sa2: report, compress, delete
                          sar <-------------+
```

| component | state | operations | hard behaviour | correctness |
|---|---|---|---|---|
| sadc (`sadc.c`) | output file, its offset, lock flag; `act[]`, `id_seq[]`; `count`; `sigint_caught` | open/check/create/append, special records, sample and write, rotate at midnight | several sadc on one file; death between two writes; rotation onto a file that exists; signals against `pause()` | the file is a header and whole records; writes under the lock; nothing lost at midnight; ends |
| sar from sadc (`sar.c`: `main`, `read_stats`) | `record_hdr[3]`, `buf[3]`, `curr`, `count`, selection | fork sadc, read header and records, line, average | header in the middle of the stream; SIGINT to either process; end of data | every line is over two consecutive samples; right number of lines; average over the lines; no deadlock |
| sar from a file (`read_stats_from_file`, `handle_curr_act_stats`) | the same, file position, `reset`, `cross_day`, `cnt` | search of a first sample, one pass per activity, skip, restart | state saved and restored between passes; -s/-e over midnight; a growing or cut file | report is complete, within one boot, each restart once |
| activities and buffers (`activity.c`, `sa_wrap.c`, `count.c`, `rd_stats.c`, allocation in `sa_common.c`) | `nr_ini`, `nr2`, `nr_allocated`, `_nr0`, `_buf0`, `buf[3]` | count, allocate, read, grow, reset | devices come and go between counting, reading, writing and rotating | what is written is what was read, inside the buffers, on both sides of the pipe |
| common code (`sa_common.c`, `common.c`) | static variables of `next_slice()` | file reading, time limits, slices, counters that wrap | hidden state between calls; wraps | selection as the manual page says |
| sadf (`sadf.c`, `sadf_misc.c`) | as sar -f | the same file in up to three passes per format | passes must agree | every format shows the samples that sar shows |
| sa_conv (`sa_conv.c`) | counts of old headers | old file to new file | counts change at restarts; errors in the middle | same records |
| iostat, cifsiostat, tapestat | list of devices with `exist`, two samples each | read, mark, print | devices leave and return | a rate is over two samples of one device |
| mpstat | three sets of samples, offline bitmap | read, fill in offline CPUs, print, average | CPU hotplug | no jump from zero; "all" is the sum |
| pidstat | list of tasks with `exist`, three samples | read, print, average, run a program (-e) | tasks end, PIDs return, SIGCHLD | as iostat |
| sa1, sa2, cron, systemd units | the directory of daily files | start sadc; report, compress and delete old files | run while sadc writes | a file in use is not removed |
| formats (`pr_*`, `rndr_*`, `xml_*`, `json_*`, `svg_*`, `raw_*`, `pcp_*`, `format.c`) | extreme values and sums kept between two lines | display the difference of two samples of each item | items come, go and change places between samples; counters wrap; five copies of the same computation | the formats agree; averages and extremes are those of the lines |

`PROJECT.json` lists under `components` all of these with what is modelled of
them, and under `hazards` every place where this code is hard to test, with the
property that watches it or the reason why none does.

## The modules

| module | of | about |
|---|---|---|
| `DailyLog` | specification | what the daily files promise: logs that only grow, by the whole records of their writers, readable unless a writer died in one |
| `SadcFile` | sadc | the processes and the files, one system call at a time |
| `SadcPipe` | sadc and sar | the pipe, signals, rotation, end |
| `ActBuffers` | sadc and sar | counts and buffers |
| `SarReport` | sar -f | the report of a file, and a sadc that adds to it |
| `Sadf` | sadf | the ways the formats walk the file, on top of `SarReport` |
| `SadfRecord` | sadf -j, -x | the markup of a record |
| `DeviceCounters` | the kernel | devices that are registered, work and leave |
| `Iostat`, `Cifsiostat`, `Tapestat` | the three samplers | their lists of devices, on `DeviceCounters` |
| `Mpstat` | mpstat | processors and interrupts that come and go |
| `Pidstat` | pidstat | tasks that start and end |
| `StatValues` | `common.c`, `sa_common.c`, `rd_stats.c` | `S_VALUE`, `SP_VALUE`, intervals of processors, wraps, registrations |
| `Activities` | `activity.c`, `rd_stats.h` | the fields, columns and groups of the 43 activities |
| `SarLines`, `JsonLines`, `XmlLines`, `RenderLines` | `pr_stats.c`, `json_stats.c`, `xml_stats.c`, `rndr_stats.c` | one definition for each display function |
| `SvgLines` | `svg_stats.c` | one definition for each function that plots an activity |
| `PcpMetrics` | `pcp_def_metrics.c`, `pcp_stats.c` | the metrics of an archive and the values put for each activity |
| `Formats` | | an activity displayed from sample to sample in every format, and its average |
| `Convert` | `sa_conv.c` | the conversion of an old file |
| `SumTheorems` | | induction over numbers and finite sets; sums |
| `SadcFileProofs` | | theorems about `SadcFile`: types and locks; what the files hold under the lock; lists and rotations without it; that the files are the logs of `DailyLog` |
| `SadcPipeProofs` | | theorems about `SadcPipe`: messages; lines |
| `SarReportProofs` | | theorems about `SarReport`: samples of a line; from line to line; the whole report; about `Sadf`: the items counted |
| `ActBuffersProofs`, `MCActBuffersProofs` | | theorems about `ActBuffers`, and about the instances of its run |
| `MCDevicesProofs` | | theorems about the reports of the three samplers of devices |
| `MCTasksProofs` | | theorems about the reports of mpstat, then of pidstat |
| `MCSadcFile`, `MCSadcPipe`, `MCActBuffers`, `MCSarReport`, `MCDevices`, `MCTasks`, `MCFormats` | | values of the constants for TLC, and compositions |

`SadcFile` and `SadcPipe` are two halves of sadc: its output file, seen by other
processes, and its pipe, seen by sar. `SadcPipe` has the file as a history only,
`SadcFile` has no sar. `Sadf` EXTENDS `SarReport` because sadf selects samples
with the same functions of `sa_common.c`. `MCDevices`, `MCTasks` and `MCFormats`
put programs that do not interact side by side: a variable `tool` says which of
them a behaviour is a run of.

A definition whose comment begins with "Mutant of" is not part of the model: it
is a plausible error in that place, and shows that a property would see it.

### SadcFile

One action is one system call of one sadc on its output file, so two sadc
interleave between any two calls. A file is the sequence of blocks written to
it, one for each `write_all()`; `file[d]` is the file of day `d`. The bytes are
abstracted to what the checks of `open_ofile()` tell apart: our magic number or
not, structures of this version or not (`fit`), a header of last month or not
(`past`).

`pc` goes through the code in order: `Start` (`main()`), `OpenFile` →
`ReadMagic` → `ReadHeader` → `ReadActivity`* → `AdoptList` (`open_ofile()`), or
`CreateFile` → `LockCreated` → `Truncate` → `WriteBlock`* (`create_sa_file()`
and `setup_file_hdr()`), then `BeginSpecial` → `WriteBlock`* → `EndSpecial` for
a restart or a comment, or the loop `Sample` → `WriteBlock`* → (`Rotate` →
open → `SampleAgain`) → `EndIteration` → `Wake`. `Die` is a kill, a write
error or a signal without sar, at any point. `O_APPEND` (`mode`) is kept apart
from the file offset (`pos`) because the call that creates a daily file has no
`O_APPEND`. `locked` is the process flag `S_F_FILE_LOCKED` and `lock` what the
kernel knows: the difference between the two is a finding below.

`DailyLog` is implemented with `log[d]` defined as the list announced by a
complete header and the records that a reader finds after it (`LogOf`). A reader
goes from block to block and can only take a block that continues the record it
is in, from the same writer, or begins one after a whole one (`InPlace`): it
finds nothing past a record that is cut or mixed with another (`Readable`).
`DailyLog` asks that a record written to its last block be in the log, at its end,
unless a writer was killed in the middle of a record of that file before
(`torn`), and says who is in the middle of which record (`writing`): blocks of two
writers that mix, or a block that is lost, are no step of it. A header that a sadc
would not append to is no log, so that its replacement is the creation of one.

### SadcPipe

sar and its collector, one action per message. A sample is its number; a record
goes through the pipe as two messages, a header as two. `spc` and `rpc` are the
two program counters; the slots of `hdr` and `buf` are `record_hdr[0..2]` and
`buf[0..2]`. A record message carries its tag (`R_STATS`, `R_LAST_STATS`), and
`rtype` is the tag of the record sar is at. `Signal` reaches both processes
(terminal) or one (kill), with the default action before the handler is
installed, and sadc forwards it as `int_handler()` does. `pause()` is the label
"pause": a signal or the alarm ends it, and an alarm at another time is lost. A
full pipe blocks sadc, an empty one sar; the end of one is SIGPIPE or end of
file for the other.

### ActBuffers

What the two processes count, announce, allocate, read and write, with the
machine changing at any time: each count and each reading finds any items
(`Items`, `Machine`). The two run in lockstep, because their
interleaving is the subject of `SadcPipe` and no count depends on it. A buffer is
the number of structures it has room for (`cells`, `scells`) and, in sadc,
how many of them were read in this iteration (`held`). `Reallocated` is the outcome
of the loop in the wrappers of `sa_wrap.c`. Histories say what the properties leave
out: `was`, with which sub-items an activity was read, if it was; `lost`, the activities that
`sa_sys_init()` has given fewer items than were read, or other sub-items; `misfit` and
`smisfit`, those of which a buffer of sadc or of sar did not follow the sub-items.

### SarReport and Sadf

`sar -f`: one action is the reading of one record. The constant `Cases` is a set
of files with command lines; `Init` chooses one. Samples are numbers of records,
so that a line is the pair of samples it is computed from, for one activity
(`pass`). `Grow` is a sadc that writes the header of a record and then the rest
of it. The time of a record and the uptime in it are separate, as in the file,
since `-s`/`-e` use the first and `-i` the second. `ExpectedLines` and
`ExpectedAverages` are the reference: the report as the manual page and the
comment of `next_slice()` define it, from the file as a whole and without the
passes, positions and static variables of the code.

`Sadf` adds `loop`, the function that walks the file for a format, and `stage`,
which of its passes over the file is going on: items are counted first for PCP
and SVG (`count_file_items()`), SVG draws twice (`sketch` is what it plotted in
`MOCK_MODE`), XML and JSON read the file again for restarts and comments.

### The samplers

`DeviceCounters` has the kernel's side: while a tool sleeps (`Elapse`), a device
works, and its two counters grow; it leaves; or it is registered again, and they
start again from zero (`Fates`). `lastk`, the counters at the reading before, is
a history that tells what happened between two readings.
`Iostat`, `Cifsiostat` and `Tapestat` have the list of entries as the code keeps
it, with two samples in each and an index `curr`, and one action per function
of the loop. `Mpstat` has the flat arrays of the code, with their lengths, since
an error in an index is what could go wrong; `first`, `before` and `seen` are
what `/proc` said at the readings a line is about. `Pidstat` has the linked list
as a sequence, in which `add_list_pid()` inserts and from which entries are
freed, one turn of a loop after another (`upTo`). An entry is known by its number and another one that tells it from
those that had the number before, which stands for its address. Histories of the
tasks: `task0` and `task1` (what there was at the first reading and at the one
before), `lost` (the processes missed by a reading), `gauge` (the memory of each
task and the reports it was in), `mixed` (the numbers whose former task another
of the same process has replaced between two readings, so that pidstat takes one
for the other), `promoted` (a number found as that of a thread, then, at the next
reading, as that of a process: from then on the list may be out of order).

### Lines and formats

A sample of an activity is a sequence of structures, from fields to integers;
`activity[n]` lists the fields in the order of `rd_stats.h`, the columns and the
group. A display function of the code, say `print_disk_stats()`, is an
operator of the previous sample, the current one and the options, that returns
the items displayed with their values; `json_print_disk_stats`, `xml_...` and
`render_...` likewise. Values are fractions, compared by cross-multiplication;
widths, colours and headings are left out. A counter wraps at `Width`, and
differences in `Margin` of it are taken for wraps. `Formats` holds the samples
of two lines, what the display of one leaves in memory for the next (some
functions write to the previous sample), `spmin`/`spmax` and the sums kept for
the average (`shown`); its `Display` is a line in every format at once.

`SvgLines` has the functions of `sadf -g`: what a sample adds to the curves of
each item, as points that begin a line (`M`), continue it (`L`) or stand for a
bar (`B`), where in `out` and in `spmin` it goes, and the titles and divisors of
the captions. `Formats` gathers the points in `svg`, with the number of their
sample in place of a coordinate; scales, grids, rounding to two decimals and the
splitting of curves into views are left out. Four activities have no graph
(`NoGraph`).

`PcpMetrics` has the functions of `sadf -l`: for each activity the header that
`pcp_def_..._metrics()` defines, as metrics (name, number, instance domain,
semantics, units) and instances, from the options of the command and from what the file
was found to hold, and the values that `pcp_print_..._stats()` puts for a sample.
The library that writes the archive is known by what it refuses: a metric added
twice, a value for a metric or an instance that is not defined. Types declared
to it are left out; units are those that each `pmiAddMetric()` declares.

### Convert

`convert_file()`: `at` says which section or record comes next, `fout` is what
has been written to the standard output, block by block, and `exit_code` how it
ended. The upgrade of a structure is the function of the code for its activity
and version; each old version is the set of fields it knew. `FileToday` is the
reference: what the old file, taken as a whole, says in the format of today.

## The runs

| run | distinct states | shows |
|---|---|---|
| `create` | 116 428 | three sadc -L find a file of another format, two may truncate it (-F), any may be killed: whole records after a header, under the lock; all end |
| `append` | 75 637 | a sadc -L that rotates onto a file of last month, an overlapping one and a comment append, any may be killed: the list of the file prevails, the last sample of a day is the first of the next; refines `DailyLog`, whose records are read from block to block |
| `pipe` | 382 260 | sar -o over two midnights with other lists of activities, two signals, deaths |
| `buffers` | 3 601 853 | disks and CPUs, or interrupts, CPUs and frequencies, come and go; files with other lists |
| `report` | 1 406 432 | files and command lines, for sar -f and every loop of sadf |
| `devices` | 2 362 678 | devices leave, return, are registered again under iostat, cifsiostat, tapestat |
| `tasks` | 3 112 704 | processors and interrupts under mpstat, tasks under pidstat |
| `formats` | 85 360 | 43 activities in six displays and the PCP archive; conversion of old files |
| `rotate_lock`, `mpstat_hotplug`, `pidstat_threads`, `formats_tickless` | | differences between the code and its comments, below |

Properties, by what they guard against. Type invariants are run for the
modules that are proved about (`SadcFile`, `SarReport`); `SadcPipe` and
`ActBuffers` have theirs in the proofs.

Files (`create`, `append`):

- `LockedWrites`: a sadc -L writes or truncates under a lock it holds itself.
- `RecordsWhole`: records of two writers are never mixed; a cut one belongs to
  a killed sadc. `NoRecordBeforeHeader`: nor is there one without a header.
- `FileListPrevails`: what is appended has the list the file announces.
- `RotationOverlaps`: at midnight the last sample of a day is also the first of
  the next one.
- `Terminates`: whatever locks others hold, every started sadc ends.
- `ImplementsDailyLog`: the refinement: what is written to the last block is read
  as a whole record, in the order of the samples of each sadc, up to the place
  where one was killed. A sadc that does not look at the result of flock() mixes
  its blocks with those of another, and the run finds it.

Pipe (`pipe`):

- `InStep`: sar never takes a header for a record or the reverse, and takes
  statistics apart with the list they were written with.
- `LinesConsecutive`, `AverageSpansLines`: a line is over two consecutive
  samples, and the average over all the lines, also when a signal cuts a read
  short.
- `DisplayedIsSaved`: what was displayed is in the file, but for what a death
  explains. `UnexpectedEnd`: an end that was asked for is not reported as one
  that was not. `BothEnd`: both processes end, whichever dies.

Buffers (`buffers`):

- `MCWritesWhatWasRead`: what is written of an activity was read in this iteration,
  at a rotation in both files.  In the new file that is not so of the activities that
  have lost devices or changed their sub-items when `sa_sys_init()` counts them again
  (`lost`), and of those that only its list brings in: nothing in the code prevents it,
  and without sub-items the property says that it is of these and of no others.
- `MCInBounds`: what is read, cleared or received fits its buffer, of all activities
  but those of which the code sizes a buffer without their sub-items (`misfit`,
  `smisfit`): A_IRQ from the moment `reallocate_buffer()` grows it (`sa_wrap.c:47`), an activity
  not collected whose `nr2` is counted again, and in sar an activity whose sub-items grow
  at a rotation while its items do not (`sa_common.c:543`).
- `MCReadCanGrow`: a buffer to be doubled is not empty.
- `MCHeaderAccepted`: sar accepts the header it is sent.

Reports (`report`):

- `MCReportComplete`: sar displays exactly the lines and averages asked for;
  `MCLinesChain`: each line starts where the one before ended, also in a file
  that grows; `RestartNotMissed`: skipping stops at the next restart.
- `MCSadfComplete`: each loop of sadf displays the samples that sar does;
  `ItemsCounted`: the passes that count have seen the items that the passes
  that display show.
- `WithinOneBoot`: nothing is computed over a restart. `Ends`: sar and sadf end
  while a sadc keeps adding, as long as it stops some day.

Samplers (`devices`, `tasks`):

- `ReportsDevices`, `TasksReported`: a report has the devices or tasks it should
  have, no fewer and no more.
- `MCLinesTrue` (of each run), `TaskLinesTrue`: what a line shows was counted
  between the two samples by that device, processor, interrupt or task, and not
  by one that had its entry before.
- `SumsAgree`: CPU "all" and the nodes are the sums of the processors.
  `MCIrqReturns`: an interrupt column survives a processor that leaves and
  returns. `GaugesAveraged`: pidstat's average of memory is that of the task's own
  reports, if and only if its number is not `mixed`. `TaskLinesTrue`,
  `TasksReported` and `GaugesAveraged` are claimed up to the first reading that
  makes the number of a thread that of a process (`promoted`): after it TLC finds
  each of them violated, which `pidstat_threads` explains.

Lines (`formats`):

- `FormatsAgree`: sar, sadf -j, -x and -d show the same values for the same
  items. The known differences are exceptions written in the property: sar and
  `sadf -d` skip a processor whose frequency is 0 and XML and JSON do not;
  `net_edev` registrations compare other counters. Once the file is read, the
  curves of sadf -g (`GraphsAgree`) have a point at each sample, which is the
  value sar displayed under that title (in MB where sar has kB; a bar stops at
  100%, and there is none for 0), for every item sar displayed; a line does not
  jump over a sample its device was missing from, and goes on when it was not.
  The archive of sadf -l (`ArchiveAgrees`) has values for the items sar
  displayed, under metrics and instances that its header defines, once each; a
  gauge is the value sar displayed, a counter has grown by as much, in the units
  that its definition declares: a column of sar is converted by what its unit is
  (`Amount`) and that of the metric (`Each`). The exceptions are the metrics that
  the code puts in another unit than the one it declares (`InSectors`, in sectors
  and declared in kB; `UncountedKB`, in kB and declared a count), those whose
  names or numbers clash (`Clashing`), values refused for lack of a metric or an
  instance (`Refused`), columns sar derives from several counters (`Derived`) and
  the percentages of processors. Which of the metrics of an item has the value of
  a column is not checked. One label of `sadf -d` is not the word of the other
  formats (`Labelled`: `kbshared`).
- `MinMaxTrue`: the extremes sar prints, and those of the captions of graphs
  (`CaptionsTrue`), are those of its lines, in the columns they belong to. It makes no claim when a counter decreased, except of the
  activities where the code handles it: `save_extrema()` then keeps 0.
- `AverageBetween`: an average lies between the smallest and the greatest of
  the values displayed. No claim is made of CPU "all" when a processor is
  missing from a line, of a counter that decreased, nor of the columns in
  `Approximate`, whose average the code computes from truncated integers or
  from the busiest direction.
- `PercentagesAddUp`: `sar -u ALL` accounts for all the time.
- `MarkupBalanced`: groups of XML and JSON open and close around the activities
  that are selected, commas between members, for any selection.
- `ConvertsTheFile`: what sadf -c has written is always a beginning of the file
  of today with the same contents, and the whole of it when it exits with 0.

### Bounds

- `SadcFile`: three processes are a writer, one that overtakes it, and one that
  does so while the second is in between. Two activities, one of them with a
  count, give records of up to four blocks. A file has at most a few records
  because every sadc has a `count`. Two days are one rotation, onto a file of
  last month.
- `SadcPipe`: three lines with two midnights in any place; a pipe of two
  messages, so that both full and empty happen; two signals, so that one comes
  after the first has been caught. Lists are both activities, both in the other
  order, or one.
- `ActBuffers`: up to three items, so that a buffer of one is doubled twice; any items at
  each count and at each reading; in the second instance up to two of A_IRQ and of
  A_PWR_FREQ with up to two sub-items. Files are new or list one or two activities,
  with few items or many. No bound is needed on time because only counts are kept.
- `SarReport`, `Sadf`: every file of up to four records (three for sadf) over
  two gaps and two sets of activities, with five command lines; files of six
  records with fewer kinds, so that several segments have several lines; files
  of two days; files cut or growing. The day has 20 seconds and the hour 2,
  which keeps the ratio that matters (several hours a day, several samples an
  hour) and lets a small file cross midnight.
- Devices: two disks and one partition, each registered again at most once,
  four samples: enough for a device to be missing from one, return, and be
  displayed from both slots. iostat has eight command lines (-p, -g, -H, -y, -z,
  -x, a device given by name), the others three or more.
- Tasks: three processors, of which two exist at first; interrupts a and b
  whose lines change places; three readings. Numbers 1 to 3 of tasks: 1 is
  a process, 2 a process or a thread of 1, 3 a thread of 1 or of 2, and each
  number is used again once, for any of these; four readings, enough for a number
  to be missed by one, to return, and to be averaged, or to pass from one process
  to another.
- Formats: three samples at levels 1, 2 and 4 in any order, which makes
  counters decrease or wrap; items none, A, both, both in the other order; CPUs
  offline, with times that go backwards or a guest ahead of its user time.
  Fields of a structure have different values, so that one cannot be taken for
  another, and different counters wrap at different samples.
- Conversion: formats 2171 and 2173, every version of every structure, lists of
  one or two activities, up to five records, cut anywhere, processors that come
  and go at restarts.

### Fairness

- `SadcFile!FairSpec`: weak fairness of each started sadc. Its calls do not
  wait for other processes (`flock()` is non-blocking) and the timer is set
  again by the handler, so a pause ends. Nothing is assumed of midnight, of
  kills or of a sadc being started.
- `SadcPipe!Spec`: weak fairness of both processes, each of which the kernel
  schedules when it is not blocked. Signals, midnight and failures are not fair.
- `SarReport!Spec`, `MCSarReport!MCSpec`: weak fairness of sar and sadf. The
  sadc that adds records may stop or go on, but a file has a last record; `Ends`
  fails if sar waits for it.
- The others state safety only.

`CHECK_DEADLOCK FALSE` is set where processes end and where a display is done;
`ActBuffers`, the devices and the tasks are checked for deadlock (a tool that
has ended has a step `Done` that changes nothing).

## The proofs

`SadcFileProofs` proves, from `SadcFileAssumption` alone (finitely many
processes, at least one day and one activity, command lines that select
something), for any number of processes, days, activities and any command
lines:

- `TypeCorrect`: `Spec => []TypeOK`. The type invariant is not inductive: a
  step from the middle of a header or record writes "the block at the cursor",
  which has a type only if the cursor is inside the activity sequence of the
  process. `Typed` adds `CursorInList`. The lemmas `AfterType`, `BlockOfType`
  and `WriteAtType` say what the operators return; `NextTyped` has one step per
  action.
- `LockedWritesCorrect`: `Spec => []LockedWrites`. The invariant is
  `FlagsAreLocks`: for a process whose outfile is named explicitly, the flag
  `S_F_FILE_LOCKED` implies that it holds the lock of its file as long as it
  lives, and between asking for the lock and writing the flag is set. It is
  restricted to those because after a rotation it is false. Each action
  either leaves flag, lock and label alone, asks for the lock, or exits; a
  lemma for each, and `EveryStepKeeps` puts the actions into these classes.

`SadcPipeProofs` proves `InStepCorrect`, `Spec => []InStep`, from
`SadcPipeAssumption` alone, for any size of the pipe, any lists, any number of
lines, midnights and signals, and any deaths. `InStep` says of the message at
the head of the pipe that it is what sar is about to read; whether it is was
decided when the message before it was sent, so the invariant speaks of every
message on the way:

- `Grammar`: after each message in the pipe comes the kind of message that its
  kind and tag announce. What "comes" after the last one in the pipe is what
  sadc will send next (`Due`), and `ComesAt(i, k)` covers the place after that
  too, because a record and its data are two steps of sadc.
- `Expects`: what comes first is what sar's label waits for.
- `FirstUntagged`: sar does not look at the tag of the first record, so it must
  not have one: no midnight can be noticed before it is sent.
- `ListsInForce`: the data in the pipe have the last list before them in it,
  or else the list sar has adopted, and sadc's list is the one that will be in
  force for what it sends.

A step of sadc lengthens what comes without changing it (`AheadKept`,
`AheadSent`), a step of sar shifts it (`AheadShifted`), and everything else
leaves it alone; each action is one of the three.

`SarReportProofs` proves, from `SarReportAssumption` alone (the cases are files
with command lines; a day is a number of hours), for any number of activities
and any set of cases, so also files of any length, cut short or still growing:

- `TypeCorrect`: `Spec => []TypeOK`, which is inductive. `TypeParts` splits it
  in three; `WriteTyped` and `ReadPlaces` are the effects that several actions
  share; one lemma per action.
- `WithinOneBootCorrect`: `Spec => []WithinOneBoot`. The report alone does not
  say what the next line will be over, so the invariant `OneBoot` adds
  `Segment`: as long as a segment is displayed, `buf[2]` (its first sample) is
  not after `buf[1 - curr]` (the last one displayed), it is before it once a
  line was displayed, and no restart lies between them nor, while records are
  read, between them and the reading position. `Begin` goes back in the file,
  and keeps this because `fpos` is the position just after `buf[2]`. The order
  of the two samples of an average needs the link with `davg`. `Sound` says
  of the report the same as the property, with `Quiet` on the records of the
  file in place of `SameBoot` on those that are complete, because `Grow`
  changes the second and not the first.
- `RestartNotMissedCorrect`: `Spec => []RestartNotMissed`. The invariant
  `PassEnded` adds `PassEnds`, the reason for which the last pass ended: its
  count, at a sample; the end of the file; or a restart. `Average` takes one of
  its two branches from it. It needs that no count is 0 to begin with.

The second part of `SadcFileProofs` goes on from `Typed` and `FlagsAreLocks` to
what is in the files. Its theorems have hypotheses on the command lines, because without them
they are false, as TLC shows on small instances:

- `Exclusive`: every sadc has -L and a file named explicitly. A sadc that
  rotates writes an existing file without lock (`rotate_lock`).
- `SameLists`: sadc processes that may create the same file select the same
  activities, and no file begins with an activity that is unknown. The list is
  read before the lock is asked for, so that a file created again in between by
  a sadc with other activities would get records of the first list.

It proves `NoRecordBeforeHeaderCorrect` from `Exclusive`, and
`FileListPrevailsCorrect` and `RecordsWholeCorrect` from both:

- `HInv`: the header of a file is written by the process with the lock, so
  that at its cursor `k` the file is exactly the first `k` blocks of the header
  (`Placed`), and a process past the checks works on a file that is begun
  (`Begun`): complete, in creation, or left by a sadc that was killed.
  `StepOutcome` says what any step can be: it makes a file, cuts it, puts the
  next block of a header or of a record, or is `Quiet`.
- `ListInv`: the list of a file is determined by the instance (`ListOf`)
  whoever creates it and however often; that is what makes the race harmless.
- `RecordInv`: each block is whole with the one before it (`WholeAt`); the last
  block of a file is the last of a record, or is gone on with by the one that
  has the lock, or its writer is dead (`LastBlock`, `GoesOn`).

The third part is about the files that nobody may create while another sadc
uses them. Its hypothesis, `Owned`, is that each file is `Kept` (it can be
appended to when the first sadc starts: of today, or of last month and used by no
sadc that rotates) or has one user (`Alone`). Without it all three properties are
false: two sadc may both find a file missing, and the second one truncates what
the first one wrote. The instance of the run `append` meets it: its first file is
kept, its second one is that of the sadc that rotates. The properties of this run
are then theorems, for any number of sadc, days, activities and lists, whatever is
interrupted and whoever is killed. The invariant `RInv` says what each sadc
knows of its file: what `open_ofile()` has read is what the file holds (`Opens`),
what creates it has written the first `pos` blocks of the header to a file that is
no log yet (`Creates`), what is past it has the list that the file announces and
writes at its end (`Logs`), which for a descriptor without O_APPEND is the offset
because the file is its own. And of each file: the records put in it are the blocks
that end one (`RecordsAre`), those of a sadc have numbers it has reached, smaller
than the present one while it writes to that file (`Mine`). `StepKinds` says what
a step may be: `Still`, `Empties` or `AddsHeader` of a file that is no log, or
`AddsRecord`. What the recursive function in `RecordsAt` returns for a file of
any length is proved by induction over the members of a set of numbers
(`UptoExists`, `AtAdded`).

- `DailyLogImplemented`: `Owned /\ Guarded => (Spec => ImplementsDailyLog)`. The
  second hypothesis is what man sadc asks for, and what `rotate_lock` takes away:
  a file with several users is shared under -L, and none of them comes to it
  with a rotation (one that rotates shares the file of day 1 at most). Without it
  two sadc mix their blocks. The invariant `WInv` adds to `RInv` that the flag of
  a sadc on a shared file is the lock (`HoldsLock`), hence that there is one
  sadc in the middle of a record of a file (`OnlyWriter`), that it goes on where
  the file stops (`GoesOn`) and that who stopped there without going on was killed
  (`LastBlock`). Seen from `DailyLog`, a sadc begins a record (`BeginFollows`), is
  killed in one (`CutFollows`), adds a block, which is in its place unless the
  file is torn (`TornAdded`, `AddFollows`), or has none, and then the header that
  is complete creates the log (`CreateFollows`).
- `FileListPrevailsOwned` is a conjunct of `Logs`. Together with
  `FileListPrevailsCorrect` it covers both ways in which the list is safe: one
  writer at a time with equal lists, or a header that nobody writes again.
- `RotationOverlapsOwned`: `Owned => (Spec => []RotationOverlaps)`. What `Overlaps`
  compares is separated by a rotation, a creation and other sadc, so `Spans` says
  in between what the next sample will be: a record that has been written is the
  last sample of its file, and until the first one of the next file is complete,
  `n` is still the last sample of the file before. A record is skipped only by a
  sadc that has never had the lock, thus has no samples: the flag that is never
  cleared, which is what `rotate_lock` finds fault with, is why no day loses the
  sample it shares with the day before. `Turns` lists where a step leads.

`SadcPipeProofs` goes on from messages to what is displayed: it adds the numbers
of the samples to the invariant, from `SadcPipeAssumption` alone: `LinesConsecutiveCorrect`,
`UnexpectedEndCorrect`, `DisplayedIsSavedCorrect`, and `AverageSpansLinesCorrect`
with the hypothesis `EndsOnSample` (there is no end time or a sample is taken
at it: otherwise the average goes to a sample that was not displayed, which is
noted below). The invariant `LInv` has, besides `IInv`: `Counted`, how many
records sadc has left to send, which is one more than sar has lines; `Numbered`,
the records in the pipe have consecutive numbers up to the last one taken;
`Slots`, which sample each slot of sar holds at each label, for all the
activities displayed; `Saved` and `Displayed`.

`SarReportProofs` also proves `LinesChainCorrect` from `SarReportAssumption` alone, and
`MCLinesChainCorrect` for the composition that the run checks. The property
relates entries of the report of one activity between which those of the same
pass lie; the invariant `Chain` says it from the present backwards. `Kept`: what
is saved at the first sample of a segment is unchanged until its last pass.
`Apart`: the entries of the pass and those before it are of different
activities or segments. `Current`: the last line of the pass ends at
`buf[1 - curr]` and its first begins at `buf[2]`. `AllLinked`: each line is
linked with the one before it. The lemma `ChainLinks` gets the property from it.

`MCReportCompleteCorrect` is that the report is the one asked for:
`MCSpec => [](SingleDay /\ UptimesGrow => MCReportComplete)`. `SingleDay` says that
the records are of one day, in the order of time, and that -e is not before -s;
`UptimesGrow` that the uptimes of a boot grow, by less than what wraps around.
Files that go over midnight, where `cross_day` decides what is displayed, are only
model-checked. The expected report is a set of entries of the whole file, so the
invariant `OneDayReport` splits it by base, activity and reading position: at each
label, what was displayed is exactly what the bases, the activities and the
samples so far ask for, each entry once (`Holds`). While lines are displayed
(`AtLine`), the last one displayed is the last sample that fits, the count left is
the count less the number of samples that fit, and `last_uptime` is that of the
sample read last. What is shown about the code on the way: what it tests sample by
sample is what the manual says of the whole file. `SliceAround` and
`SliceDisplayable`: the two multiples of the interval that next_slice() looks at
are enough, for every interval. `DaySelects`: once a sample is after -e, so are all that
follow. `AllChosen` and `NoMoreChosen`: counting down selects the first samples
that fit. `EndAtRestart` and `EndAtFile`: each boot has one base at most, and
skipping loses none.

`MCItemsCountedCorrect` is about sadf: `MCSpec => [](EndsOnce => ItemsCounted)`.
What count_file_items() lists in one reading of the file (`CountSearch`,
`CountItems`) must do for the readings that display it, which begin again after
each restart and judge the end of the interval with `cross_day`, unlike the
count. `EndsOnce` says that once a record is after -e, so are all that follow.
Without it the property is false: the count stops at the first record after -e,
and in a file of two days (`sadc` on a file of its own) the samples of the
second morning, after a restart, are displayed and not counted. All the files of
the run have it, those over midnight too. The invariant `Budget`: until it
has found a record of the interval the count has listed nothing that matters;
then the samples from that record on are listed up to the one read next
(`Listed`); when displaying begins, up to the end of the file (`AllListed`); and
wherever a line can be displayed, a record of the interval has been read before
(`Reached`), for the graphs also before the place that each activity begins at.
`LinesOf` is a loop over the activities: that it returns entries of activities
of the sample is shown by induction over their numbers (`LinesOfType`).

`ActBuffersProofs` proves, from `ActBuffersAssumption` alone, `TypeCorrect`,
`HeaderAcceptedCorrect`, `ReadCanGrowCorrect`, `InBoundsCorrect` and
`WritesWhatWasReadCorrect`; `MCActBuffersProofs` brings
them to the two instances that the run `buffers` puts side by side (`irq # freq`
is all that is assumed of the second).

- `TypeOK` bounds what a buffer has room for by twice the items there may be.
  This needs what `Doubled`, a recursive function, returns for every size:
  `DoublesExists` and `DoubledBounds` are proved by induction over the members
  of a set of numbers (`LowestNumber`, `EveryNumber` of `SumTheorems`), because
  the induction theorems of the library take an operator as parameter.
- `Announced`: what was sent in a header is what sadc has counted and
  allocated.
- `Roomy` and `SarRoomy`: the room of a buffer is that of its `nr_allocated` items with
  their sub-items, of every activity outside `misfit` and `smisfit`, and an activity
  without sub-items is in neither.
- `Held`: what a buffer holds, from the reading to the last writing, of an activity that
  was read, was not read, or has lost something of what was read.

`MCDevicesProofs` is about the three samplers side by side, as the run `devices`
has them, for any sets of devices and groups, any number of readings, of
registrations and of things a device may do, any width of the counters, and the
command lines of `MCDevices`. One hypothesis is `NamesApart`: no group of iostat
has the name of a device, or a line would not tell which of them it is about. It
proves:

- `MCReportsDevices`: `NamesApart => (MCSpec => []ReportsDevices)`.
- `MCReportsTrue`: with `FiniteDevices` (a sum is taken over the members of a
  group), `MCSpec => []MCLinesTrue`.

`LinesTrue` speaks of the report and of what the devices did; what makes it true
was decided two readings before, by other actions. The invariant `Reported` adds
for each tool what its entries hold:

- `IoInv`: an entry exists if and only if its device is there and selected
  (`IoCurrent`), and its current sample is then a copy of the counters. At the
  next reading, if the device was there at the one before, the other sample is a
  copy of what they were then (`IoBefore`): a device that left keeps an old sample,
  about which nothing is said. `IoEntered` says which devices have an entry, with
  which type, because `Selected` depends on it. `CifsInv` is the same for shares.
- `TapeInv`: the two arrays have the same length, and an element that is valid is
  a copy of the counters of the drive of that place, which was ready. What
  `realloc()` leaves in new elements is arbitrary (`Garbage`), so only validity can
  protect from it; before the first report there is nothing to compare with.
- `KernOK`: counters grow from one reading to the next as long as a device stays
  registered, and by that no line takes a difference for a wrap or a replacement.

`IoGroups` adds that what a group of iostat has summed up is the sum of the
counters its devices had then, in the sample of the previous report. A sum is a
recursive function chosen in the community module `Folds`, of which nothing can
be said by its definition alone: `SumExists` shows that there is one and `TotalPlus`
that the sum of sums is what it should be, by induction over the subsets of a
finite set, through the least cardinality of a counterexample (`AllSubsets`).

`MCTasksProofs` is first about mpstat, for any number of processors, nodes, interrupts
and readings. Its hypotheses are stated in `MCTasks`, where `TasksAssumption` has
TLC check that the instance of the runs meets them:

- `TimePasses`: a processor that may have come back within an interval has used
  some time in it (an interval of no time is displayed as that of a processor
  without a tick), and `MpOptionsOK`, the type of the command lines.
- `RoomForIrqs`: /proc/interrupts has a line for each interrupt, and at most
  `NR_IRQCPU_PREALLOC` more than when mpstat started; without a processor that is
  plugged in the array is not reallocated, and lines beyond its end are not read.
- `IrqsInOrder`: the lines are always in one order. `SameList` of the property
  compares two lists of names, and `fwd_irq_values()` goes by position.
- `CountsFit`: what is counted fits the counters, which have 32 bits: there is a
  number of times an interrupt occurs at most in an interval, and all of those
  the readings may see are below `IrqWidth`.

It proves:

- `MCSumsAgree`: `TimePasses /\ MpOptionsOK => (MCSpec => []SumsAgree)`. The lines
  are computed from samples, one array of which is copied before it is read
  over, and patched where a processor is offline. The invariant `MpInv` says what
  each array holds at each label (`CpuSamples`): the first reading, for the
  average; the present state (`NowRead`); or, of a processor that is offline now,
  nothing or what it was last seen to have (`Known`). `KernelOK` orders what may
  be compared: `Later` says that a processor counts on as long as it is not booted
  again. With it no interval of a processor that is displayed is 0 (then
  "all" would have its ticks in the denominator and the line would not) and
  sums over processors are sums over lines (`SumRenamed`), which those of the
  nodes, one for each processor, partition (`SumOfSums`).
- `MCReportsTrue`: with `RoomForIrqs` and `CountsFit`, `MCSpec => []MCLinesTrue`. For
  processors it follows from `MpInv`. For interrupts `IrqInv` says which
  reading of /proc/interrupts each of the three samples holds, element by
  element and name by name (`ReadIs`), as long as no processor was plugged in: the
  violation `mpstat_hotplug` begins there. What was counted since an interrupt
  was registered is not below what was read, and `IrqLater` keeps that from one
  registration to the next.
- `MCIrqsReturn`: with `IrqsInOrder` too, `MCSpec => []MCIrqReturns`. What is kept of a
  processor that is offline has been copied from sample to sample as many times
  as there were readings without it. `HeldInv` says that the copies are still what it
  had when it was seen, for each interrupt and for their sum (`HeldAs`).

Then `MCTasksProofs` is about pidstat, for any set of numbers of tasks, any number
of readings and of births, whatever the tasks do, and any command line of
`PidOptionsOK`. Numbers are used again for any task: of the same process or of another
one, a process for a thread, a thread of one process for a thread of another, at the next
reading or after any number of them. One case ends the claims, the one where the code
goes wrong: a number that is found as that of a thread at one reading and as that of a
process at the next (`promoted`). The entry of the former thread is then
taken for the leader of the threads of the new process: the order of the list is
lost (`pidstat_threads`), and with it what depends on it. Under `PidsOK /\
PidOptionsOK`, which only give types, it proves

- `MCTaskLinesTrue`: `MCSpec => []TaskLinesTrue`;
- `MCTasksReported`: `MCSpec => []TasksReported`;
- `MCGaugesAveraged`: `MCSpec => []GaugesAveraged`, where `mixed` tells exactly which
  averages are of two tasks;
- `MCThreadsFollow`: `MCSpec => [](tool = "pidstat" /\ ~promoted => P!ThreadsFollow)`: what
  the comment of `add_list_pid()` says is true until then.

What the properties say of a report depends on the list only through what it holds of
each task. `RowIn(l, n, k)` is that: what list `l` has of task `n` as a process (`k = 0`)
or as a thread of process `k`, or `NoRow`; and every function of the list is characterised by the rows of its
result. That this is possible is the invariant of the list, `GoodList`: its entries are
in order (`Ordered`: a process, its threads by number, the next process), no two have
the same identifier (`Identified`), and each thread points to the entry of its process
(`Linked`). From there:

- An insertion keeps the list good and changes one row (`AddProcess`, `AddThread`): the
  place where `add_list_pid()` stops is the one place where order is kept. Freeing
  keeps the rows of what exists (`FreeUnusedIs`): a process that is freed takes no
  thread with it that stays.
- A loop is a function of the number of turns (`Loop`), and what its turns have done so far
  is said by induction over that number (`LoopValues`). After a reading a row is
  that of a task that is there and listed, with its sample, or none (`ReadListIs`). The
  entry taken for the leader of a thread is that of its process if no process that is there
  has its number in the entry of a former thread (`NoStray`), and `~promoted'` gives that.
- `PidInv` says for each label which reading each slot of the samples holds (`SlotIs`),
  which rows there are (`AsRead`), and what the totals are (`GaugesAre`, or `GaugesWere`
  before the report is added): equal to `gauge` for a number that is not `mixed`, and of more
  reports for one that is (`Averaged`). `Follow` orders the tasks of different readings by
  birth: an entry that outlived a task, or its place in a process, would have been freed at
  the reading that missed it, so that the first sample in it is of this task, or of another
  one of the same process (`AsRead`, slot 2), and the other one of what had this number in
  this process at the reading before.
- `LineRow` and `ReportWhole` read the lines off the rows: which tasks they are about, a
  thread for -G by the leader it points to, and the values in them.

Each inductive invariant was checked by TLC before it was proved, and each
hypothesis that is not a type is needed: TLC finds a counterexample when it is dropped, except for
`FiniteDevices`, without which the sums mean nothing.

Only model-checked: everything else in the table of runs. In particular
liveness (`Terminates`, `BothEnd`, `Ends`) is outside what the proof system
handles (no rule for fairness and ENABLED), and so is most induction over data
(the length of a text, as in `MarkupBalanced`): the induction
theorems take an operator as parameter, which leaves only inductions that can be
put as the least member of a set of numbers (as for `ActBuffers` and for the
records of a file).
Modules that are proved about declare no RECURSIVE operators. The lines of the
43 activities (`SarLines` and so on) are not worth proofs: each property of them
is a comparison of formulas written out twice, which an instance with distinct
values of all fields decides.

## Where the code and its documents differ

Each is a run that finds the property violated.

- `rotate_lock` (`sadc.c:449`): the lock flag is never cleared, so that after a
  rotation an existing file is written without lock.
- `mpstat_hotplug` (`mpstat.c:221`): with -H, when a processor is plugged in,
  what is zeroed in the array of interrupts begins at the wrong element, and the
  rows are not moved although their length has changed.
- `pidstat_threads` (`pidstat.c:291`): threads may be inserted after the entry
  of a former thread that had the number of their process. TLC then finds `TaskLinesTrue`,
  `TasksReported` and `GaugesAveraged` violated too, hence `~promoted` in them.
- `formats_tickless` (`pr_stats.c:151`): an idle tickless processor has no
  maximum of 100% idle, because of an inverted test.

Seen while modelling and not contradicted by a document, or outside the
instances (see also the notes of the hazards):

- sadc: two sadc that both find a file missing, of which the second truncates
  what the first wrote; a list read before the lock is taken; a sadc killed
  between the truncation and the end of the header lets another append to a
  file without one; after a rotation onto a file with other activities,
  statistics are written that were not read; a device removed between a sample
  and the rotation that writes it again; `reallocate_buffer()` takes `nr2` for
  1, although A_IRQ has one sub-item per interrupt.
- sar: an end time between two samples makes the average go to a sample that
  was not displayed (`sar.c:1311`); with `-s` after `-e` nothing is displayed
  from a restart after midnight on (`sar.c:1087`); `check_time_limits()`
  compares hours only (`sa_common.c:3652`).
- sadf: the reference of -i stays that of the former boot in graphs
  (`sadf.c:703`); items are counted up to the first record after the end time;
  errors at the end of a cut file leave XML and JSON unterminated.
- iostat: a device that returns is compared with an older sample but divided by
  the last interval (`iostat.c:1863`), and counts in the size of its group;
  with -g and JSON, a comma for an empty group (`iostat.c:1936`); `--pretty`.
- mpstat: the sum of an interrupt that is unregistered (`mpstat.c:1224`);
  `fwd_irq_values` by position (`mpstat.c:290`). pidstat: an early return that
  leaves JSON unterminated; a command line kept when its PID is used again.
- formats: averages of cpufreq and softnet are divided by the number of lines
  even when an item was not in each; JSON displays `pwr_in` from 0 and others
  from 1; `print_irq_xstats()` leaves out the column of a processor without
  extremes; a label is `kbshared` in `sadf -d` and `kbshmem` elsewhere. In the
  graphs of softnet, a processor that goes offline in the first sample after a
  restart gets a point from 0 minus its last counters (`svg_stats.c:5120`), where
  the line begins that goes on when the processor returns, although a comment
  says that it goes unnoticed.
- PCP archives: a metric may have the number of another one and is then refused
  (`disk.all.write` after `kernel.all.cpu.iowait`, `network.icmp.inredirects`
  after `inechos`); `disk.all.read_bytes` and the two like it are declared in kB
  (`pcp_def_metrics.c:508`) and put in sectors (`pcp_stats.c:365`),
  while those of `disk.dev` are halved (`pcp_stats.c:598`); `mem.vmstat.pgpgin`
  and `pgpgout` are kB declared a count, and `kernel.all.cpu.*` jiffies declared
  in ms; a processor without a tick has values for
  `cpu.hardirq` and `cpu.softirq`, which are `irq.hard` and `irq.soft` in the
  header, and zeros for counters that are not; `backlog_length` is a gauge
  declared a counter; `disk.dev.read`, `disk.dev.write` and the metrics of softnet
  for CPU "all" never have a value; serial lines are numbered from 0 in the
  header, and by their own number in the values (`pcp_def_metrics.c:929`).

## What is not modelled

- Option parsing, headings, widths, colours, units, translations, and the
  parsing of `/proc` and `/sys`: no state, or only that of a printer or parser.
- `raw_stats.c` (debug output of the fields as they are), the types of the
  metrics of PCP and how its library writes them, the drawing of SVG but for
  its points.
- Files of another endianness, of 32-bit machines, and the remapping of
  structures of different sizes (`remap_struct()`, `check_file_actlst()`):
  `SadcFile` has only whether they fit.
- Failures of `malloc()`, of `/proc`, and errors of `close()` or `fdatasync()`
  other than through `Die`.
- CPU utilization in iostat; topology in mpstat; in pidstat the program run with
  -e and the reports that are the same loop over other fields.
- sa1 and sa2 (one command each, on files of other days), `systest.c`, compiled
  in for the test suite only.

## The plan

Done, the most important behaviour first: the files (`DailyLog`, `SadcFile` and
proofs), the pipe (`SadcPipe` and proofs), buffers, reports (`SarReport` and
proofs, `Sadf`), the samplers (and proofs of those of devices, processors and tasks), the values and
their formats, conversion.

What would come next, in this order:

1. Theorems: `ImplementsDailyLog` also for files that several sadc may create,
   all with -L (a log is then replaced, which `DailyLog` has to allow); the reports of files over midnight
   (`MCReportComplete`), and those of sadf (`MCSadfComplete`).
2. A composition of `SadcFile` and `SarReport`: the file that sar reads is one
   that several sadc write.
3. `Retention`: sa1, sa2 and `guess_sa_name()` over the directory of files.
4. The reports of pidstat and mpstat that are left out.
