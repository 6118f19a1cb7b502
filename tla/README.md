# A verification of afl_cc in TLA+

afl_cc is a fork of AFL 2.52b with collision-free coverage, basic-block
tracing, optimised dictionaries and maps whose size depends on the target.
This directory models the parts of it in which control, not data, is hard:
processes and signals, the queue of test cases and its bookkeeping, the main
loop and the stages of `fuzz_one()`, the files several fuzzers share and what
survives a crash, and around the fuzzer the compiler passes it relies on, the
guarding allocator and the minimiser. The modules are checked by TLC on small
instances (`*.cfg`); what matters most is proved by TLAPS for every value of
the constants (`*_proofs.tla`).

## 1. The system

### 1.1 Components

| Component | State | Operations | Correct when |
|---|---|---|---|
| **Fork server protocol** (`afl-fuzz.c: run_target`, `handle_timeout`, `handle_stop_sig`; `afl-llvm-rt.o.c: __afl_start_forkserver`, `__afl_persistent_loop`) | `child_pid`, `child_timed_out`, `prev_timed_out`, `stop_soon`, the interval timer; `child_stopped`, `prev_tracing`; two pipes, two shared maps | one run of the target, timeout, Ctrl-C, reuse of a persistent child | a verdict belongs to its run, the maps hold that run alone, the server never loses its child, every call returns |
| **Queue and culling** (`add_to_queue`, `update_bitmap_score`, `cull_queue`, `minimize_bits`, `mark_as_redundant`) | `queue`, `top_rated[]`, `tc_ref`, `trace_mini`, `favored`, counters | add, calibrate, trim, cull, fuzz an entry | reference counts are exact, a trace is kept exactly while needed, favored entries cover all top-rated bytes, counters agree with flags |
| **Calibration and verdict handling** (`calibrate_case`, `save_if_interesting`, `perform_dry_run`, `common_fuzz_stuff`) | virgin maps, `cal_failed`, `var_bytes`, `perform_bbtracing`, `coverage_bb` | calibrate, dry run, save queue/crash/hang | the maps lose exactly what was kept, marks and counters agree, a deterministic target looks stable, no entry completes two calibrations |
| **Fuzzing loop** (`main`, `fuzz_one`, `show_stats`) | `queue_cur`, `current_entry`, `queue_cycle`, `cycles_wo_finds`, `use_splicing`, `seek_to` | leave out or fuzz an entry, cycle accounting, exit conditions | positions agree, no entry is starved, a session ends when and only when it is done |
| **Trimming** (`trim_case`) | the entry's file and length, `needs_write`, `clean_trace` | remove blocks while the checksum stays | the file always holds an input with the entry's checksum; it terminates |
| **Mutation stages** (`fuzz_one`, `could_be_bitflip`, `could_be_arith`, `could_be_interest`, `calculate_score`, `choose_block_len`, `locate_diffs`) | `in_buf`, `out_buf`, `eff_map`, `stage_max`, `perf_score`, `next_100` | deterministic stages, havoc, splicing | a skipped value was really tried; buffers and energy stay in their limits; a splice is one of two entries; an entry is left |
| **Dictionaries** (`maybe_add_auto`, `save_auto`, `load_auto`, `load_extras*`, the extras stages) | `extras[]`, `a_extras[]`, `auto_changed`, `a_collect` | collect, learn, evict, save, reload, overwrite, insert | no duplicates, the useful ones survive, what is collected is in the file, one token at a time, none left out |
| **Bitmaps** (`has_new_bits`, `classify_counts`, `simplify_trace`, `count_*`, `get_map_size`) | trace and virgin maps, word by word | compare, classify, count | word-wise code computes the edge-wise definition |
| **Parallel fuzzing** (`sync_fuzzers`) | queue directories, `.synced/<peer>` counters | import, publish, trim in place | every published case is imported once, at least while nothing fails |
| **Resume and output directory** (`maybe_delete_out_dir`, `setup_dirs_fds`, `read_testcases`, `pivot_inputs`, `nuke_resume_dir`, `find_timeout`, `find_start_position`) | `queue/`, `_resume/`, `fuzzer_stats`, `.synced/` | start, resume in place, crash anywhere, restart | no test case is lost, settings are restored |
| **Instrumentation passes** (`afl-llvm-pass-no-collision.so.cc`) | `ISet`, edge numbers, split edges, word-to-edge pairs | number and instrument edges | one counter per edge that decides something, words mapped to the edges of their block |
| **Optimisation passes** (`compare-to-unit.so.cc`, `strcompare-to-unit.so.cc`) | comparisons still to convert, blocks made of them, words | rewrite comparisons, record words | the program computes the same, each word is recorded once, where it is reached |
| **afl-tmin** | one input, passes over it, its map in the dry run | normalise, delete, replace | the result behaves as the input did, nothing can be left out |
| **libdislocator** | blocks, `total_mem` per thread | malloc family | each block has what was asked for, the limit holds |
| **Session set-up** (`bind_to_free_cpu`, `setup_dirs_fds`, `maybe_delete_out_dir`, `setup_stdio_file`, `main`) | the cores other processes are bound to, the lock on the directory, what is in it | bind to a core, lock, delete or move the old session, create the new one | two instances share neither a core nor a directory, what a killed session left can be set up again, long sessions are not deleted |
| **Runtime of instrumented programs** (`afl-llvm-rt.o.c`, the rest), **statistics and user interface**, **compiler wrappers**, **afl-analyze, afl-showmap, afl-gotcpu**, **libtokencap**, **drivers** | | | |
| vendored or data: `dsa/`, `clang_format_fixes/`, `gllvm/`, `qemu_mode/`, `experimental/`, `dictionaries/`, `testcases/`, `docs/` | | | |

### 1.2 How they interact

The fuzzing loop takes the next queue entry (`main`), culls the queue if the
top-rated list changed (`cull_queue`), and runs `fuzz_one` on it: recalibrate
if an earlier calibration failed, trim, score, deterministic stages with the
collection of tokens, dictionary stages, havoc, splice. Every mutated input
goes through `common_fuzz_stuff`, which runs the target (`run_target`), and
`save_if_interesting`, which may add the input to the queue and calibrate it
(eight to forty further runs), or store it as a crash or a hang. Calibration
and trimming call `update_bitmap_score`, the only place where `top_rated`
changes. Between entries `sync_fuzzers` imports what other instances have put
into their `queue/`. Two signals interrupt all of this: SIGALRM, armed for one
run, and SIGINT. Nothing is transactional: files are created, linked, unlinked
and renamed one by one, and `stop_soon` is looked at only at certain points.

The target is built beforehand: `compare-to-unit` and `strcompare-to-unit`
rewrite its comparisons and write the dictionary, the no-collision pass numbers
its edges and maps words to them. The size of all maps follows from that.

When it starts, an instance looks in `/proc` for a core that nothing is bound
to, makes or locks its output directory, clears away or moves the session it
finds there, and imports its cases. Other instances do the same meanwhile.

### 1.3 What is hard

Concurrency: fuzzer, fork server, child and signals; several fuzzers over one
directory tree; threads of a target in one allocator. Failure: crash or Ctrl-C
between two file operations, a target that hangs, crashes or behaves
differently on the same input. State that outlives its use: `prev_timed_out`,
`perform_bbtracing`, `trace_bits` after a later run, `.synced` after the peer
restarted, `in_buf` after a splice, `out_buf` between two tokens. Limits:
reference counts, counters, the havoc budget, `KEEP_UNIQUE_*`,
`MAX_AUTO_EXTRAS`, the block sizes of trimming, carries and byte orders.
`PROJECT.json` lists every hazard at the line where it bites.

## 2. The plan

The order is by what a mistake costs and how badly a test would find it.

| # | Module | Models | State |
|---|---|---|---|
| 1 | `TargetRun` | abstract: what a call of `run_target` promises | done |
| 2 | `ForkServer`, `ForkServer_proofs` | the protocol behind it, implements `TargetRun` | done |
| 3 | `Queue`, `Queue_proofs` | queue, scores, reference counts, culling; its runs of the target are those of `TargetRun` | done |
| 4 | `Resume` | one output directory over several sessions | done |
| 5 | `Sync` | several instances over one sync directory | done |
| 6 | `Calibration`, `MCCalibration`, `Calibration_proofs` | `calibrate_case` run by run, `save_if_interesting`, `perform_dry_run` | done |
| 7 | `FuzzLoop`, `Session_proofs` | `main`'s cycle and the choice of entries: `seek_to`, `cycles_wo_finds`, imports, the exit conditions; the proofs about 4 and 7 | done |
| 8 | `Trim` | `trim_case` block by block | done |
| 9 | `Values`, `Entry`, `DetStages` | the deterministic stages, the skip rules, the effector map | done |
| 10 | `Dictionary`, `TokenStages` | the two dictionaries over several sessions; collecting and using tokens | done |
| 11 | `HavocBounds`, `Havoc`, `FuzzOne_proofs` | the random stage, its energy and buffers, splicing; the proofs about 8 to 11 | done |
| 12 | `MCFuzzOne` | 8 to 11 side by side | done |
| 13 | `Bitmaps` | the maps word by word against their definition edge by edge | done |
| 14 | `CompareUnits`, `StringUnits`, `Edges` | three compiler passes | done |
| 15 | `Dislocator`, `Tmin` | the allocator, the minimiser | done |
| 16 | `MCToolchain`, `Toolchain_proofs` | 13 to 15 side by side; the proofs about them | done |
| 17 | `FreeCpu` | several instances looking for a core | done |
| 18 | `OutDir`, `Instances_proofs` | several instances on one output directory, call by call; the proofs about 5, 17 and 18 | done |
| 19 | `MCInstances`, `MCSession` | 5, 17 and 18 side by side; 4 and 7 side by side | done |
| 20 | `Arithmetic_proofs` | no part of the system: induction, recursion and division for the proofs | done |

## 3. The modules

### 3.1 ForkServer and TargetRun

Four actors take turns in any order: the fuzzer (`fpc`), the fork server in
the target (`spc`), the child (`proc`, `job`), and the signals. One action is
the code between two system calls that another actor can observe, so the timer
and Ctrl-C may strike between any two of them.

| Code | Model |
|---|---|
| `init_forkserver` | `FuzzerHello`, `FuzzerHelloDisarm`, `FuzzerHelloFails` |
| `run_target` | `StartRun`, `WriteCtl`, `ReadPid`, `ArmTimer`, `ReadStatus`, `ClearPid`, `DisarmTimer`, `Report`; any pipe error is `PipeFails` |
| `handle_timeout`, `handle_stop_sig` | `Alarm`, `StopSignal` |
| `__afl_start_forkserver` | `ServerHello`, `ReadCtl` (with `Choice`), `Reap`, `RespawnKill`, `RespawnWait`, `Fork`, `Resume`, `WritePid`, `WaitPid`, `WriteStatus` |
| `__afl_persistent_loop`, the target | `Execute`, `FirstPass`, `NextPass`, `Ends` |
| the kernel (external) | `SigKill`, `Collect`, `Waitable`, `Dies` |

A process identifier may be handed out again once its process was waited for.
A SIGKILL to a running process is pending until `Dies`, and until then the
process may go on or end by itself. The coverage maps are sets of tags: "own"
for the iteration or run on this input, "pre" for code before `__AFL_LOOP`,
"post" for code after it, "stale" for what was executed for an earlier input.
`fate` and `expired` are ghosts: how the run really ended, and whether its
timer went off.

`MapsOfThisRun` says that nothing writes to the maps after the verdict, that
they hold this run alone, and that the child traces basic blocks as this run
asked. `ServerKeepsChild` says that a stopped child the server keeps is there,
that there is one child at most, and that the server survives all but the stop.

`TargetRun` knows none of this: a call is one execution, which ends in one way
and is answered by a verdict that is true of it. `ImplementsTargetRun` maps
`busy` to "between the call and the return of `run_target`", `map` to the edge
map, the others to themselves; a run that Ctrl-C cuts short must not be
reported as a fault, with one exception: `run_target` asks for `stop_soon` when
the target was ended by a signal, not when it exited with the code that MSAN
uses for a crash (`ExitVerdict`, `JustifiedAfterStop`), and that crash is a true
one. Its callers look at `stop_soon` before they use the answer.

### 3.2 Queue

An entry is a number; the checksum of its trace is the trace itself, a set of
map bytes; `exec_us * len` is one number. Each handler is one action: nothing
here is concurrent, and what is hard is the sequence. `UpdateScore` is
`update_bitmap_score` in closed form; `ScoreLoop` is the loop of the source as
a recursive function over the map, and `ScoreIsLoop` compares the two in every
reachable state. `Sweep` is the greedy pass of `cull_queue`, byte by byte. An
action that saves an entry includes everything `save_if_interesting` then
does: the calibration, the score, or the failure. `StopInTrim` and `Stop` are
the returns after `stop_soon`. `ReferencesExact` puts together the counts and
the kept traces, `FavoredSetExact` the cover and its counter, `FavoredExact`
the counter of pending favored entries and that only scored entries serve.

Which entry comes next is left open, so every order is checked, the one of
`FuzzLoop` among them; how long an entry is fuzzed too, so every number of
finds is allowed (the schedule itself is in `Havoc`).

### 3.3 Resume

A directory of test cases is the set of its complete files with the
`deterministic_done` marks; the deletion, the linking and the marking go file
by file (`DeleteQueue`, `PivotLink`, `PivotMark`, `Nuke`), and a process can be
gone between any two steps if its phase is in `KilledIn`. `work`, `found` and
`done` are ghosts: what a user believes to have. `SessionKept` says of the
cases that the next resume imports them all (`NothingLost`), of the crashes
that `crashes/` or a backup of it has them. `Recorded` finds a number in
`fuzzer_stats` under the label that is searched for, by comparing the labels
themselves: the labels differ in the source, and that difference is a finding.

### 3.4 Sync

The cases of an instance are a sequence; a case is the set of edges it covers;
`covered[f]` is the complement of `virgin_bits`. A visit to a peer takes many
steps: `OpenQueue` reads the counter and opens the directory, each `Look` is
one file, `CloseQueue` writes the counter. Four overlaps can be switched on by
`Races`: a file that is visible before it is complete ("save"), a listing that
shows a later file and not an earlier one ("listing"), a peer that moves its
queue away during the visit ("resume"), a peer that starts anew in the
directory ("new").

### 3.5 Calibration

`Queue` takes a calibration as one step; here each run of the target is one
(`CalRun`), any of them may have another verdict (`CalFails`, `DryRunFails`),
find no instrumentation or be stopped, and `Leave` is what the code does from
`abort_calibration` on. A trace maps a byte to 0 or to the bucket of its count,
a virgin map to the buckets not seen. An entry's checksum is its trace, so a
collision of `hash32` is not modelled. `Returned` is the rest of the caller: in
crash mode a find goes on to `keep_as_crash`, with what the last calibration
run left in `trace_bits`. `known` and `crashes` are ghosts: what the runs that
count have hit, and what the traces of the saved crashes hit and miss.
`setting` is chosen at the start: whether runs on one input differ, crash mode,
and whether `exec_tmout` is as long as `hang_tmout`, so that a hang needs no
second run. `MapsExact` is about the virgin maps of queue and crashes,
`CalibrationsCounted` about `queued_with_cov`, `queued_variable` and the
`assert` that no entry gets its tokens twice, `VariableExact` about
`var_detected`, `var_bytes` and a target that does not vary.

### 3.6 FuzzLoop

The main loop from `cull_queue()` to the next entry, one action per piece
between two points where `stop_soon` is looked at or something is added to the
queue. `LeaveOut` is the head of `fuzz_one()`: `UR(100)` is a free choice where
its outcome is not certain. `FuzzOne` recalibrates and starts, `Find` is
`add_to_queue()` under way, `EndOfEntry` all ways out of `fuzz_one()`. `Import`
is one case of `sync_fuzzers()`. `StopWhenDone` is the end of `show_stats()`,
which `common_fuzz_stuff()` calls as well, so it may come in the middle of an
entry. Of what `cull_queue()` decides only the set `favored` is kept, any set
(`Queue` has the details). `visits` is a ghost: how often each entry was at
hand since the last find or import.

### 3.7 Values, Entry, DetStages

`Values` has the bytes and the interesting values, `Entry` the buffer and the
effector map that the deterministic and the dictionary stages share. A stage of
`DetStages` is one action: the set of inputs it runs, and which stage comes
next. Values are sequences of bytes, so byte order and wrap-around are those of
the code; `CouldBeBitflip`, `CouldBeArith` and `CouldBeInterest` are the
functions of these names. Any byte may or may not have an effect (`Flip8`), so
the effector map takes every value that a target can give it.

### 3.8 Dictionary and TokenStages

`Dictionary` is the list `a_extras[]` through hits, evictions, the two sorts,
`save_auto()` file by file, a kill at any point, and the next start, which
reads, unlinks and adds again. `TokenStages` extends it with what `fuzz_one()`
does: `a_collect` during the flips of the lowest bits (`CollectByte`), with any
checksum after each flip, the overwrites, whose buffer is restored once per
offset and not once per token, and the insertions, whose buffer grows along
with the offset. `EntryExtras` are the tokens an optimised dictionary gives an
entry. `offered`, `cksums` and `ran` are ghosts.

### 3.9 Trim

Every run of the target is one action (`TryGap`), its checksum any; `same`
is a ghost, the set of inputs that were run and had the entry's checksum. The
`unlink()` and the `write()` of the shorter file are two actions. Lengths and
block sizes are those of the source (`NextP2` rounds up to a power of two;
`PowersOfTwo` lists those that the lengths ask for).

### 3.10 HavocBounds and Havoc

What runs in the random stage has no structure to check, its lengths have:
`Havoc` keeps the length of what `out_buf` holds and the room it has, and of
`in_buf` the bytes, because splicing changes them. (Here they are `havoc_buf`
and `havoc_len`; `havoc_cur`, `havoc_max` and `havoc_step` are `stage_cur`,
`stage_max` and the place in the code.) One action is one tweak: in place,
deleting, inserting; every length `choose_block_len()` can give is allowed.
`Run` is the run, the reallocation of `out_buf` and the doubling of `stage_max`
and `perf_score` after a find. `Splice` is one attempt: the entry is sought
along `next_100` (`Sought`), then the next that is long enough, and `Splits`
are the places at which the two may be joined. `HavocBounds` holds the limits
of `config.h`.

### 3.11 MCFuzzOne

The parts of `fuzz_one()` do not run at the same time, and what one hands to
the next is an input, of which the next takes any. `MCFuzzOne` therefore puts
3.7 to 3.10 side by side, and `part` says which of them a behaviour is about.

### 3.12 CompareUnits, StringUnits, Edges

`CompareUnits` is `compare-to-unit` on one comparison of a function: the
program is a sequence of nodes (comparisons, branches whose ends meet in a
phi) that each of the phases rewrites; `Outcome` runs it, and `SameResult`
compares with the source for every pair of operands after every step.
`StringUnits` is `transformCmps` of `strcompare-to-unit`: the chain of blocks
made of one call, and its run on the arguments; `word` is the dictionary word
of the call, which an earlier pass over stores may have left, `TransformLiteral`
records and the chain takes over; "failed" is one of the two `ASSERT`s about it.
`Edges` is the no-collision pass on a whole graph: `target` is the graph while
edges are being split, `Entering` the predecessors as they are at that moment,
`JumpsTo` where a program goes, which for an indirect jump is not what the
graph says.

### 3.13 Bitmaps

A byte is the set of its bits. The functions are written as in the source, word
by word with the words they pass over; `EdgeByEdge` states what they are to
compute, from `hit` and `seen`, the counts of the run and the classes of all
runs, edge by edge. A session may be given the bitmap of an earlier one
(`in_bitmap`, `fuzz_bitmap`): `ReadOptions` is where the code reads it,
`SetUpMaps` where it allocates and fills the maps; `seen` then begins with what
the earlier session had seen.

### 3.14 Dislocator and Tmin

`Dislocator`: each call of any thread is an action; a block is its start within
its pages, its length, its contents, and what the caller asked for. Sizes are
those of a `size_t` with fewer bits. `Tmin`: one attempt is one run; any
attempt may be accepted, except that one rejected is rejected again
(`rejected`): the target is deterministic, as `afl-tmin` takes it to be.

### 3.15 MCToolchain

3.12 to 3.14 share no state at all; one run checks them side by side.

### 3.16 FreeCpu

A process is an instance of the fuzzer or what it runs (fork server and target
as one); `cores_of` is the core it is bound to. `ReadStatus` reads one
`/proc/<pid>/status`: a process that started after the scan began may or may not be met, so each process that
is alive may be read at any time and those that were there must be, unless they have ended.
`Bind` is `sched_setaffinity()` on the first core that is not flagged, or
the refusal. `throughout` and `sometime` are ghosts: which processes were bound
during the whole scan, and which cores were in use at some time of it. The code
promises no more than that ("Introduce some jitter"): two instances that look at
the same time may take the same core.

### 3.17 OutDir

`Resume` has the contents of the directory over several sessions of one
instance; `OutDir` has every single call of the set-up, with instances that
overlap. The set-up is one sequence of calls once the lock is taken
(`DeleteOutDir`, `CreateDirs`, `ImportAndStart`), held in `todo_calls`; a call
fails as `mkdir()`, `rmdir()` and `delete_files()` do (`Fails`), and `GoneFrom`
may come between any two. `paths` is what is there; a directory holds at most
one file of each kind. `Saves` and `RunsLong` are the session: the files it may
leave and `fuzzer_stats`, of which only matters whether it can be read and
says more than `OUTPUT_GRACE` minutes (`run_time`).

### 3.18 MCInstances and MCSession

Like 3.11: `Sync`, `FreeCpu` and `OutDir` share no state in the models, nor do
`FuzzLoop` and `Resume`.

## 4. The runs

| Run | Asks | Shows |
|---|---|---|
| `forkserver_runs` | Is every verdict of `run_target` true of its run, do the maps hold that run alone, does the server keep its child, does every call return, with a plain or a persistent target and signals at any point? Does the protocol implement `TargetRun`? | yes |
| `queue_det` | Do scores, winners, favored entries and their counters agree for a deterministic target? | yes |
| `queue_var` | Do references, kept traces and pending counters agree whatever the target does? | yes |
| `session` | Is everything saved found again, however often the process is killed during set-up, import, dry run or fuzzing? Is the position right, is every entry fuzzed, does a session end when it is done and only then? | yes |
| `resume_nuke` | And when it is killed while it deletes `_resume`? | no: the next start prefers the half-deleted `_resume` to the complete queue |
| `resume_timeout` | Is the recorded timeout used on a resume? | no: it is searched for under another label |
| `instances` | Is no case of a peer passed over, and does each get everywhere, with stops, kills and resumes at any time but no overlap? Is the core an instance takes free? Is a directory used by one instance at a time, can it be set up after every kill, and is a long session safe in it? | yes |
| `sync_races` | With all overlaps, does an instance keep a case that brings nothing? | no, never |
| `bitmap_option` | Does `-B` start a session with the bitmap of an earlier one? | no: it is read before the map has a size, and the session starts with an empty one |
| `calibration` | Do the maps lose exactly what was kept, whichever run of a calibration fails or is stopped? Do marks, counters and retries agree? Does a deterministic target look stable? | yes |
| `fuzz_one` | Was every skipped value tried? Are tokens whole, kept, saved, tried everywhere, one at a time? Does a trimmed case have the trace of the entry? Do havoc and splicing stay in their buffers and their budget, and end? | yes |
| `toolchain` | Do the passes preserve the program and number its edges? Are the maps right edge by edge? Does the allocator keep its limit and its blocks? Does afl-tmin keep the behaviour, and leave nothing to remove? | yes |

### 4.1 Bounds

* `ForkServer`: two process ids, so that a new child exists beside one not yet
  waited for and ids are reused; two iterations per process, so that a process
  is reused and also ends by leaving its loop. The number of runs is unbounded.
  `uses_asan` is true, so that an exit with the code of MSAN and one with another
  differ; the proofs are for both values.
* `Queue`: three entries over two map bytes: an entry can beat another on one
  byte only, a slot can pass through three owners, a favored entry can become
  redundant. Two costs give cheaper, dearer and equal. `SkipMin = 1` makes the
  skipping that starts at ten entries happen with two. Two calibration chances
  give first failure, success after it, and giving up. With two seeds a dry run
  is interrupted by a failure in the second. A variable target has one seed.
* `Resume`: four starts: a new session, a resume that is killed, one that is
  killed while it repairs that, and one that looks. Three cases, two of them
  seeds; two crashes, so that backups do not hold all of them.
* `Sync`: two instances, since an instance treats each peer by itself; cases
  {1}, {2}, {2, 3}: one that everybody starts from, one that adds to it, and
  one that makes the second redundant if it comes first. Two sessions each.
* `Calibration`: two map bytes and three traces: nothing, one byte once, that
  byte often and another one: each of "new byte", "new count" and "nothing new"
  occurs, also for the simplified traces. The eight cycles, forty for a trace
  that varies, become two and three; two calibration chances; up to two
  seeds, so that one may be skipped and one not, or a find joins one seed. Two
  crashes and two hangs: the second must differ from the first.
* `FuzzLoop`: two entries, the second there from the start or found or imported
  at any point; `SkipAbove = 1` and `SyncInterval = 1` make skipping and
  visits happen with these; two cycles without finds, so that a find can fall
  between them. Every combination of the options.
* `FuzzOne`: inputs of one to four bytes whose values lie around the carries of
  each width, the real `ARITH_MAX` and the real interesting values; `EffScale = 1` makes the effector map as fine as it can
  be. Three tokens: two that differ in case only and one that contains another,
  in a list of two places of which one is in use; two sessions. Trimming: four
  lengths, too short, below and at a power of two and past it. Havoc: three
  entries of one or four bytes, a stride of 2 so that both shortcuts and steps
  are taken, two tweaks per run, two attempts to splice; a buffer of six bytes
  is filled up.
* `Toolchain`: a unit is one bit and the widths are 1, 2 and 4, so that a
  comparison is split twice; the constants are those around zero and the sign,
  the operands all. Strings of up to four characters of two bits, of which three
  are a word, and lengths up to four; all graphs of three blocks, one of which may
  end in an indirect jump; maps of two and three edges in words of two bytes and the
  counts 0, 1 and 3, over any number of runs; a `size_t` of six bits, pages of 16 bytes, two threads and
  three blocks; cases of three and four bytes for `afl-tmin`.
* `FreeCpu`: three instances and two cores, so that one finds none free, and
  two that scan at once meet a third that binds itself or ends; three starts
  among them, so that an instance may also be started again.
* `OutDir`: two instances and three starts: one session that is killed anywhere,
  one that overlaps with the next, and one that looks at what is left. A session leaves nothing or
  a case with all its marks, a crash, a hang and the rest, at any time.

`MaxEntries`, `MaxPaths`, `Starts`, `MaxStarts`, `CpuStarts`, `OutStarts`,
`Sessions`, `MaxHits` and `MaxBlocks` bound only how long a session goes on; no property depends on them.

### 4.2 Fairness

`ForkServer`: weak fairness of the fuzzer's and the server's steps (a process
that can run is scheduled), of the timer (an armed timer fires if the run goes
on) and of a pending SIGKILL. Nothing is assumed of the target: it may hang,
which is what makes the timer necessary for `RunReturns`.

`Sync`: weak fairness of each instance's work (import, writing, resuming),
because the main loop of a running instance calls `sync_fuzzers` after a bounded
number of entries and each of its calls ends (this is `RunReturns`). Nothing
forces an instance to find something, to stop or to be started again, and
`EveryCaseArrives` makes an exception for an instance that is down.

`FuzzLoop` (`LoopFairness`): the loop goes on; strong fairness says that the
random draw of `fuzz_one()` does not leave the same entry out for ever (its
probability to be taken is at least 1 in 100 each time), that an entry and a
visit end (this is `EntryIsLeft`, `TrimEnds` and `RunReturns`), and that
`show_stats()`, which does its work at most so often per second, gets to its
end now and then. Nothing forces a find or an import, or stops them.

`Trim`, `Havoc` within an entry and `Tmin` are sequential code whose runs of
the target return: weak fairness of the next step. `TrimEnds`, `EntryIsLeft`
and `TminEnds` need nothing else, least of all of what a run returns.

The other modules state safety only.

### 4.3 Other disagreements the models show

Each of these is a formula of a module, or a run with other constants, that TLC
finds violated; three of this kind have runs of their own (`resume_nuke`,
`resume_timeout`, `bitmap_option`).

In the fuzzer and the target's runtime:

* `ForkServer`: `CodeAfterLoopNotTraced` fails. `__afl_persistent_loop` turns the
  edge map away when its last pass is over, "to make sure that the subsequent
  code that follows the loop is not traced"
  (`src/llvm_mode/afl-llvm-rt.o.c:337-339`), but not the map of basic blocks.
* `Queue`: `EveryTupleSeenCovered` fails. The favored entries are to "still
  cover every tuple seen so far" (`docs/technical_details.txt:216-218`); a find
  that cannot be calibrated has taken its bytes off `virgin_bits` and is never
  scored.
* `Queue` with `Variable = TRUE` violates `QueuedFavoredExact`: an entry with a
  trace that varies can be met twice in one sweep, because its `trace_mini` no
  longer contains the byte it is rated top for, and `queued_favored` counts it
  twice. The status screen shows this number as the favored paths
  (`docs/status_screen.txt:238-240`); nothing else reads it.
* `Resume` with `Restart = TRUE` violates `NothingLost`: a `_resume` left by a
  killed resume outlives the start of a new session over the directory, and the
  resume after that prefers it.
* `Resume` with "stats" in `KilledIn` reaches "malformed": `fuzzer_stats` is
  truncated before it is written, and every later start refuses the empty file.
  With "trim" it violates `NothingLost`: the file is unlinked before the shorter
  one is written.
* `Sync` with `Races = {"save"}`, `{"listing"}` (cases {1}, {2}, {3}),
  `{"resume"}` or `{"new"}` violates `NoneSkipped`, each by itself: a case that
  is seen while it is empty, for one, counts as seen.
* `Calibration`: `Missing(virgin_tmout) = hangs` fails: a timeout that the second
  run does not confirm has already been taken off `virgin_tmout`
  (`src/afl-fuzz.c:3739`), and a genuine hang with the same trace is not saved,
  although its path is in no "previously-recorded" fault (`docs/README:229-230`).
  "`var_bytes` holds only bytes in which two runs of one entry differed" fails
  for a variable target when an entry is calibrated again: `first_trace` is
  then the trace of the last input that ran (3036). For a deterministic one,
  `DeterministicIsStable` holds.
* `DetStages`: `ClaimedFlipsWereTried` fails. `could_be_bitflip()` takes one, two
  or four neighbouring bits of a little-endian integer for a flip that was
  tried, "with the lengths and stepovers attempted by afl-fuzz"
  (`src/afl-fuzz.c:5298-5301`); the walking flips go from the highest bit of a
  byte to the lowest and then on to the highest of the next, so neighbours
  across a byte in the one order are none in the other. Hence the exception for
  bit flips in `EveryValueTried`.
* `Dictionary` with a token like {128, 255} violates `BuiltinsRejected`: an `u16`
  is compared with an `s16`, so the negative values of `interesting_16` are
  rejected ("Reject builtin interesting values", 2250) only in the swapped order.
* `Havoc`: `SplicingWithIsTarget` fails. `add_to_queue()` sets the first shortcut
  when there are 100 entries, from entry 0 to entry 99: it is one short of the
  100 that `tid -= 100` counts. From the hundredth entry on, the number in the
  name of a spliced case is one too high.
* `OutDir` without "until another one fuzzes" in `SetUpHolds` fails: a resumed
  session writes a new `start_time`, so the results of a long session are held
  to be those of a short one once it was resumed for less than `OUTPUT_GRACE`
  minutes, and the next new session deletes them, although "To avoid data loss,
  afl-fuzz will *NOT* automatically delete this data for you"
  (`src/afl-fuzz.c:4214-4216`).
* `OutDir` without the exception for `made`: an instance that has made the
  directory and is overtaken before its `flock()` by one that uses it and ends
  gets the lock but fails at `mkdir(queue)`, since it takes the directory for empty.
* By reading, without a model: a calibration that is aborted leaves
  `perform_bbtracing` set (3041, 3058, 3115), and the runs that follow are
  traced until the next calibration completes. `ForkServer` shows that the maps
  are right for any sequence of the flag.

Around the fuzzer:

* `StringUnits`: `TailingZeroStops` fails. "It's OK for strcmp
  and strncmp as tailing '\0' will not match", but when the length exceeds the
  literal, the other string may end where the literal does, and the chain goes on
  reading behind both. It does so too after a zero inside a literal, and when
  `strncmp` compares two variables (`EndsEarly` is all of these). `strcasecmp` is
  taken for `strcmp`, and case is not ignored. Of a constant of zeros only LLVM
  3.8 gives an empty string: a `memcmp` with one is done with what lies behind
  that (`Known`). These are the exceptions in `SameEquality`. The sign of the
  result is that of the constant less the variable, whichever came first.
* `StringUnits` reaches "failed" with `s2u_convert = "ALL"`: `ASSERT ( foundDict )`
  (`src/llvm_mode/strcompare-to-unit.so.cc:320`) ends the compiler when a literal
  call has recorded no word, because no comparison or PHI uses its result
  (501-518) or because it has more than `MAX_AUTO_EXTRA` characters
  (`src/llvm_mode/utils.cc:309`). A chain of one block loses its word: it is taken
  off the result (317) and given to the first branch (378), of which there is none.
* `Edges`: the counter of an indirect jump to a block that is entered otherwise,
  too, is never reached (`Missed`), although the comment on such terminators is
  "that's fine" (`src/llvm_mode/afl-llvm-pass-no-collision.so.cc:375`):
  `setSuccessor()` (192) puts the new block on the list of possible destinations,
  and the jump goes to the address of the old one. That block's PHIs name the new
  block as the one it is entered from (200-207); what they give is not modelled.
* `Edges`: `EveryWordMapped` fails. "If there's a dictionary value recorded, we
  instrument the code even if it's not a conditional branch": a block that ends
  in a return and is entered by no numbered edge has none to map its word to.
* `Tmin`: what is left has no byte that could be left out, but it may have
  characters that could be replaced: a character that was tried before a later
  one was replaced is not tried again if the next pass deletes nothing.
* `Dislocator`: a thread that frees the block of another lowers its own
  `total_mem` below zero, and is refused all memory from then on.

## 5. The proofs

All are checked to the last leaf; each module of proofs extends its models and
takes nothing beyond the `ASSUME`s there and the hypotheses named here.
`Arithmetic_proofs` is what they share: induction as a fact about sets of numbers
(`UpTo`, `DownTo`, from the well-foundedness of `<`), the existence of a function
defined by recursion over `0 .. N` (`Recursion`), and division by a number that is
not known (`Quotient`).

| Theorem | States | For |
|---|---|---|
| `ForkServer_proofs!Discipline` | `TypeOK`, `ChannelDiscipline` | any process ids, any target, any loop length |
| `ForkServer_proofs!VerdictsAreTrue`, `MapsAreOfTheRun`, `ServerIsKept` | `VerdictIsTrue`, `MapsOfThisRun`, `ServerKeepsChild` | the same |
| `ForkServer_proofs!TargetRunImplemented` | `ImplementsTargetRun` | the same |
| `Queue_proofs!RefCounts` | `ReferencesExact` | any queue, map, costs, target |
| `Queue_proofs!PendingCount` | `PendingNotFuzzedExact` | the same |
| `Queue_proofs!CheapestWins` | `TopRatedCheapest` | the same, `~Variable` |
| `Queue_proofs!ScoreIsTheLoop` | `ScoreIsLoop` | any queue, map, costs, target |
| `Queue_proofs!FavoredCounts` | `FavoredExact` | the same |
| `Queue_proofs!FavoredSet` | `FavoredSetExact` | the same, `~Variable` |
| `Session_proofs!NothingIsLost`, `DetStagesOnce` | `SessionKept`, `DetNotRepeated` | any cases and number of sessions, under `CarefulUse` |
| `Session_proofs!CrashesOutlive` | `CrashesKept`, a part of `SessionKept` | any cases, sessions, kills and restarts |
| `Instances_proofs!NothingSkipped` | `NoneSkipped` | any instances, cases and number of sessions, `Races = {}` |
| `Instances_proofs!KeptAreNew` | `KeptIsNew` | the same, for every `Races` |
| `Calibration_proofs!MapsAreExact`, `CalibrationsAreCounted`, `VariableIsExact` | `MapsExact`, `CalibrationsCounted`, `VariableExact` | any map, traces, queue, cycles, chances and limits |
| `Session_proofs!PositionsAreRight`, `DoneIsDone` | `PositionIsRight`, `DoneMeansDone` | any queue, intervals and number of cycles |
| `FuzzOne_proofs!TrimmingKeepsTheTrace` | `TrimmedIsKnown` | any test cases and block sizes |
| `FuzzOne_proofs!HavocIsBounded`, `SplicesAreOfTwoEntries` | `HavocBounded`, `SplicesAreOfTwo` | any test cases, scores, limits, and stride of the shortcuts |
| `FuzzOne_proofs!ValuesAreTried` | `EveryValueTried` | any entries, effector maps, interesting values, `ARITH_MAX` below 128 |
| `FuzzOne_proofs!TokensAreExact` | `TokensExact` | any tokens, limits and number of sessions, any order of equals |
| `FuzzOne_proofs!TokensAreTried` | `TokenStagesExact` | any entries, dictionaries, checksums and limits |
| `Instances_proofs!CoresAreFree` | `CoreIsFree` | any number of instances, cores and starts |
| `Instances_proofs!DirectorySetUp` | `SetUpHolds` | any number of instances and starts, any finds of `Saveable` |
| `Toolchain_proofs!AllocatorSafe` | `BlocksAsAsked` | any threads and lengths, sizes of page, header and `size_t` |
| `Toolchain_proofs!MinimizedCase` | `TminKept` | any inputs, alphabet and block sizes, any target that repeats itself |
| `Toolchain_proofs!NoCollisions` | `EdgesExact` | any functions, with indirect jumps as they are (`Missed`) |
| `Toolchain_proofs!WordsDoNotMatter` | `EdgeByEdge` | any number of edges, counts and bytes of a word |
| `Toolchain_proofs!ComparesAreReplaced` | `ComparesReplaced` | any comparison of one, two, four or eight bytes, any size of a byte and any constants of these widths |
| `Toolchain_proofs!ChainsCompare` | `SameEquality` | any literals, strings, lengths and words, any width of a character; not the calls that `SameEquality` excepts (4.3) |

**Discipline.** The invariant is `TypeOK /\ ChannelDiscipline` itself: each
place of the fuzzer is tied to the places of the server and to the contents of
both pipes. It is inductive because no side writes before the other has read,
and a dead server writes nothing.

**VerdictsAreTrue, MapsAreOfTheRun, ServerIsKept.** These follow from one
invariant, `IInv`, which adds to `Discipline` what one side knows of the other.
Its parts: no child but `srv_child` exists (`Alone`); the server ends by the
stop or by a timer before the first run (`Ended`); where nothing can be running
(`Quiet`); the fuzzer's `child_pid` and timer (`FuzzerSide`) and the server's
`child_stopped`, `prev_tracing` and child (`ChildSide`) agree with the kernel;
every status on its way from `waitpid()` to `run_target()` is true (`Fate`);
what the maps hold at each step (`MapsOK`). The point where the two sides must
agree is `Excused`: a stopped child that was killed behind the server's back was
killed by a timeout, which the next control word tells of, so the server reaps
it and never resumes it. Each lemma `...Step` shows one part kept by all actions.

**TargetRunImplemented.** `StepRefines`: given `IInv`, what the server does is a
stutter of `TargetRun`; the fuzzer answers or stutters; the child executes or
ends; a signal ends the run, lets its time expire or asks to stop. After a stop
little is known of the two sides, but a status that says MSAN still comes from a
child that exited so (`Exited`).

**RefCounts, PendingCount.** The exactness of the counts is not inductive by
itself: `update_bitmap_score` must not give a slot to an entry that has lost its
trace, and a blank entry must hold no slot. `Inv` of `Queue_proofs` adds where
`queue_cur` points (`CurOK`) and that an entry the dry run has reached is known
by a non-empty trace (`ReachedOK`). `ScoreStep` is the one lemma about a score:
the slots won split by former owner, and each count changes by their number.

**CheapestWins.** A cost changes in a calibration or a trim, after slots were
given away; the proof needs that for a deterministic target the trace is the
same as before, so the entry competes again on exactly the bytes it holds.

**ScoreIsTheLoop.** `ScoreLoop` is a recursive function, so `ScoreLoopUnfolds` first
gives its values as a sequence of tables, each one `Iteration` from the last. By
induction over the map, the tables after the bytes below `i` are those of the
closed form for the slots won below `i` (`After`): a slot left changes nothing
(`SlotLeft`), a slot won takes one reference from its owner and gives one
(`SlotWon`). The trace of `q` itself may be dropped on the way and is taken again
(`MiniStepOwn`). It holds in any state where references are exact, so
`RefCounts` does the rest.

**FavoredCounts.** Only calibrated entries were fuzzed or are favored
(`ServingOK`), which needs that a slot is held by scored entries only, and that the
slots of an entry nobody fuzzed yet are bytes of its compressed trace: the sweep
then finds the winner in what it goes through. `StepKinds` sorts the
actions: an entry is scored, the queue is culled, or the scores stay.

**FavoredSet.** For a deterministic target an entry's slots, its compressed trace
and the trace it is known by agree (`OneTrace`), so a winner met by the sweep takes
its own byte off the bytes to cover and is not met again. `SweptUpTo` is the
invariant of the sweep: the bytes below `n` that have a winner are covered by the
entries chosen, and the count is their number. Between a cull and the next change
of a score nothing touches the winners (`CoveredKept`).

**Resume.** `Inv` says at each place of the program where the saved cases are:
in the queue, in `_resume`, in both in part (`WorkOK`), the same for the marks
(`DoneOK`), and that a new session finds an empty directory (`FirstOK`).
`CarefulUse` is `~Restart` and no kill during "nuke" or "trim". None of the three
can be dropped for the cases or for the marks: TLC finds `NothingLost` and
`DetNotRepeated` violated with `KilledIn = {"nuke"}`, with `KilledIn = {"trim"}`, and
with `Restart = TRUE` and `KilledIn = {"setup"}` (the run `resume_nuke` and section 4.3
have the traces of `NothingLost`). The crashes need no such care
(**CrashesOutlive**, by `CrashInv`): the only step that empties crashes/ without a
backup belongs to a new session, which has found nothing yet.

**NothingSkipped.** What an instance covers is lost when it ends and found
again by the dry run. The invariant therefore speaks of the disk: `Full(f)` is
the queue or, during a resume, `_resume`; `Counted` says that what a counter
passes is covered by what `Full(f)` holds, `Stored` that a running instance
covers what its queue holds, `Visits` the same of a visit under way. A queue
that is imported again keeps its order, hence its numbers; this needs that no
file is empty, hence `Races = {}`.

**KeptAreNew.** `Kept` holds whichever overlaps happen: `Written(f)` is the queue
with the file under way already complete, every case of it covers something
those before do not (`Fresh`), and a running instance covers all of it. A reader
that meets the file while it is empty, or a pivot cut short, only makes queues
shorter or files empty, which leaves `Fresh` alone.

**Calibration.** `StepShapes` sorts the actions by what they do to the queue:
nothing, a calibration begins, one ends, a run of one, a find; each invariant is
then shown for five shapes instead of fourteen actions. `VirginExact` needs
`TracesKnown`: a run that repeats the trace its entry is known by is not looked
up in the map, so that trace must have been taken off before. `CalibratedOnce`
needs that `cal_failed` is 0 from a completed calibration on. `Varied` ties the marks
to what the runs showed: a calibration under way that has seen a difference owes
its entry the mark and pays it on every way out. `Room` and `Limits` bound the
counters.

**FuzzLoop.** `LoopInv` carries that `seek_to` stays below `queued_paths`, so the
first cycle starts at an entry, and ties `current_entry` to `queue_cur` at every
place. `VisitsInv` counts: each cycle without finds has met every entry once
more, except that the one under way has not met those ahead (`Seen`); the first
cycle, which may start anywhere, does not count, since `prev_queued` is then 0.
A find sets all counts back, which `AddKeepsVisits` shows.

**Trim.** The buffer beyond `q_len` is whatever it was; what is to be shown is
about its head, `Current`. `TrimInv` says that `Current` was run with the checksum
of the entry, that a gap is never at the first byte (so something is always
left), and what is on disk at each step. `GapShape` and `MovedIsWithGap` show
that the `memmove()` gives what was run.

**Havoc.** `Inv` has four parts: the lengths and the room at each step, the
energy, the origin of the buffer, the shortcuts. The energy is the product:
`stage_max * orig_perf = StageMax(orig_perf) * perf_score` through every
doubling. `ShortcutsLead` shows, from where `q_prev100` stands after each
addition, that every number of an entry is reached within the list (`Successor`
says when the quotient goes up). `SplicedShape` shows that a splice made of indexed
bytes is the head of the one and the tail of the other.

**ValuesAreTried.** `StagesInv` says at each stage which widths are settled: every
sum (`SumsSettled`) or every interesting value (`ValuesSettled`) of that width, at
each offset, was run or needs no run (`Settled`). What a stage refuses differs from the
entry in a part of a width that an earlier stage settled, so the proof is about parts.
`PartSettles`: a value that is the entry's with a part written over it is settled
if the part is, at the part's offset, because the two give the same input
(`PutPart`) and the bits that differ are the same, shifted by whole bytes
(`XorPart`, `BitflipShifted`). `PlusPart` and `PlusBEPart`: a sum that does not carry
out of the half where the addition begins is such a value; the carries are unfolded
byte by byte (`PlusUnfolds`), and for two bytes `NoCarryOfTwo` shows the second
carry to be zero. `OnePart`: two values that differ in one part alone, as
`could_be_arith()` finds them, are such a pair. `could_be_interest()` may also refuse a
swapped value because it is itself an interesting one, which the
same stage wrote before (`InterestRefusalSettles`). That `ARITH_MAX` is below 128 is not
used beyond its being a number.

**TokensAreExact.** `DictInv` says of the list of found tokens that no two are
equal but for case and that those in use come first and by length, of the
user's that they are sorted, and of the disk what it holds at each step of
`save_auto()` (`OnDisk`: the tokens it has passed; nothing may be changed behind its
back, because a token found sets `auto_changed` again). A sorted list is the list in
another order: `OrderReachesAll`, that a map of `1 .. n` into itself which takes no
value twice takes all, is why no token is lost by `qsort()`. `CandidateList` is the
list before it is sorted: one token more, or one of the bottom half replaced, never
one in use. For `InExtras` the proof needs that the user's tokens are sorted, since
the search stops at the first longer one.

**TokensAreTried.** `UnderWay` ties `a_collect` and `a_len` to the run of checksums that
is not over yet; a byte either goes on with it or ends it, and `OfferedUpTo` says
that those which ended before the byte at hand were offered and nothing else,
except for runs of one byte: of them the code offers only some.
`OneRunEndsThere` (two runs cannot end at one byte) is what makes the
token offered the run. While tokens are written over, `Overwriting` says that the
buffer differs from the entry only in the `last_len` bytes from `i`, and that no
token still to come is shorter (both dictionaries are sorted by length: `TokensGrow`),
so the next one covers what the last one left (`OverSame`); a token that is skipped
because the input has it there would give an input that ran already, or the entry
(`OverItself`). While tokens are inserted, the head of the buffer is the entry's
whatever the insertions at earlier offsets have left behind it (`Inserting`). Tokens
found while an entry is fuzzed may reorder the list of the session, but only the
collection finds any: every other stage leaves the dictionaries as they are.

**CoresAreFree.** What is flagged (`cpu_used`) must be compared with what was
bound while the instance looked. `ScanOK` says that a process that was bound all
the time and has been read is flagged, that one still to be read is in `unread`,
and that nothing is flagged that no process was bound to meanwhile; when `unread`
is empty, the first core that is not flagged is as claimed. `Unbound` says
that a scan begins with nothing flagged and that an instance which starts is
bound to nothing, so nothing is bound during a scan without `sometime` showing it.

**DirectorySetUp.** A set-up may begin over whatever the instances before have left,
so the argument is about the calls. `Blocks(c)` are the names that must be
gone for a call not to fail, `Removes(c)` those that are gone after it, `Adds(c)` those
it may add; the directory never holds anything but `OutNames` (`OutAssumption`
says that a session saves only under the names that `save_if_interesting()`
forms). `Leads(s, A, B)` says of a sequence of calls, made where at most `A` is, that none
fails and at most `B` is left: what blocks a call is removed by one before
it, after the last that may have added it. `LeadsJoin` composes two sequences, and
`OldRemoved`, `NewCreated` and `InputsImported` show the three parts of a set-up, for a
new session and a resumed one. `DirInv` says of an instance that has
found its directory that what is there and the calls left satisfy `Leads`; one that
has just made it can only be spoiled by another that set it up meanwhile. For
the third part, `LongIsSeen` says that `fuzzer_stats` tells of a long session, or is
torn, from its end until another one fuzzes, so that a new session, which would
delete its results, gives up; the calls of an instance that made the directory
delete nothing (`Harmless`). `LockInv`, that one instance at a
time holds the lock, does not depend on any of this and is shown first.

**AllocatorSafe.** `total_mem` of a thread that frees what others took is below zero
and wraps around. `Balance` reads it as a signed number, and `Accounted` says that
the balances of all threads add up to the bytes of the live blocks. Since no
balance exceeds `MaxMem` and the sum is not negative, none is below
`MaxMem - MaxMem * ThreadCount` (`BalanceAtLeast`), which is why the two readings
cannot be confused: `DislocatorAssumption` asks that the limits of all threads
together fit a `size_t` (`max_mem` is a `u32`, a `size_t` has 64 bits). `Granted`
shows that the check for a wrapped sum refuses every thread below zero, `NoOverflow`
that the division in `calloc()` finds every product that wrapped, `BlockPlaced` that
the pages suffice. The theorem is about sums over a sequence, so `TotalUnfolds`
and the lemmas behind it come first.

**MinimizedCase.** `CaseBehaves` ties the case kept to the outcome of its last run.
`BytesTried` is what makes the last pass count: in a pass over single bytes that
has changed nothing, each byte up to the current place was left out and rejected
for the case as it is now, those skipped as no-ops included, because leaving out
either of two equal neighbours gives the same case. `BlockFits` says that a block is never empty and
that one which had to stay has one before it. `TminAssumption` bounds the size of
the input, as `read_initial_file()` does.

**NoCollisions.** `GraphShape` describes the graph while edges are split: each edge
leads where it did, or by a new block that nothing else enters. `CountersFit` says
that an edge the pass has been at is counted in the block it leads to now, which is
the old one exactly if the edge is the only one of the source that enters it
(`Sole`): splitting other edges must not make a block look as if it had one
predecessor. Of an indirect jump, which goes to the old block, exactly the `Sole`
edges are counted. `WordsFit` follows the words.

**WordsDoNotMatter.** `MapsInv` says byte by byte what the maps hold, padding
included: trace bytes behind the last edge are empty, and the virgin map is full
there. A word that is passed over is a word of such bytes. For crashes the padding is not
empty (`simplify_trace()` marks it as not hit) and may be found once, with the
first crash, whose edges are new as well.

**ChainsCompare.** `AgreeBefore` says that the blocks passed compared equal
characters of both arguments; unless they end early none of these is the end of a
string (`NoEndBefore`), so both arguments reach to the block at hand
(`BlockIsInside`), and what decides the call decides the chain.

**ComparesAreReplaced.** The passes rewrite one node at a time, so the proof is about
one rewriting. A program is `Ranked`: each branch leads to nodes of a lower rank, so
what a program does is the same for every pair of a set of nodes that say yes and a
function to the comparisons executed that satisfies the equations of a run
(`IsRunOf`, `RunsAgree`); `OutcomeIs` shows that the recursive function in `Outcome`
is one of them. `PatchRuns` is the heart: if what is put in place of comparison `n`
(`IsPatch`: a branch that leads to new nodes only) says what `n` said, the program
has a run that says what it said before, and executes all it executed but `n`.
`SimplifiedSays`, `UnsignedSays` and `HalvedSays` show this of the three
replacements, from lemmas about numbers in two halves. The word is followed by
`OneWord`: there is one comparison it is for (`ForWord`), first the equality, or the loose
comparison that will become one, then the one it is recorded at; what takes the place of
that one has one again, which is its test or is met when the operands are
equal (`Fits`). `Pending` says what the phases have left to do: a comparison with a phase
(`HasPhase`) is due in a later one, or in this one and on the list, or dealt with;
what a phase makes is due later than that phase, which is why the order of the six phases matters.

Only model-checked: liveness (`RunReturns`, `EveryCaseArrives`,
`EveryEntryFuzzed`, `DoneInTheEnd`, `EntryEnds`, `TminEnds`), which is out of the
provers' reach.

## 6. What is not modelled

The components of section 1 without a module are listed in `PROJECT.json` with
the reason:

* of session set-up, the command line and the checks of the environment:
  sequential, and ending in an abort or in values nothing changes later;
* statistics and user interface: output, except for the exit condition and
  `fuzzer_stats`, which are modelled;
* the compiler wrappers, the rewriter and the drivers: text in, text out;
* `afl-analyze`, `afl-showmap`, `afl-gotcpu`, `libtokencap`: one run and a report;
* the passes other than the three of 3.12, which depend on LLVM's data
  structures: the classic instrumentation draws random numbers, the alias
  analysis and `dsa/` belong to LLVM;
* vendored code and data, by far the largest part of the repository's lines.

Within the modelled parts these are left out: the contents that havoc draws at
random, time itself (a timer may go off whenever it is armed), errors of system
calls that end in `PFATAL` (the process is then gone, which `Ends` and `Stops`
cover), dumb mode, `no_forkserver` and coverage builds (`coverage_bb`, which keep
a run whatever its verdict), output to the terminal, the syntax of dictionary
files, and file names beyond their number.
