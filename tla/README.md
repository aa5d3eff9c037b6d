# Winlator assets builder: specifications and proofs

The repository builds the native parts of a Windows-on-Android stack for Adreno 8xx
GPUs: it clones Mesa, DXVK, FEXCore, Wine, Box64 and Winlator, applies its own patches,
cross-compiles and packages them, and it holds the research tools (PM4 decoder, trace
parser, call graph) and the Vulkan benchmark the patches were developed with. Its own
logic is in three places: the patches, the Go and Python tools, and the build scripts.
This directory models the parts whose correctness depends on order, on stale state or on
boundaries, checks them with TLC and proves what matters most with TLAPS.

## 1. Inventory

| | Component | State | Operations | Interacts with | Hard because |
|-|-|-|-|-|-|
| A | KGSL timestamp wait, `mesa/patches/0001`, `tests/mesa/` | per thread: deadline, `wait.timestamp`, `wait.timeout`; shared: `device->submit_mutex` | `wait_timestamp_safe`, called by `kgsl_queue_wait_fence`, `kgsl_syncobj_wait`, `kgsl_syncobj_wait_any` | kernel driver, GPU, other waiters, the submitter | threads, a lock held across a blocking call, retries against a deadline, truncation and clamping of time |
| B | Shadow register cache, `mesa/patches/0003` | `keys`, `values`, `mask`, `enabled` of a `tu_cs` | `tu_cs_init`, `tu_cs_reset`, `tu_cs_finish`, `tu_cs_emit_write_reg` | other emitters of register writes | stale entries, collisions, duplicates, a full window, the sentinel |
| C | Push constant cache, `dxvk/patches/0001` | `m_pcCache`, `m_pcCacheValid` | `updatePushConstants` | application writes, pipelines' layouts, command lists | overlapping ranges under one high-water mark, lifetime longer than the command list |
| D | Pattern cache and TSO strip, `fexcore/patches/0001` | template table, warmup counter | `Lookup`, `Insert`, `TickWarmup`, `PatchTemplateRegisters` in `CompileCode` | IR of the guest program | incomplete key, in-place patching, memory ordering |
| E | PM4 decoder, `research/internal/pm4` | packets, statistics of an entry and of a submission | `Pkt4Header`, `Pkt7Header`, `Decode`, `DecodeEntry`, `Merge`, `Summary`, `String` | command streams of the GPU, the tables of F | truncated packets, payload that looks like headers, parity, an empty payload indexed |
| F | Register table generator, `research/pm4/cmd/reg-gen` | six tables | XML to Go | generates `regmap.go` | offsets and names shared, nested registers, strides, an unstable sort |
| G | Source index and call graph, `research/cmd`, `research/internal/graph` | index maps | index, DOT output | Mesa sources | namesakes, sites matched to functions, a map changed while it is ranged over, limits |
| H | Trace analysis, `research/analysis-py` | counters of a trace | parse, diff | logs of the probes | dead rules, double counting |
| I | Build pipelines, `build-all.sh`, `*/build.sh` | the work directory, the package directory in it, the package | clone, patch, configure, build, copy, archive | git, compilers, `packages.yml` | re-runs after failures, stale outputs, patches half applied, commands whose status is lost |
| J | Proton packages, `winlator/patches` | download and install directories | download, install, delete, isInstalled | network, file system | failures half way |
| K | Benchmark, `benchmark/main.c` | Vulkan objects, timings | init, render, report | driver | - |
| L | Other patches, probes, wrappers | - | - | Mesa, logcat | surrounding code not here |

What makes each correct:

- **A** No two waits of one context overlap in the kernel; SUCCESS and TIMEOUT are true;
  a deadline is neither cut short nor overrun for ever; the lock is always released;
  waiters and the submitter make progress.
- **B** A skipped write is one the GPU would not have noticed, through updates,
  collisions, resets and finishes.
- **C** A skipped emission is one the command buffer already has.
- **D** A replayed template is the code the emitter would have produced.
- **E** What was built is what is decoded, and the counters agree with the packets.
- **F** Every register described is in every table it belongs to, and nothing else is but
  for a stated reason.
- **G** The index says of each site the function it is in; the diagrams have what leads to
  a site, in whatever order the loops run.
- **H** The output is a function of the input.
- **I, J** What is packaged or reported installed is what the current sources, patches
  and downloads give, whatever failed before; where it is not, there is a reason the
  module names.

`PROJECT.json` lists the hazards of all of them, each at its line, with the properties
that watch it.

## 2. Plan

In the order of importance, all of it done:

1. `KgslWait` (A): the concurrency of the project, with its liveness.
2. `RegCache` (B) with the abstract `RegisterFile` it implements.
3. `PushConstCache` (C).
4. `Pm4Header`, `Pm4Opcodes`, `Pm4Decoder` (E), and the tables it reads, `RegMap` and
   `RegNames` (F).
5. `PatternCache` (D, without the TSO strip).
6. `BuildScript`, `TermuxDeps`, `BuildAll` (I): the work directory as persistent state,
   one action per step of a script, runs that fail or are killed at any of them.
7. `ProtonDownload` (J): downloads over what earlier ones left.
8. `RegGen` (F), `CodeIndex` and `CallGraph` (G), against reference definitions.
9. `Builds` and `Research`, which compose what 6 to 8 model.
10. Proofs of the safety of all of them.

What could still be added: the TSO strip as a litmus test (section 6), and an abstract
fence that `KgslWait` implements.

## 3. Modules

### KgslWait (A)

`pc[t]` is where a thread stands in `wait_timestamp_safe`: `idle`, before
`pthread_mutex_lock` (`lock`), blocked in the ioctl with the mutex held (`ioctl`), or
looking at `errno` (`check`). Steps are cut where other threads can intervene:

| Action | Code |
|-|-|
| `QueueWaitFence`, `SyncobjWait`, `SyncobjWaitAny`, ending in `Begin` or `Immediately` | the three callers and the initialisation of `wait` |
| `LockAndWait` | lock, enter the ioctl |
| `WakeAndUnlock` | the ioctl returns, unlock |
| `CheckRetry`, `CheckExpired`, `CheckDone` | the three outcomes of the loop body |
| `Submit` | a queue submission, under the same mutex (external) |
| `Retire`, `Break`, `Tick` | the GPU, the kernel's context, the clock (external) |

The kernel is modelled by its answers (`KernelAnswers`): the error of a broken context,
EDEADLK when another thread is inside the same ioctl (the reason for the patch), success
for a retired timestamp, ETIMEDOUT when its own timer has run out, EINTR for a signal.
That it looks at the timestamp before it sleeps is the documented behaviour of
WAITTIMESTAMP and an assumption of the model. `left[t]` is the argument of
`get_relative_ms`, counted in fractions of a millisecond, so that its truncation matters;
`FenceDeadline` is the wrap of `os_time_get_nano() + timeout_ns`. `EAGAIN` is handled as
`EINTR` and merged with it. The sync_fd branches of the callers are not in the patch.

### RegCache and RegisterFile (B)

`keys` and `values` are the arrays, `enabled` their availability, `gpu` (ghost) the
registers as the commands emitted so far leave them. `WriteReg` is
`tu_cs_emit_write_reg`, split into the skip, the store (update in place, insertion, or
both: the code inserts a duplicate after an update when a slot of the window is free)
and the write with the cache off. `EmitDirect` is any other emitter of PKT4 (external).
`tu_cs_reset` zeroes `mask` entries, which is all slots but the last, and the model does
the same.

`RegisterFile` is what callers expect: a write of a register sets it. `RegCache`
implements it (`KeepsPromise`) for the *safe* registers: those written only through the
cache, whose probe window does not include the last slot. For the others it does not:
`regcache_reset` shows the surviving slot, and `Direct` names the assumption about other
emitters, which the repository cannot settle because they are in Mesa.

### PushConstCache (C)

`Update(l)` is the patched function for a pipeline layout `l`: `Skip`, `PushDirect` or
`PushGather`, each with the emission and the cache update of its branch. `gpu` (ghost) is
what the command buffer being recorded has been sent; `NextCommandList` (external) starts
a new one, with undefined push constants, and the cache stays, because nothing in the
patch resets it.

### Pm4Header and Pm4Decoder (E)

Headers are natural numbers with the fields, masks and parity bits of the code, as sums
and quotients: the fields of a header do not overlap, so its disjunctions are sums, and
the three folds of `CalcParity` make each bit of the nibble the exclusive or of that bit
of the eight nibbles (`FoldedBit`). `Pkt4Header` and `Pkt7Header` do not mask the count,
and `Piece` has the packets whose counts a header has room for.
`Pm4Decoder` runs the loop of `Decode`, one iteration per action, over streams built with
`Pkt4Header` and `Pkt7Header` from a program of packets, with stray words between them,
and cut off at any word. `NextEntry` and `Merge` are `DecodeEntry` and `Merge` for
a submission of several entries; the repository has both functions but no caller of
`Merge` and `String`, so that they are called as their signatures suggest is an
assumption. `Summary` is the second computation of the statistics, from the packets, and
`StringPanics` says when `String` indexes an empty payload. `Pm4Opcodes` is
`opcodes.go`.

### RegMap and RegNames (F)

The two tables of the generated `regmap.go` that the decoder reads, `IsA8XXRegister` and
the keys of `RegNameByOffset`, offset by offset as intervals, in definitions that follow
the blocks of the one and the order of the other. Names and comments are left out: a
register has a name or it has none. `SummaryAgrees` needs every gen8 offset to have one.

### RegXml and RegGen (F)

`RegXml` builds the elements of Mesa's files; `RegGen` reads them, one per action, in the
three parsing functions with their nesting flags, and writes one table per action.
`sort.Slice` is not stable, so which of several names of an offset comes first is a
choice. `TablesAreTrue` compares the tables with what the files describe (`Described`) and
with what the parser makes of nested registers and of strides (`Misread`): offsets inside
a nested register are relative to it, and `regmap.go:14` to `18` are such. In the generated
file 770 names of `RegNameByOffset` stand at another offset in `RegOffsetByName`, as the
last part of `RegistersAreTrue` allows. The files are what an XML decoder reads of them:
enums begin before they end and, as Mesa's schema has it, contain no other
(`RegGenAssumption`). `writeStatetypeIDs` writes nothing at all for an
empty enum, which the model has as an empty table. Numbers are numbers in the model. The
code gets them from text: `parseHex` (`reg-gen/main.go:251-259`) takes every text for
hexadecimal, with `0x` or without, and gives 0 for what is none, and the errors of `Atoi`
are dropped (lines 125 and 232). For Mesa's files, which write offsets and opcodes in
hexadecimal and state types in decimal, that is their value; a decimal offset would be
read as another number, which no property here would show.

### CodeIndex and CallGraph (G)

`CodeIndex` is `buildIndex`: tags in any order (`AddFunction`, where a namesake replaces),
an unstable sort (`SortFunctions`), sites (`AddSite`, which notes a site for whatever
function has the name of the enclosing one), and the removal of equal IDs. `NodesAreSites`
and `MarksAreItsOwn` compare the result with the text of the files (`Holders`).
`CallGraph` composes with it: `LoadIndex` takes the index and a set of call edges. The
index builder never writes edges, so `{}` is among them; the others are what
`research/docs/mapper.md:43-57` describes of an index. `AddCallers` is the loop that
inserts into the map it ranges over, where Go leaves open whether a new key is visited.

### Builds and Research

`Builds` is `BuildScript`, `TermuxDeps` and `ProtonDownload` side by side, `Research` is
`CallGraph` and `RegGen`: parts that share no file and no variable, one of which, chosen
in the initial state, runs in a behaviour. The composition checks them in one run; that no
part disturbs another is proved (`BuildsTypeCorrect`, `ResearchImplementsBoth`).

### BuildScript and BuildAll (I)

`mesa/build.sh` and `fexcore/build.sh` have one shape, so one module has both, with an
action per step where they differ (`MesaApply`, `FexApply`, ...). A run is strict when
`#!/bin/bash -e` counts (`make mesa`) and not when the script is given to `bash`, as
`build-all.sh` does. Each step may succeed, fail, or be killed (`Kill`, with what may be
left of each step); between runs, a patch may be added and the work directory removed.
`git am`, `cmake` and `ninja` are external, modelled by what the scripts see of them.

From the build directory an output goes to the package directory (`staged`) and from there
into the package file (`archive`), and neither is cleared between runs. Each command on the
way may fail and leave its target as it was, or cut short: `patchelf` (`MesaSoname`), `cp`
(`MesaCopy`, `FexCopy`), `zip` and `tar | xz` (`MesaArchive`, `FexArchive`). Three of these
failures a run may pass over: `patchelf` and `cp` of mesa when it is not strict, and `cp` of
fexcore always, because `find -exec ... \;` does not pass its status on
(`fexcore/build.sh:154`), so that a strict run with a build that succeeded may package an
older DLL, a torn one, or none. `spoiled` holds the outputs at which one of them failed in
the last run, and `Unnoticed(o)` says that nothing in the run reported it; the properties
claim nothing of these outputs and everything of the others. `zip` adds to the archive that
is there, so a driver that is not staged stays in it from before (`Archived`); an archive
that is there without some file has `Without` in its place. One package file is modelled:
its name has the version, and a run that finds the package of an earlier one is the harder
case.

`fresh`, `wrote`, `builtFrom` and `spoiled` are ghosts. `BuildAll` is the loop of `build-all.sh`; it
starts every script without arguments, which `wine/build.sh` answers with its usage and
status 0.

### TermuxDeps (I)

`setup_deps()` of `wine/build.sh`: index, downloads, extraction, stamp. A file of the cache
is whole, bad (an error page, or cut off) or not there, and all that the script asks is
whether it is there. That a run over a finished root directory keeps what it has is
the stamp's doing.

### ProtonDownload (J)

`downloadPackage`, a part at a time, with a release that may change between two parts,
transfers that end early without an error, exceptions, and the death of the app. The
branch for a `directUrl` (lines 84-85) is left out: every package of the table has null
there, so it is never taken.

### PatternCache (D)

One turn of the op loop of `CompileCode` per action: `EmitAndCapture` while the warmup
lasts, then `Copy` on a hit and `Miss` otherwise. The emitters (`DEF_OP`) are FEX's own:
an op of the model comes with the code its emitter gives, and the model says what the
cache puts out instead. An instruction is the four five-bit fields `kShifts` names and
the rest of its bits; a field may hold a register, as the hooks number it, or bits of an
immediate, and patching does not know which. `HookRegs` is the code's reading of an op:
`GetRAArgs` registers, the destination first, so the last argument is not among them.
`seen` and `out` are ghosts: the last op captured of each kind, and the code put out.

`CodeIsEmission` says what the patch gives: code is the emitter's own, or a copy for an
op of the same kind that is right when the two ops differ only by a renaming of the
registers the hooks read, with no register written by one turn of the patching loop and
read as the old one by a later turn (`Renames`). Ops outside that condition are in the
run too, and get other code than their emitter's: constants with another immediate
(hash at patch line 40), additions with another last argument (line 83), and swapped
registers (line 48). What FEX's IR holds of those is not in the repository, so they are
hazards and not findings.

### MC modules and proof modules

The modules named `MC...` give the constants their values. The modules named `...Proofs`
hold the theorems: `KgslWaitProofs`, `RegCacheProofs`, `PushConstCacheProofs`,
`PatternCacheProofs`, `Pm4Proofs`, `BuildsProofs` and `ResearchProofs`. `Induction` has
what they share: induction over the numbers in terms of sets, and from it that a
recursive function exists and has the values its equations say. Operators
commented *Mutant* are deliberate errors, used to see that a property notices them.

## 4. Runs

| Run | Result | Shows |
|-|-|-|
| `kgsl_wait` | pass | safety of A |
| `kgsl_live` | pass | liveness of A |
| `kgsl_poll` | violated: `ExpiredWaitIsImmediate` | an expired wait queues behind a sleeping one; `test_kgsl_sync.c:213` calls it immediate |
| `regcache` | pass | B is coherent and implements `RegisterFile`, for safe registers |
| `regcache_reset` | violated: `ResetInvalidates` | a reset leaves the last slot; the comment at patch 0003:28 says any reset flushes |
| `pushconst` | pass | C's cache is what was sent; direct layouts see current data; nothing is sent twice |
| `pushconst_skip` | violated: `SkippedIsIdentical` | data below the mark that was never sent is skipped; patch lines 9-10 say identical to the last emission |
| `pm4` | pass | E decodes what was built, its counters agree with the packets, the merged totals with the submission, and printing panics for a torn last packet only |
| `patterncache` | pass | D's table holds the last template of each kind; a copy is right for ops that differ by a renaming |
| `builds` | pass | I: a fresh run packages all patches; a strict run of fexcore stops at a patch that fails; a build that succeeds leaves nothing of earlier ones in the package; a patch that is missing, or a hole in the dependencies, has one of the causes named; all but for outputs at which a command failed that the script does not report. J: true is one whole release, unless it moved or a transfer ended early |
| `build_all` | violated: `SuccessMeansBuilt` | "All packages built successfully" (`build-all.sh:53`) without wine, whose script only printed its usage |
| `research` | pass | F's tables are the files'; G's index is the sources'; its focused graph has the functions with sites and their direct callers, and nothing that leads to no site |

The property skipped in `pushconst_skip` fails in two more ways that the shortest trace
does not show: the first draws of a new command list, and a layout that gathers
constants, because the comparison is with the raw resource data.

**Bounds.** *A*: two waiters (a third adds no new pair: every hazard is between one
holder and one other thread), two timestamps (needed for lowest and other), three calls
in the safety run so that a thread can come back while the other still waits, one
signal, two units per millisecond so that a remainder below a millisecond exists, INT_MAX
as 2 ms so that the clamp and the truncation both happen, and `Forever` above it. The
liveness run has one unit per millisecond, two calls and finite timeouts plus the wrap.
Symmetry is used in the safety runs only. *B*: a table of 8 slots with windows of 3
instead of 512 and 8, registers chosen to collide, to wrap around and to reach the last
slot, two values. *C*: three dwords, two values, two overlapping direct layouts, one
that gathers, one empty. *E*: submissions of one entry with at most two pieces, or of two
with one each; payload words that are themselves valid headers; a register without a name,
one with a name, and a gen8 one that a packet may run into; the tables of F are the real
ones. *F*: files of up to three elements that share offsets and names, with and without
gen8, strides and nesting; enums with a repeated value, cut off at several places. *G*:
four functions in two files of one base name, two of them namesakes and two on one line,
four sites around them; no calls, a cycle, or a chain through a name the index lacks;
limits of two, so that both are reached. *I*: four patches, of which two apply, one is a
bare diff and one conflicts, so that each kind may come before and after another; two
DLLs (one may fail to be copied and the other not; nothing tells them apart, so they are
a symmetry set); two packages. The number of runs is unbounded. *J*: three parts, two releases (a
third adds nothing: a part is of the release the download began with, or it is not).
*D*: a table of two for four kinds of op, so that it fills and
drops some; warmups of 0, 1 and 3 ops, so that a kind is captured twice, or replaced when
the table is full; code of at most two instructions, with one op that emits none or
three; one op after the warmup, which sees every table a warmup can leave and changes
none of it. Registers 1 and 2 rename, swap and alias, 0 is also an empty field.
`CHECK_DEADLOCK FALSE` is said for A, where the bounds on calls and timestamps let
everything come to rest (`WaitReturns` says that no wait is stuck then), for D, where
the bound on ops does, and for `build_all`, which ends with its verdict.

**Fairness (A).** Weak fairness of each thread's own steps, of the clock, of submission
and of the GPU. The mutex is only weakly fair: a pthread mutex promises no more, so a
waiter is only sure of it if it stays free; the properties hold because the number of
calls is bounded, and would need a fair mutex for a thread that returns for ever. No
fairness of calls, signals or breakage. A permanent EDEADLK with no deadline retries for
ever; the liveness properties exclude exactly that state (`Spinning`).

## 5. Proofs

Every safety property a passing run checks, the action properties and the refinement among
them, is proved for every value of the constants. `PROJECT.json` lists the theorems with
the properties they state.

**Assumptions.** TLC evaluates each of them on the constants of the runs.

| Assumption | Says | Because |
|-|-|-|
| `ConstAssumption`, `RegCacheAssumption`, `PushConstAssumption`, `PatternAssumption` | types and limits of the constants; for B, windows within the table; for C, layouts within the data; for D, that ops of one opcode have registers at the same arguments | the declarations of the patches; `GetRAArgs` is a function of the opcode |
| `DecoderAssumption` | entries are sequences of pieces with fields of the width the header has, and loose words are no headers; a submission has an entry | `uint16_t` and masks in `opcodes.go:98-108`; a count too large for its field is a misuse no caller can repair, and a loose word that is a header *is* a packet |
| `ScriptAssumption` | which patches are mails and which fit, for any set of patches | `git am` |
| `DownloadAssumption` | a number of parts, a release at least | `ProtonPackageManager` |
| `IndexAssumption` | types of tags and sites; no function has the name `<base>_unknown` that stands for code outside any function of a file | it begins with the name of the file, whose dot no identifier of C holds |
| `GraphAssumption` | finite sets of pairs, and limits | the index is a JSON file |
| `RegGenAssumption` | enums begin before they end and do not nest; only arrays have a length or a stride | an XML decoder reports errors otherwise; Mesa's schema |

**Arguments.**

- **A.** `TypeCorrect`; `MutualExclusion`, by induction, from the mutex discipline of
  `LockAndWait` and `WakeAndUnlock`; `DetectorNotTripped` from it, since EDEADLK of a
  sound context needs a second thread in the ioctl. `SuccessMeansRetired` and
  `TimeoutOnlyWhilePending` need `WaitsForLowest`: in every state the timestamp in the
  kernel's hands is the lowest of those asked for, and `errno = OK` means it has retired.
  `DeadlinesKept` is inductive with `ForeverClamped` (a timeout that never shrinks is
  clamped, or it would fall behind the countdown), and `NoEarlyTimeout` follows from it.
- **B.** `CacheCoherent`: `Coherent` is inductive with the type invariant. The store is
  the hard case: after an update in place a duplicate may be inserted, in front of the
  old entry or behind it, and the lookup must find the value just stored
  (`StoredIsFound`) while every other register keeps its entry (`OthersKeepTheirs`).
  `ImplementsRegisterFile`: every step of the cache is a step or a stutter of
  `RegisterFile`; the skip is a write of the value already there, by coherence.
- **C.** `CacheHasWhatWasSent` is inductive; `DirectDrawsAreCurrent` and
  `NothingSentTwice` follow from it with the layout facts of `LayoutFits`.
- **D.** `PatternTypeCorrect` and `TableRemembers`, both inductive, through the three
  outcomes of an insertion (`InsertCases`). That hashes are unique is part of the
  invariant and carries it: a template that is replaced must be the only one of its kind.
  `CopiesAreEmissions` rests on `PatchingRenames`: after each turn of the patching loop
  (`PatchSteps`), every field holds what the renaming gives for the registers replaced so
  far and the old register otherwise; `Renames` is what keeps a field from being replaced
  twice.
- **E.** The decoder is at any round where a piece of the stream begins, or in loose words,
  never inside a packet (`InStep`, inductive with `Types`). Every turn of the loop then
  takes one packet of the stream whole or skips one loose word (`Steps`, `Takes`, `Skips`),
  because the fields read out of a header are those it was built from, parities included,
  and a header of one type is none of the other. All else is in terms of `Takes` and
  `Skips`. `DecodingIsExact` adds, packet by packet, that those found are those passed.
  `OnlyTornPanics` needs that only the last packet lacks payload (`Torn`).
  `SummaryIsRight` needs `Counted` (each counter is a sum over the packets, the sum
  `Summary` makes again), `Named`, and two facts about the tables: no indirect buffer is a
  barrier or a draw, and all gen8 offsets have a name (`Gen8HaveNames`, by the intervals of
  `RegMap` and `RegNames`). `TotalsAreExact` follows the counters through the merges: those
  of an entry are worth the pieces passed (`EntryCounts`), those of the submission the
  pieces of the entries merged (`TotalCounts`). "Worth" is the size of a set with one
  member for each dword or packet counted (`Tally`), so that sums become unions of disjoint
  sets (`WorthAdds`).
- **F.** `RegGenInv`: after `k` elements the definitions read are those of the first `k`,
  the nesting flags say whether an enum is open there (`InsideStep`, `OpenStep`), and each
  table written is the one its function makes of them. `GeneratedTablesAreTrue` then
  compares the reading with the files (`ReadIsDescribed`).
- **G.** `IndexInv` says of the tags read and the sites noted so far what the index says of
  all of them. The hard parts are that the last function that begins before a site is the
  one that holds it (`EnclosingHolds`), that removing equal IDs keeps one node of each
  (`DedupedKeepsOne`), and the marks: they go by name, so they are only true of names that
  belong to one function (`MarksMade`). `GraphInv` bounds the functions visited between the
  sites' callers and all that lead to a site, while the loop inserts into the map it ranges
  over (`FunctionsBetween`). `GraphImplementsIndex`: drawing is a stutter of the index.
- **I.** `ScriptTypeCorrect`, `FreshRunsAreComplete`, `MissingPatchesExplained`,
  `StrictRunsHaveAll` and `GreenPackagesAreTheTree`, from one inductive invariant whose
  parts follow a patch through a run: what was tried is applied or has a reason (`Tried`),
  what was built has the patches of its run or a reason, and what was staged is what was
  built unless the output is in `spoiled`, which in a strict run of mesa stays empty
  (`DriverSound`, `DllsSound`). A
  fresh run keeps `applied = patches \ todo` (`FreshRun`). The least obvious part is
  `StrictRun`: a run that does not begin fresh has a patch ahead of it that is already in
  the tree, or an open session, and will stop there; so a strict run that ends well was
  fresh. One lemma per action. `DepsTypeCorrect` and `DepsHolesExplained` need
  `Progress`: a package the loop has passed is in the root directory or has a cause, and
  no run is under way once there is a stamp.
- **J.** `DownloadIsSound`: until a release comes out or a transfer ends early, the archive
  is the parts so far of the release the server has (`Prefix`, with `AppendPiece` for one
  part more).

**Recursion.** What a recursive function computes is shown with `Induction`: the installed
provers take no induction theorem with an operator as its parameter, but
`NatSetInduction`, about a set of numbers, serves the same end. A recursive function is a
choice among the functions that satisfy its equations: `IterationExists` shows that there
is one, `IterationUnique` that there is one only. This is how the patching loop of D, the
sums of E, the first names of F and `Deduped` and `Leads` of G are reasoned about; that a
set of numbers has a least member, which A and B need, is the other use of `Induction`.

**Only model-checked.** Liveness (`WaitReturns`, `SignalledIsSeen`, `SubmitGetsThrough`):
no prover installed does fairness or ENABLED. The absence of deadlock, likewise. The
violations, which are TLC's traces. That `CalcParity` as it is written here is the code's
three folds is a reading of the code; that it is the parity of 32 bits is not used, as
builder and decoder apply the same function.

## 6. Not modelled

- The TSO strip of D (`fexcore/patches/0001`, from line 286): it needs a memory model of
  the guest and of the host, and the instructions FEXCore emits without the patch, which
  the repository does not hold.
- H, the two Python scripts: text in, text out, no state that outlives a run.
- I: the scripts of Box64, DXVK and Winlator, which apply no local patches to a clone that
  is kept, and `wine/build.sh` after `setup_deps`, a sequence of configure and make calls.
- J: `installPackage`, `deletePackage` and the extraction: Winlator classes that are not in
  the repository decide what they do and leave behind.
- K, the benchmark: Vulkan calls from one thread.
- L: patches 0002, 0004 and 0005 of Mesa change single conditions of functions whose code is
  not in the repository, the probes are straight-line Vulkan programs, and the shell
  wrappers are pure I/O.
- Of E to G: text (names, labels, colours, snippets, the kind of a site), the overview
  diagram, which is a constant, the register names `extractA8XXRegs` looks for (it takes
  digits for separators and never finds one), and the four tables of `regmap.go` that
  nothing reads.
