# Verification of the AXI-over-UCIe core

AOU_CORE carries the AXI traffic of up to four resource planes (RP) over a UCIe
link. AXI beats become messages, messages are packed into 256-byte flits of 5-byte
granules, and the die at the other end turns them back into AXI. Its verification
environment, `hw/ip/aou/dv`, comes with Python programs that run regressions, judge
and compare them, keep the test plan, gate performance and file bugs. This directory
holds TLA+ models of the control logic of both, TLC runs on small instances, and
theorems checked by TLAPS for every value of the constants.

All paths are relative to the root of the repository, except that `RTL/` is
`src/RTL/` and `scripts/` is `src/hw/ip/aou/dv/scripts/`; files named alone are in
one of the two.

Sections: [1 inventory](#1-inventory), [2 plan](#2-plan), [3 modules](#3-modules),
[4 runs, bounds and fairness](#4-runs), [5 findings](#5-findings),
[6 proofs](#6-proofs), [7 not modelled](#7-not-modelled).

## 1. Inventory

### The core

| Component | State | Operations | Interacts with | What is hard | Correct when |
|---|---|---|---|---|---|
| Activation controller (`AOU_ACTIVATION_CTRL.sv`) | FSM DISABLED/ACTIVATE/ENABLED/DEACTIVATE, nine handshake flags, edge detectors, four-entry message FIFO, quiet counter, three waits | one clock edge | SFR start bits, transmit path, receive decoder, credit controllers, FDI bring-up, the peer's controller | crossing requests, a link that falls in the middle of a handshake, time-outs racing answers | the two FSMs agree on the session; nothing credited moves outside it; no loss is silent |
| Start bits and software (`AOU_CORE_SFR.v`) | `ACTIVATE_START`, `DEACTIVATE_START`, `DEACTIVATE_FORCE`, status | APB writes, automatic clear | activation controller, interrupts | a bit that outlives the handshake it started | a start bit acts once |
| Credit controllers (`AOU_TX_CRD_CTRL.sv`, `AOU_RX_CRD_CTRL.sv`) | credits held and granted per message class and RP | count, spend, grant with `CrdtGrant` and `MsgCredit` | activation controller, transmit buffers, receive FIFOs | credits of two sessions mixing, saturation, rounding to the credit code | a receive FIFO never overflows; credits are never lost while a session lasts |
| Transmit packing (`AOU_TX_CORE.sv`, `AOU_TX_AXI_BUFFER.sv`) | message FIFOs, a ring of 128 granules, low-power packing state | pop, pack, send a flit | credit controllers, FDI | ring wrap, low-power threshold, one activation message per flit | each message leaves once, in order, and eventually |
| Receive decoding (`AOU_RX_CORE.sv`) | partial message, flit-cancel state | decode up to two chunks a cycle | receive FIFOs, activation controller, credit controllers | messages across flit boundaries, cancelled flits | inverse of packing |
| Receive FIFOs (`AOU_FIFO_RP.sv`) | five multi-write FIFOs per RP | write (always accepted), pop | credit controllers, AXI ports | they cannot refuse | credits bound what arrives |
| RP datapath (`AOU_CORE_RP.sv`, `AOU_AW_W_ALIGNER.sv`, `AOU_SLV_AXI_INFO.sv`, `AOU_AXI_WLAST_GEN.v`) | outstanding tables, aligners | AXI handshakes | everything in the plane | order of W after AW, IDs | AXI order is kept |
| Early write response (`AOU_EARLY_BRESP_CTRL_AWCACHE.sv`, `AOU_EARLY_TABLE.sv`) | table of outstanding writes | enter, answer early, consume the real response | AXI slave port, error log | same-ID order, both kinds of response at once | one response per write, in the order of the ID |
| Split, sizing, aggregation (`AXI4MUX_3X1/`) | pending tables, reorder buffers | split, merge | AXI master port | a part answered while the next is issued | one merged response per burst |
| QoS (`AOU_TX_QOS_*.sv`, `AOU_*X1_ARBITER.v`) | ages, round-robin pointers | arbitrate, age | transmit packing | starvation, frozen request sets | everybody is served |
| FDI bring-up (`AOU_FDI_BRINGUP_CTRL.sv`) | link FSM | wake, activate, retrain, error | UCIe adapter, activation controller, software | events in either order | follows the adapter, never hangs |
| APB bridge (`LIB/ASYNC_APB_BRIDGE/`) | four-phase handshake in two clocks | one transfer | SFR | clock crossing | each transfer once, with stable data |
| Watchdog, error log | timer, captured errors | count, capture | AXI slave port, SFR | priority of clear | an error is reported once |
| Register slices, clock cells, top levels, constraints | - | - | - | - | not modelled |

### The verification flow

| Component | State | Operations | Interacts with | What is hard | Correct when |
|---|---|---|---|---|---|
| Regression driver (`run_list.py`, `run_ctl.py`) | queue of runs, worker threads, settings, signals taken, the control file | launch, collect, poll the file, take a signal, leave | `make run` per run, the operator through `run_ctl.py`, a second driver with the same RID | three writers of one file, threads that end while the loop leaves, SIGTERM anywhere | each run once; settings take effect; exit status 0 only if everything passed |
| Run judging and reports (`check_run.py`, `passing_runs.py`, `judge_run.py`, `plan_status.py`, `compare_results.py`, `fc_report.py`, `merge_axi4_fc.py`, `rule_inventory.py`, ...) | run directories with log and `verdict.txt`, results CSVs | judge a log, read verdicts | the driver, the known bugs of `expected_fail.yaml`, coverage, the plan | a run that was killed half-way, six readers of one verdict | all readers agree on what a run was; nothing unexplained passes |
| Test plan and testlists (`gen_plan_items.py`, `testlist.py`, `check_testlists.py`, `sweep.py`) | plan items with corrections, lists with includes and groups | rebuild the plan, expand the lists | driver, harness, plan status | a plan rebuilt from its own output; two programs that expand one list | no item is lost; both programs run what is due, once |
| Performance gate (`perf_model.py`, `stale_build.py`, `aou_perf_vseq.svh`, `aou_perf_chk.svh`) | two generated tables, the build made from them, `perf.json` | generate, build, run, check | an external packing model, the sim targets | tables of two different sources, a stale build, periods that do not divide | the bench drives what was modelled; bench and `check` judge alike |
| Simulation configuration (`sim_cfg.py`) | targets and their defines | resolve, check | everything above | two benches with one set of configs | the benches agree |
| Bug drafts and issue import (`bugs/gh_import.py`, `rewrite_refs.py`, `gen_readme.py`, `check_bug_refs.py`) | draft files, issues on GitHub, citations in the bench, two generated pages | import call by call, rewrite, generate | people who edit drafts, GitHub | killed between any two calls and run again, on drafts that changed | one issue per draft; every reference names it; reruns finish the work |
| Documentation generators, lint checks, wave and job tools, UVM tests and VIP | - | - | - | - | not modelled (section 7) |

`PROJECT.json` lists every component with its status and every hazard with the line
where it bites.

## 2. Plan

Done, in this order:

1. `AouActivationCtrl`, `AouActivation`: the activation controller and two of them on
   a link.
2. `AouSession`: what the activation controllers promise the credit loop, implemented
   by `AouActivation` through the refinement mapping of `AouActivationSession`.
3. `AouCredit`: one direction of the credit loop on top of `AouSession`, with the
   proof that no receive FIFO overflows.
4. `DvRunList`: the regression driver, with proofs.
5. `DvGhImport`: drafts, issues, citations and generated pages, with proofs.
6. `DvVerdict`, `DvCompare`, `DvCoverage`, `DvPlan`, `DvTestlist`, `DvSimCfg`, and
   `DvReports`, which composes them: from a run to every reader of its verdict.
7. `DvPerf` on `DvSimCfg`: the performance gate.

Open, in the order of their weight: the credit loop through an abort by a link that
fell; the tables of the AXI side (`AOU_EARLY_TABLE.sv`, the split tables), each
against an abstract queue of responses per ID; the 128-granule ring of the transmit
core against the receive decoder; QoS, FDI bring-up, the APB bridge.

No module declares a RECURSIVE operator, and parameters are CONSTANTS with named
assumptions, so that every module can be proved about: what is recursive in the code
(lists that include each other, the greatest common divisor) is a recursive function.

## 3. Modules

| Module | What it is | Extends or instantiates |
|---|---|---|
| `AouActivationCtrl` | one activation controller, edge by edge | - |
| `AouActivation` | two of them, software, the link, credited messages | `AouActivationCtrl` |
| `AouHandshake` | the invariant that keeps the two in step | `AouActivation` |
| `AouAnswers` | the invariant of a die without an error, whatever its peer does | `AouHandshake` |
| `AouSession` | abstract: what two controllers promise one direction of traffic | - |
| `AouActivationSession` | the refinement mapping | `AouActivation`, `AouSession` |
| `AouActivationProofs` | theorems: types and losses, the two in step, the refinement | `AouHandshake`, `AouActivationSession` |
| `AouAnswersProofs` | theorems about `AouAnswers` | `AouAnswers`, `AouActivationProofs` |
| `AouCredit` | the credit loop of one direction | `AouSession` |
| `AouCreditProofs` | theorems about it | `AouCredit` |
| `DvRunList` | the regression driver, its control file and a second driver | - |
| `DvRunListProofs` | theorems about its runs, control file, settings and pause | `DvRunList` |
| `DvGhImport` | drafts to issues, citations and pages | - |
| `DvGhImportProofs` | theorems about it | `DvGhImport` |
| `DvVerdict` | the verdict of a log and its readers | - |
| `DvCompare` | comparison of two regressions | - |
| `DvCoverage` | union of functional coverage | - |
| `DvPlan` | plan items, corrections, status | - |
| `DvSimCfg` | targets and configs | - |
| `DvTestlist` | lists, their check, the jobs made of them | `DvSimCfg` |
| `DvReports` | runs and all their readers | the five before |
| `DvReportsProofs` | theorems about the runs, their readers and the lists | `DvReports`, `FoldLemmas` |
| `DvPerf` | windows, tables, bench, check | `DvSimCfg` |
| `DvPerfProofs` | theorems about the tables, the gate and the check | `DvPerf`, `FoldLemmas` |
| `FoldLemmas` | lemmas: smallest subsets, folds, sums, joined sequences | - |
| `MC*` | constants for TLC | the module they are named after |

A definition whose comment begins with "Mutant" is a plausible mistake in the one
after it. No definition of the model uses it; it serves to show that a property
can fail.

### AouActivationCtrl

`AOU_ACTIVATION_CTRL.sv`, one clock edge at a time. `Tick(d, in)` gives every
register of die `d` its next value from the input ports `in`; wires are operators.
Single-bit registers are kept as sets: `hs[d]` holds the handshake flags that are 1,
`reg[d]` the edge detectors and `r_deactivate_block`, `armed[d]` the waits that run.
The two 32-bit wait counters are abstracted to a choice: an armed wait may expire on
any edge (`in.expired`), which covers every programmed limit. `r_time_out` is kept,
with its limit as the constant `QuietWindow`. The module also defines the outputs
(`CrdCountEn`, `ReqCrdAdvertiseEn`, ...), interrupts and errors.

### AouActivation

Two controllers, their start bits (`AOU_CORE_SFR.v`), the two-entry misc activation
FIFO of the transmit core, and the link. `wire[d]` is what `d` packed and its peer
has not decoded: activation messages and credited messages, of which only the
`Kind` is kept ("req": requests and write data, "rsp": responses), since the
controller has one enable for each kind. `Clock`, `Pack` and `Decode` are clock
edges: with nothing to do, with a message packed, with a message decoded. The two
dies have their own clocks, so their edges interleave freely. `SendData`, `RecvData`
and `DrainData` are the traffic; `rx[d]` remembers of which session the receive
FIFOs still hold something. Bus activity (`I_TX_PENDING`,
`I_MST_BUS_CLEANY_COMPLETE`, ...) is any value in `Bus` on every edge. Software and
link follow the sequences of `DOC/MAS/software-operation.adoc`: `LinkFall`,
`SwReset`, `LinkRestart`, `LinkDisable`. `faulted[d]` is a history variable: the die
reported an error and was not reset since.

### AouSession and AouActivationSession

One direction of traffic has a *sender*, which spends credit, and a *grantor*, which
advertises it. `AouSession` says what the enable outputs of the two controllers may
do together:

* a session opens in the order grantor advertises (`Boot`), sender counts
  (`Count`), sender sends (`Open`), grantor takes messages into the session
  (`Establish`); the last three may meet;
* each kind of message stops at the die that asks before it stops at the die that is
  told, and the last message of the kind arrives before that. With
  `CREDIT_MANAGE = 1` requests end with the sender's DeactivateReq and responses
  with the grantor's; with 0 the sender's DeactivateReq ends both (`Told`);
* the grantor's last activation message leaves (`Close`) before the sender is
  DISABLED, so that all flits before it have arrived.

`AouActivationSession` maps `AouActivation` to it. `SenderPhase`, `GrantorPhase` and
`Grants` are functions of the enable outputs and flags at the end of a cycle,
`Flying` is read off the wire, and `Closed` says that the Req and the Ack that end
the session have left in flits. `grantor = "boot"` is the part of ACTIVATE after the
ActivateAck has left; ACTIVATE before that is "down", since nothing is advertised
and nothing is returned there.

### AouCredit

The grantor is `AOU_RX_CRD_CTRL.sv`: `cnt` (advertised and not returned), the
amounts a field can name (`Best`; that of B is a bit shorter), the arbiter that picks
the plane of the next `MsgCredit` with its frozen request set (`frozen`, `last`), and
the register slice in which a `MsgCredit` waits for a flit (`slot`). The sender is `AOU_TX_CRD_CTRL.sv`:
`held`. A message goes from the TX FIFO (`txq`; it pays on entry) over the link
(`data`) to the RX FIFO (`rxq`), which cannot refuse it; credit goes back over the
link (`crd`). All of it is counted in granules per message class and plane.
`Edge(pop, flit, initial)` is a whole clock edge of the grantor: what is popped from
the RX FIFOs, whether a flit takes the header along, and whether it is the cycle in
which advertising begins. `ReturnedUnmasked` and its like, marked as mutants, are not
part of the model.

The session actions are those of `AouSession`, each joined with what it means for
the credit: when the grantor asks its RX FIFOs are empty (`Open`, `Establish`:
`I_AOU_RX_FIFO_PENDING`); a DeactivateReq waits for the transmit path and for the
answers (`StopSending`, `StopGranting`); the counters restart on the way into
DISABLED (`GrantorDown`, `SenderDown`). `Quiescent = FALSE` drops the waits, as
`DEACTIVATE_FORCE` does.

What is left out: a class has messages of one size; destination plane and source
plane are the same (`I_RP_DEST_RP` is the identity); `I_CREDIT_BLOCK`
(`AOU_CORE.sv:1094`) only withholds grants for a time; the wire fields narrower than
the credit code (B has eight levels) are not different from the others. Sessions do
not abort here. `StopSending` takes the quiet condition in the cycle of the
decision: between the registered `r_time_out` and the request the AXI side is
supposed to start nothing, which is what its quiet window is for.

### DvRunList

`run_list.py` is one process per `Driver`; `phase` is where its main thread is. It
chooses its control file (`ChoosePath`), writes the header (`WriteHeader`) and
installs its handlers (`Arm`). Each turn of the loop of `schedule()` reads the file
and passes a new priority on (`Poll`), takes the signals that change the number of
jobs (`Bump`, `BumpWrite`), launches a batch or leaves (`Launch`, `Leave`), and
collects what has ended (`Collect`). Afterwards it removes its file if it is still
the owner (`CheckOwner`, `RemoveCtl`) and writes the CSV and the exit status
(`WriteResults`). Each launched run has a thread that reads what `make run` prints
(`Announce`) and puts its run on the `done` queue (`MakeEnds`). An edit by
`run_ctl.py` is three steps: it looks whether the file is there, reads it and replaces
it (`EditStart`, `EditRead`, `EditReplace`). A second driver with the same RID takes
over the file of the first. `Kick` is SIGUSR1 or SIGUSR2, `Terminate` SIGTERM, at any
time. Text of the file becomes a value by `Value` if `Valid`; what make prints is a
sequence of verdict lines. Time is left out: a turn may come at any moment. `clean`
and `late` are history variables for `LiveFileKept` and `PauseTakesEffect`.

### DvGhImport

Three programs, each one step per effect on the outside. `gh_import.py --apply`
loads the drafts, lists the issues by their markers, creates the missing ones with
placeholders in the body (pass 1), then per draft sets the body, the blockers, the
label, the comment and the state (pass 2), and at last notes the issue in each draft.
The calls of pass 2 and the write-back are a set with an order (`Earlier`): each is a
tuple of the pass, the draft, the place among the calls for one draft and the blocker,
and the least one that is left is made next (`Up`).
`rewrite_refs.py` reads the noted numbers and replaces the citations, file by file.
`gen_readme.py` renders the table of the drafts and writes the pages that are out of
date. Opening a file for writing empties it, so every write is two steps. Any
program can die between two steps; people edit drafts and put back what was
emptied (`RestoreDraft`, `RestoreFile`, `RestorePage`), and others close issues.
GitHub is external: an issue keeps its number, marker and body. A draft is its state,
what it was merged into, its blockers and the drafts its text refers to; a body is
the set of its links; a row of a page is the draft's front matter, its issue and the
drafts merged into it. `Apart` says that `gen_readme.py` is not started while one of
the others is in the middle of its work, nor they during its; the constant `Overlap`
takes that away.

### DvReports and its parts

A log is reduced to its report summary, its errors, the texts that a `when_re` finds,
its coverage and its rule ledger. `DvVerdict` is `check_run.py`'s judgement of a log
against `expected_fail.yaml` (with the entries that require another), and what each
reader takes from `verdict.txt` or the log. `DvCompare` is the pairing and ranking of
`compare_results.py`; `DvCoverage` the two merges; `DvPlan` the corrections, the
rebuilding of the old plan from the output, and the status of an item; `DvTestlist`
the loading of lists with includes, groups and the checks of `check_testlists.py`,
and the jobs that `run_list.py` and `sweep.py` make of them.

`DvReports` runs two regressions in one output tree. A run gets its directory
(`MakeDir`, or fails to: `NoRunDir`), its simulation starts and ends, the submission
returns, and `check_run.py` writes the verdict, which the driver collects (`SimStarts`,
`SimEnds`, `SubmitReturns`, `CheckEnds`); the submission may return early, make may be
killed (`MakeKilled`) while the simulation goes on, and a list may end before all its
runs were started (`ListEnds`). Meanwhile the corrections are edited and the plan is
regenerated. Readers change
nothing, so they are operators on the state and every property holds whenever a
reader looks.

### DvPerf

The windows of `perf_scenarios.yaml` become two tables (`WriteTargets`,
`WriteWindows`; killed in between by `Killed`) that are compiled into the bench
(`BuildStarts`, `Compile`, `BuildEnds`, `BuildFails`). `Run` is one run of a window on
a link: the periods and the bursts of `aou_perf_vseq`, the measurement, the bench's
gate, and the warning of a stale build. `CheckExit` is `check`, with and without the
external model at hand. Bytes per cycle are in 1/100000, shares in 1/10^7, tolerances
in percent. Bursts are aligned, so addresses matter only in the test for 4 KB. The
external model (`d2d_model`) is the constant operator `RunDirs`.

The same link is judged twice: by `Gate` (`aou_perf_chk`, on numbers in memory) and by
`Judge` (`check`, on `perf.json`). Payload, message counts and cycles reach
`perf.json` as they are (the time unit is a nanosecond, its precision a picosecond,
and the file has three decimals). The cap, which is what the link could carry of its
own messages (`mixCap`), is any real number and is rounded (`JNum`, `ReadCap`); without
a steady state it is not there at all. `Skewed` is the gate's test of the message mix,
`MixFails` that of `check`, which asks nothing of a target without a mix; no generated
target is without one, because bytes are carried by messages (`PerfAssumption`).

## 4. Runs

| Run | States | Question |
|---|---|---|
| `session_v08` | 67,232 | On a working link with `CREDIT_MANAGE = 1`, do two dies implement `AouSession` in every interleaving of edges, register writes and deliveries? |
| `activation_force` | 242,128 | With `DEACTIVATE_FORCE` beside the ordinary request and a link that may fall at any time: do the dies stay in step, does no message of the protocol arrive where it is illegal, and does the next session see nothing of the last? |
| `activation_faults` | 141,172 | With `CREDIT_MANAGE = 0`, link loss and time-outs: is every loss reported, and does a dead link stay without a session? |
| `activation_live` | 11,620 | Does every session that is asked for come up, so that both dies have it at once, and go down at both before either has the next? |
| `credit_loop` | 38,469 | Does credit cover every message, and is none lost and none invented, through any number of sessions? |
| `credit_live` | 14,330 | Two planes share the header: does every sender get its credit? |
| `credit_parked` | 64,617 | Violated: finding 1. |
| `runlist` | 144,985 | Is every run of a regression run once and counted, do settings take effect, does the driver end? |
| `ghimport` | 357,314 | Has each draft one issue, does everything that refers to it name that issue, and does running the programs again finish the work? |
| `reports` | 184,584 | Do the driver, coverage, plan status, comparison, rule inventory and harness agree on every run at every moment, and do driver and harness make the same runs of the lists? |
| `perf` | 363,723 | Does the bench drive what was modelled, and do its gate and `check` judge alike, to the digits of `perf.json`, and by the current tables? |
| `assert_build` | 4,247 | Violated: finding 2. |

The numbers are TLC's distinct states (for the violated runs, those it had found when
it stopped; they vary a little).

**Bounds of the activation runs.** Two dies, which is the system. `QuietWindow = 1`:
the code has 8 to 1024 cycles; a longer window only delays the request, and 1 keeps
both sides of the comparison. `FlitBeats = 2`: the receiver needs at least two cycles
for a flit (`AOU_RX_CORE.sv` takes it in two halves), so activation messages are
decoded at least two edges apart. The model needs this: with 1, a `DeactivateReq`
decoded on the edge after an `ActivateAck` would find the FSM still in ACTIVATE, which
is why `ActivationAssumption` asks for two.
`DataBound = 1`: one credited message per direction on the link; the properties speak
of the presence of a message, not of a number. It is 0 in `activation_faults`,
which is not about data. `Traffic` is both kinds of
message, and one in `activation_live`, where it only matters that something waits in
a receive FIFO. `Faults` names what may go wrong in a run; a die whose
error was reported is reset before a second wait can expire, since a wait lasts at
least 2^18 cycles (`Expiry`). `Bus` contains the combinations of bus activity:
quiet and busy in `session_v08`, where it changes freely, and quiet in the runs with
faults, where what keeps a session up is of less interest than what ends it.
Time-outs and `DEACTIVATE_FORCE` are not
combined: together they are beyond TLC at this size.

**Bounds of the credit runs.** `credit_loop` has one plane, a request class with five
granules of buffer and messages of two, and a response class with three granules and
messages of one. Five is not a multiple of the message size, is advertised as 4 and
1, and leaves a rest that pays for nothing; three is advertised as 1, 1, 1. The
counters wrap at 8, so a negative or too large value would show. `credit_live` has
two planes and one class with two granules each, the smallest instance in which one
plane can wait for the other while its own request set is frozen. What these instances
do not reach (more planes, other sizes) is covered for safety by the theorems.

**Bounds of `runlist`.** Three situations: one driver with three runs and an
operator who acts twice, one with `--ctl` and two runs, and two drivers with one RID
started at any time. Edits switch pause and drain on, change the priority and give an
invalid job count; runs of two tests with different times make the orders differ.
Make prints a pass with an XPASS note or nothing. Digits up to 4 bound the jobs.

**Bounds of `ghimport`.** Three drafts, of which one may be written later, be merged,
resolved or closed; two files that cite them, out of order; two initial situations,
one with a merge; two events (edits, crashes, closings by others) in any place. Two
is the least number with which a crash meets an edit, or a second crash the
recovery from the first. `Overlap = FALSE`; safety was also explored with `TRUE` and
one event, and the theorems hold for both.

**Bounds of `reports`.** Two regressions of a list with a repeated run, a run on
another target and a blocked one; one run at a time per regression (the driver's
concurrency is `runlist`'s question); two failures, drains or edits; three sets of
corrections with a merge chain, an addition and a drop. 486 variants of the lists
(includes in both orders, twice, in a circle or missing; groups that repeat, miss or
misorder a scenario; blocked scenarios that are listed), of which the check accepts
32; the properties of the lists are about those.

**Bounds of `perf`.** Two configs (two RPs of different width with two PHYs, one RP),
two sets of windows with both directions, uneven shares, partial strobes, long bursts
and a tile, one that crosses 4 KB; one run and one edit, which may fall between the
two tables, before, during or after the build. The stand-in for the external model
loses a little per request, so that different mixes have different targets. What a
link measured lies below its target, within tolerance or above it; below its cap, at
it, or above it by a little less than one flit's bytes, a little more, and clearly
more (`OneFlit` is 0.02 bytes per cycle in a window of 12800 cycles). With a little
less and a little more the third decimal of the cap decides, and both ways in which
the two judges can differ occur.

**Fairness.** `activation_live` (`AouActivation!LiveSpec`): clocks run; a link that
is up takes and delivers flits (`Deliver`: whatever is next on the wire); AXI ports
drain; software answers the two start
interrupts, which is what they are for, and restarts a disabled link. Nobody has to
start or end a session. The bus is quiet in that run, because a bus that is never
quiet rightly keeps a session up. `credit_live` (`AouCredit!LiveSpec`): flits leave,
because the transmit path sends them without end or, in low-power mode, on a
heartbeat and whenever a header has credit to carry (`AOU_TX_CORE.sv:1030-1057`);
what is in an RX FIFO is taken, what is in a TX FIFO is packed, and what is on the
link arrives; a session that has begun to open opens. Nobody has to send a message,
and a session may end at any time.
`runlist` (`DvRunList!Spec`): a driver process keeps running and a make that was
started ends; operators, signals and the second driver owe nothing. `ghimport`
(`DvGhImport!Spec`): the import and the rewriting are run again while there is work,
and what a crash has emptied is put back. The last, and `gen_readme.py`, can be
disabled again and again by the start of another program, hence strong fairness:
people get round to them between two runs of the others. `reports` and `perf` have no
liveness property: nothing there waits for anything but the simulator.

**Symmetry** over the two dies in `activation_force` and `activation_faults` (no
`Grantor`, no liveness), and over the two regressions in `reports`: both run the same
list on the same build, and every property speaks of all of them or of all pairs.

**Deadlock** is not checked where the system may stop: drivers exit, regressions end,
the import is done. The bounded runs end with their budget.

## 5. Findings

As runs:

1. `RxFifoNeverOverflows` with `Quiescent = FALSE` (`credit_parked`). A message is
   paid for when it enters its TX FIFO (`AOU_TX_AXI_BUFFER.sv:1156`) and nothing
   empties the TX FIFOs when a session ends. After a `DEACTIVATE_FORCE` of the die
   that waits for responses, the peer packs the left-over responses in the next
   session beside those the new credit pays for. This is against
   `DOC/MAS/architecture.adoc:477`: no credit is granted without buffer space.
2. `EveryPassCounts` on an `-assert` build (`assert_build`). `plan_status.py:74` looks
   for the plain targets in the name of a build directory and takes a run on
   `1x512-sp64-assert` for one on `1x512-sp64`. A scenario that is pinned to the
   assert target (`testlists/assertions.toml:27` and others) therefore matches no
   run, and a plan item that only such scenarios list is not covered, although
   `run_list.py` runs them. Items that unpinned scenarios list too are not affected.

Met while modelling, without a run:

* `w_deactivate_related1` (`AOU_ACTIVATION_CTRL.sv:460`) has no state condition, so the
  `DeactivateReq` that aborts the FSM is still answered; section 7.3 of the software
  manual says that no Ack is sent after an error.
* The start bit is cleared only on reaching ENABLED (`AOU_CORE_SFR.v:549`). When the
  wait for the Ack expires the bit is still 1, and the die asks again; the manual
  says that it reads DISABLED.
* With `CREDIT_MANAGE = 0` the credit of requests taken in ACTIVATE is masked, that of
  responses is not (`AOU_CORE.sv:1030-1036`): a response left in the RX FIFO by the
  last session returns credit that was never granted. Hence `SeparateRsp` in the
  theorems.
* A frozen request set of the arbiter may name a plane whose credit has stopped; the
  header then names RP0 and carries nothing (`AOU_RX_CRD_CTRL.sv:671`), but the
  counters of RP0 add what it could have advertised. That credit is lost until the
  session ends, which is why `CreditConserved` is about one plane. The loss is
  on the safe side, which is what the proof of `CreditCovered` uses.
* The activation FIFO can drop a message only after two errors without the reset that
  each of them asks for; `ActFifoNeverDrops` speaks of dies without an unreset error.
* Driver: two drivers with one RID that start together both believe they own the file,
  and `run_ctl.py`'s check that a file exists (`run_list.py:263`) can race its
  removal and recreate it without a header; an update can be lost between a signal's
  and `run_ctl.py`'s read and replace (`run_ctl.py:79-81`); a priority set before make
  has printed the job number misses that job; SIGTERM between writing the header
  (524) and installing the handler (536) leaves the file; the second driver's results
  CSV replaces the first's. The properties are stated so that these, which the code's
  comments accept, do not count (`clean`, `InSchedule`).
* Import: two imports at once file a draft twice; a crash between the comment and the
  closing repeats the comment; titles and other labels are not refreshed by a rerun;
  a README.md that a crash of `gen_readme.py` emptied has lost its markers, so the
  program refuses to run until somebody puts it back.
* Reports: `rule_inventory.py:41-47` and `perf_report.py` take the first line or word
  of `verdict.txt`, which is an XPASS note if there is one, so such runs do not count
  there; a rule can be "hit" (151-156) by failing runs only. A correction with two
  changes of one item, or the removal of an `add`, makes a rebuild end with "edited by
  hand" (`gen_plan_items.py`). `merge_axi4_fc.py:83-90` says that figures only go up,
  which a run with new bins does not keep. `compare_results.py` pairs equal runs by
  place, which differs between the CSV of the driver and that of `judge_run.py`.
* Lists: a repetition inside one group is not rejected (`testlist.py:186`); a sweep of
  `all` fails if a list has no such group; a target cannot override a default define.
* Two judges of one rate: `aou_perf_mon.svh:477` writes the cap of a link with three
  decimals; the gate compares with the number itself (`aou_perf_chk.svh:88-89`),
  `check` with the written one (`perf_model.py:507`, `538`), although the comment on
  `judge` (`perf_model.py:531-532`) takes its bound, "max(model, mix_cap) + eps /
  cycles (aou_perf_chk)", to be the gate's. A rate within 0.0005 bytes per cycle of
  the bound can be ABOVE for one of them only: with 12800 cycles, 640259 bytes, 153661
  granules, 64 bytes per cycle and a model below 50 the gate passes 50.020234 (its
  bound is 50.020377), and for `check`, whose bound is 50.020, it is ABOVE.
  `GateAgrees` has that margin (`AtCap`) and no other; without it TLC finds both kinds
  of disagreement in `perf`.
* Performance: a window whose RPs a config lacks makes `perf_model.py` raise; a
  tolerance with more than four decimals drifts for ever; `check` does not notice a
  target whose window left `perf.json`, nor drift of the windows table; the stale
  check does not see edits of the YAML files before the tables are generated.

## 6. Proofs

All of them hold for every value of the constants that satisfies the named
assumptions of the module.

### AouActivationProofs

From `CtrlAssumption` and `ActivationAssumption` (two dies, a non-zero quiet window,
a flit of at least two beats):

* `TypeCorrect`: `Spec => []TypeOK`. Every disjunct of `Next` preserves the type; the
  lemmas give the type of each next-state function of the controller (flags are sets
  of flags, the quiet counter stays in its range because it stops at its limit, ...).
* `LossIsReported`: `Spec => NoSilentLoss`. The argument is by the kind of step. Only
  a clock edge or a reset changes `st` and `hs`. On an edge without an abort, the FSM
  leaves a session only from DEACTIVATE with all four flags, and an activation
  request flag falls only on entering ENABLED; on an edge with an abort, either
  `LinkError` holds, or the link fell, and then the FSM was not DISABLED or a request
  flag was set, which is the condition of `O_INT_FDI_LINK_DOWN`: the same edge
  reports it. The third part of `Reported` is about the edge on which the transmit
  path takes an ActivateReq: its flag is set by that edge, or the edge aborts and
  reports it. No invariant but the type is needed, because the property is about one
  step.

#### The two in step

From the same assumptions, with any set of `Faults` and any `Traffic`:

* `HandshakeCorrect`: `Spec => []HandshakeInv`;
* `NoInvalidMessage`, `SessionsAgree`, `DataStayInSession`, `SessionsStartEmpty`,
  `MessagesNotDuplicated`: the properties `NoInvalidActmsg`, `SessionAgreement`,
  `DataOnlyInSession`, `FreshSessionStartsEmpty`, `NoDuplicateActmsg`.

None of the properties is inductive. `AouHandshake` states what is, and uses that
activation and deactivation are the same handshake: each die sends a Req and the Ack
of the other's Req, its four flags record what left and what came, and with all four
it goes on to the other handshake. Per handshake and direction, `Exchange` says where
the Req and its Ack are: in the activation FIFO, on the line (misc FIFO and wire), or
received, according to the flags of the two dies. `Here` and `Behind` say where a die
can be: in the handshake of the die that is ahead, or in the one before, with only the
last Ack to come. `InStep` joins them; `DataInSession` says that a credited message on
the line is behind the ActivateAck that opens its session and ahead of the message
that ends its kind (the DeactivateReq, or with `CREDIT_MANAGE = 1` for responses the
DeactivateAck); `StartsEmpty` what a receive FIFO may hold on the way into a session.

Two details cost most. The FSM sees a flag one edge after it is set, so an
intermediate state could meet the next message too early; what prevents it is that
the message that set the flag is still in the misc FIFO, or that the receiver needs a
second cycle for a flit (`gap`). And a link falls at one end first: the other goes on
packing into nothing, so the messages are not where the flags say they are. The
invariant therefore speaks of lines `v` that would be on the wire had nothing been
lost, which agree with it at the ends that are up; losing the link at one end changes
`wire` and not `v`.

The proof that a clock edge preserves it does not split by FSM state. `EdgeEffect` sums
up what an edge does to the flags, FIFOs and lines of its die. Either the die goes on
to the next handshake (`Switches`) or it stays in its own and gains flags
(`Continues`); for each there is one lemma per part of `InStep`, for the die itself
and for its peer. An edge that reports an error, and `SwReset`, are outside
`Healthy`; they come back in by `LinkRestart`, when both dies are clean.

#### The refinement of AouSession

From the same assumptions, `GrantorAssumption` (`CREDIT_MANAGE` is the same at both
dies) and `Faults \subseteq {"force"}`:

* `SessionImplemented`: `Spec => ImplementsSession`, for either die as grantor.

The hypothesis on `Faults` is needed, because `AouSession` has no way to end a session
but the handshake: a link that falls by itself, or an expired wait, ends it at once.
LinkDisable and its restart stay possible. The run `session_v08` checks the same without
`DEACTIVATE_FORCE` and with `CREDIT_MANAGE = 1`; the theorem has both values.

* `CalmInvariant`: then no die reports an error, and the link is up at both ends or
  down at both, and clean. The edge of a die reports nothing because of `NoInvalid`.
* `ViewHolds` and `ClosedHolds` rewrite the mapped variables, which are outputs of the
  controllers, in terms of states and flags. They hold in every state.
* `AgreedHolds` is what one die knows of the other. It follows from `HandshakeInv`, and
  each part of it is the guard of one abstract action: a sender with the Ack has a
  grantor that advertises (`Count`, `Open`); one with a DeactivateReq has a grantor
  that stopped its part (`HearGrantorStop`), and one with all four flags has a grantor
  whose last message has left (`SenderDown`); a grantor that was told has a sender
  that stopped that part, with nothing of it on the wire (`HearSenderStop`), and one
  with all four flags has a sender that stopped everything (`GrantorDown`); an Ack
  leaves only to a sender that is down (`Boot`); data arrive only in a session
  (`Arrive`).
* `StepImplements` then maps the steps. An edge of the sender changes `sender` and
  `sends` only, an edge of the grantor `grantor`, `grants` and `closed` only; each has
  one lemma for `Switches` and one for `Continues` in each handshake, by the flags
  that are new. `SendData` of the sender is `Depart`, `RecvData` of the grantor
  `Arrive`, and every other step stutters.

### AouAnswersProofs

From the same assumptions, with any set of `Faults`:

* `AnswersCorrect`: `Spec => []AnswersInv`;
* `SoundDieHasRoom`: a die without an error has room in its activation FIFO for both
  writes, whatever error its peer has; `NeverDrops`: `Spec => []ActFifoNeverDrops`;
* `DeadLinkStaysDown`: `Spec => []NoSessionOnDeadLink`.

`HandshakeInv` says nothing of a die whose peer has an error, or whose link is down at
both ends, and these two properties are about that time as well. A die in error has
forgotten its own Req and may ask once more, and a link loses any message that is on
it, so nothing can be said of where the messages are. `AnswersInv` only counts them, and
a loss makes a bound on a count easier to meet.

`Alone` is what a die without an error keeps to by itself: it has one Req open in a
handshake at most (`Open`: the Req, or the Ack that comes back for it), which counts
until the Ack is latched and the handshake over (`AsksOnce`); it owes two answers at
most, and one of them waits in the activation FIFO at most (`AnswersFit`); its
ActivateAck leaves before it can ask for the end of the session (`AcksLeaveFirst`);
its start bit is 1 while it asks (`StartKept`). `Unstarted`, that a die which has not
seen its link up is DISABLED with no ActivateReq queued, is what `NoSessionOnDeadLink`
needs. `AnswersFit` of a die needs that no third Req arrives. That is a statement about
its peer: `AsksOnce` if the peer has no error, else `AsksTwice`, which says that the
peer may ask for a session a second time only while its start bit is 1, and then has
asked for no end of one; or `Stuck`: the peer left before the session of this die
began, and the next message from it, an ActivateReq, is the error that ends it.

An edge is one lemma for the die itself and one for its peer in each of these cases
(`OwnAlone`, `AlonePeer`, `StuckOwn`, `StuckPeer`, `AsksTwiceOwn`, `AsksTwicePeer`).
`PairEntry` is the edge on which a die reports its error: there, and only there, the
proof uses `HandshakeInv`, to know that a die whose peer is back in the activation
handshake and has sent its DeactivateReq has said all it had to say in the old session
(`Waits`). Every other step loses messages or leaves them alone (`Keeps`), or is a reset
or a restart, after which nothing is left (`Fresh`). `AnswersInv` was model-checked on
the instances of `activation_force` and `activation_faults` before it was proved.

### AouCreditProofs

From `CreditAssumption` and `Orderly`, which is `Quiescent /\ SeparateRsp`:

* `TypeCorrect`: `Spec => []TypeOK`, which includes that no counter leaves its width;
* `CreditIsCovered`: `Spec => []CreditCovered`;
* `NoOverflow`: `Spec => []RxFifoNeverOverflows`.

`Orderly` is needed: finding 1 and the unmasked response credit of section 5 are what
happens without either half of it.

None of the three is inductive by itself. The invariant is
`IInv == Typed /\ Bounded /\ Covered /\ Phases /\ Stopped`:

* `Bounded`: counters and RX FIFOs stay within the depth. For a FIFO in a session it
  follows from `Covered`, since the FIFO is a part of what `cnt` stands for; outside
  a session nothing arrives.
* `Covered` is `CreditCovered` without the bound. A grantor's edge adds to `cnt` at
  least what it puts into the slot and on the link (`PayloadCounted`: the header
  never carries more than the counters take up, even when it names RP0 for want of
  credit), and takes off what a pop returns, which leaves `rxq` in the same edge.
* `Phases` says what is empty when: `cnt` and `data` in DISABLED of the grantor,
  `held` in that of the sender, the link and the slot between two sessions. It
  carries `Covered` over `Boot`, where it begins to hold again, from everything
  being 0.
* `Stopped` says that no message of a kind is left in the TX FIFO once the kind has
  stopped, and no response anywhere once responses have. It is what lets `Boot` start
  from an empty transmit side, and what makes the missing mask of response credit harmless
  here: no response is popped outside a session.

The induction has one lemma per group of actions: the edge of the grantor
(`EdgeStep`, `GrantorStepIInv`, from `Advertised`: within the FIFO neither
subtraction wraps, and `BestBound`: a field names no more than is free), the sender's
actions, and the actions of the session. `Boot` and `Close` are edges joined with a
session step and use the edge lemma.

A fourth theorem also assumes `OnePlane` (one resource plane, and no counter of the
sender smaller than the grantor's FIFO):

* `CreditIsConserved`: `Spec => []CreditConserved`.

`Conserved` strengthens the property to the time from `Boot` until the sender's
counters restart, so that it holds again as soon as the next session begins; with
`IInv` and the type of the arbiter it is inductive. Three of the inequalities above
become equations. The header carries what the counters take up (`PayloadExact`: the
arbiter has one plane to choose, so a header without credit names the plane it
chose). A message that leaves one queue enters the next (`MoveExact`). The sender's
counter does not saturate, because by `Covered` and `Bounded` all that it holds and
all that is on the way fits the FIFO (`CreditArrivesExact`). Both halves of `OnePlane`
are needed: section 5 says what happens with two planes, and a counter smaller than
the FIFO saturates on the first grants.

### DvRunListProofs

From `RunListAssumption` (runs are numbers, no run belongs to two drivers, finitely
many of them):

* `RunsAreConserved`: `Spec => []EachRunOnce`. `EachRunOnce` is not inductive: it does
  not say that a queued or collected run has ended, so a worker could end it again.
  `PoolInv` adds that (`ThreadOfRun`) and the types. One lemma per step that moves
  runs (`LaunchPool`, `CollectPool`, `AnnouncePool`, `MakeEndsPool`) with lemmas on the
  range and repetitions of a queue; all other steps leave the pool alone.
* `ExitStatusIsHonest`: `Spec => []ExitStatusHonest`. `ExitInv` says that a driver past
  its loop without SIGTERM has nothing running, and that the status was worked out
  from runs that had ended: with nothing running none of them changes any more.

#### Its control file, settings and pause

From the same assumption, which also says that no driver is named like one of the two
common paths:

* `FileIsKept`: `Spec => []LiveFileKept`;
* `RunListTypes`: `Spec => []TypeOK`;
* `PauseWorks`: `Spec => []PauseTakesEffect`.

That the file exists and names the driver is not inductive: someone may hold an older
copy of it, or be about to write or remove it. `Owned` adds that whoever shares the
path is neither about to write its own header nor to remove the file, and that every
copy read for a rewriting, by a driver after a signal or by the operator, carries the
driver's header. `clean` makes it true when the header is written, `ctl_paths` keeps
later drivers off the path (`ChoosePathFile`: the header names a live driver), and
`remove_ctl` leaves a file with another header alone (`CheckOwnerFile`).

`SettingsInv` adds the types of the settings, which hold because `Value` of a valid
text is in range (`KeyFacts`, `PollFacts`), and `Applied`: if the text that `Control`
last saw for the pause is a true one, the driver is paused. `poll` applies only what
differs from what it saw, so without `Applied` a pause in the file could stay without
effect for ever. A signal rewrites the jobs in both and leaves the pause (`BumpSettings`).
`LateInv` then says of a driver that has launched since the file asks for a pause, that
the file still does, and that whenever it decides on a batch it is paused, so that the
batch is empty (`LaunchLate`). The counter `late` goes back to 0 as soon as the file no
longer asks for a pause.

### DvGhImportProofs

From `ImportAssumption` (drafts and files are numbers, texts cite drafts, and an editor
deletes or empties no draft: `write_back` reads the file that was loaded):

* `OneIssue`: `Spec => []OneIssuePerDraft`;
* `ReferencesAreRight`: `Spec => []CitationsRight`;
* `ImportTypes`: `Spec => []TypeOK`;
* `MirrorsAtEnd`: `Spec => []ImportMirrors`;
* `DuplicatesAreNamed`: `Spec => DuplicateNamed`, the action property.

The first two follow from `IInv`, which has three parts that neither states. `ListingCurrent`: from the
listing to the last creation, a draft without an issue in `made` has none on GitHub,
which is why a creation is never the second. `AllMade`: in pass 2 every draft that was
loaded has a number, so no placeholder becomes number 0. `NotesRight`, `BenchRight`,
`TablesRight`, `BodiesRight`: every number that any program holds or has written
stands for its draft: in the notes, in the copy an importer has loaded, in the map
and the text of the rewriting, in the rows of a page that is about to be written.
They stay true because no step takes an issue away or changes its marker (`Kept`).
A crash may happen anywhere since `IInv` speaks only of what is there. The proof uses
neither the bound on events nor `Overlap`, so the three programs may run at the same
time (two imports at once are excluded, see section 5).

The other three need what the calls leave behind, `JInv`. `Done` says of each call that
is no longer on the list that the issue shows its effect: the links, each blocker, the
label, the state, and for a comment before its closing that it is the last one and
names an issue of the right draft; a call that was never on the list had nothing to do,
because what pass 1 knows of an issue is what the issue says (`Known`). `ReadInOrder`
keeps what `gen_readme.validate` has checked: blockers and merge targets were read
too, so they have numbers. `Whole` says that only the draft being written back is empty,
so that nobody puts back an old text over a number that was noted. One lemma per call
(`UpdateBodyStep` to `CloseStep`) shows its own part, and `CallKeeps` with
`OthersShown` that it disturbs no other draft: two drafts never have the same issue.
Somebody who closes an issue meanwhile only adds to what is shown (`ClosedJStep`).

### DvReportsProofs

From `ReportsAssumption` (finitely many regressions, lists that `check_testlists.py`
accepts, no rule whose kind is one of the statuses that evidence gives),
`JobsAssumption` (a list makes a sequence of jobs, a log counts in naturals, and the
marks of a missing file or directory are neither), `ListsAssumption` (finitely many
files, whose parts are sequences; a list of a bench includes none of another bench;
a bench whose targets are not configurations has one target; the driver is given a
target that the bench has) and `VerdictAssumption` (the known bugs are a sequence);
for all lists, logs, known bugs, rules, slots and budgets:

* `ReportsAreKept`: `Spec => []ReportInv`;
* `VerdictsExplained`: `Spec => []ExplainedErrors`;
* `ReadersSayTheSame`: `Spec => []ReadersAgree`;
* `ComparisonSound`: `Spec => []NothingGotWorse`;
* `CoverageIsHonest`: `Spec => []CoverageHonest`;
* `NoResultMissing`: `Spec => []ResultsComplete`, a part of `ListsAgree`;
* `DriversAgree`: `Spec => []ListsAgree`.

None of the properties is inductive: they speak of a verdict file and of a row, and
not of how either came about. `ReportInv` says it. `RunOk` gives the only four
contents that a `verdict.txt` ever has (none, empty, the FAIL that `make` writes, or
`Judge` of the log as it is now) and with each the stage of the run: a judged log is
complete, so that the simulation of a killed `make`, which goes on writing, cannot
change what was judged. `Collected` is a bijection between the rows and the runs that
have ended, each row made of its run by `RowFor`; `CsvOk` says that a CSV is the rows
and that nothing runs any more. A run is known by its place in the list throughout,
since two runs may have the same test, arguments and seed.

`JudgeIs` describes the lines that `check_run.py` prints without following its loop:
some XPASS notes and one verdict, which is `Outcome`. So the first and the last
verdict are the same (`VerdictIs`), and it does not matter which of them a reader
takes; the exceptions are those readers that take the first word of the file
(`FirstIs`). The counts of `ReadersAgree` are equal because each counts the images of
the same runs under a bijection (`Matched`).

For the comparison, `OccurrencesDiffer` is what the pairing needs: of two rows with
one key the later has the greater occurrence, so no row replaces another when a side
is loaded (`LoadIs`), and exit status 0 is an injection from the rows of the base
into those of the other side that never raises the rank. A row without a directory
belongs to no side, and is a failure (`CsvRows`), so leaving it out hides no pass.

The merged database is a fold over a set of reports. `DbOf` says of a database and a
set of reports that a bin is there if one of them names it, is hit if one of them hit
it, and is illegal if one of them marks it; a report is added (`DbStep`), and by
induction over the finite set of reports `MergeIs` holds for all of them. With
`PassingIsGood` (the runs that `passing_runs.py` prints are those whose verdict is
PASS) it gives the bins; `RulesKept` gives the rules, by the sum of the checks.

That a list includes others makes `Loaded` a recursive function whose argument grows
(the lists that are being read). `ReadingEnds` shows that it exists by the number of
lists that may still be read, and `LoadedIs` that what it gives is a list whose names
differ. From an accepted list `EntriesAre` draws what the two programs rely on: names
and seeds that differ, a bench and a target that both read alike. `JobsOnce` counts:
the jobs are joined from blocks, one for each scenario that runs and with one job for
each of its seeds, so no two jobs have the same name and seed and there are as many as
runs that are due. `DriverRuns` applies it to the list as it is, `SweepRuns` to what
the group `all` selects, which is every scenario that is not blocked (`AllSelects`,
from the check `Grouped`). Two hypotheses are needed, and no program checks either: a
group that names a scenario twice sweeps it twice (`TwiceInAGroup`), and a T1 list
that included one of another bench would have the driver leave out what the sweep
runs. The lists in `testlists/` do neither: only `all.toml` includes any.

### DvPerfProofs

From `PerfAssumption` (the overrides may be empty, tolerances are naturals, what a
run measures has its type, the external model answers with naturals and gives no bytes
without messages):

* `TablesAreTyped`: `Spec => []PerfInv`;
* `GateIsCheck`: `Spec => []GateAgrees`;
* `CheckHonest`: `Spec => []CheckIsHonest`.

That a run which was not warned used the current tables is not inductive. `PerfInv`
adds that a bench whose stamp has nothing newer holds the tables as they are, and
that the same is true of a build which has compiled and since whose start no table
was written: it outlasts edits of the YAML files, a `targets` that is killed between
the tables, and a failed build. The rest of `PerfInv` is that a run's gate was worked
out from some table of naturals with the targets that the run remembers. `GateAgrees`
then is a comparison of the two judgements, check by check: for rates, caps and cycles
of any size, the rounded cap is within half a digit of the cap (`JNumIsNear`), so the
two bounds can part only a rate that is that close to the cap plus one flit
(`AboveByOne`), and every other check reads the same numbers. `CheckIsHonest` is an
estimate of the rounding (`Rounded` moves a figure by half a digit at most, which is
less than `Drifts` allows, and what `Drifts` allows is what `Met` takes off).

### FoldLemmas

The sums and unions of the models are folds of the community modules, which are
defined by a CHOOSE of a recursive function. `FoldExists` shows that there is one,
and `SmallestSubset` is the induction: a nonempty family of subsets of a finite set
has a member of which no smaller subset is in it, so an induction over finite sets is
a proof that there is no smallest counterexample. `SumIs` is the use of both that the
coverage and the performance gate share. `FlattenIs` does the same for sequences that
are joined: what is in the result, and that nothing is in it twice if each of them and
every two of them are free of repetitions.

**Model-checked only.** `PlanRebuilds` (the corrections are folded over sequences with
SelectSeq and operators as parameters, which the provers do not read; nor is it true in
general, section 5); of the performance gate `RunMatchesTable` (divisors and sums over
bursts, and which links the external model gives data); `EveryPassCounts`, which is not true in
general (finding 2); and liveness, which the proof system cannot handle together with
fairness. The theorems about the credit loop
are about the sessions of `AouSession`, which by `SessionImplemented` are those that two
activation controllers provide; that the two specifications may be put together, the
credit loop of one direction in the place of what `AouSession` leaves open, is an
argument on paper.

## 7. Not modelled

Of the core: receive decoding and the ring of the transmit core (movement of 80-bit
granules; the models begin and end at the message FIFOs), the AXI side (resource-plane
datapath, early write response, splitting, sizing, aggregation, QoS, watchdog, error
log: their state is per AXI ID and beat, and no module here has that traffic), FDI
bring-up (any sequence of link up and down is allowed instead), the APB bridge
(register accesses are atomic). In the activation model: the place of a message in a
flit, the registers except the start bits, the values of the wait limits, the content
of credited messages. In the credit loop: aborts by a fallen link, messages of
different size in one class, a mapping of planes that is not the identity, the ready
signal of `CrdtGrant`, `I_CREDIT_BLOCK`.

Of the verification flow: the UVM benches and VIP (their schedule is the simulator's),
`convert_runlists.py` (a one-off that is kept for the record), `gen_dv_docs.py`,
`cov_summary.py`, `listyaml.py` (text in, text out), the lint checks, the readers of
wave files and of LSF's accounting. In the modelled programs: the parsers of TOML and
YAML, LSF job scripts, metrics, printing and layout of reports, the fields
`expect_fail` and `run_modes` of the lists, the branch, kind and severity columns and
the prose around the table of the drafts, `--ss` and the fixed-size windows of the
performance model, and the comparison of compile defines in `stale_build.py`. A
selection that names an unknown scenario selects nothing in the model and is an error
in the code.
