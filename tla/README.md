# A TLA+ development of muaddib

muaddib simulates a capability kernel: unforgeable, revocable, attenuation-only
capabilities (`crates/capability`), processes with their own handle tables and a
cooperative round-robin scheduler (`crates/process`), channels that carry data and
capabilities (`crates/ipc`), byte regions handed from process to process
(`crates/memory`), Lamport and vector clocks that stamp every event
(`crates/clock`), and workloads that run on all of it (`crates/workload`).

The program is single-threaded. What makes it hard is not threads but the
*interleaving of simulated processes*: a `Capability` is a `Copy` value, so a process
may keep copies of what it handed on and present them after any sequence of other
processes' calls, while messages with capabilities wait in queues. Most of what the
documentation promises (`docs/design/KERNEL.md`, "Invariants") quantifies over all
those histories, and a unit test reaches only a few of them.

## Inventory

| Component | State | Operations | Talks to | What is hard about it |
|---|---|---|---|---|
| Capability kernel, `capability/src` | `next_id`; `epochs`: the current epoch of each object that exists | `new_object`, `check`, `derive`, `revoke`, `reissue`, `destroy_object`, `object_exists` | called by everything | untracked copies of capabilities, presented at any later time |
| Grant batches, `process/src/transfer.rs` | none of its own: the source's table, the kernel's epochs, a batch of `Transfer`/`Derive`/`Move` | `resolve_grants` (validates everything), then `apply_grants` (every effect) | kernel, a process's table; called by `spawn_child` and `send` | all-or-nothing over several loops, two grants that interfere, an `expect` that must not fire |
| Processes and scheduler, `process/src/process.rs`, `scheduler.rs` | per process: table, `next_handle`, clock; `next_process_id`, `ready_queue` | `grant`, `capability`, `take`; `spawn`, `spawn_child`, `schedule_next` | kernel, grant batches, clocks | exclusivity of a handoff, fairness, handle counter |
| Channels, `ipc/src` | `queues`: the messages (data, capabilities, stamp) of each channel | `new_channel`, `send`, `receive`, `queue_len` | kernel, grant batches, processes, clocks | capabilities in flight while their objects, or the channel, are revoked, moved or destroyed |
| Logical clocks, `clock/src` and the clock half of `Process` | per process a Lamport time and a vector | `local_event`, `send_event`, `receive_event`; `causality`, `total_order_key` | advanced by `send`, `receive`, `spawn_child` | the stamps of any two events, however far apart, must tell what influenced what |
| Memory regions, `memory/src` | `regions`: the bytes of each region | `new_region`, `read`, `write`, `inspect`, `update`, `size`, `destroy_region`, `reclaim` | kernel; regions travel as capabilities through channels | two tables (kernel, registry) that must agree; stale writers; integer overflow in ranges |
| Batch pipeline, `workload/src/pipeline.rs`, `data.rs` | the whole system; the stages' handles, the producer's free regions, results, statistics | `new` (boot), `run`, `step` | a client of every crate | one wrong view, epoch or handle surfaces many turns later; stalls; the turn order; what the stamps of a whole run say |
| Baseline, `workload/src/baseline.rs` | plain queues and buffers | `run_baseline` | none | kept equal to the pipeline by hand |
| Chaos harness, `workload/src/chaos.rs` | the whole system; a shadow model (regions, mirrored tables, messages in flight), the stash of every capability ever held, the stamps with their predecessors | `World::new`, nine operations, `sweep`, the injected fault, `check_causality` | a client of every crate | an oracle that must agree with the system on every sequence of calls, or its verdicts mean nothing |
| Random numbers, binaries, benchmark | none beyond a call | printing, argument parsing, timing | | not modelled: nothing but I/O and arithmetic |

What makes each of them correct:

* **kernel**: revocation is final; no ancestry of derivations amplifies; `reissue` leaves
  one strength of authority. As an abstract specification: `Authority.tla`.
* **batches**: refused means untouched; accepted means exactly what the batch says;
  never a panic, never a capability that is dead on arrival.
* **processes, scheduler**: a `Move` leaves one process able to use the object; everyone
  keeps getting turns; a handle keeps its meaning while it is held.
* **channels**: from `send` to `receive` a moved capability is the only one that works;
  entries are neither lost nor duplicated; what is lost with a channel stays lost.
* **clocks**: `happened_before` holds exactly when the event could have influenced the
  other; the Lamport order with ids is total and extends it.
* **memory**: live regions keep their bytes; nobody touches a region in flight, or one
  whose object is gone; no accepted range leaves the region.
* **pipeline**: no call is refused and no process has more than it needs, each region has one
  owner and carries its share, the results are those of the reference, at the promised rate,
  every turn is a turn of the baseline, and the trace's stamps tell the schedule.
* **chaos harness**: it complains if and only if there is something to complain about, about
  the clocks too.

## Modules

```
CapabilityOps ──┬── Kernel ── (refines) Authority
                ├── TransferOps ──┬── TransferCall
                │                 └── ProcessOps ──┬── Scheduler ── Ipc ── Memory
                └── MemoryOps ───── (also Memory) ─┴── SystemOps ──┬── Chaos
                                          DataOps ──┬──────────────┴── Pipeline ──┐
                                                    └── Baseline (refined by Pipeline)
ClockOps ──┬── Causality ── CausalAudit                                     ├── PipelineTrace
           └────────────────────────────────────────────────────────────────┘

CapabilityLemmas ──┬── KernelProofs        (of Kernel)
                   ├── TransferProofs      (of TransferCall)
                   ├── MemoryProofs        (of Scheduler, Ipc and Memory)
                   ├── PipelineProofs      (of Pipeline and PipelineTrace; BaselineProofs by INSTANCE)
                   └── ChaosProofs         (of Chaos)
BaselineProofs (of Baseline)    CausalityProofs (of Causality and CausalAudit)
```

`*Ops` modules are pure: operators on capabilities, tables, batches, regions, clocks.
The others have the variables, one action per operation. `MC*` modules and `.cfg` files
are the instances, `*Proofs` and `CapabilityLemmas` the theorems; nothing a run checks depends
on them.

* **`CapabilityOps`** – rights as sets, a capability as a record, `check` with its verdicts
  in the order the code tests them.
* **`Kernel`** – the kernel and the strongest possible caller: `minted` (history) holds every
  value ever returned, and every operation may be called with any of them, at any time.
  Nothing else can be presented, since `Capability` has no public constructor, as long as there
  is one kernel (see what is not modelled).
  `Authority` states what that amounts to, with no epochs and no values: per object, which
  sets of rights someone can exercise.
* **`TransferOps`** – when a batch is accepted, what it delivers, what it leaves.
  **`TransferCall`** – the same batch as the code runs it, one loop iteration per step, with
  the early returns; it is shown to compute `TransferOps`, which licenses the atomic use
  everywhere else (the callers hold `&mut Kernel` and `&mut Process` throughout the call, so
  nothing can interleave).
* **`ProcessOps`**, **`Scheduler`** – tables, the `grant` that fills them (with the wrap of the
  handle counter), `spawn`, `spawn_child`, `schedule_next`, and what a process does by itself, at any time
  and with any value it has had: `new_object`, `derive`, `revoke`, `reissue`, `destroy_object`, and
  `grant` of a copied value.
  `known` (history) is what a process has ever had and may have copied.
* **`Ipc`** – `Scheduler` plus channels. `moved` in a message (history) marks what a `Move`
  put there.
* **`MemoryOps`**, **`Memory`** – `Ipc` plus regions. Destroying a region's object through the
  kernel, behind the registry's back, is an ordinary step here.
* **`ClockOps`**, **`Causality`** – clocks. `history` records each event's *real* past from
  program order, messages and births, never from a clock; the properties compare the stamps
  with it. Any process may use any channel here, a superset of what capabilities allow: no
  guard of the program reads a clock, so nothing is lost.
* **`DataOps`**, **`Baseline`** – the deterministic pipeline with plain queues. A region's
  contents are the list of what was done to make them, which keeps apart everything the
  order-sensitive transforms and the checksum keep apart (up to hash collisions).
* **`SystemOps`**, **`Pipeline`** – the same pipeline on the kernel. One step is one turn of
  `run`, so all the calls of the turn are in it: `SystemOps` gives each call as a function from
  a system state to the next, `Then` is the `?` after it, and a refused call leaves `failed`
  behind and ends the run.
* **`PipelineTrace`** – `Pipeline` with the clocks of `ClockOps`: the supervisor's spawns and the
  children's births at boot, one event per `send` and `receive` of a turn (several where the
  producer drains its returns), the stamps waiting in the channels, and `report.trace`. The
  actions are those of `Pipeline`, each with what it does to the clocks.
* **`CausalAudit`** – the part of the harness that checks the clocks, on the events of
  `Causality`: `record_event` at each call, as the operations of `execute` do it, and
  `check_causality` as an operator, with `reach` computed row by row.
* **`Chaos`** – the harness: `sys` is the system of `SystemOps`, `model` the shadow model, whose
  predictions are translated from the harness and share no definition with the kernel's. An
  action is one step of `run_steps`: an operation with its comparison, the fault if its step has
  come, the audit. What the seed decides is an arbitrary choice, so the fault may come at any
  step; a run without a fault is one in which it never comes. A refused call is a step here too,
  since what is compared is the refusal.

Two things are the same everywhere else. A call that is refused changes nothing and is a
stuttering step (refusals are checked where they matter: in `TransferCall`, in
`VerdictOnlyDegrades`, in `NoCallFails`). And identifiers (`ObjectId`, `ProcessId`, epochs:
`u64`) are unbounded naturals, while the two that are narrow or come from outside keep
their width: `Handle(u32)` as `HandleSpace`, `usize` as `UsizeValues`.

## Runs

`CHECK_DEADLOCK FALSE` throughout: calls return, runs complete, and the bounded
systems exhaust their bounds.

| Run | States | Question |
|---|---|---|
| `kernel` | 49,953 | Whatever is presented in whatever order: is revocation final, is nothing amplified, does the kernel implement `Authority`? |
| `transfer_call` | 43,854 | Do the two functions, loop by loop, compute `TransferOps` on every batch of up to three grants, over working, attenuated, stale and destroyed capabilities? |
| `scheduler` | 30,011 | Is the queue fair, is a move to a child exclusive? |
| `ipc` | 1,088,649 | With every kind of grant in flight: is a moved capability alone, are entries conserved? |
| `ipc_channels` | 1,582,970 | The same for channels moved through channels, each other and themselves; and what is lost with a channel, does it stay lost? |
| `causality` | 163,992 | Do the stamps tell the truth about every pair of events, and does the harness's audit of the clocks take the truth for the truth? |
| `memory` | 199,521 | Do kernel and registry agree, is a region in flight frozen? |
| `baseline` | 4,305 | Right results, bounded queues, full rate, completion, on 160 configurations. |
| `pipeline` | 4,305 | The same configurations on the kernel (`PipelineTrace`): no refusal, no excess of authority, one owner, the whole pool in use, the baseline's turns exactly; and do the trace's stamps tell exactly what the schedule let each event know? |
| `chaos` | 51,653 | Do shadow model and system agree on every answer and every state, and is an injected fault caught at once? |
| `handle_wrap` | violation | `HandlesAreFresh`, see the findings. |
| `unknown_channel` | violation | `DestroyedChannelIsUnknown`, see the findings. |

### What the properties say

* `VerdictOnlyDegrades`, `NoResurrection` (`kernel`): once refused as revoked or unknown, always
  refused; an object nobody can use stays out of reach, whatever old capabilities are
  replayed. `NothingFromTheFuture` is the invariant behind it, `WithinTheRoot` is attenuation
  over a whole ancestry, `ImplementsAuthority` the refinement.
* `RefusedChangesNothing`, `ComputesTheBatch`, `NoPanic`, `NothingDeadOnArrival`
  (`transfer_call`): all-or-nothing, and the two conflict checks
  earn their place: without one the `expect` fires or a delivery is dead.
* `QueueIsAPermutation`, `EveryoneGetsATurn`, `HandoffIsExclusive` (`scheduler`): each process
  waits exactly once, comes to the front for ever; after a `Move` only the child can use the
  object, whoever kept copies or derived views.
* `MovedIsSoleAuthority`, `EntriesAreConserved` (`ipc`, `ipc_channels`): from `send` to
  `receive` a moved capability works and no other one for its object does, in no table,
  memory or message, also when its channel was revoked meanwhile.
* `StrandedForever` (`ipc_channels`): messages in a channel that is destroyed, or out of everyone's
  reach because it was moved through itself, are never delivered, by whatever old capability, and
  no later channel gets them. It is the safe side of a leak: nothing drops such a queue.
* `StampsDecideCausality`, `StampsIdentifyEvents`, `TotalOrderExtendsCausality`,
  `NobodyKnowsTheFuture` (`causality`): `happened_before`, `Equal` and `Concurrent` mean what
  they say; the total order is one.
* `AuditIsExact` (`causality`): the predecessors the harness notes, one event at a time, reach
  exactly the event's real past (`history`, which the audit does not see), so its complaint about
  two stamps is never its own mistake, and on correct clocks it never comes.
* `LiveRegionsKeepTheirBytes`, `InFlightIsFrozen`, `DestroyedStaysUntouched`
  (`memory`): nobody with a working capability is told `UnknownRegion`; a receiver finds the
  bytes the sender left. The type invariant, which includes those of `Scheduler` and `Ipc`, adds
  that no accepted range wraps around.
* `ResultsAreTheReference`, `LockStep`, `AtFullRate`, `Completes`
  (`baseline`): the results are the reference's, once each and
  in order; no queue ever holds more than one message and no region is lost; a batch starts in exactly those rounds
  in which a region is free (the point of the downstream-first order of ADR-006: spawn order
  reversed, this property fails and every other still holds).
* `NoCallFails`, `LeastPrivilege`, `OneOwnerPerRegion`, `RegionsRotate`, `ImplementsBaseline`
  (`pipeline`): least privilege never gets in the way, and it is least: no handle piles up over the
  run, no view can be used or passed on otherwise than intended; batch b travels in region b mod
  pool, which no result would show; one working capability per region, ever; turn by turn the baseline with
  the same contents, results and statistics, which is the differential test for every
  configuration of the run. With it the baseline's properties carry over.
* `StampsTellTheSchedule` (`pipeline`): one event of a run happened before another, by the
  stamps, if and only if the schedule let it: earlier in the same process, upstream with the same or
  an earlier batch, or part of a batch whose region was back before the other batch started.
  Everything else is concurrent. The tests look at single chains (one batch's hops, one region's
  laps, some concurrent pair); this is the whole relation, for every pair of a run.
* `FailsExactlyOnFault`, `ModelIsExact` (`chaos`): no sequence of spawns, sends, accesses, stale
  replays, revocations and destructions makes the oracle and the system disagree, so a failing
  seed is never the oracle's mistake, and a corrupted byte is found by the audit of the same
  step. `ModelIsExact` says more than the audit looks at: capabilities in flight, epochs, bytes
  nobody can read, completeness of the stash, one handle per channel in every table.

### Bounds, and why they are enough

Every bound is a named constant that occurs in a guard.

* Objects, epochs: two objects, because the interesting interference is between
  an object and the channel it travels through (or another channel); an object never
  affects a third one's epoch. Two revocations of one object give a capability that is stale
  by one and by two.
* Processes: two exchange anything through a channel; the scheduler takes three, two of them
  possible roots, so that spawns fall between turns; causality takes three, so that knowledge
  passes through a third party.
* Batches: `transfer_call` takes up to three grants, since a conflict is between two and the
  third shows what surrounds it. `scheduler` takes all batches of two, `ipc` a move next to a
  derivation.
* Copies granted again: those with the rights of a plain object's or a region's own capability
  (`Regranted`); none in `ipc_channels`, where a view derived for oneself is the second entry for
  a channel.
* Queues: two messages in a channel (one in `memory`, where the second adds only states).
* Regions of 0 and 2 bytes with a `usize` of 4 values: every offset and length, the
  overflowing ones included, is tried.
* `chaos`: one region, shared, moved, revoked once and destroyed, between two processes that
  hold up to three capabilities each; batches of up to two grants contain every duplicate and
  every conflict. Two regions in one batch are left out: an oracle that took two moves of different
  regions for a conflict would pass.
* `causality`: seven events of three processes, up to three of each, so that a past reaches
  through a third party and back, and a process spawned by a spawned one has events of its own.
  The harness spawns one root process; the run allows two, so that processes with no common past
  meet, which the proofs cover for any number.
* Configurations: batches up to 7, pools up to 4, up to 3 stages: pools smaller than, equal to
  and larger than the ring, no batch, no region, no stage. The program is deterministic, so
  each configuration is one behaviour. With 7 batches every region of a pool of 3 comes round
  twice, and a pair of events can be two laps apart.
* Symmetry only between channels in `causality`: processes are ordered by id there, and
  elsewhere ids are numbers handed out in order.

### Fairness

`Scheduler` assumes weak fairness of `ScheduleNext`: a driver keeps handing out turns, as
`KernelPipeline::run` does (its loop calls `schedule_next` in every iteration, and a spawn
cannot disable it). `Baseline`, `Pipeline` and `PipelineTrace` assume weak fairness of `Next`: the loop goes on
until it returns. Nothing assumes that a process makes any particular call.

### Findings

* **`handle_wrap`** – `next_handle += 1` (`process.rs:55`) is a `u32` that wraps in a release
  build, and `HashMap::insert` then replaces what the process still holds, against "under a
  fresh handle" (`process.rs:51`). It takes 2^32 grants to one process; the run uses a handle
  space of 3. The table need not be full: the property asks only for as long as a handle is left.
* **`unknown_channel`** – `send` and `receive` ask the kernel before the registry, so a
  destroyed channel yields `CapError::UnknownObject`, never the `UnknownChannel` whose message
  says "or it was destroyed" (`ipc/src/lib.rs:46`). The message of `UnknownRegion`
  (`memory/src/lib.rs:23`) has the same wording and the same order of checks behind it. It is a
  minor one: the call is refused either way, and nothing is delivered or lost; only a caller that
  tells the two errors apart, as the message invites it to, looks for the wrong one.

## Proofs

TLC checks small instances; the theorems are for every value of the constants, and rest on the
modules' named assumptions only (bounds are naturals, requests are sets of rights,
configurations are triples of naturals), except where this section names another. Each
invariant was first checked by TLC (of `TraceInv`, whose counts are quantified, its consequence for the
stamps), and is a conjunction of parts that are preserved one by one.

| Module | Theorems |
|---|---|
| `KernelProofs` | `TypeCorrect`, `NeverFromTheFuture`, `RevocationIsFinal`, `NoResurrectionEver`, `AttenuationOnly`, `Refinement` |
| `TransferProofs` | `NeverPanics`, `RefusalChangesNothing`, `LoopsComputeTheBatch`, `DeadOnArrivalNever` |
| `MemoryProofs` | of `Scheduler`: `QueueHoldsEveryoneOnce`, `MovesAreExclusive`; of `Ipc`: `NothingElseWorksInFlight`, `LostChannelsStayLost`, `EntriesAddUp`, `HandlesStayFresh`; of `Memory`: `AccessesStayInBounds`, `KernelAndRegistryAgree`, `NobodyTouchesWhatIsInFlight`, `DestroyedBytesStay` |
| `BaselineProofs` | `ResultsAreCorrect`, `RegionsCirculate`, `RateIsFull` |
| `CausalityProofs` | `ClocksStayExact`, `CausalityIsDecided`, `EventsAreIdentified`, `TotalOrderIsCausal`, `FutureIsUnknown`, `CausalityTypeCorrect`, `AuditNeverErrs` |
| `PipelineProofs` | `CallsSucceed`, `PrivilegeIsLeast`, `OneOwner`, `PoolRotates`, `StepsAreTheBaselines`, `PipelineComputesTheReference`, `PipelineIsAtFullRate`; of `PipelineTrace`: `TraceTellsTheSchedule` |
| `ChaosProofs` | `HarnessIsRight`, `ModelStaysExact` |

`CapabilityLemmas` is what they share about `check`: its four verdicts exclude one another and
cover every case, and `Permits` is exactly "live, and the rights are there".

**`KernelProofs`.** The inductive invariant is the type invariant (with every `minted` capability
below `next_id`) together with `NothingFromTheFuture`. `WithinTheRoot` needs no more than
that each operation's new capability is bounded by one already minted. For `VerdictOnlyDegrades`
(`RevocationIsFinal`) the invariant matters: an epoch only grows and no capability is ahead of
it, so a capability that is behind stays behind; and ids are not reused, so a destroyed object
stays unknown. `NoResurrectionEver` adds that whatever is minted in a step comes from a live
capability or a new object. `Refinement` maps every action to one of `Authority`: `Revoke` to
`WithdrawAll`, `Reissue` to `HandOver` (the mapped set collapses to the one reissued strength,
because nothing in `minted` had the new epoch already: `NothingFromTheFuture` again).

**`TransferProofs`.** The invariant has a disjunct per phase of the call, indexed by how far the
loop is: `Resolving` (the placeholders so far are those of resolvable grants, nothing has
changed), `Checking` (no move conflicts with an earlier grant), `Applied(n)` (table and epochs
are those of `TransferOps` for the first n grants, and what has been delivered is what the
batch says). An early return leaves with table and epochs untouched and a batch that
`ValidBatch` rejects. That the `expect` cannot fire is the meeting of two phases: what the first
loop resolved is still in the table, because the second refused every batch in which an earlier
grant would have taken it out. The theorems hold for batches of any length.

**`MemoryProofs`, scheduling.** `SchedulerInv` is the type invariant with the composed analogue of
`NothingFromTheFuture`: nothing a process knows is ahead of the kernel's ids or of its object's
epoch. `QueueInv` (the queue is as long as there are processes, and holds them all) gives
`QueueIsAPermutation`. `HandoffIsExclusive` is an action property: a step in which a parent moves
something gives the child the only capability at the new epoch, since nothing known was
already there, and no step of another kind gives anyone a way to an object nobody could use
(`Harmless`). Under "Handles" is what the channels' theorems need of the counters.

**`MemoryProofs`, channels.** `IpcInv` adds the queues: well-formed messages, nothing in flight ahead of the
kernel, and `MovedIsSoleAuthority` itself. The proof follows one message through a step by the
place it had before (`Kept`), because a place shifts when the front of its queue is taken; a new
message's moved capability is alone because its epoch is new, and an old one's stays alone
because no operation produces a capability for an object except from one that works. From the
summary of what a step may do (`IpcStep`), `StrandedForever` follows: a channel nobody can use
gains no user, and a channel's messages change only by a call through it.

`EntriesAreConserved` and the freshness of handles need a hypothesis, `HandlesDoNotWrap ==
MaxGrants < HandleSpace`: no process is granted as many entries as there are handles (2^32 in the
code). It is not an assumption of the module but stands in the two theorems, because the code does
not ensure it; the run `handle_wrap` shows what happens when it fails. With it every handle in a
table is below the counter, so a grant extends the table, and `Ledger` (entries issued = entries
in tables + entries in flight) is inductive.

**`MemoryProofs`, regions.** `MemoryInv` is `IpcInv`, the registry's shape and `LiveRegionsKeepTheirBytes`:
the registry drops a region only if the kernel no longer knows its object, or in the call that
destroys both. The
two action properties come from one fact about a step (`BytesOnlyBy`): bytes that exist change only
by a call with a capability its caller knows and `check` accepts. A region in flight has none
(`MovedIsSoleAuthority`), a destroyed one cannot have any.

**`BaselineProofs`.** The invariant is a closed form of the whole state, `BaselineInv`. The
message in channel i carries batch *next_batch* less the number of occupied channels up to i, with exactly
the first i transforms done (`MessagesOK`); the results are those of all batches that are no longer
in a channel (`ResultsOK`); regions add up to the pool (`RegionsOK`); and the channel that the next
process writes to is empty (`ScheduleOK`), which is what downstream-first means and why no queue
grows. For the rate, `RateOK` says when each channel is occupied: round r of the schedule is
`scheduler_turns \div processes`, and channel j holds a message, between its writer's turn and its
reader's, exactly if a batch left j rounds ago (`Occupied`). Whether the producer finds a region is then
arithmetic: of the last *stages* rounds, as many sent a batch as have a remainder modulo
*stages + 1* below the pool's size (`Window`), which is fewer than the pool exactly when this
round's remainder is below it too (`SomeoneIsBack`, `NobodyIsBack`).

**`CausalityProofs`.** None of the four properties is inductive. The strengthening `Inv` says what
vector clocks really keep: a stamp's entry for process q *counts* the events of q in the event's
past (itself included), and that past contains exactly q's first that many events (`ExactAt`);
pasts form a strict order both clocks follow (`OrderedAt`); a process's clock is the stamp of its
last event (`Clocks`); a stamp in a queue is the one of the event that sent it. Each event
(local, send, receive, birth) is one use of `Record`, so the core is `RecordExact`: recording an
event with the ticked merge of what it has heard keeps `Inv`, whatever was heard. From
exactness, comparing two vectors reduces to whether one event's own count is known to the
other (`Verdicts`), which gives `CausalityIsDecided` and `EventsAreIdentified`;
`TotalOrderIsCausal` follows from the Lamport half of `OrderedAt`.

For the audit, `Faithful` relates the harness's notes to the history: its log names every event
once, in an order in which each event comes after its predecessors, and the past of an event is
its predecessors and their pasts. `check_causality` computes reachability row by row; `Row` is
that recursion's closed form, the real past, so `AuditNeverErrs` needs of the clocks only what
the other theorems say.

**`PipelineProofs`.** `PipelineInv` is a closed form of the whole system between turns. Of the
batches it says what the baseline's invariant says (`BP!BaselineInv`, the invariant of
`BaselineProofs` under the refinement mapping); `Own` adds what the baseline has no words for: each
process's two views, at epoch 0 (`ViewsOK`); the tables' domains (`TableDomainsOK`); that a message
of batch b brings one capability, for region b mod pool, at that region's current epoch (`QueuesOK`);
that the k-th free region is the one for the k-th batch from now (`FreeOK`); how many handles each
process has used (`HandlesOK`); that of everything ever held for a region only what the producer has
among its free regions works (`HeldOK`); and that every region is free or on its way (`CoveredOK`).
That no two places have the same region is not in the invariant: it follows because the batches
under way and the free regions together are one pool's worth of successive numbers
(`BatchesInOrder`, `DifferentRegions`). This is where ownership leans on the schedule, and why neither
half of the invariant could be proved without the other.

A turn is a chain of calls, so each call first gets a lemma that says what it returns when it is not
refused (`ReceiveOne`, `SendOne`, `Updating`), then each turn one that puts them together (`PassingOn`
for a hop, the draining and the sending half of the producer's turn), then one for the invariant
(`HopKeeps`, `DrainKeeps`, `SendKeeps`), and one for what the baseline sees of it (`HopViews`,
`DrainViews`, `SendViews`). Boot is an induction on the children spawned (`BootedIs`), with the
state after k of them in closed form (`BootState`).

The hypothesis `HandlesSuffice` says that no handle counter wraps: the supervisor is granted a handle
for every object, the producer one per region it starts or gets back with, every other process one per
batch, and these are fewer than there are handles (2^32 in the code). The configurations of the run
satisfy it, and the code does not ensure it: it is the limit that `handle_wrap` is about. Nothing else
is assumed; an empty pool, no batch and no stage are included.

Of the clocks, `TraceTellsTheSchedule` proves `StampsTellTheSchedule`, of unfinished runs too. `TraceInv` adds to
`PipelineInv` that there are counts, for each place in the ring the batches received (`got`) and sent
(`done`) there, such that:

* the trace is a log of exactly those events, each place in turn (`Log`), so what an event is told
  (`Told`: what `Knows` says, of any log) can be computed when it is added: it is what its *sources* were
  told and the sources themselves, its process's last event and, of a receive, the send of the message
  (`Sources`, `Heard`). The last case of `Knows` is where this is not obvious: the producer, starting a
  batch, has received what has returned since, and passes that on with everything downstream of it;
* a process's own entry in a stamp is at most its entry in another exactly if that other is told of it,
  and then all entries are at most the other's and the Lamport time is less (`Stamps`, kept by `Recorded`);
* a clock is the stamp of its process's last event (`Current`), a message under way carries the stamp of
  its send (`Mail`), and the counts agree with the channels (`Matches`): this ties the log to the system,
  whose turns hand over one message at a time (`PassesOn`, `StartsBatch`, from the proofs of the turns).

From the second point the theorem follows without the rest (`StampsTell`). Boot matters, because the
children start with the supervisor's entry and with a Lamport time of their own (`ClocksAtBoot`).

**`ChaosProofs`.** `FailsExactlyOnFault` is far from inductive: that the audit finds nothing says nothing
about what it does not look at. The invariant is `Exact(sys, model, stash)`, that system and model say the
same, part by part: epochs and bytes of living regions, with the channels at epoch 0 (`ObjectsOK`); the
tables, each with handles below its counter and exactly one handle per channel, from which a child's
view can be derived (`TablesOK`); the queues, which are what the model's messages show (`FlightOK`,
`Shown`), and in which no channel ever travels; and the stash, whose pairs are what anybody was ever
given, twice (`StashOK`). The audit is a consequence: `SweepPasses` says it accepts exact states, `SweepFinds`
that a byte flipped in an auditable region never escapes it, since whoever the capability was given to, it
is in the stash and still works.

The rest compares the two programs. `Predicts` shows `predict_check` and the kernel's `check` to give one
verdict, although the model keeps dead regions and the kernel forgets dead objects; `PredictsBatch` that
`predict_batch` accepts exactly the batches that `ValidBatch` does; `ResolvedIs` that the capabilities it foretells
are those delivered; and `AppliedIs` that the model is left with the epochs, the table and the regions
the kernel is left with. A child's batch is the views of every channel followed by the grants:
`JoinedBatch` shows that the views are refused by nobody, conflict with nothing and take nothing away, and
`FirstTable` where they land. `StepKeeps` puts a step together: if the operation returns what was
predicted and leaves an exact state, the step keeps the invariant, with the fault or without.

The hypothesis, also called `HandlesSuffice`, is that no handle counter wraps: neither at boot nor up to
`MaxHandles`, the bound up to which a process is granted handles here. The harness itself reads the handles of a
child in ascending order and takes them for those of the delivery in order, which is so until the wrap.
`ChaosAssumption` says of the sizes that they are values of a `usize`, and positive for regions allocated
later, as the code draws them.

**Recursion.** A recursive function (`f[n \in 0 .. k] == ...`: `reference_checksum`, `waiting`, `reach`, `drain`) is
a `CHOOSE`; the proofs exhibit a closed form that satisfies the equation, so that the chosen
function does, and show that a least argument at which the two differ cannot exist (`LeastOf`, from
the well-foundedness of the naturals). `RECURSIVE` operators are beyond the proof system, and so are the
library's induction theorems, whose parameter is an operator.

**Only model-checked**: liveness (`EveryoneGetsATurn`, `Completes`, and the fairness in
`ImplementsBaseline`), which is out of reach because it depends on `ENABLED`.

## Not modelled

* A second kernel. Object ids are counters of one `Kernel` and a capability carries no kernel
  identity, so a capability of another kernel can name a real, unrelated object of this one
  (ADR-004, "Known gap"; `capability/src/lib.rs:220` presents one whose id is unknown here). Every
  workload uses one kernel, and every module assumes it.
* The random number generator (a fixed 64-bit permutation: at a smaller width it is another
  function, and what its callers do with any value it yields is modelled), binaries, benchmarks; of
  the chaos harness its log, its counters and the conversion of panics into failures.
* `data: i64` of a message in `Ipc`: the registry never looks at it (`Pipeline` carries the batch
  number).
* `Process::take` as an operation of its own: it is public, but only `apply_grants` calls it.
* The baseline's optional clocks: no result or statistic depends on them, and no trace shows them.
* `KernelPipeline::try_send_as` as a step: a probe for tests the pipeline never calls. What it
  could do is bounded by `LeastPrivilege`, with one exception the kernel does not rule out: a
  `Grant::Transfer` asks for no right, so a stage could put one of its own views into a message
  (deriving from it or moving it is refused).
* Reading accessors (`handles`, `queue_len`, `region_count`, `read`, `size`): no state changes.
* Memory exhaustion, and the wrap of the `u64` counters.

A queue outlives its channel: destroying a channel's object leaves its messages in the
registry, unreachable, and the objects moved into them with them. No document promises
otherwise, so it is listed as a hazard and not as a finding; `StrandedForever` shows what holds
of it.

## Plan

Done: the kernel with its refinement; batches; processes and scheduler; channels; clocks; memory;
baseline and pipeline with the refinement; the chaos harness; the clocks composed with the pipeline
and with the harness's audit. The order followed what the documentation stakes most on:
revocation, exclusive moves, causality. Proved: every safety property of the modules below the
workloads, of the baseline, of the pipeline with its trace, and of the harness with its audit of the
clocks.

Left: that the configurations in use keep below the number of handles (`HandlesSuffice`) is a hypothesis,
as the code has no check of it; liveness stays with TLC.
