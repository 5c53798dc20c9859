------------------------------ MODULE Pipeline ------------------------------
(* `workload/src/pipeline.rs`: the batch pipeline as a client of kernel,    *)
(* scheduler, channels and regions. Each step is one turn of `run`, with    *)
(* every call the process makes in it. Baseline.tla is the same program     *)
(* with plain queues; this one implements it.                               *)
(*                                                                          *)
(* Boot is `KernelPipeline::new`. Object ids follow its allocations: the    *)
(* channels c_0 .. c_stages, the return channel, the pool's regions; so do  *)
(* the supervisor's handles.                                                *)
EXTENDS SystemOps, DataOps

CONSTANTS Configs   \* `PipelineConfig`: batches, pool, stages

ASSUME PipelineAssumption == Configs \subseteq [batches : Nat, pool : Nat, stages : Nat]

VARIABLES
  config,
  sys,            \* kernel, processes, channels, regions: see SystemOps
  stages,         \* per process id: its role, input and output handles
  ready_queue,    \* `Scheduler.ready_queue`
  free_regions,   \* the producer's free regions, as handles of its table
  next_batch,
  idle_streak,
  results,        \* `report.results`
  stats           \* `report.stats`; `touched` is `bytes_processed` in regions

vars == <<config, sys, stages, ready_queue, free_regions, next_batch, idle_streak, results, stats>>

-----------------------------------------------------------------------------
(* Boot *)

processes(c) == c.stages + 3
Return(c) == c.stages + 1             \* the return channel's object and handle
Regions(c) == c.stages + 2 .. c.stages + 1 + c.pool

Supervisor == 0
Sink == 1
Producer(c) == c.stages + 2

\* The transformer played by process k: downstream first.
StageOf(c, k) == c.stages + 1 - k

\* The supervisor, with a full capability for every object.
Booting(c) == booted([o \in 0 .. c.stages + 1 |-> <<>>], [o \in Regions(c) |-> Zeroed])

\* Mutant: input and output views are swapped.
Views_swapped(input, output) == <<Derive(input, {"WRITE"}), Derive(output, {"READ"})>>

\* Mutant: a stage may pass its output on.
Views_grantable(input, output) == <<Derive(input, {"READ"}), Derive(output, {"WRITE", "GRANT"})>>

\* A stage may only read its input and write its output.
Views(input, output) == <<Derive(input, {"READ"}), Derive(output, {"WRITE"})>>

GrantsFor(c, k) ==
  CASE k = Sink -> Views(c.stages, Return(c))
    [] k \in 2 .. c.stages + 1 -> Views(StageOf(c, k), StageOf(c, k) + 1)
    [] k = Producer(c) ->
         <<Derive(0, {"WRITE"}), Derive(Return(c), {"READ"})>>
           \o [r \in 1 .. c.pool |-> Move(Return(c) + r)]

\* The children are spawned in this order; a refusal ends the boot.
Booted(c) ==
  LET after[k \in 0 .. Producer(c)] ==
        IF k = 0 THEN Booting(c)
        ELSE Then(after[k - 1], spawn_child(after[k - 1], Supervisor, GrantsFor(c, k)))
  IN  after[Producer(c)]

Init ==
  /\ config \in Configs
  /\ sys = Booted(config)
  /\ stages = [k \in 1 .. Producer(config) |->
                 LET h == sorted_handles(sys, k) IN
                 IF k = Producer(config) THEN [output |-> h[1], input |-> h[2]]
                 ELSE [input |-> h[1], output |-> h[2]]]
  /\ ready_queue = [k \in 1 .. processes(config) |-> k - 1]
  /\ free_regions = SubSeq(sorted_handles(sys, Producer(config)), 3, 2 + config.pool)
  /\ next_batch = 0
  /\ idle_streak = 0
  /\ results = <<>>
  /\ stats = [scheduler_turns |-> 0, idle_turns |-> 0, messages |-> 0, touched |-> 0]

-----------------------------------------------------------------------------
(* Turns *)

Completed == Len(results) >= config.batches
Stalled == idle_streak > processes(config)

input_cap(p) == cap_of(sys, p, stages[p].input)
output_cap(p) == cap_of(sys, p, stages[p].output)

\* Process p gets the next turn, and the calls it makes lead to `after`.
Turn(p, after, progressed, sent) ==
  /\ ~Completed
  /\ ~Stalled
  /\ ~sys.failed
  /\ p = Head(ready_queue)
  /\ ready_queue' = Append(Tail(ready_queue), p)
  /\ sys' = after
  /\ idle_streak' = IF progressed THEN 0 ELSE idle_streak + 1
  /\ stats' = [scheduler_turns |-> stats.scheduler_turns + 1,
               idle_turns |-> stats.idle_turns + (IF progressed THEN 0 ELSE 1),
               messages |-> stats.messages + sent,
               touched |-> stats.touched + sent]
  /\ UNCHANGED <<config, stages>>

SupervisorTurn ==
  /\ Turn(Supervisor, sys, FALSE, 0)
  /\ UNCHANGED <<free_regions, next_batch, results>>

Stages == 1 .. config.stages + 1

\* `receive` and the region it must have brought: a message without one is an
\* error (`MissingRegion`).
receive_region(s, p) ==
  LET queue == waiting(s, input_cap(p)) IN
  IF queue # <<>> /\ Head(queue).caps = <<>> THEN Failed(receive(s, p, input_cap(p)))
  ELSE receive(s, p, input_cap(p))

\* The message p receives, the handle of its region, and the state with it.
message(p) == Head(waiting(sys, input_cap(p)))
received_region(p) == sys.next_handle[p]
received(p) == receive_region(sys, p)
received_cap(p) == cap_of(received(p), p, received_region(p))
received_contents(p) == received(p).regions[received_cap(p).object]

\* Mutant: a hop is a mere `Grant::Transfer`.
Forward_transfer(region) == <<Transfer(region)>>

\* Every hop is a `Grant::Move` of the region.
Forward(region) == <<Move(region)>>

\* p passes its region on, once it has done its work.
forwarded(s, p, region, data) == send(s, p, output_cap(p), Forward(region), data)

StageIdle(p) ==
  /\ waiting(sys, input_cap(p)) = <<>>
  /\ Turn(p, received(p), FALSE, 0)
  /\ UNCHANGED <<free_regions, next_batch, results>>

TransformerTurn(p) ==
  LET worked == Then(received(p), update(received(p), received_cap(p),
                       transform(StageOf(config, p), received_contents(p))))
  IN
  /\ waiting(sys, input_cap(p)) # <<>>
  /\ Turn(p, Then(worked, forwarded(worked, p, received_region(p), message(p).data)), TRUE, 1)
  /\ UNCHANGED <<free_regions, next_batch, results>>

SinkTurn ==
  LET p == Sink
      looked == Then(received(p), inspect(received(p), received_cap(p)))
  IN
  /\ waiting(sys, input_cap(p)) # <<>>
  /\ Turn(p, Then(looked, forwarded(looked, p, received_region(p), message(p).data)), TRUE, 1)
  /\ results' = IF looked.failed THEN results
                ELSE Append(results, [batch |-> message(p).data,
                                      checksum |-> checksum(received_contents(p))])
  /\ UNCHANGED <<free_regions, next_batch>>

\* The producer receives until nothing is waiting: returned[n] is the state after
\* n messages, the last call finds the queue empty.
returned ==
  LET p == Producer(config)
      after[n \in 0 .. Len(waiting(sys, input_cap(p))) + 1] ==
        IF n = 0 THEN sys ELSE Then(after[n - 1], receive_region(after[n - 1], p))
  IN  after

drained == returned[Len(waiting(sys, input_cap(Producer(config)))) + 1]

\* Mutant: the last region returned is used first.
Free_lifo ==
  [n \in DOMAIN waiting(sys, input_cap(Producer(config))) |->
     returned[n - 1].next_handle[Producer(config)]] \o free_regions

\* The pool with the returned regions, in the order they came.
Free ==
  free_regions \o [n \in DOMAIN waiting(sys, input_cap(Producer(config))) |->
                     returned[n - 1].next_handle[Producer(config)]]

\* What `pop_front` leaves.
LeftFree == Tail(Free)

HasWork == next_batch < config.batches /\ Free # <<>>

ProducerSends ==
  LET p == Producer(config)
      region_cap == cap_of(drained, p, Head(Free))
      filled == Then(drained, update(drained, region_cap,
                       fill_batch(next_batch, drained.regions[region_cap.object])))
  IN
  /\ p = Head(ready_queue)
  /\ HasWork
  /\ Turn(p, Then(filled, forwarded(filled, p, Head(Free), next_batch)), TRUE, 1)
  /\ free_regions' = LeftFree
  /\ next_batch' = next_batch + 1
  /\ UNCHANGED results

ProducerOnlyDrains ==
  LET p == Producer(config) IN
  /\ p = Head(ready_queue)
  /\ ~HasWork
  /\ Turn(p, drained, waiting(sys, input_cap(p)) # <<>>, 0)
  /\ free_regions' = Free
  /\ UNCHANGED <<next_batch, results>>

Next ==
  \/ SupervisorTurn
  \/ \E p \in Stages : StageIdle(p)
  \/ \E p \in Stages \ {Sink} : TransformerTurn(p)
  \/ SinkTurn
  \/ ProducerSends
  \/ ProducerOnlyDrains

Spec == Init /\ [][Next]_vars /\ WF_vars(Next)

-----------------------------------------------------------------------------
(* Properties *)

\* No call of the boot or of any turn is ever refused: each process always has
\* the authority its next calls need.
NoCallFails == ~sys.failed

\* And never more than it needs, however long the run: between turns a process's
\* table has its two views and the producer's free regions, nothing else. Of all
\* it was ever given for a channel, it may read its input and write its output,
\* and can neither derive from nor free either ("No stage can read its own output,
\* write its own input, or re-delegate either", pipeline.rs:14).
LeastPrivilege ==
  /\ DOMAIN sys.tables[Supervisor] = 0 .. Return(config)
  /\ \A p \in 1 .. Producer(config) :
       DOMAIN sys.tables[p] = {stages[p].input, stages[p].output}
                                \union (IF p = Producer(config) THEN SetOf(free_regions) ELSE {})
  /\ \A h \in sys.held :
       LET p == h[1]  cap == h[2] IN
       p # Supervisor /\ cap.object \notin Regions(config) =>
         \/ cap = input_cap(p) /\ cap.rights = {"READ"}
         \/ cap = output_cap(p) /\ cap.rights = {"WRITE"}

\* "Each region always has exactly one live owner and every earlier holder's
\* capability is dead" (pipeline.rs:17): of all the capabilities for a region any
\* process ever had, one works and the producer has it among its free regions; or
\* none does, and one message carries a working one.
OneOwnerPerRegion ==
  \A o \in Regions(config) :
    LET owners == {h \in sys.held : h[2].object = o /\ Live(sys.epochs, h[2])}
        flights == UNION {{ch} \X {m \in DOMAIN sys.queues[ch] :
                             \E cap \in SetOf(sys.queues[ch][m].caps) :
                               cap.object = o /\ Live(sys.epochs, cap)}
                            : ch \in DOMAIN sys.queues}
        free == {k \in DOMAIN free_regions :
                   cap_of(sys, Producer(config), free_regions[k]).object = o}
    IN
    /\ Cardinality(owners) + Cardinality(flights) = 1
    /\ Cardinality(free) = Cardinality(owners)
    /\ owners \subseteq {Producer(config)} \X {cap_of(sys, Producer(config), free_regions[k]) : k \in free}

\* "FIFO, so the whole pool rotates" (pipeline.rs:122; the free regions were once
\* a stack, which no result showed): batch b travels in region b mod pool, so each
\* region of the pool carries its share.
RegionsRotate ==
  \A ch \in DOMAIN sys.queues : \A m \in SetOf(sys.queues[ch]) :
    Head(m.caps).object = Return(config) + 1 + (m.data % config.pool)

-----------------------------------------------------------------------------
(* The baseline with the same configuration *)

contents_of(cap) == sys.regions[cap.object]

messages_of(o) ==
  [m \in DOMAIN sys.queues[o] |->
     [batch |-> sys.queues[o][m].data, region |-> contents_of(Head(sys.queues[o][m].caps))]]

B == INSTANCE Baseline WITH
       chan <- [i \in 0 .. config.stages |-> messages_of(i)],
       returns <- messages_of(Return(config)),
       pool <- [k \in DOMAIN free_regions |->
                  contents_of(cap_of(sys, Producer(config), free_regions[k]))],
       turn <- Head(ready_queue)

\* Turn by turn the pipeline does what the baseline does, with the same contents
\* in the same order, and reports the same results and statistics ("results *and*
\* scheduler statistics must match the kernel pipeline exactly", baseline.rs:14).
ImplementsBaseline == B!Spec
=============================================================================
