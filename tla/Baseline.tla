------------------------------ MODULE Baseline ------------------------------
(* `workload/src/baseline.rs`: the pipeline with ambient authority. Plain   *)
(* queues of regions, no kernel: what Pipeline.tla promises, without how.   *)
(* The program is deterministic; its configuration is chosen in Init.       *)
(* Its optional clocks are the ones of Causality.tla and decide nothing     *)
(* here.                                                                    *)
EXTENDS DataOps, FiniteSets

CONSTANTS Configs   \* `PipelineConfig`: batches, pool, stages

ASSUME BaselineAssumption == Configs \subseteq [batches : Nat, pool : Nat, stages : Nat]

VARIABLES
  config,
  chan,          \* chan[i] feeds transformer i, chan[stages] the sink
  returns,       \* from the sink back to the producer
  pool,          \* the producer's free regions, first in first out
  next_batch,
  turn,          \* whose turn comes next, in the order of the schedule
  idle_streak,   \* turns without progress in a row
  results,       \* `report.results`
  stats          \* `report.stats`; `touched` is `bytes_processed` in regions

vars == <<config, chan, returns, pool, next_batch, turn, idle_streak, results, stats>>

processes == config.stages + 3

\* Downstream first: supervisor, sink, last transformer to first, producer.
Supervisor == 0
Sink == 1
Producer == config.stages + 2

\* Mutant: the transformers run in the order the batches pass them.
Transformer_upstreamFirst(i) == i + 2

Transformer(i) == config.stages + 1 - i

NoStats == [scheduler_turns |-> 0, idle_turns |-> 0, messages |-> 0, touched |-> 0]

Init ==
  /\ config \in Configs
  /\ chan = [i \in 0 .. config.stages |-> <<>>]
  /\ returns = <<>>
  /\ pool = [k \in 1 .. config.pool |-> Zeroed]
  /\ next_batch = 0
  /\ turn = Supervisor
  /\ idle_streak = 0
  /\ results = <<>>
  /\ stats = NoStats

-----------------------------------------------------------------------------
(* Turns *)

Completed == Len(results) >= config.batches

\* The run gave up: `PipelineError::Stalled`.
Stalled == idle_streak > processes

\* Mutant: progress does not end a streak of idle turns.
Turn_neverResets(k, progressed, sent) ==
  /\ ~Completed
  /\ ~Stalled
  /\ turn = k
  /\ turn' = (turn + 1) % processes
  /\ idle_streak' = idle_streak + (IF progressed THEN 0 ELSE 1)
  /\ stats' = [scheduler_turns |-> stats.scheduler_turns + 1,
               idle_turns |-> stats.idle_turns + (IF progressed THEN 0 ELSE 1),
               messages |-> stats.messages + sent,
               touched |-> stats.touched + sent]
  /\ UNCHANGED config

\* Process k takes its turn; `sent` messages and regions touched, one each.
Turn(k, progressed, sent) ==
  /\ ~Completed
  /\ ~Stalled
  /\ turn = k
  /\ turn' = (turn + 1) % processes
  /\ idle_streak' = IF progressed THEN 0 ELSE idle_streak + 1
  /\ stats' = [scheduler_turns |-> stats.scheduler_turns + 1,
               idle_turns |-> stats.idle_turns + (IF progressed THEN 0 ELSE 1),
               messages |-> stats.messages + sent,
               touched |-> stats.touched + sent]
  /\ UNCHANGED config

SupervisorTurn ==
  /\ Turn(Supervisor, FALSE, 0)
  /\ UNCHANGED <<chan, returns, pool, next_batch, results>>

StageIdle(i) ==
  /\ chan[i] = <<>>
  /\ Turn(IF i = config.stages THEN Sink ELSE Transformer(i), FALSE, 0)
  /\ UNCHANGED <<chan, returns, pool, next_batch, results>>

TransformerTurn(i) ==
  LET m == Head(chan[i]) IN
  /\ chan[i] # <<>>
  /\ Turn(Transformer(i), TRUE, 1)
  /\ chan' = [chan EXCEPT ![i] = Tail(@),
                          ![i + 1] = Append(@, [m EXCEPT !.region = transform(i, @)])]
  /\ UNCHANGED <<returns, pool, next_batch, results>>

SinkTurn ==
  LET m == Head(chan[config.stages]) IN
  /\ chan[config.stages] # <<>>
  /\ Turn(Sink, TRUE, 1)
  /\ chan' = [chan EXCEPT ![config.stages] = Tail(@)]
  /\ returns' = Append(returns, m)
  /\ results' = Append(results, [batch |-> m.batch, checksum |-> checksum(m.region)])
  /\ UNCHANGED <<pool, next_batch>>

\* Every return is drained before anything is sent.
Drained == pool \o [k \in DOMAIN returns |-> returns[k].region]

CanSend == next_batch < config.batches /\ Drained # <<>>

\* Mutant: the producer sends for as long as it has regions.
ProducerSends_all ==
  LET n == IF Len(Drained) < config.batches - next_batch
           THEN Len(Drained) ELSE config.batches - next_batch
  IN
  /\ CanSend
  /\ Turn(Producer, TRUE, n)
  /\ chan' = [chan EXCEPT ![0] = @ \o
       [k \in 1 .. n |-> [batch |-> next_batch + k - 1,
                          region |-> fill_batch(next_batch + k - 1, Drained[k])]]]
  /\ pool' = SubSeq(Drained, n + 1, Len(Drained))
  /\ returns' = <<>>
  /\ next_batch' = next_batch + n
  /\ UNCHANGED results

ProducerSends ==
  /\ CanSend
  /\ Turn(Producer, TRUE, 1)
  /\ chan' = [chan EXCEPT ![0] = Append(@, [batch |-> next_batch,
                                            region |-> fill_batch(next_batch, Head(Drained))])]
  /\ pool' = Tail(Drained)
  /\ returns' = <<>>
  /\ next_batch' = next_batch + 1
  /\ UNCHANGED results

ProducerOnlyDrains ==
  /\ ~CanSend
  /\ Turn(Producer, returns # <<>>, 0)
  /\ pool' = Drained
  /\ returns' = <<>>
  /\ UNCHANGED <<chan, next_batch, results>>

Next ==
  \/ SupervisorTurn
  \/ \E i \in 0 .. config.stages : StageIdle(i)
  \/ \E i \in 0 .. config.stages - 1 : TransformerTurn(i)
  \/ SinkTurn
  \/ ProducerSends
  \/ ProducerOnlyDrains

Spec == Init /\ [][Next]_vars /\ WF_vars(Next)

-----------------------------------------------------------------------------
(* Properties *)

\* The sink's results are the reference results of the first batches, each once
\* and in order: no turn order, reuse of a region or draining of returns mixes two
\* batches up, or leaves out a transform or applies it twice.
ResultsAreTheReference ==
  \A k \in DOMAIN results :
    results[k] = [batch |-> k - 1, checksum |-> reference_checksum(k - 1, config.stages)]

\* No queue grows and no region is lost, whatever the pool and however often it has
\* come round: at most one message waits for any stage, and each region is free,
\* about to return, or in one of those messages.
LockStep ==
  LET waiting[n \in 0 .. config.stages + 1] ==
        IF n = 0 THEN 0 ELSE waiting[n - 1] + Len(chan[n - 1])
  IN
  /\ \A i \in DOMAIN chan : Len(chan[i]) <= 1
  /\ Len(pool) + Len(returns) + waiting[config.stages + 1] = config.pool

\* "Each round moves every in-flight batch forward one stage" (pipeline.rs:186):
\* a region is back in the producer's hands stages + 1 rounds after it left, so
\* in every such span of rounds each region of the pool carries one batch, up to
\* one batch a round. Nothing is lost to waiting.
AtFullRate ==
  LET rounds == stats.scheduler_turns \div processes
      departures == {r \in 0 .. rounds - 1 : r % (config.stages + 1) < config.pool}
  IN  turn = Supervisor =>
        next_batch = (IF Cardinality(departures) < config.batches
                      THEN Cardinality(departures) ELSE config.batches)

\* With a region to work with, the run completes: it is never given up because every
\* process happened to be waiting for another.
Completes == (config.pool > 0) ~> Completed
=============================================================================
