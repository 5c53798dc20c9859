---------------------------- MODULE PipelineTrace ----------------------------
(* The pipeline's run with its clocks: what the stamps of `report.trace`    *)
(* say. The calls of a turn are Pipeline.tla's; here each of them advances  *)
(* its process's clock (ClockOps) and leaves its event in the trace: no     *)
(* call is refused (NoCallFails), so each one is an event.                  *)
EXTENDS Pipeline, ClockOps

VARIABLES
  clock,     \* `Process.clock`, per process
  sent_at,   \* `Message.sent_at` of the messages waiting, per channel
  trace      \* `report.trace`, with `config.trace`; a role is its process id

clockVars == <<clock, sent_at, trace>>
traceVars == <<vars, clockVars>>

-----------------------------------------------------------------------------
(* Boot *)

\* `spawn_child`: a send of the supervisor, and the child's first event receives it.
born(clocks, child) ==
  LET spawned_at == local_event(clocks[Supervisor]) IN
  [clocks EXCEPT ![Supervisor] = spawned_at,
                 ![child] = receive_event(@, spawned_at)]

TraceInit ==
  LET unborn == [p \in 0 .. Producer(config) |-> NewClock(p)]
      after[k \in 0 .. Producer(config)] == IF k = 0 THEN unborn ELSE born(after[k - 1], k)
  IN
  /\ Init
  /\ clock = after[Producer(config)]
  /\ sent_at = [ch \in 0 .. Return(config) |-> <<>>]
  /\ trace = <<>>

-----------------------------------------------------------------------------
(* What a call does to clocks and trace: `run` is a record of the three.    *)

now == [clock |-> clock, sent_at |-> sent_at, trace |-> trace]

event(p, action, batch, stamp) == [role |-> p, action |-> action, batch |-> batch, stamp |-> stamp]

\* Mutant: the receiver's clock only ticks.
after_receive_deaf(run, p, batch) ==
  LET ch == input_cap(p).object
      received_at == local_event(run.clock[p])
  IN  [clock |-> [run.clock EXCEPT ![p] = received_at],
       sent_at |-> [run.sent_at EXCEPT ![ch] = Tail(@)],
       trace |-> Append(run.trace, event(p, "Receive", batch, received_at))]

after_receive(run, p, batch) ==
  LET ch == input_cap(p).object
      received_at == receive_event(run.clock[p], Head(run.sent_at[ch]))
  IN  [clock |-> [run.clock EXCEPT ![p] = received_at],
       sent_at |-> [run.sent_at EXCEPT ![ch] = Tail(@)],
       trace |-> Append(run.trace, event(p, "Receive", batch, received_at))]

after_send(run, p, batch) ==
  LET ch == output_cap(p).object
      sent == local_event(run.clock[p])
  IN  [clock |-> [run.clock EXCEPT ![p] = sent],
       sent_at |-> [run.sent_at EXCEPT ![ch] = Append(@, sent)],
       trace |-> Append(run.trace, event(p, "Send", batch, sent))]

Becomes(run) == clock' = run.clock /\ sent_at' = run.sent_at /\ trace' = run.trace

\* A transformer or the sink: one message in, one out.
hop(p) == after_send(after_receive(now, p, message(p).data), p, message(p).data)

\* The producer's loop over the returns.
drain ==
  LET p == Producer(config)
      returns == waiting(sys, input_cap(p))
      after[n \in 0 .. Len(returns)] ==
        IF n = 0 THEN now ELSE after_receive(after[n - 1], p, returns[n].data)
  IN  after[Len(returns)]

TraceNext ==
  \/ SupervisorTurn /\ UNCHANGED clockVars
  \/ \E p \in Stages : StageIdle(p) /\ UNCHANGED clockVars
  \/ \E p \in Stages \ {Sink} : TransformerTurn(p) /\ Becomes(hop(p))
  \/ SinkTurn /\ Becomes(hop(Sink))
  \/ ProducerSends /\ Becomes(after_send(drain, Producer(config), next_batch))
  \/ ProducerOnlyDrains /\ Becomes(drain)

TraceSpec == TraceInit /\ [][TraceNext]_traceVars /\ WF_traceVars(TraceNext)

-----------------------------------------------------------------------------
(* Properties *)

\* Where in the ring an event took place: the producer is at both ends of it.
Place(e) ==
  IF e.role = Producer(config)
  THEN IF e.action = "Send" THEN 0 ELSE config.stages + 2
  ELSE config.stages + 2 - e.role

\* The producer received the region of batch b back before it sent batch c.
ReturnedBefore(b, c) ==
  \E m, n \in DOMAIN trace :
    /\ m < n
    /\ trace[m].batch = b /\ Place(trace[m]) = config.stages + 2
    /\ trace[n].batch = c /\ Place(trace[n]) = 0

\* What the schedule lets one event of the run know of another: an earlier one of
\* its own process; events of its own and earlier batches upstream; and everything
\* that happened to a batch whose region was back before its own batch started.
\* Nothing else: two batches under way at once are concurrent where the later one
\* has not yet got to.
Knows(l, k) ==
  LET e == trace[k]  f == trace[l] IN
  \/ e.role = f.role /\ k < l
  \/ e.batch <= f.batch /\ Place(e) < Place(f)
  \/ ReturnedBefore(e.batch, f.batch)

\* The causal structure of a whole run can be read off the trace's stamps, from
\* them alone, for every configuration ("the tests check the causal structure from
\* them alone", pipeline.rs:23; the tests look at chains of single batches). And
\* the order of the stamps by `total_order_key` never contradicts the trace's.
StampsTellTheSchedule ==
  Completed \/ Stalled =>
    \A k, l \in DOMAIN trace :
      /\ happened_before(trace[k].stamp, trace[l].stamp) <=> Knows(l, k)
      /\ Knows(l, k) => KeyLess(trace[k].stamp, trace[l].stamp)
=============================================================================
