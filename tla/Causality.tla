----------------------------- MODULE Causality ------------------------------
(* Which events get which stamps: the clock half of `Process`,              *)
(* `spawn_child`, `ipc::send` and `ipc::receive`. Which capabilities allow  *)
(* a call is Ipc.tla's subject: here any process may use any channel, so    *)
(* every behaviour of the kernel is covered.                                *)
(*                                                                          *)
(* `history` records what really happened: per event its stamp and its past *)
(* (the events that could have influenced it), taken from program order,    *)
(* messages and births, never from the clocks.                              *)
EXTENDS ClockOps, Sequences

CONSTANTS
  MaxProcesses,   \* bound: processes ever spawned
  Channel,        \* channels
  MaxEvents,      \* bound: events of one process
  MaxQueue        \* bound: messages waiting in one channel

ASSUME CausalityAssumption == {MaxProcesses, MaxEvents, MaxQueue} \subseteq Nat

VARIABLES
  next_process_id,   \* `Scheduler.next_process_id`: the processes are those below it
  clock,             \* `Process.clock`, per process
  queues,            \* per channel, the messages: stamp, and which event sent it
  history            \* what happened (history)

vars == <<next_process_id, clock, queues, history>>

Process == 0 .. MaxProcesses - 1
Spawned == 0 .. next_process_id - 1

Init ==
  /\ next_process_id = 0
  /\ clock = [p \in Process |-> NewClock(p)]
  /\ queues = [ch \in Channel |-> <<>>]
  /\ history = [count |-> [p \in Process |-> 0], at |-> [e \in {} |-> {}]]

-----------------------------------------------------------------------------
(* What happened: event <<p, n>> is the n-th of process p *)

Events(h) == DOMAIN h.at

UpTo(h, sources) == sources \union UNION {h.at[e].past : e \in sources}

Last(h, p) == {<<p, n>> : n \in {h.count[p]} \ {0}}

NextEvent(h, p) == <<p, h.count[p] + 1>>

\* One more event of process p, after its last one and after `heard`.
Record(h, p, stamp, heard) ==
  [count |-> [h.count EXCEPT ![p] = @ + 1],
   at |-> [e \in Events(h) \union {NextEvent(h, p)} |->
             IF e = NextEvent(h, p)
             THEN [stamp |-> stamp, past |-> UpTo(h, Last(h, p) \union heard)]
             ELSE h.at[e]]]

HasRoom(p) == history.count[p] < MaxEvents

-----------------------------------------------------------------------------
(* The events *)

\* `Scheduler::spawn`: a root process, with no event of its own yet.
SpawnRoot ==
  /\ next_process_id < MaxProcesses
  /\ next_process_id' = next_process_id + 1
  /\ UNCHANGED <<clock, queues, history>>

\* Mutant: the child starts without its parent's knowledge.
SpawnChild_ignorant(p) ==
  LET child == next_process_id
      spawned_at == local_event(clock[p])
      birth == local_event(clock[child])
  IN
  /\ child < MaxProcesses
  /\ HasRoom(p)
  /\ MaxEvents > 0
  /\ next_process_id' = child + 1
  /\ clock' = [clock EXCEPT ![p] = spawned_at, ![child] = birth]
  /\ history' = Record(Record(history, p, spawned_at, {}), child, birth, {NextEvent(history, p)})
  /\ UNCHANGED queues

\* `spawn_child`: a send of the parent that the child's first event receives.
SpawnChild(p) ==
  LET child == next_process_id
      spawned_at == local_event(clock[p])
      birth == receive_event(clock[child], spawned_at)
  IN
  /\ child < MaxProcesses
  /\ HasRoom(p)
  /\ MaxEvents > 0
  /\ next_process_id' = child + 1
  /\ clock' = [clock EXCEPT ![p] = spawned_at, ![child] = birth]
  /\ history' = Record(Record(history, p, spawned_at, {}), child, birth, {NextEvent(history, p)})
  /\ UNCHANGED queues

LocalEvent(p) ==
  LET stamp == local_event(clock[p]) IN
  /\ HasRoom(p)
  /\ clock' = [clock EXCEPT ![p] = stamp]
  /\ history' = Record(history, p, stamp, {})
  /\ UNCHANGED <<next_process_id, queues>>

Send(p, ch) ==
  LET sent_at == local_event(clock[p]) IN
  /\ HasRoom(p)
  /\ Len(queues[ch]) < MaxQueue
  /\ clock' = [clock EXCEPT ![p] = sent_at]
  /\ history' = Record(history, p, sent_at, {})
  /\ queues' = [queues EXCEPT ![ch] = Append(@, [sent_at |-> sent_at, event |-> NextEvent(history, p)])]
  /\ UNCHANGED next_process_id

\* Finding the queue empty is not an event.
Receive(p, ch) ==
  LET message == Head(queues[ch])
      received_at == receive_event(clock[p], message.sent_at)
  IN
  /\ queues[ch] # <<>>
  /\ HasRoom(p)
  /\ clock' = [clock EXCEPT ![p] = received_at]
  /\ history' = Record(history, p, received_at, {message.event})
  /\ queues' = [queues EXCEPT ![ch] = Tail(@)]
  /\ UNCHANGED next_process_id

Next ==
  \/ SpawnRoot
  \/ \E p \in Spawned : SpawnChild(p) \/ LocalEvent(p)
  \/ \E p \in Spawned, ch \in Channel : Send(p, ch) \/ Receive(p, ch)

Spec == Init /\ [][Next]_vars

-----------------------------------------------------------------------------
(* Properties *)

IsStampOf(s, p) ==
  /\ s = [process |-> p, lamport |-> s.lamport, vector |-> s.vector]
  /\ s.lamport \in Nat
  /\ DOMAIN s.vector \subseteq Process
  /\ s.vector \in [DOMAIN s.vector -> Nat]

TypeOK ==
  /\ next_process_id \in 0 .. MaxProcesses
  /\ history.count \in [Process -> 0 .. MaxEvents]
  /\ Events(history) = {e \in Process \X (1 .. MaxEvents) : e[2] <= history.count[e[1]]}
  /\ \A e \in Events(history) :
       /\ IsStampOf(history.at[e].stamp, e[1])
       /\ history.at[e].past \subseteq Events(history)
  /\ DOMAIN clock = Process
  /\ \A p \in Process : IsStampOf(clock[p], p)
  /\ \A ch \in Channel : \A m \in DOMAIN queues[ch] : queues[ch][m].event \in Events(history)

\* The stamps tell exactly what could have influenced what: of any two events
\* ever recorded, wherever and however long ago, one's stamp happened before the
\* other's if and only if the event itself did.
StampsDecideCausality ==
  \A e, f \in Events(history) :
    happened_before(history.at[e].stamp, history.at[f].stamp) <=> e \in history.at[f].past

\* `Causality::Equal` is one and the same event, `Concurrent` is mutual ignorance.
StampsIdentifyEvents ==
  \A e, f \in Events(history) :
    LET verdict == compare(history.at[e].stamp.vector, history.at[f].stamp.vector) IN
    /\ verdict = "Equal" <=> e = f
    /\ verdict = "Concurrent"
         <=> e # f /\ e \notin history.at[f].past /\ f \notin history.at[e].past

\* `total_order_key` orders any two events, and never against causality.
TotalOrderExtendsCausality ==
  \A e, f \in Events(history) :
    LET s == history.at[e].stamp  t == history.at[f].stamp IN
    /\ e \in history.at[f].past => KeyLess(s, t)
    /\ e # f => (KeyLess(s, t) /\ ~KeyLess(t, s)) \/ (KeyLess(t, s) /\ ~KeyLess(s, t))

\* Nobody knows more about a process than the process itself, no stamp in a
\* queue included.
NobodyKnowsTheFuture ==
  \A p \in Process :
    /\ get(clock[p].vector, p) = history.count[p]
    /\ \A q \in Process : get(clock[q].vector, p) <= history.count[p]
    /\ \A ch \in Channel : \A m \in DOMAIN queues[ch] :
         get(queues[ch][m].sent_at.vector, p) <= history.count[p]
=============================================================================
