------------------------------ MODULE ClockOps ------------------------------
(* The operators of crate `clock`: Lamport and vector clocks, the pair of   *)
(* them a process advances together, and what two stamps say of each other. *)
EXTENDS Integers

-----------------------------------------------------------------------------
(* lamport.rs *)

lamport_tick(time) == time + 1

\* Mutant: a receive only ticks.
lamport_observe_ticks(time, remote) == time + 1

lamport_observe(time, remote) == (IF time < remote THEN remote ELSE time) + 1

-----------------------------------------------------------------------------
(* vector.rs: `entries` is a partial function, a missing process counts 0 *)

NoEntries == [p \in {} |-> 0]

get(v, p) == IF p \in DOMAIN v THEN v[p] ELSE 0

tick(v, p) == [q \in DOMAIN v \union {p} |-> get(v, q) + (IF q = p THEN 1 ELSE 0)]

merge(v, w) ==
  [q \in DOMAIN v \union DOMAIN w |-> IF get(v, q) < get(w, q) THEN get(w, q) ELSE get(v, q)]

some_less(v, w) == \E p \in DOMAIN v \union DOMAIN w : get(v, p) < get(w, p)

\* Mutant: only the processes the left-hand clock has heard of are compared.
compare_leftKeys(v, w) ==
  LET less == \E p \in DOMAIN v : get(v, p) < get(w, p)
      greater == \E p \in DOMAIN v : get(w, p) < get(v, p)
  IN  CASE ~less /\ ~greater -> "Equal"
        [] less /\ ~greater -> "Before"
        [] ~less /\ greater -> "After"
        [] less /\ greater -> "Concurrent"

compare(v, w) ==
  CASE ~some_less(v, w) /\ ~some_less(w, v) -> "Equal"
    [] some_less(v, w) /\ ~some_less(w, v) -> "Before"
    [] ~some_less(v, w) /\ some_less(w, v) -> "After"
    [] some_less(v, w) /\ some_less(w, v) -> "Concurrent"

-----------------------------------------------------------------------------
(* EventClock and Stamp: `current()` returns the clock's own fields *)

NewClock(p) == [process |-> p, lamport |-> 0, vector |-> NoEntries]

\* `local_event`; `send_event` is the same.
local_event(clock) ==
  [process |-> clock.process,
   lamport |-> lamport_tick(clock.lamport),
   vector |-> tick(clock.vector, clock.process)]

\* Mutant: the receiver takes over the sender's stamp, process id and all.
receive_event_adopts(clock, sent) ==
  [sent EXCEPT !.lamport = lamport_observe(clock.lamport, @),
               !.vector = tick(merge(clock.vector, @), clock.process)]

\* Mutant: the receive is counted as an event of the sender.
receive_event_ticksSender(clock, sent) ==
  [clock EXCEPT !.lamport = lamport_observe(@, sent.lamport),
                !.vector = tick(merge(@, sent.vector), sent.process)]

receive_event(clock, sent) ==
  [process |-> clock.process,
   lamport |-> lamport_observe(clock.lamport, sent.lamport),
   vector |-> tick(merge(clock.vector, sent.vector), clock.process)]

happened_before(s, t) == compare(s.vector, t.vector) = "Before"

\* `total_order_key`: Lamport time, ties broken by process id.
KeyLess(s, t) ==
  \/ s.lamport < t.lamport
  \/ s.lamport = t.lamport /\ s.process < t.process
=============================================================================
