----------------------------- MODULE SystemOps ------------------------------
(* The calls a driver makes on the whole system, one after the other within *)
(* one turn: each maps the system's state to the next. A refused call       *)
(* changes nothing but `failed`, for its caller propagates the error.       *)
(*                                                                          *)
(* A system is a record: `epochs` of the kernel; `tables` and `next_handle` *)
(* of the processes; `queues` of the channel registry (messages: `data`     *)
(* and the capabilities); `regions` of the region registry; `held`, which   *)
(* process ever had which capability (history).                             *)
EXTENDS ProcessOps, MemoryOps

Failed(sys) == [sys EXCEPT !.failed = TRUE]

\* `?`: what follows a refused call does not happen.
Then(sys, next) == IF sys.failed THEN sys ELSE next

\* `process.capability(handle)`
cap_of(sys, p, handle) == sys.tables[p][handle]

\* `handles.sort()`: the k-th has k - 1 others below it.
sorted_handles(sys, p) ==
  LET handles == DOMAIN sys.tables[p]
      below(h) == {x \in handles : x < h}
  IN  [k \in 1 .. Cardinality(handles) |-> CHOOSE h \in handles : Cardinality(below(h)) = k - 1]

HeldBy(p, caps) == {p} \X SetOf(caps)

\* Channels and regions as allocated at boot, in the order of their object ids,
\* and a supervisor with a full capability for each.
booted(queues, regions) ==
  LET objects == DOMAIN queues \union DOMAIN regions
      full == [k \in 1 .. Cardinality(objects) |->
                 [object |-> k - 1, rights |-> RegionRights, epoch |-> 0]]
  IN  [epochs |-> [o \in objects |-> 0],
       tables |-> [p \in {0} |-> Granted(Empty, 0, full)],
       next_handle |-> [p \in {0} |-> NextHandle(0, full)],
       queues |-> queues,
       regions |-> regions,
       held |-> HeldBy(0, full),
       failed |-> FALSE]

\* The child is the next process; no one else's table but the parent's changes.
spawn_child(sys, parent, grants) ==
  LET child == Cardinality(DOMAIN sys.tables)
      delivered == Delivered(sys.epochs, sys.tables[parent], grants)
  IN
  IF ~ValidBatch(sys.epochs, sys.tables[parent], grants) THEN Failed(sys)
  ELSE [sys EXCEPT
          !.epochs = AfterBatch(@, sys.tables[parent], grants),
          !.tables = Extended([sys.tables EXCEPT ![parent] = Remaining(@, grants)], child,
                              Granted(Empty, 0, delivered)),
          !.next_handle = Extended(@, child, NextHandle(0, delivered)),
          !.held = @ \union HeldBy(child, delivered)]

CanSend(sys, p, channel, grants) ==
  /\ Permits(sys.epochs, channel, {"WRITE"})
  /\ channel.object \in DOMAIN sys.queues
  /\ ValidBatch(sys.epochs, sys.tables[p], grants)

send(sys, p, channel, grants, data) ==
  IF ~CanSend(sys, p, channel, grants) THEN Failed(sys)
  ELSE [sys EXCEPT
          !.epochs = AfterBatch(@, sys.tables[p], grants),
          !.tables[p] = Remaining(@, grants),
          !.queues[channel.object] =
             Append(@, [data |-> data, caps |-> Delivered(sys.epochs, sys.tables[p], grants)])]

CanReceive(sys, channel) ==
  /\ Permits(sys.epochs, channel, {"READ"})
  /\ channel.object \in DOMAIN sys.queues

waiting(sys, channel) == sys.queues[channel.object]

receive(sys, p, channel) ==
  IF ~CanReceive(sys, channel) THEN Failed(sys)
  ELSE IF waiting(sys, channel) = <<>> THEN sys
  ELSE LET caps == Head(waiting(sys, channel)).caps IN
       [sys EXCEPT
          !.queues[channel.object] = Tail(@),
          !.tables[p] = Granted(@, sys.next_handle[p], caps),
          !.next_handle[p] = NextHandle(@, caps),
          !.held = @ \union HeldBy(p, caps)]

\* `memory.update` with a function of the contents, and `memory.inspect`.
update(sys, cap, contents) ==
  IF ~accessible(sys.epochs, sys.regions, cap, {"READ", "WRITE"}) THEN Failed(sys)
  ELSE [sys EXCEPT !.regions[cap.object] = contents]

inspect(sys, cap) ==
  IF ~accessible(sys.epochs, sys.regions, cap, {"READ"}) THEN Failed(sys) ELSE sys
=============================================================================
