------------------------------- MODULE Chaos --------------------------------
(* `workload/src/chaos.rs`: the harness that throws arbitrary operations at *)
(* the whole system (`sys`) and compares every answer, and after every step *)
(* the state, with a shadow model of its own (`model`). Its random numbers  *)
(* are arbitrary choices here, so one run stands for every seed.            *)
(*                                                                          *)
(* The harness knows a region or a channel by its index, and the object it  *)
(* allocated for it; here the object does for both. A model of a capability *)
(* (`CapModel`) is thus a record like a capability. Of the errors, the kind *)
(* is kept: their fields repeat the call's. Of the stamps, the sender is    *)
(* kept (as a message's data): the final `check_causality` is CausalAudit.  *)
EXTENDS SystemOps

CONSTANTS
  CHANNELS,
  MAX_PROCESSES,
  BootRegions,    \* regions allocated before the first step: 2 in the code
  BootSize,       \* their size: 8 in the code
  Sizes,          \* sizes of the regions allocated later
  Spans,          \* <<offset, length>> of an access
  ArbRights,      \* rights asked of a `Derive`
  MaxBatch,       \* grants of a batch, channels not counted: 3 in the code
  MaxRegions,     \* bound: regions ever allocated
  MaxHandles,     \* bound: handles a process ever gets
  MaxInFlight,    \* bound: messages in a channel
  MaxEpoch,       \* bound: epochs of a region
  UsizeValues     \* number of values of a `usize`: 2^64 in the code

ASSUME ChaosAssumption ==
  /\ {CHANNELS, MAX_PROCESSES, UsizeValues} \subseteq Nat \ {0}
  /\ {BootRegions, MaxBatch, MaxRegions, MaxHandles, MaxInFlight, MaxEpoch} \subseteq Nat
  /\ BootSize \in 0 .. UsizeValues - 1
  /\ Sizes \subseteq 1 .. UsizeValues - 1
  /\ Spans \subseteq (0 .. UsizeValues - 1) \X (0 .. UsizeValues - 1)
  /\ ArbRights \subseteq Rights

VARIABLES
  sys,      \* the real thing, see SystemOps
  model,    \* [regions, procs, in_flight] of `World`
  stash,    \* every capability any process ever held, with its model
  fault,    \* `CorruptModelAt`: "pending" or "injected"; without a fault, for ever pending
  failure   \* "none", or where the harness gave up: "execute" or "sweep"

vars == <<sys, model, stash, fault, failure>>

Channel == 0 .. CHANNELS - 1
Byte == {0, 1}
flipped(byte) == 1 - byte

is_region(m) == m.object \notin Channel

-----------------------------------------------------------------------------
(* What the model predicts. It shares nothing with the kernel's code, nor   *)
(* do these definitions with the kernel's.                                  *)

\* Mutant: any epoch the region has been through will do.
predict_check_anyEpoch(world, m, required) ==
  IF is_region(m) /\ ~world.regions[m.object].alive THEN "UnknownObject"
  ELSE IF is_region(m) /\ world.regions[m.object].epoch < m.epoch THEN "Revoked"
  ELSE IF ~(required \subseteq m.rights) THEN "InsufficientRights"
  ELSE "Ok"

\* Channels are never revoked nor destroyed by the harness.
predict_check(world, m, required) ==
  IF is_region(m) /\ ~world.regions[m.object].alive THEN "UnknownObject"
  ELSE IF is_region(m) /\ world.regions[m.object].epoch # m.epoch THEN "Revoked"
  ELSE IF ~(required \subseteq m.rights) THEN "InsufficientRights"
  ELSE "Ok"

predict_access(world, m, required, offset, len) ==
  LET refusal == predict_check(world, m, required) IN
  CASE refusal # "Ok" -> refusal
    [] refusal = "Ok" /\ ~is_region(m) -> "UnknownRegion"
    [] refusal = "Ok" /\ is_region(m) ->
         IF offset + len <= size_of(world.regions[m.object].bytes) THEN "Ok" ELSE "OutOfBounds"

\* A moved object is named by no other grant.
moves_apart(world, p, grants) ==
  \A i, j \in DOMAIN grants :
    i # j /\ grants[i].kind = "Move" =>
      world.procs[p][grants[i].handle].object # world.procs[p][grants[j].handle].object

\* `apply_grants_model`: the batch is not rejected.
predict_batch(world, p, grants) ==
  LET held(i) == world.procs[p][grants[i].handle] IN
  /\ \A i, j \in DOMAIN grants :
       i # j /\ "Derive" \notin {grants[i].kind, grants[j].kind} => grants[i].handle # grants[j].handle
  /\ \A i \in DOMAIN grants :
       /\ grants[i].kind = "Derive" => /\ predict_check(world, held(i), {"GRANT"}) = "Ok"
                                       /\ grants[i].rights \subseteq held(i).rights
       /\ grants[i].kind = "Move" => predict_check(world, held(i), {"DESTROY"}) = "Ok"
  /\ moves_apart(world, p, grants)

\* Mutant: the epoch of a moved capability is left as it was.
resolved_sameEpoch(world, p, grants) ==
  [i \in DOMAIN grants |->
     LET held == world.procs[p][grants[i].handle] IN
     IF grants[i].kind = "Derive" THEN [held EXCEPT !.rights = grants[i].rights] ELSE held]

\* The capabilities it delivers.
resolved(world, p, grants) ==
  [i \in DOMAIN grants |->
     LET held == world.procs[p][grants[i].handle] IN
     CASE grants[i].kind = "Transfer" -> held
       [] grants[i].kind = "Derive" -> [held EXCEPT !.rights = grants[i].rights]
       [] grants[i].kind = "Move" -> [held EXCEPT !.epoch = world.regions[held.object].epoch + 1]]

next_epoch(region) == [region EXCEPT !.epoch = @ + 1]

\* The model without what left p's table, and past the epochs of what moved.
applied(world, p, grants) ==
  LET of(kinds) == {i \in DOMAIN grants : grants[i].kind \in kinds}
      gone == {grants[i].handle : i \in of({"Transfer", "Move"})}
      moved == {world.procs[p][grants[i].handle].object : i \in of({"Move"})}
  IN
  [world EXCEPT
     !.procs[p] = [h \in DOMAIN @ \ gone |-> @[h]],
     !.regions = [r \in DOMAIN @ |-> IF r \in moved THEN next_epoch(@[r]) ELSE @[r]]]

-----------------------------------------------------------------------------
(* The audit after every step *)

pairs(caps, models) == {<<caps[k], models[k]>> : k \in DOMAIN caps}

\* The capabilities ever seen that the model says can read region r: any of them
\* will do for the audit (the code takes the oldest).
readers(world, kept, r) ==
  {pair[1] : pair \in {q \in kept : q[2].object = r /\ predict_check(world, q[2], {"READ"}) = "Ok"}}

auditable(world, kept) == {r \in DOMAIN world.regions : readers(world, kept, r) # {}}

alive(world) == {r \in DOMAIN world.regions : world.regions[r].alive}

SameBytes(s, world, kept, r) ==
  LET auditor == CHOOSE cap \in readers(world, kept, r) : TRUE IN
  /\ accessible(s.epochs, s.regions, auditor, {"READ"})
  /\ s.regions[auditor.object] = world.regions[r].bytes

sweep(s, world, kept) ==
  /\ \A p \in DOMAIN world.procs :
       /\ DOMAIN s.tables[p] = DOMAIN world.procs[p]
       /\ \A h \in DOMAIN world.procs[p] :
            /\ s.tables[p][h].object = world.procs[p][h].object
            /\ s.tables[p][h].rights = world.procs[p][h].rights
  /\ \A pair \in kept : check(s.epochs, pair[1], NONE) = predict_check(world, pair[2], NONE)
  /\ Cardinality(DOMAIN s.regions) = Cardinality(alive(world))
  /\ \A r \in auditable(world, kept) : SameBytes(s, world, kept, r)

corrupted(world, r) == [world EXCEPT !.regions[r].bytes[0] = flipped(@)]

\* The fault, once its step has come, or the model as it is.
Corrupt(world, kept) ==
  LET targets == {r \in auditable(world, kept) : size_of(world.regions[r].bytes) > 0} IN
  \/ /\ fault = "pending"
     /\ targets # {}
     /\ model' = corrupted(world, CHOOSE r \in targets : \A q \in targets : r <= q)
     /\ fault' = "injected"
  \/ /\ model' = world
     /\ UNCHANGED fault

\* One step of `run_steps`, an operation after which the system, the model and
\* the stash are as given, if the kernel answered as predicted. It ends the run
\* if it did not, or if the audit finds a difference.
Step(real, world, kept, agreed) ==
  /\ failure = "none"
  /\ sys' = real
  /\ stash' = IF agreed THEN kept ELSE stash
  /\ IF agreed THEN Corrupt(world, kept) ELSE UNCHANGED <<model, fault>>
  /\ failure' = IF ~agreed THEN "execute"
                ELSE IF sweep(real, model', kept) THEN "none" ELSE "sweep"

-----------------------------------------------------------------------------
(* `World::new`: process 0 with channels and the first regions *)

Init ==
  LET first == CHANNELS .. CHANNELS + BootRegions - 1
      table == sys.tables[0]
  IN
  /\ sys = booted([c \in Channel |-> <<>>], [r \in first |-> zeroed(BootSize)])
  /\ model = [regions |-> [r \in first |-> [alive |-> TRUE, epoch |-> 0, bytes |-> zeroed(BootSize)]],
              procs |-> [p \in {0} |-> table],
              in_flight |-> [c \in Channel |-> <<>>]]
  /\ stash = {<<table[h], table[h]>> : h \in DOMAIN table}
  /\ fault = "pending"
  /\ failure = "none"

-----------------------------------------------------------------------------
(* `execute` *)

Process == DOMAIN model.procs

\* A refused call leaves everything as it was.
settled(after) == IF after.failed THEN sys ELSE after

\* The kernel gives out object ids in order and never again.
NewRegion(p, size) ==
  LET object == CHANNELS + Cardinality(DOMAIN model.regions)
      cap == [object |-> object, rights |-> RegionRights, epoch |-> 0]
      handle == sys.next_handle[p]
  IN
  /\ Cardinality(DOMAIN model.regions) < MaxRegions
  /\ handle < MaxHandles
  /\ Step([sys EXCEPT !.epochs = inserted(@, object),
                      !.regions = Extended(@, object, zeroed(size)),
                      !.tables[p] = Granted(@, handle, <<cap>>),
                      !.next_handle[p] = NextHandle(@, <<cap>>),
                      !.held = @ \union HeldBy(p, <<cap>>)],
          [model EXCEPT !.regions = Extended(@, object, [alive |-> TRUE, epoch |-> 0, bytes |-> zeroed(size)]),
                        !.procs[p] = Extended(@, handle, cap)],
          stash \union {<<cap, cap>>}, TRUE)

\* A local event moves clocks only.
Local == Step(sys, model, stash, TRUE)

\* `concrete_grants`: any batch of grants of regions p holds.
Batches(p) ==
  LET handles == {h \in DOMAIN model.procs[p] : is_region(model.procs[p][h])}
      choices == {Transfer(h) : h \in handles} \union {Move(h) : h \in handles}
                   \union {Derive(h, rights) : h \in handles, rights \in ArbRights}
  IN  UNION {[1 .. n -> choices] : n \in 0 .. MaxBatch}

channel_handle(p, c) == CHOOSE h \in DOMAIN model.procs[p] : model.procs[p][h].object = c
channel_cap(p, c) == cap_of(sys, p, channel_handle(p, c))

\* What a batch leaves of the model, rejected or not.
after_batch(p, grants) ==
  IF predict_batch(model, p, grants) THEN applied(model, p, grants) ELSE model

\* The bound on epochs.
WithinEpochs(world) == \A r \in DOMAIN world.regions : world.regions[r].epoch <= MaxEpoch

ChannelView == {"READ", "WRITE", "GRANT"}

\* A child gets a view of every channel and what else it was granted.
Spawn(parent, grants) ==
  LET views == [k \in 1 .. CHANNELS |-> Derive(channel_handle(parent, k - 1), ChannelView)]
      after == spawn_child(sys, parent, views \o grants)
      accepted == predict_batch(model, parent, grants)
      child == Cardinality(Process)
      handles == sorted_handles(after, child)
      caps == [k \in DOMAIN handles |-> cap_of(after, child, handles[k])]
      models == [k \in 1 .. CHANNELS |-> [object |-> k - 1, rights |-> ChannelView, epoch |-> 0]]
                  \o resolved(model, parent, grants)
      mirror == [h \in SetOf(handles) |-> models[CHOOSE k \in DOMAIN handles : handles[k] = h]]
      born == [after_batch(parent, grants) EXCEPT !.procs = Extended(@, child, mirror)]
  IN
  /\ child < MAX_PROCESSES
  /\ Len(models) <= MaxHandles
  /\ WithinEpochs(after_batch(parent, grants))
  /\ \/ /\ accepted
        /\ Step(settled(after), born, stash \union pairs(caps, models),
                ~after.failed /\ Len(handles) = Len(models))
     \/ /\ ~accepted
        /\ Step(settled(after), model, stash, after.failed)

Send(p, c, grants) ==
  LET after == send(sys, p, channel_cap(p, c), grants, p)
      message == [sender |-> p, caps |-> resolved(model, p, grants)]
      world == after_batch(p, grants)
  IN
  /\ Len(model.in_flight[c]) < MaxInFlight
  /\ WithinEpochs(world)
  /\ \/ /\ predict_batch(model, p, grants)
        /\ Step(settled(after), [world EXCEPT !.in_flight[c] = Append(@, message)], stash, ~after.failed)
     \/ /\ ~predict_batch(model, p, grants)
        /\ Step(settled(after), world, stash, after.failed)

\* Nothing waiting, as the model says.
ReceiveNothing(p, c) ==
  LET after == receive(sys, p, channel_cap(p, c)) IN
  /\ model.in_flight[c] = <<>>
  /\ Step(settled(after), model, stash, ~after.failed /\ after = sys)

Receive(p, c) ==
  LET after == receive(sys, p, channel_cap(p, c))
      expected == Head(model.in_flight[c])
      delivered == Head(waiting(sys, channel_cap(p, c)))
      next == sys.next_handle[p]
      caps == [k \in DOMAIN delivered.caps |-> cap_of(after, p, HandleOf(next, k))]
  IN
  /\ model.in_flight[c] # <<>>
  /\ next + Len(expected.caps) <= MaxHandles
  /\ Step(settled(after),
          [model EXCEPT !.in_flight[c] = Tail(@), !.procs[p] = Granted(@, next, expected.caps)],
          stash \union pairs(caps, expected.caps),
          /\ ~after.failed
          /\ waiting(sys, channel_cap(p, c)) # <<>>
          /\ delivered.data = expected.sender
          /\ Len(delivered.caps) = Len(expected.caps))

\* `pick_cap`: an entry of some process's table, or any capability ever seen.
Picks ==
  stash \union UNION {{<<cap_of(sys, p, h), model.procs[p][h]>> : h \in DOMAIN model.procs[p]} : p \in Process}

RegionPicks == {pick \in Picks : is_region(pick[2])}

\* The registry's answer to a read or a write.
access(cap, required, offset, len) ==
  LET refusal == check(sys.epochs, cap, required) IN
  CASE refusal # "Ok" -> refusal
    [] refusal = "Ok" /\ cap.object \notin DOMAIN sys.regions -> "UnknownRegion"
    [] refusal = "Ok" /\ cap.object \in DOMAIN sys.regions ->
         IF checked_range(UsizeValues, sys.epochs, sys.regions, cap, required, offset, len)
         THEN "Ok" ELSE "OutOfBounds"

range(bytes, offset, len) == [i \in 0 .. len - 1 |-> bytes[offset + i]]

Read(pick, offset, len) ==
  LET answer == access(pick[1], {"READ"}, offset, len) IN
  Step(sys, model, stash,
       /\ answer = predict_access(model, pick[2], {"READ"}, offset, len)
       /\ answer = "Ok" => range(sys.regions[pick[1].object], offset, len)
                             = range(model.regions[pick[2].object].bytes, offset, len))

Write(pick, offset, len, byte) ==
  LET answer == access(pick[1], {"WRITE"}, offset, len)
      written(bytes) == overwritten(bytes, offset, [i \in 0 .. len - 1 |-> byte])
      agreed == answer = predict_access(model, pick[2], {"WRITE"}, offset, len)
  IN
  \/ /\ answer = "Ok"
     /\ Step([sys EXCEPT !.regions[pick[1].object] = written(@)],
             [model EXCEPT !.regions[pick[2].object].bytes = written(@)], stash, agreed)
  \/ /\ answer # "Ok"
     /\ Step(sys, model, stash, agreed)

Revoke(pick) ==
  LET answer == check(sys.epochs, pick[1], {"DESTROY"})
      agreed == answer = predict_check(model, pick[2], {"DESTROY"})
  IN
  \/ /\ answer = "Ok"
     /\ sys.epochs[pick[1].object] < MaxEpoch
     /\ Step([sys EXCEPT !.epochs = bumped(@, pick[1].object)],
             [model EXCEPT !.regions[pick[2].object] = next_epoch(@)], stash, agreed)
  \/ /\ answer # "Ok"
     /\ Step(sys, model, stash, agreed)

Destroy(pick) ==
  LET answer == access(pick[1], {"DESTROY"}, 0, 0)
      agreed == answer = predict_check(model, pick[2], {"DESTROY"})
  IN
  \/ /\ answer = "Ok"
     /\ Step([sys EXCEPT !.epochs = removed(@, pick[1].object), !.regions = removed(@, pick[1].object)],
             [model EXCEPT !.regions[pick[2].object].alive = FALSE], stash, agreed)
  \/ /\ answer # "Ok"
     /\ Step(sys, model, stash, agreed)

Next ==
  \/ \E p \in Process, size \in Sizes : NewRegion(p, size)
  \/ Local
  \/ \E p \in Process : \E grants \in Batches(p) : Spawn(p, grants)
  \/ \E p \in Process, c \in Channel : \E grants \in Batches(p) : Send(p, c, grants)
  \/ \E p \in Process, c \in Channel : ReceiveNothing(p, c)
  \/ \E p \in Process, c \in Channel : Receive(p, c)
  \/ \E pick \in Picks, span \in Spans : Read(pick, span[1], span[2])
  \/ \E pick \in Picks, span \in Spans, byte \in Byte : Write(pick, span[1], span[2], byte)
  \/ \E pick \in RegionPicks : Revoke(pick)
  \/ \E pick \in RegionPicks : Destroy(pick)

Spec == Init /\ [][Next]_vars

-----------------------------------------------------------------------------
(* Properties *)

\* The harness complains if and only if its model was tampered with: no sequence
\* of operations makes kernel and model disagree, whatever is granted, replayed or
\* destroyed ("predicts the exact Result and the exact state afterward"), and the
\* audit of the very step finds a corrupted byte ("The next sweep must catch it").
FailsExactlyOnFault == failure = IF fault = "injected" THEN "sweep" ELSE "none"

\* While it runs the model is the system's state, also where the audit does not
\* look: the capabilities in flight, the epochs of those held, the bytes of regions
\* nobody can read. And the stash has every capability any process ever held, and
\* every process one handle for each channel, which the harness looks up unasked.
ModelIsExact ==
  failure = "none" =>
    /\ model.procs = sys.tables
    /\ \A c \in Channel :
         sys.queues[c] = [k \in DOMAIN model.in_flight[c] |->
                            [data |-> model.in_flight[c][k].sender, caps |-> model.in_flight[c][k].caps]]
    /\ alive(model) = DOMAIN sys.regions
    /\ alive(model) = DOMAIN sys.epochs \ Channel
    /\ \A r \in alive(model) :
         /\ model.regions[r].epoch = sys.epochs[r]
         /\ model.regions[r].bytes = sys.regions[r]
    /\ stash = {<<h[2], h[2]>> : h \in sys.held}
    /\ \A p \in Process, c \in Channel :
         Cardinality({h \in DOMAIN model.procs[p] : model.procs[p][h].object = c}) = 1
=============================================================================
