----------------------------- MODULE CausalAudit -----------------------------
(* The chaos harness's end-of-run audit of the clocks                       *)
(* (`World::check_causality`, chaos.rs): it notes every event with the      *)
(* events just before it, and compares the stamps with what can be reached  *)
(* that way. The events and their stamps are Causality.tla's, whose         *)
(* `history` says what really happened.                                     *)
EXTENDS Causality, FiniteSets

CONSTANTS
  Roots,         \* root processes the harness spawns: 1 in the code
  MaxRecorded    \* bound: events recorded in one run

ASSUME AuditAssumption == {Roots, MaxRecorded} \subseteq Nat

VARIABLES
  stamps,       \* `World.stamps`: the stamp of each event, in the order of the calls
  preds,        \* `World.preds`: indices of the events just before it
  last_event,   \* `World.last_event`, per process; 0 is `None`
  in_flight     \* `MessageModel.send_event` of the messages waiting, per channel

auditVars == <<stamps, preds, last_event, in_flight>>

AuditInit ==
  /\ Init
  /\ stamps = <<>>
  /\ preds = <<>>
  /\ last_event = [p \in Process |-> 0]
  /\ in_flight = [ch \in Channel |-> <<>>]

-----------------------------------------------------------------------------
(* `record_event`, on a log of the three *)

noted == [stamps |-> stamps, preds |-> preds, last_event |-> last_event]

\* Mutant: the process's own previous event counts only where nothing else is named.
record_event_either(log, p, stamp, before) ==
  [stamps |-> Append(log.stamps, stamp),
   preds |-> Append(log.preds, IF before = {} THEN {log.last_event[p]} \ {0} ELSE before),
   last_event |-> [log.last_event EXCEPT ![p] = Len(log.stamps) + 1]]

record_event(log, p, stamp, before) ==
  [stamps |-> Append(log.stamps, stamp),
   preds |-> Append(log.preds, before \union ({log.last_event[p]} \ {0})),
   last_event |-> [log.last_event EXCEPT ![p] = Len(log.stamps) + 1]]

Noted(log) ==
  /\ Len(log.stamps) <= MaxRecorded
  /\ stamps' = log.stamps
  /\ preds' = log.preds
  /\ last_event' = log.last_event

-----------------------------------------------------------------------------
(* `World::new` and `execute`: the operations, and what is noted of the     *)
(* events among them                                                        *)

\* The root has no event yet, so there is nothing to note.
AuditedRoot ==
  /\ next_process_id < Roots
  /\ SpawnRoot
  /\ UNCHANGED auditVars

AuditedLocal(p) ==
  /\ LocalEvent(p)
  /\ Noted(record_event(noted, p, clock'[p], {}))
  /\ UNCHANGED in_flight

\* Two events: the parent's, and the child's birth after it.
AuditedSpawn(p) ==
  LET child == next_process_id
      spawned == record_event(noted, p, clock'[p], {})
  IN
  /\ SpawnChild(p)
  /\ Noted(record_event(spawned, child, clock'[child], {Len(spawned.stamps)}))
  /\ UNCHANGED in_flight

AuditedSend(p, ch) ==
  /\ Send(p, ch)
  /\ Noted(record_event(noted, p, clock'[p], {}))
  /\ in_flight' = [in_flight EXCEPT ![ch] = Append(@, Len(stamps'))]

AuditedReceive(p, ch) ==
  /\ Receive(p, ch)
  /\ Noted(record_event(noted, p, clock'[p], {Head(in_flight[ch])}))
  /\ in_flight' = [in_flight EXCEPT ![ch] = Tail(@)]

AuditNext ==
  \/ AuditedRoot
  \/ \E p \in Spawned : AuditedLocal(p) \/ AuditedSpawn(p)
  \/ \E p \in Spawned, ch \in Channel : AuditedSend(p, ch) \/ AuditedReceive(p, ch)

AuditSpec == AuditInit /\ [][AuditNext]_<<vars, auditVars>>

-----------------------------------------------------------------------------
(* `check_causality` *)

\* Row by row: what is reachable from an event's predecessors, and they.
reach ==
  LET row[i \in DOMAIN preds] == preds[i] \union UNION {row[j] : j \in preds[i]}
  IN  row

\* The audit passes.
check_causality ==
  \A i, j \in DOMAIN stamps :
    i # j =>
      /\ happened_before(stamps[i], stamps[j]) <=> i \in reach[j]
      /\ i \in reach[j] => stamps[i].lamport < stamps[j].lamport

-----------------------------------------------------------------------------
(* Properties *)

\* The event whose record is the i-th: that many records are of its process.
Recorded(i) ==
  LET p == stamps[i].process IN <<p, Cardinality({j \in 1 .. i : stamps[j].process = p})>>

\* However long the harness runs, its audit of the clocks finds nothing wrong with
\* a correct kernel, and it is right for the right reason: what it takes for the
\* truth about two events is the truth, and the stamp it expects of a delivery is
\* the one of the send it remembers.
AuditIsExact ==
  /\ check_causality
  /\ \A i \in DOMAIN stamps : {Recorded(j) : j \in reach[i]} = history.at[Recorded(i)].past
  /\ \A ch \in Channel :
       [m \in DOMAIN queues[ch] |-> queues[ch][m].sent_at]
         = [m \in DOMAIN in_flight[ch] |-> stamps[in_flight[ch][m]]]
=============================================================================
