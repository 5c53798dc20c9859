----------------------------- MODULE Scheduler ------------------------------
(* crate `process`: the processes, their handle tables, spawning with       *)
(* grants, and the round-robin queue, over the kernel they share. What a    *)
(* process does to its objects directly through the kernel is here too:     *)
(* `new_object`, `derive`, `revoke`, `reissue` and `destroy_object`, what   *)
(* they return going into the caller's own table, where a copied value may  *)
(* be granted again as well. Ipc.tla adds the channels. Clocks are left to  *)
(* Causality.tla: no operation here reads one.                              *)
(*                                                                          *)
(* A process that once had a capability in its table may have copied the    *)
(* value out (`Process::capability` returns a copy): `known` is what it can *)
(* still present long after the handle is gone.                             *)
EXTENDS ProcessOps, FiniteSets

CONSTANTS
  MaxProcesses,   \* bound: processes ever spawned
  MaxRoots,       \* bound: a root is one of the first MaxRoots processes
  MaxObjects,     \* bound: objects ever allocated
  MaxEpoch,       \* bound: revocations of one object
  Shapes,         \* bound: the kinds of the grants of one batch, in order
  MaxGrants,      \* bound: `next_handle` of a process
  NewRights,      \* rights asked of `new_object`
  DerivedRights,  \* rights asked for in a `Grant::Derive` and of `derive`
  Regranted       \* bound: rights of the copied values a process grants itself again

ASSUME SchedulerAssumption ==
  /\ {MaxProcesses, MaxRoots, MaxObjects, MaxEpoch, MaxGrants} \subseteq Nat
  /\ Shapes \subseteq Seq({"Transfer", "Derive", "Move"})
  /\ MaxRoots <= MaxProcesses
  /\ NewRights \subseteq Rights
  /\ DerivedRights \subseteq Rights

VARIABLES
  next_id, epochs,     \* `Kernel`
  next_process_id,     \* `Scheduler.next_process_id`
  tables,              \* `Process.capabilities`, per process
  next_handle,         \* `Process.next_handle`, per process
  ready_queue,         \* `Scheduler.ready_queue`
  known,               \* the capability values each process has had (history)
  issued               \* the table entries ever issued, not counting hand-offs (history)

vars == <<next_id, epochs, next_process_id, tables, next_handle, ready_queue, known, issued>>

Process == DOMAIN tables
Object == 0 .. MaxObjects - 1

Init ==
  /\ next_id = 0
  /\ epochs = Empty
  /\ next_process_id = 0
  /\ tables = Empty
  /\ next_handle = Empty
  /\ ready_queue = <<>>
  /\ known = Empty
  /\ issued = 0

-----------------------------------------------------------------------------
(* Process *)

HasRoom(next, n) == next + n <= MaxGrants

\* `Process::grant` to oneself: a new entry of one's own.
Install(p, cap) ==
  /\ HasRoom(next_handle[p], 1)
  /\ tables' = [tables EXCEPT ![p] = Granted(@, next_handle[p], <<cap>>)]
  /\ next_handle' = [next_handle EXCEPT ![p] = NextHandle(@, <<cap>>)]
  /\ known' = [known EXCEPT ![p] = @ \union {cap}]
  /\ issued' = issued + 1

-----------------------------------------------------------------------------
(* The kernel's operations, called by a process *)

\* `Kernel::new_object`, and the creator installs the capability.
NewObject(p, rights) ==
  /\ next_id < MaxObjects
  /\ next_id' = next_id + 1
  /\ epochs' = inserted(epochs, next_id)
  /\ Install(p, [object |-> next_id, rights |-> rights, epoch |-> 0])
  /\ UNCHANGED <<next_process_id, ready_queue>>

\* `Kernel::derive` for oneself, and the caller installs the view.
DeriveOwn(p, cap, requested) ==
  /\ CanDerive(epochs, cap, requested)
  /\ Install(p, derived(cap, requested))
  /\ UNCHANGED <<next_id, epochs, next_process_id, ready_queue>>

\* `Process::grant` of a copied value, whatever it is still good for.
GrantOwn(p, cap) ==
  /\ Install(p, cap)
  /\ UNCHANGED <<next_id, epochs, next_process_id, ready_queue>>

Revoke(p, cap) ==
  /\ Permits(epochs, cap, {"DESTROY"})
  /\ epochs[cap.object] < MaxEpoch
  /\ epochs' = bumped(epochs, cap.object)
  /\ UNCHANGED <<next_id, next_process_id, tables, next_handle, ready_queue, known, issued>>

\* `Kernel::reissue`: a revocation that leaves the caller, who installs it, one
\* capability at the new epoch.
Reissue(p, cap) ==
  /\ Permits(epochs, cap, {"DESTROY"})
  /\ epochs[cap.object] < MaxEpoch
  /\ epochs' = bumped(epochs, cap.object)
  /\ Install(p, reissued(epochs, cap))
  /\ UNCHANGED <<next_id, next_process_id, ready_queue>>

DestroyObject(p, cap) ==
  /\ Permits(epochs, cap, {"DESTROY"})
  /\ epochs' = removed(epochs, cap.object)
  /\ UNCHANGED <<next_id, next_process_id, tables, next_handle, ready_queue, known, issued>>

-----------------------------------------------------------------------------
(* Batches of grants *)

Batches(p) ==
  LET grants == [kind : {"Transfer", "Move"}, handle : DOMAIN tables[p], rights : {NONE}]
                  \union [kind : {"Derive"}, handle : DOMAIN tables[p], rights : DerivedRights]
  IN  UNION {{batch \in [DOMAIN shape -> grants] :
                \A k \in DOMAIN shape : batch[k].kind = shape[k]} : shape \in Shapes}

Derivations(grants) == Cardinality({k \in DOMAIN grants : ~leaves(grants[k])})

WithinEpochs(p, grants) ==
  \A o \in Moved(tables[p], grants) : o \in DOMAIN epochs => epochs[o] < MaxEpoch

-----------------------------------------------------------------------------
(* Scheduler *)

\* A root process, with whatever capabilities the code that boots it has seen.
Spawn(initial) ==
  LET id == next_process_id IN
  /\ id < MaxRoots
  /\ HasRoom(0, Len(initial))
  /\ next_process_id' = id + 1
  /\ tables' = Extended(tables, id, Granted(Empty, 0, initial))
  /\ next_handle' = Extended(next_handle, id, NextHandle(0, initial))
  /\ known' = Extended(known, id, SetOf(initial))
  /\ ready_queue' = Append(ready_queue, id)
  /\ issued' = issued + Len(initial)
  /\ UNCHANGED <<next_id, epochs>>

\* Mutant: the parent is queued a second time instead of its child.
SpawnChild_queuesParent(parent, grants) ==
  LET id == next_process_id
      delivered == Delivered(epochs, tables[parent], grants)
  IN
  /\ id < MaxProcesses
  /\ HasRoom(0, Len(grants))
  /\ WithinEpochs(parent, grants)
  /\ ValidBatch(epochs, tables[parent], grants)
  /\ next_process_id' = id + 1
  /\ epochs' = AfterBatch(epochs, tables[parent], grants)
  /\ tables' = Extended([tables EXCEPT ![parent] = Remaining(@, grants)], id,
                        Granted(Empty, 0, delivered))
  /\ next_handle' = Extended(next_handle, id, NextHandle(0, delivered))
  /\ known' = Extended(known, id, SetOf(delivered))
  /\ ready_queue' = Append(ready_queue, parent)
  /\ issued' = issued + Derivations(grants)
  /\ UNCHANGED next_id

\* Validation first, then every effect: the parent's table, the moved objects'
\* epochs, and the child with its own table, last in the queue.
SpawnChild(parent, grants) ==
  LET id == next_process_id
      delivered == Delivered(epochs, tables[parent], grants)
  IN
  /\ id < MaxProcesses
  /\ HasRoom(0, Len(grants))
  /\ WithinEpochs(parent, grants)
  /\ ValidBatch(epochs, tables[parent], grants)
  /\ next_process_id' = id + 1
  /\ epochs' = AfterBatch(epochs, tables[parent], grants)
  /\ tables' = Extended([tables EXCEPT ![parent] = Remaining(@, grants)], id,
                        Granted(Empty, 0, delivered))
  /\ next_handle' = Extended(next_handle, id, NextHandle(0, delivered))
  /\ known' = Extended(known, id, SetOf(delivered))
  /\ ready_queue' = Append(ready_queue, id)
  /\ issued' = issued + Derivations(grants)
  /\ UNCHANGED next_id

\* Mutant: the process that ran goes back to the front.
ScheduleNext_pushFront ==
  /\ Len(ready_queue) > 1
  /\ ready_queue' = <<ready_queue[2], ready_queue[1]>> \o SubSeq(ready_queue, 3, Len(ready_queue))
  /\ UNCHANGED <<next_id, epochs, next_process_id, tables, next_handle, known, issued>>

ScheduleNext ==
  /\ ready_queue # <<>>
  /\ ready_queue' = Append(Tail(ready_queue), Head(ready_queue))
  /\ UNCHANGED <<next_id, epochs, next_process_id, tables, next_handle, known, issued>>

Calls ==
  \/ \E p \in Process, rights \in NewRights : NewObject(p, rights)
  \/ \E p \in Process : \E cap \in known[p], requested \in DerivedRights : DeriveOwn(p, cap, requested)
  \/ \E p \in Process : \E cap \in {c \in known[p] : c.rights \in Regranted} : GrantOwn(p, cap)
  \/ \E p \in Process : \E cap \in known[p] : Revoke(p, cap)
  \/ \E p \in Process : \E cap \in known[p] : Reissue(p, cap)
  \/ \E p \in Process : \E cap \in known[p] : DestroyObject(p, cap)
  \/ Spawn(<<>>)
  \/ \E p \in Process : \E cap \in known[p] : Spawn(<<cap>>)
  \/ \E p \in Process : \E grants \in Batches(p) : SpawnChild(p, grants)

Next == Calls \/ ScheduleNext

Spec == Init /\ [][Next]_vars /\ WF_vars(ScheduleNext)

-----------------------------------------------------------------------------
(* Properties *)

TypeOK ==
  /\ next_id \in 0 .. MaxObjects
  /\ DOMAIN epochs \subseteq 0 .. next_id - 1
  /\ epochs \in [DOMAIN epochs -> Nat]
  /\ next_process_id \in 0 .. MaxProcesses
  /\ Process = 0 .. next_process_id - 1
  /\ next_handle \in [Process -> 0 .. HandleSpace - 1]
  /\ known \in [Process -> SUBSET Capability(Object)]
  /\ \A p \in Process :
       /\ DOMAIN tables[p] \subseteq 0 .. HandleSpace - 1
       /\ tables[p] \in [DOMAIN tables[p] -> known[p]]
  /\ ready_queue \in Seq(Process)
  /\ issued \in Nat

\* Every process waits in the queue exactly once: nobody is forgotten, nobody
\* gets two turns per round, however spawns and turns interleave.
QueueIsAPermutation ==
  /\ SetOf(ready_queue) = Process
  /\ Len(ready_queue) = Cardinality(Process)

\* A process that exists gets a turn, and another one, for ever: no number of
\* spawns starves it (`spawn` and `spawn_child` queue behind those waiting).
EveryoneGetsATurn ==
  \A p \in 0 .. MaxProcesses - 1 :
    p \in Process ~> (ready_queue # <<>> /\ Head(ready_queue) = p)

\* Everyone who can still use a capability for the object, with that capability.
Holders(o) ==
  {holder \in UNION {{p} \X known[p] : p \in Process} :
     holder[2].object = o /\ Live(epochs, holder[2])}

\* A `Move` to a child (like any step that advances an object's epoch) leaves at
\* most one working capability for the object, whatever copies and derived views
\* were kept anywhere; and when it was a move, the child can use it.
HandsOff ==
  \A o \in DOMAIN epochs \cap DOMAIN epochs' :
    epochs'[o] # epochs[o] =>
      /\ Cardinality(Holders(o)') <= 1
      /\ next_process_id' # next_process_id
           => {holder[1] : holder \in Holders(o)'} = {next_process_id}

HandoffIsExclusive == [][HandsOff]_vars

\* A handle names the same capability for as long as the process holds it
\* (`grant`: "under a fresh handle"), as long as there are handles left to name one.
HandlesAreFresh ==
  [][\A p \in Process : Cardinality(DOMAIN tables[p]) < HandleSpace =>
       \A h \in DOMAIN tables[p] \cap DOMAIN tables'[p] : tables'[p][h] = tables[p][h]]_vars
=============================================================================
