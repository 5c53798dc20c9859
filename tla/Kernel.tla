------------------------------- MODULE Kernel -------------------------------
(* crate `capability`: `struct Kernel` and every operation on it.           *)
(*                                                                          *)
(* A `Capability` is a Copy value, so whoever saw one may present it at any *)
(* later time: `minted` records every value the kernel ever returned, and   *)
(* each operation takes its argument from that set. `Capability` has no     *)
(* public constructor, so nothing else can be presented as long as there is *)
(* one kernel, which is assumed: ids are per-kernel counters and a           *)
(* capability names no kernel, so one minted by another kernel can name a   *)
(* real, unrelated object of this one (ADR-004, known gap). Every workload  *)
(* uses a single kernel.                                                    *)
(*                                                                          *)
(* A refused call (any verdict of `check` but "Ok", or `CannotAmplify`)     *)
(* changes nothing: it is a stuttering step, and the properties look at     *)
(* the verdicts themselves.                                                 *)
EXTENDS CapabilityOps

CONSTANTS
  MaxObjects,   \* bound: objects allocated in a behaviour
  MaxEpoch,     \* bound: revocations of one object
  Requests      \* the rights callers ask for (`new_object`, `derive`)

ASSUME KernelAssumption ==
  /\ MaxObjects \in Nat
  /\ MaxEpoch \in Nat
  /\ Requests \subseteq Rights

VARIABLES
  next_id,   \* `Kernel.next_id`
  epochs,    \* `Kernel.epochs`
  minted,    \* every capability value returned so far (history)
  born       \* the rights each object was created with (history)

vars == <<next_id, epochs, minted, born>>

Object == 0 .. MaxObjects - 1

Init ==
  /\ next_id = 0
  /\ epochs = [o \in {} |-> 0]
  /\ minted = {}
  /\ born = [o \in {} |-> NONE]

\* Mutant: the counter is not advanced, so a destroyed object's id is reused.
NewObject_idReused(rights) ==
  /\ next_id < MaxObjects
  /\ epochs' = inserted(epochs, next_id)
  /\ minted' = minted \union {[object |-> next_id, rights |-> rights, epoch |-> 0]}
  /\ born' = [o \in DOMAIN born \union {next_id} |-> IF o = next_id THEN rights ELSE born[o]]
  /\ UNCHANGED next_id

NewObject(rights) ==
  /\ next_id < MaxObjects
  /\ next_id' = next_id + 1
  /\ epochs' = inserted(epochs, next_id)
  /\ minted' = minted \union {[object |-> next_id, rights |-> rights, epoch |-> 0]}
  /\ born' = [o \in DOMAIN born \union {next_id} |-> IF o = next_id THEN rights ELSE born[o]]

Derive(cap, requested) ==
  /\ CanDerive(epochs, cap, requested)
  /\ minted' = minted \union {derived(cap, requested)}
  /\ UNCHANGED <<next_id, epochs, born>>

\* Mutant: existence is all that is asked of the capability, not that it is live.
CanRevoke_existsOnly(cap) == object_exists(epochs, cap.object)

CanRevoke(cap) == Permits(epochs, cap, {"DESTROY"})

Revoke(cap) ==
  /\ CanRevoke(cap)
  /\ epochs[cap.object] < MaxEpoch
  /\ epochs' = bumped(epochs, cap.object)
  /\ UNCHANGED <<next_id, minted, born>>

\* Mutant: the fresh capability is maximal again instead of as strong as `cap`.
Reissue_maximal(cap) ==
  /\ CanRevoke(cap)
  /\ epochs[cap.object] < MaxEpoch
  /\ epochs' = bumped(epochs, cap.object)
  /\ minted' = minted \union {[reissued(epochs, cap) EXCEPT !.rights = ALL]}
  /\ UNCHANGED <<next_id, born>>

\* `reissue` is a `revoke` followed by the one capability at the new epoch.
Reissue(cap) ==
  /\ CanRevoke(cap)
  /\ epochs[cap.object] < MaxEpoch
  /\ epochs' = bumped(epochs, cap.object)
  /\ minted' = minted \union {reissued(epochs, cap)}
  /\ UNCHANGED <<next_id, born>>

\* Mutant: "destroying" puts the object back to its first epoch.
DestroyObject_resets(cap) ==
  /\ Permits(epochs, cap, {"DESTROY"})
  /\ epochs' = inserted(epochs, cap.object)
  /\ UNCHANGED <<next_id, minted, born>>

DestroyObject(cap) ==
  /\ Permits(epochs, cap, {"DESTROY"})
  /\ epochs' = removed(epochs, cap.object)
  /\ UNCHANGED <<next_id, minted, born>>

Next ==
  \/ \E rights \in Requests : NewObject(rights)
  \/ \E cap \in minted, requested \in Requests : Derive(cap, requested)
  \/ \E cap \in minted : Revoke(cap)
  \/ \E cap \in minted : Reissue(cap)
  \/ \E cap \in minted : DestroyObject(cap)

Spec == Init /\ [][Next]_vars

-----------------------------------------------------------------------------
(* Properties *)

\* The table holds only ids already handed out, and no capability is minted
\* for an id or an epoch the kernel has not reached (`new_object`, `reissue`).
TypeOK ==
  /\ next_id \in 0 .. MaxObjects
  /\ DOMAIN epochs \subseteq 0 .. next_id - 1
  /\ epochs \in [DOMAIN epochs -> Nat]
  /\ minted \subseteq Capability(Object)
  /\ born \in [0 .. next_id - 1 -> Requests]

\* No capability is ahead of the kernel: its id was allocated, and its epoch is
\* one the object has been at. It is what makes a revocation final.
NothingFromTheFuture ==
  \A cap \in minted :
    /\ cap.object < next_id
    /\ object_exists(epochs, cap.object) => cap.epoch <= epochs[cap.object]

\* Attenuation only, over a capability's whole ancestry: across any chain of
\* `derive` and `reissue`, whatever was revoked in between, nobody ever gets a
\* right that the object was not created with (`new_object`).
WithinTheRoot ==
  \A cap \in minted : cap.rights \subseteq born[cap.object]

\* A capability only loses: once refused as `Revoked` it is refused for good,
\* once `UnknownObject` it stays so, and rights it lacks never appear.
Degrades ==
  \A cap \in minted, required \in Requests :
    LET before == check(epochs, cap, required)
        after == check(epochs', cap, required)
    IN  /\ before = "UnknownObject" => after = "UnknownObject"
        /\ before = "Revoked" => after \in {"Revoked", "UnknownObject"}
        /\ before = "InsufficientRights" => after # "Ok"

VerdictOnlyDegrades == [][Degrades]_vars

\* An object that nobody has a working capability for (all revoked, or the
\* object destroyed) stays out of everybody's reach: no replay of old
\* capabilities, in any combination, mints a working one.
StaysOutOfReach ==
  \A o \in 0 .. next_id - 1 :
    (\A cap \in minted : cap.object = o => ~Live(epochs, cap))
      => \A cap \in minted' : cap.object = o => ~Live(epochs', cap)

NoResurrection == [][StaysOutOfReach]_vars

\* The authority the kernel maintains, as the abstract specification sees it.
statusOf == [o \in Object |-> CASE o \in DOMAIN epochs -> "alive"
                                [] o \notin DOMAIN epochs /\ o < next_id -> "dead"
                                [] OTHER -> "unborn"]

exercisableOf ==
  [o \in Object |-> {cap.rights : cap \in {c \in minted : c.object = o /\ Live(epochs, c)}}]

A == INSTANCE Authority WITH status <- statusOf, exercisable <- exercisableOf

\* The kernel's epochs implement the promise of Authority.tla: in particular
\* `reissue` leaves one single strength of authority, the one handed over.
ImplementsAuthority == A!Spec
=============================================================================
