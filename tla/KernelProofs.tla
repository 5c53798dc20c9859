---------------------------- MODULE KernelProofs ----------------------------
(* Theorems of Kernel.tla for every MaxObjects, MaxEpoch and Requests.      *)
EXTENDS Kernel, CapabilityLemmas, TLAPS

(***************************************************************************)
(* Type correctness, and no capability is ahead of the kernel.             *)
(***************************************************************************)

Inv == TypeOK /\ NothingFromTheFuture

LEMMA InitInv == Init => Inv
BY KernelAssumption DEF Init, Inv, TypeOK, NothingFromTheFuture

LEMMA NewObjectInv ==
  ASSUME Inv, NEW rights \in Requests, NewObject(rights)
  PROVE  Inv'
BY KernelAssumption
DEF Inv, TypeOK, NothingFromTheFuture, NewObject, inserted, object_exists, Capability, Object

LEMMA DeriveInv ==
  ASSUME Inv, NEW cap \in minted, NEW requested \in Requests, Derive(cap, requested)
  PROVE  Inv'
<1>1. derived(cap, requested) \in Capability(Object)
  BY KernelAssumption DEF Inv, TypeOK, derived, Capability
<1>2. /\ derived(cap, requested).object = cap.object
      /\ derived(cap, requested).epoch = cap.epoch
  BY DEF Inv, TypeOK, derived, Capability
<1> QED BY <1>1, <1>2 DEF Inv, TypeOK, NothingFromTheFuture, Derive, object_exists

\* What a bump does to the table: one existing object's epoch grows by one.
LEMMA Bumped ==
  ASSUME Inv, NEW o \in DOMAIN epochs
  PROVE  /\ DOMAIN bumped(epochs, o) = DOMAIN epochs
         /\ bumped(epochs, o) \in [DOMAIN epochs -> Nat]
         /\ bumped(epochs, o)[o] = epochs[o] + 1
         /\ \A q \in DOMAIN epochs : q # o => bumped(epochs, o)[q] = epochs[q]
BY DEF Inv, TypeOK, bumped

LEMMA RevocableExists ==
  ASSUME Inv, NEW cap \in minted, CanRevoke(cap)
  PROVE  /\ cap.object \in DOMAIN epochs
         /\ epochs[cap.object] = cap.epoch
         /\ Live(epochs, cap)
         /\ "DESTROY" \in cap.rights
BY PermitsIsLive DEF CanRevoke, Live, object_exists

LEMMA RevokeInv ==
  ASSUME Inv, NEW cap \in minted, Revoke(cap)
  PROVE  Inv'
<1>1. cap.object \in DOMAIN epochs
  BY RevocableExists DEF Revoke
<1> QED
  BY SMTT(20), <1>1, Bumped DEF Inv, TypeOK, NothingFromTheFuture, Revoke, object_exists, Capability

LEMMA Reissued ==
  ASSUME Inv, NEW cap \in minted, CanRevoke(cap)
  PROVE  /\ reissued(epochs, cap) \in Capability(Object)
         /\ reissued(epochs, cap).object = cap.object
         /\ reissued(epochs, cap).rights = cap.rights
         /\ reissued(epochs, cap).epoch = epochs[cap.object] + 1
BY RevocableExists, Bumped DEF reissued, Inv, TypeOK, Capability

LEMMA ReissueInv ==
  ASSUME Inv, NEW cap \in minted, Reissue(cap)
  PROVE  Inv'
<1>1. cap.object \in DOMAIN epochs
  BY RevocableExists DEF Reissue
<1> QED
  BY SMTT(20), <1>1, Bumped, Reissued
  DEF Inv, TypeOK, NothingFromTheFuture, Reissue, object_exists, Capability

LEMMA DestroyObjectInv ==
  ASSUME Inv, NEW cap \in minted, DestroyObject(cap)
  PROVE  Inv'
BY DEF Inv, TypeOK, NothingFromTheFuture, DestroyObject, removed, object_exists

LEMMA NextInv == Inv /\ [Next]_vars => Inv'
<1> SUFFICES ASSUME Inv, [Next]_vars PROVE Inv'
  OBVIOUS
<1>1. ASSUME NEW rights \in Requests, NewObject(rights) PROVE Inv'
  BY <1>1, NewObjectInv
<1>2. ASSUME NEW cap \in minted, NEW requested \in Requests, Derive(cap, requested) PROVE Inv'
  BY <1>2, DeriveInv
<1>3. ASSUME NEW cap \in minted, Revoke(cap) PROVE Inv'
  BY <1>3, RevokeInv
<1>4. ASSUME NEW cap \in minted, Reissue(cap) PROVE Inv'
  BY <1>4, ReissueInv
<1>5. ASSUME NEW cap \in minted, DestroyObject(cap) PROVE Inv'
  BY <1>5, DestroyObjectInv
<1>6. CASE UNCHANGED vars
  BY <1>6 DEF vars, Inv, TypeOK, NothingFromTheFuture
<1> QED BY <1>1, <1>2, <1>3, <1>4, <1>5, <1>6 DEF Next

\* The kernel's state is always well formed (`next_id`, `epochs`, capabilities).
THEOREM TypeCorrect == Spec => []TypeOK
<1>1. Inv => TypeOK
  BY DEF Inv
<1> QED BY <1>1, InitInv, NextInv, PTL DEF Spec

\* No capability is ever ahead of the kernel: ids are allocated in order by
\* `new_object` and epochs are only ever advanced, one at a time.
THEOREM NeverFromTheFuture == Spec => []NothingFromTheFuture
<1>1. Inv => NothingFromTheFuture
  BY DEF Inv
<1> QED BY <1>1, InitInv, NextInv, PTL DEF Spec

(***************************************************************************)
(* A revocation is final.                                                  *)
(***************************************************************************)

\* The table only advances: an object's epoch never decreases, an object that is
\* gone never returns, and an object that appears has a fresh id.
LEMMA TableAdvances ==
  ASSUME Inv, Next
  PROVE  /\ \A o \in DOMAIN epochs \cap DOMAIN epochs' : epochs[o] <= epochs'[o]
         /\ \A o \in DOMAIN epochs' : o \in DOMAIN epochs \/ o = next_id
<1> DEFINE Goal == /\ \A o \in DOMAIN epochs \cap DOMAIN epochs' : epochs[o] <= epochs'[o]
                   /\ \A o \in DOMAIN epochs' : o \in DOMAIN epochs \/ o = next_id
<1>0. \A o \in DOMAIN epochs : epochs[o] \in Nat
  BY DEF Inv, TypeOK
<1>1. ASSUME NEW rights \in Requests, NewObject(rights) PROVE Goal
  <2>1. next_id \notin DOMAIN epochs
    BY DEF Inv, TypeOK
  <2> QED BY <1>0, <1>1, <2>1 DEF NewObject, inserted
<1>2. ASSUME NEW cap \in minted, NEW requested \in Requests, Derive(cap, requested) PROVE Goal
  BY <1>0, <1>2 DEF Derive
<1>3. ASSUME NEW cap \in minted, CanRevoke(cap), epochs' = bumped(epochs, cap.object) PROVE Goal
  BY <1>0, <1>3, RevocableExists, Bumped
<1>4. ASSUME NEW cap \in minted, DestroyObject(cap) PROVE Goal
  BY <1>0, <1>4 DEF DestroyObject, removed
<1> QED BY <1>1, <1>2, <1>3, <1>4 DEF Next, Revoke, Reissue

LEMMA StaleStaysStale ==
  ASSUME Inv, Next, NEW cap \in minted
  PROVE  /\ ~object_exists(epochs, cap.object) => ~object_exists(epochs', cap.object)
         /\ ~Live(epochs, cap) => ~Live(epochs', cap)
<1>1. cap.object < next_id /\ cap.object # next_id
  BY KernelAssumption DEF Inv, TypeOK, NothingFromTheFuture, Capability, Object
<1>2. ~object_exists(epochs, cap.object) => ~object_exists(epochs', cap.object)
  BY <1>1, TableAdvances DEF object_exists
<1>3. ASSUME ~Live(epochs, cap), Live(epochs', cap) PROVE FALSE
  <2>1. cap.object \in DOMAIN epochs \cap DOMAIN epochs'
    BY <1>2, <1>3 DEF Live, object_exists
  <2>2. epochs[cap.object] <= epochs'[cap.object] /\ cap.epoch <= epochs[cap.object]
    BY <2>1, TableAdvances DEF Inv, NothingFromTheFuture, object_exists
  <2>3. epochs[cap.object] \in Nat /\ epochs'[cap.object] \in Nat /\ cap.epoch \in Nat
    <3>1. Inv'
      BY NextInv
    <3> QED BY <3>1, <2>1 DEF Inv, TypeOK, Capability
  <2>4. epochs'[cap.object] = cap.epoch /\ epochs[cap.object] # cap.epoch
    BY <1>3, <2>1 DEF Live, object_exists
  <2> QED BY <2>2, <2>3, <2>4
<1> QED BY <1>2, <1>3

\* A capability's verdict only degrades (`check`): in particular a revoked
\* capability is refused for ever.
THEOREM RevocationIsFinal == Spec => VerdictOnlyDegrades
<1>1. Inv /\ [Next]_vars => [Degrades]_vars
  <2> SUFFICES ASSUME Inv, Next PROVE Degrades
    BY DEF vars
  <2> SUFFICES ASSUME NEW cap \in minted, NEW required \in Requests
               PROVE /\ check(epochs, cap, required) = "UnknownObject"
                          => check(epochs', cap, required) = "UnknownObject"
                     /\ check(epochs, cap, required) = "Revoked"
                          => check(epochs', cap, required) \in {"Revoked", "UnknownObject"}
                     /\ check(epochs, cap, required) = "InsufficientRights"
                          => check(epochs', cap, required) # "Ok"
    BY DEF Degrades
  <2>1. /\ check(epochs, cap, required) = "UnknownObject" <=> ~object_exists(epochs, cap.object)
        /\ check(epochs, cap, required) = "Revoked"
             <=> object_exists(epochs, cap.object) /\ ~Live(epochs, cap)
        /\ check(epochs, cap, required) = "InsufficientRights"
             <=> Live(epochs, cap) /\ ~contains(cap.rights, required)
    BY CheckVerdict
  <2>2. /\ check(epochs', cap, required) = "UnknownObject" <=> ~object_exists(epochs', cap.object)
        /\ check(epochs', cap, required) = "Revoked"
             <=> object_exists(epochs', cap.object) /\ ~Live(epochs', cap)
        /\ check(epochs', cap, required) = "Ok"
             <=> Live(epochs', cap) /\ contains(cap.rights, required)
    BY CheckVerdict
  <2> QED BY <2>1, <2>2, StaleStaysStale
<1> QED BY <1>1, InitInv, NextInv, PTL DEF Spec, VerdictOnlyDegrades

(***************************************************************************)
(* Nothing resurrects an object nobody can reach.                          *)
(***************************************************************************)

\* A value minted by a step is for the object just allocated, or descends from
\* a capability that was working when the step was taken.
LEMMA MintedFromLive ==
  ASSUME Inv, Next, NEW cap \in minted', cap \notin minted
  PROVE  \/ cap.object = next_id
         \/ \E parent \in minted : /\ parent.object = cap.object
                                   /\ Live(epochs, parent)
                                   /\ cap.rights \subseteq parent.rights
<1> DEFINE Goal == \/ cap.object = next_id
                   \/ \E parent \in minted : /\ parent.object = cap.object
                                             /\ Live(epochs, parent)
                                             /\ cap.rights \subseteq parent.rights
<1>1. ASSUME NEW rights \in Requests, NewObject(rights) PROVE Goal
  BY <1>1 DEF NewObject
<1>2. ASSUME NEW parent \in minted, NEW requested \in Requests, Derive(parent, requested)
      PROVE Goal
  <2>1. cap = derived(parent, requested)
    BY <1>2 DEF Derive
  <2>2. cap.object = parent.object /\ cap.rights = requested
    BY <2>1 DEF Inv, TypeOK, derived, Capability
  <2>3. Live(epochs, parent) /\ requested \subseteq parent.rights
    BY <1>2, PermitsIsLive DEF Derive, CanDerive, contains
  <2> QED BY <2>2, <2>3
<1>3. ASSUME NEW parent \in minted, Revoke(parent) PROVE Goal
  BY <1>3 DEF Revoke
<1>4. ASSUME NEW parent \in minted, Reissue(parent) PROVE Goal
  <2>1. cap = reissued(epochs, parent)
    BY <1>4 DEF Reissue
  <2>2. cap.object = parent.object /\ cap.rights = parent.rights
    BY <1>4, <2>1, Reissued DEF Reissue
  <2> QED BY <1>4, <2>2, RevocableExists DEF Reissue
<1>5. ASSUME NEW parent \in minted, DestroyObject(parent) PROVE Goal
  BY <1>5 DEF DestroyObject
<1> QED BY <1>1, <1>2, <1>3, <1>4, <1>5 DEF Next

\* Once no capability for an object works, none ever will again, whatever old
\* capabilities are presented to `derive`, `revoke` and `reissue`.
THEOREM NoResurrectionEver == Spec => NoResurrection
<1>1. Inv /\ [Next]_vars => [StaysOutOfReach]_vars
  <2> SUFFICES ASSUME Inv, Next, NEW o \in 0 .. next_id - 1,
                      \A cap \in minted : cap.object = o => ~Live(epochs, cap),
                      NEW cap \in minted', cap.object = o
               PROVE  ~Live(epochs', cap)
    BY DEF StaysOutOfReach, vars
  <2>1. CASE cap \in minted
    BY <2>1, StaleStaysStale
  <2>2. CASE cap \notin minted
    <3>1. o # next_id
      BY DEF Inv, TypeOK
    <3> QED BY <2>2, <3>1, MintedFromLive
  <2> QED BY <2>1, <2>2
<1> QED BY <1>1, InitInv, NextInv, PTL DEF Spec, NoResurrection

(***************************************************************************)
(* Attenuation, over any ancestry.                                         *)
(***************************************************************************)

\* No chain of `derive` and `reissue` yields a right the object was not
\* created with.
THEOREM AttenuationOnly == Spec => []WithinTheRoot
<1>1. Init => WithinTheRoot
  BY DEF Init, WithinTheRoot
<1>2. Inv /\ WithinTheRoot /\ [Next]_vars => WithinTheRoot'
  <2> SUFFICES ASSUME Inv, WithinTheRoot, Next, NEW cap \in minted'
               PROVE  cap.rights \subseteq born'[cap.object]
    BY DEF WithinTheRoot, vars
  <2>1. \A o \in 0 .. next_id - 1 : born'[o] = born[o]
    BY DEF Next, NewObject, Derive, Revoke, Reissue, DestroyObject, Inv, TypeOK
  <2>2. \A known \in minted : known.object \in 0 .. next_id - 1
    BY KernelAssumption DEF Inv, TypeOK, NothingFromTheFuture, Capability, Object
  <2>3. CASE \E parent \in minted : /\ parent.object = cap.object
                                    /\ cap.rights \subseteq parent.rights
    BY <2>1, <2>2, <2>3 DEF WithinTheRoot
  <2>4. CASE \A parent \in minted :
               parent.object = cap.object => ~(cap.rights \subseteq parent.rights)
    <3>1. cap \notin minted
      BY <2>4
    <3>2. PICK rights \in Requests : NewObject(rights)
      <4>1. ASSUME NEW parent \in minted, NEW requested \in Requests, Derive(parent, requested)
            PROVE FALSE
        <5>1. /\ derived(parent, requested).object = parent.object
              /\ derived(parent, requested).rights = requested
          BY DEF Inv, TypeOK, derived, Capability
        <5> QED BY <2>4, <3>1, <4>1, <5>1, PermitsIsLive DEF Derive, CanDerive, contains
      <4>2. ASSUME NEW parent \in minted, Reissue(parent) PROVE FALSE
        BY <2>4, <3>1, <4>2, Reissued DEF Reissue
      <4> QED BY <3>1, <4>1, <4>2 DEF Next, Revoke, DestroyObject
    <3>3. cap = [object |-> next_id, rights |-> rights, epoch |-> 0]
      BY <3>1, <3>2 DEF NewObject
    <3>4. born'[next_id] = rights
      BY <3>2 DEF NewObject
    <3> QED BY <3>3, <3>4
  <2> QED BY <2>3, <2>4
<1> QED BY <1>1, <1>2, InitInv, NextInv, PTL DEF Spec

(***************************************************************************)
(* The kernel implements Authority.tla.                                    *)
(***************************************************************************)

\* What Authority.tla sees of an object is determined by its working capabilities.
LEMMA ExercisableMember ==
  ASSUME NEW o \in Object, NEW r
  PROVE  /\ r \in exercisableOf[o]
              <=> \E cap \in minted : cap.object = o /\ Live(epochs, cap) /\ cap.rights = r
         /\ r \in exercisableOf'[o]
              <=> \E cap \in minted' : cap.object = o /\ Live(epochs', cap) /\ cap.rights = r
BY DEF exercisableOf

\* An object whose epoch and capabilities a step leaves alone keeps its authority.
LEMMA Untouched ==
  ASSUME NEW o \in Object,
         o \in DOMAIN epochs <=> o \in DOMAIN epochs',
         o \in DOMAIN epochs => epochs'[o] = epochs[o],
         \A cap \in minted \union minted' :
           cap.object = o => (cap \in minted <=> cap \in minted')
  PROVE  exercisableOf'[o] = exercisableOf[o]
<1>1. ASSUME NEW cap, cap.object = o PROVE Live(epochs, cap) <=> Live(epochs', cap)
  BY <1>1 DEF Live, object_exists
<1>2. ASSUME NEW r PROVE r \in exercisableOf'[o] <=> r \in exercisableOf[o]
  BY <1>1, ExercisableMember
<1> QED BY <1>2

\* The shape of the refinement mapping's values.
LEMMA MappingShape ==
  /\ statusOf = [o \in Object |-> statusOf[o]]
  /\ exercisableOf = [o \in Object |-> exercisableOf[o]]
  /\ statusOf' = [o \in Object |-> statusOf'[o]]
  /\ exercisableOf' = [o \in Object |-> exercisableOf'[o]]
BY DEF statusOf, exercisableOf

LEMMA StatusOf ==
  ASSUME NEW o \in Object
  PROVE  /\ o \in DOMAIN epochs => statusOf[o] = "alive"
         /\ o \notin DOMAIN epochs /\ o < next_id => statusOf[o] = "dead"
         /\ o \notin DOMAIN epochs /\ ~(o < next_id) => statusOf[o] = "unborn"
         /\ o \in DOMAIN epochs' => statusOf'[o] = "alive"
         /\ o \notin DOMAIN epochs' /\ o < next_id' => statusOf'[o] = "dead"
         /\ o \notin DOMAIN epochs' /\ ~(o < next_id') => statusOf'[o] = "unborn"
BY DEF statusOf

\* A step that allocates and destroys nothing leaves every status alone.
LEMMA SameStatus ==
  ASSUME DOMAIN epochs' = DOMAIN epochs, next_id' = next_id
  PROVE  statusOf' = statusOf
BY MappingShape, StatusOf

LEMMA NewObjectCreates ==
  ASSUME Inv, NEW rights \in Requests, NewObject(rights)
  PROVE  next_id \in Object /\ A!Create(next_id, rights)
<1> DEFINE new == [object |-> next_id, rights |-> rights, epoch |-> 0]
<1>1. next_id \in Object /\ next_id \notin DOMAIN epochs /\ next_id' = next_id + 1
  BY KernelAssumption DEF Inv, TypeOK, NewObject, Object
<1>2. /\ DOMAIN epochs' = DOMAIN epochs \union {next_id}
      /\ epochs'[next_id] = 0
      /\ \A o \in DOMAIN epochs : epochs'[o] = epochs[o]
  BY <1>1 DEF NewObject, inserted
<1>3. minted' = minted \union {new} /\ \A cap \in minted : cap.object # next_id
  BY <1>1, KernelAssumption
  DEF NewObject, Inv, TypeOK, NothingFromTheFuture, Capability, Object
<1>4. statusOf[next_id] = "unborn"
  BY <1>1, StatusOf, KernelAssumption DEF Inv, TypeOK
<1>5. statusOf' = [statusOf EXCEPT ![next_id] = "alive"]
  <2>1. statusOf'[next_id] = "alive"
    BY <1>1, <1>2, StatusOf
  <2>2. ASSUME NEW o \in Object, o # next_id PROVE statusOf'[o] = statusOf[o]
    <3>1. (o < next_id') <=> (o < next_id)
      BY <1>1, <2>2, KernelAssumption DEF Object, Inv, TypeOK
    <3> QED BY <1>2, <2>2, <3>1, StatusOf
  <2> QED BY <2>1, <2>2, MappingShape
<1>6. exercisableOf' = [exercisableOf EXCEPT ![next_id] = {rights}]
  <2>1. exercisableOf'[next_id] = {rights}
    <3>1. Live(epochs', new)
      BY <1>2 DEF Live, object_exists
    <3>2. ASSUME NEW r PROVE r \in exercisableOf'[next_id] <=> r = rights
      BY <1>1, <1>3, <3>1, ExercisableMember
    <3> QED BY <3>2
  <2>2. ASSUME NEW o \in Object, o # next_id PROVE exercisableOf'[o] = exercisableOf[o]
    BY <1>2, <1>3, <2>2, Untouched
  <2> QED BY <2>1, <2>2, MappingShape
<1> QED BY <1>1, <1>4, <1>5, <1>6 DEF A!Create

LEMMA DeriveAttenuates ==
  ASSUME Inv, NEW cap \in minted, NEW requested \in Requests, Derive(cap, requested)
  PROVE  /\ cap.object \in Object
         /\ cap.rights \in exercisableOf[cap.object]
         /\ requested \in SUBSET cap.rights
         /\ A!Attenuate(cap.object, cap.rights, requested)
<1> DEFINE o == cap.object
           new == derived(cap, requested)
<1>1. o \in Object /\ new.object = o /\ new.rights = requested /\ new.epoch = cap.epoch
  BY DEF Inv, TypeOK, derived, Capability
<1>2. Live(epochs, cap) /\ "GRANT" \in cap.rights /\ requested \subseteq cap.rights
  BY PermitsIsLive DEF Derive, CanDerive, contains
<1>3. epochs' = epochs /\ next_id' = next_id /\ minted' = minted \union {new}
  BY DEF Derive
<1>4. cap.rights \in exercisableOf[o]
  BY <1>1, <1>2, ExercisableMember
<1>5. Live(epochs', new)
  BY <1>1, <1>2, <1>3 DEF Live, object_exists
<1>6. exercisableOf'[o] = exercisableOf[o] \union {requested}
  <2>1. ASSUME NEW r PROVE r \in exercisableOf'[o] <=> r \in exercisableOf[o] \/ r = requested
    BY <1>1, <1>3, <1>5, ExercisableMember
  <2> QED BY <2>1
<1>7. ASSUME NEW q \in Object, q # o PROVE exercisableOf'[q] = exercisableOf[q]
  BY <1>1, <1>3, <1>7, Untouched
<1>8. exercisableOf' = [exercisableOf EXCEPT ![o] = @ \union {requested}]
  BY <1>6, <1>7, MappingShape
<1>9. statusOf' = statusOf
  BY <1>3, SameStatus
<1> QED BY <1>1, <1>2, <1>4, <1>8, <1>9 DEF A!Attenuate

\* What both `revoke` and `reissue` do: every capability of the object minted
\* so far stops working, and other objects are not touched.
LEMMA BumpWithdraws ==
  ASSUME Inv, NEW cap \in minted, CanRevoke(cap), epochs' = bumped(epochs, cap.object)
  PROVE  /\ cap.object \in Object
         /\ cap.rights \in exercisableOf[cap.object]
         /\ "DESTROY" \in cap.rights
         /\ DOMAIN epochs' = DOMAIN epochs
         /\ \A q \in DOMAIN epochs : q # cap.object => epochs'[q] = epochs[q]
         /\ \A old \in minted : old.object = cap.object => ~Live(epochs', old)
<1>1. cap.object \in Object
  BY DEF Inv, TypeOK, Capability
<1>2. \A old \in minted : old.object = cap.object => ~Live(epochs', old)
  <2> SUFFICES ASSUME NEW old \in minted, old.object = cap.object PROVE ~Live(epochs', old)
    OBVIOUS
  <2>1. old.epoch <= epochs[cap.object] /\ old.epoch \in Nat /\ epochs[cap.object] \in Nat
    BY RevocableExists DEF Inv, TypeOK, NothingFromTheFuture, object_exists, Capability
  <2>2. epochs'[cap.object] = epochs[cap.object] + 1
    BY RevocableExists, Bumped
  <2> QED BY <2>1, <2>2 DEF Live
<1> QED BY <1>1, <1>2, RevocableExists, Bumped, ExercisableMember

LEMMA RevokeWithdraws ==
  ASSUME Inv, NEW cap \in minted, Revoke(cap)
  PROVE  cap.object \in Object /\ A!WithdrawAll(cap.object)
<1> DEFINE o == cap.object
<1>1. CanRevoke(cap) /\ epochs' = bumped(epochs, o) /\ minted' = minted /\ next_id' = next_id
  BY DEF Revoke
<1>2. exercisableOf'[o] = {}
  <2>1. ASSUME NEW r PROVE r \notin exercisableOf'[o]
    BY <1>1, BumpWithdraws, ExercisableMember
  <2> QED BY <2>1
<1>3. ASSUME NEW q \in Object, q # o PROVE exercisableOf'[q] = exercisableOf[q]
  BY <1>1, <1>3, BumpWithdraws, Untouched
<1>4. exercisableOf' = [exercisableOf EXCEPT ![o] = {}]
  BY <1>2, <1>3, MappingShape
<1>5. statusOf' = statusOf
  BY <1>1, BumpWithdraws, SameStatus
<1> QED BY <1>1, <1>4, <1>5, BumpWithdraws DEF A!WithdrawAll, A!Commands

LEMMA ReissueHandsOver ==
  ASSUME Inv, NEW cap \in minted, Reissue(cap)
  PROVE  /\ cap.object \in Object
         /\ cap.rights \in exercisableOf[cap.object]
         /\ A!HandOver(cap.object, cap.rights)
<1> DEFINE o == cap.object
           new == reissued(epochs, cap)
<1>1. /\ CanRevoke(cap) /\ epochs' = bumped(epochs, o)
      /\ minted' = minted \union {new} /\ next_id' = next_id
  BY DEF Reissue
<1>2. new.object = o /\ new.rights = cap.rights /\ Live(epochs', new)
  BY <1>1, Reissued, RevocableExists, Bumped DEF Live, object_exists
<1>3. exercisableOf'[o] = {cap.rights}
  <2>1. ASSUME NEW r PROVE r \in exercisableOf'[o] <=> r = cap.rights
    BY <1>1, <1>2, BumpWithdraws, ExercisableMember
  <2> QED BY <2>1
<1>4. ASSUME NEW q \in Object, q # o PROVE exercisableOf'[q] = exercisableOf[q]
  BY <1>1, <1>2, <1>4, BumpWithdraws, Untouched
<1>5. exercisableOf' = [exercisableOf EXCEPT ![o] = {cap.rights}]
  BY <1>3, <1>4, MappingShape
<1>6. statusOf' = statusOf
  BY <1>1, BumpWithdraws, SameStatus
<1> QED BY <1>1, <1>5, <1>6, BumpWithdraws DEF A!HandOver

LEMMA DestroyEnds ==
  ASSUME Inv, NEW cap \in minted, DestroyObject(cap)
  PROVE  cap.object \in Object /\ A!End(cap.object)
<1> DEFINE o == cap.object
<1>1. /\ DOMAIN epochs' = DOMAIN epochs \ {o}
      /\ \A q \in DOMAIN epochs' : epochs'[q] = epochs[q]
      /\ minted' = minted /\ next_id' = next_id
  BY DEF DestroyObject, removed
<1>2. o \in Object /\ o \in DOMAIN epochs /\ o < next_id
  BY PermitsIsLive DEF DestroyObject, Live, object_exists, Inv, TypeOK, NothingFromTheFuture, Capability
<1>3. cap.rights \in exercisableOf[o] /\ "DESTROY" \in cap.rights
  BY <1>2, PermitsIsLive, ExercisableMember DEF DestroyObject
<1>4. exercisableOf' = [exercisableOf EXCEPT ![o] = {}]
  <2>1. ASSUME NEW r PROVE r \notin exercisableOf'[o]
    BY <1>1, <1>2, ExercisableMember DEF Live, object_exists
  <2>2. ASSUME NEW q \in Object, q # o PROVE exercisableOf'[q] = exercisableOf[q]
    BY <1>1, <2>2, Untouched
  <2> QED BY <2>1, <2>2, MappingShape
<1>5. statusOf' = [statusOf EXCEPT ![o] = "dead"]
  <2>1. statusOf'[o] = "dead"
    BY <1>1, <1>2, StatusOf
  <2>2. ASSUME NEW q \in Object, q # o PROVE statusOf'[q] = statusOf[q]
    BY <1>1, <2>2, StatusOf
  <2> QED BY <2>1, <2>2, MappingShape
<1> QED BY <1>2, <1>3, <1>4, <1>5 DEF A!End, A!Commands

\* Epochs, ids and capability values implement the promise of Authority.tla.
THEOREM Refinement == Spec => ImplementsAuthority
<1>1. Init => A!Init
  <2> SUFFICES ASSUME Init PROVE A!Init
    OBVIOUS
  <2>1. ASSUME NEW o \in Object PROVE statusOf[o] = "unborn" /\ exercisableOf[o] = {}
    BY StatusOf, ExercisableMember, KernelAssumption DEF Init, Object
  <2> QED BY <2>1, MappingShape DEF A!Init
<1>2. Inv /\ [Next]_vars => [A!Next]_(A!vars)
  <2> SUFFICES ASSUME Inv, [Next]_vars PROVE [A!Next]_(A!vars)
    OBVIOUS
  <2>1. ASSUME NEW rights \in Requests, NewObject(rights) PROVE A!Next
    BY <2>1, NewObjectCreates, KernelAssumption DEF A!Next
  <2>2. ASSUME NEW cap \in minted, NEW requested \in Requests, Derive(cap, requested) PROVE A!Next
    BY <2>2, DeriveAttenuates DEF A!Next
  <2>3. ASSUME NEW cap \in minted, Revoke(cap) PROVE A!Next
    BY <2>3, RevokeWithdraws DEF A!Next
  <2>4. ASSUME NEW cap \in minted, Reissue(cap) PROVE A!Next
    BY <2>4, ReissueHandsOver DEF A!Next
  <2>5. ASSUME NEW cap \in minted, DestroyObject(cap) PROVE A!Next
    BY <2>5, DestroyEnds DEF A!Next
  <2>6. CASE UNCHANGED vars
    BY <2>6 DEF vars, A!vars, statusOf, exercisableOf
  <2> QED BY <2>1, <2>2, <2>3, <2>4, <2>5, <2>6 DEF Next
<1> QED BY <1>1, <1>2, InitInv, NextInv, PTL DEF Spec, ImplementsAuthority, A!Spec
=============================================================================
