---------------------------- MODULE MemoryProofs ----------------------------
(* Theorems of Scheduler.tla, Ipc.tla and Memory.tla, each of which extends *)
(* the one before: what processes have in their tables; what is in flight   *)
(* between `send` and `receive`; and the bytes of the regions that travel   *)
(* there, whoever else acts on the capabilities that name them.             *)
EXTENDS Memory, CapabilityLemmas, FiniteSetTheorems, FunctionTheorems, WellFoundedInduction, TLAPS

(***************************************************************************)
(* Tables.                                                                 *)
(***************************************************************************)

\* A nonempty set of naturals has a least element, a bounded one a greatest.
LEMMA LeastOf ==
  ASSUME NEW S \in SUBSET Nat, S # {}
  PROVE  \E k \in S : \A j \in S : k <= j
<1>1. PICK k \in S : \A j \in S : <<j, k>> \notin OpToRel(<, Nat)
  BY NatLessThanWellFounded, WFMin
<1>2. \A j \in S : ~(j < k)
  BY <1>1 DEF OpToRel
<1> QED BY <1>2

LEMMA GreatestOf ==
  ASSUME NEW n \in Nat, NEW S \in SUBSET (1 .. n), S # {}
  PROVE  \E k \in S : \A j \in S : j <= k
<1> DEFINE D == {d \in Nat : n - d \in S}
<1>1. D # {}
  <2>1. PICK k \in S : TRUE
    OBVIOUS
  <2>2. n - k \in Nat /\ n - (n - k) = k
    OBVIOUS
  <2> QED BY <2>1, <2>2
<1>2. PICK d \in D : \A e \in D : d <= e
  BY <1>1, LeastOf
<1>3. \A j \in S : n - j \in D
  OBVIOUS
<1> QED BY <1>2, <1>3

LEMMA HandleRange ==
  ASSUME NEW next \in Nat, NEW k \in Nat \ {0}
  PROVE  HandleOf(next, k) \in 0 .. HandleSpace - 1
BY ProcessAssumption DEF HandleOf

LEMMA SetOfSeq ==
  ASSUME NEW X, NEW caps \in Seq(X)
  PROVE  SetOf(caps) \subseteq X /\ caps \in Seq(SetOf(caps))
<1>1. \A k \in 1 .. Len(caps) : caps[k] \in SetOf(caps)
  BY DEF SetOf
<1>2. caps \in [1 .. Len(caps) -> SetOf(caps)] /\ Len(caps) \in Nat
  BY <1>1
<1> QED BY <1>2 DEF SetOf

LEMMA GrantedDomain ==
  ASSUME NEW caps, caps \in Seq(SetOf(caps)), NEW table, NEW next \in Nat,
         DOMAIN table \subseteq 0 .. HandleSpace - 1
  PROVE  /\ DOMAIN Granted(table, next, caps)
              = DOMAIN table \union {HandleOf(next, k) : k \in DOMAIN caps}
         /\ DOMAIN Granted(table, next, caps) \subseteq 0 .. HandleSpace - 1
<1>1. DOMAIN Granted(table, next, caps)
        = DOMAIN table \union {HandleOf(next, k) : k \in DOMAIN caps}
  BY DEF Granted
<1>2. ASSUME NEW k \in DOMAIN caps
      PROVE  HandleOf(next, k) \in 0 .. HandleSpace - 1
  <2>1. k \in Nat \ {0}
    OBVIOUS
  <2> QED BY <2>1, HandleRange
<1> QED BY <1>1, <1>2

\* Granting keeps every entry that is not overwritten; the others are the
\* capabilities granted, each at a handle of its own choosing.
LEMMA GrantedEntries ==
  ASSUME NEW caps, caps \in Seq(SetOf(caps)), NEW table, NEW next \in Nat,
         NEW h \in DOMAIN Granted(table, next, caps)
  PROVE  \/ /\ h \in DOMAIN table
            /\ Granted(table, next, caps)[h] = table[h]
            /\ \A k \in DOMAIN caps : HandleOf(next, k) # h
         \/ \E k \in DOMAIN caps :
              HandleOf(next, k) = h /\ Granted(table, next, caps)[h] = caps[k]
<1> DEFINE At == {k \in DOMAIN caps : HandleOf(next, k) = h}
<1>1. h \in DOMAIN table \union {HandleOf(next, k) : k \in DOMAIN caps}
  BY DEF Granted
<1>2. CASE At = {}
  BY <1>1, <1>2 DEF Granted
<1>3. CASE At # {}
  <2> DEFINE last == CHOOSE k \in At : \A j \in At : j <= k
  <2>1. \E k \in At : \A j \in At : j <= k
    <3>1. At \in SUBSET (1 .. Len(caps)) /\ Len(caps) \in Nat
      OBVIOUS
    <3> HIDE DEF At
    <3> QED BY <1>3, <3>1, GreatestOf
  <2>2. last \in At
    BY <2>1
  <2>3. Granted(table, next, caps)[h] = caps[last]
    BY <1>1, <1>3 DEF Granted
  <2> QED BY <2>2, <2>3
<1> QED BY <1>2, <1>3

\* So a table holds what it held or what it was granted.
LEMMA GrantedType ==
  ASSUME NEW caps, caps \in Seq(SetOf(caps)), NEW Y, NEW table, NEW next \in Nat,
         DOMAIN table \subseteq 0 .. HandleSpace - 1,
         table \in [DOMAIN table -> Y]
  PROVE  Granted(table, next, caps)
           \in [DOMAIN Granted(table, next, caps) -> Y \union SetOf(caps)]
<1> DEFINE g == Granted(table, next, caps)
<1>1. \A h \in DOMAIN g : g[h] \in Y \union SetOf(caps)
  <2> SUFFICES ASSUME NEW h \in DOMAIN g
               PROVE  g[h] \in Y \union SetOf(caps)
    OBVIOUS
  <2>1. CASE h \in DOMAIN table /\ g[h] = table[h]
    BY <2>1
  <2>2. CASE \E k \in DOMAIN caps : g[h] = caps[k]
    BY <2>2 DEF SetOf
  <2>3. \/ h \in DOMAIN table /\ g[h] = table[h]
        \/ \E k \in DOMAIN caps : g[h] = caps[k]
    BY GrantedEntries
  <2> QED BY <2>1, <2>2, <2>3
<1>2. g = [h \in DOMAIN g |-> g[h]]
  <2> DEFINE value(h) ==
        IF {k \in DOMAIN caps : HandleOf(next, k) = h} = {} THEN table[h]
        ELSE caps[CHOOSE k \in {k \in DOMAIN caps : HandleOf(next, k) = h} :
                    \A j \in {k2 \in DOMAIN caps : HandleOf(next, k2) = h} : j <= k]
         places == DOMAIN table \union {HandleOf(next, k) : k \in DOMAIN caps}
  <2>1. g = [h \in places |-> value(h)]
    BY DEF Granted
  <2> HIDE DEF g, value, places
  <2> QED BY <2>1
<1> HIDE DEF g
<1>3. g \in [DOMAIN g -> Y \union SetOf(caps)]
  BY <1>1, <1>2
<1> QED BY <1>3 DEF g

LEMMA NextHandleRange ==
  ASSUME NEW caps, caps \in Seq(SetOf(caps)), NEW next \in Nat
  PROVE  NextHandle(next, caps) \in 0 .. HandleSpace - 1
<1>1. Len(caps) + 1 \in Nat \ {0}
  OBVIOUS
<1> QED BY <1>1, HandleRange DEF NextHandle

LEMMA EmptyTable == Empty \in [{} -> {}] /\ DOMAIN Empty = {}
BY DEF Empty

(***************************************************************************)
(* Batches.                                                                *)
(***************************************************************************)

\* What a valid batch does with its k-th grant: never a right more than was held,
\* and a new epoch for a move only.
LEMMA DeliveredOne ==
  ASSUME NEW Obj, NEW eps, eps \in [DOMAIN eps -> Nat],
         NEW tab, tab \in [DOMAIN tab -> Capability(Obj)],
         NEW H, NEW grants \in Seq(Grants(H)), ValidBatch(eps, tab, grants),
         NEW k \in DOMAIN grants
  PROVE  LET held == tab[grants[k].handle]
             got == Delivered(eps, tab, grants)[k]
         IN  /\ grants[k].handle \in DOMAIN tab
             /\ held \in Capability(Obj)
             /\ got \in Capability(Obj)
             /\ got.object = held.object
             /\ got.rights \subseteq held.rights
             /\ grants[k].kind # "Transfer" => Live(eps, held)
             /\ grants[k].kind # "Move" => got.epoch = held.epoch
             /\ grants[k].kind = "Move" => got.epoch = held.epoch + 1
             /\ grants[k].kind = "Transfer" => got = held
<1> DEFINE held == tab[grants[k].handle]
           got == Delivered(eps, tab, grants)[k]
<1>1. /\ grants[k].kind \in {"Transfer", "Derive", "Move"}
      /\ grants[k].rights \in Rights
  BY DEF Grants, Rights, NONE
<1>2. grants[k].handle \in DOMAIN tab /\ held \in Capability(Obj)
  BY DEF ValidBatch
<1>3. /\ grants[k].kind = "Derive" => CanDerive(eps, held, grants[k].rights)
      /\ grants[k].kind = "Move" => Permits(eps, held, {"DESTROY"})
  BY DEF ValidBatch, Authorised
<1>4. grants[k].kind # "Transfer" => Live(eps, held)
  BY <1>1, <1>3, PermitsWhenLive DEF CanDerive
<1>5. CASE grants[k].kind = "Transfer"
  <2>1. got = held
    BY <1>5 DEF Delivered
  <2> QED BY <1>2, <1>4, <1>5, <2>1
<1>6. CASE grants[k].kind = "Derive"
  <2>1. got = derived(held, grants[k].rights)
    BY <1>6 DEF Delivered
  <2> QED BY <1>1, <1>2, <1>3, <1>4, <1>6, <2>1 DEF derived, Capability, CanDerive, contains
<1>7. CASE grants[k].kind = "Move"
  <2>1. got = reissued(eps, held)
    BY <1>7 DEF Delivered
  <2>2. held.object \in DOMAIN eps /\ eps[held.object] = held.epoch
    BY <1>4, <1>7 DEF Live, object_exists
  <2>3. /\ got.object = held.object /\ got.rights = held.rights
        /\ got.epoch = held.epoch + 1 /\ got \in Capability(Obj)
    BY <1>2, <2>1, <2>2 DEF reissued, bumped, Capability
  <2> QED BY <1>2, <1>4, <1>7, <2>3
<1> QED BY <1>1, <1>5, <1>6, <1>7

LEMMA DeliveredType ==
  ASSUME NEW Obj, NEW eps, eps \in [DOMAIN eps -> Nat],
         NEW tab, tab \in [DOMAIN tab -> Capability(Obj)],
         NEW H, NEW grants \in Seq(Grants(H)), ValidBatch(eps, tab, grants)
  PROVE  /\ Delivered(eps, tab, grants) \in Seq(Capability(Obj))
         /\ DOMAIN Delivered(eps, tab, grants) = DOMAIN grants
         /\ Len(Delivered(eps, tab, grants)) = Len(grants)
<1> DEFINE got == Delivered(eps, tab, grants)
<1>1. \A k \in DOMAIN grants : got[k] \in Capability(Obj)
  BY DeliveredOne
<1>2. DOMAIN got = DOMAIN grants /\ got = [k \in DOMAIN grants |-> got[k]]
  <2> DEFINE f(k) ==
        CASE grants[k].kind = "Transfer" -> tab[grants[k].handle]
          [] grants[k].kind = "Derive" -> derived(tab[grants[k].handle], grants[k].rights)
          [] grants[k].kind = "Move" -> reissued(eps, tab[grants[k].handle])
  <2>1. got = [k \in DOMAIN grants |-> f(k)]
    BY DEF Delivered
  <2> HIDE DEF f, got
  <2> QED BY <2>1
<1>3. DOMAIN grants = 1 .. Len(grants) /\ Len(grants) \in Nat
  OBVIOUS
<1> HIDE DEF got
<1>4. got \in [1 .. Len(grants) -> Capability(Obj)]
  BY <1>1, <1>2, <1>3
<1> QED BY <1>2, <1>3, <1>4 DEF got

\* A batch moves existing objects, one epoch each, and leaves the others alone.
LEMMA AfterBatchEpochs ==
  ASSUME NEW eps, eps \in [DOMAIN eps -> Nat], NEW tab, NEW grants, ValidBatch(eps, tab, grants)
  PROVE  /\ AfterBatch(eps, tab, grants) \in [DOMAIN eps -> Nat]
         /\ DOMAIN AfterBatch(eps, tab, grants) = DOMAIN eps
         /\ Moved(tab, grants) \subseteq DOMAIN eps
         /\ \A o \in DOMAIN eps :
              AfterBatch(eps, tab, grants)[o] = IF o \in Moved(tab, grants) THEN eps[o] + 1 ELSE eps[o]
<1>1. ASSUME NEW k \in DOMAIN grants, grants[k].kind = "Move"
      PROVE  tab[grants[k].handle].object \in DOMAIN eps
  <2>1. Live(eps, tab[grants[k].handle])
    BY <1>1, PermitsWhenLive DEF ValidBatch, Authorised
  <2> QED BY <2>1 DEF Live, object_exists
<1>2. Moved(tab, grants) \subseteq DOMAIN eps
  BY <1>1 DEF Moved
<1> QED BY <1>2 DEF AfterBatch

LEMMA RemainingTable ==
  ASSUME NEW tab, NEW grants, NEW Y, tab \in [DOMAIN tab -> Y]
  PROVE  /\ DOMAIN Remaining(tab, grants) \subseteq DOMAIN tab
         /\ Remaining(tab, grants) \in [DOMAIN Remaining(tab, grants) -> Y]
         /\ \A h \in DOMAIN Remaining(tab, grants) : Remaining(tab, grants)[h] = tab[h]
BY DEF Remaining

\* A batch of the model is a sequence of grants of handles the process has.
LEMMA BatchesType ==
  ASSUME NEW p, NEW grants \in Batches(p)
  PROVE  grants \in Seq(Grants(DOMAIN tables[p]))
<1>1. PICK shape \in Shapes : grants \in [DOMAIN shape -> Grants(DOMAIN tables[p])]
  <2> DEFINE asked == [kind : {"Transfer", "Move"}, handle : DOMAIN tables[p], rights : {NONE}]
                        \union [kind : {"Derive"}, handle : DOMAIN tables[p], rights : DerivedRights]
  <2>1. PICK shape \in Shapes : grants \in [DOMAIN shape -> asked]
    BY DEF Batches
  <2>2. asked \subseteq Grants(DOMAIN tables[p])
    BY SchedulerAssumption DEF Grants
  <2> HIDE DEF asked
  <2> QED BY <2>1, <2>2
<1>2. DOMAIN shape = 1 .. Len(shape) /\ Len(shape) \in Nat
  BY SchedulerAssumption
<1> QED BY <1>1, <1>2

LEMMA DerivationsNat ==
  ASSUME NEW p, NEW grants \in Batches(p)
  PROVE  Derivations(grants) \in Nat
<1>1. grants \in Seq(Grants(DOMAIN tables[p]))
  BY BatchesType
<1>2. DOMAIN grants = 1 .. Len(grants) /\ Len(grants) \in Nat
  BY <1>1
<1>3. IsFiniteSet({k \in DOMAIN grants : ~leaves(grants[k])})
  <2>1. IsFiniteSet(1 .. Len(grants))
    BY <1>2, FS_Interval
  <2>2. {k \in DOMAIN grants : ~leaves(grants[k])} \in SUBSET (1 .. Len(grants))
    BY <1>2
  <2> QED BY <2>1, <2>2, FS_Subset
<1> QED BY <1>3, FS_CardinalityType DEF Derivations

(***************************************************************************)
(* The inductive invariant: beyond the types, no capability anywhere is    *)
(* ahead of the kernel, or for an object that is still to be allocated.    *)
(***************************************************************************)

Behind(next, eps, cap) ==
  /\ cap.object < next
  /\ cap.object \in DOMAIN eps => cap.epoch <= eps[cap.object]

NotAhead(cap) == Behind(next_id, epochs, cap)

KnownNotAhead == \A p \in Process : \A cap \in known[p] : NotAhead(cap)

SchedulerInv == TypeOK /\ KnownNotAhead

\* TypeOK in two parts, for what disturbs one leaves the other alone.
KernelOK ==
  /\ next_id \in 0 .. MaxObjects
  /\ DOMAIN epochs \subseteq 0 .. next_id - 1
  /\ epochs \in [DOMAIN epochs -> Nat]

TablesOK ==
  /\ next_process_id \in 0 .. MaxProcesses
  /\ Process = 0 .. next_process_id - 1
  /\ next_handle \in [Process -> 0 .. HandleSpace - 1]
  /\ known \in [Process -> SUBSET Capability(Object)]
  /\ \A p \in Process :
       /\ DOMAIN tables[p] \subseteq 0 .. HandleSpace - 1
       /\ tables[p] \in [DOMAIN tables[p] -> known[p]]
  /\ ready_queue \in Seq(Process)
  /\ issued \in Nat

LEMMA TypeParts == TypeOK <=> KernelOK /\ TablesOK
BY DEF TypeOK, KernelOK, TablesOK

LEMMA TypePartsNext == ASSUME KernelOK', TablesOK' PROVE TypeOK'
BY DEF TypeOK, KernelOK, TablesOK

LEMMA NoHolders ==
  ASSUME NEW o
  PROVE  Holders(o) = {} <=> \A p \in Process : \A cap \in known[p] :
                               cap.object = o => ~Live(epochs, cap)
<1>1. ASSUME NEW p \in Process, NEW cap \in known[p], cap.object = o, Live(epochs, cap)
      PROVE  <<p, cap>> \in Holders(o)
  BY <1>1 DEF Holders
<1>2. ASSUME NEW holder \in Holders(o)
      PROVE  \E p \in Process : \E cap \in known[p] : cap.object = o /\ Live(epochs, cap)
  BY DEF Holders
<1> QED BY <1>1, <1>2

(***************************************************************************)
(* What one step may do to the kernel.                                     *)
(***************************************************************************)

\* Identities are not reused, destroyed objects stay so, epochs only grow, and
\* only by someone who can use the object.
EpochsStep ==
  /\ next_id' \in Nat /\ next_id <= next_id'
  /\ \A o \in DOMAIN epochs' : o < next_id => o \in DOMAIN epochs /\ epochs[o] <= epochs'[o]
  /\ \A o \in DOMAIN epochs : Holders(o) = {} => o \in DOMAIN epochs' /\ epochs'[o] = epochs[o]

LEMMA UnchangedEpochs ==
  ASSUME KernelOK, UNCHANGED <<next_id, epochs>>
  PROVE  KernelOK' /\ EpochsStep
BY DEF KernelOK, EpochsStep

LEMMA NewObjectEpochs ==
  ASSUME KernelOK, NEW p, NEW rights, NewObject(p, rights)
  PROVE  KernelOK' /\ EpochsStep
<1>1. next_id' = next_id + 1 /\ epochs' = inserted(epochs, next_id) /\ next_id < MaxObjects
  BY DEF NewObject
<1>2. KernelOK'
  BY <1>1, SchedulerAssumption DEF KernelOK, inserted
<1>3. EpochsStep
  BY <1>1 DEF KernelOK, EpochsStep, inserted
<1> QED BY <1>2, <1>3

LEMMA RevokeEpochs ==
  ASSUME TypeOK, NEW p \in Process, NEW cap \in known[p], Revoke(p, cap)
  PROVE  KernelOK' /\ EpochsStep
<1>1. Live(epochs, cap) /\ cap.object \in DOMAIN epochs
  BY PermitsWhenLive DEF Revoke, Live, object_exists
<1>2. epochs' = [epochs EXCEPT ![cap.object] = @ + 1] /\ next_id' = next_id
  BY DEF Revoke, bumped
<1>3. KernelOK'
  BY <1>1, <1>2, TypeParts DEF KernelOK
<1>4. Holders(cap.object) # {}
  BY <1>1, NoHolders
<1>5. EpochsStep
  BY <1>1, <1>2, <1>4, TypeParts DEF KernelOK, EpochsStep
<1> QED BY <1>3, <1>5

LEMMA ReissueEpochs ==
  ASSUME TypeOK, NEW p \in Process, NEW cap \in known[p], Reissue(p, cap)
  PROVE  /\ KernelOK' /\ EpochsStep /\ Holders(cap.object) # {}
         /\ reissued(epochs, cap) \in Capability(Object)
         /\ Behind(next_id', epochs', reissued(epochs, cap))
<1>1. Live(epochs, cap) /\ cap.object \in DOMAIN epochs
  BY PermitsWhenLive DEF Reissue, Live, object_exists
<1>2. epochs' = [epochs EXCEPT ![cap.object] = @ + 1] /\ next_id' = next_id
  BY DEF Reissue, bumped
<1>3. KernelOK'
  BY <1>1, <1>2, TypeParts DEF KernelOK
<1>4. Holders(cap.object) # {}
  BY <1>1, NoHolders
<1>5. EpochsStep
  BY <1>1, <1>2, <1>4, TypeParts DEF KernelOK, EpochsStep
<1>6. cap \in Capability(Object) /\ epochs \in [DOMAIN epochs -> Nat]
  BY DEF TypeOK
<1>7. reissued(epochs, cap) = [cap EXCEPT !.epoch = epochs'[cap.object]]
  BY DEF Reissue, reissued
<1>8. /\ epochs'[cap.object] = epochs[cap.object] + 1
      /\ cap.object < next_id' /\ cap.object \in DOMAIN epochs'
  BY <1>1, <1>2, TypeParts DEF KernelOK
<1>9. epochs'[cap.object] \in Nat
  BY <1>1, <1>6, <1>8
<1>10. /\ reissued(epochs, cap) \in Capability(Object)
       /\ reissued(epochs, cap).object = cap.object
       /\ reissued(epochs, cap).epoch = epochs'[cap.object]
  BY <1>6, <1>7, <1>9 DEF Capability
<1>11. Behind(next_id', epochs', reissued(epochs, cap))
  BY <1>8, <1>9, <1>10 DEF Behind
<1> QED BY <1>3, <1>4, <1>5, <1>10, <1>11

LEMMA DestroyObjectEpochs ==
  ASSUME TypeOK, NEW p \in Process, NEW cap \in known[p], DestroyObject(p, cap)
  PROVE  KernelOK' /\ EpochsStep
<1>1. Live(epochs, cap)
  BY PermitsWhenLive DEF DestroyObject
<1>2. epochs' = removed(epochs, cap.object) /\ next_id' = next_id
  BY DEF DestroyObject
<1>3. KernelOK'
  BY <1>2, TypeParts DEF KernelOK, removed
<1>4. Holders(cap.object) # {}
  BY <1>1, NoHolders
<1>5. EpochsStep
  BY <1>2, <1>4, TypeParts DEF KernelOK, EpochsStep, removed
<1> QED BY <1>3, <1>5

\* What a valid batch of a process is made of, in the terms of DeliveredOne.
LEMMA BatchFacts ==
  ASSUME TypeOK, NEW p \in Process, NEW grants \in Batches(p),
         ValidBatch(epochs, tables[p], grants)
  PROVE  /\ epochs \in [DOMAIN epochs -> Nat]
         /\ tables[p] \in [DOMAIN tables[p] -> known[p]]
         /\ tables[p] \in [DOMAIN tables[p] -> Capability(Object)]
         /\ grants \in Seq(Grants(DOMAIN tables[p]))
         /\ \A k \in DOMAIN grants : tables[p][grants[k].handle] \in known[p]
<1>1. known[p] \subseteq Capability(Object) /\ tables[p] \in [DOMAIN tables[p] -> known[p]]
  BY DEF TypeOK
<1>2. tables[p] \in [DOMAIN tables[p] -> Capability(Object)]
  BY <1>1
<1>3. \A k \in DOMAIN grants : tables[p][grants[k].handle] \in known[p]
  BY <1>1 DEF ValidBatch
<1> QED BY <1>1, <1>2, <1>3, BatchesType DEF TypeOK

LEMMA BatchEpochs ==
  ASSUME TypeOK, NEW p \in Process, NEW grants \in Batches(p),
         ValidBatch(epochs, tables[p], grants),
         epochs' = AfterBatch(epochs, tables[p], grants), next_id' = next_id
  PROVE  KernelOK' /\ EpochsStep
<1>1. /\ DOMAIN epochs' = DOMAIN epochs /\ epochs' \in [DOMAIN epochs -> Nat]
      /\ \A o \in DOMAIN epochs :
           epochs'[o] = IF o \in Moved(tables[p], grants) THEN epochs[o] + 1 ELSE epochs[o]
  BY BatchFacts, AfterBatchEpochs
<1>2. KernelOK'
  BY <1>1, TypeParts DEF KernelOK
<1>3. ASSUME NEW o \in Moved(tables[p], grants)
      PROVE  Holders(o) # {}
  <2>1. PICK k \in DOMAIN grants :
          grants[k].kind = "Move" /\ o = tables[p][grants[k].handle].object
    BY DEF Moved
  <2>2. Live(epochs, tables[p][grants[k].handle]) /\ tables[p][grants[k].handle] \in known[p]
    BY <2>1, BatchFacts, DeliveredOne
  <2> QED BY <2>1, <2>2, NoHolders
<1>4. EpochsStep
  BY <1>1, <1>3, TypeParts DEF KernelOK, EpochsStep
<1> QED BY <1>2, <1>4

\* What was not ahead stays so.
LEMMA StaysBehind ==
  ASSUME KernelOK, KernelOK', EpochsStep, NEW cap \in Capability(Object), NotAhead(cap)
  PROVE  Behind(next_id', epochs', cap)
<1>1. cap.object \in Int /\ cap.epoch \in Nat /\ next_id \in Int
  BY DEF Capability, Object, KernelOK
<1>2. cap.object \in DOMAIN epochs' => cap.epoch <= epochs'[cap.object]
  <2> SUFFICES ASSUME cap.object \in DOMAIN epochs'
               PROVE  cap.epoch <= epochs'[cap.object]
    OBVIOUS
  <2>1. cap.object \in DOMAIN epochs /\ epochs[cap.object] <= epochs'[cap.object]
    BY DEF NotAhead, Behind, EpochsStep
  <2>2. epochs[cap.object] \in Nat /\ epochs'[cap.object] \in Nat
    BY <2>1 DEF KernelOK
  <2>3. cap.epoch <= epochs[cap.object]
    BY <2>1 DEF NotAhead, Behind
  <2> QED BY <1>1, <2>1, <2>2, <2>3
<1> QED BY <1>1, <1>2 DEF NotAhead, Behind, EpochsStep

(***************************************************************************)
(* What a batch delivers is not ahead of the kernel it leaves behind, and  *)
(* lets no one use an object that no one could use, or that another grant  *)
(* of the batch moved.                                                     *)
(***************************************************************************)

LEMMA DeliveredCaps ==
  ASSUME SchedulerInv, NEW p \in Process, NEW grants \in Batches(p),
         ValidBatch(epochs, tables[p], grants),
         epochs' = AfterBatch(epochs, tables[p], grants), next_id' = next_id,
         NEW k \in DOMAIN grants,
         NEW cap, cap = Delivered(epochs, tables[p], grants)[k]
  PROVE  /\ cap \in Capability(Object)
         /\ Behind(next_id', epochs', cap)
         /\ Live(epochs', cap) => Holders(cap.object) # {}
         /\ Live(epochs', cap) /\ cap.object \in Moved(tables[p], grants)
              => grants[k].kind = "Move"
         /\ grants[k].kind = "Move"
              => cap.object \in Moved(tables[p], grants) /\ Live(epochs', cap)
         /\ grants[k].kind = "Move"
              => \A j \in DOMAIN grants \ {k} :
                   Delivered(epochs, tables[p], grants)[j].object # cap.object
<1> DEFINE moved == Moved(tables[p], grants)
           from(j) == tables[p][grants[j].handle]
<1>1. /\ TypeOK /\ KnownNotAhead /\ from(k) \in known[p]
      /\ epochs \in [DOMAIN epochs -> Nat]
      /\ tables[p] \in [DOMAIN tables[p] -> Capability(Object)]
      /\ grants \in Seq(Grants(DOMAIN tables[p]))
  BY BatchFacts DEF SchedulerInv
<1>2. /\ from(k) \in Capability(Object) /\ cap \in Capability(Object)
      /\ cap.object = from(k).object
      /\ grants[k].kind # "Transfer" => Live(epochs, from(k))
      /\ grants[k].kind # "Move" => cap.epoch = from(k).epoch
      /\ grants[k].kind = "Move" => cap.epoch = from(k).epoch + 1
  BY <1>1, DeliveredOne
<1>3. \A j \in DOMAIN grants : Delivered(epochs, tables[p], grants)[j].object = from(j).object
  BY <1>1, DeliveredOne
<1>4. /\ DOMAIN epochs' = DOMAIN epochs
      /\ \A o \in DOMAIN epochs : epochs'[o] = IF o \in moved THEN epochs[o] + 1 ELSE epochs[o]
  BY <1>1, AfterBatchEpochs
<1>5. NotAhead(from(k))
  BY <1>1 DEF KnownNotAhead
<1>6. from(k).object \in DOMAIN epochs => epochs[from(k).object] \in Nat /\ from(k).epoch \in Nat
  BY <1>1, <1>2 DEF Capability
<1>7. grants[k].kind = "Move" => cap.object \in moved
  BY <1>2 DEF Moved
<1>8. grants[k].kind = "Move" => \A j \in DOMAIN grants \ {k} : from(j).object # from(k).object
  BY DEF ValidBatch, NoMoveConflict
<1>9. grants[k].kind = "Move" => Live(epochs', cap)
  BY <1>2, <1>4, <1>6, <1>7 DEF Live, object_exists
<1>10. ASSUME cap.object \in moved, grants[k].kind # "Move"
       PROVE  FALSE
  <2>1. PICK j \in DOMAIN grants : grants[j].kind = "Move" /\ from(j).object = cap.object
    BY <1>10 DEF Moved
  <2> QED BY <1>2, <1>10, <2>1 DEF ValidBatch, NoMoveConflict
<1>11. Live(epochs', cap) => Live(epochs, from(k))
  <2>1. grants[k].kind = "Move" => Live(epochs, from(k))
    BY <1>2
  <2>2. ASSUME grants[k].kind # "Move", Live(epochs', cap)
        PROVE  Live(epochs, from(k))
    BY <1>2, <1>4, <1>10, <2>2 DEF Live, object_exists
  <2> QED BY <2>1, <2>2
<1>12. Live(epochs, from(k)) => Holders(cap.object) # {}
  BY <1>1, <1>2, NoHolders
<1>13. Behind(next_id', epochs', cap)
  <2>1. cap.object < next_id'
    BY <1>2, <1>5 DEF NotAhead, Behind
  <2>2. ASSUME cap.object \in DOMAIN epochs'
        PROVE  cap.epoch <= epochs'[cap.object]
    <3>1. from(k).epoch <= epochs[from(k).object]
      BY <1>2, <1>4, <1>5, <2>2 DEF NotAhead, Behind
    <3>2. CASE grants[k].kind = "Move"
      BY <1>2, <1>4, <1>6, <1>7, <2>2, <3>1, <3>2
    <3>3. CASE grants[k].kind # "Move"
      BY <1>2, <1>4, <1>6, <2>2, <3>1, <3>3
    <3> QED BY <3>2, <3>3
  <2> QED BY <2>1, <2>2 DEF NotAhead, Behind
<1> QED BY <1>2, <1>3, <1>7, <1>8, <1>9, <1>10, <1>11, <1>12, <1>13

(***************************************************************************)
(* What one step may do to the processes.                                  *)
(***************************************************************************)

\* `grant` of each of these to a process that exists: what `receive` does.
LEMMA GrantTables ==
  ASSUME TablesOK, NEW p \in Process, NEW caps \in Seq(Capability(Object)),
         tables' = [tables EXCEPT ![p] = Granted(@, next_handle[p], caps)],
         next_handle' = [next_handle EXCEPT ![p] = NextHandle(@, caps)],
         known' = [known EXCEPT ![p] = @ \union SetOf(caps)],
         UNCHANGED <<next_process_id, ready_queue>>, issued' \in Nat
  PROVE  /\ TablesOK'
         /\ Process' = Process
         /\ \A q \in Process : known'[q] = IF q = p THEN known[q] \union SetOf(caps) ELSE known[q]
<1> DEFINE new == Granted(tables[p], next_handle[p], caps)
<1>2. caps \in Seq(SetOf(caps)) /\ SetOf(caps) \subseteq Capability(Object)
  BY SetOfSeq
<1>3. /\ next_handle[p] \in Nat
      /\ DOMAIN tables[p] \subseteq 0 .. HandleSpace - 1
      /\ tables[p] \in [DOMAIN tables[p] -> known[p]]
  BY ProcessAssumption DEF TablesOK
<1>4. DOMAIN new \subseteq 0 .. HandleSpace - 1
  BY <1>2, <1>3, GrantedDomain
<1>5. new \in [DOMAIN new -> known[p] \union SetOf(caps)]
  BY <1>2, <1>3, GrantedType
<1>6. NextHandle(next_handle[p], caps) \in 0 .. HandleSpace - 1
  BY <1>2, <1>3, NextHandleRange
<1>1. tables' = [tables EXCEPT ![p] = new]
  OBVIOUS
<1> HIDE DEF new
<1>7. Process' = Process /\ known' \in [Process -> SUBSET Capability(Object)]
  BY <1>1, <1>2 DEF TablesOK, Process
<1>8. \A q \in Process : /\ tables'[q] = IF q = p THEN new ELSE tables[q]
                         /\ known'[q] = IF q = p THEN known[q] \union SetOf(caps) ELSE known[q]
  BY <1>1 DEF TablesOK, Process
<1>9. \A q \in Process : /\ DOMAIN tables'[q] \subseteq 0 .. HandleSpace - 1
                         /\ tables'[q] \in [DOMAIN tables'[q] -> known'[q]]
  BY ZenonT(30), <1>4, <1>5, <1>8 DEF TablesOK
<1>10. next_handle' \in [Process -> 0 .. HandleSpace - 1]
  BY <1>6 DEF TablesOK
<1> QED BY <1>7, <1>8, <1>9, <1>10 DEF TablesOK

LEMMA InstallTables ==
  ASSUME TablesOK, NEW p \in Process, NEW cap \in Capability(Object), Install(p, cap),
         UNCHANGED <<next_process_id, ready_queue>>
  PROVE  /\ TablesOK'
         /\ Process' = Process
         /\ \A q \in Process : known'[q] = IF q = p THEN known[q] \union {cap} ELSE known[q]
<1>1. <<cap>> \in Seq(Capability(Object)) /\ SetOf(<<cap>>) = {cap}
  BY DEF SetOf
<1>2. /\ tables' = [tables EXCEPT ![p] = Granted(@, next_handle[p], <<cap>>)]
      /\ next_handle' = [next_handle EXCEPT ![p] = NextHandle(@, <<cap>>)]
      /\ known' = [known EXCEPT ![p] = @ \union {cap}]
      /\ issued' = issued + 1
  BY DEF Install
<1>3. issued' \in Nat
  BY <1>2 DEF TablesOK
<1>4. known' = [known EXCEPT ![p] = @ \union SetOf(<<cap>>)]
  BY <1>1, <1>2
<1> QED BY <1>1, <1>2, <1>3, <1>4, GrantTables

\* The next process, with its own table; the others' tables may have shrunk.
LEMMA SpawnTables ==
  ASSUME TablesOK, next_process_id < MaxProcesses, NEW caps \in Seq(Capability(Object)),
         NEW rest, DOMAIN rest = Process,
         \A p \in Process : /\ DOMAIN rest[p] \subseteq DOMAIN tables[p]
                            /\ rest[p] \in [DOMAIN rest[p] -> known[p]],
         next_process_id' = next_process_id + 1,
         tables' = Extended(rest, next_process_id, Granted(Empty, 0, caps)),
         next_handle' = Extended(next_handle, next_process_id, NextHandle(0, caps)),
         known' = Extended(known, next_process_id, SetOf(caps)),
         ready_queue' = Append(ready_queue, next_process_id),
         issued' \in Nat
  PROVE  /\ TablesOK'
         /\ Process' = Process \union {next_process_id}
         /\ next_process_id \notin Process
         /\ known'[next_process_id] = SetOf(caps)
         /\ \A p \in Process : known'[p] = known[p]
<1> DEFINE id == next_process_id
           new == Granted(Empty, 0, caps)
<1>1. caps \in Seq(SetOf(caps)) /\ SetOf(caps) \subseteq Capability(Object)
  BY SetOfSeq
<1>2. DOMAIN new \subseteq 0 .. HandleSpace - 1
  BY <1>1, EmptyTable, GrantedDomain
<1>3. new \in [DOMAIN new -> {} \union SetOf(caps)]
  BY <1>1, EmptyTable, GrantedType
<1>4. NextHandle(0, caps) \in 0 .. HandleSpace - 1
  BY <1>1, NextHandleRange
<1> HIDE DEF new
<1>5. /\ id \in Nat /\ id' \in 0 .. MaxProcesses /\ id' = id + 1 /\ id \notin Process
      /\ Process = 0 .. id - 1
  BY SchedulerAssumption DEF TablesOK
<1>6. Process' = Process \union {id} /\ Process' = 0 .. id' - 1
  BY <1>5 DEF Process, Extended
<1>7. /\ known' = [q \in Process' |-> IF q = id THEN SetOf(caps) ELSE known[q]]
      /\ next_handle' = [q \in Process' |-> IF q = id THEN NextHandle(0, caps) ELSE next_handle[q]]
      /\ tables' = [q \in Process' |-> IF q = id THEN new ELSE rest[q]]
  BY <1>6 DEF Extended, TablesOK, new
<1>8. known' \in [Process' -> SUBSET Capability(Object)]
  BY <1>1, <1>6, <1>7 DEF TablesOK
<1>9. next_handle' \in [Process' -> 0 .. HandleSpace - 1]
  BY <1>4, <1>6, <1>7 DEF TablesOK
<1>10. ASSUME NEW q \in Process'
       PROVE  /\ DOMAIN tables'[q] \subseteq 0 .. HandleSpace - 1
              /\ tables'[q] \in [DOMAIN tables'[q] -> known'[q]]
  <2>1. CASE q = id
    BY <1>2, <1>3, <1>7, <2>1
  <2>2. CASE q # id
    BY <1>6, <1>7, <2>2 DEF TablesOK
  <2> QED BY <2>1, <2>2
<1>11. ready_queue' \in Seq(Process')
  <2>1. ready_queue \in Seq(Process)
    BY DEF TablesOK
  <2>2. ready_queue \in Seq(Process \union {id})
    BY <2>1
  <2>3. Append(ready_queue, id) \in Seq(Process \union {id})
    BY <2>2
  <2> QED BY <1>6, <2>3
<1>12. TablesOK'
  BY <1>5, <1>6, <1>8, <1>9, <1>10, <1>11 DEF TablesOK
<1> QED BY <1>5, <1>6, <1>7, <1>12

\* A process gave something away and received nothing: what `send` does.
LEMMA RemainingTables ==
  ASSUME TablesOK, NEW p \in Process, NEW grants,
         tables' = [tables EXCEPT ![p] = Remaining(@, grants)],
         UNCHANGED <<next_process_id, next_handle, known, ready_queue>>, issued' \in Nat
  PROVE  TablesOK' /\ Process' = Process
<1>1. /\ DOMAIN Remaining(tables[p], grants) \subseteq DOMAIN tables[p]
      /\ Remaining(tables[p], grants) \in [DOMAIN Remaining(tables[p], grants) -> known[p]]
  BY RemainingTable DEF TablesOK
<1>2. /\ Process' = Process
      /\ \A q \in Process : tables'[q] = IF q = p THEN Remaining(tables[p], grants) ELSE tables[q]
  BY DEF Process
<1> QED BY <1>1, <1>2 DEF TablesOK

(***************************************************************************)
(* Every call keeps the invariant, and gives no one a way to use an object *)
(* that no one could use.                                                  *)
(***************************************************************************)

\* A capability that a step may put into somebody's hands.
Harmless(cap) ==
  /\ Behind(next_id', epochs', cap)
  /\ cap.object \in DOMAIN epochs /\ Live(epochs', cap) => Holders(cap.object) # {}

HoldersStep == \A o \in DOMAIN epochs : Holders(o) = {} => Holders(o)' = {}

LEMMA KnownStep ==
  ASSUME SchedulerInv, KernelOK', EpochsStep, Process \subseteq Process',
         \A q \in Process' : \A cap \in known'[q] :
           (q \in Process /\ cap \in known[q]) \/ Harmless(cap)
  PROVE  KnownNotAhead' /\ HoldersStep
<1>1. TypeOK /\ KnownNotAhead /\ KernelOK
  BY TypeParts DEF SchedulerInv
<1>2. KnownNotAhead'
  <2> SUFFICES ASSUME NEW q \in Process', NEW cap \in known'[q]
               PROVE  NotAhead(cap)'
    BY DEF KnownNotAhead
  <2>1. CASE q \in Process /\ cap \in known[q]
    <3>1. cap \in Capability(Object) /\ NotAhead(cap)
      BY <1>1, <2>1 DEF TypeOK, KnownNotAhead
    <3> QED BY <1>1, <3>1, StaysBehind DEF NotAhead
  <2>2. CASE Harmless(cap)
    BY <2>2 DEF Harmless, NotAhead
  <2> QED BY <2>1, <2>2
<1>3. ASSUME NEW o \in DOMAIN epochs, Holders(o) = {}
      PROVE  Holders(o)' = {}
  <2>1. o \in DOMAIN epochs' /\ epochs'[o] = epochs[o]
    BY <1>3 DEF EpochsStep
  <2>2. ASSUME NEW q \in Process', NEW cap \in known'[q], cap.object = o
        PROVE  ~Live(epochs', cap)
    <3>1. CASE q \in Process /\ cap \in known[q]
      <4>1. ~Live(epochs, cap)
        BY <1>3, <2>2, <3>1, NoHolders
      <4> QED BY <1>3, <2>1, <2>2, <4>1 DEF Live, object_exists
    <3>2. CASE Harmless(cap)
      BY <1>3, <2>2, <3>2 DEF Harmless
    <3> QED BY <3>1, <3>2
  <2>3. ASSUME NEW holder \in Holders(o)'
        PROVE  FALSE
    <3>1. \E q \in Process' : \E cap \in known'[q] : cap.object = o /\ Live(epochs', cap)
      BY DEF Holders
    <3> QED BY <2>2, <3>1
  <2> QED BY <2>3
<1> QED BY <1>2, <1>3 DEF HoldersStep

\* What everybody had before an object's epoch advanced no longer works.
LEMMA AdvancedIsRevoked ==
  ASSUME SchedulerInv, NEW o \in DOMAIN epochs, epochs'[o] = epochs[o] + 1,
         NEW q \in Process, NEW cap \in known[q], cap.object = o
  PROVE  ~Live(epochs', cap)
<1>1. NotAhead(cap) /\ cap.epoch \in Nat /\ epochs[o] \in Nat
  BY DEF SchedulerInv, KnownNotAhead, TypeOK, Capability
<1>2. cap.epoch # epochs[o] + 1
  BY <1>1 DEF NotAhead, Behind
<1> QED BY <1>2 DEF Live

LEMMA InitSchedulerInv == Init => SchedulerInv
<1> SUFFICES ASSUME Init PROVE SchedulerInv
  OBVIOUS
<1>1. Process = {} /\ DOMAIN epochs = {}
  BY DEF Init, Process, Empty
<1>2. /\ next_id \in 0 .. MaxObjects /\ next_process_id \in 0 .. MaxProcesses
      /\ 0 .. next_id - 1 = {} /\ 0 .. next_process_id - 1 = {}
  BY SchedulerAssumption DEF Init
<1>3. /\ epochs \in [{} -> Nat]
      /\ next_handle \in [{} -> 0 .. HandleSpace - 1]
      /\ known \in [{} -> SUBSET Capability(Object)]
  BY DEF Init, Empty
<1>4. ready_queue \in Seq(Process) /\ issued \in Nat
  BY DEF Init
<1> QED BY <1>1, <1>2, <1>3, <1>4 DEF SchedulerInv, TypeOK, KnownNotAhead

LEMMA NewObjectStep ==
  ASSUME SchedulerInv, NEW p \in Process, NEW rights \in Rights, NewObject(p, rights)
  PROVE  SchedulerInv' /\ EpochsStep /\ HoldersStep /\ Process' = Process
<1> DEFINE cap == [object |-> next_id, rights |-> rights, epoch |-> 0]
<1>1. TablesOK /\ KernelOK /\ KernelOK' /\ EpochsStep
  BY TypeParts, NewObjectEpochs DEF SchedulerInv
<1>2. /\ Install(p, cap) /\ next_id < MaxObjects /\ next_id' = next_id + 1
      /\ epochs' = inserted(epochs, next_id) /\ UNCHANGED <<next_process_id, ready_queue>>
  BY DEF NewObject
<1>3. cap \in Capability(Object)
  BY <1>1, <1>2, SchedulerAssumption DEF KernelOK, Capability, Object
<1>4. /\ cap.object \notin DOMAIN epochs /\ cap.object < next_id'
      /\ cap.epoch <= epochs'[cap.object]
  BY <1>1, <1>2 DEF KernelOK, inserted
<1> HIDE DEF cap
<1>5. Harmless(cap)
  BY <1>4 DEF Harmless, Behind
<1>6. /\ TablesOK' /\ Process' = Process
      /\ \A q \in Process : known'[q] = IF q = p THEN known[q] \union {cap} ELSE known[q]
  BY <1>1, <1>2, <1>3, InstallTables
<1>7. KnownNotAhead' /\ HoldersStep
  BY <1>1, <1>5, <1>6, KnownStep
<1> QED BY <1>1, <1>6, <1>7, TypePartsNext DEF SchedulerInv

\* Only the kernel's table changes.
LEMMA KernelOnlyStep ==
  ASSUME SchedulerInv, KernelOK', EpochsStep,
         UNCHANGED <<next_process_id, tables, next_handle, ready_queue, known, issued>>
  PROVE  SchedulerInv' /\ HoldersStep /\ Process' = Process
<1>1. TablesOK /\ Process' = Process
  BY TypeParts DEF SchedulerInv, Process
<1>2. TablesOK'
  BY <1>1 DEF TablesOK
<1>3. KnownNotAhead' /\ HoldersStep
  BY <1>1, KnownStep
<1> QED BY <1>1, <1>2, <1>3, TypePartsNext DEF SchedulerInv

\* A process puts a capability that hurts no one into its own table.
LEMMA InstallStep ==
  ASSUME SchedulerInv, KernelOK', EpochsStep, NEW p \in Process,
         NEW cap \in Capability(Object), Harmless(cap), Install(p, cap),
         UNCHANGED <<next_process_id, ready_queue>>
  PROVE  SchedulerInv' /\ EpochsStep /\ HoldersStep /\ Process' = Process
<1>1. TablesOK
  BY TypeParts DEF SchedulerInv
<1>2. /\ TablesOK' /\ Process' = Process
      /\ \A q \in Process : known'[q] = IF q = p THEN known[q] \union {cap} ELSE known[q]
  BY <1>1, InstallTables
<1>3. KnownNotAhead' /\ HoldersStep
  BY <1>2, KnownStep
<1> QED BY <1>2, <1>3, TypePartsNext DEF SchedulerInv

LEMMA DeriveOwnStep ==
  ASSUME SchedulerInv, NEW p \in Process, NEW cap \in known[p], NEW requested \in Rights,
         DeriveOwn(p, cap, requested)
  PROVE  SchedulerInv' /\ EpochsStep /\ HoldersStep /\ Process' = Process
<1>1. KernelOK' /\ EpochsStep
  BY TypeParts, UnchangedEpochs DEF DeriveOwn, SchedulerInv
<1>2. cap \in Capability(Object) /\ NotAhead(cap) /\ Live(epochs, cap)
  BY PermitsWhenLive DEF DeriveOwn, CanDerive, SchedulerInv, TypeOK, KnownNotAhead
<1>3. PICK view : view = derived(cap, requested)
  OBVIOUS
<1>4. view \in Capability(Object) /\ view.object = cap.object /\ view.epoch = cap.epoch
  BY <1>2, <1>3 DEF derived, Capability
<1>5. Holders(cap.object) # {}
  BY <1>2, NoHolders
<1>6. Harmless(view)
  BY <1>2, <1>4, <1>5 DEF Harmless, NotAhead, Behind, DeriveOwn
<1>7. Install(p, view) /\ UNCHANGED <<next_process_id, ready_queue>>
  BY <1>3 DEF DeriveOwn
<1> QED BY <1>1, <1>4, <1>6, <1>7, InstallStep

LEMMA GrantOwnStep ==
  ASSUME SchedulerInv, NEW p \in Process, NEW cap \in known[p], GrantOwn(p, cap)
  PROVE  SchedulerInv' /\ EpochsStep /\ HoldersStep /\ Process' = Process
<1>1. KernelOK' /\ EpochsStep
  BY TypeParts, UnchangedEpochs DEF GrantOwn, SchedulerInv
<1>2. cap \in Capability(Object) /\ NotAhead(cap)
  BY DEF SchedulerInv, TypeOK, KnownNotAhead
<1>3. Live(epochs, cap) => Holders(cap.object) # {}
  BY NoHolders
<1>4. Harmless(cap)
  BY <1>2, <1>3 DEF Harmless, NotAhead, GrantOwn
<1>5. Install(p, cap) /\ UNCHANGED <<next_process_id, ready_queue>>
  BY DEF GrantOwn
<1> QED BY <1>1, <1>2, <1>4, <1>5, InstallStep

LEMMA ReissueStep ==
  ASSUME SchedulerInv, NEW p \in Process, NEW cap \in known[p], Reissue(p, cap)
  PROVE  SchedulerInv' /\ EpochsStep /\ HoldersStep /\ Process' = Process
<1>1. PICK fresh : fresh = reissued(epochs, cap)
  OBVIOUS
<1>2. /\ KernelOK' /\ EpochsStep /\ Holders(cap.object) # {}
      /\ fresh \in Capability(Object) /\ Behind(next_id', epochs', fresh)
  BY <1>1, ReissueEpochs DEF SchedulerInv
<1>3. fresh.object = cap.object
  BY <1>1 DEF reissued, SchedulerInv, TypeOK, Capability
<1>4. Harmless(fresh)
  BY <1>2, <1>3 DEF Harmless
<1>5. Install(p, fresh) /\ UNCHANGED <<next_process_id, ready_queue>>
  BY <1>1 DEF Reissue
<1> QED BY <1>2, <1>4, <1>5, InstallStep

LEMMA RevokeStep ==
  ASSUME SchedulerInv, NEW p \in Process, NEW cap \in known[p], Revoke(p, cap)
  PROVE  SchedulerInv' /\ EpochsStep /\ HoldersStep /\ Process' = Process
<1>1. KernelOK' /\ EpochsStep
  BY RevokeEpochs DEF SchedulerInv
<1> QED BY <1>1, KernelOnlyStep DEF Revoke

LEMMA DestroyObjectStep ==
  ASSUME SchedulerInv, NEW p \in Process, NEW cap \in known[p], DestroyObject(p, cap)
  PROVE  SchedulerInv' /\ EpochsStep /\ HoldersStep /\ Process' = Process
<1>1. KernelOK' /\ EpochsStep
  BY DestroyObjectEpochs DEF SchedulerInv
<1> QED BY <1>1, KernelOnlyStep DEF DestroyObject

\* A root is given copies of capabilities somebody has.
LEMMA SpawnStep ==
  ASSUME SchedulerInv, NEW initial \in Seq(UNION {known[p] : p \in Process}), Spawn(initial)
  PROVE  SchedulerInv' /\ EpochsStep /\ HoldersStep /\ Process \subseteq Process'
<1>1. TypeOK /\ KernelOK /\ TablesOK /\ KnownNotAhead
  BY TypeParts DEF SchedulerInv
<1>2. KernelOK' /\ EpochsStep
  BY <1>1, UnchangedEpochs DEF Spawn
<1>3. /\ initial \in Seq(Capability(Object))
      /\ SetOf(initial) \subseteq UNION {known[p] : p \in Process}
  <2>1. UNION {known[p] : p \in Process} \subseteq Capability(Object)
    BY <1>1 DEF TypeOK
  <2> QED BY <2>1, SetOfSeq
<1>4. Len(initial) \in Nat /\ issued' \in Nat /\ next_process_id < MaxProcesses
  BY <1>1, <1>3, SchedulerAssumption DEF Spawn, TablesOK
<1>5. /\ TablesOK' /\ Process' = Process \union {next_process_id}
      /\ known'[next_process_id] = SetOf(initial)
      /\ \A p \in Process : known'[p] = known[p]
  <2>1. /\ DOMAIN tables = Process
        /\ \A p \in Process : /\ DOMAIN tables[p] \subseteq DOMAIN tables[p]
                              /\ tables[p] \in [DOMAIN tables[p] -> known[p]]
    BY <1>1 DEF TablesOK, Process
  <2>2. /\ next_process_id' = next_process_id + 1
        /\ tables' = Extended(tables, next_process_id, Granted(Empty, 0, initial))
        /\ next_handle' = Extended(next_handle, next_process_id, NextHandle(0, initial))
        /\ known' = Extended(known, next_process_id, SetOf(initial))
        /\ ready_queue' = Append(ready_queue, next_process_id)
    BY DEF Spawn
  <2> QED BY <1>1, <1>3, <1>4, <2>1, <2>2, SpawnTables
<1>6. ASSUME NEW cap \in SetOf(initial)
      PROVE  Harmless(cap)
  <2>1. PICK p \in Process : cap \in known[p]
    BY <1>3
  <2>2. NotAhead(cap) /\ next_id' = next_id /\ epochs' = epochs
    BY <1>1, <2>1 DEF KnownNotAhead, Spawn
  <2>3. Live(epochs, cap) => Holders(cap.object) # {}
    BY <2>1, NoHolders
  <2> QED BY <2>2, <2>3 DEF Harmless, NotAhead
<1>7. KnownNotAhead' /\ HoldersStep
  BY <1>2, <1>5, <1>6, KnownStep
<1> QED BY <1>2, <1>5, <1>7, TypePartsNext DEF SchedulerInv

LEMMA SpawnChildStep ==
  ASSUME SchedulerInv, NEW p \in Process, NEW grants \in Batches(p), SpawnChild(p, grants)
  PROVE  /\ SchedulerInv' /\ EpochsStep /\ HoldersStep
         /\ Process' = Process \union {next_process_id}
         /\ next_process_id \notin Process
         /\ known'[next_process_id] = SetOf(Delivered(epochs, tables[p], grants))
         /\ \A q \in Process : known'[q] = known[q]
<1> DEFINE delivered == Delivered(epochs, tables[p], grants)
           id == next_process_id
           rest == [tables EXCEPT ![p] = Remaining(@, grants)]
<1>1. TypeOK /\ KernelOK /\ TablesOK /\ KnownNotAhead
  BY TypeParts DEF SchedulerInv
<1>2. /\ ValidBatch(epochs, tables[p], grants) /\ next_process_id < MaxProcesses
      /\ epochs' = AfterBatch(epochs, tables[p], grants) /\ next_id' = next_id
      /\ next_process_id' = next_process_id + 1
      /\ tables' = Extended(rest, next_process_id, Granted(Empty, 0, delivered))
      /\ next_handle' = Extended(next_handle, next_process_id, NextHandle(0, delivered))
      /\ known' = Extended(known, next_process_id, SetOf(delivered))
      /\ ready_queue' = Append(ready_queue, next_process_id)
      /\ issued' = issued + Derivations(grants)
  BY DEF SpawnChild
<1>3. KernelOK' /\ EpochsStep
  BY <1>1, <1>2, BatchEpochs
<1>4. delivered \in Seq(Capability(Object)) /\ DOMAIN delivered = DOMAIN grants
  <2>1. /\ epochs \in [DOMAIN epochs -> Nat]
        /\ tables[p] \in [DOMAIN tables[p] -> Capability(Object)]
        /\ grants \in Seq(Grants(DOMAIN tables[p]))
    BY <1>1, <1>2, BatchFacts
  <2> QED BY SMTT(30), <1>2, <2>1, DeliveredType
<1>5. issued' \in Nat
  BY <1>1, <1>2, DerivationsNat DEF TablesOK
<1>6. /\ DOMAIN rest = Process
      /\ \A q \in Process : /\ DOMAIN rest[q] \subseteq DOMAIN tables[q]
                            /\ rest[q] \in [DOMAIN rest[q] -> known[q]]
  <2>1. \A q \in Process : rest[q] = IF q = p THEN Remaining(tables[p], grants) ELSE tables[q]
    BY DEF Process
  <2>2. /\ DOMAIN Remaining(tables[p], grants) \subseteq DOMAIN tables[p]
        /\ Remaining(tables[p], grants) \in [DOMAIN Remaining(tables[p], grants) -> known[p]]
    BY <1>1, RemainingTable DEF TablesOK
  <2>3. DOMAIN rest = Process
    BY DEF Process
  <2> HIDE DEF rest
  <2> QED BY <1>1, <2>1, <2>2, <2>3 DEF TablesOK
<1>7. /\ TablesOK' /\ Process' = Process \union {next_process_id}
      /\ next_process_id \notin Process
      /\ known'[next_process_id] = SetOf(delivered)
      /\ \A q \in Process : known'[q] = known[q]
  <2> HIDE DEF rest, delivered
  <2> QED BY <1>1, <1>2, <1>4, <1>5, <1>6, SpawnTables
<1>8. ASSUME NEW cap \in SetOf(delivered)
      PROVE  Harmless(cap)
  <2>1. PICK k \in DOMAIN grants : cap = delivered[k]
    BY <1>4 DEF SetOf
  <2> QED BY <1>2, <2>1, DeliveredCaps DEF Harmless
<1>9. KnownNotAhead' /\ HoldersStep
  <2> HIDE DEF delivered
  <2> QED BY <1>3, <1>7, <1>8, KnownStep
<1> QED BY <1>3, <1>7, <1>9, TypePartsNext DEF SchedulerInv

LEMMA CallsStep ==
  ASSUME SchedulerInv, Calls
  PROVE  SchedulerInv' /\ EpochsStep /\ HoldersStep /\ Process \subseteq Process'
<1>1. ASSUME NEW p \in Process, NEW rights \in NewRights, NewObject(p, rights)
      PROVE  SchedulerInv' /\ EpochsStep /\ HoldersStep /\ Process \subseteq Process'
  BY <1>1, NewObjectStep, SchedulerAssumption
<1>2. ASSUME NEW p \in Process, NEW cap \in known[p], Revoke(p, cap)
      PROVE  SchedulerInv' /\ EpochsStep /\ HoldersStep /\ Process \subseteq Process'
  BY <1>2, RevokeStep
<1>3. ASSUME NEW p \in Process, NEW cap \in known[p], DestroyObject(p, cap)
      PROVE  SchedulerInv' /\ EpochsStep /\ HoldersStep /\ Process \subseteq Process'
  BY <1>3, DestroyObjectStep
<1>4. ASSUME Spawn(<<>>)
      PROVE  SchedulerInv' /\ EpochsStep /\ HoldersStep /\ Process \subseteq Process'
  <2>1. <<>> \in Seq(UNION {known[q] : q \in Process})
    OBVIOUS
  <2> QED BY <1>4, <2>1, SpawnStep
<1>5. ASSUME NEW p \in Process, NEW cap \in known[p], Spawn(<<cap>>)
      PROVE  SchedulerInv' /\ EpochsStep /\ HoldersStep /\ Process \subseteq Process'
  <2>1. <<cap>> \in Seq(UNION {known[q] : q \in Process})
    OBVIOUS
  <2> QED BY <1>5, <2>1, SpawnStep
<1>6. ASSUME NEW p \in Process, NEW grants \in Batches(p), SpawnChild(p, grants)
      PROVE  SchedulerInv' /\ EpochsStep /\ HoldersStep /\ Process \subseteq Process'
  BY <1>6, SpawnChildStep
<1>7. ASSUME NEW p \in Process, NEW cap \in known[p], NEW requested \in DerivedRights,
             DeriveOwn(p, cap, requested)
      PROVE  SchedulerInv' /\ EpochsStep /\ HoldersStep /\ Process \subseteq Process'
  BY <1>7, DeriveOwnStep, SchedulerAssumption
<1>8. ASSUME NEW p \in Process, NEW cap \in known[p], Reissue(p, cap)
      PROVE  SchedulerInv' /\ EpochsStep /\ HoldersStep /\ Process \subseteq Process'
  BY <1>8, ReissueStep
<1>9. ASSUME NEW p \in Process, NEW cap \in known[p], GrantOwn(p, cap)
      PROVE  SchedulerInv' /\ EpochsStep /\ HoldersStep /\ Process \subseteq Process'
  BY <1>9, GrantOwnStep
<1> QED BY <1>1, <1>2, <1>3, <1>4, <1>5, <1>6, <1>7, <1>8, <1>9 DEF Calls

(***************************************************************************)
(* The queue.                                                              *)
(***************************************************************************)

LEMMA ScheduleNextStep ==
  ASSUME SchedulerInv, ScheduleNext
  PROVE  SchedulerInv' /\ Process' = Process /\ UNCHANGED <<next_id, epochs, known, next_process_id>>
<1>1. /\ Process' = Process /\ ready_queue \in Seq(Process) /\ ready_queue # <<>>
      /\ UNCHANGED <<next_id, epochs, next_process_id, tables, next_handle, known, issued>>
      /\ ready_queue' = Append(Tail(ready_queue), Head(ready_queue))
  BY DEF SchedulerInv, TypeOK, ScheduleNext, Process
<1>2. Tail(ready_queue) \in Seq(Process) /\ Head(ready_queue) \in Process
  BY <1>1
<1>3. ready_queue' \in Seq(Process)
  BY <1>1, <1>2
<1>4. TypeOK'
  BY <1>1, <1>3 DEF SchedulerInv, TypeOK
<1>5. KnownNotAhead'
  BY <1>1 DEF SchedulerInv, KnownNotAhead, NotAhead
<1> QED BY <1>1, <1>4, <1>5 DEF SchedulerInv

\* As many turns in the queue as processes, and everyone among them.
QueueInv == SetOf(ready_queue) = Process /\ Len(ready_queue) = next_process_id

LEMMA QueueInvMeans == ASSUME TypeOK, QueueInv PROVE QueueIsAPermutation
<1>1. Process = 0 .. next_process_id - 1 /\ next_process_id \in Nat
  BY SchedulerAssumption DEF TypeOK
<1>2. Cardinality(0 .. next_process_id - 1) = next_process_id
  BY <1>1, FS_Interval
<1> QED BY <1>1, <1>2 DEF QueueInv, QueueIsAPermutation

LEMMA Enqueued ==
  ASSUME NEW X, NEW queue \in Seq(X), NEW x
  PROVE  SetOf(Append(queue, x)) = SetOf(queue) \union {x}
<1>1. DOMAIN Append(queue, x) = DOMAIN queue \union {Len(queue) + 1}
  OBVIOUS
<1>2. /\ \A k \in DOMAIN queue : Append(queue, x)[k] = queue[k]
      /\ Append(queue, x)[Len(queue) + 1] = x
  OBVIOUS
<1> QED BY <1>1, <1>2 DEF SetOf

LEMMA Rotated ==
  ASSUME NEW X, NEW queue \in Seq(X), queue # <<>>
  PROVE  /\ SetOf(Append(Tail(queue), Head(queue))) = SetOf(queue)
         /\ Len(Append(Tail(queue), Head(queue))) = Len(queue)
<1>1. Tail(queue) \in Seq(X) /\ Len(Tail(queue)) = Len(queue) - 1 /\ Len(queue) \in Nat \ {0}
  OBVIOUS
<1>2. SetOf(Append(Tail(queue), Head(queue))) = SetOf(Tail(queue)) \union {Head(queue)}
  BY <1>1, Enqueued
<1>3. SetOf(queue) = SetOf(Tail(queue)) \union {Head(queue)}
  <2>1. \A k \in 1 .. Len(queue) - 1 : Tail(queue)[k] = queue[k + 1]
    OBVIOUS
  <2>2. Head(queue) = queue[1]
    OBVIOUS
  <2>3. DOMAIN queue = 1 .. Len(queue) /\ DOMAIN Tail(queue) = 1 .. Len(queue) - 1
    BY <1>1
  <2>4. ASSUME NEW x \in SetOf(queue)
        PROVE  x \in SetOf(Tail(queue)) \union {Head(queue)}
    <3>1. PICK k \in 1 .. Len(queue) : x = queue[k]
      BY <2>3 DEF SetOf
    <3>2. CASE k = 1
      BY <2>2, <3>1, <3>2
    <3>3. CASE k # 1
      <4>1. k - 1 \in 1 .. Len(queue) - 1 /\ (k - 1) + 1 = k
        BY <1>1, <3>3
      <4>2. x = Tail(queue)[k - 1]
        BY <2>1, <3>1, <4>1
      <4> QED BY <2>3, <4>1, <4>2 DEF SetOf
    <3> QED BY <3>2, <3>3
  <2>5. ASSUME NEW x \in SetOf(Tail(queue))
        PROVE  x \in SetOf(queue)
    <3>1. PICK j \in 1 .. Len(queue) - 1 : x = Tail(queue)[j]
      BY <2>3 DEF SetOf
    <3>2. j + 1 \in 1 .. Len(queue) /\ x = queue[j + 1]
      BY <1>1, <2>1, <3>1
    <3> QED BY <2>3, <3>2 DEF SetOf
  <2>6. Head(queue) \in SetOf(queue)
    BY <1>1, <2>2, <2>3 DEF SetOf
  <2> QED BY <2>4, <2>5, <2>6
<1> QED BY <1>1, <1>2, <1>3

LEMMA QueueStep ==
  ASSUME SchedulerInv, QueueInv, SchedulerInv', Next
  PROVE  QueueInv'
<1>1. /\ ready_queue \in Seq(Process) /\ Process = 0 .. next_process_id - 1
      /\ Process' = 0 .. next_process_id' - 1 /\ next_process_id \in Nat
  BY SchedulerAssumption DEF SchedulerInv, TypeOK
<1>2. CASE UNCHANGED <<ready_queue, next_process_id>>
  BY <1>1, <1>2 DEF QueueInv
<1>3. CASE /\ next_process_id' = next_process_id + 1
           /\ ready_queue' = Append(ready_queue, next_process_id)
  <2>1. SetOf(ready_queue') = SetOf(ready_queue) \union {next_process_id}
    BY <1>1, <1>3, Enqueued
  <2>2. Process' = Process \union {next_process_id}
    BY <1>1, <1>3
  <2>3. Len(ready_queue') = Len(ready_queue) + 1
    BY <1>1, <1>3
  <2> QED BY <1>3, <2>1, <2>2, <2>3 DEF QueueInv, SetOf
<1>4. CASE ScheduleNext
  <2>1. /\ ready_queue # <<>> /\ Process' = Process /\ next_process_id' = next_process_id
        /\ ready_queue' = Append(Tail(ready_queue), Head(ready_queue))
    BY <1>4 DEF ScheduleNext, Process
  <2>2. SetOf(ready_queue') = SetOf(ready_queue) /\ Len(ready_queue') = Len(ready_queue)
    BY <1>1, <2>1, Rotated
  <2> QED BY <2>1, <2>2 DEF QueueInv, SetOf
<1>5. CASE Calls
  BY <1>2, <1>3, <1>5 DEF Calls, NewObject, DeriveOwn, GrantOwn, Revoke, Reissue, DestroyObject,
                          Spawn, SpawnChild
<1> QED BY <1>4, <1>5 DEF Next

LEMMA SchedulerInvAlways == Spec => [](SchedulerInv /\ QueueInv)
<1>1. Init => SchedulerInv /\ QueueInv
  <2>1. Init => QueueInv
    BY DEF Init, QueueInv, SetOf, Empty, Process
  <2> QED BY <2>1, InitSchedulerInv
<1>2. ASSUME SchedulerInv, QueueInv, [Next]_vars
      PROVE  SchedulerInv' /\ QueueInv'
  <2>1. CASE UNCHANGED vars
    <3>1. TypeOK' /\ KnownNotAhead'
      BY <1>2, <2>1 DEF SchedulerInv, TypeOK, KnownNotAhead, NotAhead, Process, vars
    <3>2. QueueInv'
      BY <1>2, <2>1 DEF QueueInv, SetOf, Process, vars
    <3> QED BY <3>1, <3>2 DEF SchedulerInv
  <2>2. CASE Next
    <3>1. SchedulerInv'
      BY <1>2, <2>2, CallsStep, ScheduleNextStep DEF Next
    <3> QED BY <1>2, <2>2, <3>1, QueueStep
  <2> QED BY <1>2, <2>1, <2>2
<1> QED BY <1>1, <1>2, PTL DEF Spec

\* However processes are spawned and take turns, the queue holds each of them once.
THEOREM QueueHoldsEveryoneOnce == Spec => []QueueIsAPermutation
<1>1. SchedulerInv /\ QueueInv => QueueIsAPermutation
  BY QueueInvMeans DEF SchedulerInv
<1> QED BY <1>1, SchedulerInvAlways, PTL

(***************************************************************************)
(* Handing over.                                                           *)
(***************************************************************************)

\* Nobody ends up with the objects whose epoch advanced unless it was a move.
LEMMA RevokedForAll ==
  ASSUME SchedulerInv, Process' = Process, known' = known, NEW o \in DOMAIN epochs,
         epochs'[o] = epochs[o] + 1
  PROVE  Holders(o)' = {}
<1>1. ASSUME NEW holder \in Holders(o)'
      PROVE  FALSE
  <2>1. \E q \in Process : \E cap \in known[q] : cap.object = o /\ Live(epochs', cap)
    BY DEF Holders
  <2> QED BY <2>1, AdvancedIsRevoked
<1> QED BY <1>1

LEMMA SpawnChildHandsOff ==
  ASSUME SchedulerInv, NEW p \in Process, NEW grants \in Batches(p), SpawnChild(p, grants),
         NEW o \in DOMAIN epochs, epochs'[o] # epochs[o]
  PROVE  \E cap : Holders(o)' = {<<next_process_id, cap>>}
<1> DEFINE delivered == Delivered(epochs, tables[p], grants)
<1>1. /\ ValidBatch(epochs, tables[p], grants) /\ next_id' = next_id
      /\ epochs' = AfterBatch(epochs, tables[p], grants) /\ TypeOK
  BY DEF SpawnChild, SchedulerInv
<1>2. o \in Moved(tables[p], grants) /\ epochs'[o] = epochs[o] + 1
  BY <1>1, BatchFacts, AfterBatchEpochs
<1>3. /\ Process' = Process \union {next_process_id} /\ next_process_id \notin Process
      /\ known'[next_process_id] = SetOf(delivered)
      /\ \A q \in Process : known'[q] = known[q]
  BY SpawnChildStep
<1>4. /\ epochs \in [DOMAIN epochs -> Nat]
       /\ tables[p] \in [DOMAIN tables[p] -> Capability(Object)]
       /\ grants \in Seq(Grants(DOMAIN tables[p]))
  BY <1>1, BatchFacts
<1>5. /\ delivered \in Seq(Capability(Object)) /\ DOMAIN delivered = DOMAIN grants
  BY <1>1, <1>4, DeliveredType
<1>6. PICK k \in DOMAIN grants :
        grants[k].kind = "Move" /\ tables[p][grants[k].handle].object = o
  BY <1>2 DEF Moved
<1>7. delivered[k].object = o
  BY <1>1, <1>6, <1>4, DeliveredOne
<1>8. PICK cap : cap = delivered[k]
  OBVIOUS
<1>9. Live(epochs', cap)
  BY <1>1, <1>6, <1>8, DeliveredCaps
<1>10. \A j \in DOMAIN grants \ {k} : delivered[j].object # o
  BY <1>1, <1>6, <1>7, <1>8, DeliveredCaps
<1> HIDE DEF delivered
<1>11. <<next_process_id, cap>> \in Holders(o)'
  <2>1. cap \in known'[next_process_id] /\ next_process_id \in Process' /\ cap.object = o
    BY <1>3, <1>5, <1>7, <1>8 DEF SetOf
  <2> QED BY <1>9, <2>1 DEF Holders
<1>12. ASSUME NEW holder \in Holders(o)'
       PROVE  holder = <<next_process_id, cap>>
  <2>1. PICK q \in Process' : \E c \in known'[q] :
          holder = <<q, c>> /\ c.object = o /\ Live(epochs', c)
    BY DEF Holders
  <2>2. PICK c \in known'[q] : holder = <<q, c>> /\ c.object = o /\ Live(epochs', c)
    BY <2>1
  <2>3. q \notin Process
    BY <1>2, <1>3, <2>2, AdvancedIsRevoked
  <2>4. q = next_process_id /\ c \in SetOf(delivered)
    BY <1>3, <2>2, <2>3
  <2>5. PICK j \in DOMAIN grants : c = delivered[j]
    BY <1>5, <2>4 DEF SetOf
  <2>6. j = k
    BY <1>10, <2>2, <2>5
  <2> QED BY <1>8, <2>2, <2>4, <2>5, <2>6
<1> QED BY <1>11, <1>12

\* A reissue leaves its caller alone with the object.
LEMMA ReissuedForOne ==
  ASSUME SchedulerInv, NEW p \in Process, NEW cap \in known[p], Reissue(p, cap),
         NEW o \in DOMAIN epochs, epochs'[o] # epochs[o]
  PROVE  Cardinality(Holders(o)') <= 1
<1>1. PICK fresh : fresh = reissued(epochs, cap)
  OBVIOUS
<1>2. /\ Process' = Process /\ epochs'[o] = epochs[o] + 1
      /\ \A q \in Process : known'[q] \subseteq (IF q = p THEN known[q] \union {fresh} ELSE known[q])
  <2>1. fresh \in Capability(Object) /\ TablesOK
    BY <1>1, ReissueEpochs, TypeParts DEF SchedulerInv
  <2>2. Install(p, fresh) /\ UNCHANGED <<next_process_id, ready_queue>>
    BY <1>1 DEF Reissue
  <2>3. /\ Process' = Process
        /\ \A q \in Process : known'[q] = IF q = p THEN known[q] \union {fresh} ELSE known[q]
    BY <2>1, <2>2, InstallTables
  <2>4. epochs'[o] = epochs[o] + 1
    BY DEF Reissue, bumped
  <2> QED BY <2>3, <2>4
<1>3. ASSUME NEW holder \in Holders(o)'
      PROVE  holder = <<p, fresh>>
  <2>1. PICK q \in Process' : \E c \in known'[q] :
          holder = <<q, c>> /\ c.object = o /\ Live(epochs', c)
    BY DEF Holders
  <2>2. PICK c \in known'[q] : holder = <<q, c>> /\ c.object = o /\ Live(epochs', c)
    BY <2>1
  <2>3. q \in Process /\ c \notin known[q]
    BY <1>2, <2>2, AdvancedIsRevoked
  <2> QED BY <1>2, <2>2, <2>3
<1>4. Holders(o)' = {} \/ Holders(o)' = {<<p, fresh>>}
  BY <1>3
<1>5. CASE Holders(o)' = {}
  <2>1. Cardinality(Holders(o)') = 0
    BY <1>5, FS_EmptySet
  <2> QED BY <2>1
<1>6. CASE Holders(o)' = {<<p, fresh>>}
  <2>1. Cardinality(Holders(o)') = 1
    BY <1>6, FS_Singleton
  <2> QED BY <2>1
<1> QED BY <1>4, <1>5, <1>6

LEMMA CallsHandOff == ASSUME SchedulerInv, Calls PROVE HandsOff
<1> SUFFICES ASSUME NEW o \in DOMAIN epochs \cap DOMAIN epochs', epochs'[o] # epochs[o]
             PROVE  /\ Cardinality(Holders(o)') <= 1
                    /\ next_process_id' # next_process_id
                         => {holder[1] : holder \in Holders(o)'} = {next_process_id}
  BY DEF HandsOff
<1> DEFINE Good == /\ Cardinality(Holders(o)') <= 1
                   /\ next_process_id' # next_process_id
                        => {holder[1] : holder \in Holders(o)'} = {next_process_id}
<1>1. ASSUME NEW p \in Process, NEW rights \in NewRights, NewObject(p, rights)
      PROVE  Good
  <2>1. epochs'[o] = epochs[o]
    BY <1>1 DEF NewObject, inserted, SchedulerInv, TypeOK
  <2> QED BY <2>1
<1>2. ASSUME NEW p \in Process, NEW cap \in known[p], Revoke(p, cap)
      PROVE  Good
  <2>1. epochs'[o] = epochs[o] + 1 /\ next_process_id' = next_process_id
    BY <1>2 DEF Revoke, bumped
  <2>2. Holders(o)' = {}
    BY <1>2, <2>1, RevokedForAll DEF Revoke, Process
  <2> QED BY <2>1, <2>2, FS_EmptySet
<1>3. ASSUME NEW p \in Process, NEW cap \in known[p], DestroyObject(p, cap)
      PROVE  Good
  <2>1. epochs'[o] = epochs[o]
    BY <1>3 DEF DestroyObject, removed
  <2> QED BY <2>1
<1>4. ASSUME NEW p \in Process, NEW grants \in Batches(p), SpawnChild(p, grants)
      PROVE  Good
  <2>1. PICK cap : Holders(o)' = {<<next_process_id, cap>>}
    BY <1>4, SpawnChildHandsOff
  <2>2. Cardinality(Holders(o)') = 1
    BY <2>1, FS_Singleton
  <2>3. {holder[1] : holder \in Holders(o)'} = {next_process_id}
    BY <2>1
  <2> QED BY <2>2, <2>3
<1>5. ASSUME NEW initial, Spawn(initial)
      PROVE  Good
  BY <1>5 DEF Spawn
<1>6. ASSUME NEW p \in Process, NEW cap \in known[p],
             GrantOwn(p, cap) \/ \E requested : DeriveOwn(p, cap, requested)
      PROVE  Good
  BY <1>6 DEF DeriveOwn, GrantOwn
<1>7. ASSUME NEW p \in Process, NEW cap \in known[p], Reissue(p, cap)
      PROVE  Good
  <2>1. next_process_id' = next_process_id
    BY <1>7 DEF Reissue
  <2> QED BY <1>7, <2>1, ReissuedForOne
<1> HIDE DEF Good
<1>8. Good
  BY <1>1, <1>2, <1>3, <1>4, <1>5, <1>6, <1>7 DEF Calls
<1> QED BY <1>8 DEF Good

\* Handing an object over revokes every copy and every view of it that was kept,
\* by anyone, and leaves the child alone with it.
THEOREM MovesAreExclusive == Spec => HandoffIsExclusive
<1>1. ASSUME SchedulerInv, [Next]_vars
      PROVE  [HandsOff]_vars
  <2>1. CASE Calls
    BY <1>1, <2>1, CallsHandOff
  <2>2. CASE ScheduleNext
    BY <2>2 DEF ScheduleNext, HandsOff
  <2> QED BY <1>1, <2>1, <2>2 DEF Next
<1> QED BY <1>1, SchedulerInvAlways, PTL DEF Spec, HandoffIsExclusive

(***************************************************************************)
(* Handles, as long as the counter does not wrap: a process's entries are  *)
(* below its counter, so what it is granted never replaces one.            *)
(***************************************************************************)

HandlesDoNotWrap == MaxGrants < HandleSpace

HandlesInv ==
  \A p \in Process : next_handle[p] <= MaxGrants /\ DOMAIN tables[p] \subseteq 0 .. next_handle[p] - 1

KeepsEntries ==
  \A p \in Process : \A h \in DOMAIN tables[p] \cap DOMAIN tables'[p] :
    tables'[p][h] = tables[p][h]

EntriesOf(f) == UNION {{p} \X DOMAIN f[p] : p \in Process}
Entries == EntriesOf(tables)

\* Tables that have lost entries, and nothing else.
Shrunk(rest) ==
  /\ DOMAIN rest = Process
  /\ \A q \in Process : /\ DOMAIN rest[q] \subseteq DOMAIN tables[q]
                        /\ \A h \in DOMAIN rest[q] : rest[q][h] = tables[q][h]

\* The n handles from `next` on, of process p.
Fresh(p, next, n) == {p} \X (next .. next + n - 1)

\* The handles of p that a batch takes out of its table.
Leaving(grants) == {k \in DOMAIN grants : leaves(grants[k])}
Left(p, grants) == {<<p, grants[k].handle>> : k \in Leaving(grants)}

LEMMA InEntries ==
  ASSUME NEW e
  PROVE  e \in Entries <=> \E p \in Process : \E h \in DOMAIN tables[p] : e = <<p, h>>
BY DEF Entries, EntriesOf

LEMMA NoWrap ==
  ASSUME HandlesDoNotWrap, NEW next \in Nat, NEW k \in Nat \ {0}, next + k - 1 <= MaxGrants
  PROVE  HandleOf(next, k) = next + k - 1
<1>1. HandleSpace \in Nat \ {0} /\ MaxGrants \in Nat
  BY ProcessAssumption, SchedulerAssumption
<1>2. next + k - 1 \in 0 .. HandleSpace - 1
  BY <1>1 DEF HandlesDoNotWrap
<1>3. \A i \in 0 .. HandleSpace - 1 : i % HandleSpace = i
  BY <1>1
<1> QED BY <1>2, <1>3 DEF HandleOf

LEMMA GrantedFresh ==
  ASSUME HandlesDoNotWrap, NEW caps, caps \in Seq(SetOf(caps)), NEW table, NEW next \in Nat,
         HasRoom(next, Len(caps)), DOMAIN table \subseteq 0 .. next - 1
  PROVE  /\ NextHandle(next, caps) = next + Len(caps)
         /\ DOMAIN Granted(table, next, caps)
              = DOMAIN table \union (next .. next + Len(caps) - 1)
         /\ \A h \in DOMAIN table : Granted(table, next, caps)[h] = table[h]
<1>1. Len(caps) \in Nat /\ DOMAIN caps = 1 .. Len(caps) /\ MaxGrants \in Nat
  BY SchedulerAssumption
<1>2. next + Len(caps) <= MaxGrants
  BY DEF HasRoom
<1>3. ASSUME NEW k \in 1 .. Len(caps) + 1
      PROVE  HandleOf(next, k) = next + k - 1
  <2>1. k \in Nat \ {0} /\ next + k - 1 <= MaxGrants
    BY <1>1, <1>2
  <2> QED BY <2>1, NoWrap
<1>4. NextHandle(next, caps) = next + Len(caps)
  <2>1. Len(caps) + 1 \in 1 .. Len(caps) + 1 /\ next + (Len(caps) + 1) - 1 = next + Len(caps)
    BY <1>1
  <2> QED BY <1>3, <2>1 DEF NextHandle
<1>5. {HandleOf(next, k) : k \in DOMAIN caps} = next .. next + Len(caps) - 1
  <2>1. ASSUME NEW k \in DOMAIN caps
        PROVE  HandleOf(next, k) \in next .. next + Len(caps) - 1
    BY <1>1, <1>3
  <2>2. ASSUME NEW h \in next .. next + Len(caps) - 1
        PROVE  \E k \in DOMAIN caps : h = HandleOf(next, k)
    <3>1. PICK k \in 1 .. Len(caps) : next + k - 1 = h
      <4>1. h - next + 1 \in 1 .. Len(caps) /\ next + (h - next + 1) - 1 = h
        BY <1>1
      <4> QED BY <4>1
    <3>2. k \in 1 .. Len(caps) + 1 /\ k \in DOMAIN caps
      BY <1>1
    <3> QED BY <1>3, <3>1, <3>2
  <2> QED BY <2>1, <2>2
<1>6. DOMAIN Granted(table, next, caps)
        = DOMAIN table \union (next .. next + Len(caps) - 1)
  BY <1>5 DEF Granted
<1>7. ASSUME NEW h \in DOMAIN table
      PROVE  Granted(table, next, caps)[h] = table[h]
  <2>1. \A k \in DOMAIN caps : HandleOf(next, k) # h
    <3>1. h < next
      OBVIOUS
    <3> QED BY <1>1, <1>3, <3>1
  <2> QED BY <1>6, <2>1, GrantedEntries
<1> QED BY <1>4, <1>6, <1>7

\* What `receive` does, and a process's own `grant`.
LEMMA GrantEntries ==
  ASSUME HandlesDoNotWrap, TablesOK, HandlesInv, NEW p \in Process,
         NEW Caps, NEW caps \in Seq(Caps), HasRoom(next_handle[p], Len(caps)),
         tables' = [tables EXCEPT ![p] = Granted(@, next_handle[p], caps)],
         next_handle' = [next_handle EXCEPT ![p] = NextHandle(@, caps)]
  PROVE  /\ HandlesInv' /\ KeepsEntries
         /\ Entries' = Entries \union Fresh(p, next_handle[p], Len(caps))
         /\ Entries \cap Fresh(p, next_handle[p], Len(caps)) = {}
<1> DEFINE next == next_handle[p]
           new == Granted(tables[p], next, caps)
<1>1. next \in Nat /\ DOMAIN tables[p] \subseteq 0 .. next - 1 /\ Len(caps) \in Nat
  BY ProcessAssumption DEF TablesOK, HandlesInv
<1>2. /\ NextHandle(next, caps) = next + Len(caps)
      /\ DOMAIN new = DOMAIN tables[p] \union (next .. next + Len(caps) - 1)
      /\ \A h \in DOMAIN tables[p] : new[h] = tables[p][h]
  <2>1. caps \in Seq(SetOf(caps))
    BY SetOfSeq
  <2> HIDE DEF next
  <2>2. HasRoom(next, Len(caps))
    BY DEF next
  <2>3. PICK table : table = tables[p]
    OBVIOUS
  <2>4. next \in Nat /\ DOMAIN table \subseteq 0 .. next - 1
    BY <1>1, <2>3
  <2>5. /\ NextHandle(next, caps) = next + Len(caps)
        /\ DOMAIN Granted(table, next, caps)
             = DOMAIN table \union (next .. next + Len(caps) - 1)
        /\ \A h \in DOMAIN table : Granted(table, next, caps)[h] = table[h]
    BY <2>1, <2>2, <2>4, GrantedFresh
  <2> QED BY <2>3, <2>5
<1>3. tables' = [tables EXCEPT ![p] = new] /\ next_handle' = [next_handle EXCEPT ![p] = next + Len(caps)]
  BY <1>2
<1>4. Fresh(p, next, Len(caps)) = {p} \X (next .. next + Len(caps) - 1)
  BY DEF Fresh
<1> HIDE DEF new, next
<1>5. /\ Process' = Process
      /\ \A q \in Process : tables'[q] = IF q = p THEN new ELSE tables[q]
      /\ \A q \in Process : next_handle'[q] = IF q = p THEN next + Len(caps) ELSE next_handle[q]
  BY <1>3 DEF Process, TablesOK
<1>6. KeepsEntries
  BY <1>2, <1>5 DEF KeepsEntries
<1>7. HandlesInv'
  <2>1. next + Len(caps) <= MaxGrants
    BY DEF HasRoom, next
  <2>2. DOMAIN new \subseteq 0 .. (next + Len(caps)) - 1
    BY <1>1, <1>2
  <2> QED BY <1>5, <2>1, <2>2 DEF HandlesInv
<1>8. Entries' = Entries \union ({p} \X (next .. next + Len(caps) - 1))
  <2>1. ASSUME NEW e
        PROVE  e \in Entries' <=> \E q \in Process : \E h \in DOMAIN tables'[q] : e = <<q, h>>
    BY <1>5 DEF Entries, EntriesOf
  <2>2. ASSUME NEW e
        PROVE  e \in Entries' <=> e \in Entries \/ \E h \in next .. next + Len(caps) - 1 : e = <<p, h>>
    BY <1>2, <1>5, <2>1, InEntries
  <2>3. \A e : e \in {p} \X (next .. next + Len(caps) - 1)
                 <=> \E h \in next .. next + Len(caps) - 1 : e = <<p, h>>
    OBVIOUS
  <2> QED BY <2>2, <2>3
<1>9. Entries \cap ({p} \X (next .. next + Len(caps) - 1)) = {}
  <2>1. ASSUME NEW h \in next .. next + Len(caps) - 1
        PROVE  h \notin DOMAIN tables[p]
    BY <1>1
  <2>2. \A e : e \in {p} \X (next .. next + Len(caps) - 1)
                 => \E h \in next .. next + Len(caps) - 1 : e = <<p, h>>
    OBVIOUS
  <2> QED BY <2>1, <2>2, InEntries
<1> QED BY <1>4, <1>6, <1>7, <1>8, <1>9 DEF next

\* What `send` does, and `spawn_child` to the parent: `rest` is what is left of
\* the tables.
LEMMA RemainingEntries ==
  ASSUME TypeOK, NEW p \in Process, NEW grants \in Batches(p),
         ValidBatch(epochs, tables[p], grants),
         NEW rest, rest = [tables EXCEPT ![p] = Remaining(@, grants)]
  PROVE  /\ Shrunk(rest)
         /\ EntriesOf(rest) = Entries \ Left(p, grants)
         /\ Left(p, grants) \subseteq Entries
<1>1. /\ DOMAIN rest = Process
      /\ \A q \in Process : rest[q] = IF q = p THEN Remaining(tables[p], grants) ELSE tables[q]
  BY DEF Process
<1>2. tables[p] \in [DOMAIN tables[p] -> known[p]]
  BY DEF TypeOK
<1>3. /\ DOMAIN Remaining(tables[p], grants) \subseteq DOMAIN tables[p]
      /\ \A h \in DOMAIN Remaining(tables[p], grants) : Remaining(tables[p], grants)[h] = tables[p][h]
  BY <1>2, RemainingTable
<1>4. \A h : h \in DOMAIN Remaining(tables[p], grants)
               <=> h \in DOMAIN tables[p] /\ \A k \in Leaving(grants) : grants[k].handle # h
  BY DEF Remaining, Leaving
<1>5. \A e : e \in Left(p, grants) <=> \E k \in Leaving(grants) : e = <<p, grants[k].handle>>
  BY DEF Left
<1>6. \A e : e \in EntriesOf(rest) <=> \E q \in Process : \E h \in DOMAIN rest[q] : e = <<q, h>>
  BY DEF EntriesOf
<1>7. EntriesOf(rest) = Entries \ Left(p, grants)
  <2>1. ASSUME NEW q \in Process, NEW h \in DOMAIN rest[q]
        PROVE  <<q, h>> \in Entries \ Left(p, grants)
    BY <1>1, <1>3, <1>4, <1>5, InEntries
  <2>2. ASSUME NEW q \in Process, NEW h \in DOMAIN tables[q], <<q, h>> \notin Left(p, grants)
        PROVE  h \in DOMAIN rest[q]
    BY <1>1, <1>4, <1>5, <2>2
  <2>3. ASSUME NEW e \in EntriesOf(rest)
        PROVE  e \in Entries \ Left(p, grants)
    <3>1. PICK q \in Process : \E h \in DOMAIN rest[q] : e = <<q, h>>
      BY <1>6
    <3>2. PICK h \in DOMAIN rest[q] : e = <<q, h>>
      BY <3>1
    <3> QED BY <2>1, <3>2
  <2>4. ASSUME NEW e \in Entries \ Left(p, grants)
        PROVE  e \in EntriesOf(rest)
    BY <1>6, <2>2, InEntries
  <2> QED BY <2>3, <2>4
<1>8. Left(p, grants) \subseteq Entries
  <2>1. \A k \in Leaving(grants) : grants[k].handle \in DOMAIN tables[p]
    BY DEF ValidBatch, Leaving
  <2> QED BY <1>5, <2>1, InEntries
<1> QED BY <1>1, <1>3, <1>7, <1>8 DEF Shrunk

\* What `spawn` and `spawn_child` do: one table more, for a process of its own.
LEMMA NewTableEntries ==
  ASSUME HandlesDoNotWrap, TablesOK, HandlesInv, NEW id, id \notin Process,
         NEW caps, caps \in Seq(SetOf(caps)), HasRoom(0, Len(caps)),
         NEW rest, Shrunk(rest),
         tables' = Extended(rest, id, Granted(Empty, 0, caps)),
         next_handle' = Extended(next_handle, id, NextHandle(0, caps))
  PROVE  /\ HandlesInv' /\ KeepsEntries
         /\ Entries' = EntriesOf(rest) \union Fresh(id, 0, Len(caps))
         /\ EntriesOf(rest) \cap Fresh(id, 0, Len(caps)) = {}
<1> DEFINE new == Granted(Empty, 0, caps)
<1>1. PICK n \in Nat : n = Len(caps)
  OBVIOUS
<1>2. NextHandle(0, caps) = n /\ DOMAIN new = 0 .. n - 1
  <2>1. PICK table : table = Empty
    OBVIOUS
  <2>2. DOMAIN table = {} /\ 0 \in Nat
    BY <2>1, EmptyTable
  <2>3. DOMAIN table \subseteq 0 .. 0 - 1
    BY <2>2
  <2>4. /\ NextHandle(0, caps) = 0 + Len(caps)
        /\ DOMAIN Granted(table, 0, caps) = DOMAIN table \union (0 .. 0 + Len(caps) - 1)
    BY <2>2, <2>3, GrantedFresh
  <2> QED BY <1>1, <2>1, <2>2, <2>4
<1>3. Fresh(id, 0, Len(caps)) = {id} \X (0 .. n - 1)
  BY <1>1 DEF Fresh
<1> HIDE DEF new
<1>4. /\ Process' = Process \union {id}
      /\ tables'[id] = new /\ \A q \in Process : tables'[q] = rest[q]
      /\ next_handle'[id] = n /\ \A q \in Process : next_handle'[q] = next_handle[q]
  <2>1. DOMAIN next_handle = Process
    BY DEF TablesOK
  <2> QED BY <1>2, <2>1 DEF Process, Extended, new, Shrunk
<1>5. KeepsEntries
  BY <1>4 DEF KeepsEntries, Shrunk
<1>6. HandlesInv'
  BY <1>1, <1>2, <1>4, SchedulerAssumption DEF HandlesInv, HasRoom, Shrunk
<1>7. Entries' = EntriesOf(rest) \union ({id} \X (0 .. n - 1))
  <2>1. ASSUME NEW e
        PROVE  e \in Entries' <=> \E q \in Process \union {id} : \E h \in DOMAIN tables'[q] : e = <<q, h>>
    BY <1>4 DEF Entries, EntriesOf
  <2>2. ASSUME NEW e
        PROVE  e \in EntriesOf(rest) <=> \E q \in Process : \E h \in DOMAIN rest[q] : e = <<q, h>>
    BY DEF EntriesOf
  <2>3. \A e : e \in {id} \X (0 .. n - 1) <=> \E h \in 0 .. n - 1 : e = <<id, h>>
    OBVIOUS
  <2>4. ASSUME NEW e
        PROVE  e \in Entries' <=> e \in EntriesOf(rest) \/ \E h \in 0 .. n - 1 : e = <<id, h>>
    BY <1>2, <1>4, <2>1, <2>2
  <2> QED BY <2>3, <2>4
<1>8. EntriesOf(rest) \cap ({id} \X (0 .. n - 1)) = {}
  BY DEF EntriesOf
<1> QED BY <1>3, <1>5, <1>6, <1>7, <1>8

LEMMA CountFresh ==
  ASSUME NEW S, IsFiniteSet(S), NEW p, NEW next \in Nat, NEW n \in Nat,
         S \cap Fresh(p, next, n) = {}
  PROVE  /\ IsFiniteSet(S \union Fresh(p, next, n))
         /\ Cardinality(S \union Fresh(p, next, n)) = Cardinality(S) + n
<1> DEFINE I == next .. next + n - 1
           pair == [h \in I |-> <<p, h>>]
<1>1. IsFiniteSet(I) /\ Cardinality(I) = n
  <2>1. next \in Int /\ next + n - 1 \in Int
    OBVIOUS
  <2>2. /\ IsFiniteSet(I)
        /\ Cardinality(I) = IF next > next + n - 1 THEN 0 ELSE (next + n - 1) - next + 1
    BY <2>1, FS_Interval
  <2> QED BY <2>2
<1>2. pair \in Bijection(I, Fresh(p, next, n))
  BY DEF Fresh, Bijection, Injection, Surjection, IsInjective
<1>3. IsFiniteSet(Fresh(p, next, n)) /\ Cardinality(Fresh(p, next, n)) = n
  <2> HIDE DEF I, pair
  <2>1. ExistsBijection(I, Fresh(p, next, n))
    BY <1>2 DEF ExistsBijection
  <2> QED BY <1>1, <2>1, FS_Bijection
<1>4. /\ IsFiniteSet(S \union Fresh(p, next, n))
      /\ Cardinality(S \union Fresh(p, next, n))
           = Cardinality(S) + n - Cardinality(S \cap Fresh(p, next, n))
  BY <1>3, FS_Union
<1>5. Cardinality(S) \in Nat /\ Cardinality(S \cap Fresh(p, next, n)) = 0
  BY FS_CardinalityType, FS_EmptySet
<1> QED BY <1>4, <1>5

\* A batch takes as many entries away as it has grants that are no derivations.
LEMMA CountLeft ==
  ASSUME NEW S, IsFiniteSet(S), NEW p, NEW grants, grants \in Seq(SetOf(grants)),
         NoDuplicateTransfer(grants), Left(p, grants) \subseteq S
  PROVE  /\ IsFiniteSet(S \ Left(p, grants))
         /\ Cardinality(S \ Left(p, grants)) + Len(grants)
              = Cardinality(S) + Derivations(grants)
<1> DEFINE K == DOMAIN grants
           D == {k \in K : ~leaves(grants[k])}
           L == Leaving(grants)
           where == [k \in L |-> <<p, grants[k].handle>>]
<1>1. K = 1 .. Len(grants) /\ Len(grants) \in Nat
  OBVIOUS
<1>2. IsFiniteSet(K) /\ Cardinality(K) = Len(grants)
  <2>1. PICK n \in Nat : n = Len(grants)
    BY <1>1
  <2>2. IsFiniteSet(1 .. n) /\ Cardinality(1 .. n) = n
    BY FS_Interval
  <2> QED BY SMTT(20), <1>1, <2>1, <2>2
<1>3. D \subseteq K /\ L = K \ D
  BY DEF Leaving
<1>4. /\ IsFiniteSet(L) /\ Cardinality(D) \in Nat
      /\ Cardinality(L) = Len(grants) - Cardinality(D)
  <2> HIDE DEF K, D, L
  <2>1. K \cap D = D
    BY <1>3
  <2>2. IsFiniteSet(D)
    BY <1>2, <1>3, FS_Subset
  <2>3. IsFiniteSet(K \ D) /\ Cardinality(K \ D) = Cardinality(K) - Cardinality(K \cap D)
    BY <1>2, FS_Difference
  <2>4. Cardinality(D) \in Nat
    BY <2>2, FS_CardinalityType
  <2> QED BY <1>2, <1>3, <2>1, <2>3, <2>4
<1>5. where \in Bijection(L, Left(p, grants))
  BY DEF Left, Leaving, NoDuplicateTransfer, Bijection, Injection, Surjection, IsInjective
<1>6. IsFiniteSet(Left(p, grants)) /\ Cardinality(Left(p, grants)) = Cardinality(L)
  <2> HIDE DEF L, where
  <2>1. ExistsBijection(L, Left(p, grants))
    BY <1>5 DEF ExistsBijection
  <2> QED BY <1>4, <2>1, FS_Bijection
<1>7. S \cap Left(p, grants) = Left(p, grants)
  OBVIOUS
<1>8. /\ IsFiniteSet(S \ Left(p, grants))
      /\ Cardinality(S \ Left(p, grants)) = Cardinality(S) - Cardinality(Left(p, grants))
  <2>1. /\ IsFiniteSet(S \ Left(p, grants))
        /\ Cardinality(S \ Left(p, grants)) = Cardinality(S) - Cardinality(S \cap Left(p, grants))
    BY FS_Difference
  <2> QED BY <1>7, <2>1
<1>9. Derivations(grants) = Cardinality(D) /\ Cardinality(S) \in Nat
  BY FS_CardinalityType DEF Derivations
<1> HIDE DEF L, D
<1> QED BY <1>1, <1>4, <1>6, <1>8, <1>9

\* What every step keeps: handles stay fresh, and entries are made only as
\* they are issued.
EntriesStep ==
  /\ HandlesInv' /\ KeepsEntries
  /\ IsFiniteSet(Entries') /\ issued' \in Nat
  /\ Cardinality(Entries') + issued = Cardinality(Entries) + issued'

LEMMA InstallEntries ==
  ASSUME HandlesDoNotWrap, SchedulerInv, HandlesInv, IsFiniteSet(Entries),
         NEW p \in Process, NEW cap, Install(p, cap)
  PROVE  EntriesStep
<1>1. TablesOK /\ issued \in Nat
  BY TypeParts DEF SchedulerInv, TablesOK
<1>2. PICK caps \in Seq({cap}) : caps = <<cap>> /\ Len(caps) = 1
  <2>1. <<cap>> \in Seq({cap}) /\ Len(<<cap>>) = 1
    OBVIOUS
  <2> QED BY <2>1
<1>3. /\ HasRoom(next_handle[p], Len(caps))
      /\ tables' = [tables EXCEPT ![p] = Granted(@, next_handle[p], caps)]
      /\ next_handle' = [next_handle EXCEPT ![p] = NextHandle(@, caps)]
      /\ issued' = issued + 1
  BY <1>2 DEF Install
<1>4. /\ HandlesInv' /\ KeepsEntries
      /\ Entries' = Entries \union Fresh(p, next_handle[p], Len(caps))
      /\ Entries \cap Fresh(p, next_handle[p], Len(caps)) = {}
  BY <1>1, <1>3, GrantEntries
<1>5. next_handle[p] \in Nat
  BY <1>1, ProcessAssumption DEF TablesOK
<1>6. IsFiniteSet(Entries') /\ Cardinality(Entries') = Cardinality(Entries) + 1
  BY <1>2, <1>4, <1>5, CountFresh
<1> QED BY <1>1, <1>3, <1>4, <1>6, FS_CardinalityType DEF EntriesStep

LEMMA SpawnEntries ==
  ASSUME HandlesDoNotWrap, SchedulerInv, HandlesInv, IsFiniteSet(Entries),
         NEW initial, initial \in Seq(SetOf(initial)), Spawn(initial)
  PROVE  EntriesStep
<1>1. TablesOK /\ issued \in Nat
  BY TypeParts DEF SchedulerInv, TablesOK
<1>2. PICK id : id = next_process_id /\ id \notin Process
  BY <1>1 DEF TablesOK
<1>3. /\ HasRoom(0, Len(initial)) /\ issued' = issued + Len(initial)
      /\ tables' = Extended(tables, id, Granted(Empty, 0, initial))
      /\ next_handle' = Extended(next_handle, id, NextHandle(0, initial))
  BY <1>2 DEF Spawn
<1>4. PICK rest : rest = tables
  OBVIOUS
<1>5. Shrunk(rest)
  BY <1>4 DEF Shrunk, Process
<1>6. tables' = Extended(rest, id, Granted(Empty, 0, initial)) /\ EntriesOf(rest) = Entries
  BY <1>3, <1>4 DEF Entries
<1>7. /\ HandlesInv' /\ KeepsEntries
      /\ Entries' = EntriesOf(rest) \union Fresh(id, 0, Len(initial))
      /\ EntriesOf(rest) \cap Fresh(id, 0, Len(initial)) = {}
  BY <1>1, <1>2, <1>3, <1>4, <1>5, <1>6, NewTableEntries
<1>8. /\ Len(initial) \in Nat /\ Entries' = Entries \union Fresh(id, 0, Len(initial))
      /\ Entries \cap Fresh(id, 0, Len(initial)) = {}
  BY <1>6, <1>7
<1>9. IsFiniteSet(Entries') /\ Cardinality(Entries') = Cardinality(Entries) + Len(initial)
  BY <1>8, CountFresh
<1> QED BY <1>1, <1>3, <1>7, <1>8, <1>9, FS_CardinalityType DEF EntriesStep

LEMMA SpawnChildEntries ==
  ASSUME HandlesDoNotWrap, SchedulerInv, HandlesInv, IsFiniteSet(Entries),
         NEW p \in Process, NEW grants \in Batches(p), SpawnChild(p, grants)
  PROVE  EntriesStep
<1>1. TypeOK /\ TablesOK /\ issued \in Nat
  BY TypeParts DEF SchedulerInv, TablesOK
<1>2. PICK id : id = next_process_id /\ id \notin Process
  BY <1>1 DEF TablesOK
<1>3. PICK caps : caps = Delivered(epochs, tables[p], grants)
  OBVIOUS
<1>4. PICK rest : rest = [tables EXCEPT ![p] = Remaining(@, grants)]
  OBVIOUS
<1>5. /\ ValidBatch(epochs, tables[p], grants) /\ HasRoom(0, Len(grants))
      /\ issued' = issued + Derivations(grants)
      /\ tables' = Extended(rest, id, Granted(Empty, 0, caps))
      /\ next_handle' = Extended(next_handle, id, NextHandle(0, caps))
  BY <1>2, <1>3, <1>4 DEF SpawnChild
<1>6. /\ epochs \in [DOMAIN epochs -> Nat]
      /\ tables[p] \in [DOMAIN tables[p] -> Capability(Object)]
      /\ grants \in Seq(Grants(DOMAIN tables[p]))
  BY <1>1, <1>5, BatchFacts
<1>7. caps \in Seq(SetOf(caps)) /\ Len(caps) = Len(grants) /\ Len(grants) \in Nat
  <2>1. caps \in Seq(Capability(Object)) /\ DOMAIN caps = DOMAIN grants
    BY <1>3, <1>5, <1>6, DeliveredType
  <2>2. caps \in Seq(SetOf(caps))
    BY <2>1, SetOfSeq
  <2> QED BY <1>6, <2>1, <2>2
<1>8. /\ Shrunk(rest)
      /\ EntriesOf(rest) = Entries \ Left(p, grants)
      /\ Left(p, grants) \subseteq Entries
  BY <1>1, <1>4, <1>5, RemainingEntries
<1>9. /\ HandlesInv' /\ KeepsEntries
      /\ Entries' = EntriesOf(rest) \union Fresh(id, 0, Len(caps))
      /\ EntriesOf(rest) \cap Fresh(id, 0, Len(caps)) = {}
  BY <1>1, <1>2, <1>5, <1>7, <1>8, NewTableEntries
<1>10. /\ IsFiniteSet(EntriesOf(rest)) /\ Cardinality(EntriesOf(rest)) \in Nat
       /\ Cardinality(EntriesOf(rest)) + Len(grants) = Cardinality(Entries) + Derivations(grants)
  <2>1. grants \in Seq(SetOf(grants)) /\ NoDuplicateTransfer(grants)
    BY <1>5, <1>6, SetOfSeq DEF ValidBatch
  <2>2. /\ IsFiniteSet(Entries \ Left(p, grants))
        /\ Cardinality(Entries \ Left(p, grants)) + Len(grants)
             = Cardinality(Entries) + Derivations(grants)
    BY <1>8, <2>1, CountLeft
  <2> QED BY <1>8, <2>2, FS_CardinalityType
<1>11. /\ IsFiniteSet(Entries')
       /\ Cardinality(Entries') = Cardinality(EntriesOf(rest)) + Len(grants)
  BY <1>7, <1>9, <1>10, CountFresh
<1>12. Cardinality(Entries) \in Nat /\ Derivations(grants) \in Nat
  BY FS_CardinalityType, DerivationsNat
<1> QED BY <1>1, <1>5, <1>7, <1>9, <1>10, <1>11, <1>12 DEF EntriesStep

LEMMA CallsEntries ==
  ASSUME HandlesDoNotWrap, SchedulerInv, HandlesInv, IsFiniteSet(Entries), Calls
  PROVE  EntriesStep
<1>1. ASSUME NEW p \in Process, NEW cap, Install(p, cap)
      PROVE  EntriesStep
  BY <1>1, InstallEntries
<1>2. ASSUME UNCHANGED <<tables, next_handle, issued>>
      PROVE  EntriesStep
  <2>1. Entries' = Entries /\ HandlesInv' /\ KeepsEntries
    BY <1>2 DEF Entries, EntriesOf, Process, HandlesInv, KeepsEntries
  <2>2. Cardinality(Entries) \in Nat /\ issued \in Nat
    BY FS_CardinalityType DEF SchedulerInv, TypeOK
  <2> QED BY <1>2, <2>1, <2>2 DEF EntriesStep
<1>3. ASSUME NEW p \in Process, NEW cap \in known[p], Revoke(p, cap) \/ DestroyObject(p, cap)
      PROVE  EntriesStep
  BY <1>2, <1>3 DEF Revoke, DestroyObject
<1>4. ASSUME Spawn(<<>>)
      PROVE  EntriesStep
  <2>1. <<>> \in Seq(SetOf(<<>>))
    OBVIOUS
  <2> QED BY <1>4, <2>1, SpawnEntries
<1>5. ASSUME NEW p \in Process, NEW cap \in known[p], Spawn(<<cap>>)
      PROVE  EntriesStep
  <2>1. <<cap>> \in Seq(SetOf(<<cap>>))
    BY DEF SetOf
  <2> QED BY <1>5, <2>1, SpawnEntries
<1>6. ASSUME NEW p \in Process, NEW grants \in Batches(p), SpawnChild(p, grants)
      PROVE  EntriesStep
  BY <1>6, SpawnChildEntries
<1>7. ASSUME NEW p \in Process, NEW rights, NewObject(p, rights)
      PROVE  EntriesStep
  BY <1>1, <1>7 DEF NewObject
<1>8. ASSUME NEW p \in Process, NEW cap, NEW requested, DeriveOwn(p, cap, requested)
      PROVE  EntriesStep
  BY <1>1, <1>8 DEF DeriveOwn
<1>9. ASSUME NEW p \in Process, NEW cap, Reissue(p, cap) \/ GrantOwn(p, cap)
      PROVE  EntriesStep
  BY <1>1, <1>9 DEF Reissue, GrantOwn
<1> QED BY <1>3, <1>4, <1>5, <1>6, <1>7, <1>8, <1>9 DEF Calls

(***************************************************************************)
(* The inductive invariant: what SchedulerInv says of the capabilities     *)
(* processes have, of those in flight too.                                 *)
(***************************************************************************)

Message == [caps : Seq(Capability(Object)), moved : SUBSET Nat]

QueuesOK ==
  /\ DOMAIN queues \subseteq 0 .. next_id - 1
  /\ \A o \in DOMAIN queues :
       /\ queues[o] \in Seq(Message)
       /\ Len(queues[o]) <= MaxQueue
       /\ \A m \in DOMAIN queues[o] : queues[o][m].moved \subseteq DOMAIN queues[o][m].caps

FlightNotAhead == \A place \in InFlight : NotAhead(CapAt(place))

IsMoved(place) == place[3] \in queues[place[1]][place[2]].moved

IpcInv == SchedulerInv /\ QueuesOK /\ FlightNotAhead /\ MovedIsSoleAuthority

LEMMA QueuesType == ASSUME TypeOK, QueuesOK PROVE IpcTypeOK
<1>1. ASSUME NEW o \in DOMAIN queues, NEW m \in DOMAIN queues[o]
      PROVE  queues[o][m].caps \in Seq(Capability(Object))
  <2>1. queues[o][m] \in Message
    BY DEF QueuesOK
  <2> QED BY <2>1 DEF Message
<1> QED BY <1>1 DEF QueuesOK, IpcTypeOK

LEMMA Places ==
  ASSUME NEW place
  PROVE  place \in InFlight <=>
           \E o \in DOMAIN queues : \E m \in DOMAIN queues[o] :
             \E k \in DOMAIN queues[o][m].caps : place = <<o, m, k>>
BY DEF InFlight

LEMMA PlaceFacts ==
  ASSUME QueuesOK, NEW place \in InFlight
  PROVE  /\ place[1] \in DOMAIN queues
         /\ place[2] \in DOMAIN queues[place[1]]
         /\ place[3] \in DOMAIN queues[place[1]][place[2]].caps
         /\ place = <<place[1], place[2], place[3]>>
         /\ CapAt(place) \in Capability(Object)
<1>1. PICK o \in DOMAIN queues : \E m \in DOMAIN queues[o] :
             \E k \in DOMAIN queues[o][m].caps : place = <<o, m, k>>
  BY Places
<1>2. PICK m \in DOMAIN queues[o] : \E k \in DOMAIN queues[o][m].caps : place = <<o, m, k>>
  BY <1>1
<1>3. PICK k \in DOMAIN queues[o][m].caps : place = <<o, m, k>>
  BY <1>2
<1>4. queues[o][m] \in Message
  BY DEF QueuesOK
<1>5. queues[o][m].caps[k] \in Capability(Object)
  BY <1>4 DEF Message
<1> QED BY <1>3, <1>5 DEF CapAt

\* MovedIsSoleAuthority, place by place.
LEMMA SoleAuthority ==
  ASSUME MovedIsSoleAuthority, NEW place \in InFlight, IsMoved(place)
  PROVE  /\ Live(epochs, CapAt(place))
         /\ CapAt(place).object \in DOMAIN epochs
         /\ Holders(CapAt(place).object) = {}
         /\ \A other \in InFlight \ {place} :
              CapAt(other).object = CapAt(place).object => ~Live(epochs, CapAt(other))
BY DEF MovedIsSoleAuthority, IsMoved, Live, object_exists

LEMMA InitIpcInv == IpcInit => IpcInv
<1> SUFFICES ASSUME IpcInit PROVE IpcInv
  OBVIOUS
<1>1. DOMAIN queues = {} /\ Init
  BY DEF IpcInit, Empty
<1>2. InFlight = {}
  BY <1>1 DEF InFlight
<1>3. SchedulerInv
  BY <1>1, InitSchedulerInv
<1> QED BY <1>1, <1>2, <1>3 DEF IpcInv, QueuesOK, FlightNotAhead, MovedIsSoleAuthority

(***************************************************************************)
(* The messages that stay in flight through a step. `back` is where each   *)
(* was before it: places shift when the front of a queue is taken.         *)
(***************************************************************************)

Kept(old, back) ==
  /\ back \in [old -> InFlight]
  /\ \A p, q \in old : p # q => back[p] # back[q]
  /\ \A p \in old : /\ queues'[p[1]][p[2]].caps[p[3]] = CapAt(back[p])
                    /\ p[3] \in queues'[p[1]][p[2]].moved <=> IsMoved(back[p])

LEMMA KeptFlight ==
  ASSUME IpcInv, KernelOK', EpochsStep, NEW old, NEW back, Kept(old, back)
  PROVE  /\ \A p \in old : Behind(next_id', epochs', queues'[p[1]][p[2]].caps[p[3]])
         /\ \A p \in old : p[3] \in queues'[p[1]][p[2]].moved =>
              LET cap == queues'[p[1]][p[2]].caps[p[3]] IN
              /\ Live(epochs', cap)
              /\ Holders(CapAt(back[p]).object) = {}
              /\ cap.object = CapAt(back[p]).object
              /\ \A q \in old \ {p} :
                   queues'[q[1]][q[2]].caps[q[3]].object = cap.object
                     => ~Live(epochs', queues'[q[1]][q[2]].caps[q[3]])
<1>1. /\ KernelOK /\ QueuesOK /\ FlightNotAhead /\ MovedIsSoleAuthority
  BY TypeParts DEF IpcInv, SchedulerInv
<1>2. ASSUME NEW p \in old
      PROVE  Behind(next_id', epochs', queues'[p[1]][p[2]].caps[p[3]])
  <2>1. back[p] \in InFlight /\ queues'[p[1]][p[2]].caps[p[3]] = CapAt(back[p])
    BY DEF Kept
  <2>2. PICK cap : cap = CapAt(back[p])
    OBVIOUS
  <2>3. cap \in Capability(Object) /\ NotAhead(cap)
    BY SMTT(20), <1>1, <2>1, <2>2, PlaceFacts DEF FlightNotAhead
  <2> QED BY <1>1, <2>1, <2>2, <2>3, StaysBehind
<1>3. ASSUME NEW p \in old, p[3] \in queues'[p[1]][p[2]].moved
      PROVE  LET cap == queues'[p[1]][p[2]].caps[p[3]] IN
             /\ Live(epochs', cap)
             /\ Holders(CapAt(back[p]).object) = {}
             /\ cap.object = CapAt(back[p]).object
             /\ \A q \in old \ {p} :
                  queues'[q[1]][q[2]].caps[q[3]].object = cap.object
                    => ~Live(epochs', queues'[q[1]][q[2]].caps[q[3]])
  <2> DEFINE cap == queues'[p[1]][p[2]].caps[p[3]]
             o == CapAt(back[p]).object
  <2>1. back[p] \in InFlight /\ cap = CapAt(back[p]) /\ IsMoved(back[p])
    BY <1>3 DEF Kept
  <2>2. /\ Live(epochs, CapAt(back[p])) /\ o \in DOMAIN epochs /\ Holders(o) = {}
        /\ \A other \in InFlight \ {back[p]} :
             CapAt(other).object = o => ~Live(epochs, CapAt(other))
    BY <1>1, <2>1, SoleAuthority
  <2>3. o \in DOMAIN epochs' /\ epochs'[o] = epochs[o]
    BY <2>2 DEF EpochsStep
  <2>4. Live(epochs', cap)
    BY <2>1, <2>2, <2>3 DEF Live, object_exists
  <2>5. ASSUME NEW q \in old \ {p}, queues'[q[1]][q[2]].caps[q[3]].object = o
        PROVE  ~Live(epochs', queues'[q[1]][q[2]].caps[q[3]])
    <3>1. /\ back[q] \in InFlight \ {back[p]}
          /\ queues'[q[1]][q[2]].caps[q[3]] = CapAt(back[q])
      BY DEF Kept
    <3>2. ~Live(epochs, CapAt(back[q]))
      BY <2>2, <2>5, <3>1
    <3> QED BY <2>2, <2>3, <2>5, <3>1, <3>2 DEF Live, object_exists
  <2> QED BY <2>1, <2>2, <2>4, <2>5
<1> QED BY <1>2, <1>3

\* FlightNotAhead' and MovedIsSoleAuthority', with every prime written out.
LEMMA FlightNext ==
  ASSUME \A q \in InFlight' : Behind(next_id', epochs', queues'[q[1]][q[2]].caps[q[3]]),
         \A q \in InFlight' : \A cap :
           q[3] \in queues'[q[1]][q[2]].moved /\ cap = queues'[q[1]][q[2]].caps[q[3]] =>
             /\ Live(epochs', cap)
             /\ \A o : o = cap.object => Holders(o)' = {}
             /\ \A r \in InFlight' \ {q} :
                  queues'[r[1]][r[2]].caps[r[3]].object = cap.object
                    => ~Live(epochs', queues'[r[1]][r[2]].caps[r[3]])
  PROVE  FlightNotAhead' /\ MovedIsSoleAuthority'
<1>1. FlightNotAhead'
  BY SMTT(20) DEF FlightNotAhead, NotAhead, CapAt
<1>2. MovedIsSoleAuthority'
  BY DEF MovedIsSoleAuthority, CapAt
<1> QED BY <1>1, <1>2

\* Nothing was sent and nothing received.
LEMMA SameFlight ==
  ASSUME IpcInv, KernelOK', EpochsStep, HoldersStep, InFlight' = InFlight,
         \A p \in InFlight : queues'[p[1]][p[2]] = queues[p[1]][p[2]]
  PROVE  FlightNotAhead' /\ MovedIsSoleAuthority'
<1> DEFINE back == [p \in InFlight |-> p]
<1>1. Kept(InFlight, back)
  BY DEF Kept, CapAt, IsMoved
<1>2. /\ \A p \in InFlight : Behind(next_id', epochs', queues'[p[1]][p[2]].caps[p[3]])
      /\ \A p \in InFlight : p[3] \in queues'[p[1]][p[2]].moved =>
           LET cap == queues'[p[1]][p[2]].caps[p[3]] IN
           /\ Live(epochs', cap)
           /\ Holders(CapAt(back[p]).object) = {}
           /\ cap.object = CapAt(back[p]).object
           /\ \A q \in InFlight \ {p} :
                queues'[q[1]][q[2]].caps[q[3]].object = cap.object
                  => ~Live(epochs', queues'[q[1]][q[2]].caps[q[3]])
  BY <1>1, KeptFlight
<1>3. FlightNotAhead'
  BY <1>2 DEF FlightNotAhead, NotAhead, CapAt
<1>4. ASSUME NEW p \in InFlight, p[3] \in queues'[p[1]][p[2]].moved,
             NEW o, o = queues'[p[1]][p[2]].caps[p[3]].object
      PROVE  Holders(o)' = {}
  <2>1. Holders(o) = {} /\ o \in DOMAIN epochs
    <3>1. IsMoved(p) /\ o = CapAt(p).object
      BY SMTT(20), <1>4 DEF IsMoved, CapAt
    <3> QED BY <3>1, SoleAuthority DEF IpcInv
  <2> QED BY <2>1 DEF HoldersStep
<1>5. MovedIsSoleAuthority'
  BY <1>2, <1>4 DEF MovedIsSoleAuthority, CapAt
<1> QED BY <1>3, <1>5

(***************************************************************************)
(* What one step may do to the queues, and who gains a way to an object.   *)
(***************************************************************************)

\* Queues are never dropped, and only who can use a channel touches its queue.
QueuesStep ==
  /\ DOMAIN queues \subseteq DOMAIN queues'
  /\ \A o \in DOMAIN queues : queues'[o] # queues[o] => Holders(o) # {} /\ o \in DOMAIN epochs

\* What is in flight was there before, in the same channel, or was put there by
\* someone who could use the object.
FlightStep ==
  \A q \in InFlight' : \A cap : cap = queues'[q[1]][q[2]].caps[q[3]] =>
    \/ \E r \in InFlight : r[1] = q[1] /\ CapAt(r) = cap
    \/ Live(epochs', cap) => Holders(cap.object) # {}

\* Whoever gains an object that nobody could use received it, by a channel that
\* somebody could use.
Arrives(o) ==
  \E place \in InFlight :
    /\ CapAt(place).object = o /\ Live(epochs, CapAt(place))
    /\ Holders(place[1]) # {} /\ place[1] \in DOMAIN epochs

ArrivalStep == \A o \in DOMAIN epochs : Holders(o) = {} => Holders(o)' = {} \/ Arrives(o)

IpcStep == EpochsStep /\ QueuesStep /\ FlightStep /\ ArrivalStep

(***************************************************************************)
(* The steps.                                                              *)
(***************************************************************************)

LEMMA QuietStep ==
  ASSUME IpcInv, SchedulerInv', EpochsStep, HoldersStep, UNCHANGED queues
  PROVE  IpcInv'
<1>1. KernelOK' /\ KernelOK
  BY DEF IpcInv, SchedulerInv, TypeOK, KernelOK
<1>2. InFlight' = InFlight
  BY DEF InFlight
<1>3. FlightNotAhead' /\ MovedIsSoleAuthority'
  BY <1>1, <1>2, SameFlight
<1>4. QueuesOK'
  BY <1>1 DEF IpcInv, QueuesOK, EpochsStep, KernelOK
<1> QED BY <1>3, <1>4 DEF IpcInv

LEMMA QuietIpcStep ==
  ASSUME EpochsStep, HoldersStep, UNCHANGED queues
  PROVE  IpcStep
<1>1. InFlight' = InFlight
  BY DEF InFlight
<1>2. FlightStep
  BY <1>1 DEF FlightStep, CapAt
<1>3. QueuesStep
  BY DEF QueuesStep
<1>4. ArrivalStep
  BY DEF ArrivalStep, HoldersStep
<1> QED BY <1>2, <1>3, <1>4 DEF IpcStep

\* One queue more, and nothing in it.
LEMMA NewChannelQueues ==
  ASSUME IpcInv, NEW p \in Process, NewChannel(p)
  PROVE  /\ next_id \notin DOMAIN queues
         /\ DOMAIN queues' = DOMAIN queues \union {next_id}
         /\ queues'[next_id] = <<>>
         /\ \A o \in DOMAIN queues : queues'[o] = queues[o]
         /\ InFlight' = InFlight
<1>1. /\ next_id \notin DOMAIN queues
      /\ DOMAIN queues' = DOMAIN queues \union {next_id}
      /\ queues'[next_id] = <<>>
      /\ \A o \in DOMAIN queues : queues'[o] = queues[o]
  BY DEF NewChannel, Extended, IpcInv, SchedulerInv, TypeOK, QueuesOK
<1>2. ASSUME NEW place
      PROVE  place \in InFlight' <=>
               \E o \in DOMAIN queues' : \E m \in DOMAIN queues'[o] :
                 \E k \in DOMAIN queues'[o][m].caps : place = <<o, m, k>>
  BY DEF InFlight
<1>3. DOMAIN queues'[next_id] = {}
  BY <1>1
<1>4. ASSUME NEW place
      PROVE  place \in InFlight' <=> place \in InFlight
  BY <1>1, <1>2, <1>3, Places
<1> QED BY <1>1, <1>4

LEMMA NewChannelStep ==
  ASSUME IpcInv, NEW p \in Process, NewChannel(p)
  PROVE  IpcInv' /\ EpochsStep /\ HoldersStep /\ Process' = Process
<1>1. /\ NewObject(p, ChannelRights) /\ queues' = Extended(queues, next_id, <<>>)
      /\ next_id' = next_id + 1
  BY DEF NewChannel, NewObject
<1>2. ChannelRights \in Rights
  BY DEF ChannelRights, Rights, Right
<1>3. SchedulerInv' /\ EpochsStep /\ HoldersStep /\ Process' = Process
  BY <1>1, <1>2, NewObjectStep DEF IpcInv
<1>4. KernelOK' /\ KernelOK
  BY <1>3 DEF IpcInv, SchedulerInv, TypeOK, KernelOK
<1>5. /\ next_id \notin DOMAIN queues
      /\ DOMAIN queues' = DOMAIN queues \union {next_id}
      /\ queues'[next_id] = <<>>
      /\ \A o \in DOMAIN queues : queues'[o] = queues[o]
  BY NewChannelQueues
<1>6. InFlight' = InFlight
  BY NewChannelQueues
<1>7. \A q \in InFlight : queues'[q[1]][q[2]] = queues[q[1]][q[2]]
  BY <1>5, PlaceFacts DEF IpcInv
<1>8. FlightNotAhead' /\ MovedIsSoleAuthority'
  BY <1>3, <1>4, <1>6, <1>7, SameFlight
<1>9. QueuesOK'
  <2>1. <<>> \in Seq(Message) /\ Len(<<>>) <= MaxQueue /\ DOMAIN <<>> = {}
    BY IpcAssumption
  <2>2. DOMAIN queues' \subseteq 0 .. next_id' - 1
    BY <1>1, <1>4, <1>5 DEF IpcInv, QueuesOK, KernelOK
  <2> QED BY <1>5, <2>1, <2>2 DEF IpcInv, QueuesOK
<1> QED BY <1>3, <1>8, <1>9 DEF IpcInv

LEMMA NewChannelIpcStep ==
  ASSUME IpcInv, NEW p \in Process, NewChannel(p)
  PROVE  IpcStep
<1>1. IpcInv' /\ EpochsStep /\ HoldersStep
  BY NewChannelStep
<1>2. /\ DOMAIN queues' = DOMAIN queues \union {next_id} /\ next_id \notin DOMAIN queues
      /\ queues'[next_id] = <<>> /\ \A o \in DOMAIN queues : queues'[o] = queues[o]
  BY NewChannelQueues
<1>3. FlightStep
  <2> SUFFICES ASSUME NEW q \in InFlight', NEW cap, cap = queues'[q[1]][q[2]].caps[q[3]]
               PROVE  \E r \in InFlight : r[1] = q[1] /\ CapAt(r) = cap
    BY DEF FlightStep
  <2>1. PICK o \in DOMAIN queues' : \E m \in DOMAIN queues'[o] :
               \E k \in DOMAIN queues'[o][m].caps : q = <<o, m, k>>
    BY DEF InFlight
  <2>2. o \in DOMAIN queues /\ queues'[o] = queues[o]
    BY <1>2, <2>1
  <2>3. q \in InFlight /\ CapAt(q) = cap
    BY <2>1, <2>2, Places DEF CapAt
  <2> QED BY <2>3
<1>4. QueuesStep
  BY <1>2 DEF QueuesStep
<1>5. ArrivalStep
  BY <1>1 DEF ArrivalStep, HoldersStep
<1> QED BY <1>1, <1>3, <1>4, <1>5 DEF IpcStep

\* Who may use a channel knows a capability for it that works.
LEMMA ChannelHolder ==
  ASSUME NEW p \in Process, NEW channel \in known[p], CanSend(channel) \/ CanReceive(channel)
  PROVE  /\ channel.object \in DOMAIN queues
         /\ Live(epochs, channel)
         /\ Holders(channel.object) # {}
<1>1. channel.object \in DOMAIN queues /\ Live(epochs, channel)
  <2>1. CASE CanReceive(channel)
    BY <2>1, PermitsIsLive DEF CanReceive
  <2>2. CASE CanSend(channel)
    <3>1. check(epochs, channel, {"WRITE"}) = "Ok" /\ channel.object \in DOMAIN queues
      BY <2>2 DEF CanSend, SendVerdict
    <3> QED BY <3>1, CheckVerdict
  <2> QED BY <2>1, <2>2
<1> QED BY <1>1, NoHolders

\* One message more, at the end of one queue.
LEMMA SentPlaces ==
  ASSUME QueuesOK, NEW c \in DOMAIN queues, NEW msg \in Message,
         msg.moved \subseteq DOMAIN msg.caps, Len(queues[c]) < MaxQueue,
         next_id' = next_id,
         queues' = [queues EXCEPT ![c] = Append(@, msg)]
  PROVE  /\ QueuesOK'
         /\ \A p \in InFlight : queues'[p[1]][p[2]] = queues[p[1]][p[2]]
         /\ \A p \in InFlight' : p \in InFlight
              \/ \E k \in DOMAIN msg.caps : p = <<c, Len(queues[c]) + 1, k>>
         /\ InFlight \subseteq InFlight'
         /\ queues'[c][Len(queues[c]) + 1] = msg
         /\ \A k \in DOMAIN msg.caps : <<c, Len(queues[c]) + 1, k>> \in InFlight' \ InFlight
<1> DEFINE n == Len(queues[c]) + 1
<1>1. /\ DOMAIN queues' = DOMAIN queues
      /\ \A o \in DOMAIN queues : queues'[o] = IF o = c THEN Append(queues[o], msg) ELSE queues[o]
  OBVIOUS
<1>2. /\ queues[c] \in Seq(Message) /\ Len(queues[c]) \in Nat
      /\ DOMAIN queues[c] = 1 .. n - 1
  BY DEF QueuesOK
<1>3. /\ queues'[c] \in Seq(Message) /\ Len(queues'[c]) = n /\ DOMAIN queues'[c] = 1 .. n
      /\ \A m \in 1 .. n - 1 : queues'[c][m] = queues[c][m]
      /\ queues'[c][n] = msg
  BY <1>1, <1>2
<1>4. 1 .. n = (1 .. n - 1) \union {n}
  BY <1>2
<1>5. \A o \in DOMAIN queues : \A m \in DOMAIN queues[o] :
        m \in DOMAIN queues'[o] /\ queues'[o][m] = queues[o][m]
  BY <1>1, <1>2, <1>3, <1>4
<1>6. \A o \in DOMAIN queues' : \A m \in DOMAIN queues'[o] :
        \/ o \in DOMAIN queues /\ m \in DOMAIN queues[o]
        \/ o = c /\ m = n
  BY <1>1, <1>2, <1>3, <1>4
<1>7. QueuesOK'
  <2>1. Len(queues'[c]) <= MaxQueue
    BY <1>2, <1>3, IpcAssumption
  <2> QED BY <1>1, <1>2, <1>3, <1>5, <1>6, <2>1 DEF QueuesOK
<1>8. ASSUME NEW place
      PROVE  place \in InFlight' <=>
               \E o \in DOMAIN queues' : \E m \in DOMAIN queues'[o] :
                 \E k \in DOMAIN queues'[o][m].caps : place = <<o, m, k>>
  BY DEF InFlight
<1>9. InFlight \subseteq InFlight'
  BY <1>1, <1>5, <1>8, Places
<1>10. \A p \in InFlight : queues'[p[1]][p[2]] = queues[p[1]][p[2]]
  BY <1>5, PlaceFacts
<1>11. \A p \in InFlight' : p \in InFlight \/ \E k \in DOMAIN msg.caps : p = <<c, n, k>>
  BY <1>3, <1>5, <1>6, <1>8, Places
<1>12. ASSUME NEW k \in DOMAIN msg.caps
       PROVE  <<c, n, k>> \in InFlight' \ InFlight
  <2>1. c \in DOMAIN queues' /\ n \in DOMAIN queues'[c] /\ k \in DOMAIN queues'[c][n].caps
    BY <1>1, <1>3, <1>4
  <2>2. n \notin DOMAIN queues[c]
    BY <1>2
  <2> QED BY <1>8, <2>1, <2>2, Places
<1> QED BY <1>3, <1>7, <1>9, <1>10, <1>11, <1>12

LEMMA SendStep ==
  ASSUME IpcInv, NEW p \in Process, NEW channel \in known[p], NEW grants \in Batches(p),
         Send(p, channel, grants)
  PROVE  IpcInv' /\ IpcStep
<1> DEFINE c == channel.object
           delivered == Delivered(epochs, tables[p], grants)
           msg == [caps |-> delivered, moved |-> MovedIn(grants)]
           n == Len(queues[c]) + 1
<1>1. /\ ValidBatch(epochs, tables[p], grants) /\ CanSend(channel)
      /\ epochs' = AfterBatch(epochs, tables[p], grants) /\ next_id' = next_id
      /\ tables' = [tables EXCEPT ![p] = Remaining(@, grants)]
      /\ queues' = [queues EXCEPT ![c] = Append(@, msg)] /\ Len(queues[c]) < MaxQueue
      /\ issued' = issued + Derivations(grants)
      /\ UNCHANGED <<next_process_id, next_handle, ready_queue, known>>
  BY DEF Send
<1>2. SchedulerInv /\ TypeOK /\ TablesOK /\ KernelOK /\ QueuesOK /\ MovedIsSoleAuthority
  BY TypeParts DEF IpcInv, SchedulerInv
<1>3. KernelOK' /\ EpochsStep
  BY <1>1, <1>2, BatchEpochs
<1>4. TablesOK' /\ Process' = Process
  <2>1. issued' \in Nat
    BY <1>1, <1>2, DerivationsNat DEF TablesOK
  <2> QED BY <1>1, <1>2, <2>1, RemainingTables
<1>5. KnownNotAhead' /\ HoldersStep
  BY <1>1, <1>2, <1>3, <1>4, KnownStep
<1>6. SchedulerInv'
  BY <1>3, <1>4, <1>5, TypePartsNext DEF SchedulerInv
<1>7. /\ epochs \in [DOMAIN epochs -> Nat]
      /\ tables[p] \in [DOMAIN tables[p] -> Capability(Object)]
      /\ grants \in Seq(Grants(DOMAIN tables[p]))
  BY <1>1, <1>2, BatchFacts
<1>8. delivered \in Seq(Capability(Object)) /\ DOMAIN delivered = DOMAIN grants
  BY <1>1, <1>7, DeliveredType
<1>9. /\ msg \in Message /\ msg.moved \subseteq DOMAIN msg.caps
      /\ \A k \in msg.moved : grants[k].kind = "Move"
      /\ msg.caps = delivered
  BY <1>7, <1>8 DEF Message, MovedIn
<1>10. c \in DOMAIN queues
  BY <1>1, ChannelHolder
<1>11. /\ QueuesOK'
       /\ \A q \in InFlight : queues'[q[1]][q[2]] = queues[q[1]][q[2]]
       /\ \A q \in InFlight' : q \in InFlight \/ \E k \in DOMAIN delivered : q = <<c, n, k>>
       /\ InFlight \subseteq InFlight'
       /\ queues'[c][n] = msg
  <2> HIDE DEF delivered, msg, c
  <2>1. /\ queues' = [queues EXCEPT ![c] = Append(@, msg)] /\ Len(queues[c]) < MaxQueue
        /\ next_id' = next_id
    BY <1>1
  <2>2. /\ QueuesOK'
        /\ \A q \in InFlight : queues'[q[1]][q[2]] = queues[q[1]][q[2]]
        /\ \A q \in InFlight' : q \in InFlight
             \/ \E k \in DOMAIN msg.caps : q = <<c, Len(queues[c]) + 1, k>>
        /\ InFlight \subseteq InFlight'
        /\ queues'[c][Len(queues[c]) + 1] = msg
    BY <1>2, <1>9, <1>10, <2>1, SentPlaces
  <2> QED BY <1>9, <2>2
<1>12. /\ \A q \in InFlight : Behind(next_id', epochs', queues'[q[1]][q[2]].caps[q[3]])
       /\ \A q \in InFlight : q[3] \in queues'[q[1]][q[2]].moved =>
            LET cap == queues'[q[1]][q[2]].caps[q[3]] IN
            /\ Live(epochs', cap)
            /\ Holders(cap.object) = {} /\ cap.object \in DOMAIN epochs
            /\ \A r \in InFlight \ {q} :
                 queues'[r[1]][r[2]].caps[r[3]].object = cap.object
                   => ~Live(epochs', queues'[r[1]][r[2]].caps[r[3]])
  <2> DEFINE back == [q \in InFlight |-> q]
  <2>1. Kept(InFlight, back)
    BY <1>11 DEF Kept, CapAt, IsMoved
  <2>2. \A q \in InFlight : back[q] = q
    OBVIOUS
  <2> HIDE DEF back
  <2>3. \A q \in InFlight : q[3] \in queues'[q[1]][q[2]].moved
          => CapAt(q).object \in DOMAIN epochs
    BY <1>2, <1>11, SoleAuthority DEF IsMoved
  <2>4. \A q \in InFlight : CapAt(q) = queues'[q[1]][q[2]].caps[q[3]]
    BY <1>11 DEF CapAt
  <2> QED BY ZenonT(30), <1>3, <2>1, <2>2, <2>3, <2>4, KeptFlight
\* What the batch delivers, by the facts of DeliveredCaps.
<1>13. ASSUME NEW k \in DOMAIN grants, NEW cap, cap = delivered[k]
       PROVE  /\ Behind(next_id', epochs', cap)
              /\ Live(epochs', cap) => Holders(cap.object) # {}
              /\ grants[k].kind = "Move" =>
                   /\ Live(epochs', cap)
                   /\ cap.object \in DOMAIN epochs /\ epochs'[cap.object] = epochs[cap.object] + 1
                   /\ \A j \in DOMAIN grants \ {k} : delivered[j].object # cap.object
  <2>1. cap.object \in Moved(tables[p], grants)
          => cap.object \in DOMAIN epochs /\ epochs'[cap.object] = epochs[cap.object] + 1
    BY <1>1, <1>7, AfterBatchEpochs
  <2> QED BY <1>1, <1>2, <1>13, <2>1, DeliveredCaps
<1> HIDE DEF delivered, msg, n
<1>14. \A k \in DOMAIN delivered : queues'[c][n].caps[k] = delivered[k]
  BY <1>9, <1>11
<1>15. ASSUME NEW q \in InFlight'
       PROVE  Behind(next_id', epochs', queues'[q[1]][q[2]].caps[q[3]])
  <2>1. CASE q \in InFlight
    BY <1>12, <2>1
  <2>2. CASE \E k \in DOMAIN delivered : q = <<c, n, k>>
    BY <1>8, <1>13, <1>14, <2>2
  <2> QED BY <1>11, <2>1, <2>2
<1>16. ASSUME NEW q \in InFlight', q[3] \in queues'[q[1]][q[2]].moved,
              NEW cap, cap = queues'[q[1]][q[2]].caps[q[3]],
              NEW r \in InFlight' \ {q}, NEW other, other = queues'[r[1]][r[2]].caps[r[3]],
              other.object = cap.object
       PROVE  ~Live(epochs', other)
  <2>1. CASE q \in InFlight /\ r \in InFlight
    BY ZenonT(30), <1>12, <1>16, <2>1
  <2>2. CASE q \in InFlight /\ \E k \in DOMAIN delivered : r = <<c, n, k>>
    <3>1. PICK k \in DOMAIN delivered : r = <<c, n, k>>
      BY <2>2
    <3>2. other = delivered[k]
      BY <1>14, <1>16, <3>1
    <3>3. Holders(cap.object) = {}
      BY ZenonT(30), <1>12, <1>16, <2>2
    <3>4. k \in DOMAIN grants
      BY <1>8
    <3>5. Live(epochs', other) => Holders(other.object) # {}
      BY <1>13, <3>2, <3>4
    <3>6. other.object = cap.object
      BY <1>16
    <3> QED BY <3>3, <3>5, <3>6
  <2>3. ASSUME NEW k \in DOMAIN delivered, q = <<c, n, k>>
        PROVE  ~Live(epochs', other)
    <3>1. cap = delivered[k] /\ grants[k].kind = "Move" /\ k \in DOMAIN grants
      BY <1>8, <1>9, <1>11, <1>14, <1>16, <2>3
    <3>2. /\ cap.object \in DOMAIN epochs /\ epochs'[cap.object] = epochs[cap.object] + 1
          /\ \A j \in DOMAIN grants \ {k} : delivered[j].object # cap.object
      BY <1>13, <3>1
    <3>3. CASE r \in InFlight
      <4>1. other = CapAt(r)
        BY <1>11, <1>16, <3>3 DEF CapAt
      <4>2. other \in Capability(Object) /\ NotAhead(other)
        BY <1>2, <3>3, <4>1, PlaceFacts DEF IpcInv, FlightNotAhead
      <4>3. other.epoch \in Nat /\ epochs[cap.object] \in Nat
        BY <1>7, <3>2, <4>2 DEF Capability
      <4>4. other.epoch <= epochs[cap.object]
        <5>1. other.object \in DOMAIN epochs /\ other.object = cap.object
          BY ZenonT(30), <1>16, <3>2
        <5>2. other.epoch <= epochs[other.object]
          BY <4>2, <5>1 DEF NotAhead, Behind
        <5> QED BY <5>1, <5>2
      <4>5. other.epoch # epochs'[cap.object]
        BY <3>2, <4>3, <4>4
      <4> QED BY ZenonT(30), <1>16, <4>5 DEF Live
    <3>4. CASE \E j \in DOMAIN delivered : r = <<c, n, j>>
      <4>1. PICK j \in DOMAIN delivered : r = <<c, n, j>>
        BY <3>4
      <4>2. j \in DOMAIN grants \ {k}
        <5>1. j \in DOMAIN grants
          BY <1>8
        <5>2. r # q
          BY <1>16
        <5> QED BY <2>3, <4>1, <5>1, <5>2
      <4>3. other = delivered[j]
        <5>1. r[1] = c /\ r[2] = n /\ r[3] = j
          BY <4>1
        <5> QED BY <1>14, <1>16, <5>1
      <4>4. delivered[j].object # cap.object
        BY <3>2, <4>2
      <4>5. other.object = cap.object
        BY <1>16
      <4> QED BY <4>3, <4>4, <4>5
    <3> QED BY <1>11, <3>3, <3>4
  <2> QED BY <1>11, <2>1, <2>2, <2>3
<1>17. ASSUME NEW q \in InFlight', q[3] \in queues'[q[1]][q[2]].moved,
              NEW cap, cap = queues'[q[1]][q[2]].caps[q[3]],
              NEW o, o = cap.object
       PROVE  Live(epochs', cap) /\ Holders(o)' = {}
  <2>1. CASE q \in InFlight
    <3>1. Live(epochs', cap) /\ Holders(o) = {} /\ o \in DOMAIN epochs
      BY <1>12, <1>17, <2>1
    <3> QED BY SMTT(20), <1>5, <3>1 DEF HoldersStep
  <2>2. ASSUME NEW k \in DOMAIN delivered, q = <<c, n, k>>
        PROVE  Live(epochs', cap) /\ Holders(o)' = {}
    <3>1. cap = delivered[k] /\ grants[k].kind = "Move" /\ k \in DOMAIN grants
      BY <1>8, <1>9, <1>11, <1>14, <1>17, <2>2
    <3>2. /\ Live(epochs', cap) /\ o \in DOMAIN epochs /\ epochs'[o] = epochs[o] + 1
      BY <1>13, <1>17, <3>1
    <3>3. Holders(o)' = {}
      BY <1>1, <1>2, <1>4, <3>2, RevokedForAll
    <3> QED BY <3>2, <3>3
  <2> QED BY <1>11, <2>1, <2>2
<1>18. ASSUME NEW q \in InFlight', NEW cap,
              q[3] \in queues'[q[1]][q[2]].moved, cap = queues'[q[1]][q[2]].caps[q[3]]
       PROVE  /\ Live(epochs', cap)
              /\ \A o : o = cap.object => Holders(o)' = {}
              /\ \A r \in InFlight' \ {q} :
                   queues'[r[1]][r[2]].caps[r[3]].object = cap.object
                     => ~Live(epochs', queues'[r[1]][r[2]].caps[r[3]])
  <2>1. Live(epochs', cap)
    BY <1>17, <1>18
  <2>2. ASSUME NEW o, o = cap.object
        PROVE  Holders(o)' = {}
    BY <1>17, <1>18, <2>2
  <2>3. ASSUME NEW r \in InFlight' \ {q},
               queues'[r[1]][r[2]].caps[r[3]].object = cap.object
        PROVE  ~Live(epochs', queues'[r[1]][r[2]].caps[r[3]])
    BY <1>16, <1>18, <2>3
  <2> QED BY <2>1, <2>2, <2>3
<1>19. FlightNotAhead' /\ MovedIsSoleAuthority'
  BY <1>15, <1>18, FlightNext
<1>20. FlightStep
  <2> SUFFICES ASSUME NEW q \in InFlight', NEW cap, cap = queues'[q[1]][q[2]].caps[q[3]]
               PROVE  \/ \E r \in InFlight : r[1] = q[1] /\ CapAt(r) = cap
                      \/ Live(epochs', cap) => Holders(cap.object) # {}
    BY DEF FlightStep
  <2>1. CASE q \in InFlight
    BY <1>11, <2>1 DEF CapAt
  <2>2. ASSUME NEW k \in DOMAIN delivered, q = <<c, n, k>>
        PROVE  Live(epochs', cap) => Holders(cap.object) # {}
    <3>1. cap = delivered[k] /\ k \in DOMAIN grants
      BY <1>8, <1>14, <2>2
    <3> QED BY <1>13, <3>1
  <2> QED BY <1>11, <2>1, <2>2
<1>21. QueuesStep
  <2>1. Holders(c) # {} /\ c \in DOMAIN epochs
    BY <1>1, ChannelHolder DEF Live, object_exists
  <2> HIDE DEF c
  <2> QED BY <1>1, <2>1 DEF QueuesStep
<1>22. IpcStep
  BY <1>3, <1>5, <1>20, <1>21 DEF IpcStep, ArrivalStep, HoldersStep
<1> QED BY <1>6, <1>11, <1>19, <1>22 DEF IpcInv

\* Where a place was before the front message of channel c was taken.
Behind1(c, place) == IF place[1] = c THEN <<c, place[2] + 1, place[3]>> ELSE place

LEMMA ReceivedPlaces ==
  ASSUME QueuesOK, NEW c \in DOMAIN queues, queues[c] # <<>>, next_id' = next_id,
         queues' = [queues EXCEPT ![c] = Tail(@)]
  PROVE  /\ QueuesOK'
         /\ Head(queues[c]) \in Message
         /\ \A p \in InFlight : \/ \E k \in DOMAIN Head(queues[c]).caps : p = <<c, 1, k>>
                                \/ \E q \in InFlight' : p = Behind1(c, q)
         /\ \A k \in DOMAIN Head(queues[c]).caps :
              <<c, 1, k>> \in InFlight /\ CapAt(<<c, 1, k>>) = Head(queues[c]).caps[k]
         /\ \A q \in InFlight' :
              /\ Behind1(c, q) \in InFlight
              /\ queues'[q[1]][q[2]] = queues[Behind1(c, q)[1]][Behind1(c, q)[2]]
              /\ Behind1(c, q)[3] = q[3]
              /\ q = <<q[1], q[2], q[3]>> /\ q[2] \in Nat \ {0}
<1>1. /\ DOMAIN queues' = DOMAIN queues
      /\ \A o \in DOMAIN queues : queues'[o] = IF o = c THEN Tail(queues[o]) ELSE queues[o]
  OBVIOUS
<1>2. /\ queues[c] \in Seq(Message) /\ Len(queues[c]) \in Nat \ {0}
      /\ Len(queues[c]) <= MaxQueue /\ DOMAIN queues[c] = 1 .. Len(queues[c])
  BY DEF QueuesOK
<1>3. /\ queues'[c] \in Seq(Message) /\ Len(queues'[c]) = Len(queues[c]) - 1
      /\ DOMAIN queues'[c] = 1 .. Len(queues[c]) - 1
      /\ \A m \in 1 .. Len(queues[c]) - 1 : queues'[c][m] = queues[c][m + 1]
  BY <1>1, <1>2
<1>4. Head(queues[c]) = queues[c][1] /\ 1 \in DOMAIN queues[c] /\ queues[c][1] \in Message
  BY <1>2
<1>5. QueuesOK'
  <2>1. ASSUME NEW m \in DOMAIN queues'[c]
        PROVE  queues'[c][m].moved \subseteq DOMAIN queues'[c][m].caps
    <3>1. m + 1 \in DOMAIN queues[c] /\ queues'[c][m] = queues[c][m + 1]
      BY <1>2, <1>3
    <3> QED BY <3>1 DEF QueuesOK
  <2>2. Len(queues'[c]) <= MaxQueue
    BY <1>2, <1>3, IpcAssumption
  <2> QED BY <1>1, <1>3, <2>1, <2>2 DEF QueuesOK
<1>6. ASSUME NEW k \in DOMAIN Head(queues[c]).caps
      PROVE  <<c, 1, k>> \in InFlight /\ CapAt(<<c, 1, k>>) = Head(queues[c]).caps[k]
  BY <1>4, Places DEF CapAt
<1>7. ASSUME NEW q \in InFlight'
      PROVE  /\ Behind1(c, q) \in InFlight
             /\ queues'[q[1]][q[2]] = queues[Behind1(c, q)[1]][Behind1(c, q)[2]]
             /\ Behind1(c, q)[3] = q[3]
             /\ q = <<q[1], q[2], q[3]>> /\ q[2] \in Nat \ {0}
  <2>1. PICK o \in DOMAIN queues' : \E m \in DOMAIN queues'[o] :
               \E k \in DOMAIN queues'[o][m].caps : q = <<o, m, k>>
    BY DEF InFlight
  <2>2. PICK m \in DOMAIN queues'[o] : \E k \in DOMAIN queues'[o][m].caps : q = <<o, m, k>>
    BY <2>1
  <2>3. PICK k \in DOMAIN queues'[o][m].caps : q = <<o, m, k>>
    BY <2>2
  <2>4. CASE o = c
    <3>1. m + 1 \in DOMAIN queues[c] /\ queues'[c][m] = queues[c][m + 1] /\ m \in Nat \ {0}
      BY <1>2, <1>3, <2>4
    <3>2. Behind1(c, q) = <<c, m + 1, k>> /\ k \in DOMAIN queues[c][m + 1].caps
      BY <2>3, <2>4, <3>1 DEF Behind1
    <3>3. Behind1(c, q) \in InFlight
      BY <3>1, <3>2, Places
    <3> QED BY <2>3, <2>4, <3>1, <3>2, <3>3
  <2>5. CASE o # c
    <3>1. queues'[o] = queues[o] /\ o \in DOMAIN queues /\ queues[o] \in Seq(Message)
      BY <1>1, <2>5 DEF QueuesOK
    <3>2. Behind1(c, q) = q /\ m \in Nat \ {0}
      BY <2>3, <2>5, <3>1 DEF Behind1
    <3>3. q \in InFlight
      BY <2>3, <3>1, Places
    <3> QED BY <2>3, <3>1, <3>2, <3>3
  <2> QED BY <2>4, <2>5
<1>8. ASSUME NEW p \in InFlight
      PROVE  \/ \E k \in DOMAIN Head(queues[c]).caps : p = <<c, 1, k>>
             \/ \E q \in InFlight' : p = Behind1(c, q)
  <2>1. PICK o \in DOMAIN queues : \E m \in DOMAIN queues[o] :
               \E k \in DOMAIN queues[o][m].caps : p = <<o, m, k>>
    BY Places
  <2>2. PICK m \in DOMAIN queues[o] : \E k \in DOMAIN queues[o][m].caps : p = <<o, m, k>>
    BY <2>1
  <2>3. PICK k \in DOMAIN queues[o][m].caps : p = <<o, m, k>>
    BY <2>2
  <2>5. ASSUME NEW b \in DOMAIN queues', NEW j \in DOMAIN queues'[b],
               k \in DOMAIN queues'[b][j].caps
        PROVE  <<b, j, k>> \in InFlight'
    BY <2>5 DEF InFlight
  <2>6. CASE o = c /\ m = 1
    BY <1>4, <2>3, <2>6
  <2>7. CASE o = c /\ m # 1
    <3>1. m - 1 \in DOMAIN queues'[c] /\ queues'[c][m - 1] = queues[c][m] /\ (m - 1) + 1 = m
      BY <1>2, <1>3, <2>7
    <3>2. <<c, m - 1, k>> \in InFlight'
      BY <1>1, <2>3, <2>5, <2>7, <3>1
    <3>3. Behind1(c, <<c, m - 1, k>>) = p
      BY <2>3, <2>7, <3>1 DEF Behind1
    <3> QED BY <3>2, <3>3
  <2>8. CASE o # c
    <3>1. queues'[o] = queues[o] /\ o \in DOMAIN queues'
      BY <1>1, <2>8
    <3>2. p \in InFlight'
      BY <2>3, <2>5, <3>1
    <3>3. Behind1(c, p) = p
      BY <2>3, <2>8 DEF Behind1
    <3> QED BY <3>2, <3>3
  <2> QED BY <2>6, <2>7, <2>8
<1> QED BY <1>4, <1>5, <1>6, <1>7, <1>8

\* The front message of channel c is taken, with these capabilities: what the
\* receiver gets was in flight, and nothing else changes hands.
Received(c, caps) ==
  /\ c \in DOMAIN queues /\ queues[c] # <<>>
  /\ queues' = [queues EXCEPT ![c] = Tail(@)]
  /\ UNCHANGED <<next_id, epochs>>
  /\ \A k \in DOMAIN caps : <<c, 1, k>> \in InFlight /\ CapAt(<<c, 1, k>>) = caps[k]
  /\ \A o : Holders(o) = {}
            /\ (\A k \in DOMAIN caps : caps[k].object = o => ~Live(epochs, caps[k]))
              => Holders(o)' = {}

LEMMA ReceiveFacts ==
  ASSUME IpcInv, NEW p \in Process, NEW channel \in known[p], Receive(p, channel),
         NEW c, c = channel.object, NEW caps, caps = Head(queues[c]).caps
  PROVE  /\ SchedulerInv' /\ EpochsStep /\ KernelOK' /\ Process' = Process
         /\ Live(epochs, channel)
         /\ Received(c, caps)
<1>1. /\ CanReceive(channel) /\ queues[c] # <<>>
      /\ queues' = [queues EXCEPT ![c] = Tail(@)]
      /\ tables' = [tables EXCEPT ![p] = Granted(@, next_handle[p], caps)]
      /\ next_handle' = [next_handle EXCEPT ![p] = NextHandle(@, caps)]
      /\ known' = [known EXCEPT ![p] = @ \union SetOf(caps)]
      /\ UNCHANGED <<next_id, epochs, next_process_id, ready_queue, issued>>
  BY DEF Receive
<1>2. TypeOK /\ TablesOK /\ KernelOK /\ KnownNotAhead /\ QueuesOK /\ FlightNotAhead
  BY TypeParts DEF IpcInv, SchedulerInv
<1>3. c \in DOMAIN queues /\ Live(epochs, channel)
  BY <1>1, PermitsIsLive DEF CanReceive
<1>4. KernelOK' /\ EpochsStep
  BY <1>1, <1>2, UnchangedEpochs
<1>5. /\ Head(queues[c]) \in Message
      /\ \A k \in DOMAIN caps : <<c, 1, k>> \in InFlight /\ CapAt(<<c, 1, k>>) = caps[k]
  BY <1>1, <1>2, <1>3, ReceivedPlaces
<1>6. caps \in Seq(Capability(Object))
  BY <1>5 DEF Message
<1>7. issued' \in Nat
  BY <1>1, <1>2 DEF TablesOK
<1>8. /\ TablesOK' /\ Process' = Process
      /\ \A q \in Process : known'[q] = IF q = p THEN known[q] \union SetOf(caps) ELSE known[q]
  BY <1>1, <1>2, <1>6, <1>7, GrantTables
<1>9. KnownNotAhead'
  <2> SUFFICES ASSUME NEW q \in Process, NEW cap \in known'[q]
               PROVE  Behind(next_id', epochs', cap)
    BY <1>8 DEF KnownNotAhead, NotAhead
  <2>1. CASE cap \in known[q]
    BY <1>1, <1>2, <2>1 DEF KnownNotAhead, NotAhead
  <2>2. CASE cap \in SetOf(caps)
    <3>1. PICK k \in DOMAIN caps : cap = caps[k]
      BY <2>2 DEF SetOf
    <3>2. NotAhead(cap)
      BY <1>2, <1>5, <3>1 DEF FlightNotAhead
    <3> QED BY <1>1, <3>2 DEF NotAhead
  <2> QED BY <1>8, <2>1, <2>2
<1>10. ASSUME NEW o, Holders(o) = {},
              \A k \in DOMAIN caps : caps[k].object = o => ~Live(epochs, caps[k])
       PROVE  Holders(o)' = {}
  <2>1. ASSUME NEW holder \in Holders(o)'
        PROVE  FALSE
    <3>1. PICK q \in Process : \E cap \in known'[q] : cap.object = o /\ Live(epochs', cap)
      BY <1>8 DEF Holders
    <3>2. PICK cap \in known'[q] : cap.object = o /\ Live(epochs, cap)
      BY <1>1, <3>1
    <3>3. cap \notin known[q]
      BY <1>10, <3>2, NoHolders
    <3>4. cap \in SetOf(caps)
      BY <1>8, <3>2, <3>3
    <3>5. PICK k \in DOMAIN caps : cap = caps[k]
      BY <3>4 DEF SetOf
    <3> QED BY <1>10, <3>2, <3>5
  <2> QED BY <2>1
<1>11. SchedulerInv'
  BY <1>4, <1>8, <1>9, TypePartsNext DEF SchedulerInv
<1>12. Received(c, caps)
  BY <1>1, <1>3, <1>5, <1>10 DEF Received
<1> QED BY <1>3, <1>4, <1>8, <1>11, <1>12

LEMMA ReceiveStep ==
  ASSUME IpcInv, NEW p \in Process, NEW channel \in known[p], Receive(p, channel)
  PROVE  IpcInv' /\ IpcStep
<1> DEFINE back == [q \in InFlight' |-> Behind1(channel.object, q)]
<1>1. PICK c : c = channel.object
  OBVIOUS
<1>2. PICK caps : caps = Head(queues[c]).caps
  OBVIOUS
<1>3. /\ SchedulerInv' /\ EpochsStep /\ KernelOK' /\ Received(c, caps)
      /\ Live(epochs, channel)
  BY <1>1, <1>2, ReceiveFacts
<1>4. /\ QueuesOK'
      /\ \A q \in InFlight' :
           /\ Behind1(c, q) \in InFlight
           /\ queues'[q[1]][q[2]] = queues[Behind1(c, q)[1]][Behind1(c, q)[2]]
           /\ Behind1(c, q)[3] = q[3]
           /\ q = <<q[1], q[2], q[3]>> /\ q[2] \in Nat \ {0}
  BY <1>3, ReceivedPlaces DEF IpcInv, Received
<1>5. \A q \in InFlight' : back[q] = Behind1(c, q)
  BY <1>1
<1>6. Kept(InFlight', back)
  <2>1. back \in [InFlight' -> InFlight]
    BY <1>1, <1>4
  <2>2. ASSUME NEW q \in InFlight', NEW r \in InFlight', q # r
        PROVE  back[q] # back[r]
    <3>1. /\ q = <<q[1], q[2], q[3]>> /\ r = <<r[1], r[2], r[3]>>
          /\ q[2] \in Nat /\ r[2] \in Nat
      BY <1>4
    <3>2. back[q] = Behind1(c, q) /\ back[r] = Behind1(c, r)
      BY <1>5
    <3>3. CASE q[1] = c /\ r[1] = c
      BY <2>2, <3>1, <3>2, <3>3 DEF Behind1
    <3>4. CASE q[1] = c /\ r[1] # c
      <4>1. back[q][1] = c /\ back[r][1] # c
        BY <3>2, <3>4 DEF Behind1
      <4> QED BY <4>1
    <3>5. CASE q[1] # c /\ r[1] = c
      <4>1. back[q][1] # c /\ back[r][1] = c
        BY <3>2, <3>5 DEF Behind1
      <4> QED BY <4>1
    <3>6. CASE q[1] # c /\ r[1] # c
      BY <2>2, <3>2, <3>6 DEF Behind1
    <3> QED BY <3>3, <3>4, <3>5, <3>6
  <2>3. ASSUME NEW q \in InFlight'
        PROVE  /\ queues'[q[1]][q[2]].caps[q[3]] = CapAt(back[q])
               /\ q[3] \in queues'[q[1]][q[2]].moved <=> IsMoved(back[q])
    BY SMTT(20), <1>4, <1>5 DEF CapAt, IsMoved
  <2> HIDE DEF back
  <2> QED BY <2>1, <2>2, <2>3 DEF Kept
<1> HIDE DEF back
<1>7. /\ \A q \in InFlight' : Behind(next_id', epochs', queues'[q[1]][q[2]].caps[q[3]])
      /\ \A q \in InFlight' : q[3] \in queues'[q[1]][q[2]].moved =>
           LET cap == queues'[q[1]][q[2]].caps[q[3]] IN
           /\ Live(epochs', cap)
           /\ Holders(CapAt(back[q]).object) = {}
           /\ cap.object = CapAt(back[q]).object
           /\ \A r \in InFlight' \ {q} :
                queues'[r[1]][r[2]].caps[r[3]].object = cap.object
                  => ~Live(epochs', queues'[r[1]][r[2]].caps[r[3]])
  BY <1>3, <1>6, KeptFlight
<1>8. ASSUME NEW q \in InFlight', NEW o,
             q[3] \in queues'[q[1]][q[2]].moved, o = queues'[q[1]][q[2]].caps[q[3]].object
      PROVE  Holders(o)' = {}
  <2>1. /\ back[q] \in InFlight /\ IsMoved(back[q]) /\ o = CapAt(back[q]).object
    BY <1>6, <1>8 DEF Kept
  <2>2. /\ Holders(o) = {}
        /\ \A other \in InFlight \ {back[q]} :
             CapAt(other).object = o => ~Live(epochs, CapAt(other))
    BY <2>1, SoleAuthority DEF IpcInv
  <2>3. ASSUME NEW k \in DOMAIN caps, caps[k].object = o
        PROVE  ~Live(epochs, caps[k])
    <3>1. <<c, 1, k>> # back[q]
      <4>1. back[q] = Behind1(c, q) /\ q[2] \in Nat \ {0}
        BY <1>4, <1>5
      <4>2. q[1] = c => back[q][2] # 1
        BY <4>1 DEF Behind1
      <4>3. q[1] # c => back[q][1] # c
        BY <4>1 DEF Behind1
      <4>4. <<c, 1, k>>[1] = c /\ <<c, 1, k>>[2] = 1
        OBVIOUS
      <4> QED BY <4>2, <4>3, <4>4
    <3> QED BY <1>3, <2>2, <2>3, <3>1 DEF Received
  <2> QED BY <1>3, <2>2, <2>3 DEF Received
<1>9. FlightNotAhead' /\ MovedIsSoleAuthority'
  <2>1. ASSUME NEW q \in InFlight', NEW cap,
               q[3] \in queues'[q[1]][q[2]].moved, cap = queues'[q[1]][q[2]].caps[q[3]]
        PROVE  /\ Live(epochs', cap)
               /\ \A o : o = cap.object => Holders(o)' = {}
               /\ \A r \in InFlight' \ {q} :
                    queues'[r[1]][r[2]].caps[r[3]].object = cap.object
                      => ~Live(epochs', queues'[r[1]][r[2]].caps[r[3]])
    <3>1. \A o : o = cap.object => Holders(o)' = {}
      BY <1>8, <2>1
    <3> QED BY <1>7, <2>1, <3>1
  <2> QED BY <1>7, <2>1, FlightNext
<1>10. Holders(c) # {} /\ c \in DOMAIN epochs
  BY <1>1, <1>3, NoHolders DEF Live, object_exists
<1>11. QueuesStep
  BY <1>3, <1>10 DEF QueuesStep, Received
<1>12. FlightStep
  <2>1. ASSUME NEW q \in InFlight', NEW cap, cap = queues'[q[1]][q[2]].caps[q[3]]
        PROVE  \E r \in InFlight : r[1] = q[1] /\ CapAt(r) = cap
    <3>1. Behind1(c, q) \in InFlight /\ CapAt(Behind1(c, q)) = cap
      BY <1>4, <2>1 DEF CapAt
    <3>2. Behind1(c, q)[1] = q[1]
      BY DEF Behind1
    <3> QED BY <3>1, <3>2
  <2> QED BY <2>1 DEF FlightStep
<1>13. ArrivalStep
  <2> SUFFICES ASSUME NEW o \in DOMAIN epochs, Holders(o) = {}, ~Arrives(o)
               PROVE  Holders(o)' = {}
    BY DEF ArrivalStep
  <2>1. ASSUME NEW k \in DOMAIN caps, caps[k].object = o
        PROVE  ~Live(epochs, caps[k])
    <3>1. PICK place : place = <<c, 1, k>>
      OBVIOUS
    <3>2. place \in InFlight /\ CapAt(place) = caps[k] /\ place[1] = c
      BY <1>3, <3>1 DEF Received
    <3> QED BY <1>10, <2>1, <3>2 DEF Arrives
  <2> QED BY <1>3, <2>1 DEF Received
<1>14. IpcStep
  BY <1>3, <1>11, <1>12, <1>13 DEF IpcStep
<1> QED BY <1>3, <1>4, <1>9, <1>14 DEF IpcInv

LEMMA IpcNextStep == ASSUME IpcInv, IpcNext PROVE IpcInv' /\ IpcStep
<1>1. ASSUME Calls, UNCHANGED queues
      PROVE  IpcInv' /\ IpcStep
  <2>1. SchedulerInv' /\ EpochsStep /\ HoldersStep
    BY <1>1, CallsStep DEF IpcInv
  <2> QED BY <1>1, <2>1, QuietStep, QuietIpcStep
<1>2. ASSUME NEW p \in Process, NewChannel(p)
      PROVE  IpcInv' /\ IpcStep
  BY <1>2, NewChannelStep, NewChannelIpcStep
<1>3. ASSUME NEW p \in Process, NEW channel \in known[p], NEW grants \in Batches(p),
             Send(p, channel, grants)
      PROVE  IpcInv' /\ IpcStep
  BY <1>3, SendStep
<1>4. ASSUME NEW p \in Process, NEW channel \in known[p], Receive(p, channel)
      PROVE  IpcInv' /\ IpcStep
  BY <1>4, ReceiveStep
<1> QED BY <1>1, <1>2, <1>3, <1>4 DEF IpcNext

LEMMA IpcStutter == ASSUME IpcInv, UNCHANGED ipcVars PROVE IpcInv'
<1>1. /\ UNCHANGED <<next_id, epochs, next_process_id, tables, next_handle, ready_queue, known>>
      /\ UNCHANGED <<issued, queues>>
  BY DEF ipcVars, vars
<1>2. TypeOK' /\ KnownNotAhead'
  BY <1>1 DEF IpcInv, SchedulerInv, TypeOK, KnownNotAhead, NotAhead, Process
<1>3. QueuesOK'
  BY <1>1 DEF IpcInv, QueuesOK
<1>4. InFlight' = InFlight
  BY <1>1 DEF InFlight
<1>5. FlightNotAhead'
  BY <1>1, <1>4 DEF IpcInv, FlightNotAhead, NotAhead, CapAt
<1>6. ASSUME NEW o, Holders(o) = {}
      PROVE  Holders(o)' = {}
  BY SMTT(20), <1>1, <1>6 DEF Holders, Process
<1>7. MovedIsSoleAuthority'
  BY <1>1, <1>4, <1>6 DEF IpcInv, MovedIsSoleAuthority, CapAt
<1> QED BY <1>2, <1>3, <1>5, <1>7 DEF IpcInv, SchedulerInv

LEMMA IpcInvAlways == IpcSpec => []IpcInv
<1>1. IpcInv /\ [IpcNext]_ipcVars => IpcInv'
  BY IpcNextStep, IpcStutter
<1> QED BY <1>1, InitIpcInv, PTL DEF IpcSpec

\* From `send` to `receive`, a moved capability is the only one for its object
\* that works, whatever is spawned, sent, revoked or destroyed meanwhile.
THEOREM NothingElseWorksInFlight == IpcSpec => []MovedIsSoleAuthority
<1>1. IpcInv => MovedIsSoleAuthority
  BY DEF IpcInv
<1> QED BY <1>1, IpcInvAlways, PTL

(***************************************************************************)
(* Islands.                                                                *)
(***************************************************************************)

LEMMA IslandStep ==
  ASSUME IpcInv, IpcStep, NEW I \in Islands
  PROVE  I \in Islands' /\ \A ch \in I : queues'[ch] = queues[ch]
<1>1. /\ I \subseteq DOMAIN queues
      /\ \A ch \in I :
           \/ ch \notin DOMAIN epochs
           \/ /\ Holders(ch) = {}
              /\ \A place \in InFlight :
                   CapAt(place).object = ch /\ Live(epochs, CapAt(place)) => place[1] \in I
  BY DEF Islands
<1>2. /\ DOMAIN queues \subseteq DOMAIN queues'
      /\ \A ch \in I : queues'[ch] = queues[ch]
  BY <1>1 DEF IpcStep, QueuesStep
<1>3. ASSUME NEW ch \in I, ch \in DOMAIN epochs'
      PROVE  ch \in DOMAIN epochs
  BY <1>1, <1>3 DEF IpcInv, SchedulerInv, TypeOK, QueuesOK, IpcStep, EpochsStep
<1>4. ASSUME NEW ch \in I, ch \in DOMAIN epochs'
      PROVE  Holders(ch)' = {}
  <2>1. ch \in DOMAIN epochs /\ Holders(ch) = {}
    BY <1>1, <1>3, <1>4
  <2>2. ~Arrives(ch)
    BY SMTT(20), <1>1, <2>1 DEF Arrives
  <2> QED BY <2>1, <2>2 DEF IpcStep, ArrivalStep
<1>5. ASSUME NEW ch \in I, ch \in DOMAIN epochs', NEW q \in InFlight',
             NEW cap, cap = queues'[q[1]][q[2]].caps[q[3]],
             cap.object = ch, Live(epochs', cap)
      PROVE  q[1] \in I
  <2>1. ch \in DOMAIN epochs /\ Holders(ch) = {} /\ epochs'[ch] = epochs[ch]
    BY SMTT(20), <1>1, <1>3, <1>5 DEF IpcStep, EpochsStep
  <2>2. PICK r \in InFlight : r[1] = q[1] /\ CapAt(r) = cap
    BY SMTT(20), <1>5, <2>1 DEF IpcStep, FlightStep
  <2>3. Live(epochs, CapAt(r))
    BY <1>5, <2>1, <2>2 DEF Live, object_exists
  <2> QED BY <1>1, <1>5, <2>1, <2>2, <2>3
<1>6. I \in Islands'
  <2>1. ASSUME NEW ch \in I, ch \in DOMAIN epochs'
        PROVE  \A q \in InFlight' :
                 queues'[q[1]][q[2]].caps[q[3]].object = ch
                   /\ Live(epochs', queues'[q[1]][q[2]].caps[q[3]]) => q[1] \in I
    BY <1>5, <2>1
  <2> QED BY <1>1, <1>2, <1>4, <2>1 DEF Islands, CapAt
<1> QED BY <1>2, <1>6

\* What is lost with a channel stays lost: out of everyone's reach once, its queue
\* is out of everyone's reach for ever, and never touched again.
THEOREM LostChannelsStayLost == IpcSpec => StrandedForever
<1>1. ASSUME IpcInv, [IpcNext]_ipcVars
      PROVE  [\A I \in Islands : I \in Islands' /\ \A ch \in I : queues'[ch] = queues[ch]]_ipcVars
  BY <1>1, IpcNextStep, IslandStep
<1> QED BY <1>1, IpcInvAlways, PTL DEF IpcSpec, StrandedForever

(***************************************************************************)
(* Every entry issued is in one table or in one message.                   *)
(***************************************************************************)

Ledger ==
  /\ HandlesInv
  /\ IsFiniteSet(Entries) /\ IsFiniteSet(InFlight)
  /\ issued = Cardinality(Entries) + Cardinality(InFlight)

\* The places of a message of n capabilities.
PlacesOf(c, m, n) == {<<c, m, k>> : k \in 1 .. n}

LEMMA CountPlaces ==
  ASSUME NEW S, IsFiniteSet(S), NEW c, NEW m, NEW n \in Nat, S \cap PlacesOf(c, m, n) = {}
  PROVE  /\ IsFiniteSet(S \union PlacesOf(c, m, n))
         /\ Cardinality(S \union PlacesOf(c, m, n)) = Cardinality(S) + n
<1> DEFINE place == [k \in 1 .. n |-> <<c, m, k>>]
<1>1. IsFiniteSet(1 .. n) /\ Cardinality(1 .. n) = n
  BY FS_Interval
<1>2. place \in Bijection(1 .. n, PlacesOf(c, m, n))
  BY DEF PlacesOf, Bijection, Injection, Surjection, IsInjective
<1>3. ExistsBijection(1 .. n, PlacesOf(c, m, n))
  <2> HIDE DEF place
  <2> QED BY <1>2 DEF ExistsBijection
<1>4. IsFiniteSet(PlacesOf(c, m, n)) /\ Cardinality(PlacesOf(c, m, n)) = n
  BY <1>1, <1>3, FS_Bijection
<1>5. /\ IsFiniteSet(S \union PlacesOf(c, m, n))
      /\ Cardinality(S \union PlacesOf(c, m, n))
           = Cardinality(S) + n - Cardinality(S \cap PlacesOf(c, m, n))
  BY <1>4, FS_Union
<1>6. Cardinality(S) \in Nat /\ Cardinality(S \cap PlacesOf(c, m, n)) = 0
  BY FS_CardinalityType, FS_EmptySet
<1> QED BY <1>5, <1>6

LEMMA InitLedger == IpcInit => Ledger
<1> SUFFICES ASSUME IpcInit PROVE Ledger
  OBVIOUS
<1>1. Process = {} /\ DOMAIN queues = {} /\ issued = 0
  BY DEF IpcInit, Init, Empty, Process
<1>2. Entries = {} /\ InFlight = {} /\ HandlesInv
  BY <1>1 DEF Entries, EntriesOf, InFlight, HandlesInv
<1> QED BY <1>1, <1>2, FS_EmptySet DEF Ledger

\* Nothing was sent and nothing received.
LEMMA QuietLedger ==
  ASSUME IpcInv, Ledger, EntriesStep, InFlight' = InFlight
  PROVE  Ledger'
<1>1. /\ Cardinality(Entries) \in Nat /\ Cardinality(InFlight) \in Nat
      /\ IsFiniteSet(InFlight') /\ Cardinality(InFlight') = Cardinality(InFlight)
  BY FS_CardinalityType DEF Ledger
<1>2. /\ Cardinality(Entries') \in Nat /\ issued' \in Nat
      /\ Cardinality(Entries') + issued = Cardinality(Entries) + issued'
  BY FS_CardinalityType DEF EntriesStep
<1>3. issued' = Cardinality(Entries') + Cardinality(InFlight')
  BY <1>1, <1>2 DEF Ledger
<1> QED BY <1>1, <1>3 DEF Ledger, EntriesStep

LEMMA SendLedger ==
  ASSUME IpcInv, Ledger, NEW p \in Process, NEW channel \in known[p],
         NEW grants \in Batches(p), Send(p, channel, grants)
  PROVE  Ledger' /\ KeepsEntries
<1>1. PICK c : c = channel.object
  OBVIOUS
<1>2. PICK caps : caps = Delivered(epochs, tables[p], grants)
  OBVIOUS
<1>3. PICK msg : msg = [caps |-> caps, moved |-> MovedIn(grants)]
  OBVIOUS
<1>4. PICK n : n = Len(queues[c]) + 1
  OBVIOUS
<1>5. PICK rest : rest = [tables EXCEPT ![p] = Remaining(@, grants)]
  OBVIOUS
<1>6. /\ ValidBatch(epochs, tables[p], grants) /\ CanSend(channel)
      /\ next_id' = next_id /\ next_handle' = next_handle
      /\ tables' = rest
      /\ queues' = [queues EXCEPT ![c] = Append(@, msg)] /\ Len(queues[c]) < MaxQueue
      /\ issued' = issued + Derivations(grants)
  BY <1>1, <1>2, <1>3, <1>5 DEF Send
<1>7. TypeOK /\ QueuesOK
  BY DEF IpcInv, SchedulerInv
<1>8. /\ epochs \in [DOMAIN epochs -> Nat]
      /\ tables[p] \in [DOMAIN tables[p] -> Capability(Object)]
      /\ grants \in Seq(Grants(DOMAIN tables[p]))
  BY <1>6, <1>7, BatchFacts
<1>9. caps \in Seq(Capability(Object)) /\ DOMAIN caps = 1 .. Len(grants) /\ Len(grants) \in Nat
  BY <1>2, <1>6, <1>8, DeliveredType
<1>10. msg \in Message /\ msg.moved \subseteq DOMAIN msg.caps /\ msg.caps = caps
  BY <1>3, <1>8, <1>9 DEF Message, MovedIn
<1>11. c \in DOMAIN queues
  BY <1>1, <1>6, ChannelHolder
<1>12. /\ \A q \in InFlight' : q \in InFlight \/ \E k \in DOMAIN msg.caps : q = <<c, n, k>>
       /\ InFlight \subseteq InFlight'
       /\ \A k \in DOMAIN msg.caps : <<c, n, k>> \in InFlight' \ InFlight
  <2>1. /\ \A q \in InFlight' : q \in InFlight
             \/ \E k \in DOMAIN msg.caps : q = <<c, Len(queues[c]) + 1, k>>
        /\ InFlight \subseteq InFlight'
        /\ \A k \in DOMAIN msg.caps : <<c, Len(queues[c]) + 1, k>> \in InFlight' \ InFlight
    BY <1>6, <1>7, <1>10, <1>11, SentPlaces
  <2> QED BY <1>4, <2>1
<1>13. /\ InFlight' = InFlight \union PlacesOf(c, n, Len(grants))
       /\ InFlight \cap PlacesOf(c, n, Len(grants)) = {}
  BY <1>9, <1>10, <1>12 DEF PlacesOf
<1>14. /\ IsFiniteSet(InFlight') /\ Cardinality(InFlight') = Cardinality(InFlight) + Len(grants)
  BY <1>9, <1>13, CountPlaces DEF Ledger
<1>15. /\ Shrunk(rest)
       /\ EntriesOf(rest) = Entries \ Left(p, grants)
       /\ Left(p, grants) \subseteq Entries
  BY <1>5, <1>6, <1>7, RemainingEntries
<1>16. Process' = Process /\ Entries' = Entries \ Left(p, grants)
  BY <1>6, <1>15 DEF Shrunk, Process, Entries, EntriesOf
<1>17. /\ IsFiniteSet(Entries')
       /\ Cardinality(Entries') + Len(grants) = Cardinality(Entries) + Derivations(grants)
  <2>1. grants \in Seq(SetOf(grants)) /\ NoDuplicateTransfer(grants)
    BY <1>6, <1>8, SetOfSeq DEF ValidBatch
  <2> QED BY <1>15, <1>16, <2>1, CountLeft DEF Ledger
<1>18. HandlesInv' /\ KeepsEntries
  BY <1>6, <1>15, <1>16 DEF Ledger, HandlesInv, KeepsEntries, Shrunk
<1>19. /\ Cardinality(Entries) \in Nat /\ Cardinality(Entries') \in Nat
       /\ Cardinality(InFlight) \in Nat /\ Derivations(grants) \in Nat
  BY <1>17, FS_CardinalityType, DerivationsNat DEF Ledger
<1>20. issued' = Cardinality(Entries') + Cardinality(InFlight')
  <2>1. /\ issued = Cardinality(Entries) + Cardinality(InFlight)
        /\ issued' = issued + Derivations(grants)
    BY <1>6 DEF Ledger
  <2>2. Cardinality(InFlight') = Cardinality(InFlight) + Len(grants)
    BY <1>14
  <2>3. Cardinality(Entries') + Len(grants) = Cardinality(Entries) + Derivations(grants)
    BY <1>17
  <2>4. Len(grants) \in Nat
    BY <1>9
  <2> QED BY SMTT(20), <1>19, <2>1, <2>2, <2>3, <2>4
<1> QED BY <1>14, <1>17, <1>18, <1>20 DEF Ledger

\* Taking the front message moves every other place one forward.
LEMMA CountReceived ==
  ASSUME QueuesOK, IsFiniteSet(InFlight), NEW c, NEW caps, Received(c, caps),
         caps = Head(queues[c]).caps
  PROVE  /\ IsFiniteSet(InFlight') /\ Len(caps) \in Nat
         /\ Cardinality(InFlight') + Len(caps) = Cardinality(InFlight)
<1> DEFINE old == {Behind1(c, q) : q \in InFlight'}
           back == [q \in InFlight' |-> Behind1(c, q)]
<1>1. /\ Head(queues[c]) \in Message
      /\ \A p \in InFlight : \/ \E k \in DOMAIN caps : p = <<c, 1, k>>
                             \/ \E q \in InFlight' : p = Behind1(c, q)
      /\ \A q \in InFlight' : /\ Behind1(c, q) \in InFlight
                              /\ q = <<q[1], q[2], q[3]>> /\ q[2] \in Nat \ {0}
  BY ReceivedPlaces DEF Received
<1>2. caps \in Seq(Capability(Object)) /\ Len(caps) \in Nat /\ DOMAIN caps = 1 .. Len(caps)
  BY <1>1 DEF Message
<1>3. \A q \in InFlight' : \A k : Behind1(c, q) # <<c, 1, k>>
  <2> SUFFICES ASSUME NEW q \in InFlight', NEW k PROVE Behind1(c, q) # <<c, 1, k>>
    OBVIOUS
  <2>1. q[2] \in Nat \ {0}
    BY <1>1
  <2>2. CASE q[1] = c
    <3>1. Behind1(c, q)[2] # 1
      BY <2>1, <2>2 DEF Behind1
    <3> QED BY <3>1
  <2>3. CASE q[1] # c
    <3>1. Behind1(c, q)[1] # c
      BY <2>3 DEF Behind1
    <3> QED BY <3>1
  <2> QED BY <2>2, <2>3
<1>4. InFlight = old \union PlacesOf(c, 1, Len(caps)) /\ old \cap PlacesOf(c, 1, Len(caps)) = {}
  <2>1. PlacesOf(c, 1, Len(caps)) \subseteq InFlight
    BY <1>2 DEF PlacesOf, Received
  <2>2. old \subseteq InFlight
    BY <1>1
  <2>3. InFlight \subseteq old \union PlacesOf(c, 1, Len(caps))
    BY <1>1, <1>2 DEF PlacesOf
  <2>4. old \cap PlacesOf(c, 1, Len(caps)) = {}
    BY <1>3 DEF PlacesOf
  <2> QED BY <2>1, <2>2, <2>3, <2>4
<1>5. back \in Bijection(InFlight', old)
  <2>1. ASSUME NEW q \in InFlight', NEW r \in InFlight', back[q] = back[r]
        PROVE  q = r
    <3>1. /\ q = <<q[1], q[2], q[3]>> /\ r = <<r[1], r[2], r[3]>>
          /\ q[2] \in Nat /\ r[2] \in Nat
      BY <1>1
    <3>2. Behind1(c, q) = Behind1(c, r)
      BY <2>1
    <3>3. CASE q[1] = c /\ r[1] = c
      BY <3>1, <3>2, <3>3 DEF Behind1
    <3>4. CASE q[1] = c /\ r[1] # c
      <4>1. Behind1(c, q)[1] = c /\ Behind1(c, r)[1] # c
        BY <3>4 DEF Behind1
      <4> QED BY <3>2, <4>1
    <3>5. CASE q[1] # c /\ r[1] = c
      <4>1. Behind1(c, q)[1] # c /\ Behind1(c, r)[1] = c
        BY <3>5 DEF Behind1
      <4> QED BY <3>2, <4>1
    <3>6. CASE q[1] # c /\ r[1] # c
      BY <3>2, <3>6 DEF Behind1
    <3> QED BY <3>3, <3>4, <3>5, <3>6
  <2>2. back \in [InFlight' -> old] /\ \A p \in old : \E q \in InFlight' : back[q] = p
    OBVIOUS
  <2> HIDE DEF back, old
  <2>3. DOMAIN back = InFlight'
    BY <2>2
  <2> QED BY <2>1, <2>2, <2>3 DEF Bijection, Injection, Surjection, IsInjective
<1> HIDE DEF back, old
<1>6. IsFiniteSet(old)
  BY <1>4, FS_Subset
<1>7. Cardinality(InFlight) = Cardinality(old) + Len(caps)
  BY <1>2, <1>4, <1>6, CountPlaces
<1>8. IsFiniteSet(InFlight') /\ Cardinality(InFlight') = Cardinality(old)
  <2>1. ExistsBijection(InFlight', old)
    BY <1>5 DEF ExistsBijection
  <2>2. ExistsBijection(old, InFlight')
    BY <2>1, Fun_ExistsBijSymmetric
  <2> QED BY <1>6, <2>2, FS_Bijection
<1> QED BY <1>2, <1>7, <1>8

LEMMA ReceiveLedger ==
  ASSUME HandlesDoNotWrap, IpcInv, Ledger, NEW p \in Process, NEW channel \in known[p],
         Receive(p, channel)
  PROVE  Ledger' /\ KeepsEntries
<1>1. PICK c : c = channel.object
  OBVIOUS
<1>2. PICK caps : caps = Head(queues[c]).caps
  OBVIOUS
<1>3. Received(c, caps) /\ TablesOK /\ QueuesOK
  BY <1>1, <1>2, ReceiveFacts, TypeParts DEF IpcInv, SchedulerInv
<1>4. /\ HasRoom(next_handle[p], Len(caps))
      /\ tables' = [tables EXCEPT ![p] = Granted(@, next_handle[p], caps)]
      /\ next_handle' = [next_handle EXCEPT ![p] = NextHandle(@, caps)]
      /\ issued' = issued
  BY <1>1, <1>2 DEF Receive
<1>5. caps \in Seq(Capability(Object))
  <2>1. Head(queues[c]) \in Message
    BY <1>3, ReceivedPlaces DEF Received
  <2> QED BY <1>2, <2>1 DEF Message
<1>6. /\ HandlesInv' /\ KeepsEntries
      /\ Entries' = Entries \union Fresh(p, next_handle[p], Len(caps))
      /\ Entries \cap Fresh(p, next_handle[p], Len(caps)) = {}
  BY <1>3, <1>4, <1>5, GrantEntries DEF Ledger
<1>7. /\ IsFiniteSet(InFlight') /\ Len(caps) \in Nat
      /\ Cardinality(InFlight') + Len(caps) = Cardinality(InFlight)
  BY <1>2, <1>3, CountReceived DEF Ledger
<1>8. next_handle[p] \in Nat
  BY <1>3, ProcessAssumption DEF TablesOK
<1>9. IsFiniteSet(Entries') /\ Cardinality(Entries') = Cardinality(Entries) + Len(caps)
  BY <1>6, <1>7, <1>8, CountFresh DEF Ledger
<1>10. Cardinality(InFlight') \in Nat /\ Cardinality(Entries) \in Nat
  BY <1>7, FS_CardinalityType DEF Ledger
<1> QED BY <1>4, <1>6, <1>7, <1>9, <1>10 DEF Ledger

LEMMA LedgerStep ==
  ASSUME HandlesDoNotWrap, IpcInv, Ledger, IpcNext
  PROVE  Ledger' /\ KeepsEntries
<1>1. ASSUME Calls, UNCHANGED queues
      PROVE  Ledger' /\ KeepsEntries
  <2>1. EntriesStep
    BY <1>1, CallsEntries DEF IpcInv, Ledger
  <2>2. InFlight' = InFlight
    BY <1>1 DEF InFlight
  <2> QED BY <2>1, <2>2, QuietLedger DEF EntriesStep
<1>2. ASSUME NEW p \in Process, NewChannel(p)
      PROVE  Ledger' /\ KeepsEntries
  <2>1. NewObject(p, ChannelRights) /\ ChannelRights \in Rights
    BY <1>2 DEF NewChannel, ChannelRights, Rights, Right
  <2>2. EntriesStep
    <3>1. PICK cap : Install(p, cap)
      BY <2>1 DEF NewObject
    <3> QED BY <3>1, InstallEntries DEF IpcInv, Ledger
  <2>3. InFlight' = InFlight
    BY <1>2, NewChannelQueues
  <2> QED BY <2>2, <2>3, QuietLedger DEF EntriesStep
<1>3. ASSUME NEW p \in Process, NEW channel \in known[p], NEW grants \in Batches(p),
             Send(p, channel, grants)
      PROVE  Ledger' /\ KeepsEntries
  BY <1>3, SendLedger
<1>4. ASSUME NEW p \in Process, NEW channel \in known[p], Receive(p, channel)
      PROVE  Ledger' /\ KeepsEntries
  BY <1>4, ReceiveLedger
<1> QED BY <1>1, <1>2, <1>3, <1>4 DEF IpcNext

LEMMA LedgerAlways ==
  ASSUME HandlesDoNotWrap
  PROVE  IpcSpec => [](IpcInv /\ Ledger)
<1>1. ASSUME Ledger, UNCHANGED ipcVars
      PROVE  Ledger'
  <2>1. UNCHANGED <<tables, next_handle, issued, queues>>
    BY <1>1 DEF ipcVars, vars
  <2>2. Entries' = Entries /\ InFlight' = InFlight /\ HandlesInv'
    BY <1>1, <2>1 DEF Entries, EntriesOf, Process, InFlight, Ledger, HandlesInv
  <2> QED BY <1>1, <2>1, <2>2 DEF Ledger
<1>2. (IpcInv /\ Ledger) /\ [IpcNext]_ipcVars => (IpcInv /\ Ledger)'
  BY <1>1, IpcNextStep, IpcStutter, LedgerStep
<1> QED BY <1>2, InitIpcInv, InitLedger, PTL DEF IpcSpec

\* No entry is lost and none is duplicated on its way from one table through a
\* message to another, as long as no process's handle counter wraps (2^32 grants
\* to one process).
THEOREM EntriesAddUp ==
  ASSUME HandlesDoNotWrap
  PROVE  IpcSpec => []EntriesAreConserved
<1>1. Ledger => EntriesAreConserved
  BY DEF Ledger, EntriesAreConserved, Entries, EntriesOf
<1> QED BY <1>1, LedgerAlways, PTL

\* What goes wrong without that assumption is the run handle_wrap; with it, a
\* handle means the same capability for as long as the process has it.
THEOREM HandlesStayFresh ==
  ASSUME HandlesDoNotWrap
  PROVE  IpcSpec => HandlesAreFresh
<1>1. ASSUME IpcInv, Ledger, [IpcNext]_ipcVars
      PROVE  [\A p \in Process : Cardinality(DOMAIN tables[p]) < HandleSpace =>
                \A h \in DOMAIN tables[p] \cap DOMAIN tables'[p] :
                  tables'[p][h] = tables[p][h]]_vars
  BY <1>1, LedgerStep DEF KeepsEntries, ipcVars
<1> QED BY <1>1, LedgerAlways, PTL DEF IpcSpec, HandlesAreFresh

(***************************************************************************)
(* Regions: the inductive invariant.                                       *)
(***************************************************************************)

RegionsOK ==
  /\ DOMAIN regions \subseteq DOMAIN allocated
  /\ DOMAIN allocated \subseteq 0 .. next_id - 1
  /\ \A o \in DOMAIN allocated : allocated[o] \in RegionSizes
  /\ \A o \in DOMAIN regions : regions[o] \in [0 .. allocated[o] - 1 -> Byte]

MemoryInv == IpcInv /\ RegionsOK /\ LiveRegionsKeepTheirBytes

\* A region's size is the number its creator asked for.
LEMMA RegionSize ==
  ASSUME RegionsOK, NEW o \in DOMAIN regions
  PROVE  allocated[o] \in Nat /\ size_of(regions[o]) = allocated[o]
<1>1. allocated[o] \in Nat
  <2>1. o \in DOMAIN allocated /\ allocated[o] \in RegionSizes
    BY DEF RegionsOK
  <2>2. \A size \in RegionSizes : size \in Nat
    <3>1. UsizeValues - 1 \in Int /\ RegionSizes \subseteq 0 .. UsizeValues - 1
      BY MemoryAssumption
    <3> QED BY <3>1
  <2> QED BY <2>1, <2>2
<1>2. DOMAIN regions[o] = 0 .. allocated[o] - 1
  BY DEF RegionsOK
<1>3. Cardinality(0 .. allocated[o] - 1) = allocated[o]
  <2>1. 0 \in Int /\ allocated[o] - 1 \in Int
    BY <1>1
  <2>2. Cardinality(0 .. allocated[o] - 1)
          = IF 0 > allocated[o] - 1 THEN 0 ELSE (allocated[o] - 1) - 0 + 1
    BY <2>1, FS_Interval
  <2> QED BY <1>1, <2>2
<1> QED BY <1>1, <1>2, <1>3 DEF size_of

LEMMA MemoryInvMeans == ASSUME MemoryInv PROVE MemoryTypeOK
<1>1. IpcTypeOK
  BY QueuesType DEF MemoryInv, IpcInv, SchedulerInv
<1>2. ASSUME NEW p \in Process, NEW cap \in known[p], NEW offset \in Usize, NEW len \in Usize,
             checked_range(UsizeValues, epochs, regions, cap, NONE, offset, len)
      PROVE  offset + len <= allocated[cap.object]
  <2>1. cap.object \in DOMAIN regions /\ offset + len <= size_of(regions[cap.object])
    BY <1>2 DEF checked_range, accessible, in_bounds
  <2> QED BY <2>1, RegionSize DEF MemoryInv
<1> QED BY <1>1, <1>2 DEF MemoryTypeOK, MemoryInv, RegionsOK

LEMMA InitMemoryInv == MemoryInit => MemoryInv
<1> SUFFICES ASSUME MemoryInit PROVE MemoryInv
  OBVIOUS
<1>1. IpcInit /\ DOMAIN regions = {} /\ DOMAIN allocated = {}
  BY DEF MemoryInit, Empty
<1> QED BY <1>1, InitIpcInv DEF MemoryInv, RegionsOK, LiveRegionsKeepTheirBytes

(***************************************************************************)
(* The steps.                                                              *)
(***************************************************************************)

\* Whatever is done behind the registry's back.
LEMMA OutsideStep ==
  ASSUME MemoryInv, IpcInv', EpochsStep, UNCHANGED registryVars
  PROVE  MemoryInv'
<1>1. UNCHANGED <<regions, allocated>>
  BY DEF registryVars
<1>2. RegionsOK'
  BY <1>1 DEF MemoryInv, RegionsOK, EpochsStep, IpcInv, SchedulerInv, TypeOK
<1>3. LiveRegionsKeepTheirBytes'
  <2>1. next_id \in Int
    BY DEF MemoryInv, IpcInv, SchedulerInv, TypeOK
  <2>2. \A o \in DOMAIN allocated : o < next_id
    BY <2>1 DEF MemoryInv, RegionsOK
  <2>3. \A o \in DOMAIN allocated : o \in DOMAIN epochs' => o \in DOMAIN epochs
    BY <2>2 DEF EpochsStep
  <2> QED BY <1>1, <2>3 DEF MemoryInv, LiveRegionsKeepTheirBytes
<1> QED BY <1>2, <1>3 DEF MemoryInv

\* Some region's bytes were replaced.
LEMMA BytesStep ==
  ASSUME MemoryInv, UNCHANGED ipcVars, allocated' = allocated,
         NEW o \in DOMAIN regions, NEW bytes \in [DOMAIN regions[o] -> Byte],
         regions' = [regions EXCEPT ![o] = bytes]
  PROVE  MemoryInv'
<1>1. next_id' = next_id /\ epochs' = epochs /\ IpcInv'
  BY IpcStutter DEF MemoryInv, ipcVars, vars
<1>2. /\ DOMAIN regions' = DOMAIN regions
      /\ \A r \in DOMAIN regions : regions'[r] = IF r = o THEN bytes ELSE regions[r]
  OBVIOUS
<1>3. RegionsOK'
  BY <1>1, <1>2 DEF MemoryInv, RegionsOK
<1>4. LiveRegionsKeepTheirBytes'
  BY <1>1, <1>2 DEF MemoryInv, LiveRegionsKeepTheirBytes
<1> QED BY <1>1, <1>3, <1>4 DEF MemoryInv

\* Who gets at the bytes can use the region.
LEMMA AccessibleHolder ==
  ASSUME NEW p \in Process, NEW cap \in known[p], NEW required,
         accessible(epochs, regions, cap, required)
  PROVE  /\ cap.object \in DOMAIN regions /\ cap.object \in DOMAIN epochs
         /\ Live(epochs, cap) /\ Holders(cap.object) # {}
<1>1. Live(epochs, cap) /\ cap.object \in DOMAIN regions
  BY PermitsIsLive DEF accessible
<1> QED BY <1>1, NoHolders DEF Live, object_exists

LEMMA NewRegionStep ==
  ASSUME MemoryInv, NEW p \in Process, NEW size \in RegionSizes, NewRegion(p, size)
  PROVE  /\ MemoryInv'
         /\ \A o \in DOMAIN allocated : /\ o \in DOMAIN regions' <=> o \in DOMAIN regions
                                        /\ o \in DOMAIN regions => regions'[o] = regions[o]
<1>1. /\ NewObject(p, RegionRights) /\ next_id' = next_id + 1 /\ epochs' = inserted(epochs, next_id)
      /\ regions' = Extended(regions, next_id, zeroed(size))
      /\ allocated' = Extended(allocated, next_id, size) /\ queues' = queues
  BY DEF NewRegion, NewObject
<1>2. SchedulerInv' /\ EpochsStep /\ HoldersStep
  <2>1. RegionRights \in Rights
    BY DEF RegionRights, Rights, Right
  <2> QED BY <1>1, <2>1, NewObjectStep DEF MemoryInv, IpcInv
<1>3. IpcInv'
  BY <1>1, <1>2, QuietStep DEF MemoryInv
<1>4. next_id \notin DOMAIN allocated /\ next_id \in Nat
  BY DEF MemoryInv, RegionsOK, IpcInv, SchedulerInv, TypeOK
<1>5. /\ DOMAIN regions' = DOMAIN regions \union {next_id}
      /\ DOMAIN allocated' = DOMAIN allocated \union {next_id}
      /\ regions'[next_id] = zeroed(size) /\ allocated'[next_id] = size
      /\ \A o \in DOMAIN allocated : allocated'[o] = allocated[o]
      /\ \A o \in DOMAIN regions : regions'[o] = regions[o]
  BY <1>1, <1>4 DEF Extended, MemoryInv, RegionsOK
<1>6. zeroed(size) \in [0 .. size - 1 -> Byte]
  BY DEF zeroed, Byte
<1>7. RegionsOK'
  BY <1>1, <1>4, <1>5, <1>6 DEF MemoryInv, RegionsOK
<1>8. LiveRegionsKeepTheirBytes'
  BY <1>1, <1>5 DEF MemoryInv, LiveRegionsKeepTheirBytes, inserted
<1> QED BY <1>3, <1>4, <1>5, <1>7, <1>8 DEF MemoryInv

LEMMA WriteStep ==
  ASSUME MemoryInv, NEW p \in Process, NEW cap \in known[p], NEW offset \in Usize,
         NEW data \in Bytes(Usize), Write(p, cap, offset, data)
  PROVE  MemoryInv'
<1>1. /\ accessible(epochs, regions, cap, {"WRITE"}) /\ UNCHANGED ipcVars
      /\ regions' = [regions EXCEPT ![cap.object] = overwritten(@, offset, data)]
      /\ allocated' = allocated
  BY DEF Write, checked_range
<1>2. cap.object \in DOMAIN regions
  BY <1>1 DEF accessible
<1>3. overwritten(regions[cap.object], offset, data) \in [DOMAIN regions[cap.object] -> Byte]
  <2>1. data \in [DOMAIN data -> Byte]
    BY DEF Bytes
  <2>2. regions[cap.object] \in [DOMAIN regions[cap.object] -> Byte]
    BY <1>2 DEF MemoryInv, RegionsOK
  <2> QED BY <2>1, <2>2 DEF overwritten
<1> QED BY <1>1, <1>2, <1>3, BytesStep

LEMMA UpdateStep ==
  ASSUME MemoryInv, NEW p \in Process, NEW cap \in known[p], NEW bytes, Update(p, cap, bytes)
  PROVE  MemoryInv'
BY BytesStep DEF Update, accessible

LEMMA DestroyRegionStep ==
  ASSUME MemoryInv, NEW p \in Process, NEW cap \in known[p], DestroyRegion(p, cap)
  PROVE  MemoryInv'
<1>1. /\ DestroyObject(p, cap) /\ epochs' = removed(epochs, cap.object) /\ next_id' = next_id
      /\ regions' = removed(regions, cap.object) /\ UNCHANGED <<queues, allocated>>
  BY DEF DestroyRegion, DestroyObject
<1>2. SchedulerInv' /\ EpochsStep /\ HoldersStep
  BY <1>1, DestroyObjectStep DEF MemoryInv, IpcInv
<1>3. IpcInv'
  BY <1>1, <1>2, QuietStep DEF MemoryInv
<1>4. RegionsOK'
  BY <1>1 DEF MemoryInv, RegionsOK, removed
<1>5. LiveRegionsKeepTheirBytes'
  BY <1>1 DEF MemoryInv, LiveRegionsKeepTheirBytes, removed
<1> QED BY <1>3, <1>4, <1>5 DEF MemoryInv

LEMMA ReclaimStep == ASSUME MemoryInv, Reclaim PROVE MemoryInv'
<1>1. /\ regions' = [o \in {r \in DOMAIN regions : object_exists(epochs, r)} |-> regions[o]]
      /\ UNCHANGED ipcVars /\ allocated' = allocated
  BY DEF Reclaim
<1>2. next_id' = next_id /\ epochs' = epochs /\ IpcInv'
  BY <1>1, IpcStutter DEF MemoryInv, ipcVars, vars
<1>3. RegionsOK'
  BY <1>1, <1>2 DEF MemoryInv, RegionsOK
<1>4. LiveRegionsKeepTheirBytes'
  BY <1>1, <1>2 DEF MemoryInv, LiveRegionsKeepTheirBytes, object_exists
<1> QED BY <1>2, <1>3, <1>4 DEF MemoryInv

LEMMA MemoryNextStep == ASSUME MemoryInv, [MemoryNext]_memoryVars PROVE MemoryInv'
<1>1. ASSUME IpcNext, UNCHANGED registryVars
      PROVE  MemoryInv'
  <2>1. IpcInv' /\ EpochsStep
    BY <1>1, IpcNextStep DEF MemoryInv, IpcStep
  <2> QED BY <1>1, <2>1, OutsideStep
<1>2. ASSUME NEW p \in Process, NEW size \in RegionSizes, NewRegion(p, size)
      PROVE  MemoryInv'
  BY <1>2, NewRegionStep
<1>3. ASSUME NEW p \in Process, NEW offset \in Usize, NEW cap \in known[p],
             NEW data \in Bytes(Usize), Write(p, cap, offset, data)
      PROVE  MemoryInv'
  BY <1>3, WriteStep
<1>4. ASSUME NEW p \in Process, NEW cap \in known[p], NEW bytes \in Bytes(RegionSizes),
             Update(p, cap, bytes)
      PROVE  MemoryInv'
  BY <1>4, UpdateStep
<1>5. ASSUME NEW p \in Process, NEW cap \in known[p], DestroyRegion(p, cap)
      PROVE  MemoryInv'
  BY <1>5, DestroyRegionStep
<1>6. ASSUME Reclaim
      PROVE  MemoryInv'
  BY <1>6, ReclaimStep
<1>7. ASSUME UNCHANGED memoryVars
      PROVE  MemoryInv'
  <2>1. UNCHANGED <<ipcVars, regions, allocated, next_id, epochs>> /\ IpcInv'
    BY <1>7, IpcStutter DEF MemoryInv, memoryVars, ipcVars, vars
  <2> QED BY <2>1 DEF MemoryInv, RegionsOK, LiveRegionsKeepTheirBytes
<1> QED BY <1>1, <1>2, <1>3, <1>4, <1>5, <1>6, <1>7 DEF MemoryNext

LEMMA MemoryInvAlways == MemorySpec => []MemoryInv
BY InitMemoryInv, MemoryNextStep, PTL DEF MemorySpec

\* Regions keep their size, and no access that is let through goes past the end.
THEOREM AccessesStayInBounds == MemorySpec => []MemoryTypeOK
<1>1. MemoryInv => MemoryTypeOK
  BY MemoryInvMeans
<1> QED BY <1>1, MemoryInvAlways, PTL

\* As long as a region's object exists, so do its bytes.
THEOREM KernelAndRegistryAgree == MemorySpec => []LiveRegionsKeepTheirBytes
<1>1. MemoryInv => LiveRegionsKeepTheirBytes
  BY DEF MemoryInv
<1> QED BY <1>1, MemoryInvAlways, PTL

(***************************************************************************)
(* What a step may do to the bytes that exist.                             *)
(***************************************************************************)

\* Bytes change, and a region goes, only by someone who can use the region, or,
\* once its object is gone, by `reclaim`; nothing comes back.
BytesOnlyBy ==
  \A o \in DOMAIN allocated :
    \/ Holders(o) # {} /\ o \in DOMAIN epochs
    \/ o \notin DOMAIN epochs /\ o \notin DOMAIN regions'
    \/ /\ o \in DOMAIN regions' <=> o \in DOMAIN regions
       /\ o \in DOMAIN regions => regions'[o] = regions[o]

LEMMA BytesOnlyByHolders == ASSUME MemoryInv, [MemoryNext]_memoryVars PROVE BytesOnlyBy
<1>1. ASSUME UNCHANGED registryVars
      PROVE  BytesOnlyBy
  BY <1>1 DEF BytesOnlyBy, registryVars
<1>2. ASSUME NEW p \in Process, NEW size \in RegionSizes, NewRegion(p, size)
      PROVE  BytesOnlyBy
  <2>1. \A o \in DOMAIN allocated : /\ o \in DOMAIN regions' <=> o \in DOMAIN regions
                                    /\ o \in DOMAIN regions => regions'[o] = regions[o]
    BY <1>2, NewRegionStep
  <2> QED BY <2>1 DEF BytesOnlyBy
<1>3. ASSUME NEW p \in Process, NEW cap \in known[p], NEW required, NEW bytes,
             accessible(epochs, regions, cap, required),
             regions' = [regions EXCEPT ![cap.object] = bytes]
      PROVE  BytesOnlyBy
  <2>1. Holders(cap.object) # {} /\ cap.object \in DOMAIN epochs
    BY <1>3, AccessibleHolder
  <2>2. PICK o : o = cap.object
    OBVIOUS
  <2>3. /\ DOMAIN regions' = DOMAIN regions
        /\ \A r \in DOMAIN regions \ {o} : regions'[r] = regions[r]
    BY <1>3, <2>2
  <2> QED BY <2>1, <2>2, <2>3 DEF BytesOnlyBy
<1>4. ASSUME NEW p \in Process, NEW offset \in Usize, NEW cap \in known[p],
             NEW data \in Bytes(Usize), Write(p, cap, offset, data)
      PROVE  BytesOnlyBy
  BY <1>3, <1>4 DEF Write, checked_range
<1>5. ASSUME NEW p \in Process, NEW cap \in known[p], NEW bytes \in Bytes(RegionSizes),
             Update(p, cap, bytes)
      PROVE  BytesOnlyBy
  BY <1>3, <1>5 DEF Update
<1>6. ASSUME NEW p \in Process, NEW cap \in known[p], DestroyRegion(p, cap)
      PROVE  BytesOnlyBy
  <2>1. accessible(epochs, regions, cap, {"DESTROY"}) /\ regions' = removed(regions, cap.object)
    BY <1>6 DEF DestroyRegion
  <2>2. Holders(cap.object) # {} /\ cap.object \in DOMAIN epochs
    BY <2>1, AccessibleHolder
  <2>3. PICK o : o = cap.object
    OBVIOUS
  <2>4. /\ DOMAIN regions' = DOMAIN regions \ {o}
        /\ \A r \in DOMAIN regions \ {o} : regions'[r] = regions[r]
    BY <2>1, <2>3 DEF removed
  <2> QED BY <2>2, <2>3, <2>4 DEF BytesOnlyBy
<1>7. ASSUME Reclaim
      PROVE  BytesOnlyBy
  BY <1>7 DEF Reclaim, BytesOnlyBy, object_exists
<1>8. ASSUME UNCHANGED memoryVars
      PROVE  BytesOnlyBy
  BY <1>1, <1>8 DEF memoryVars, registryVars
<1> QED BY <1>1, <1>2, <1>4, <1>5, <1>6, <1>7, <1>8 DEF MemoryNext

\* What the receiver of a moved region finds is what the sender left there.
THEOREM NobodyTouchesWhatIsInFlight == MemorySpec => InFlightIsFrozen
<1>1. ASSUME MemoryInv, [MemoryNext]_memoryVars,
             NEW o \in MovedRegions, o \in MovedRegions'
      PROVE  regions'[o] = regions[o]
  <2>1. o \in DOMAIN allocated /\ Holders(o) = {} /\ o \in DOMAIN epochs
    <3>1. PICK place \in InFlight : IsMoved(place) /\ o = CapAt(place).object
      BY DEF MovedRegions, IsMoved
    <3>2. Holders(o) = {} /\ o \in DOMAIN epochs
      BY <1>1, <3>1, SoleAuthority DEF MemoryInv, IpcInv
    <3> QED BY <3>2 DEF MovedRegions
  <2>2. o \in DOMAIN regions
    BY <1>1, <2>1 DEF MemoryInv, LiveRegionsKeepTheirBytes
  <2> QED BY <1>1, <2>1, <2>2, BytesOnlyByHolders DEF BytesOnlyBy
<1>2. ASSUME MemoryInv, [MemoryNext]_memoryVars
      PROVE  [\A o \in MovedRegions \cap MovedRegions' : regions'[o] = regions[o]]_memoryVars
  BY <1>1, <1>2
<1> QED BY <1>2, MemoryInvAlways, PTL DEF MemorySpec, InFlightIsFrozen

\* The bytes of a destroyed region never change again and never come back.
THEOREM DestroyedBytesStay == MemorySpec => DestroyedStaysUntouched
<1>1. ASSUME MemoryInv, [MemoryNext]_memoryVars,
             NEW o \in DOMAIN allocated \ DOMAIN epochs, o \in DOMAIN regions'
      PROVE  o \in DOMAIN regions /\ regions'[o] = regions[o]
  BY <1>1, BytesOnlyByHolders DEF BytesOnlyBy
<1>2. ASSUME MemoryInv, [MemoryNext]_memoryVars
      PROVE  [\A o \in DOMAIN allocated \ DOMAIN epochs :
                o \in DOMAIN regions' => o \in DOMAIN regions /\ regions'[o] = regions[o]]_memoryVars
  BY <1>1, <1>2
<1> QED BY <1>2, MemoryInvAlways, PTL DEF MemorySpec, DestroyedStaysUntouched
=============================================================================
