--------------------------- MODULE TransferProofs ---------------------------
(* Theorems of TransferCall.tla: for every table, every state of the kernel *)
(* and every batch, of any length, the loops of `resolve_grants` and        *)
(* `apply_grants` compute TransferOps.                                      *)
EXTENDS TransferCall, CapabilityLemmas, TLAPS

(***************************************************************************)
(* The loop invariants, one per phase.                                     *)
(***************************************************************************)

held_by(k) == input.table[grants[k].handle]

\* What the first loop leaves for the k-th grant: a move is not reissued yet.
Placeholder(k) ==
  IF grants[k].kind = "Derive" THEN derived(held_by(k), grants[k].rights) ELSE held_by(k)

\* The first loop has let the k-th grant pass.
Resolvable(k) ==
  /\ grants[k].handle \in DOMAIN input.table
  /\ Authorised(input.epochs, input.table, grants[k])
  /\ \A j \in 1 .. k - 1 :
       leaves(grants[k]) /\ leaves(grants[j]) => grants[k].handle # grants[j].handle

\* And the second one.
Unconflicting(k) ==
  grants[k].kind = "Move" => \A j \in DOMAIN grants \ {k} : held_by(j).object # held_by(k).object

Untouched == table = input.table /\ epochs = input.epochs

Valid == ValidBatch(input.epochs, input.table, grants)

\* `source` and the kernel after the first n grants have been applied.
TableAfter(n) ==
  [h \in {k \in DOMAIN input.table :
            \A j \in 1 .. n : leaves(grants[j]) => grants[j].handle # k} |-> input.table[h]]

EpochsAfter(n) ==
  [o \in DOMAIN input.epochs |->
     input.epochs[o] + (IF \E j \in 1 .. n : grants[j].kind = "Move" /\ held_by(j).object = o
                        THEN 1 ELSE 0)]

Resolving ==
  /\ Untouched
  /\ resolved \in Seq(Capability(Object)) /\ Len(resolved) = i - 1
  /\ transferred = {grants[k].handle : k \in {j \in 1 .. i - 1 : leaves(grants[j])}}
  /\ \A k \in 1 .. i - 1 : Resolvable(k) /\ resolved[k] = Placeholder(k)

Checking ==
  /\ Untouched
  /\ resolved \in Seq(Capability(Object)) /\ Len(resolved) = Len(grants)
  /\ \A k \in DOMAIN grants : Resolvable(k) /\ resolved[k] = Placeholder(k)
  /\ \A k \in 1 .. i - 1 : Unconflicting(k)

\* The first n grants have been applied.
Applied(n) ==
  /\ Valid
  /\ resolved \in Seq(Capability(Object)) /\ Len(resolved) = Len(grants)
  /\ \A k \in DOMAIN grants :
       resolved[k] = IF k <= n THEN Delivered(input.epochs, input.table, grants)[k]
                               ELSE Placeholder(k)
  /\ table = TableAfter(n)
  /\ epochs = EpochsAfter(n)

Inv ==
  /\ input \in Inputs
  /\ i \in 1 .. Len(grants) + 1
  /\ phase \in {"resolve", "conflicts", "apply", "Ok"} \union Errors
  /\ phase = "resolve" => Resolving
  /\ phase = "conflicts" => Checking
  /\ phase = "apply" => Applied(i - 1)
  /\ phase = "Ok" => Applied(Len(grants))
  /\ phase \in Errors => Untouched /\ ~Valid

(***************************************************************************)
(* What is known of the arguments.                                         *)
(***************************************************************************)

LEMMA Arguments ==
  ASSUME input \in Inputs
  PROVE  /\ input.epochs \in [DOMAIN input.epochs -> Nat]
         /\ input.table \in [DOMAIN input.table -> Capability(Object)]
         /\ grants \in Seq(Grants(Handle))
         /\ Len(grants) \in Nat
         /\ DOMAIN grants = 1 .. Len(grants)
         /\ \A k \in DOMAIN grants : grants[k] \in Grants(Handle)
<1>1. grants \in Seq(Grants(Handle))
  BY InputsAssumption DEF grants
<1>2. /\ Len(grants) \in Nat
      /\ DOMAIN grants = 1 .. Len(grants)
      /\ \A k \in DOMAIN grants : grants[k] \in Grants(Handle)
  BY <1>1
<1> QED BY <1>1, <1>2, InputsAssumption

\* Every grant is one of the three, and only a `Derive` stays.
LEMMA GrantKinds ==
  ASSUME NEW g \in Grants(Handle)
  PROVE  /\ g.kind \in {"Transfer", "Derive", "Move"}
         /\ leaves(g) <=> g.kind # "Derive"
         /\ g.rights \in Rights
         /\ g.handle \in Handle
BY DEF Grants, leaves, NONE, Rights

\* A placeholder is a capability for the object of the one that was named.
LEMMA Placeholders ==
  ASSUME input \in Inputs, NEW k \in DOMAIN grants, grants[k].handle \in DOMAIN input.table
  PROVE  /\ held_by(k) \in Capability(Object)
         /\ Placeholder(k) \in Capability(Object)
         /\ Placeholder(k).object = held_by(k).object
         /\ grants[k].kind # "Derive" => Placeholder(k) = held_by(k)
<1>1. held_by(k) \in Capability(Object)
  BY Arguments DEF held_by
<1>2. grants[k].rights \in Rights
  BY Arguments, GrantKinds
<1> QED BY <1>1, <1>2 DEF Placeholder, derived, Capability

\* The loops have between them checked what ValidBatch asks.
LEMMA AllPassed ==
  ASSUME input \in Inputs, \A k \in DOMAIN grants : Resolvable(k) /\ Unconflicting(k)
  PROVE  Valid
<1>1. DOMAIN grants = 1 .. Len(grants) /\ Len(grants) \in Nat
  BY Arguments
<1>2. NoDuplicateTransfer(grants)
  <2> SUFFICES ASSUME NEW j \in DOMAIN grants, NEW k \in DOMAIN grants, j # k,
                      leaves(grants[j]), leaves(grants[k])
               PROVE  grants[j].handle # grants[k].handle
    BY DEF NoDuplicateTransfer
  <2>1. CASE j < k
    BY <1>1, <2>1 DEF Resolvable
  <2>2. CASE k < j
    BY <1>1, <2>2 DEF Resolvable
  <2> QED BY <1>1, <2>1, <2>2
<1>3. NoMoveConflict(input.table, grants)
  BY DEF NoMoveConflict, Unconflicting, held_by
<1> QED BY <1>2, <1>3 DEF Valid, ValidBatch, Resolvable

\* And a grant that fails in either loop is one that ValidBatch rules out.
LEMMA ValidMeans ==
  ASSUME Valid, NEW k \in DOMAIN grants
  PROVE  /\ grants[k].handle \in DOMAIN input.table
         /\ Authorised(input.epochs, input.table, grants[k])
         /\ \A j \in DOMAIN grants \ {k} :
              leaves(grants[k]) /\ leaves(grants[j]) => grants[k].handle # grants[j].handle
         /\ Unconflicting(k)
BY DEF Valid, ValidBatch, NoDuplicateTransfer, NoMoveConflict, Unconflicting, held_by

(***************************************************************************)
(* The first loop.                                                         *)
(***************************************************************************)

LEMMA InitInv == Init => Inv
<1> SUFFICES ASSUME Init PROVE Inv
  OBVIOUS
<1>1. input \in Inputs
  BY DEF Init
<1>2. i \in 1 .. Len(grants) + 1
  BY <1>1, Arguments DEF Init
<1>3. Resolving
  BY DEF Init, Resolving, Untouched
<1> QED BY <1>1, <1>2, <1>3 DEF Init, Inv, Errors

\* Returning an error is fine as long as nothing was touched and the batch is not
\* a valid one.
LEMMA RejectInv ==
  ASSUME Inv, NEW result \in Errors, Return(result), Untouched, ~Valid
  PROVE  Inv'
<1>1. result \notin {"resolve", "conflicts", "apply", "Ok"}
  BY DEF Errors
<1>2. Untouched' /\ ~Valid'
  BY DEF Return, Untouched, Valid, grants
<1> QED BY <1>1, <1>2 DEF Return, Inv, grants

LEMMA RejectDuplicateInv == ASSUME Inv, RejectDuplicate PROVE Inv'
<1>1. phase = "resolve" /\ i \in DOMAIN grants /\ Duplicate
  BY DEF RejectDuplicate, At
<1>2. Resolving
  BY <1>1 DEF Inv
<1>3. PICK j \in 1 .. i - 1 : leaves(grants[j]) /\ grants[j].handle = grants[i].handle
  BY <1>1, <1>2 DEF Resolving, Duplicate, grant
<1>4. j \in DOMAIN grants \ {i}
  BY <1>1, <1>3, Arguments DEF Inv
<1>5. ~Valid
  BY <1>1, <1>3, <1>4, ValidMeans DEF Duplicate, grant
<1> QED BY <1>2, <1>5, RejectInv DEF RejectDuplicate, Errors, Resolving

LEMMA RejectHandleInv == ASSUME Inv, RejectHandle PROVE Inv'
<1>1. phase = "resolve" /\ i \in DOMAIN grants /\ Untouched
  BY DEF RejectHandle, At, Inv, Resolving
<1>2. ~Valid
  BY <1>1, ValidMeans DEF RejectHandle, Untouched, grant
<1> QED BY <1>1, <1>2, RejectInv DEF RejectHandle, Errors

LEMMA RejectAuthorityInv == ASSUME Inv, RejectAuthority PROVE Inv'
<1>1. phase = "resolve" /\ i \in DOMAIN grants /\ Untouched
  BY DEF RejectAuthority, At, Inv, Resolving
<1>2. ~Valid
  BY <1>1, ValidMeans DEF RejectAuthority, Untouched, grant
<1>3. Refusal \in Errors
  BY Refusals DEF Refusal, Permits, Errors
<1> QED BY <1>1, <1>2, <1>3, RejectInv DEF RejectAuthority

LEMMA ResolveOneInv == ASSUME Inv, ResolveOne PROVE Inv'
<1>1. /\ phase = "resolve" /\ i \in DOMAIN grants /\ Resolving
      /\ phase' = "resolve" /\ i' = i + 1 /\ input' = input
      /\ table' = table /\ epochs' = epochs
  BY DEF ResolveOne, At, Inv
<1>2. /\ Len(grants) \in Nat /\ i \in 1 .. Len(grants) /\ grants' = grants
      /\ 1 .. i = (1 .. i - 1) \union {i}
      /\ i' - 1 = i /\ i \notin 1 .. i - 1
  BY <1>1, Arguments DEF Inv, grants
<1>3. Untouched /\ Untouched'
  BY <1>1 DEF Resolving, Untouched
<1>4. Resolvable(i)
  <2>1. ASSUME NEW j \in 1 .. i - 1, leaves(grants[i]), leaves(grants[j])
        PROVE  grants[i].handle # grants[j].handle
    <3>1. grants[j].handle \in transferred
      BY <1>1, <2>1 DEF Resolving
    <3> QED BY <2>1, <3>1 DEF ResolveOne, Duplicate, grant
  <2> QED BY <1>3, <2>1 DEF ResolveOne, Resolvable, Untouched, grant
<1>5. resolved' = Append(resolved, Placeholder(i))
  BY <1>3 DEF ResolveOne, Placeholder, held, held_by, grant, Untouched
<1>6. Placeholder(i) \in Capability(Object)
  BY <1>1, <1>4, Placeholders DEF Inv, Resolvable
<1>7. /\ resolved' \in Seq(Capability(Object)) /\ Len(resolved') = i
      /\ \A k \in 1 .. i - 1 : resolved'[k] = resolved[k]
      /\ resolved'[i] = Placeholder(i)
  BY <1>1, <1>2, <1>5, <1>6 DEF Resolving
<1>8. transferred' = {grants[k].handle : k \in {j \in 1 .. i : leaves(grants[j])}}
  BY <1>1, <1>2 DEF ResolveOne, Resolving, grant
<1>9. \A k \in 1 .. i : Resolvable(k) /\ resolved'[k] = Placeholder(k)
  BY <1>1, <1>2, <1>4, <1>7 DEF Resolving
<1>10. \A k \in 1 .. i : Resolvable(k)' = Resolvable(k) /\ Placeholder(k)' = Placeholder(k)
  BY <1>1, <1>2 DEF Resolvable, Placeholder, held_by
<1>11. Resolving'
  BY <1>1, <1>2, <1>3, <1>7, <1>8, <1>9, <1>10 DEF Resolving
<1> QED BY <1>1, <1>2, <1>11 DEF Inv, Errors

LEMMA ResolvedAll == ASSUME Inv, Proceed("resolve", "conflicts") PROVE Inv'
<1>1. /\ phase = "resolve" /\ i \notin DOMAIN grants /\ Resolving
      /\ phase' = "conflicts" /\ i' = 1 /\ input' = input
      /\ UNCHANGED <<table, epochs, resolved>>
  BY DEF Proceed, Inv
<1>2. Len(grants) \in Nat /\ i = Len(grants) + 1 /\ grants' = grants /\ DOMAIN grants = 1 .. i - 1
  BY <1>1, Arguments DEF Inv, grants
<1>3. Checking'
  BY <1>1, <1>2 DEF Resolving, Checking, Untouched, Resolvable, Placeholder, held_by
<1> QED BY <1>1, <1>2, <1>3 DEF Inv, Errors

(***************************************************************************)
(* The second loop.                                                        *)
(***************************************************************************)

\* While it runs, the loop's conflict test is the one of ValidBatch.
LEMMA ConflictMeans ==
  ASSUME Inv, phase = "conflicts", i \in DOMAIN grants
  PROVE  Conflict <=> ~Unconflicting(i)
<1>1. Checking /\ input \in Inputs
  BY DEF Inv
<1>2. DOMAIN resolved = DOMAIN grants
  BY <1>1, Arguments DEF Checking
<1>3. \A k \in DOMAIN grants : resolved[k].object = held_by(k).object
  BY <1>1, Placeholders DEF Checking, Resolvable
<1> QED BY <1>2, <1>3 DEF Conflict, Unconflicting, grant

LEMMA RejectConflictInv == ASSUME Inv, RejectConflict PROVE Inv'
<1>1. phase = "conflicts" /\ i \in DOMAIN grants /\ Conflict /\ Checking
  BY DEF RejectConflict, At, Inv
<1>2. ~Valid
  BY <1>1, ConflictMeans, ValidMeans
<1> QED BY <1>1, <1>2, RejectInv DEF RejectConflict, Errors, Checking

LEMMA NoConflictInv == ASSUME Inv, NoConflict PROVE Inv'
<1>1. /\ phase = "conflicts" /\ i \in DOMAIN grants /\ ~Conflict /\ Checking
      /\ phase' = "conflicts" /\ i' = i + 1 /\ input' = input
      /\ UNCHANGED <<table, epochs, resolved>>
  BY DEF NoConflict, At, Inv
<1>2. /\ Len(grants) \in Nat /\ i \in 1 .. Len(grants) /\ grants' = grants
      /\ 1 .. i = (1 .. i - 1) \union {i} /\ i' - 1 = i
  BY <1>1, Arguments DEF Inv, grants
<1>3. \A k \in 1 .. i : Unconflicting(k)
  BY <1>1, <1>2, ConflictMeans DEF Checking
<1>4. Checking'
  BY <1>1, <1>2, <1>3 DEF Checking, Untouched, Resolvable, Placeholder, Unconflicting, held_by
<1> QED BY <1>1, <1>2, <1>4 DEF Inv, Errors

LEMMA CheckedAll == ASSUME Inv, Proceed("conflicts", "apply") PROVE Inv'
<1>1. /\ phase = "conflicts" /\ i \notin DOMAIN grants /\ Checking
      /\ phase' = "apply" /\ i' = 1 /\ input' = input
      /\ UNCHANGED <<table, epochs, resolved>>
  BY DEF Proceed, Inv
<1>2. /\ Len(grants) \in Nat /\ i = Len(grants) + 1 /\ grants' = grants
      /\ DOMAIN grants = 1 .. i - 1 /\ input \in Inputs
  BY <1>1, Arguments DEF Inv, grants
<1>3. Valid
  BY <1>1, <1>2, AllPassed DEF Checking
<1>4. table = TableAfter(0) /\ epochs = EpochsAfter(0)
  BY <1>1, <1>2, Arguments DEF Checking, Untouched, TableAfter, EpochsAfter
<1>5. \A k \in DOMAIN grants : ~(k <= 0)
  BY <1>2
<1>6. Applied(0)
  BY <1>1, <1>3, <1>4, <1>5 DEF Checking, Applied
<1>7. Applied(0)'
  BY <1>1, <1>2, <1>6 DEF Applied, Valid, TableAfter, EpochsAfter, Placeholder, held_by
<1> QED BY <1>1, <1>2, <1>7 DEF Inv, Errors

(***************************************************************************)
(* `apply_grants`.                                                         *)
(***************************************************************************)

\* What `check` let through while resolving is still let through when its turn
\* comes: no other grant of the batch names the object of a move.
LEMMA StillPermitted ==
  ASSUME Inv, phase = "apply", i \in DOMAIN grants, grants[i].kind = "Move"
  PROVE  /\ CanReissue
         /\ resolved[i] = held_by(i)
         /\ held_by(i).object \in DOMAIN epochs
         /\ held_by(i).object \in DOMAIN input.epochs
         /\ epochs[held_by(i).object] = input.epochs[held_by(i).object]
<1>1. /\ Applied(i - 1) /\ Valid /\ input \in Inputs
      /\ Len(grants) \in Nat /\ DOMAIN grants = 1 .. Len(grants) /\ i \in 1 .. Len(grants)
  BY Arguments DEF Inv, Applied
<1>2. resolved[i] = held_by(i)
  <2>1. ~(i <= i - 1)
    BY <1>1
  <2> QED BY <1>1, <2>1, ValidMeans, Placeholders DEF Applied
<1>3. /\ Live(input.epochs, held_by(i)) /\ {"DESTROY"} \subseteq held_by(i).rights
  BY <1>1, ValidMeans, PermitsWhenLive DEF Authorised, held_by
<1>4. /\ held_by(i).object \in DOMAIN epochs
      /\ held_by(i).object \in DOMAIN input.epochs
      /\ epochs[held_by(i).object] = input.epochs[held_by(i).object]
  <2>1. held_by(i).object \in DOMAIN input.epochs
    BY <1>3 DEF Live, object_exists
  <2>2. ~\E j \in 1 .. i - 1 : grants[j].kind = "Move" /\ held_by(j).object = held_by(i).object
    BY <1>1, ValidMeans DEF Unconflicting
  <2>3. epochs[held_by(i).object] = input.epochs[held_by(i).object] + 0
    BY <1>1, <2>1, <2>2 DEF Applied, EpochsAfter
  <2> QED BY <1>1, <2>1, <2>3, Arguments DEF Applied, EpochsAfter
<1>5. CanReissue
  BY <1>2, <1>3, <1>4, PermitsWhenLive DEF CanReissue, Live, object_exists
<1> QED BY <1>2, <1>4, <1>5

\* Applying the i-th grant keeps the ones before it and prepares the ones after.
LEMMA AppliedOne ==
  ASSUME Inv, phase = "apply", i \in DOMAIN grants,
         i' = i + 1, phase' = "apply", input' = input,
         resolved' \in Seq(Capability(Object)), Len(resolved') = Len(grants),
         resolved'[i] = Delivered(input.epochs, input.table, grants)[i],
         \A k \in DOMAIN grants \ {i} : resolved'[k] = resolved[k],
         table' = TableAfter(i),
         epochs' = EpochsAfter(i)
  PROVE  Inv'
<1>1. /\ Applied(i - 1) /\ input \in Inputs /\ grants' = grants
      /\ Len(grants) \in Nat /\ DOMAIN grants = 1 .. Len(grants) /\ i \in 1 .. Len(grants)
      /\ i' - 1 = i
  BY Arguments DEF Inv, grants
<1>2. \A k \in DOMAIN grants \ {i} : k <= i <=> k <= i - 1
  BY <1>1
<1>3. \A k \in DOMAIN grants :
        resolved'[k] = IF k <= i THEN Delivered(input.epochs, input.table, grants)[k]
                                 ELSE Placeholder(k)
  <2> SUFFICES ASSUME NEW k \in DOMAIN grants
               PROVE  resolved'[k] = IF k <= i THEN Delivered(input.epochs, input.table, grants)[k]
                                               ELSE Placeholder(k)
    OBVIOUS
  <2>1. CASE k = i
    BY <1>1, <2>1
  <2>2. CASE k # i
    BY <1>1, <1>2, <2>2 DEF Applied
  <2> QED BY <2>1, <2>2
<1>4. Applied(i - 1)'
  BY <1>1, <1>3 DEF Applied, Valid, TableAfter, EpochsAfter, Placeholder, held_by
<1> QED BY <1>1, <1>4 DEF Inv, Errors

\* `remove_capability` on a table that the earlier removals left.
LEMMA TakeOne ==
  ASSUME input \in Inputs, i \in DOMAIN grants, table = TableAfter(i - 1)
  PROVE  /\ leaves(grants[i]) /\ Take => table' = TableAfter(i)
         /\ ~leaves(grants[i]) => table = TableAfter(i)
<1>1. 1 .. i = (1 .. i - 1) \union {i}
  BY Arguments
<1>2. ASSUME leaves(grants[i]), Take
      PROVE  table' = TableAfter(i)
  <2>1. DOMAIN table \ {grants[i].handle}
          = {k \in DOMAIN input.table : \A j \in 1 .. i : leaves(grants[j]) => grants[j].handle # k}
    BY <1>1, <1>2 DEF TableAfter
  <2>2. \A h \in DOMAIN table : table[h] = input.table[h]
    BY DEF TableAfter
  <2> QED BY <1>2, <2>1, <2>2 DEF Take, TableAfter, grant
<1>3. ASSUME ~leaves(grants[i])
      PROVE  table = TableAfter(i)
  <2>1. {k \in DOMAIN input.table : \A j \in 1 .. i : leaves(grants[j]) => grants[j].handle # k}
          = {k \in DOMAIN input.table : \A j \in 1 .. i - 1 : leaves(grants[j]) => grants[j].handle # k}
    BY <1>1, <1>3
  <2> QED BY <2>1 DEF TableAfter
<1> QED BY <1>2, <1>3

\* The kernel's epochs after a grant that is not a move.
LEMMA EpochsKept ==
  ASSUME input \in Inputs, i \in DOMAIN grants, grants[i].kind # "Move"
  PROVE  EpochsAfter(i) = EpochsAfter(i - 1)
<1>1. 1 .. i = (1 .. i - 1) \union {i}
  BY Arguments
<1>2. \A o \in DOMAIN input.epochs :
        (\E j \in 1 .. i : grants[j].kind = "Move" /\ held_by(j).object = o)
          <=> (\E j \in 1 .. i - 1 : grants[j].kind = "Move" /\ held_by(j).object = o)
  BY <1>1
<1> QED BY <1>2 DEF EpochsAfter

LEMMA ApplyTransferInv == ASSUME Inv, ApplyTransfer PROVE Inv'
<1>1. /\ phase = "apply" /\ i \in DOMAIN grants /\ grants[i].kind = "Transfer" /\ Take
      /\ phase' = "apply" /\ i' = i + 1 /\ UNCHANGED <<input, epochs, resolved>>
      /\ input \in Inputs /\ Applied(i - 1)
      /\ i \in 1 .. Len(grants) /\ Len(grants) \in Nat
  BY Arguments DEF ApplyTransfer, At, grant, Inv
<1>2. ~(i <= i - 1) /\ leaves(grants[i])
  BY <1>1 DEF leaves
<1>3. resolved[i] = Delivered(input.epochs, input.table, grants)[i]
  BY <1>1, <1>2 DEF Applied, Delivered, Placeholder, held_by
<1>4. table' = TableAfter(i)
  BY <1>1, <1>2, TakeOne DEF Applied
<1>5. epochs' = EpochsAfter(i)
  BY <1>1, EpochsKept DEF Applied
<1> QED BY <1>1, <1>3, <1>4, <1>5, AppliedOne DEF Applied

LEMMA ApplyDeriveInv == ASSUME Inv, ApplyDerive PROVE Inv'
<1>1. /\ phase = "apply" /\ i \in DOMAIN grants /\ grants[i].kind = "Derive"
      /\ phase' = "apply" /\ i' = i + 1 /\ UNCHANGED <<input, epochs, table, resolved>>
      /\ input \in Inputs /\ Applied(i - 1)
      /\ i \in 1 .. Len(grants) /\ Len(grants) \in Nat
  BY Arguments DEF ApplyDerive, At, grant, Inv
<1>2. ~(i <= i - 1) /\ ~leaves(grants[i])
  BY <1>1 DEF leaves
<1>3. resolved[i] = Delivered(input.epochs, input.table, grants)[i]
  BY <1>1, <1>2 DEF Applied, Delivered, Placeholder, held_by
<1>4. table' = TableAfter(i)
  BY <1>1, <1>2, TakeOne DEF Applied
<1>5. epochs' = EpochsAfter(i)
  BY <1>1, EpochsKept DEF Applied
<1> QED BY <1>1, <1>3, <1>4, <1>5, AppliedOne DEF Applied

LEMMA ApplyMoveInv == ASSUME Inv, ApplyMove PROVE Inv'
<1>1. /\ phase = "apply" /\ i \in DOMAIN grants /\ grants[i].kind = "Move" /\ Take
      /\ phase' = "apply" /\ i' = i + 1 /\ input' = input
      /\ epochs' = bumped(epochs, resolved[i].object)
      /\ resolved' = [resolved EXCEPT ![i] = reissued(epochs, resolved[i])]
      /\ input \in Inputs /\ Applied(i - 1)
      /\ Len(grants) \in Nat /\ DOMAIN grants = 1 .. Len(grants) /\ i \in 1 .. Len(grants)
      /\ 1 .. i = (1 .. i - 1) \union {i} /\ leaves(grants[i])
  BY Arguments DEF ApplyMove, At, grant, Inv, leaves
<1>2. /\ resolved[i] = held_by(i) /\ held_by(i).object \in DOMAIN epochs
      /\ held_by(i).object \in DOMAIN input.epochs
      /\ epochs[held_by(i).object] = input.epochs[held_by(i).object]
  BY <1>1, StillPermitted
<1>3. held_by(i) \in Capability(Object) /\ input.epochs \in [DOMAIN input.epochs -> Nat]
  BY <1>1, ValidMeans, Placeholders, Arguments DEF Applied
<1>4. reissued(epochs, held_by(i)) = reissued(input.epochs, held_by(i))
  BY <1>2 DEF reissued, bumped
<1>5. reissued(input.epochs, held_by(i)) \in Capability(Object)
  <2>1. input.epochs[held_by(i).object] + 1 \in Nat
    BY <1>2, <1>3
  <2> QED BY <1>2, <1>3, <2>1 DEF reissued, bumped, Capability
<1>6. Delivered(input.epochs, input.table, grants)[i] = reissued(input.epochs, held_by(i))
  BY <1>1 DEF Delivered, held_by
<1>7. /\ resolved' \in Seq(Capability(Object)) /\ Len(resolved') = Len(grants)
      /\ resolved'[i] = Delivered(input.epochs, input.table, grants)[i]
      /\ \A k \in DOMAIN grants \ {i} : resolved'[k] = resolved[k]
  BY <1>1, <1>2, <1>4, <1>5, <1>6 DEF Applied
<1>8. table' = TableAfter(i)
  BY <1>1, TakeOne DEF Applied
<1>9. epochs' = EpochsAfter(i)
  <2>1. /\ DOMAIN epochs = DOMAIN input.epochs
        /\ epochs' = [o \in DOMAIN input.epochs |->
                         IF o = held_by(i).object THEN epochs[o] + 1 ELSE epochs[o]]
    BY ZenonT(30), <1>1, <1>2 DEF bumped, Applied, EpochsAfter
  <2>2. ASSUME NEW o \in DOMAIN input.epochs
        PROVE  epochs'[o] = EpochsAfter(i)[o]
    <3>1. CASE o = held_by(i).object
      BY <1>1, <1>2, <2>1, <3>1 DEF EpochsAfter
    <3>2. CASE o # held_by(i).object
      <4>1. (\E j \in 1 .. i : grants[j].kind = "Move" /\ held_by(j).object = o)
              <=> (\E j \in 1 .. i - 1 : grants[j].kind = "Move" /\ held_by(j).object = o)
        BY <1>1, <3>2
      <4>2. epochs'[o] = EpochsAfter(i - 1)[o]
        BY <1>1, <2>1, <3>2 DEF Applied
      <4> QED BY <4>1, <4>2 DEF EpochsAfter
    <3> QED BY <3>1, <3>2
  <2> QED BY <2>1, <2>2 DEF EpochsAfter
<1> QED BY <1>1, <1>7, <1>8, <1>9, AppliedOne

LEMMA AppliedAll == ASSUME Inv, Proceed("apply", "Ok") PROVE Inv'
<1>1. /\ phase = "apply" /\ i \notin DOMAIN grants /\ Applied(i - 1)
      /\ phase' = "Ok" /\ i' = 1 /\ input' = input
      /\ UNCHANGED <<table, epochs, resolved>>
  BY DEF Proceed, Inv
<1>2. /\ Len(grants) \in Nat /\ i - 1 = Len(grants) /\ grants' = grants /\ input \in Inputs
  BY <1>1, Arguments DEF Inv, grants
<1>3. Applied(Len(grants))'
  BY <1>1, <1>2 DEF Applied, Valid, TableAfter, EpochsAfter, Placeholder, held_by
<1> QED BY <1>1, <1>2, <1>3 DEF Inv, Errors

(***************************************************************************)
(* The inductive invariant, and the theorems.                              *)
(***************************************************************************)

LEMMA NextInv == ASSUME Inv, [Next]_vars PROVE Inv'
<1>1. CASE UNCHANGED vars
  <2>1. /\ input' = input /\ i' = i /\ phase' = phase /\ table' = table /\ epochs' = epochs
        /\ resolved' = resolved /\ transferred' = transferred
    BY <1>1 DEF vars
  <2>2. Len(grants)' = Len(grants) /\ Untouched' = Untouched /\ Valid' = Valid
    BY <2>1 DEF Untouched, Valid, grants
  <2>3. Resolving' = Resolving /\ Checking' = Checking
    BY <2>1 DEF Resolving, Checking, Untouched, Resolvable, Unconflicting, Placeholder, held_by, grants
  <2>4. Applied(i - 1)' = Applied(i - 1) /\ Applied(Len(grants))' = Applied(Len(grants))
    BY <2>1 DEF Applied, Valid, TableAfter, EpochsAfter, Placeholder, held_by, grants
  <2> QED BY <2>1, <2>2, <2>3, <2>4 DEF Inv
<1>2. CASE Next
  BY <1>2, RejectDuplicateInv, RejectHandleInv, RejectAuthorityInv, ResolveOneInv, ResolvedAll,
     RejectConflictInv, NoConflictInv, CheckedAll, ApplyTransferInv, ApplyDeriveInv, ApplyMoveInv,
     AppliedAll DEF Next
<1> QED BY <1>1, <1>2

LEMMA InvAlways == Spec => []Inv
BY InitInv, NextInv, PTL DEF Spec

\* `expect("checked during resolution")` in `apply_grants` never fires, whatever
\* the batch: each reissue finds its object at the epoch it was resolved at.
THEOREM NeverPanics == Spec => []NoPanic
<1>1. Inv => NoPanic
  BY StillPermitted DEF NoPanic, At, grant
<1> QED BY <1>1, InvAlways, PTL

\* A batch that `resolve_grants` refuses, at whatever grant and for whatever
\* reason, has changed neither the source's table nor the kernel.
THEOREM RefusalChangesNothing == Spec => []RefusedChangesNothing
<1>1. Inv => RefusedChangesNothing
  BY DEF Inv, RefusedChangesNothing, Untouched
<1> QED BY <1>1, InvAlways, PTL

\* The loops accept exactly the valid batches, and deliver, take and revoke what
\* TransferOps says a batch does: the step the scheduler's and the channels'
\* models take is the one the code takes.
THEOREM LoopsComputeTheBatch == Spec => []ComputesTheBatch
<1>1. ASSUME Inv, phase = "Ok"
      PROVE  /\ resolved = Delivered(input.epochs, input.table, grants)
             /\ table = Remaining(input.table, grants)
             /\ epochs = AfterBatch(input.epochs, input.table, grants)
  <2>1. /\ Applied(Len(grants)) /\ DOMAIN grants = 1 .. Len(grants) /\ Len(grants) \in Nat
    BY <1>1, Arguments DEF Inv
  <2>2. resolved = Delivered(input.epochs, input.table, grants)
    <3>1. resolved \in [1 .. Len(grants) -> Capability(Object)]
      BY <2>1 DEF Applied
    <3>2. \A k \in 1 .. Len(grants) : resolved[k] = Delivered(input.epochs, input.table, grants)[k]
      BY <2>1 DEF Applied
    <3>3. resolved = [k \in 1 .. Len(grants) |-> resolved[k]]
      BY <3>1
    <3>4. Delivered(input.epochs, input.table, grants)
            = [k \in DOMAIN grants |-> Delivered(input.epochs, input.table, grants)[k]]
      <4> DEFINE f(k) ==
            CASE grants[k].kind = "Transfer" -> input.table[grants[k].handle]
              [] grants[k].kind = "Derive" -> derived(input.table[grants[k].handle], grants[k].rights)
              [] grants[k].kind = "Move" -> reissued(input.epochs, input.table[grants[k].handle])
      <4>1. Delivered(input.epochs, input.table, grants) = [k \in DOMAIN grants |-> f(k)]
        BY DEF Delivered
      <4> HIDE DEF f
      <4> QED BY <4>1
    <3> QED BY <2>1, <3>2, <3>3, <3>4
  <2>3. table = Remaining(input.table, grants)
    BY <2>1 DEF Applied, TableAfter, Remaining
  <2>4. \A o \in DOMAIN input.epochs :
          o \in Moved(input.table, grants)
            <=> \E j \in 1 .. Len(grants) : grants[j].kind = "Move" /\ held_by(j).object = o
    BY <2>1 DEF Moved, held_by
  <2>5. epochs = AfterBatch(input.epochs, input.table, grants)
    BY <2>1, <2>4 DEF Applied, EpochsAfter, AfterBatch
  <2> QED BY <2>2, <2>3, <2>5
<1>2. Inv => ComputesTheBatch
  BY <1>1 DEF Inv, Applied, Valid, ComputesTheBatch, Errors
<1> QED BY <1>2, InvAlways, PTL

\* No interplay between the grants of one batch kills what the batch delivers: a
\* moved object is named by no other grant.
THEOREM DeadOnArrivalNever == Spec => []NothingDeadOnArrival
<1>1. ASSUME Inv, phase = "Ok", NEW j \in DOMAIN grants
      PROVE  \/ Live(epochs, resolved[j])
             \/ grants[j].kind = "Transfer" /\ ~Live(input.epochs, held_by(j))
  <2> DEFINE o == held_by(j).object
             others == \E k \in 1 .. Len(grants) : grants[k].kind = "Move" /\ held_by(k).object = o
  <2>1. /\ Applied(Len(grants)) /\ Valid /\ input \in Inputs
        /\ DOMAIN grants = 1 .. Len(grants) /\ j \in 1 .. Len(grants) /\ Len(grants) \in Nat
        /\ grants[j].kind \in {"Transfer", "Derive", "Move"}
    BY <1>1, Arguments, GrantKinds DEF Inv, Applied
  <2>2. /\ resolved[j] = Delivered(input.epochs, input.table, grants)[j]
        /\ held_by(j) \in Capability(Object)
        /\ input.epochs \in [DOMAIN input.epochs -> Nat]
    BY <2>1, ValidMeans, Placeholders, Arguments DEF Applied
  <2>3. grants[j].kind # "Transfer" => Live(input.epochs, held_by(j))
    BY <2>1, ValidMeans, PermitsWhenLive DEF Authorised, CanDerive, held_by
  <2>4. CASE grants[j].kind = "Move"
    <3>1. resolved[j] = reissued(input.epochs, held_by(j)) /\ o \in DOMAIN input.epochs
      BY <2>1, <2>2, <2>3, <2>4 DEF Delivered, held_by, Live, object_exists
    <3>2. resolved[j].object = o /\ resolved[j].epoch = input.epochs[o] + 1
      BY <2>2, <3>1 DEF reissued, bumped, Capability
    <3>3. others
      BY <2>1, <2>4
    <3>4. o \in DOMAIN epochs /\ epochs[o] = input.epochs[o] + 1
      BY <2>1, <3>1, <3>3 DEF Applied, EpochsAfter
    <3> QED BY <3>2, <3>4 DEF Live, object_exists
  <2>5. CASE grants[j].kind # "Move" /\ Live(input.epochs, held_by(j))
    <3>1. resolved[j].object = o /\ resolved[j].epoch = held_by(j).epoch
      BY <2>1, <2>2, <2>5 DEF Delivered, held_by, derived, Capability
    <3>2. ~others
      BY <2>1, <2>5, ValidMeans DEF Unconflicting
    <3>3. o \in DOMAIN epochs /\ epochs[o] = input.epochs[o]
      BY <2>1, <2>2, <2>5, <3>2 DEF Applied, EpochsAfter, Live, object_exists
    <3> QED BY <2>5, <3>1, <3>3 DEF Live, object_exists
  <2> QED BY <2>1, <2>3, <2>4, <2>5
<1>2. Inv => NothingDeadOnArrival
  BY <1>1 DEF NothingDeadOnArrival, held_by
<1> QED BY <1>2, InvAlways, PTL
=============================================================================
