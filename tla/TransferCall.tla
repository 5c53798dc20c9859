---------------------------- MODULE TransferCall ----------------------------
(* One call of `resolve_grants` and, when it returns Ok, of `apply_grants`, *)
(* one loop iteration per step. The callers (`spawn_child`, `ipc::send`)    *)
(* hold `&mut Kernel` and `&mut Process` throughout, so nothing interleaves *)
(* with the loops: the hazards are in the order of the loops' own effects   *)
(* (an early return half way, the second of two reissues, an `expect`).     *)
EXTENDS TransferOps, FiniteSets

CONSTANTS
  Handle, Object,
  Inputs   \* the calls considered: records [epochs, table, grants]

ASSUME InputsAssumption ==
  \A in \in Inputs :
    /\ DOMAIN in.epochs \subseteq Object
    /\ in.epochs \in [DOMAIN in.epochs -> Nat]
    /\ DOMAIN in.table \subseteq Handle
    /\ in.table \in [DOMAIN in.table -> Capability(Object)]
    /\ in.grants \in Seq(Grants(Handle))

VARIABLES
  input,         \* the arguments, as they were when the call began
  epochs,        \* `kernel`
  table,         \* `source`'s capabilities
  resolved,      \* `resolved`
  transferred,   \* `transferred`, the handles that leave the table
  i,             \* the index the current loop is at
  phase          \* "resolve", "conflicts", "apply"; then "Ok" or the error

vars == <<input, epochs, table, resolved, transferred, i, phase>>

grants == input.grants
grant == grants[i]

Init ==
  /\ input \in Inputs
  /\ epochs = input.epochs
  /\ table = input.table
  /\ resolved = <<>>
  /\ transferred = {}
  /\ i = 1
  /\ phase = "resolve"

At(loop) == phase = loop /\ i \in DOMAIN grants

Return(result) ==
  /\ phase' = result
  /\ UNCHANGED <<input, epochs, table, resolved, transferred, i>>

\* The loop is over: on to the next one.
Proceed(loop, next) ==
  /\ phase = loop
  /\ i \notin DOMAIN grants
  /\ phase' = next
  /\ i' = 1
  /\ UNCHANGED <<input, epochs, table, resolved, transferred>>

-----------------------------------------------------------------------------
(* resolve_grants, first loop *)

Duplicate == leaves(grant) /\ grant.handle \in transferred

RejectDuplicate == At("resolve") /\ Duplicate /\ Return("DuplicateTransfer")

RejectHandle ==
  /\ At("resolve")
  /\ ~Duplicate
  /\ grant.handle \notin DOMAIN table
  /\ Return("UnknownHandle")

\* `kernel.derive` and `kernel.check` refuse: the verdict of `check`, or, when
\* that is "Ok", the amplification `derive` tests last.
Refusal ==
  LET needed == IF grant.kind = "Derive" THEN {"GRANT"} ELSE {"DESTROY"}
      verdict == check(epochs, table[grant.handle], needed)
  IN  IF verdict = "Ok" THEN "CannotAmplify" ELSE verdict

RejectAuthority ==
  /\ At("resolve")
  /\ ~Duplicate
  /\ grant.handle \in DOMAIN table
  /\ ~Authorised(epochs, table, grant)
  /\ Return(Refusal)

held == table[grant.handle]

\* Mutant: the handle is taken while resolving, before the batch is known good.
ResolveOne_takesEarly ==
  /\ At("resolve")
  /\ ~Duplicate
  /\ grant.handle \in DOMAIN table
  /\ Authorised(epochs, table, grant)
  /\ resolved' = Append(resolved, IF grant.kind = "Derive" THEN derived(held, grant.rights)
                                                           ELSE held)
  /\ table' = IF leaves(grant) THEN [h \in DOMAIN table \ {grant.handle} |-> table[h]] ELSE table
  /\ i' = i + 1
  /\ UNCHANGED <<input, epochs, transferred, phase>>

ResolveOne ==
  /\ At("resolve")
  /\ ~Duplicate
  /\ grant.handle \in DOMAIN table
  /\ Authorised(epochs, table, grant)
  /\ resolved' = Append(resolved, IF grant.kind = "Derive" THEN derived(held, grant.rights)
                                                           ELSE held)
  /\ transferred' = transferred \union {h \in {grant.handle} : leaves(grant)}
  /\ i' = i + 1
  /\ UNCHANGED <<input, epochs, table, phase>>

-----------------------------------------------------------------------------
(* resolve_grants, second loop *)

\* Mutant: no MoveConflict check.
Conflict_never == FALSE

Conflict ==
  /\ grant.kind = "Move"
  /\ \E j \in DOMAIN resolved \ {i} : resolved[j].object = resolved[i].object

RejectConflict == At("conflicts") /\ Conflict /\ Return("MoveConflict")

NoConflict ==
  /\ At("conflicts")
  /\ ~Conflict
  /\ i' = i + 1
  /\ UNCHANGED <<input, epochs, table, resolved, transferred, phase>>

-----------------------------------------------------------------------------
(* apply_grants *)

Take == table' = [h \in DOMAIN table \ {grant.handle} |-> table[h]]

ApplyTransfer ==
  /\ At("apply")
  /\ grant.kind = "Transfer"
  /\ Take
  /\ i' = i + 1
  /\ UNCHANGED <<input, epochs, resolved, transferred, phase>>

ApplyDerive ==
  /\ At("apply")
  /\ grant.kind = "Derive"
  /\ i' = i + 1
  /\ UNCHANGED <<input, epochs, table, resolved, transferred, phase>>

\* What the `expect` on `kernel.reissue` relies on. Were it false the call would
\* panic: in the model it would stop here, with no next step.
CanReissue == Permits(epochs, resolved[i], {"DESTROY"})

\* Mutant: the moved capability is delivered as it is, nothing is revoked.
ApplyMove_noReissue ==
  /\ At("apply")
  /\ grant.kind = "Move"
  /\ Take
  /\ i' = i + 1
  /\ UNCHANGED <<input, epochs, resolved, transferred, phase>>

ApplyMove ==
  /\ At("apply")
  /\ grant.kind = "Move"
  /\ CanReissue
  /\ Take
  /\ epochs' = bumped(epochs, resolved[i].object)
  /\ resolved' = [resolved EXCEPT ![i] = reissued(epochs, resolved[i])]
  /\ i' = i + 1
  /\ UNCHANGED <<input, transferred, phase>>

Next ==
  \/ RejectDuplicate \/ RejectHandle \/ RejectAuthority \/ ResolveOne
  \/ Proceed("resolve", "conflicts")
  \/ RejectConflict \/ NoConflict
  \/ Proceed("conflicts", "apply")
  \/ ApplyTransfer \/ ApplyDerive \/ ApplyMove
  \/ Proceed("apply", "Ok")

Spec == Init /\ [][Next]_vars

-----------------------------------------------------------------------------
(* Properties *)

Errors == {"DuplicateTransfer", "UnknownHandle", "UnknownObject", "Revoked",
           "InsufficientRights", "CannotAmplify", "MoveConflict"}

\* The `expect` in `apply_grants` never fires: everything that holds when
\* `resolve_grants` returns still holds when the k-th reissue happens, after
\* the k-1 reissues before it.
NoPanic == At("apply") /\ grant.kind = "Move" => CanReissue

\* All or nothing (`spawn_child`, `send`): a refused batch leaves the source's
\* table and the kernel exactly as they were, however far the loops had got.
RefusedChangesNothing ==
  phase \in Errors => table = input.table /\ epochs = input.epochs

\* The two functions together compute TransferOps: same acceptance, same
\* delivery in the same order, same table and epochs left behind.
ComputesTheBatch ==
  /\ phase \in Errors => ~ValidBatch(input.epochs, input.table, grants)
  /\ phase = "Ok" =>
       /\ ValidBatch(input.epochs, input.table, grants)
       /\ resolved = Delivered(input.epochs, input.table, grants)
       /\ table = Remaining(input.table, grants)
       /\ epochs = AfterBatch(input.epochs, input.table, grants)

\* Nothing is dead on arrival: every capability delivered works, except a
\* `Transfer` of one that already did not work when the call began.
NothingDeadOnArrival ==
  phase = "Ok" =>
    \A j \in DOMAIN grants :
      \/ Live(epochs, resolved[j])
      \/ /\ grants[j].kind = "Transfer"
         /\ ~Live(input.epochs, input.table[grants[j].handle])
=============================================================================
