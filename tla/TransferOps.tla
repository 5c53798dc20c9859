---------------------------- MODULE TransferOps -----------------------------
(* A batch of grants (`process/src/transfer.rs`) as one atomic step: when   *)
(* it is accepted, what it delivers, and what it leaves behind. Scheduler   *)
(* and channels use these definitions; TransferCall.tla shows, loop         *)
(* iteration by loop iteration, that `resolve_grants` followed by           *)
(* `apply_grants` computes exactly them.                                    *)
EXTENDS CapabilityOps, Sequences

\* `enum Grant`. Only `Derive` carries rights.
Transfer(h) == [kind |-> "Transfer", handle |-> h, rights |-> NONE]
Derive(h, r) == [kind |-> "Derive", handle |-> h, rights |-> r]
Move(h) == [kind |-> "Move", handle |-> h, rights |-> NONE]

Grants(Handle) ==
  [kind : {"Transfer", "Move"}, handle : Handle, rights : {NONE}]
    \union [kind : {"Derive"}, handle : Handle, rights : Rights]

\* The grants that take the handle out of the source's table.
leaves(grant) == grant.kind \in {"Transfer", "Move"}

NoDuplicateTransfer(grants) ==
  \A i, j \in DOMAIN grants :
    i # j /\ leaves(grants[i]) /\ leaves(grants[j]) => grants[i].handle # grants[j].handle

NoMoveConflict(table, grants) ==
  \A i, j \in DOMAIN grants :
    i # j /\ grants[i].kind = "Move"
      => table[grants[j].handle].object # table[grants[i].handle].object

Authorised(epochs, table, grant) ==
  LET held == table[grant.handle] IN
  /\ grant.kind = "Derive" => CanDerive(epochs, held, grant.rights)
  /\ grant.kind = "Move" => Permits(epochs, held, {"DESTROY"})

\* The batch is accepted. A `Transfer` asks nothing of the kernel: not even that
\* the capability still works.
ValidBatch(epochs, table, grants) ==
  /\ \A i \in DOMAIN grants : grants[i].handle \in DOMAIN table
  /\ NoDuplicateTransfer(grants)
  /\ \A i \in DOMAIN grants : Authorised(epochs, table, grants[i])
  /\ NoMoveConflict(table, grants)

\* Mutant: a `Move` delivers the placeholder, not the reissued capability.
Delivered_placeholder(epochs, table, grants) ==
  [i \in DOMAIN grants |->
     LET held == table[grants[i].handle] IN
     IF grants[i].kind = "Derive" THEN derived(held, grants[i].rights) ELSE held]

\* What the destination gets, in the order of the grants.
Delivered(epochs, table, grants) ==
  [i \in DOMAIN grants |->
     LET held == table[grants[i].handle] IN
     CASE grants[i].kind = "Transfer" -> held
       [] grants[i].kind = "Derive" -> derived(held, grants[i].rights)
       [] grants[i].kind = "Move" -> reissued(epochs, held)]

\* What the source keeps.
Remaining(table, grants) ==
  [h \in {k \in DOMAIN table :
            \A i \in DOMAIN grants : leaves(grants[i]) => grants[i].handle # k} |-> table[h]]

\* The kernel's table afterwards: every moved object has been reissued.
Moved(table, grants) ==
  {table[grants[i].handle].object : i \in {j \in DOMAIN grants : grants[j].kind = "Move"}}

\* Mutant: the kernel's epochs are not advanced.
AfterBatch_keepsEpochs(epochs, table, grants) == epochs

AfterBatch(epochs, table, grants) ==
  [o \in DOMAIN epochs |-> epochs[o] + (IF o \in Moved(table, grants) THEN 1 ELSE 0)]
=============================================================================
