--------------------------- MODULE CapabilityOps ---------------------------
(* The operators of crate `capability`: rights, capability values, and what *)
(* the kernel's table of epochs says about a capability. The table is a     *)
(* parameter: Kernel.tla makes it a variable of its own, and the modules    *)
(* that compose the kernel with processes and channels share these          *)
(* definitions.                                                             *)
EXTENDS Integers

Right == {"READ", "WRITE", "EXECUTE", "GRANT", "DESTROY"}

\* `Rights` is a 5-bit set: `BitOr` is union, `BitAnd` is intersection.
Rights == SUBSET Right
NONE == {}
ALL == Right

contains(held, required) == required \subseteq held

\* `Capability`: a plain value (it is `Copy`), never tracked individually.
Capability(Object) == [object : Object, rights : Rights, epoch : Nat]

\* `Kernel.epochs` is a partial function: its domain is the objects that exist.
object_exists(epochs, object) == object \in DOMAIN epochs

Live(epochs, cap) ==
  /\ object_exists(epochs, cap.object)
  /\ epochs[cap.object] = cap.epoch

\* The verdict of `Kernel::check`, in the order the code tests: existence, then
\* the epoch, then the rights.
check(epochs, cap, required) ==
  CASE ~object_exists(epochs, cap.object) -> "UnknownObject"
    [] object_exists(epochs, cap.object) /\ ~Live(epochs, cap) -> "Revoked"
    [] Live(epochs, cap) /\ ~contains(cap.rights, required) -> "InsufficientRights"
    [] Live(epochs, cap) /\ contains(cap.rights, required) -> "Ok"

Permits(epochs, cap, required) == check(epochs, cap, required) = "Ok"

\* Mutant: the subset test with its operands swapped amplifies.
CanDerive_swapped(epochs, cap, requested) ==
  /\ Permits(epochs, cap, {"GRANT"})
  /\ contains(requested, cap.rights)

\* `Kernel::derive` succeeds: GRANT is held and nothing is amplified.
CanDerive(epochs, cap, requested) ==
  /\ Permits(epochs, cap, {"GRANT"})
  /\ contains(cap.rights, requested)

derived(cap, requested) == [cap EXCEPT !.rights = requested]

\* The table after `revoke`, and the capability `reissue` then returns.
bumped(epochs, object) == [epochs EXCEPT ![object] = @ + 1]

reissued(epochs, cap) == [cap EXCEPT !.epoch = bumped(epochs, cap.object)[cap.object]]

\* The table after `new_object` and after `destroy_object`.
inserted(epochs, object) ==
  [o \in DOMAIN epochs \union {object} |-> IF o = object THEN 0 ELSE epochs[o]]

removed(epochs, object) == [o \in DOMAIN epochs \ {object} |-> epochs[o]]
=============================================================================
