------------------------------ MODULE DataOps -------------------------------
(* `workload/src/data.rs`, the work done on a region. A region's contents   *)
(* are what was done to make them: the fill with a batch's bytes, which     *)
(* leaves nothing of what was there before, then each transform in order.   *)
(* Transforms do not commute and a checksum tells contents apart (up to the *)
(* collisions of a 64-bit hash), so this keeps what the results depend on.  *)
EXTENDS Integers, Sequences

Zeroed == <<>>

\* Mutant: the fill starts from what the region's last user left behind.
fill_batch_appends(batch, contents) == Append(contents, [fill |-> batch])

fill_batch(batch, contents) == <<[fill |-> batch]>>

transform(stage, contents) == Append(contents, [transform |-> stage])

checksum(contents) == [of |-> contents]

\* One batch computed directly, with no processes and no channels.
reference_checksum(batch, stages) ==
  LET after[n \in 0 .. stages] ==
        IF n = 0 THEN fill_batch(batch, Zeroed) ELSE transform(n - 1, after[n - 1])
  IN  checksum(after[stages])
=============================================================================
