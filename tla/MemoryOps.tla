----------------------------- MODULE MemoryOps ------------------------------
(* crate `memory`, the pure part: which access the registry allows, and     *)
(* what it does to a region's bytes. Bytes are numbered from 0; offsets and *)
(* lengths are `usize`, of UsizeValues values.                              *)
EXTENDS CapabilityOps, FiniteSets

RegionRights == {"READ", "WRITE", "GRANT", "DESTROY"}

zeroed(size) == [i \in 0 .. size - 1 |-> 0]

size_of(bytes) == Cardinality(DOMAIN bytes)

\* Mutant: `offset + len` as a release build computes it.
in_bounds_wrapping(UsizeValues, bytes, offset, len) ==
  (offset + len) % UsizeValues <= size_of(bytes)

\* `checked_add` gives no end past the largest `usize`.
in_bounds(UsizeValues, bytes, offset, len) ==
  /\ offset + len < UsizeValues
  /\ offset + len <= size_of(bytes)

\* `kernel.check`, then the region exists: what `inspect` and `update` ask.
accessible(epochs, regions, cap, required) ==
  /\ Permits(epochs, cap, required)
  /\ cap.object \in DOMAIN regions

\* Mutant: the rights are looked at without asking the kernel.
checked_range_rightsOnly(UsizeValues, epochs, regions, cap, required, offset, len) ==
  /\ contains(cap.rights, required)
  /\ cap.object \in DOMAIN regions
  /\ in_bounds(UsizeValues, regions[cap.object], offset, len)

\* What every other access asks: `checked_range`, with its range.
checked_range(UsizeValues, epochs, regions, cap, required, offset, len) ==
  /\ accessible(epochs, regions, cap, required)
  /\ in_bounds(UsizeValues, regions[cap.object], offset, len)

overwritten(bytes, offset, data) ==
  [i \in DOMAIN bytes |-> IF i - offset \in DOMAIN data THEN data[i - offset] ELSE bytes[i]]
=============================================================================
