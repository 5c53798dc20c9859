----------------------------- MODULE ProcessOps -----------------------------
(* `Process::grant`: where capabilities land in a process's table.          *)
EXTENDS TransferOps

CONSTANTS HandleSpace   \* number of values of `Handle(u32)`: 2^32 in the code

ASSUME ProcessAssumption == HandleSpace \in Nat \ {0}

Empty == [x \in {} |-> x]
SetOf(seq) == {seq[k] : k \in DOMAIN seq}

\* A map with one entry more, or with that entry replaced.
Extended(f, p, value) == [q \in DOMAIN f \union {p} |-> IF q = p THEN value ELSE f[q]]

\* Where the k-th capability granted goes. `next_handle += 1` wraps in a release
\* build.
HandleOf(next, k) == (next + k - 1) % HandleSpace

\* Mutant: the counter is not advanced between the grants of one message.
Granted_sameHandle(table, next, caps) ==
  [h \in DOMAIN table \union {HandleOf(next, 1) : k \in DOMAIN caps} |->
     IF h = HandleOf(next, 1) /\ caps # <<>> THEN caps[Len(caps)] ELSE table[h]]

\* The table after `grant` of each capability of a sequence, in order: a later
\* insert at the same handle replaces the earlier entry (`HashMap::insert`).
Granted(table, next, caps) ==
  LET At(h) == {k \in DOMAIN caps : HandleOf(next, k) = h}
  IN  [h \in DOMAIN table \union {HandleOf(next, k) : k \in DOMAIN caps} |->
         IF At(h) = {} THEN table[h]
         ELSE caps[CHOOSE k \in At(h) : \A j \in At(h) : j <= k]]

NextHandle(next, caps) == HandleOf(next, Len(caps) + 1)
=============================================================================
