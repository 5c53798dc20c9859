--------------------------- MODULE MCTransferCall ---------------------------
EXTENDS TransferCall

\* Object 0 has been reissued once, object 1 never, object 2 was destroyed.
HandleDef == 0 .. 2
ObjectDef == 0 .. 2
EpochsDef == [o \in {0, 1} |-> IF o = 0 THEN 1 ELSE 0]

Cap(o, r, e) == [object |-> o, rights |-> r, epoch |-> e]

\* Working, attenuated, stale, and of a destroyed object.
Caps == {Cap(0, ALL, 1), Cap(0, {"READ", "GRANT"}, 1), Cap(0, ALL, 0),
         Cap(1, ALL, 0), Cap(2, ALL, 0)}

\* Handle 2 is never in the table.
Tables == [0 .. 1 -> Caps]

Wanted == {{"READ"}, {"READ", "GRANT"}, ALL}

AllGrants == {Transfer(h) : h \in HandleDef} \union {Move(h) : h \in HandleDef}
               \union {Derive(h, r) : h \in HandleDef, r \in Wanted}

\* Any two grants; three, when all name handles that exist.
KnownGrants == {Transfer(h) : h \in 0 .. 1} \union {Move(h) : h \in 0 .. 1}
                 \union {Derive(h, {"READ", "GRANT"}) : h \in 0 .. 1}

Batches == {<<>>} \union [{1} -> AllGrants] \union [1 .. 2 -> AllGrants]
             \union [1 .. 3 -> KnownGrants]

InputsDef == [epochs : {EpochsDef}, table : Tables, grants : Batches]
=============================================================================
