------------------------------ MODULE MCChaos ------------------------------
EXTENDS Chaos

\* Within a region of two bytes, across its end, and past it.
SpansDef == {<<1, 1>>, <<1, 2>>, <<3, 0>>}

\* A view to pass on, and one that may write and free but not be derived from:
\* each of the two asks for what the other does not have.
ArbRightsDef == {{"READ", "GRANT"}, {"WRITE", "DESTROY"}}
=============================================================================
