---------------------------- MODULE MCScheduler -----------------------------
EXTENDS Scheduler

\* An object that can be delegated and destroyed; a weaker view, and an equal one.
NewRightsDef == {{"READ", "GRANT", "DESTROY"}}
DerivedRightsDef == {{"READ"}, {"READ", "GRANT", "DESTROY"}}
Kinds == {"Transfer", "Derive", "Move"}

\* Every batch of up to two grants.
ShapesDef == {<<>>} \union [{1} -> Kinds] \union [1 .. 2 -> Kinds]
=============================================================================
