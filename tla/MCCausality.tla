---------------------------- MODULE MCCausality -----------------------------
EXTENDS CausalAudit, TLC

\* Nothing tells one channel from another.
Channels == Permutations(Channel)
=============================================================================
