-------------------------- MODULE CapabilityLemmas --------------------------
(* What the operators of CapabilityOps guarantee, for the proofs about the  *)
(* kernel and everything that calls it.                                     *)
EXTENDS CapabilityOps, TLAPS

\* The four verdicts of `check` exclude one another and cover every case.
LEMMA CheckVerdict ==
  ASSUME NEW table, NEW cap, NEW required
  PROVE  /\ check(table, cap, required) = "UnknownObject" <=> ~object_exists(table, cap.object)
         /\ check(table, cap, required) = "Revoked"
              <=> object_exists(table, cap.object) /\ ~Live(table, cap)
         /\ check(table, cap, required) = "InsufficientRights"
              <=> Live(table, cap) /\ ~contains(cap.rights, required)
         /\ check(table, cap, required) = "Ok"
              <=> Live(table, cap) /\ contains(cap.rights, required)
<1>1. CASE ~object_exists(table, cap.object)
  BY <1>1 DEF check, Live
<1>2. CASE object_exists(table, cap.object) /\ ~Live(table, cap)
  BY <1>2 DEF check
<1>3. CASE Live(table, cap) /\ ~contains(cap.rights, required)
  BY <1>3 DEF check, Live
<1>4. CASE Live(table, cap) /\ contains(cap.rights, required)
  BY <1>4 DEF check, Live
<1> QED BY <1>1, <1>2, <1>3, <1>4

\* Whatever `check` lets through works, and has the rights that were asked for.
LEMMA PermitsIsLive ==
  ASSUME NEW table, NEW cap, NEW required, Permits(table, cap, required)
  PROVE  Live(table, cap) /\ required \subseteq cap.rights
BY CheckVerdict DEF Permits, contains

LEMMA PermitsWhenLive ==
  ASSUME NEW table, NEW cap, NEW required
  PROVE  Permits(table, cap, required) <=> Live(table, cap) /\ required \subseteq cap.rights
BY CheckVerdict DEF Permits, contains

\* A refusal is one of these.
LEMMA Refusals ==
  ASSUME NEW table, NEW cap, NEW required, ~Permits(table, cap, required)
  PROVE  check(table, cap, required) \in {"UnknownObject", "Revoked", "InsufficientRights"}
BY CheckVerdict DEF Permits
=============================================================================
