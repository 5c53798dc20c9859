----------------------------- MODULE Authority -----------------------------
(* What the capability kernel promises, without epochs or capability        *)
(* values: per object, which sets of rights can be exercised by whoever     *)
(* holds a capability of that strength.                                     *)
(*   - authority begins with the object's creation and only then;           *)
(*   - delegation never yields a right its origin lacks, and needs GRANT;   *)
(*   - with DESTROY, all authority can be withdrawn (for good: nothing      *)
(*     brings it back), handed over to one single holder, or ended together *)
(*     with the object.                                                     *)
CONSTANTS Object, Rights

VARIABLES
  status,       \* "unborn" | "alive" | "dead", per object
  exercisable   \* the rights of the capabilities that pass `check`, per object

vars == <<status, exercisable>>

Init ==
  /\ status = [o \in Object |-> "unborn"]
  /\ exercisable = [o \in Object |-> {}]

Commands(o) == \E held \in exercisable[o] : "DESTROY" \in held

Create(o, rights) ==
  /\ status[o] = "unborn"
  /\ status' = [status EXCEPT ![o] = "alive"]
  /\ exercisable' = [exercisable EXCEPT ![o] = {rights}]

Attenuate(o, held, rights) ==
  /\ "GRANT" \in held
  /\ exercisable' = [exercisable EXCEPT ![o] = @ \union {rights}]
  /\ UNCHANGED status

WithdrawAll(o) ==
  /\ Commands(o)
  /\ exercisable' = [exercisable EXCEPT ![o] = {}]
  /\ UNCHANGED status

HandOver(o, held) ==
  /\ "DESTROY" \in held
  /\ exercisable' = [exercisable EXCEPT ![o] = {held}]
  /\ UNCHANGED status

End(o) ==
  /\ Commands(o)
  /\ status' = [status EXCEPT ![o] = "dead"]
  /\ exercisable' = [exercisable EXCEPT ![o] = {}]

Next ==
  \E o \in Object :
    \/ \E rights \in Rights : Create(o, rights)
    \/ \E held \in exercisable[o] : \E rights \in SUBSET held : Attenuate(o, held, rights)
    \/ WithdrawAll(o)
    \/ \E held \in exercisable[o] : HandOver(o, held)
    \/ End(o)

Spec == Init /\ [][Next]_vars
=============================================================================
