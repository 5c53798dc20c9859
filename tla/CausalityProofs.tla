-------------------------- MODULE CausalityProofs ---------------------------
(* Stamps decide causality: theorems of Causality.tla, and of the harness's *)
(* audit in CausalAudit.tla, for any number of processes, channels, events  *)
(* and queued messages.                                                     *)
EXTENDS CausalAudit, FiniteSetTheorems, WellFoundedInduction, TLAPS

(***************************************************************************)
(* Vector clocks: what each operation does to `get`.                       *)
(***************************************************************************)

IsVector(v) == DOMAIN v \subseteq Process /\ v \in [DOMAIN v -> Nat]

LEMMA GetNat ==
  ASSUME NEW v, IsVector(v), NEW q
  PROVE  get(v, q) \in Nat
BY DEF IsVector, get

LEMMA TickGet ==
  ASSUME NEW v, IsVector(v), NEW p \in Process
  PROVE  /\ IsVector(tick(v, p))
         /\ get(tick(v, p), p) = get(v, p) + 1
         /\ \A q : q # p => get(tick(v, p), q) = get(v, q)
<1>1. \A q : get(v, q) \in Nat
  BY GetNat
<1>2. DOMAIN tick(v, p) = DOMAIN v \union {p}
  BY DEF tick
<1>3. \A q \in DOMAIN v \union {p} : tick(v, p)[q] = get(v, q) + (IF q = p THEN 1 ELSE 0)
  BY DEF tick
<1>4. IsVector(tick(v, p))
  <2>1. \A q \in DOMAIN v \union {p} : tick(v, p)[q] \in Nat
    BY <1>1, <1>3
  <2>2. tick(v, p) \in [DOMAIN v \union {p} -> Nat]
    BY <1>1 DEF tick
  <2> QED BY <1>2, <2>2 DEF IsVector
<1>5. get(tick(v, p), p) = get(v, p) + 1
  BY <1>1, <1>2, <1>3 DEF get
<1>6. ASSUME NEW q, q # p PROVE get(tick(v, p), q) = get(v, q)
  BY <1>1, <1>2, <1>3, <1>6 DEF get
<1> QED BY <1>4, <1>5, <1>6

LEMMA MergeGet ==
  ASSUME NEW v, NEW w, IsVector(v), IsVector(w)
  PROVE  /\ IsVector(merge(v, w))
         /\ \A q : /\ get(v, q) <= get(merge(v, w), q)
                   /\ get(w, q) <= get(merge(v, w), q)
                   /\ get(merge(v, w), q) \in {get(v, q), get(w, q)}
<1>1. \A q : get(v, q) \in Nat /\ get(w, q) \in Nat
  BY GetNat
<1>2. DOMAIN merge(v, w) = DOMAIN v \union DOMAIN w
  BY DEF merge
<1>3. \A q \in DOMAIN v \union DOMAIN w :
        merge(v, w)[q] = IF get(v, q) < get(w, q) THEN get(w, q) ELSE get(v, q)
  BY DEF merge
<1>4. IsVector(merge(v, w))
  <2>1. merge(v, w) \in [DOMAIN v \union DOMAIN w -> Nat]
    BY <1>1 DEF merge
  <2> QED BY <1>2, <2>1 DEF IsVector
<1>5. ASSUME NEW q
      PROVE  /\ get(v, q) <= get(merge(v, w), q)
             /\ get(w, q) <= get(merge(v, w), q)
             /\ get(merge(v, w), q) \in {get(v, q), get(w, q)}
  <2>1. CASE q \in DOMAIN v \union DOMAIN w
    <3>1. get(merge(v, w), q) = IF get(v, q) < get(w, q) THEN get(w, q) ELSE get(v, q)
      BY <1>2, <1>3, <2>1 DEF get
    <3> QED BY <1>1, <3>1
  <2>2. CASE q \notin DOMAIN v \union DOMAIN w
    BY <1>2, <2>2 DEF get
  <2> QED BY <2>1, <2>2
<1> QED BY <1>4, <1>5

\* `compare` looks only at the processes either clock has heard of, and that is
\* enough.
LEMMA CompareVerdict ==
  ASSUME NEW v, NEW w, IsVector(v), IsVector(w)
  PROVE  /\ compare(v, w) = "Before"
              <=> /\ \A q \in Process : get(v, q) <= get(w, q)
                  /\ \E q \in Process : get(v, q) < get(w, q)
         /\ compare(v, w) = "Equal" <=> \A q \in Process : get(v, q) = get(w, q)
         /\ compare(v, w) = "Concurrent"
              <=> /\ \E q \in Process : get(v, q) < get(w, q)
                  /\ \E q \in Process : get(w, q) < get(v, q)
<1>1. \A q : get(v, q) \in Nat /\ get(w, q) \in Nat
  BY GetNat
<1>2. some_less(v, w) <=> \E q \in Process : get(v, q) < get(w, q)
  <2>1. ASSUME NEW q \in Process, get(v, q) < get(w, q) PROVE q \in DOMAIN v \union DOMAIN w
    BY <2>1 DEF get
  <2> QED BY <2>1 DEF some_less, IsVector
<1>3. some_less(w, v) <=> \E q \in Process : get(w, q) < get(v, q)
  <2>1. ASSUME NEW q \in Process, get(w, q) < get(v, q) PROVE q \in DOMAIN v \union DOMAIN w
    BY <2>1 DEF get
  <2> QED BY <2>1 DEF some_less, IsVector
<1>4. /\ compare(v, w) = "Before" <=> some_less(v, w) /\ ~some_less(w, v)
      /\ compare(v, w) = "Equal" <=> ~some_less(v, w) /\ ~some_less(w, v)
      /\ compare(v, w) = "Concurrent" <=> some_less(v, w) /\ some_less(w, v)
  <2>1. CASE some_less(v, w) /\ some_less(w, v)
    BY <2>1 DEF compare
  <2>2. CASE some_less(v, w) /\ ~some_less(w, v)
    BY <2>2 DEF compare
  <2>3. CASE ~some_less(v, w) /\ some_less(w, v)
    BY <2>3 DEF compare
  <2>4. CASE ~some_less(v, w) /\ ~some_less(w, v)
    BY <2>4 DEF compare
  <2> QED BY <2>1, <2>2, <2>3, <2>4
<1>5. (\A q \in Process : get(v, q) <= get(w, q)) <=> ~some_less(w, v)
  BY <1>1, <1>3
<1>6. (\A q \in Process : get(v, q) = get(w, q)) <=> ~some_less(v, w) /\ ~some_less(w, v)
  BY <1>1, <1>2, <1>3
<1> QED BY <1>2, <1>3, <1>4, <1>5, <1>6

(***************************************************************************)
(* Histories whose stamps are exact.                                       *)
(***************************************************************************)

Knows(h, e, q) == get(h.at[e].stamp.vector, q)

WellFormed(h) ==
  /\ h.count \in [Process -> Nat]
  /\ Events(h) = {e \in Process \X (Nat \ {0}) : e[2] <= h.count[e[1]]}
  /\ \A e \in Events(h) :
       /\ IsStampOf(h.at[e].stamp, e[1])
       /\ h.at[e].past \subseteq Events(h)

\* What e's stamp says about process q: a count of q's events, e's own number for
\* e's process, and exactly the events in e's past (and e itself).
ExactAt(h, e) ==
  /\ \A q \in Process : Knows(h, e, q) <= h.count[q]
  /\ Knows(h, e, e[1]) = e[2]
  /\ \A f \in Events(h) : f[2] <= Knows(h, e, f[1]) <=> f \in h.at[e].past \union {e}

\* The past is a strict order that both clocks follow.
OrderedAt(h, e) ==
  /\ e \notin h.at[e].past
  /\ \A f \in h.at[e].past :
       /\ h.at[f].past \subseteq h.at[e].past
       /\ \A q \in Process : Knows(h, f, q) <= Knows(h, e, q)
       /\ h.at[f].stamp.lamport < h.at[e].stamp.lamport

Exact(h) == WellFormed(h) /\ \A e \in Events(h) : ExactAt(h, e) /\ OrderedAt(h, e)

LEMMA StampFacts ==
  ASSUME NEW h, WellFormed(h), NEW e \in Events(h)
  PROVE  /\ IsVector(h.at[e].stamp.vector)
         /\ h.at[e].stamp.lamport \in Nat
         /\ h.at[e].stamp.process = e[1]
         /\ \A q : Knows(h, e, q) \in Nat
         /\ e \in Process \X (Nat \ {0})
         /\ e[1] \in Process /\ e[2] \in Nat \ {0} /\ e = <<e[1], e[2]>>
         /\ e[2] <= h.count[e[1]] /\ h.count[e[1]] \in Nat
<1>1. IsStampOf(h.at[e].stamp, e[1])
  BY DEF WellFormed
<1>2. IsVector(h.at[e].stamp.vector) /\ h.at[e].stamp.lamport \in Nat /\ h.at[e].stamp.process = e[1]
  BY <1>1 DEF IsStampOf, IsVector
<1>3. \A q : Knows(h, e, q) \in Nat
  BY <1>2, GetNat DEF Knows
<1> QED BY <1>2, <1>3 DEF WellFormed

\* The new event's stamp knows, of every other process, the most that any source
\* knows, and no more; and it is later than every source.
Covers(h, p, stamp, sources) ==
  /\ IsStampOf(stamp, p)
  /\ get(stamp.vector, p) = h.count[p] + 1
  /\ \A q \in Process \ {p} :
       /\ \A s \in sources : Knows(h, s, q) <= get(stamp.vector, q)
       /\ get(stamp.vector, q) = 0 \/ \E s \in sources : Knows(h, s, q) = get(stamp.vector, q)
  /\ \A s \in sources : h.at[s].stamp.lamport < stamp.lamport

\* Recording an event whose stamp covers its sources keeps the history exact.
LEMMA RecordExact ==
  ASSUME NEW h, Exact(h), NEW p \in Process, NEW stamp, NEW heard \in SUBSET Events(h),
         Covers(h, p, stamp, Last(h, p) \union heard)
  PROVE  /\ Exact(Record(h, p, stamp, heard))
         /\ Events(Record(h, p, stamp, heard)) = Events(h) \union {NextEvent(h, p)}
         /\ Record(h, p, stamp, heard).at[NextEvent(h, p)].stamp = stamp
         /\ NextEvent(h, p) \notin Events(h)
         /\ \A e \in Events(h) : Record(h, p, stamp, heard).at[e] = h.at[e]
         /\ Record(h, p, stamp, heard).count = [h.count EXCEPT ![p] = @ + 1]
<1> DEFINE h2 == Record(h, p, stamp, heard)
           g == NextEvent(h, p)
           S == Last(h, p) \union heard
           P == UpTo(h, S)
<1>1. /\ h.count \in [Process -> Nat]
      /\ Events(h) = {e \in Process \X (Nat \ {0}) : e[2] <= h.count[e[1]]}
      /\ \A e \in Events(h) : IsStampOf(h.at[e].stamp, e[1]) /\ h.at[e].past \subseteq Events(h)
      /\ \A e \in Events(h) : ExactAt(h, e) /\ OrderedAt(h, e)
  BY DEF Exact, WellFormed
<1>2. WellFormed(h)
  BY DEF Exact
<1>3. \A e \in Events(h) : /\ \A q : Knows(h, e, q) \in Nat
                            /\ h.at[e].stamp.lamport \in Nat
                            /\ e[1] \in Process /\ e[2] \in Nat \ {0} /\ e = <<e[1], e[2]>>
                            /\ e[2] <= h.count[e[1]] /\ h.count[e[1]] \in Nat
  BY <1>2, StampFacts
<1>4. Last(h, p) \subseteq Events(h) /\ (h.count[p] # 0 => Last(h, p) = {<<p, h.count[p]>>})
  BY <1>1 DEF Last
<1>5. S \subseteq Events(h) /\ P \subseteq Events(h)
  BY <1>1, <1>4 DEF UpTo
<1>6. g = <<p, h.count[p] + 1>> /\ g[1] = p /\ g[2] = h.count[p] + 1 /\ g \notin Events(h)
  BY <1>1 DEF NextEvent
<1>7. /\ h2.count = [h.count EXCEPT ![p] = @ + 1]
      /\ Events(h2) = Events(h) \union {g}
      /\ h2.at[g] = [stamp |-> stamp, past |-> P]
      /\ \A e \in Events(h) : h2.at[e] = h.at[e]
  BY <1>6 DEF Record, Events
<1>8. /\ h2.at[g].stamp = stamp /\ h2.at[g].past = P
      /\ \A q : Knows(h2, g, q) = get(stamp.vector, q)
      /\ \A e \in Events(h) : \A q : Knows(h2, e, q) = Knows(h, e, q)
  BY <1>7 DEF Knows
<1>9. /\ h2.count \in [Process -> Nat] /\ h2.count[p] = h.count[p] + 1
      /\ \A q \in Process : q # p => h2.count[q] = h.count[q]
      /\ \A q \in Process : h.count[q] \in Nat /\ h2.count[q] \in Nat /\ h.count[q] <= h2.count[q]
  BY <1>1, <1>7
<1>10. /\ IsStampOf(stamp, p)
       /\ get(stamp.vector, p) = h.count[p] + 1
       /\ \A s \in S : h.at[s].stamp.lamport < stamp.lamport
       /\ \A q \in Process \ {p} :
            /\ \A s \in S : Knows(h, s, q) <= get(stamp.vector, q)
            /\ get(stamp.vector, q) = 0 \/ \E s \in S : Knows(h, s, q) = get(stamp.vector, q)
  BY DEF Covers
<1>11. stamp.lamport \in Nat /\ \A q : get(stamp.vector, q) \in Nat
  BY <1>10, GetNat DEF IsStampOf, IsVector
<1>12. \A f \in P : \E s \in S : f = s \/ f \in h.at[s].past
  BY DEF UpTo
<1>13. \A s \in S : s \in P /\ h.at[s].past \subseteq P
  BY DEF UpTo
<1>14. WellFormed(h2)
  <2>1. Events(h2) = {e \in Process \X (Nat \ {0}) : e[2] <= h2.count[e[1]]}
    <3>1. ASSUME NEW e \in Process \X (Nat \ {0})
          PROVE  e[2] <= h2.count[e[1]] <=> e \in Events(h) \/ e = g
      <4>1. e = <<e[1], e[2]>> /\ e[1] \in Process /\ e[2] \in Nat \ {0}
        OBVIOUS
      <4>2. e \in Events(h) <=> e[2] <= h.count[e[1]]
        BY <1>1
      <4>3. e = g <=> e[1] = p /\ e[2] = h.count[p] + 1
        BY <1>6, <4>1
      <4> QED BY <1>9, <4>1, <4>2, <4>3
    <3>2. g \in Process \X (Nat \ {0})
      BY <1>6, <1>9
    <3> HIDE DEF h2, g
    <3> QED BY <1>1, <1>7, <3>1, <3>2
  <2>2. ASSUME NEW e \in Events(h2)
        PROVE  IsStampOf(h2.at[e].stamp, e[1]) /\ h2.at[e].past \subseteq Events(h2)
    <3>1. CASE e = g
      BY <1>5, <1>6, <1>7, <1>8, <1>10, <3>1
    <3>2. CASE e \in Events(h)
      BY <1>1, <1>7, <3>2
    <3> QED BY <1>7, <3>1, <3>2
  <2> QED BY <1>9, <2>1, <2>2 DEF WellFormed
<1> HIDE DEF h2, g, S, P
<1>15. ASSUME NEW e \in Events(h) PROVE ExactAt(h2, e) /\ OrderedAt(h2, e)
  <2>1. /\ \A q \in Process : Knows(h, e, q) <= h.count[q]
        /\ Knows(h, e, e[1]) = e[2]
        /\ \A f \in Events(h) : f[2] <= Knows(h, e, f[1]) <=> f \in h.at[e].past \union {e}
    BY <1>1 DEF ExactAt
  <2>2. \A q \in Process : Knows(h2, e, q) <= h2.count[q]
    BY <1>3, <1>8, <1>9, <2>1
  <2>3. Knows(h2, e, e[1]) = e[2]
    BY <1>8, <2>1
  <2>4. ~(g[2] <= Knows(h2, e, g[1])) /\ g \notin h.at[e].past \union {e}
    BY <1>1, <1>3, <1>6, <1>8, <1>9, <2>1
  <2>5. \A f \in Events(h2) : f[2] <= Knows(h2, e, f[1]) <=> f \in h2.at[e].past \union {e}
    BY <1>7, <1>8, <2>1, <2>4
  <2>6. OrderedAt(h2, e)
    BY <1>1, <1>7, <1>8 DEF OrderedAt
  <2> QED BY <2>2, <2>3, <2>5, <2>6 DEF ExactAt
<1>16. ExactAt(h2, g)
  <2>1. ASSUME NEW q \in Process PROVE Knows(h2, g, q) <= h2.count[q]
    <3>1. CASE q = p
      BY <1>8, <1>9, <1>10, <3>1
    <3>2. CASE q # p /\ get(stamp.vector, q) = 0
      BY <1>8, <1>9, <3>2
    <3>3. CASE q # p /\ get(stamp.vector, q) # 0
      <4>1. PICK s \in S : Knows(h, s, q) = get(stamp.vector, q)
        BY <1>10, <3>3
      <4>2. Knows(h, s, q) <= h.count[q]
        BY <1>1, <1>5, <4>1 DEF ExactAt
      <4> QED BY <1>8, <1>9, <3>3, <4>1, <4>2
    <3> QED BY <3>1, <3>2, <3>3
  <2>2. Knows(h2, g, g[1]) = g[2]
    BY <1>6, <1>8, <1>10
  <2>3. ASSUME NEW f \in Events(h), f[1] = p PROVE f[2] <= get(stamp.vector, p) /\ f \in P
    <3>1. f[2] <= h.count[p] /\ h.count[p] \in Nat /\ h.count[p] # 0
      BY <1>3, <2>3
    <3>2. <<p, h.count[p]>> \in S /\ <<p, h.count[p]>> \in Events(h)
      BY <1>4, <3>1 DEF S
    <3>3. f \in h.at[<<p, h.count[p]>>].past \union {<<p, h.count[p]>>}
      <4>1. ExactAt(h, <<p, h.count[p]>>)
        BY <1>1, <3>2
      <4>2. Knows(h, <<p, h.count[p]>>, p) = h.count[p]
        BY <4>1 DEF ExactAt
      <4> QED BY <2>3, <3>1, <4>1, <4>2 DEF ExactAt
    <3> QED BY <1>3, <1>10, <1>13, <2>3, <3>1, <3>2, <3>3
  <2>4. ASSUME NEW f \in Events(h), f[1] # p
        PROVE  f[2] <= get(stamp.vector, f[1]) <=> f \in P
    <3>1. ASSUME f[2] <= get(stamp.vector, f[1]) PROVE f \in P
      <4>1. get(stamp.vector, f[1]) # 0
        BY <1>3, <1>11, <3>1
      <4>2. PICK s \in S : Knows(h, s, f[1]) = get(stamp.vector, f[1])
        BY <1>3, <1>10, <2>4, <4>1
      <4>3. f \in h.at[s].past \union {s}
        BY <1>1, <1>5, <3>1, <4>2 DEF ExactAt
      <4> QED BY <1>13, <4>3
    <3>2. ASSUME f \in P PROVE f[2] <= get(stamp.vector, f[1])
      <4>1. PICK s \in S : f = s \/ f \in h.at[s].past
        BY <1>12, <3>2
      <4>2. f[2] <= Knows(h, s, f[1])
        BY <1>1, <1>5, <4>1 DEF ExactAt
      <4>3. Knows(h, s, f[1]) <= get(stamp.vector, f[1])
        BY <1>3, <1>10, <2>4
      <4> QED BY <1>3, <1>5, <1>11, <4>2, <4>3
    <3> QED BY <3>1, <3>2
  <2>5. ASSUME NEW f \in Events(h2)
        PROVE  f[2] <= Knows(h2, g, f[1]) <=> f \in h2.at[g].past \union {g}
    <3>1. CASE f = g
      <4>1. f[2] = Knows(h2, g, f[1]) /\ f[2] \in Nat
        BY <1>6, <1>9, <2>2, <3>1
      <4> QED BY <3>1, <4>1
    <3>2. CASE f \in Events(h)
      BY <1>6, <1>8, <2>3, <2>4, <3>2
    <3> QED BY <1>7, <3>1, <3>2
  <2> QED BY <2>1, <2>2, <2>5 DEF ExactAt
<1>17. OrderedAt(h2, g)
  <2>1. g \notin h2.at[g].past
    BY <1>5, <1>6, <1>8
  <2>2. ASSUME NEW f \in P
        PROVE  /\ h2.at[f].past \subseteq P
               /\ \A q \in Process : Knows(h2, f, q) <= Knows(h2, g, q)
               /\ h2.at[f].stamp.lamport < h2.at[g].stamp.lamport
    <3>1. f \in Events(h) /\ h2.at[f] = h.at[f]
      BY <1>5, <1>7
    <3>2. PICK s \in S : f = s \/ f \in h.at[s].past
      BY <1>12
    <3>3. s \in Events(h) /\ OrderedAt(h, s) /\ h.at[s].stamp.lamport < stamp.lamport
      BY <1>1, <1>5, <1>10
    <3>4. /\ h.at[f].past \subseteq h.at[s].past
          /\ \A q \in Process : Knows(h, f, q) <= Knows(h, s, q)
          /\ h.at[f].stamp.lamport <= h.at[s].stamp.lamport
      BY <1>3, <3>1, <3>2, <3>3 DEF OrderedAt
    <3>5. ASSUME NEW q \in Process PROVE Knows(h2, f, q) <= Knows(h2, g, q)
      <4>1. Knows(h, f, q) <= h.count[q]
        BY <1>1, <3>1 DEF ExactAt
      <4>2. CASE q = p
        BY <1>3, <1>8, <1>9, <1>10, <3>1, <4>1, <4>2
      <4>3. CASE q # p
        <5>1. Knows(h, s, q) <= get(stamp.vector, q)
          BY <1>10, <4>3
        <5> QED BY <1>3, <1>8, <1>11, <3>1, <3>3, <3>4, <5>1
      <4> QED BY <4>2, <4>3
    <3>6. h2.at[f].stamp.lamport < h2.at[g].stamp.lamport
      BY <1>3, <1>8, <1>11, <3>1, <3>3, <3>4
    <3> QED BY <1>13, <3>1, <3>2, <3>3, <3>4, <3>5, <3>6
  <2> QED BY <1>8, <2>1, <2>2 DEF OrderedAt
<1>18. Exact(h2)
  BY <1>7, <1>14, <1>15, <1>16, <1>17 DEF Exact
<1> QED BY <1>6, <1>7, <1>8, <1>18 DEF h2, g

(***************************************************************************)
(* A process's clock is the stamp of its last event; its next stamp covers *)
(* what it and the message it receives know.                               *)
(***************************************************************************)

Current(h, p, c) ==
  /\ IsStampOf(c, p)
  /\ IF h.count[p] = 0 THEN c = NewClock(p) ELSE c = h.at[<<p, h.count[p]>>].stamp

LEMMA CurrentFacts ==
  ASSUME NEW h, Exact(h), NEW p \in Process, NEW c, Current(h, p, c)
  PROVE  /\ IsVector(c.vector) /\ c.lamport \in Nat /\ c.process = p
         /\ c = [process |-> p, lamport |-> c.lamport, vector |-> c.vector]
         /\ h.count[p] \in Nat
         /\ get(c.vector, p) = h.count[p]
         /\ Last(h, p) \subseteq Events(h)
         /\ \A s \in Last(h, p) : c = h.at[s].stamp
         /\ Last(h, p) = {} => c.lamport = 0 /\ \A q : get(c.vector, q) = 0
<1>1. /\ IsVector(c.vector) /\ c.lamport \in Nat /\ c.process = p
      /\ c = [process |-> p, lamport |-> c.lamport, vector |-> c.vector]
  BY DEF Current, IsStampOf, IsVector
<1>2. h.count[p] \in Nat
  BY DEF Exact, WellFormed
<1>3. CASE h.count[p] = 0
  <2>1. Last(h, p) = {} /\ c.lamport = 0 /\ c.vector = NoEntries
    BY <1>3 DEF Last, Current, NewClock
  <2>2. \A q : get(c.vector, q) = 0
    BY SMTT(20), <2>1 DEF get, NoEntries
  <2> QED BY <1>1, <1>2, <1>3, <2>1, <2>2
<1>4. CASE h.count[p] # 0
  <2>1. Last(h, p) = {<<p, h.count[p]>>} /\ c = h.at[<<p, h.count[p]>>].stamp
    BY <1>4 DEF Last, Current
  <2>2. <<p, h.count[p]>> \in Events(h)
    BY <1>2, <1>4 DEF Exact, WellFormed
  <2>3. get(c.vector, p) = h.count[p]
    BY <2>1, <2>2 DEF Exact, ExactAt, Knows
  <2> QED BY <1>1, <1>2, <2>1, <2>2, <2>3
<1> QED BY <1>3, <1>4

LEMMA LocalCovers ==
  ASSUME NEW h, Exact(h), NEW p \in Process, NEW c, Current(h, p, c)
  PROVE  Covers(h, p, local_event(c), Last(h, p) \union {})
<1> DEFINE new == local_event(c)
<1>1. /\ IsVector(c.vector) /\ c.lamport \in Nat /\ c.process = p
      /\ c = [process |-> p, lamport |-> c.lamport, vector |-> c.vector]
      /\ get(c.vector, p) = h.count[p] /\ h.count[p] \in Nat
      /\ \A s \in Last(h, p) : c = h.at[s].stamp
      /\ Last(h, p) = {} => c.lamport = 0 /\ \A q : get(c.vector, q) = 0
  BY CurrentFacts
<1>2. new = [process |-> p, lamport |-> c.lamport + 1, vector |-> tick(c.vector, p)]
  BY <1>1 DEF local_event, lamport_tick
<1>3. /\ IsVector(new.vector)
      /\ get(new.vector, p) = h.count[p] + 1
      /\ \A q : q # p => get(new.vector, q) = get(c.vector, q)
      /\ \A q : get(c.vector, q) \in Nat
  BY <1>1, <1>2, TickGet, GetNat
<1>4. IsStampOf(new, p)
  BY <1>1, <1>2, <1>3 DEF IsStampOf, IsVector
<1>5. ASSUME NEW q \in Process \ {p}
      PROVE  /\ \A s \in Last(h, p) : Knows(h, s, q) <= get(new.vector, q)
             /\ get(new.vector, q) = 0 \/ \E s \in Last(h, p) : Knows(h, s, q) = get(new.vector, q)
  BY <1>1, <1>3 DEF Knows
<1>6. \A s \in Last(h, p) : h.at[s].stamp.lamport < new.lamport
  BY <1>1, <1>2
<1> QED BY <1>3, <1>4, <1>5, <1>6 DEF Covers

LEMMA ReceiveCovers ==
  ASSUME NEW h, Exact(h), NEW p \in Process, NEW c, Current(h, p, c), NEW e \in Events(h)
  PROVE  Covers(h, p, receive_event(c, h.at[e].stamp), Last(h, p) \union {e})
<1> DEFINE sent == h.at[e].stamp
           new == receive_event(c, sent)
           both == merge(c.vector, sent.vector)
<1>1. /\ IsVector(c.vector) /\ c.lamport \in Nat /\ c.process = p
      /\ c = [process |-> p, lamport |-> c.lamport, vector |-> c.vector]
      /\ get(c.vector, p) = h.count[p] /\ h.count[p] \in Nat
      /\ \A s \in Last(h, p) : c = h.at[s].stamp
      /\ Last(h, p) = {} => c.lamport = 0 /\ \A q : get(c.vector, q) = 0
  BY CurrentFacts
<1>2. IsVector(sent.vector) /\ sent.lamport \in Nat /\ get(sent.vector, p) <= h.count[p]
  BY StampFacts DEF Exact, ExactAt, Knows
<1>3. /\ new.lamport = (IF c.lamport < sent.lamport THEN sent.lamport ELSE c.lamport) + 1
      /\ new.vector = tick(both, p)
      /\ new = [process |-> p, lamport |-> new.lamport, vector |-> new.vector]
  <2>1. new = [process |-> p, lamport |-> lamport_observe(c.lamport, sent.lamport),
               vector |-> tick(both, p)]
    BY <1>1 DEF receive_event
  <2> HIDE DEF new, both, sent
  <2> QED BY <2>1 DEF lamport_observe
<1>4. /\ IsVector(both)
      /\ \A q : /\ get(c.vector, q) <= get(both, q)
                /\ get(sent.vector, q) <= get(both, q)
                /\ get(both, q) \in {get(c.vector, q), get(sent.vector, q)}
  BY <1>1, <1>2, MergeGet
<1>5. \A q : get(c.vector, q) \in Nat /\ get(sent.vector, q) \in Nat /\ get(both, q) \in Nat
  BY <1>1, <1>2, <1>4, GetNat
<1>6. get(both, p) = h.count[p]
  BY <1>1, <1>2, <1>4, <1>5
<1> HIDE DEF new, both
<1>7. /\ IsVector(new.vector)
      /\ get(new.vector, p) = h.count[p] + 1
      /\ \A q : q # p => get(new.vector, q) = get(both, q)
  BY <1>3, <1>4, <1>6, TickGet
<1>8. IsStampOf(new, p)
  BY <1>1, <1>2, <1>3, <1>7 DEF IsStampOf, IsVector
<1>9. ASSUME NEW q \in Process \ {p}
      PROVE  /\ \A s \in Last(h, p) \union {e} : Knows(h, s, q) <= get(new.vector, q)
             /\ get(new.vector, q) = 0
                  \/ \E s \in Last(h, p) \union {e} : Knows(h, s, q) = get(new.vector, q)
  <2>1. get(new.vector, q) = get(both, q)
    BY <1>7
  <2>2. ASSUME NEW s \in Last(h, p) \union {e} PROVE Knows(h, s, q) <= get(new.vector, q)
    BY <1>1, <1>4, <2>1 DEF Knows
  <2>3. CASE get(both, q) = get(sent.vector, q)
    BY <2>1, <2>2, <2>3 DEF Knows
  <2>4. CASE get(both, q) = get(c.vector, q)
    <3>1. CASE Last(h, p) = {}
      BY <1>1, <2>1, <2>2, <2>4, <3>1
    <3>2. CASE Last(h, p) # {}
      BY <1>1, <2>1, <2>2, <2>4, <3>2 DEF Knows
    <3> QED BY <3>1, <3>2
  <2> QED BY <1>4, <2>3, <2>4
<1>10. \A s \in Last(h, p) \union {e} : h.at[s].stamp.lamport < new.lamport
  BY <1>1, <1>2, <1>3
<1> QED BY <1>7, <1>8, <1>9, <1>10 DEF Covers, new

\* After an event of p the stamp it got is p's clock, and nobody else's changed.
LEMMA RecordCurrent ==
  ASSUME NEW h, Exact(h), NEW p \in Process, NEW stamp, NEW heard \in SUBSET Events(h),
         Covers(h, p, stamp, Last(h, p) \union heard)
  PROVE  /\ Current(Record(h, p, stamp, heard), p, stamp)
         /\ \A q \in Process \ {p} : \A c : Current(h, q, c) => Current(Record(h, p, stamp, heard), q, c)
<1> DEFINE h2 == Record(h, p, stamp, heard)
<1>1. /\ h2.at[NextEvent(h, p)].stamp = stamp
      /\ \A e \in Events(h) : h2.at[e] = h.at[e]
      /\ h2.count = [h.count EXCEPT ![p] = @ + 1]
  BY RecordExact
<1>2. h.count \in [Process -> Nat]
  BY DEF Exact, WellFormed
<1>3. h2.count[p] = h.count[p] + 1 /\ \A q \in Process \ {p} : h2.count[q] = h.count[q]
  BY <1>1, <1>2
<1>4. IsStampOf(stamp, p)
  BY DEF Covers
<1> HIDE DEF h2
<1>5. Current(h2, p, stamp)
  BY <1>1, <1>2, <1>3, <1>4 DEF Current, NextEvent
<1>6. ASSUME NEW q \in Process \ {p}, NEW c, Current(h, q, c) PROVE Current(h2, q, c)
  <2>1. h.count[q] # 0 => <<q, h.count[q]>> \in Events(h)
    BY <1>2 DEF Exact, WellFormed
  <2> QED BY <1>1, <1>3, <1>6, <2>1 DEF Current
<1> QED BY <1>5, <1>6 DEF h2

(***************************************************************************)
(* The inductive invariant.                                                *)
(***************************************************************************)

Clocks(h, c) == DOMAIN c = Process /\ \A p \in Process : Current(h, p, c[p])

Messages(h) == {[sent_at |-> h.at[e].stamp, event |-> e] : e \in Events(h)}

Bounded(h, next) ==
  /\ next \in 0 .. MaxProcesses
  /\ h.count \in [Process -> 0 .. MaxEvents]
  /\ \A p \in Process : p >= next => h.count[p] = 0

Inv ==
  /\ Exact(history)
  /\ Clocks(history, clock)
  /\ Bounded(history, next_process_id)
  /\ queues \in [Channel -> Seq(Messages(history))]

Counted(h, p, h2) == h2.count = [h.count EXCEPT ![p] = @ + 1]

Stamped(h, e, stamp) == e \in Events(h) /\ h.at[e].stamp = stamp

Advanced(c, p, stamp, c2) == c2 = [c EXCEPT ![p] = stamp]

\* An event of p that heard of `heard` takes history h and clocks c to h2 and c2.
EventOf(p, stamp, heard, h, c, h2, c2) ==
  /\ Exact(h) /\ Clocks(h, c) /\ p \in Process
  /\ heard \subseteq Events(h)
  /\ Covers(h, p, stamp, Last(h, p) \union heard)
  /\ h2 = Record(h, p, stamp, heard)
  /\ Advanced(c, p, stamp, c2)

LEMMA EventStep ==
  ASSUME NEW p, NEW stamp, NEW heard, NEW h, NEW c, NEW h2, NEW c2,
         EventOf(p, stamp, heard, h, c, h2, c2)
  PROVE  /\ Exact(h2) /\ Clocks(h2, c2) /\ Counted(h, p, h2)
         /\ Messages(h) \subseteq Messages(h2)
         /\ [sent_at |-> stamp, event |-> NextEvent(h, p)] \in Messages(h2)
         /\ Stamped(h2, NextEvent(h, p), stamp)
<1>0. /\ Exact(h) /\ p \in Process /\ heard \in SUBSET Events(h)
      /\ Covers(h, p, stamp, Last(h, p) \union heard)
      /\ h2 = Record(h, p, stamp, heard)
  BY DEF EventOf
<1>1. /\ Exact(h2)
      /\ Events(h2) = Events(h) \union {NextEvent(h, p)}
      /\ h2.at[NextEvent(h, p)].stamp = stamp
      /\ \A e \in Events(h) : h2.at[e] = h.at[e]
      /\ Counted(h, p, h2)
  BY <1>0, RecordExact DEF Counted
<1>2. /\ Current(h2, p, stamp)
      /\ \A q \in Process \ {p} : \A d : Current(h, q, d) => Current(h2, q, d)
  BY <1>0, RecordCurrent
<1>3. Clocks(h2, c2)
  BY <1>2 DEF EventOf, Clocks, Advanced
<1>4. Messages(h) \subseteq Messages(h2) /\ [sent_at |-> stamp, event |-> NextEvent(h, p)] \in Messages(h2)
  BY <1>1 DEF Messages
<1> QED BY <1>1, <1>3, <1>4 DEF Stamped

LEMMA CountStep ==
  ASSUME NEW h, NEW h2, NEW next, Bounded(h, next), NEW p \in Process, p < next,
         h.count[p] < MaxEvents, Counted(h, p, h2)
  PROVE  Bounded(h2, next)
<1>1. /\ h2.count[p] = h.count[p] + 1 /\ \A q \in Process \ {p} : h2.count[q] = h.count[q]
      /\ h2.count = [h.count EXCEPT ![p] = @ + 1]
  BY DEF Bounded, Counted
<1>2. MaxEvents \in Nat /\ MaxProcesses \in Nat
  BY CausalityAssumption
<1>3. h.count[p] \in 0 .. MaxEvents
  BY DEF Bounded
<1>4. h.count[p] + 1 \in 0 .. MaxEvents
  BY <1>2, <1>3
<1>5. h2.count \in [Process -> 0 .. MaxEvents]
  BY <1>1, <1>4 DEF Bounded
<1>6. ASSUME NEW q \in Process, q >= next PROVE h2.count[q] = 0
  <2>1. q # p
    BY <1>2, <1>6 DEF Bounded, Process
  <2> QED BY <1>1, <1>6, <2>1 DEF Bounded
<1> QED BY <1>5, <1>6 DEF Bounded

LEMMA SeqMonotone ==
  ASSUME NEW S, NEW T, S \subseteq T, NEW s \in Seq(S)
  PROVE  s \in Seq(T)
OBVIOUS

LEMMA InvInit == Init => Inv
<1> SUFFICES ASSUME Init PROVE Inv
  OBVIOUS
<1>1. Events(history) = {} /\ \A p \in Process : history.count[p] = 0
  BY DEF Init, Events
<1>2. Exact(history)
  <2>1. history.count \in [Process -> Nat]
    BY DEF Init
  <2>2. {e \in Process \X (Nat \ {0}) : e[2] <= history.count[e[1]]} = {}
    BY <1>1
  <2> QED BY <1>1, <2>1, <2>2 DEF Exact, WellFormed
<1>3. Clocks(history, clock)
  <2>1. ASSUME NEW p \in Process PROVE IsStampOf(NewClock(p), p)
    BY DEF IsStampOf, NewClock, NoEntries
  <2> QED BY <1>1, <2>1 DEF Clocks, Current, Init
<1>4. Bounded(history, next_process_id)
  BY CausalityAssumption, <1>1 DEF Bounded, Init
<1>5. queues \in [Channel -> Seq(Messages(history))]
  BY DEF Init
<1> QED BY <1>2, <1>3, <1>4, <1>5 DEF Inv

LEMMA SpawnRootKeepsInv == Inv /\ SpawnRoot => Inv'
BY CausalityAssumption DEF Inv, SpawnRoot, Bounded, Process

LEMMA LocalEventKeepsInv == ASSUME Inv, NEW p \in Spawned, LocalEvent(p) PROVE Inv'
<1>1. p \in Process /\ p < next_process_id
  BY CausalityAssumption DEF Inv, Bounded, Spawned, Process
<1>2. Covers(history, p, local_event(clock[p]), Last(history, p) \union {})
  BY <1>1, LocalCovers DEF Inv, Clocks
<1>3. /\ Exact(history') /\ Clocks(history', clock')
      /\ Messages(history) \subseteq Messages(history')
      /\ Counted(history, p, history')
  <2> DEFINE stamp == local_event(clock[p])
  <2>1. Exact(history) /\ Clocks(history, clock) /\ {} \in SUBSET Events(history)
    BY DEF Inv
  <2>2. Advanced(clock, p, stamp, clock') /\ history' = Record(history, p, stamp, {})
    BY DEF LocalEvent, Advanced
  <2> HIDE DEF stamp
  <2>3. EventOf(p, stamp, {}, history, clock, history', clock')
    BY <1>1, <1>2, <2>1, <2>2 DEF EventOf, stamp
  <2> QED BY <2>2, <2>3, EventStep
<1>4. Bounded(history', next_process_id')
  BY <1>1, <1>3, CountStep DEF Inv, LocalEvent, HasRoom
<1>5. queues' \in [Channel -> Seq(Messages(history'))]
  BY <1>3, SeqMonotone DEF Inv, LocalEvent
<1> QED BY <1>3, <1>4, <1>5 DEF Inv

LEMMA SendKeepsInv ==
  ASSUME Inv, NEW p \in Spawned, NEW ch \in Channel, Send(p, ch) PROVE Inv'
<1> DEFINE m == [sent_at |-> local_event(clock[p]), event |-> NextEvent(history, p)]
<1>1. p \in Process /\ p < next_process_id
  BY CausalityAssumption DEF Inv, Bounded, Spawned, Process
<1>2. Covers(history, p, local_event(clock[p]), Last(history, p) \union {})
  BY <1>1, LocalCovers DEF Inv, Clocks
<1>3. /\ Exact(history') /\ Clocks(history', clock')
      /\ Messages(history) \subseteq Messages(history')
      /\ m \in Messages(history')
      /\ Counted(history, p, history')
  <2> DEFINE stamp == local_event(clock[p])
  <2>1. Exact(history) /\ Clocks(history, clock) /\ {} \in SUBSET Events(history)
    BY DEF Inv
  <2>2. /\ Advanced(clock, p, stamp, clock') /\ history' = Record(history, p, stamp, {})
        /\ m = [sent_at |-> stamp, event |-> NextEvent(history, p)]
    BY DEF Send, Advanced
  <2> HIDE DEF stamp, m
  <2>3. EventOf(p, stamp, {}, history, clock, history', clock')
    BY <1>1, <1>2, <2>1, <2>2 DEF EventOf, stamp
  <2> QED BY <2>2, <2>3, EventStep
<1>4. Bounded(history', next_process_id')
  BY <1>1, <1>3, CountStep DEF Inv, Send, HasRoom
<1>5. queues \in [Channel -> Seq(Messages(history'))]
  BY <1>3, SeqMonotone DEF Inv
<1>6. queues' = [queues EXCEPT ![ch] = Append(@, m)]
  BY DEF Send
<1>7. queues' \in [Channel -> Seq(Messages(history'))]
  <2> HIDE DEF m
  <2>1. Append(queues[ch], m) \in Seq(Messages(history'))
    BY <1>3, <1>5
  <2> QED BY <1>5, <1>6, <2>1
<1> QED BY <1>3, <1>4, <1>7 DEF Inv

LEMMA ReceiveKeepsInv ==
  ASSUME Inv, NEW p \in Spawned, NEW ch \in Channel, Receive(p, ch) PROVE Inv'
<1> DEFINE message == Head(queues[ch])
<1>1. p \in Process /\ p < next_process_id
  BY CausalityAssumption DEF Inv, Bounded, Spawned, Process
<1>2. queues[ch] \in Seq(Messages(history)) /\ queues[ch] # <<>>
  BY DEF Inv, Receive
<1>3. message \in Messages(history)
  BY <1>2
<1>4. message.event \in Events(history) /\ message.sent_at = history.at[message.event].stamp
  BY <1>3 DEF Messages
<1> HIDE DEF message
<1>5. Covers(history, p, receive_event(clock[p], message.sent_at), Last(history, p) \union {message.event})
  BY <1>1, <1>4, ReceiveCovers DEF Inv, Clocks
<1>6. /\ clock' = [clock EXCEPT ![p] = receive_event(clock[p], message.sent_at)]
      /\ history' = Record(history, p, receive_event(clock[p], message.sent_at), {message.event})
      /\ queues' = [queues EXCEPT ![ch] = Tail(@)]
      /\ next_process_id' = next_process_id /\ HasRoom(p)
  BY DEF Receive, message
<1>7. /\ Exact(history') /\ Clocks(history', clock')
      /\ Messages(history) \subseteq Messages(history')
      /\ Counted(history, p, history')
  <2> DEFINE stamp == receive_event(clock[p], message.sent_at)
  <2>1. Exact(history) /\ Clocks(history, clock) /\ {message.event} \in SUBSET Events(history)
    BY <1>4 DEF Inv
  <2>2. Advanced(clock, p, stamp, clock') /\ history' = Record(history, p, stamp, {message.event})
    BY <1>6 DEF Advanced
  <2> HIDE DEF stamp
  <2>3. EventOf(p, stamp, {message.event}, history, clock, history', clock')
    BY <1>1, <1>5, <2>1, <2>2 DEF EventOf, stamp
  <2> QED BY <2>3, EventStep
<1>8. Bounded(history', next_process_id')
  BY <1>1, <1>6, <1>7, CountStep DEF Inv, HasRoom
<1>9. queues' \in [Channel -> Seq(Messages(history'))]
  <2>1. queues \in [Channel -> Seq(Messages(history'))]
    BY <1>7, SeqMonotone DEF Inv
  <2>2. Tail(queues[ch]) \in Seq(Messages(history'))
    BY <1>2, <2>1
  <2> QED BY <1>6, <2>1, <2>2
<1> QED BY <1>7, <1>8, <1>9 DEF Inv

\* Two events in one step: p tells, q hears; h1 is the history in between.
BirthOf(p, q, h, c, h1, h2, c2) ==
  LET told == local_event(c[p])
      birth == receive_event(c[q], told)
  IN
  /\ Exact(h) /\ Clocks(h, c) /\ p \in Process /\ q \in Process /\ p # q
  /\ h1 = Record(h, p, told, {})
  /\ h2 = Record(h1, q, birth, {NextEvent(h, p)})
  /\ c2 = [c EXCEPT ![p] = told, ![q] = birth]

LEMMA BirthStep ==
  ASSUME NEW p, NEW q, NEW h, NEW c, NEW h1, NEW h2, NEW c2, BirthOf(p, q, h, c, h1, h2, c2)
  PROVE  /\ Exact(h2) /\ Clocks(h2, c2) /\ Messages(h) \subseteq Messages(h2)
         /\ Counted(h, p, h1) /\ Counted(h1, q, h2)
<1>0. PICK told, birth :
        /\ told = local_event(c[p]) /\ birth = receive_event(c[q], told)
        /\ Exact(h) /\ Clocks(h, c) /\ p \in Process /\ q \in Process /\ p # q
        /\ h1 = Record(h, p, told, {})
        /\ h2 = Record(h1, q, birth, {NextEvent(h, p)})
        /\ c2 = [c EXCEPT ![p] = told, ![q] = birth]
  BY DEF BirthOf
<1>1. PICK c1 : Advanced(c, p, told, c1)
  BY DEF Advanced
<1>2. c1[q] = c[q] /\ Advanced(c1, q, birth, c2)
  BY <1>0, <1>1 DEF Advanced, Clocks
<1>3. EventOf(p, told, {}, h, c, h1, c1)
  BY <1>0, <1>1, LocalCovers DEF EventOf, Clocks
<1>4. /\ Exact(h1) /\ Clocks(h1, c1) /\ Messages(h) \subseteq Messages(h1) /\ Counted(h, p, h1)
      /\ Stamped(h1, NextEvent(h, p), told)
  BY <1>3, EventStep
<1>5. Covers(h1, q, birth, Last(h1, q) \union {NextEvent(h, p)})
  <2>1. Current(h1, q, c1[q])
    BY <1>0, <1>4 DEF Clocks
  <2> QED BY <1>0, <1>2, <1>4, <2>1, ReceiveCovers DEF Stamped
<1>6. EventOf(q, birth, {NextEvent(h, p)}, h1, c1, h2, c2)
  BY <1>0, <1>2, <1>4, <1>5 DEF EventOf, Stamped
<1>7. Exact(h2) /\ Clocks(h2, c2) /\ Messages(h1) \subseteq Messages(h2) /\ Counted(h1, q, h2)
  BY <1>6, EventStep
<1> QED BY <1>4, <1>7

LEMMA SpawnChildKeepsInv == ASSUME Inv, NEW p \in Spawned, SpawnChild(p) PROVE Inv'
<1> DEFINE child == next_process_id
<1>1. p \in Process /\ child \in Process /\ p < child /\ child # p /\ child + 1 \in 0 .. MaxProcesses
  BY CausalityAssumption DEF Inv, Bounded, Spawned, Process, SpawnChild
<1>2. PICK h1 : BirthOf(p, child, history, clock, h1, history', clock')
  BY <1>1 DEF Inv, SpawnChild, BirthOf
<1>3. next_process_id' = child + 1 /\ queues' = queues /\ HasRoom(p) /\ MaxEvents > 0
  BY DEF SpawnChild
<1> HIDE DEF child
<1>5. /\ Exact(history') /\ Clocks(history', clock') /\ Messages(history) \subseteq Messages(history')
      /\ Counted(history, p, h1) /\ Counted(h1, child, history')
  BY <1>2, BirthStep
<1>6. Bounded(history', child + 1)
  <2>1. Bounded(history, child) /\ history.count[p] < MaxEvents
    BY <1>3 DEF Inv, HasRoom, child
  <2>2. Bounded(h1, child)
    BY <1>1, <1>5, <2>1, CountStep
  <2>3. h1.count[child] = 0
    BY <1>1, <2>2, CausalityAssumption DEF Bounded, Process
  <2>4. Bounded(h1, child + 1) /\ child < child + 1
    BY <1>1, <2>2, CausalityAssumption DEF Bounded, Process
  <2> QED BY <1>1, <1>3, <1>5, <2>3, <2>4, CountStep
<1>7. queues' \in [Channel -> Seq(Messages(history'))]
  BY <1>3, <1>5, SeqMonotone DEF Inv
<1> QED BY <1>3, <1>5, <1>6, <1>7 DEF Inv

LEMMA StutterKeepsInv == Inv /\ UNCHANGED vars => Inv'
BY DEF Inv, vars

\* The clocks, and every stamp they ever produced, stay exact.
THEOREM ClocksStayExact == Spec => []Inv
<1>1. Init => Inv
  BY InvInit
<1>2. Inv /\ [Next]_vars => Inv'
  BY SpawnRootKeepsInv, SpawnChildKeepsInv, LocalEventKeepsInv, SendKeepsInv, ReceiveKeepsInv,
     StutterKeepsInv DEF Next
<1> QED BY <1>1, <1>2, PTL DEF Spec

(***************************************************************************)
(* What exact stamps decide.                                               *)
(***************************************************************************)

\* Of two events, either one is in the other's past (and then its clocks are
\* behind), or they are the same, or each knows something the other does not.
LEMMA TwoEvents ==
  ASSUME NEW h, Exact(h), NEW e \in Events(h), NEW f \in Events(h)
  PROVE  /\ e \in h.at[f].past =>
              /\ e # f /\ f \notin h.at[e].past
              /\ \A q \in Process : Knows(h, e, q) <= Knows(h, f, q)
              /\ Knows(h, e, f[1]) < Knows(h, f, f[1])
              /\ h.at[e].stamp.lamport < h.at[f].stamp.lamport
         /\ e \notin h.at[f].past /\ e # f => Knows(h, f, e[1]) < Knows(h, e, e[1])
<1>1. WellFormed(h) /\ ExactAt(h, e) /\ ExactAt(h, f) /\ OrderedAt(h, e) /\ OrderedAt(h, f)
  BY DEF Exact
<1>2. /\ \A q : Knows(h, e, q) \in Nat /\ Knows(h, f, q) \in Nat
      /\ e[1] \in Process /\ f[1] \in Process /\ e[2] \in Nat /\ f[2] \in Nat
      /\ h.at[e].stamp.lamport \in Nat /\ h.at[f].stamp.lamport \in Nat
  BY <1>1, StampFacts
<1>3. ASSUME e \in h.at[f].past
      PROVE  /\ e # f /\ f \notin h.at[e].past
             /\ \A q \in Process : Knows(h, e, q) <= Knows(h, f, q)
             /\ Knows(h, e, f[1]) < Knows(h, f, f[1])
             /\ h.at[e].stamp.lamport < h.at[f].stamp.lamport
  <2>1. /\ \A q \in Process : Knows(h, e, q) <= Knows(h, f, q)
        /\ h.at[e].stamp.lamport < h.at[f].stamp.lamport
        /\ e # f
    BY <1>1, <1>3 DEF OrderedAt
  <2>2. f \notin h.at[e].past
    BY <1>1, <1>2, <2>1 DEF OrderedAt
  <2>3. ~(f[2] <= Knows(h, e, f[1])) /\ Knows(h, f, f[1]) = f[2]
    BY <1>1, <2>1, <2>2 DEF ExactAt
  <2> QED BY <1>2, <2>1, <2>2, <2>3
<1>4. ASSUME e \notin h.at[f].past, e # f PROVE Knows(h, f, e[1]) < Knows(h, e, e[1])
  <2>1. ~(e[2] <= Knows(h, f, e[1])) /\ Knows(h, e, e[1]) = e[2]
    BY <1>1, <1>4 DEF ExactAt
  <2> QED BY <1>2, <2>1
<1> QED BY <1>3, <1>4

Verdict(h, e, f) == compare(h.at[e].stamp.vector, h.at[f].stamp.vector)

LEMMA Verdicts ==
  ASSUME NEW h, Exact(h), NEW e \in Events(h), NEW f \in Events(h)
  PROVE  /\ Verdict(h, e, f) = "Before" <=> e \in h.at[f].past
         /\ Verdict(h, e, f) = "Equal" <=> e = f
         /\ Verdict(h, e, f) = "Concurrent"
              <=> e # f /\ e \notin h.at[f].past /\ f \notin h.at[e].past
<1>1. /\ \A q : Knows(h, e, q) \in Nat /\ Knows(h, f, q) \in Nat
      /\ e[1] \in Process /\ f[1] \in Process
      /\ IsVector(h.at[e].stamp.vector) /\ IsVector(h.at[f].stamp.vector)
  BY StampFacts DEF Exact
<1>2. /\ Verdict(h, e, f) = "Before"
           <=> /\ \A q \in Process : Knows(h, e, q) <= Knows(h, f, q)
               /\ \E q \in Process : Knows(h, e, q) < Knows(h, f, q)
      /\ Verdict(h, e, f) = "Equal" <=> \A q \in Process : Knows(h, e, q) = Knows(h, f, q)
      /\ Verdict(h, e, f) = "Concurrent"
           <=> /\ \E q \in Process : Knows(h, e, q) < Knows(h, f, q)
               /\ \E q \in Process : Knows(h, f, q) < Knows(h, e, q)
  BY <1>1, CompareVerdict DEF Knows, Verdict
<1>3. e \in h.at[f].past => e # f /\ f \notin h.at[e].past
        /\ (\A q \in Process : Knows(h, e, q) <= Knows(h, f, q))
        /\ Knows(h, e, f[1]) < Knows(h, f, f[1])
  BY TwoEvents
<1>4. f \in h.at[e].past => e # f /\ e \notin h.at[f].past
        /\ (\A q \in Process : Knows(h, f, q) <= Knows(h, e, q))
        /\ Knows(h, f, e[1]) < Knows(h, e, e[1])
  BY TwoEvents
<1>5. e # f /\ e \notin h.at[f].past => Knows(h, f, e[1]) < Knows(h, e, e[1])
  BY TwoEvents
<1>6. e # f /\ f \notin h.at[e].past => Knows(h, e, f[1]) < Knows(h, f, f[1])
  BY TwoEvents
<1>7. CASE e = f
  BY <1>1, <1>2, <1>3, <1>7
<1>8. CASE e \in h.at[f].past
  BY <1>1, <1>2, <1>3, <1>8
<1>9. CASE f \in h.at[e].past
  BY <1>1, <1>2, <1>4, <1>9
<1>10. CASE e # f /\ e \notin h.at[f].past /\ f \notin h.at[e].past
  BY <1>1, <1>2, <1>5, <1>6, <1>10
<1> QED BY <1>7, <1>8, <1>9, <1>10

\* `happened_before` on the stamps is the happened-before of the events.
THEOREM CausalityIsDecided == Spec => []StampsDecideCausality
<1>1. Inv => StampsDecideCausality
  BY Verdicts DEF Inv, StampsDecideCausality, happened_before, Verdict
<1> QED BY <1>1, ClocksStayExact, PTL

\* `Equal` and `Concurrent` say what they mean.
THEOREM EventsAreIdentified == Spec => []StampsIdentifyEvents
<1>1. Inv => StampsIdentifyEvents
  BY Verdicts DEF Inv, StampsIdentifyEvents, Verdict
<1> QED BY <1>1, ClocksStayExact, PTL

\* `total_order_key` is total on the events and extends causality.
THEOREM TotalOrderIsCausal == Spec => []TotalOrderExtendsCausality
<1>1. ASSUME Inv PROVE TotalOrderExtendsCausality
  <2> SUFFICES ASSUME NEW e \in Events(history), NEW f \in Events(history)
               PROVE  LET s == history.at[e].stamp  t == history.at[f].stamp IN
                      /\ e \in history.at[f].past => KeyLess(s, t)
                      /\ e # f => (KeyLess(s, t) /\ ~KeyLess(t, s)) \/ (KeyLess(t, s) /\ ~KeyLess(s, t))
    BY DEF TotalOrderExtendsCausality
  <2> DEFINE s == history.at[e].stamp
             t == history.at[f].stamp
  <2>1. Exact(history) /\ WellFormed(history)
    BY <1>1 DEF Inv, Exact
  <2>2. /\ s.lamport \in Nat /\ s.process = e[1] /\ e[1] \in Process
        /\ t.lamport \in Nat /\ t.process = f[1] /\ f[1] \in Process
        /\ e = <<e[1], e[2]>> /\ f = <<f[1], f[2]>> /\ e[2] \in Nat /\ f[2] \in Nat
    BY <2>1, StampFacts
  <2>3. e[1] \in Int /\ f[1] \in Int
    BY <2>2, CausalityAssumption DEF Process
  <2>4. /\ e \in history.at[f].past => s.lamport < t.lamport
        /\ f \in history.at[e].past => t.lamport < s.lamport
    BY <2>1, TwoEvents
  <2>5. ASSUME e # f, s.lamport = t.lamport PROVE e[1] # f[1]
    <3>1. e \notin history.at[f].past /\ f \notin history.at[e].past
      BY <2>2, <2>4, <2>5
    <3>2. /\ ~(e[2] <= Knows(history, f, e[1])) /\ ~(f[2] <= Knows(history, e, f[1]))
          /\ Knows(history, e, e[1]) = e[2] /\ Knows(history, f, f[1]) = f[2]
      BY <2>1, <2>5, <3>1 DEF Exact, ExactAt
    <3> QED BY <2>2, <3>2
  <2> HIDE DEF s, t
  <2>6. e \in history.at[f].past => KeyLess(s, t)
    BY <2>4 DEF KeyLess
  <2>7. e # f => (KeyLess(s, t) /\ ~KeyLess(t, s)) \/ (KeyLess(t, s) /\ ~KeyLess(s, t))
    BY <2>2, <2>3, <2>5 DEF KeyLess
  <2> QED BY <2>6, <2>7 DEF s, t
<1> QED BY <1>1, ClocksStayExact, PTL

\* No clock and no message in flight knows of events that have not happened.
THEOREM FutureIsUnknown == Spec => []NobodyKnowsTheFuture
<1>1. ASSUME Inv PROVE NobodyKnowsTheFuture
  <2>1. Exact(history)
    BY <1>1 DEF Inv
  <2>2. \A e \in Events(history), p \in Process : get(history.at[e].stamp.vector, p) <= history.count[p]
    BY <2>1 DEF Exact, ExactAt, Knows
  <2> SUFFICES ASSUME NEW p \in Process
               PROVE  /\ get(clock[p].vector, p) = history.count[p]
                      /\ \A q \in Process : get(clock[q].vector, p) <= history.count[p]
                      /\ \A ch \in Channel : \A m \in DOMAIN queues[ch] :
                           get(queues[ch][m].sent_at.vector, p) <= history.count[p]
    BY DEF NobodyKnowsTheFuture
  <2>3. get(clock[p].vector, p) = history.count[p] /\ history.count[p] \in Nat
    BY <1>1, <2>1, CurrentFacts DEF Inv, Clocks
  <2>4. ASSUME NEW q \in Process PROVE get(clock[q].vector, p) <= history.count[p]
    <3> DEFINE c == clock[q]
    <3>0. Current(history, q, c)
      BY <1>1 DEF Inv, Clocks
    <3> HIDE DEF c
    <3>1. /\ Last(history, q) \subseteq Events(history)
          /\ \A s \in Last(history, q) : c = history.at[s].stamp
          /\ Last(history, q) = {} => \A r : get(c.vector, r) = 0
      BY <2>1, <3>0, CurrentFacts
    <3>2. CASE Last(history, q) = {}
      BY <2>3, <3>1, <3>2 DEF c
    <3>3. CASE Last(history, q) # {}
      BY <2>2, <3>1, <3>3 DEF c
    <3> QED BY <3>2, <3>3
  <2>5. ASSUME NEW ch \in Channel, NEW m \in DOMAIN queues[ch]
        PROVE  get(queues[ch][m].sent_at.vector, p) <= history.count[p]
    <3>1. queues[ch] \in Seq(Messages(history))
      BY <1>1 DEF Inv
    <3>2. queues[ch][m] \in Messages(history)
      BY <3>1
    <3> QED BY <2>2, <3>2 DEF Messages
  <2> QED BY <2>3, <2>4, <2>5
<1> QED BY <1>1, ClocksStayExact, PTL

\* The shapes and bounds of TypeOK.
THEOREM CausalityTypeCorrect == Spec => []TypeOK
<1>1. ASSUME Inv PROVE TypeOK
  <2>1. WellFormed(history) /\ Bounded(history, next_process_id) /\ Clocks(history, clock)
    BY <1>1 DEF Inv, Exact
  <2>2. Events(history) = {e \in Process \X (1 .. MaxEvents) : e[2] <= history.count[e[1]]}
    <3>1. Events(history) = {e \in Process \X (Nat \ {0}) : e[2] <= history.count[e[1]]}
      BY <2>1 DEF WellFormed
    <3>2. \A p \in Process : history.count[p] \in Nat /\ history.count[p] <= MaxEvents
      BY <2>1 DEF Bounded
    <3>3. ASSUME NEW e \in Process \X (Nat \ {0}), e[2] <= history.count[e[1]]
          PROVE  e \in Process \X (1 .. MaxEvents)
      <4>1. e = <<e[1], e[2]>> /\ e[1] \in Process /\ e[2] \in Nat \ {0}
        OBVIOUS
      <4> QED BY <3>2, <3>3, <4>1, CausalityAssumption
    <3> QED BY <3>1, <3>3
  <2>3. \A p \in Process : IsStampOf(clock[p], p)
    BY <2>1 DEF Clocks, Current
  <2>4. ASSUME NEW ch \in Channel, NEW m \in DOMAIN queues[ch]
        PROVE  queues[ch][m].event \in Events(history)
    <3>1. queues[ch] \in Seq(Messages(history))
      BY <1>1 DEF Inv
    <3>2. queues[ch][m] \in Messages(history)
      BY <3>1
    <3> QED BY <3>2 DEF Messages
  <2> QED BY <2>1, <2>2, <2>3, <2>4 DEF TypeOK, WellFormed, Bounded, Clocks
<1> QED BY <1>1, ClocksStayExact, PTL

(***************************************************************************)
(* The audit: which event an entry of the log is about.                    *)
(***************************************************************************)

\* How many of the stamps are of process p.
Tally(log, p) == Cardinality({j \in DOMAIN log : log[j].process = p})

EventAt(log, i) == <<log[i].process, Cardinality({j \in 1 .. i : log[j].process = log[i].process})>>

LEMMA TallyNat ==
  ASSUME NEW S, NEW log \in Seq(S), NEW p
  PROVE  Tally(log, p) \in Nat /\ IsFiniteSet({j \in DOMAIN log : log[j].process = p})
<1>1. IsFiniteSet(1 .. Len(log)) /\ DOMAIN log = 1 .. Len(log)
  BY FS_Interval
<1>2. IsFiniteSet({j \in DOMAIN log : log[j].process = p})
  BY <1>1, FS_Subset
<1> QED BY <1>2, FS_CardinalityType DEF Tally

\* `after` names one event more than `log`, the next one of the stamp's process.
NamesOneMore(log, s, after) ==
  /\ Len(after) = Len(log) + 1
  /\ \A i \in DOMAIN log : after[i] = log[i] /\ EventAt(after, i) = EventAt(log, i)
  /\ after[Len(log) + 1] = s
  /\ EventAt(after, Len(log) + 1) = <<s.process, Tally(log, s.process) + 1>>
  /\ Tally(after, s.process) = Tally(log, s.process) + 1
  /\ \A p : p # s.process => Tally(after, p) = Tally(log, p)

LEMMA EventAppended ==
  ASSUME NEW S, NEW log \in Seq(S), NEW s, NEW after, after = Append(log, s)
  PROVE  NamesOneMore(log, s, after)
<1> DEFINE n == Len(log)
<1>1. /\ n \in Nat /\ DOMAIN log = 1 .. n /\ DOMAIN after = 1 .. n + 1 /\ Len(after) = n + 1
      /\ after[n + 1] = s /\ \A i \in 1 .. n : after[i] = log[i]
  OBVIOUS
<1> HIDE DEF n
<1>2. ASSUME NEW i \in 1 .. n PROVE EventAt(after, i) = EventAt(log, i)
  <2>1. \A j \in 1 .. i : after[j] = log[j]
    BY <1>1
  <2>2. {j \in 1 .. i : after[j].process = after[i].process}
          = {j \in 1 .. i : log[j].process = log[i].process}
    BY <1>1, <2>1
  <2> QED BY <1>1, <2>2 DEF EventAt
<1>3. ASSUME NEW p
      PROVE  {j \in 1 .. n + 1 : after[j].process = p}
               = {j \in DOMAIN log : log[j].process = p}
                   \union (IF s.process = p THEN {n + 1} ELSE {})
  BY <1>1
<1>4. Cardinality({j \in 1 .. n + 1 : after[j].process = s.process}) = Tally(log, s.process) + 1
  <2>1. n + 1 \notin {j \in DOMAIN log : log[j].process = s.process}
    BY <1>1
  <2>2. IsFiniteSet({j \in DOMAIN log : log[j].process = s.process})
    BY TallyNat
  <2>3. {j \in 1 .. n + 1 : after[j].process = s.process}
          = {j \in DOMAIN log : log[j].process = s.process} \union {n + 1}
    BY <1>3
  <2> QED BY <2>1, <2>2, <2>3, FS_AddElement DEF Tally
<1>5. ASSUME NEW p, p # s.process PROVE Tally(after, p) = Tally(log, p)
  <2>1. {j \in 1 .. n + 1 : after[j].process = p} = {j \in DOMAIN log : log[j].process = p}
    BY <1>3, <1>5
  <2> QED BY <1>1, <2>1 DEF Tally
<1>6. /\ EventAt(after, n + 1) = <<s.process, Tally(log, s.process) + 1>>
      /\ Tally(after, s.process) = Tally(log, s.process) + 1
  BY <1>1, <1>4 DEF EventAt, Tally
<1> QED BY <1>1, <1>2, <1>5, <1>6 DEF NamesOneMore, n

(***************************************************************************)
(* The inductive invariant: the log names every event once, with its stamp *)
(* and, through its predecessors, with its past.                           *)
(***************************************************************************)

Stamps(h) == {h.at[e].stamp : e \in Events(h)}

Shaped(h, log) ==
  /\ log.stamps \in Seq(Stamps(h))
  /\ log.preds \in Seq(SUBSET Nat)
  /\ Len(log.preds) = Len(log.stamps)
  /\ DOMAIN log.last_event = Process

NamesEach(h, log) ==
  /\ \A p \in Process : Tally(log.stamps, p) = h.count[p]
  /\ Events(h) = {EventAt(log.stamps, i) : i \in 1 .. Len(log.stamps)}
  /\ \A i, j \in 1 .. Len(log.stamps) : EventAt(log.stamps, i) = EventAt(log.stamps, j) => i = j

Describes(h, log, i) ==
  /\ log.stamps[i] = h.at[EventAt(log.stamps, i)].stamp
  /\ log.preds[i] \subseteq 1 .. i - 1
  /\ h.at[EventAt(log.stamps, i)].past = UpTo(h, {EventAt(log.stamps, j) : j \in log.preds[i]})

KnowsLast(h, log, p) ==
  IF h.count[p] = 0
  THEN log.last_event[p] = 0
  ELSE /\ log.last_event[p] \in 1 .. Len(log.stamps)
       /\ EventAt(log.stamps, log.last_event[p]) = <<p, h.count[p]>>

Faithful(h, log) ==
  /\ Shaped(h, log)
  /\ NamesEach(h, log)
  /\ \A i \in 1 .. Len(log.stamps) : Describes(h, log, i)
  /\ \A p \in Process : KnowsLast(h, log, p)

\* The messages waiting are the sends the harness remembers.
Follows(waiting, sends, log) ==
  /\ sends \in Seq(Nat) /\ Len(sends) = Len(waiting)
  /\ \A m \in 1 .. Len(waiting) :
       sends[m] \in 1 .. Len(log.stamps) /\ EventAt(log.stamps, sends[m]) = waiting[m].event

AuditInv ==
  /\ Inv
  /\ Faithful(history, noted)
  /\ DOMAIN in_flight = Channel
  /\ \A ch \in Channel : Follows(queues[ch], in_flight[ch], noted)

Heard(log, before) == {EventAt(log.stamps, j) : j \in before}

\* An event of p, after those in `before`, takes the history and the log one further.
LoggedOf(h, log, p, stamp, before, h2, log2) ==
  /\ Exact(h) /\ Faithful(h, log) /\ p \in Process
  /\ before \subseteq 1 .. Len(log.stamps)
  /\ Covers(h, p, stamp, Last(h, p) \union Heard(log, before))
  /\ h2 = Record(h, p, stamp, Heard(log, before))
  /\ log2 = record_event(log, p, stamp, before)

Grows(log, log2) ==
  /\ Len(log.stamps) <= Len(log2.stamps)
  /\ \A i \in 1 .. Len(log.stamps) : EventAt(log2.stamps, i) = EventAt(log.stamps, i)

LEMMA LogStep ==
  ASSUME NEW h, NEW log, NEW p, NEW stamp, NEW before, NEW h2, NEW log2,
         LoggedOf(h, log, p, stamp, before, h2, log2)
  PROVE  /\ Faithful(h2, log2) /\ Grows(log, log2)
         /\ Len(log2.stamps) = Len(log.stamps) + 1
         /\ EventAt(log2.stamps, Len(log2.stamps)) = NextEvent(h, p)
<1> DEFINE n == Len(log.stamps)
           g == NextEvent(h, p)
           heard == Heard(log, before)
           own == {log.last_event[p]} \ {0}
<1>1. /\ Exact(h) /\ p \in Process /\ before \subseteq 1 .. n
      /\ Shaped(h, log) /\ NamesEach(h, log)
      /\ \A i \in 1 .. n : Describes(h, log, i)
      /\ \A q \in Process : KnowsLast(h, log, q)
      /\ h2 = Record(h, p, stamp, heard)
  BY DEF LoggedOf, Faithful
<1>2. /\ n \in Nat /\ DOMAIN log.stamps = 1 .. n
      /\ log.preds \in Seq(SUBSET Nat) /\ Len(log.preds) = n
      /\ log.stamps \in Seq(Stamps(h)) /\ DOMAIN log.last_event = Process
  BY <1>1 DEF Shaped
<1>3. \A j \in 1 .. n : EventAt(log.stamps, j) \in Events(h)
  BY <1>1 DEF NamesEach
<1>4. heard \in SUBSET Events(h)
  BY <1>1, <1>3 DEF Heard
<1>5. /\ Exact(h2)
      /\ Events(h2) = Events(h) \union {g}
      /\ h2.at[g].stamp = stamp /\ g \notin Events(h)
      /\ \A e \in Events(h) : h2.at[e] = h.at[e]
      /\ h2.count = [h.count EXCEPT ![p] = @ + 1]
  <2>1. PICK events : events = heard
    OBVIOUS
  <2>2. /\ events \in SUBSET Events(h) /\ Covers(h, p, stamp, Last(h, p) \union events)
        /\ h2 = Record(h, p, stamp, events)
    BY <1>1, <1>4, <2>1 DEF LoggedOf
  <2> HIDE DEF heard, g
  <2>3. /\ Exact(h2)
        /\ Events(h2) = Events(h) \union {NextEvent(h, p)}
        /\ h2.at[NextEvent(h, p)].stamp = stamp
        /\ NextEvent(h, p) \notin Events(h)
        /\ \A e \in Events(h) : h2.at[e] = h.at[e]
        /\ h2.count = [h.count EXCEPT ![p] = @ + 1]
    BY <1>1, <2>2, RecordExact
  <2> QED BY <2>3 DEF g
<1>6. h2.at[g].past = UpTo(h, Last(h, p) \union heard)
  <2>1. g \in Events(h) \union {NextEvent(h, p)}
    OBVIOUS
  <2>2. h2.at = [e \in Events(h) \union {NextEvent(h, p)} |->
                   IF e = NextEvent(h, p)
                   THEN [stamp |-> stamp, past |-> UpTo(h, Last(h, p) \union heard)]
                   ELSE h.at[e]]
    BY <1>1 DEF Record
  <2>3. h2.at[g] = [stamp |-> stamp, past |-> UpTo(h, Last(h, p) \union heard)]
    BY <2>2
  <2> QED BY <2>3
<1>7. /\ log2.stamps = Append(log.stamps, stamp)
      /\ log2.preds = Append(log.preds, before \union own)
      /\ log2.last_event = [log.last_event EXCEPT ![p] = n + 1]
  BY DEF LoggedOf, record_event
<1>8. stamp.process = p
  BY DEF LoggedOf, Covers, IsStampOf
<1>9. h.count \in [Process -> Nat]
  BY <1>1 DEF Exact, WellFormed
<1> HIDE DEF n, g, heard, own
<1>10. /\ Len(log2.stamps) = n + 1
       /\ \A i \in 1 .. n : log2.stamps[i] = log.stamps[i]
                             /\ EventAt(log2.stamps, i) = EventAt(log.stamps, i)
       /\ log2.stamps[n + 1] = stamp
       /\ EventAt(log2.stamps, n + 1) = <<p, Tally(log.stamps, p) + 1>>
       /\ Tally(log2.stamps, p) = Tally(log.stamps, p) + 1
       /\ \A q : q # p => Tally(log2.stamps, q) = Tally(log.stamps, q)
  <2>1. PICK S, old, new : S = Stamps(h) /\ old = log.stamps /\ new = log2.stamps
    OBVIOUS
  <2>2. old \in Seq(S) /\ new = Append(old, stamp)
    BY <1>2, <1>7, <2>1
  <2>3. NamesOneMore(old, stamp, new)
    BY <2>2, EventAppended
  <2> QED BY <1>2, <1>8, <2>1, <2>3 DEF n, NamesOneMore
<1>11. Tally(log.stamps, p) = h.count[p] /\ h.count[p] \in Nat
  BY <1>1, <1>9 DEF NamesEach
<1>12. EventAt(log2.stamps, n + 1) = g
  BY <1>10, <1>11 DEF g, NextEvent
<1>13. Grows(log, log2)
  BY <1>2, <1>10 DEF Grows, n
<1>14. Shaped(h2, log2)
  <2>1. Stamps(h) \subseteq Stamps(h2) /\ stamp \in Stamps(h2)
    BY <1>5 DEF Stamps
  <2>2. log.stamps \in Seq(Stamps(h2))
    <3>1. PICK S, T, log0 : S = Stamps(h) /\ T = Stamps(h2) /\ log0 = log.stamps
      OBVIOUS
    <3>2. S \subseteq T /\ log0 \in Seq(S)
      BY <1>2, <2>1, <3>1
    <3>3. log0 \in Seq(T)
      BY <3>2, SeqMonotone
    <3> QED BY <3>1, <3>3
  <2>3. log2.stamps \in Seq(Stamps(h2))
    BY <1>7, <2>1, <2>2
  <2>4. before \union own \in SUBSET Nat
    <3>1. log.last_event[p] \in Nat
      <4>1. KnowsLast(h, log, p)
        BY <1>1
      <4> QED BY <1>2, <4>1 DEF KnowsLast, n
    <3>2. \A j \in before : j \in Nat
      BY <1>1, <1>2
    <3> QED BY <3>1, <3>2 DEF own
  <2>5. log2.preds \in Seq(SUBSET Nat) /\ Len(log2.preds) = n + 1
    BY <1>2, <1>7, <2>4
  <2>6. DOMAIN log2.last_event = Process
    BY <1>2, <1>7
  <2> QED BY <1>10, <2>3, <2>5, <2>6 DEF Shaped
<1>15. NamesEach(h2, log2)
  <2>1. ASSUME NEW q \in Process PROVE Tally(log2.stamps, q) = h2.count[q]
    <3>1. Tally(log.stamps, q) = h.count[q]
      BY <1>1 DEF NamesEach
    <3>2. CASE q = p
      BY <1>5, <1>9, <1>10, <3>1, <3>2
    <3>3. CASE q # p
      BY <1>5, <1>9, <1>10, <3>1, <3>3
    <3> QED BY <3>2, <3>3
  <2>2. Events(h) = {EventAt(log.stamps, i) : i \in 1 .. n}
    BY <1>1 DEF NamesEach, n
  <2>3. 1 .. n + 1 = 1 .. n \union {n + 1}
    BY <1>2
  <2>4. {EventAt(log2.stamps, i) : i \in 1 .. n} = {EventAt(log.stamps, i) : i \in 1 .. n}
    BY <1>10
  <2>5. Events(h2) = {EventAt(log2.stamps, i) : i \in 1 .. n + 1}
    BY <1>5, <1>12, <2>2, <2>3, <2>4
  <2>6. ASSUME NEW i \in 1 .. n + 1, NEW j \in 1 .. n + 1,
               EventAt(log2.stamps, i) = EventAt(log2.stamps, j)
        PROVE  i = j
    <3>1. \A k \in 1 .. n : EventAt(log2.stamps, k) # g
      BY <1>3, <1>5, <1>10
    <3>2. CASE i \in 1 .. n /\ j \in 1 .. n
      BY <1>1, <1>10, <2>6, <3>2 DEF NamesEach, n
    <3> QED BY <1>12, <2>3, <2>6, <3>1, <3>2
  <2> QED BY <1>10, <2>1, <2>5, <2>6 DEF NamesEach
<1>16. ASSUME NEW i \in 1 .. n PROVE Describes(h2, log2, i)
  <2>1. Describes(h, log, i)
    BY <1>1
  <2>2. log2.preds[i] = log.preds[i]
    BY <1>2, <1>7
  <2>3. \A j \in log.preds[i] : j \in 1 .. n
    BY <1>2, <2>1 DEF Describes
  <2>4. {EventAt(log2.stamps, j) : j \in log.preds[i]} = {EventAt(log.stamps, j) : j \in log.preds[i]}
    BY <1>10, <2>3
  <2>5. {EventAt(log.stamps, j) : j \in log.preds[i]} \subseteq Events(h)
    BY <1>3, <2>3
  <2>6. UpTo(h2, {EventAt(log.stamps, j) : j \in log.preds[i]})
          = UpTo(h, {EventAt(log.stamps, j) : j \in log.preds[i]})
    BY <1>5, <2>5 DEF UpTo
  <2>7. h2.at[EventAt(log.stamps, i)] = h.at[EventAt(log.stamps, i)]
    BY <1>3, <1>5
  <2> QED BY <1>10, <2>1, <2>2, <2>4, <2>6, <2>7 DEF Describes
<1>17. Describes(h2, log2, n + 1)
  <2>1. log2.preds[n + 1] = before \union own
    BY <1>2, <1>7
  <2>2. own \subseteq 1 .. n /\ {EventAt(log.stamps, j) : j \in own} = Last(h, p)
    <3>1. KnowsLast(h, log, p)
      BY <1>1
    <3>2. CASE h.count[p] = 0
      BY <3>1, <3>2 DEF KnowsLast, own, Last
    <3>3. CASE h.count[p] # 0
      <4>1. own = {log.last_event[p]} /\ log.last_event[p] \in 1 .. n
        BY <1>2, <3>1, <3>3 DEF KnowsLast, own, n
      <4>2. {EventAt(log.stamps, j) : j \in own} = {EventAt(log.stamps, log.last_event[p])}
        BY <4>1
      <4>3. Last(h, p) = {<<p, h.count[p]>>}
        BY <3>3 DEF Last
      <4> QED BY <3>1, <3>3, <4>1, <4>2, <4>3 DEF KnowsLast
    <3> QED BY <3>2, <3>3
  <2>3. before \union own \subseteq 1 .. n
    BY <1>1, <2>2
  <2>4. {EventAt(log2.stamps, j) : j \in before \union own} = Last(h, p) \union heard
    <3>1. {EventAt(log2.stamps, j) : j \in before \union own}
            = {EventAt(log.stamps, j) : j \in before \union own}
      BY <1>10, <2>3
    <3>2. {EventAt(log.stamps, j) : j \in before \union own}
            = {EventAt(log.stamps, j) : j \in before} \union {EventAt(log.stamps, j) : j \in own}
      OBVIOUS
    <3> QED BY <2>2, <3>1, <3>2 DEF heard, Heard
  <2>5. Last(h, p) \union heard \subseteq Events(h)
    BY <1>3, <1>4, <2>2
  <2>6. UpTo(h2, Last(h, p) \union heard) = UpTo(h, Last(h, p) \union heard)
    BY <1>5, <2>5 DEF UpTo
  <2>7. log2.preds[n + 1] \subseteq 1 .. (n + 1) - 1
    BY <1>2, <2>1, <2>3
  <2>8. log2.stamps[n + 1] = h2.at[EventAt(log2.stamps, n + 1)].stamp
    BY <1>5, <1>10, <1>12
  <2>9. h2.at[EventAt(log2.stamps, n + 1)].past
          = UpTo(h2, {EventAt(log2.stamps, j) : j \in log2.preds[n + 1]})
    BY <1>6, <1>12, <2>1, <2>4, <2>6
  <2> QED BY <2>7, <2>8, <2>9 DEF Describes
<1>18. ASSUME NEW q \in Process PROVE KnowsLast(h2, log2, q)
  <2>1. CASE q = p
    <3>1. h2.count[p] = h.count[p] + 1 /\ log2.last_event[p] = n + 1
      BY <1>2, <1>1, <1>5, <1>7, <1>9
    <3>2. n + 1 \in 1 .. Len(log2.stamps) /\ h.count[p] + 1 # 0
      BY <1>2, <1>10, <1>11
    <3>3. EventAt(log2.stamps, n + 1) = <<p, h2.count[p]>>
      BY <1>12, <3>1 DEF g, NextEvent
    <3> QED BY <2>1, <3>1, <3>2, <3>3 DEF KnowsLast
  <2>2. CASE q # p
    <3>1. h2.count[q] = h.count[q] /\ log2.last_event[q] = log.last_event[q]
      BY <1>2, <1>5, <1>7, <1>9, <2>2
    <3>2. KnowsLast(h, log, q)
      BY <1>1
    <3>3. \A k \in 1 .. Len(log.stamps) : k \in 1 .. Len(log2.stamps)
                                           /\ EventAt(log2.stamps, k) = EventAt(log.stamps, k)
      BY <1>2, <1>10 DEF n
    <3> QED BY <3>1, <3>2, <3>3 DEF KnowsLast
  <2> QED BY <2>1, <2>2
<1>19. \A i \in 1 .. n + 1 : Describes(h2, log2, i)
  BY <1>2, <1>16, <1>17
<1> QED BY <1>10, <1>12, <1>13, <1>14, <1>15, <1>18, <1>19 DEF Faithful, n, g

LEMMA StillFollows ==
  ASSUME NEW log, NEW log2, Len(log.stamps) \in Nat, Len(log2.stamps) \in Nat, Grows(log, log2),
         NEW waiting, NEW sends, Follows(waiting, sends, log)
  PROVE  Follows(waiting, sends, log2)
<1>1. \A i \in 1 .. Len(log.stamps) : i \in 1 .. Len(log2.stamps)
  BY DEF Grows
<1> QED BY <1>1 DEF Grows, Follows

\* A birth: two events, and two entries of the log.
LEMMA BirthLogged ==
  ASSUME NEW p, NEW q, NEW h, NEW c, NEW h1, NEW h2, NEW c2, BirthOf(p, q, h, c, h1, h2, c2),
         NEW log, Faithful(h, log), NEW log1, NEW log2,
         log1 = record_event(log, p, c2[p], {}),
         log2 = record_event(log1, q, c2[q], {Len(log1.stamps)})
  PROVE  Faithful(h2, log2) /\ Grows(log, log2)
<1>0. PICK told, birth :
        /\ told = local_event(c[p]) /\ birth = receive_event(c[q], told)
        /\ Exact(h) /\ Clocks(h, c) /\ p \in Process /\ q \in Process /\ p # q
        /\ h1 = Record(h, p, told, {})
        /\ h2 = Record(h1, q, birth, {NextEvent(h, p)})
        /\ c2 = [c EXCEPT ![p] = told, ![q] = birth]
  BY DEF BirthOf
<1>1. PICK c1 : Advanced(c, p, told, c1)
  BY DEF Advanced
<1>2. c1[q] = c[q] /\ Advanced(c1, q, birth, c2) /\ c2[p] = told /\ c2[q] = birth
  BY <1>0, <1>1 DEF Advanced, Clocks
<1>3. Covers(h, p, told, Last(h, p) \union {})
  BY <1>0, LocalCovers DEF Clocks
<1>4. EventOf(p, told, {}, h, c, h1, c1)
  BY <1>0, <1>1, <1>3 DEF EventOf
<1>5. Exact(h1) /\ Clocks(h1, c1) /\ Stamped(h1, NextEvent(h, p), told)
  BY <1>4, EventStep
<1>6. Heard(log, {}) = {}
  BY DEF Heard
<1>7. LoggedOf(h, log, p, told, {}, h1, log1)
  BY <1>0, <1>2, <1>3, <1>6 DEF LoggedOf
<1>8. /\ Faithful(h1, log1) /\ Grows(log, log1)
      /\ Len(log1.stamps) = Len(log.stamps) + 1
      /\ EventAt(log1.stamps, Len(log1.stamps)) = NextEvent(h, p)
  BY <1>7, LogStep
<1>9. Covers(h1, q, birth, Last(h1, q) \union {NextEvent(h, p)})
  <2>1. Current(h1, q, c1[q])
    BY <1>0, <1>5 DEF Clocks
  <2> QED BY <1>0, <1>2, <1>5, <2>1, ReceiveCovers DEF Stamped
<1>10. Heard(log1, {Len(log1.stamps)}) = {NextEvent(h, p)}
  BY <1>8 DEF Heard
<1>11. Len(log.stamps) \in Nat /\ Len(log1.stamps) \in 1 .. Len(log1.stamps)
  <2>1. log.stamps \in Seq(Stamps(h))
    BY DEF Faithful, Shaped
  <2> QED BY <1>8, <2>1
<1>12. LoggedOf(h1, log1, q, birth, {Len(log1.stamps)}, h2, log2)
  BY <1>0, <1>2, <1>5, <1>8, <1>9, <1>10, <1>11 DEF LoggedOf
<1>13. Faithful(h2, log2) /\ Grows(log1, log2) /\ Len(log2.stamps) = Len(log1.stamps) + 1
  BY <1>12, LogStep
<1>14. Grows(log, log2)
  <2>1. PICK m, n : m = Len(log.stamps) /\ n = Len(log1.stamps)
    OBVIOUS
  <2>2. m \in Nat /\ n = m + 1 /\ \A i \in 1 .. m : i \in 1 .. n
    BY <1>8, <1>11, <2>1
  <2>3. Len(log.stamps) <= Len(log2.stamps)
    BY <1>13, <2>1, <2>2
  <2>4. ASSUME NEW i \in 1 .. m PROVE EventAt(log2.stamps, i) = EventAt(log.stamps, i)
    <3>1. EventAt(log1.stamps, i) = EventAt(log.stamps, i)
      BY <1>8, <2>1 DEF Grows
    <3>2. EventAt(log2.stamps, i) = EventAt(log1.stamps, i)
      BY <1>13, <2>1, <2>2 DEF Grows
    <3> QED BY <3>1, <3>2
  <2> QED BY <2>1, <2>3, <2>4 DEF Grows
<1> QED BY <1>13, <1>14

(***************************************************************************)
(* The steps of the harness.                                               *)
(***************************************************************************)

LogSize == Len(stamps) \in Nat /\ noted.stamps = stamps /\ noted.preds = preds
             /\ noted.last_event = last_event

LEMMA LogSizes == ASSUME AuditInv PROVE LogSize
<1>1. noted.stamps \in Seq(Stamps(history))
  BY DEF AuditInv, Faithful, Shaped
<1> QED BY <1>1 DEF LogSize, noted

\* What is noted of a step becomes the log.
LEMMA NotedLog ==
  ASSUME NEW log, NEW p, NEW stamp, NEW before, NEW log2,
         log2 = record_event(log, p, stamp, before), Noted(log2)
  PROVE  noted' = log2
<1>1. log2 = [stamps |-> log2.stamps, preds |-> log2.preds, last_event |-> log2.last_event]
  BY DEF record_event
<1> QED BY <1>1 DEF Noted, noted

LEMMA InitAuditInv == AuditInit => AuditInv
<1> SUFFICES ASSUME AuditInit PROVE AuditInv
  OBVIOUS
<1>1. /\ Init /\ noted.stamps = <<>> /\ noted.preds = <<>>
      /\ noted.last_event = [p \in Process |-> 0]
      /\ in_flight = [ch \in Channel |-> <<>>]
  BY DEF AuditInit, noted
<1>2. Events(history) = {} /\ \A p \in Process : history.count[p] = 0
  BY <1>1 DEF Init, Events
<1>3. \A p : Tally(noted.stamps, p) = 0
  <2>1. \A p : {j \in DOMAIN noted.stamps : noted.stamps[j].process = p} = {}
    BY <1>1
  <2> QED BY <2>1, FS_EmptySet DEF Tally
<1>4. Shaped(history, noted) /\ Len(noted.stamps) = 0
  BY <1>1 DEF Shaped
<1>5. NamesEach(history, noted)
  BY <1>2, <1>3, <1>4 DEF NamesEach
<1>6. Faithful(history, noted)
  BY <1>1, <1>2, <1>4, <1>5 DEF Faithful, KnowsLast
<1>7. ASSUME NEW ch \in Channel PROVE Follows(queues[ch], in_flight[ch], noted)
  <2>1. queues[ch] = <<>> /\ in_flight[ch] = <<>>
    BY <1>1 DEF Init
  <2> QED BY <2>1 DEF Follows
<1> QED BY <1>1, <1>6, <1>7, InvInit DEF AuditInv

\* One event of p that knows of the events in `before`.
LEMMA LoggedEvent ==
  ASSUME AuditInv, NEW p \in Process, NEW stamp, NEW before \in SUBSET (1 .. Len(stamps)), NEW heard,
         heard = Heard(noted, before),
         Covers(history, p, stamp, Last(history, p) \union heard),
         history' = Record(history, p, stamp, heard),
         Noted(record_event(noted, p, stamp, before))
  PROVE  /\ Faithful(history', noted') /\ Grows(noted, noted')
         /\ Len(stamps') = Len(stamps) + 1
         /\ EventAt(noted'.stamps, Len(stamps')) = NextEvent(history, p)
<1>1. LogSize
  BY LogSizes
<1>2. PICK log2 : log2 = record_event(noted, p, stamp, before)
  OBVIOUS
<1>3. noted' = log2 /\ log2.stamps = stamps'
  BY <1>2, NotedLog DEF Noted
<1>4. LoggedOf(history, noted, p, stamp, before, history', log2)
  BY <1>1, <1>2 DEF LoggedOf, LogSize, AuditInv, Inv
<1>5. /\ Faithful(history', log2) /\ Grows(noted, log2)
      /\ Len(log2.stamps) = Len(noted.stamps) + 1
      /\ EventAt(log2.stamps, Len(log2.stamps)) = NextEvent(history, p)
  BY <1>4, LogStep
<1> QED BY <1>1, <1>3, <1>5 DEF LogSize

LEMMA StillFollowed ==
  ASSUME AuditInv, Grows(noted, noted'), Len(stamps') \in Nat, NEW ch \in Channel
  PROVE  Follows(queues[ch], in_flight[ch], noted')
<1>1. LogSize
  BY LogSizes
<1>2. PICK log, log2 : log = noted /\ log2 = noted'
  OBVIOUS
<1>3. log.stamps = stamps /\ log2.stamps = stamps'
  BY <1>2 DEF noted
<1>4. Follows(queues[ch], in_flight[ch], log)
  BY <1>2 DEF AuditInv
<1>5. Follows(queues[ch], in_flight[ch], log2)
  BY <1>1, <1>2, <1>3, <1>4, StillFollows DEF LogSize
<1> QED BY <1>2, <1>5

LEMMA AuditedLocalInv ==
  ASSUME AuditInv, NEW p \in Spawned, AuditedLocal(p)
  PROVE  AuditInv'
<1>1. p \in Process /\ LocalEvent(p) /\ LogSize
  BY CausalityAssumption, LogSizes DEF AuditInv, Inv, Bounded, Spawned, Process, AuditedLocal
<1>2. /\ clock' = [clock EXCEPT ![p] = local_event(clock[p])]
      /\ history' = Record(history, p, local_event(clock[p]), {})
      /\ queues' = queues /\ in_flight' = in_flight
  BY <1>1 DEF LocalEvent, AuditedLocal
<1>3. clock'[p] = local_event(clock[p])
  BY <1>1, <1>2 DEF AuditInv, Inv, Clocks
<1>4. Covers(history, p, local_event(clock[p]), Last(history, p) \union {})
  BY <1>1, LocalCovers DEF AuditInv, Inv, Clocks
<1>5. Faithful(history', noted') /\ Grows(noted, noted') /\ Len(stamps') \in Nat
  <2>1. PICK stamp, none : stamp = local_event(clock[p]) /\ none = {}
    OBVIOUS
  <2>2. /\ none = Heard(noted, none) /\ none \in SUBSET (1 .. Len(stamps))
        /\ Covers(history, p, stamp, Last(history, p) \union none)
        /\ history' = Record(history, p, stamp, none)
        /\ Noted(record_event(noted, p, stamp, none))
    BY <1>2, <1>3, <1>4, <2>1 DEF Heard, AuditedLocal
  <2>3. Len(stamps') = Len(stamps) + 1 /\ Faithful(history', noted') /\ Grows(noted, noted')
    BY <1>1, <2>2, LoggedEvent
  <2> QED BY <1>1, <2>3 DEF LogSize
<1>6. \A ch \in Channel : Follows(queues'[ch], in_flight'[ch], noted')
  BY <1>2, <1>5, StillFollowed
<1>7. Inv'
  BY <1>1, LocalEventKeepsInv DEF AuditInv
<1> QED BY <1>2, <1>5, <1>6, <1>7 DEF AuditInv

LEMMA AuditedSpawnInv ==
  ASSUME AuditInv, NEW p \in Spawned, AuditedSpawn(p)
  PROVE  AuditInv'
<1> DEFINE child == next_process_id
<1>1. /\ p \in Process /\ child \in Process /\ p # child
      /\ SpawnChild(p) /\ LogSize /\ queues' = queues /\ in_flight' = in_flight
  BY SMTT(20), CausalityAssumption, LogSizes
     DEF AuditInv, Inv, Bounded, Spawned, Process, SpawnChild, AuditedSpawn
<1>2. PICK h1 : BirthOf(p, child, history, clock, h1, history', clock')
  BY <1>1 DEF AuditInv, Inv, SpawnChild, BirthOf
<1>3. PICK log1, log2 :
        /\ log1 = record_event(noted, p, clock'[p], {})
        /\ log2 = record_event(log1, child, clock'[child], {Len(log1.stamps)})
        /\ Noted(log2)
  BY DEF AuditedSpawn
<1>4. noted' = log2
  BY <1>3, NotedLog
<1>5. Faithful(history', log2) /\ Grows(noted, log2)
  <2>1. PICK q, h, c, h2, c2, log :
          q = child /\ h = history /\ c = clock /\ h2 = history' /\ c2 = clock' /\ log = noted
    OBVIOUS
  <2>2. /\ BirthOf(p, q, h, c, h1, h2, c2) /\ Faithful(h, log)
        /\ log1 = record_event(log, p, c2[p], {})
        /\ log2 = record_event(log1, q, c2[q], {Len(log1.stamps)})
    BY <1>2, <1>3, <2>1 DEF AuditInv
  <2>3. Faithful(h2, log2) /\ Grows(log, log2)
    BY SMTT(20), <2>2, BirthLogged
  <2> QED BY <2>1, <2>3
<1>6. Len(stamps') \in Nat
  <2>1. log2.stamps \in Seq(Stamps(history')) /\ stamps' = log2.stamps
    BY <1>3, <1>5 DEF Faithful, Shaped, Noted
  <2>2. PICK S : S = Stamps(history')
    OBVIOUS
  <2>3. stamps' \in Seq(S)
    BY <2>1, <2>2
  <2> QED BY <2>3
<1>7. Grows(noted, noted')
  BY <1>4, <1>5
<1>8. \A ch \in Channel : Follows(queues'[ch], in_flight'[ch], noted')
  BY <1>1, <1>6, <1>7, StillFollowed
<1>9. Inv'
  BY <1>1, SpawnChildKeepsInv DEF AuditInv
<1> QED BY <1>1, <1>4, <1>5, <1>8, <1>9 DEF AuditInv

LEMMA AuditedSendInv ==
  ASSUME AuditInv, NEW p \in Spawned, NEW ch \in Channel, AuditedSend(p, ch)
  PROVE  AuditInv'
<1>1. p \in Process /\ Send(p, ch) /\ LogSize
  BY CausalityAssumption, LogSizes DEF AuditInv, Inv, Bounded, Spawned, Process, AuditedSend
<1>2. PICK stamp, event :
        /\ stamp = local_event(clock[p]) /\ event = NextEvent(history, p)
        /\ clock' = [clock EXCEPT ![p] = stamp]
        /\ history' = Record(history, p, stamp, {})
        /\ queues' = [queues EXCEPT ![ch] = Append(@, [sent_at |-> stamp, event |-> event])]
        /\ in_flight' = [in_flight EXCEPT ![ch] = Append(@, Len(stamps'))]
  BY <1>1 DEF Send, AuditedSend
<1>3. clock'[p] = stamp
  BY <1>1, <1>2 DEF AuditInv, Inv, Clocks
<1>4. Covers(history, p, stamp, Last(history, p) \union {})
  BY <1>1, <1>2, LocalCovers DEF AuditInv, Inv, Clocks
<1>5. /\ Faithful(history', noted') /\ Grows(noted, noted')
      /\ Len(stamps') = Len(stamps) + 1 /\ Len(stamps') \in Nat
      /\ EventAt(stamps', Len(stamps')) = event
  <2>1. PICK none : none = {}
    OBVIOUS
  <2>2. /\ none = Heard(noted, none) /\ none \in SUBSET (1 .. Len(stamps))
        /\ Covers(history, p, stamp, Last(history, p) \union none)
        /\ history' = Record(history, p, stamp, none)
        /\ Noted(record_event(noted, p, stamp, none))
    BY <1>2, <1>3, <1>4, <2>1 DEF Heard, AuditedSend
  <2>3. /\ Len(stamps') = Len(stamps) + 1 /\ Faithful(history', noted') /\ Grows(noted, noted')
        /\ EventAt(noted'.stamps, Len(stamps')) = NextEvent(history, p)
    BY <1>1, <2>2, LoggedEvent
  <2>4. noted'.stamps = stamps'
    BY DEF noted
  <2> QED BY <1>1, <1>2, <2>3, <2>4 DEF LogSize
<1>6. DOMAIN in_flight' = Channel /\ DOMAIN queues = Channel
  BY <1>2 DEF AuditInv, Inv
<1>7. ASSUME NEW c \in Channel PROVE Follows(queues'[c], in_flight'[c], noted')
  <2>1. Follows(queues[c], in_flight[c], noted')
    BY <1>5, StillFollowed
  <2>2. CASE c # ch
    BY <1>2, <2>1, <2>2
  <2>3. CASE c = ch
    <3>1. PICK waiting, sends, log, n, m :
            /\ waiting = queues[ch] /\ sends = in_flight[ch] /\ log = noted' /\ n = Len(waiting)
            /\ m = [sent_at |-> stamp, event |-> event]
      OBVIOUS
    <3>2. /\ queues'[ch] = Append(waiting, m) /\ in_flight'[ch] = Append(sends, Len(stamps'))
          /\ log.stamps = stamps' /\ m.event = event
      BY <1>2, <1>6, <3>1 DEF noted, AuditInv
    <3>3. PICK S : S = Messages(history)
      OBVIOUS
    <3>4. waiting \in Seq(S)
      BY <3>1, <3>3 DEF AuditInv, Inv
    <3>5. sends \in Seq(Nat) /\ Len(sends) = n /\ n \in Nat /\ n = Len(waiting)
      BY <2>1, <2>3, <3>1, <3>4 DEF Follows
    <3>6. /\ Len(Append(waiting, m)) = n + 1 /\ Append(waiting, m)[n + 1] = m
          /\ \A k \in 1 .. n : Append(waiting, m)[k] = waiting[k]
      BY <3>4, <3>5
    <3>7. /\ Append(sends, Len(stamps')) \in Seq(Nat)
          /\ Len(Append(sends, Len(stamps'))) = n + 1
          /\ Append(sends, Len(stamps'))[n + 1] = Len(stamps')
          /\ \A k \in 1 .. n : Append(sends, Len(stamps'))[k] = sends[k]
      BY <1>5, <3>5
    <3>8. ASSUME NEW k \in 1 .. n + 1
          PROVE  /\ Append(sends, Len(stamps'))[k] \in 1 .. Len(log.stamps)
                 /\ EventAt(log.stamps, Append(sends, Len(stamps'))[k]) = Append(waiting, m)[k].event
      <4>1. CASE k = n + 1
        BY <1>1, <1>5, <3>2, <3>6, <3>7, <4>1 DEF LogSize
      <4>2. CASE k \in 1 .. n
        BY <2>1, <2>3, <3>1, <3>5, <3>6, <3>7, <4>2 DEF Follows
      <4> QED BY <3>5, <4>1, <4>2
    <3>9. Follows(Append(waiting, m), Append(sends, Len(stamps')), log)
      BY <3>6, <3>7, <3>8 DEF Follows
    <3> QED BY <2>3, <3>1, <3>2, <3>9
  <2> QED BY <2>2, <2>3
<1>8. Inv'
  BY <1>1, SendKeepsInv DEF AuditInv
<1> QED BY <1>5, <1>6, <1>7, <1>8 DEF AuditInv

LEMMA AuditedReceiveInv ==
  ASSUME AuditInv, NEW p \in Spawned, NEW ch \in Channel, AuditedReceive(p, ch)
  PROVE  AuditInv'
<1>1. p \in Process /\ Receive(p, ch) /\ LogSize
  BY CausalityAssumption, LogSizes DEF AuditInv, Inv, Bounded, Spawned, Process, AuditedReceive
<1>2. PICK message, stamp, sent :
        /\ message = Head(queues[ch]) /\ stamp = receive_event(clock[p], message.sent_at)
        /\ sent = Head(in_flight[ch])
        /\ clock' = [clock EXCEPT ![p] = stamp]
        /\ history' = Record(history, p, stamp, {message.event})
        /\ queues' = [queues EXCEPT ![ch] = Tail(@)] /\ queues[ch] # <<>>
        /\ in_flight' = [in_flight EXCEPT ![ch] = Tail(@)]
  BY <1>1 DEF Receive, AuditedReceive
<1>3. clock'[p] = stamp
  BY <1>1, <1>2 DEF AuditInv, Inv, Clocks
<1>4. PICK S, waiting, sends : S = Messages(history) /\ waiting = queues[ch] /\ sends = in_flight[ch]
  OBVIOUS
<1>5. waiting \in Seq(S) /\ waiting # <<>> /\ Follows(waiting, sends, noted)
  BY <1>2, <1>4 DEF AuditInv, Inv
<1>6. /\ message = waiting[1] /\ message \in S /\ sends \in Seq(Nat) /\ sends # <<>>
      /\ sent = sends[1] /\ 1 \in 1 .. Len(waiting) /\ Len(sends) = Len(waiting)
  <2>1. Len(waiting) \in Nat /\ Len(waiting) # 0 /\ sends \in Seq(Nat) /\ Len(sends) = Len(waiting)
    BY <1>5 DEF Follows
  <2> QED BY <1>2, <1>4, <1>5, <2>1
<1>7. /\ message.event \in Events(history)
      /\ message.sent_at = history.at[message.event].stamp
      /\ sent \in 1 .. Len(stamps) /\ EventAt(stamps, sent) = message.event
  <2>1. message.event \in Events(history) /\ message.sent_at = history.at[message.event].stamp
    BY <1>4, <1>6 DEF Messages
  <2> QED BY <1>1, <1>5, <1>6, <2>1 DEF Follows, LogSize
<1>8. Covers(history, p, stamp, Last(history, p) \union {message.event})
  BY <1>1, <1>2, <1>7, ReceiveCovers DEF AuditInv, Inv, Clocks
<1>9. Faithful(history', noted') /\ Grows(noted, noted') /\ Len(stamps') \in Nat
  <2>1. PICK before, heard : before = {sent} /\ heard = {message.event}
    OBVIOUS
  <2>2. heard = Heard(noted, before)
    BY <1>1, <1>7, <2>1 DEF Heard, LogSize
  <2>3. /\ before \in SUBSET (1 .. Len(stamps))
        /\ Covers(history, p, stamp, Last(history, p) \union heard)
        /\ history' = Record(history, p, stamp, heard)
        /\ Noted(record_event(noted, p, stamp, before))
    BY <1>2, <1>3, <1>7, <1>8, <2>1 DEF AuditedReceive
  <2>4. Len(stamps') = Len(stamps) + 1 /\ Faithful(history', noted') /\ Grows(noted, noted')
    BY <1>1, <2>2, <2>3, LoggedEvent
  <2> QED BY <1>1, <2>4 DEF LogSize
<1>10. DOMAIN in_flight' = Channel /\ DOMAIN queues = Channel
  BY <1>2 DEF AuditInv, Inv
<1>11. ASSUME NEW c \in Channel PROVE Follows(queues'[c], in_flight'[c], noted')
  <2>1. Follows(queues[c], in_flight[c], noted')
    BY <1>9, StillFollowed
  <2>2. CASE c # ch
    BY <1>2, <2>1, <2>2
  <2>3. CASE c = ch
    <3>1. queues'[ch] = Tail(waiting) /\ in_flight'[ch] = Tail(sends)
      BY <1>2, <1>4, <1>10 DEF AuditInv
    <3>2. PICK n, log : n = Len(waiting) /\ log = noted'
      OBVIOUS
    <3>3. /\ n \in Nat /\ n > 0 /\ Len(sends) = n
          /\ Len(Tail(waiting)) = n - 1 /\ \A k \in 1 .. n - 1 : Tail(waiting)[k] = waiting[k + 1]
          /\ Tail(sends) \in Seq(Nat) /\ Len(Tail(sends)) = n - 1
          /\ \A k \in 1 .. n - 1 : Tail(sends)[k] = sends[k + 1]
      BY <1>5, <1>6, <3>2
    <3>4. \A k \in 1 .. n - 1 : k + 1 \in 1 .. n
      BY <3>3
    <3>5. Follows(waiting, sends, log)
      BY <1>4, <2>1, <2>3, <3>2
    <3>6. Follows(Tail(waiting), Tail(sends), log)
      BY <3>2, <3>3, <3>4, <3>5 DEF Follows
    <3> QED BY <2>3, <3>1, <3>2, <3>6
  <2> QED BY <2>2, <2>3
<1>12. Inv'
  BY <1>1, ReceiveKeepsInv DEF AuditInv
<1> QED BY <1>9, <1>10, <1>11, <1>12 DEF AuditInv

LEMMA AuditedRootInv == ASSUME AuditInv, AuditedRoot PROVE AuditInv'
<1>1. /\ SpawnRoot /\ UNCHANGED auditVars /\ history' = history /\ queues' = queues
      /\ noted' = noted /\ in_flight' = in_flight
  BY DEF AuditedRoot, SpawnRoot, auditVars, noted
<1>2. Inv'
  BY <1>1, SpawnRootKeepsInv DEF AuditInv
<1> QED BY <1>1, <1>2 DEF AuditInv

LEMMA AuditInvAlways == AuditSpec => []AuditInv
<1>1. ASSUME AuditInv, UNCHANGED <<vars, auditVars>> PROVE AuditInv'
  <2>1. /\ UNCHANGED vars /\ history' = history /\ queues' = queues
        /\ noted' = noted /\ in_flight' = in_flight
    BY <1>1 DEF vars, auditVars, noted
  <2>2. Inv'
    BY <1>1, <2>1, StutterKeepsInv DEF AuditInv
  <2> QED BY <1>1, <2>1, <2>2 DEF AuditInv
<1>2. AuditInv /\ [AuditNext]_<<vars, auditVars>> => AuditInv'
  BY <1>1, AuditedRootInv, AuditedLocalInv, AuditedSpawnInv, AuditedSendInv, AuditedReceiveInv
     DEF AuditNext
<1> QED BY <1>2, InitAuditInv, PTL DEF AuditSpec

(***************************************************************************)
(* What the audit makes of the log.                                        *)
(***************************************************************************)

\* A nonempty set of naturals has a least element.
LEMMA LeastOf ==
  ASSUME NEW S \in SUBSET Nat, S # {}
  PROVE  \E k \in S : \A j \in S : k <= j
<1>1. PICK k \in S : \A j \in S : <<j, k>> \notin OpToRel(<, Nat)
  BY NatLessThanWellFounded, WFMin
<1>2. \A j \in S : ~(j < k)
  BY <1>1 DEF OpToRel
<1> QED BY <1>2

\* `reach` is computed row by row; a row is the past of the event it stands for.
Row(i) == {j \in 1 .. Len(stamps) : EventAt(stamps, j) \in history.at[EventAt(stamps, i)].past}

LEMMA LogFacts ==
  ASSUME AuditInv
  PROVE  /\ Len(stamps) \in Nat /\ DOMAIN stamps = 1 .. Len(stamps) /\ DOMAIN preds = 1 .. Len(stamps)
         /\ Events(history) = {EventAt(stamps, i) : i \in 1 .. Len(stamps)}
         /\ \A i, j \in 1 .. Len(stamps) : EventAt(stamps, i) = EventAt(stamps, j) => i = j
         /\ \A i \in 1 .. Len(stamps) :
              /\ stamps[i] = history.at[EventAt(stamps, i)].stamp
              /\ preds[i] \subseteq 1 .. i - 1
              /\ history.at[EventAt(stamps, i)].past
                   = UpTo(history, {EventAt(stamps, j) : j \in preds[i]})
<1>1. LogSize /\ Faithful(history, noted)
  BY LogSizes DEF AuditInv
<1>2. /\ stamps \in Seq(Stamps(history)) /\ preds \in Seq(SUBSET Nat) /\ Len(preds) = Len(stamps)
  BY <1>1 DEF Faithful, Shaped, LogSize
<1>3. DOMAIN stamps = 1 .. Len(stamps) /\ DOMAIN preds = 1 .. Len(stamps)
  BY <1>2
<1>4. NamesEach(history, noted) /\ \A i \in 1 .. Len(stamps) : Describes(history, noted, i)
  BY <1>1 DEF Faithful, LogSize
<1>5. noted.stamps = stamps /\ noted.preds = preds /\ Len(stamps) \in Nat
  BY <1>1 DEF LogSize
<1>6. /\ Events(history) = {EventAt(stamps, i) : i \in 1 .. Len(stamps)}
      /\ \A i, j \in 1 .. Len(stamps) : EventAt(stamps, i) = EventAt(stamps, j) => i = j
  BY <1>4, <1>5 DEF NamesEach
<1>7. ASSUME NEW i \in 1 .. Len(stamps)
      PROVE  /\ stamps[i] = history.at[EventAt(stamps, i)].stamp
             /\ preds[i] \subseteq 1 .. i - 1
             /\ history.at[EventAt(stamps, i)].past
                  = UpTo(history, {EventAt(stamps, j) : j \in preds[i]})
  <2>1. Describes(history, noted, i)
    BY <1>4
  <2> QED BY <1>5, <2>1 DEF Describes
<1> QED BY <1>3, <1>5, <1>6, <1>7

LEMMA RowStep ==
  ASSUME AuditInv, NEW i \in 1 .. Len(stamps)
  PROVE  Row(i) = preds[i] \union UNION {Row(j) : j \in preds[i]}
<1> DEFINE before == {EventAt(stamps, j) : j \in preds[i]}
<1>1. /\ Len(stamps) \in Nat /\ preds[i] \subseteq 1 .. i - 1
      /\ \A j, k \in 1 .. Len(stamps) : EventAt(stamps, j) = EventAt(stamps, k) => j = k
      /\ history.at[EventAt(stamps, i)].past = UpTo(history, before)
  BY LogFacts
<1>2. \A j \in preds[i] : j \in 1 .. Len(stamps)
  BY <1>1
<1>3. ASSUME NEW k \in Row(i) PROVE k \in preds[i] \/ \E j \in preds[i] : k \in Row(j)
  <2>1. k \in 1 .. Len(stamps) /\ EventAt(stamps, k) \in UpTo(history, before)
    BY <1>1, <1>3 DEF Row
  <2>2. CASE EventAt(stamps, k) \in before
    <3>1. PICK j \in preds[i] : EventAt(stamps, k) = EventAt(stamps, j)
      BY <2>2
    <3> QED BY <1>1, <1>2, <2>1, <3>1
  <2>3. CASE \E e \in before : EventAt(stamps, k) \in history.at[e].past
    <3>1. PICK j \in preds[i] : EventAt(stamps, k) \in history.at[EventAt(stamps, j)].past
      BY <2>3
    <3> QED BY <2>1, <3>1 DEF Row
  <2> QED BY <2>1, <2>2, <2>3 DEF UpTo
<1>4. ASSUME NEW k \in preds[i] PROVE k \in Row(i)
  <2>1. EventAt(stamps, k) \in UpTo(history, before)
    BY DEF UpTo
  <2> QED BY <1>1, <1>2, <2>1 DEF Row
<1>5. ASSUME NEW j \in preds[i], NEW k \in Row(j) PROVE k \in Row(i)
  <2>1. k \in 1 .. Len(stamps) /\ EventAt(stamps, k) \in history.at[EventAt(stamps, j)].past
    BY <1>5 DEF Row
  <2>2. EventAt(stamps, k) \in UpTo(history, before)
    BY <2>1 DEF UpTo
  <2> QED BY <1>1, <2>1, <2>2 DEF Row
<1> HIDE DEF Row
<1> QED BY <1>3, <1>4, <1>5

LEMMA ReachIs ==
  ASSUME AuditInv
  PROVE  \A i \in 1 .. Len(stamps) : reach[i] = Row(i)
<1> DEFINE Step(f, i) == preds[i] \union UNION {f[j] : j \in preds[i]}
           rows == [i \in DOMAIN preds |-> Row(i)]
           made == CHOOSE f : f = [i \in DOMAIN preds |-> Step(f, i)]
<1>1. /\ Len(stamps) \in Nat /\ DOMAIN preds = 1 .. Len(stamps)
      /\ \A i \in 1 .. Len(stamps) : preds[i] \subseteq 1 .. i - 1
  BY LogFacts
<1>2. \A i \in 1 .. Len(stamps) : \A j \in preds[i] : j \in 1 .. Len(stamps) /\ ~(i <= j)
  BY <1>1
<1>3. rows = [i \in DOMAIN preds |-> Step(rows, i)]
  <2>1. ASSUME NEW i \in 1 .. Len(stamps) PROVE Row(i) = Step(rows, i)
    <3>1. {rows[j] : j \in preds[i]} = {Row(j) : j \in preds[i]}
      BY <1>1, <1>2
    <3> HIDE DEF rows
    <3> QED BY <3>1, RowStep
  <2> HIDE DEF Step
  <2> QED BY <1>1, <2>1
<1>4. made = [i \in DOMAIN preds |-> Step(made, i)]
  BY <1>3
<1>5. reach = made
  BY DEF reach
<1> HIDE DEF made
<1>6. \A i \in 1 .. Len(stamps) : made[i] = Row(i)
  <2> DEFINE Wrong == {i \in 1 .. Len(stamps) : made[i] # Row(i)}
  <2>1. ASSUME NEW i \in Wrong, \A j \in Wrong : i <= j
        PROVE  FALSE
    <3>1. \A j \in preds[i] : made[j] = Row(j)
      BY <1>2, <2>1
    <3>2. {made[j] : j \in preds[i]} = {Row(j) : j \in preds[i]}
      BY <3>1
    <3>3. made[i] = preds[i] \union UNION {Row(j) : j \in preds[i]}
      BY <1>1, <1>4, <3>2
    <3> QED BY <3>3, RowStep
  <2>2. Wrong \in SUBSET Nat
    BY <1>1
  <2> QED BY <2>1, <2>2, LeastOf
<1> QED BY <1>5, <1>6

\* The harness's audit of the clocks takes the truth for the truth: what it
\* computes from the predecessors it noted is what really happened before what,
\* and it never finds fault with the clocks of the kernel.
THEOREM AuditNeverErrs == AuditSpec => []AuditIsExact
<1>1. ASSUME AuditInv PROVE AuditIsExact
  <2>1. /\ Len(stamps) \in Nat /\ DOMAIN stamps = 1 .. Len(stamps)
        /\ Events(history) = {EventAt(stamps, i) : i \in 1 .. Len(stamps)}
        /\ \A i, j \in 1 .. Len(stamps) : EventAt(stamps, i) = EventAt(stamps, j) => i = j
        /\ \A i \in 1 .. Len(stamps) : stamps[i] = history.at[EventAt(stamps, i)].stamp
    BY <1>1, LogFacts
  <2>2. Exact(history) /\ WellFormed(history)
    BY <1>1 DEF AuditInv, Inv, Exact
  <2>3. \A i \in 1 .. Len(stamps) : reach[i] = Row(i)
    BY <1>1, ReachIs
  <2>4. check_causality
    <3> SUFFICES ASSUME NEW i \in 1 .. Len(stamps), NEW j \in 1 .. Len(stamps)
                 PROVE  /\ happened_before(stamps[i], stamps[j]) <=> i \in reach[j]
                        /\ i \in reach[j] => stamps[i].lamport < stamps[j].lamport
      BY <2>1 DEF check_causality
    <3>1. PICK e \in Events(history), f \in Events(history) :
            e = EventAt(stamps, i) /\ f = EventAt(stamps, j)
      BY <2>1
    <3>2. stamps[i] = history.at[e].stamp /\ stamps[j] = history.at[f].stamp
      BY <2>1, <3>1
    <3>3. i \in reach[j] <=> e \in history.at[f].past
      BY <2>3, <3>1 DEF Row
    <3>4. Verdict(history, e, f) = "Before" <=> e \in history.at[f].past
      BY <2>2, Verdicts
    <3>5. e \in history.at[f].past => history.at[e].stamp.lamport < history.at[f].stamp.lamport
      BY <2>2, TwoEvents
    <3> QED BY <3>2, <3>3, <3>4, <3>5 DEF happened_before, Verdict
  <2>5. \A i : Recorded(i) = EventAt(stamps, i)
    BY DEF Recorded, EventAt
  <2>6. ASSUME NEW i \in DOMAIN stamps
        PROVE  {Recorded(j) : j \in reach[i]} = history.at[Recorded(i)].past
    <3>1. EventAt(stamps, i) \in Events(history)
      BY <2>1, <2>6
    <3>2. history.at[EventAt(stamps, i)].past \subseteq {EventAt(stamps, j) : j \in 1 .. Len(stamps)}
      BY <2>1, <2>2, <3>1 DEF WellFormed
    <3>3. {EventAt(stamps, j) : j \in Row(i)} = history.at[EventAt(stamps, i)].past
      BY <3>2 DEF Row
    <3>4. {Recorded(j) : j \in reach[i]} = {EventAt(stamps, j) : j \in Row(i)}
      BY <2>1, <2>3, <2>5, <2>6
    <3> QED BY <2>5, <3>3, <3>4
  <2>7. ASSUME NEW ch \in Channel
        PROVE  [m \in DOMAIN queues[ch] |-> queues[ch][m].sent_at]
                 = [m \in DOMAIN in_flight[ch] |-> stamps[in_flight[ch][m]]]
    <3>1. PICK S, waiting, sends : S = Messages(history) /\ waiting = queues[ch] /\ sends = in_flight[ch]
      OBVIOUS
    <3>2. waiting \in Seq(S) /\ Follows(waiting, sends, noted) /\ noted.stamps = stamps
      BY <1>1, <3>1 DEF AuditInv, Inv, noted
    <3>3. /\ DOMAIN waiting = 1 .. Len(waiting) /\ DOMAIN sends = 1 .. Len(waiting)
          /\ \A m \in 1 .. Len(waiting) : waiting[m] \in S
      <4>1. sends \in Seq(Nat) /\ Len(sends) = Len(waiting)
        BY <3>2 DEF Follows
      <4> QED BY <3>2, <4>1
    <3>4. ASSUME NEW m \in 1 .. Len(waiting) PROVE waiting[m].sent_at = stamps[sends[m]]
      <4>1. sends[m] \in 1 .. Len(stamps) /\ EventAt(stamps, sends[m]) = waiting[m].event
        BY <3>2 DEF Follows
      <4>2. waiting[m].sent_at = history.at[waiting[m].event].stamp
        BY <3>1, <3>3 DEF Messages
      <4> QED BY <2>1, <4>1, <4>2
    <3> QED BY <3>1, <3>3, <3>4
  <2> QED BY <2>4, <2>6, <2>7 DEF AuditIsExact
<1> QED BY <1>1, AuditInvAlways, PTL
=============================================================================
