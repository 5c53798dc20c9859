--------------------------- MODULE BaselineProofs ---------------------------
(* Theorems of Baseline.tla: what the pipeline computes, in which step, and  *)
(* at what rate.                                                           *)
EXTENDS Baseline, FiniteSetTheorems, SequenceTheorems, WellFoundedInduction, TLAPS

\* A nonempty set of naturals has a least element.
LEMMA LeastOf ==
  ASSUME NEW S \in SUBSET Nat, S # {}
  PROVE  \E k \in S : \A j \in S : k <= j
<1>1. PICK k \in S : \A j \in S : <<j, k>> \notin OpToRel(<, Nat)
  BY NatLessThanWellFounded, WFMin
<1>2. \A j \in S : ~(j < k)
  BY <1>1 DEF OpToRel
<1> QED BY <1>2

(***************************************************************************)
(* What the region of batch b holds after the first n transforms.          *)
(***************************************************************************)

Contents(b, n) == [k \in 1 .. n + 1 |-> IF k = 1 THEN [fill |-> b] ELSE [transform |-> k - 2]]

LEMMA FilledContents ==
  ASSUME NEW b, NEW before
  PROVE  fill_batch(b, before) = Contents(b, 0)
<1>1. fill_batch(b, before) = <<[fill |-> b]>>
  BY DEF fill_batch
<1>2. DOMAIN Contents(b, 0) = 1 .. 1 /\ Contents(b, 0)[1] = [fill |-> b]
  BY DEF Contents
<1>3. Contents(b, 0) \in Seq({[fill |-> b]}) /\ Len(Contents(b, 0)) = 1
  BY <1>2 DEF Contents
<1> QED BY <1>1, <1>2, <1>3

LEMMA TransformedContents ==
  ASSUME NEW b, NEW n \in Nat
  PROVE  transform(n, Contents(b, n)) = Contents(b, n + 1)
<1> DEFINE Work == {[fill |-> b]} \union {[transform |-> i] : i \in Nat}
<1>1. Contents(b, n) \in [1 .. n + 1 -> Work] /\ n + 1 \in Nat
  BY DEF Contents
<1>2. Contents(b, n) \in Seq(Work) /\ Len(Contents(b, n)) = n + 1
  <2> HIDE DEF Work
  <2> QED BY <1>1
<1>3. Contents(b, n + 1) \in [1 .. n + 2 -> Work] /\ n + 2 \in Nat
  BY DEF Contents
<1>4. Contents(b, n + 1) \in Seq(Work) /\ Len(Contents(b, n + 1)) = n + 2
  <2> HIDE DEF Work
  <2> QED BY <1>3
<1>5. /\ transform(n, Contents(b, n)) = Append(Contents(b, n), [transform |-> n])
      /\ [transform |-> n] \in Work
  BY DEF transform
<1>6. ASSUME NEW k \in 1 .. n + 2
      PROVE  transform(n, Contents(b, n))[k] = Contents(b, n + 1)[k]
  <2>1. CASE k = n + 2
    BY <1>2, <1>5, <2>1 DEF Contents
  <2>2. CASE k # n + 2
    <3>1. k \in 1 .. n + 1
      BY <2>2
    <3>2. transform(n, Contents(b, n))[k] = Contents(b, n)[k]
      BY <1>2, <1>5, <3>1
    <3> QED BY <3>1, <3>2 DEF Contents
  <2> QED BY <2>1, <2>2
<1>7. transform(n, Contents(b, n)) \in Seq(Work) /\ Len(transform(n, Contents(b, n))) = n + 2
  <2> HIDE DEF Work
  <2> QED BY <1>2, <1>5
<1> HIDE DEF Work
<1> QED BY <1>4, <1>6, <1>7

\* The reference applies every transform, once and in order.
LEMMA ReferenceIs ==
  ASSUME NEW b, NEW s \in Nat
  PROVE  reference_checksum(b, s) = checksum(Contents(b, s))
<1> DEFINE Step(f, n) == IF n = 0 THEN fill_batch(b, Zeroed) ELSE transform(n - 1, f[n - 1])
           closed == [n \in 0 .. s |-> Contents(b, n)]
           after == CHOOSE f : f = [n \in 0 .. s |-> Step(f, n)]
<1>1. closed = [n \in 0 .. s |-> Step(closed, n)]
  <2>1. ASSUME NEW n \in 0 .. s
        PROVE  closed[n] = Step(closed, n)
    <3>1. CASE n = 0
      BY <3>1, FilledContents
    <3>2. CASE n # 0
      <4>1. n - 1 \in Nat /\ n - 1 \in 0 .. s /\ (n - 1) + 1 = n
        BY <3>2
      <4>2. transform(n - 1, Contents(b, n - 1)) = Contents(b, n)
        BY <4>1, TransformedContents
      <4> QED BY <3>2, <4>1, <4>2
    <3> QED BY <3>1, <3>2
  <2> QED BY <2>1
<1>2. after = [n \in 0 .. s |-> Step(after, n)]
  BY <1>1
<1>3. reference_checksum(b, s) = checksum(after[s])
  BY DEF reference_checksum
<1> HIDE DEF after
<1>4. \A n \in 0 .. s : after[n] = Contents(b, n)
  <2> DEFINE Wrong == {n \in 0 .. s : after[n] # Contents(b, n)}
  <2>1. ASSUME NEW n \in Wrong, \A j \in Wrong : n <= j
        PROVE  FALSE
    <3>1. CASE n = 0
      BY <1>2, <2>1, <3>1, FilledContents
    <3>2. CASE n # 0
      <4>1. n - 1 \in Nat /\ n - 1 \in 0 .. s /\ (n - 1) + 1 = n /\ ~(n <= n - 1)
        BY <3>2
      <4>2. after[n - 1] = Contents(b, n - 1)
        BY <2>1, <4>1
      <4>3. after[n] = transform(n - 1, after[n - 1])
        BY <1>2, <3>2
      <4> QED BY <4>1, <4>2, <4>3, TransformedContents
    <3> QED BY <3>1, <3>2
  <2>2. Wrong \in SUBSET Nat
    OBVIOUS
  <2> QED BY <2>1, <2>2, LeastOf
<1> QED BY <1>3, <1>4

(***************************************************************************)
(* How many of the first n channels have a message.                        *)
(***************************************************************************)

Busy(ch, n) == {j \in 0 .. n - 1 : ch[j] # <<>>}
Count(ch, n) == Cardinality(Busy(ch, n))

\* `waiting` of LockStep.
Waiting(ch, s) ==
  LET waiting[n \in 0 .. s + 1] == IF n = 0 THEN 0 ELSE waiting[n - 1] + Len(ch[n - 1])
  IN  waiting[s + 1]

LEMMA BusyFinite ==
  ASSUME NEW ch, NEW n \in Nat
  PROVE  IsFiniteSet(Busy(ch, n)) /\ Count(ch, n) \in Nat
<1>1. IsFiniteSet(0 .. n - 1) /\ Busy(ch, n) \subseteq 0 .. n - 1
  <2>1. 0 \in Int /\ n - 1 \in Int
    OBVIOUS
  <2> QED BY <2>1, FS_Interval DEF Busy
<1> QED BY <1>1, FS_Subset, FS_CardinalityType DEF Count

LEMMA CountGrows ==
  ASSUME NEW ch, NEW n \in Nat, NEW m \in 0 .. n
  PROVE  Count(ch, m) <= Count(ch, n)
<1>1. Busy(ch, m) \subseteq Busy(ch, n)
  BY DEF Busy
<1>2. IsFiniteSet(Busy(ch, n))
  BY BusyFinite
<1> QED BY <1>1, <1>2, FS_Subset DEF Count

LEMMA CountStep ==
  ASSUME NEW ch, NEW n \in Nat
  PROVE  Count(ch, n + 1) = Count(ch, n) + (IF ch[n] = <<>> THEN 0 ELSE 1)
<1>1. IsFiniteSet(Busy(ch, n)) /\ n \notin Busy(ch, n) /\ Count(ch, n) \in Nat
  BY BusyFinite DEF Busy
<1>2. CASE ch[n] = <<>>
  <2>1. Busy(ch, n + 1) = Busy(ch, n)
    BY <1>2 DEF Busy
  <2> QED BY <1>1, <1>2, <2>1 DEF Count
<1>3. CASE ch[n] # <<>>
  <2>1. Busy(ch, n + 1) = Busy(ch, n) \union {n}
    BY <1>3 DEF Busy
  <2> QED BY <1>1, <1>3, <2>1, FS_AddElement DEF Count
<1> QED BY <1>2, <1>3

LEMMA CountNone == \A ch : Count(ch, 0) = 0
<1>1. \A ch : Busy(ch, 0) = {}
  BY DEF Busy
<1> QED BY <1>1, FS_EmptySet DEF Count

\* With at most one message in each, that is how many messages wait.
LEMMA WaitingIs ==
  ASSUME NEW ch, NEW s \in Nat,
         \A i \in 0 .. s : Len(ch[i]) = (IF ch[i] = <<>> THEN 0 ELSE 1)
  PROVE  Waiting(ch, s) = Count(ch, s + 1)
<1> DEFINE Step(f, n) == IF n = 0 THEN 0 ELSE f[n - 1] + Len(ch[n - 1])
           closed == [n \in 0 .. s + 1 |-> Count(ch, n)]
           waiting == CHOOSE f : f = [n \in 0 .. s + 1 |-> Step(f, n)]
<1>1. ASSUME NEW n \in 0 .. s + 1, n # 0
      PROVE  /\ n - 1 \in 0 .. s /\ ~(n <= n - 1)
             /\ Count(ch, n) = Count(ch, n - 1) + Len(ch[n - 1])
  <2>1. n - 1 \in 0 .. s /\ n - 1 \in Nat /\ (n - 1) + 1 = n
    BY <1>1
  <2> QED BY <2>1, CountStep
<1>2. closed = [n \in 0 .. s + 1 |-> Step(closed, n)]
  <2>1. ASSUME NEW n \in 0 .. s + 1
        PROVE  closed[n] = Step(closed, n)
    <3>1. CASE n = 0
      BY <3>1, CountNone
    <3>2. CASE n # 0
      BY <1>1, <3>2
    <3> QED BY <3>1, <3>2
  <2> QED BY <2>1
<1>3. waiting = [n \in 0 .. s + 1 |-> Step(waiting, n)]
  BY <1>2
<1>4. Waiting(ch, s) = waiting[s + 1]
  BY DEF Waiting
<1> HIDE DEF waiting
<1>5. \A n \in 0 .. s + 1 : waiting[n] = Count(ch, n)
  <2> DEFINE Wrong == {n \in 0 .. s + 1 : waiting[n] # Count(ch, n)}
  <2>1. ASSUME NEW n \in Wrong, \A j \in Wrong : n <= j
        PROVE  FALSE
    <3>1. CASE n = 0
      BY <1>3, <2>1, <3>1, CountNone
    <3>2. CASE n # 0
      <4>1. n - 1 \in 0 .. s + 1 /\ waiting[n - 1] = Count(ch, n - 1)
        BY <1>1, <2>1, <3>2
      <4>2. waiting[n] = waiting[n - 1] + Len(ch[n - 1])
        BY <1>3, <3>2
      <4> QED BY <1>1, <3>2, <4>1, <4>2
    <3> QED BY <3>1, <3>2
  <2>2. Wrong \in SUBSET Nat
    OBVIOUS
  <2> QED BY <2>1, <2>2, LeastOf
<1> QED BY <1>4, <1>5

\* A message passes from channel i to the next.
LEMMA CountPassed ==
  ASSUME NEW before, NEW after, NEW i \in Nat,
         before[i] # <<>>, before[i + 1] = <<>>, after[i] = <<>>, after[i + 1] # <<>>,
         NEW n \in Nat,
         \A j \in 0 .. n - 1 : j # i /\ j # i + 1 => after[j] = before[j]
  PROVE  Count(after, n) = Count(before, n) - (IF n = i + 1 THEN 1 ELSE 0)
<1>1. IsFiniteSet(Busy(before, n)) /\ Count(before, n) \in Nat
  BY BusyFinite
<1>2. CASE n <= i
  <2>1. Busy(after, n) = Busy(before, n)
    BY <1>2 DEF Busy
  <2> QED BY <1>1, <1>2, <2>1 DEF Count
<1>3. CASE n = i + 1
  <2>1. Busy(after, n) = Busy(before, n) \ {i} /\ i \in Busy(before, n)
    BY <1>3 DEF Busy
  <2> QED BY <1>1, <1>3, <2>1, FS_RemoveElement DEF Count
<1>4. CASE n > i + 1
  <2>1. PICK rest : rest = Busy(before, n) \ {i}
    OBVIOUS
  <2>2. /\ Busy(after, n) = rest \union {i + 1}
        /\ i \in Busy(before, n) /\ i + 1 \notin rest
    BY <1>4, <2>1 DEF Busy
  <2>3. IsFiniteSet(rest) /\ Cardinality(rest) = Count(before, n) - 1
    BY <1>1, <2>1, <2>2, FS_RemoveElement DEF Count
  <2>4. Count(after, n) = Cardinality(rest) + 1
    BY <2>2, <2>3, FS_AddElement DEF Count
  <2> QED BY <1>1, <1>4, <2>3, <2>4
<1> QED BY <1>2, <1>3, <1>4

\* The last channel loses its message.
LEMMA CountTaken ==
  ASSUME NEW before, NEW after, NEW s \in Nat, before[s] # <<>>, after[s] = <<>>,
         \A j \in 0 .. s - 1 : after[j] = before[j]
  PROVE  /\ \A n \in 0 .. s : Count(after, n) = Count(before, n)
         /\ Count(after, s + 1) = Count(before, s + 1) - 1
<1>1. \A n \in 0 .. s : Count(after, n) = Count(before, n)
  <2>1. \A n \in 0 .. s : Busy(after, n) = Busy(before, n)
    BY DEF Busy
  <2> QED BY <2>1 DEF Count
<1>2. Count(after, s) = Count(before, s) /\ Count(before, s) \in Nat
  BY <1>1, BusyFinite
<1> QED BY SMTT(20), <1>1, <1>2, CountStep

\* The first channel gains a message.
LEMMA CountAdded ==
  ASSUME NEW before, NEW after, NEW n \in Nat \ {0}, before[0] = <<>>, after[0] # <<>>,
         \A j \in 1 .. n - 1 : after[j] = before[j]
  PROVE  Count(after, n) = Count(before, n) + 1
<1>1. IsFiniteSet(Busy(before, n)) /\ 0 \notin Busy(before, n)
  BY BusyFinite DEF Busy
<1>2. Busy(after, n) = Busy(before, n) \union {0}
  BY DEF Busy
<1> QED BY <1>1, <1>2, FS_AddElement DEF Count

(***************************************************************************)
(* The inductive invariant: the message in a channel carries the batch     *)
(* that many messages behind the producer, with the transforms before that *)
(* channel done; and the channel the next process writes to is empty.      *)
(***************************************************************************)

Region == {Zeroed} \union UNION {{Contents(b, n) : n \in Nat} : b \in Nat}
Waits == Count(chan, config.stages + 1)

ScheduleOK ==
  /\ config \in Configs
  /\ turn \in 0 .. config.stages + 2
  /\ turn >= 2 => chan[config.stages + 2 - turn] = <<>>

MessageAt(i) ==
  [batch |-> next_batch - Count(chan, i + 1), region |-> Contents(next_batch - Count(chan, i + 1), i)]

MessagesOK ==
  /\ DOMAIN chan = 0 .. config.stages
  /\ \A i \in 0 .. config.stages : chan[i] = <<>> \/ chan[i] = <<MessageAt(i)>>

ResultsOK ==
  /\ next_batch \in Nat /\ Waits <= next_batch
  /\ results = [k \in 1 .. next_batch - Waits |->
                  [batch |-> k - 1, checksum |-> checksum(Contents(k - 1, config.stages))]]

RegionsOK ==
  /\ pool \in Seq(Region)
  /\ returns \in Seq([batch : Nat, region : Region])
  /\ Len(pool) + Len(returns) + Waits = config.pool

BaselineInv == ScheduleOK /\ MessagesOK /\ ResultsOK /\ RegionsOK

LEMMA ContentsRegion == ASSUME NEW b \in Nat, NEW n \in Nat PROVE Contents(b, n) \in Region
BY DEF Region

LEMMA ConfigFacts ==
  ASSUME config \in Configs
  PROVE  /\ config.stages \in Nat /\ config.pool \in Nat /\ config.batches \in Nat
         /\ processes = config.stages + 3
BY BaselineAssumption DEF processes

LEMMA InvMeans == ASSUME BaselineInv PROVE ResultsAreTheReference /\ LockStep
<1>1. config.stages \in Nat /\ config.pool \in Nat
  BY ConfigFacts DEF BaselineInv, ScheduleOK
<1>2. ResultsAreTheReference
  <2> SUFFICES ASSUME NEW k \in DOMAIN results
               PROVE  results[k] = [batch |-> k - 1,
                                    checksum |-> reference_checksum(k - 1, config.stages)]
    BY DEF ResultsAreTheReference
  <2>1. reference_checksum(k - 1, config.stages) = checksum(Contents(k - 1, config.stages))
    BY <1>1, ReferenceIs
  <2> QED BY <2>1 DEF BaselineInv, ResultsOK
<1>3. \A i \in 0 .. config.stages : Len(chan[i]) = (IF chan[i] = <<>> THEN 0 ELSE 1)
  <2>1. \A m : Len(<<m>>) = 1 /\ <<m>> # <<>>
    OBVIOUS
  <2> SUFFICES ASSUME NEW i \in 0 .. config.stages
               PROVE  Len(chan[i]) = (IF chan[i] = <<>> THEN 0 ELSE 1)
    OBVIOUS
  <2>2. CASE chan[i] = <<>>
    BY <2>2
  <2>3. CASE chan[i] = <<MessageAt(i)>>
    BY <2>1, <2>3
  <2> QED BY <2>2, <2>3 DEF BaselineInv, MessagesOK
<1>4. Waiting(chan, config.stages) = Waits
  BY <1>1, <1>3, WaitingIs DEF Waits
<1>5. Len(pool) + Len(returns) + Waiting(chan, config.stages) = config.pool
  BY <1>4 DEF BaselineInv, RegionsOK
<1>6. \A i \in DOMAIN chan : Len(chan[i]) <= 1
  BY <1>3 DEF BaselineInv, MessagesOK
<1>7. LockStep
  BY <1>5, <1>6 DEF LockStep, Waiting
<1> QED BY <1>2, <1>7

LEMMA InitBaselineInv == Init => BaselineInv
<1> SUFFICES ASSUME Init PROVE BaselineInv
  OBVIOUS
<1>1. config \in Configs /\ config.stages \in Nat /\ config.pool \in Nat
  BY ConfigFacts DEF Init
<1>2. DOMAIN chan = 0 .. config.stages /\ \A i \in 0 .. config.stages : chan[i] = <<>>
  BY DEF Init
<1>3. Waits = 0
  <2>1. Busy(chan, config.stages + 1) = {}
    BY <1>1, <1>2 DEF Busy
  <2> QED BY <2>1, FS_EmptySet DEF Waits, Count
<1>4. ScheduleOK /\ MessagesOK
  BY <1>1, <1>2 DEF Init, ScheduleOK, MessagesOK, Supervisor
<1>5. ResultsOK
  BY <1>3 DEF Init, ResultsOK
<1>6. RegionsOK
  <2>1. pool \in [1 .. config.pool -> Region]
    <3>1. Zeroed \in Region
      BY DEF Region
    <3> QED BY <3>1 DEF Init
  <2>2. pool \in Seq(Region) /\ Len(pool) = config.pool
    <3>1. PICK n \in Nat : n = config.pool
      BY <1>1
    <3> QED BY <2>1, <3>1
  <2> QED BY <1>1, <1>3, <2>2 DEF Init, RegionsOK
<1> QED BY <1>4, <1>5, <1>6 DEF BaselineInv

(***************************************************************************)
(* The steps.                                                              *)
(***************************************************************************)

LEMMA NextTurn ==
  ASSUME config \in Configs, NEW k \in 0 .. config.stages + 2, NEW progressed, NEW sent,
         Turn(k, progressed, sent)
  PROVE  /\ config' = config /\ turn = k
         /\ turn' = (IF k = config.stages + 2 THEN 0 ELSE k + 1)
<1>1. config.stages \in Nat /\ processes = config.stages + 3
  BY ConfigFacts
<1>2. config' = config /\ turn = k /\ turn' = (k + 1) % (config.stages + 3)
  BY <1>1 DEF Turn
<1>3. \A s \in Nat : \A j \in 0 .. s + 2 : (j + 1) % (s + 3) = (IF j = s + 2 THEN 0 ELSE j + 1)
  <2> SUFFICES ASSUME NEW s \in Nat, NEW j \in 0 .. s + 2
               PROVE  (j + 1) % (s + 3) = (IF j = s + 2 THEN 0 ELSE j + 1)
    OBVIOUS
  <2>1. CASE j = s + 2
    <3>1. \A m \in Nat \ {0} : m % m = 0
      OBVIOUS
    <3> QED BY <2>1, <3>1
  <2>2. CASE j # s + 2
    <3>1. \A m \in Nat \ {0} : \A i \in 0 .. m - 1 : i % m = i
      OBVIOUS
    <3> QED BY <2>2, <3>1
  <2> QED BY <2>1, <2>2
<1> QED BY <1>1, <1>2, <1>3

\* Nobody writes: the next process finds its output as it was left.
LEMMA QuietTurn ==
  ASSUME BaselineInv, NEW k \in 0 .. config.stages + 1, NEW progressed, NEW sent,
         Turn(k, progressed, sent),
         k # 0 => chan[config.stages + 1 - k] = <<>>,
         UNCHANGED <<chan, returns, pool, next_batch, results>>
  PROVE  BaselineInv'
<1>1. config \in Configs /\ config.stages \in Nat
  BY ConfigFacts DEF BaselineInv, ScheduleOK
<1>2. config' = config /\ turn' = k + 1
  BY <1>1, NextTurn
<1>3. ScheduleOK'
  BY <1>1, <1>2 DEF ScheduleOK
<1>4. MessagesOK' /\ ResultsOK' /\ RegionsOK'
  BY <1>2 DEF BaselineInv, MessagesOK, MessageAt, ResultsOK, RegionsOK, Waits
<1> QED BY <1>3, <1>4 DEF BaselineInv

LEMMA SupervisorStep == ASSUME BaselineInv, SupervisorTurn PROVE BaselineInv'
<1>1. 0 \in 0 .. config.stages + 1
  BY ConfigFacts DEF BaselineInv, ScheduleOK
<1> QED BY <1>1, QuietTurn DEF SupervisorTurn, Supervisor

LEMMA StageIdleStep ==
  ASSUME BaselineInv, NEW i \in 0 .. config.stages, StageIdle(i)
  PROVE  BaselineInv'
<1> DEFINE k == config.stages + 1 - i
<1>1. /\ config.stages \in Nat /\ k \in 0 .. config.stages + 1 /\ config.stages + 1 - k = i
  BY ConfigFacts DEF BaselineInv, ScheduleOK
<1>2. (IF i = config.stages THEN Sink ELSE Transformer(i)) = k
  BY <1>1 DEF Sink, Transformer
<1>3. /\ Turn(k, FALSE, 0) /\ chan[i] = <<>>
      /\ UNCHANGED <<chan, returns, pool, next_batch, results>>
  BY <1>2 DEF StageIdle
<1> HIDE DEF k
<1> QED BY <1>1, <1>3, QuietTurn

LEMMA TransformerStep ==
  ASSUME BaselineInv, NEW i \in 0 .. config.stages - 1, TransformerTurn(i)
  PROVE  BaselineInv'
<1>1. PICK s \in Nat : s = config.stages
  BY ConfigFacts DEF BaselineInv, ScheduleOK
<1>2. PICK k \in 2 .. s + 1 : k = Transformer(i) /\ s + 2 - k = i + 1
  BY <1>1 DEF Transformer
<1>3. PICK m : m = Head(chan[i])
  OBVIOUS
<1>4. PICK passed : passed = [m EXCEPT !.region = transform(i, @)]
  OBVIOUS
<1>5. /\ chan[i] # <<>> /\ Turn(k, TRUE, 1)
      /\ chan' = [chan EXCEPT ![i] = Tail(@), ![i + 1] = Append(@, passed)]
      /\ UNCHANGED <<returns, pool, next_batch, results>>
  BY <1>2, <1>3, <1>4 DEF TransformerTurn
<1>6. config' = config /\ turn = k /\ turn' = k + 1
  <2>1. config \in Configs
    BY DEF BaselineInv, ScheduleOK
  <2>2. k \in 0 .. s + 2 /\ k # s + 2
    OBVIOUS
  <2>3. k \in 0 .. config.stages + 2 /\ k # config.stages + 2
    BY <1>1, <2>2
  <2> QED BY <1>5, <2>1, <2>3, NextTurn
<1>7. chan[i + 1] = <<>> /\ chan[i] = <<MessageAt(i)>> /\ DOMAIN chan = 0 .. s
  <2>1. chan[config.stages + 2 - k] = <<>>
    BY <1>2, <1>6 DEF BaselineInv, ScheduleOK
  <2>2. i \in 0 .. config.stages
    BY <1>1
  <2> QED BY <1>1, <1>2, <1>5, <2>1, <2>2 DEF BaselineInv, MessagesOK
<1>8. /\ DOMAIN chan' = 0 .. s
      /\ chan'[i] = <<>> /\ chan'[i + 1] = <<passed>>
      /\ \A j \in 0 .. s : j # i /\ j # i + 1 => chan'[j] = chan[j]
  BY SMTT(20), <1>1, <1>5, <1>7
<1>9. ASSUME NEW n \in 0 .. s + 1
      PROVE  Count(chan', n) = Count(chan, n) - (IF n = i + 1 THEN 1 ELSE 0)
  <2>1. PICK after : after = chan'
    OBVIOUS
  <2>2. after[i] = <<>> /\ after[i + 1] # <<>>
    BY <1>8, <2>1
  <2>3. i \in Nat /\ n \in Nat /\ \A j \in 0 .. n - 1 : j \in 0 .. s
    BY <1>1
  <2>4. \A j \in 0 .. n - 1 : j # i /\ j # i + 1 => after[j] = chan[j]
    BY <1>8, <2>1, <2>3
  <2>5. Count(after, n) = Count(chan, n) - (IF n = i + 1 THEN 1 ELSE 0)
    BY <1>5, <1>7, <2>2, <2>3, <2>4, CountPassed
  <2> QED BY <2>1, <2>5
<1>10. passed = [batch |-> next_batch - Count(chan, i + 1),
                 region |-> Contents(next_batch - Count(chan, i + 1), i + 1)]
  <2>1. m = MessageAt(i)
    BY <1>3, <1>7
  <2> QED BY <1>4, <2>1, TransformedContents DEF MessageAt
<1>11. Count(chan', i + 2) = Count(chan, i + 1)
  <2>1. i + 1 \in Nat /\ (i + 1) + 1 = i + 2 /\ i + 2 \in 0 .. s + 1 /\ i + 2 # i + 1
    BY <1>1
  <2>2. Count(chan, i + 2) = Count(chan, i + 1) + 0
    BY <1>7, <2>1, CountStep
  <2>3. Count(chan', i + 2) = Count(chan, i + 2) - 0
    BY <1>9, <2>1
  <2>4. Count(chan, i + 1) \in Nat
    BY <2>1, BusyFinite
  <2> QED BY <2>2, <2>3, <2>4
<1>12. MessagesOK'
  <2> SUFFICES ASSUME NEW j \in 0 .. s
               PROVE  chan'[j] = <<>> \/ chan'[j] = <<MessageAt(j)>>'
    BY <1>1, <1>6, <1>8 DEF MessagesOK
  <2>1. CASE j = i
    BY <1>8, <2>1
  <2>2. CASE j = i + 1
    <3>1. passed = MessageAt(j)'
      BY <1>5, <1>10, <1>11, <2>2 DEF MessageAt
    <3> QED BY <1>8, <2>2, <3>1
  <2>3. CASE j # i /\ j # i + 1
    <3>1. Count(chan', j + 1) = Count(chan, j + 1)
      <4>1. j + 1 \in 0 .. s + 1 /\ j + 1 # i + 1 /\ Count(chan, j + 1) \in Nat
        BY <2>3, BusyFinite
      <4> QED BY <1>9, <4>1
    <3>2. MessageAt(j)' = MessageAt(j)
      BY <1>5, <3>1 DEF MessageAt
    <3> QED BY <1>1, <1>8, <2>3, <3>2 DEF BaselineInv, MessagesOK
  <2> QED BY <2>1, <2>2, <2>3
<1>13. Waits' = Waits
  <2>1. s + 1 \in 0 .. s + 1 /\ s + 1 # i + 1 /\ Count(chan, s + 1) \in Nat
    BY <1>1, BusyFinite
  <2> QED BY <1>1, <1>6, <1>9, <2>1 DEF Waits
<1>14. ResultsOK' /\ RegionsOK'
  BY <1>5, <1>6, <1>13 DEF BaselineInv, ResultsOK, RegionsOK
<1>15. ScheduleOK'
  <2>1. s + 2 - (k + 1) = i /\ k + 1 \in 0 .. s + 2
    BY <1>2
  <2> QED BY <1>1, <1>6, <1>8, <2>1 DEF BaselineInv, ScheduleOK
<1> QED BY <1>12, <1>14, <1>15 DEF BaselineInv

LEMMA AppendedPrefix ==
  ASSUME NEW f, NEW n \in Nat, NEW prefix, prefix = [k \in 1 .. n |-> f[k]]
  PROVE  Append(prefix, f[n + 1]) = [k \in 1 .. n + 1 |-> f[k]]
<1> DEFINE S == {f[k] : k \in 1 .. n + 1}
<1>1. prefix \in [1 .. n -> S] /\ f[n + 1] \in S
  OBVIOUS
<1> HIDE DEF S
<1>2. prefix \in Seq(S) /\ Len(prefix) = n
  BY <1>1
<1>3. /\ Append(prefix, f[n + 1]) \in Seq(S) /\ Len(Append(prefix, f[n + 1])) = n + 1
      /\ DOMAIN Append(prefix, f[n + 1]) = 1 .. n + 1
  BY <1>1, <1>2
<1>4. ASSUME NEW k \in 1 .. n + 1
      PROVE  Append(prefix, f[n + 1])[k] = f[k]
  <2>1. CASE k = n + 1
    BY <1>1, <1>2, <2>1
  <2>2. CASE k # n + 1
    <3>1. k \in 1 .. n
      BY <2>2
    <3> QED BY <1>1, <1>2, <3>1
  <2> QED BY <2>1, <2>2
<1> QED BY <1>3, <1>4

LEMMA SinkStep == ASSUME BaselineInv, SinkTurn PROVE BaselineInv'
<1>1. PICK s \in Nat : s = config.stages
  BY ConfigFacts DEF BaselineInv, ScheduleOK
<1>2. PICK m : m = Head(chan[s])
  OBVIOUS
<1>3. /\ chan[s] # <<>> /\ Turn(Sink, TRUE, 1)
      /\ chan' = [chan EXCEPT ![s] = Tail(@)]
      /\ returns' = Append(returns, m)
      /\ results' = Append(results, [batch |-> m.batch, checksum |-> checksum(m.region)])
      /\ pool' = pool /\ next_batch' = next_batch
  BY <1>1, <1>2 DEF SinkTurn
<1>4. config' = config /\ turn' = 2
  <2>1. config \in Configs /\ 1 \in 0 .. config.stages + 2 /\ 1 # config.stages + 2
    BY <1>1 DEF BaselineInv, ScheduleOK
  <2>2. Turn(1, TRUE, 1)
    BY <1>3 DEF Sink
  <2>3. /\ config' = config
        /\ turn' = (IF 1 = config.stages + 2 THEN 0 ELSE 1 + 1)
    BY <2>1, <2>2, NextTurn
  <2> QED BY <2>1, <2>3
<1>5. chan[s] = <<MessageAt(s)>> /\ DOMAIN chan = 0 .. s /\ m = MessageAt(s)
  <2>1. s \in 0 .. config.stages
    BY <1>1
  <2>2. chan[s] = <<MessageAt(s)>> /\ DOMAIN chan = 0 .. s
    BY <1>1, <1>3, <2>1 DEF BaselineInv, MessagesOK
  <2> QED BY <1>2, <2>2
<1>6. DOMAIN chan' = 0 .. s /\ chan'[s] = <<>> /\ \A j \in 0 .. s - 1 : chan'[j] = chan[j]
  BY <1>1, <1>3, <1>5
<1>7. /\ \A n \in 0 .. s : Count(chan', n) = Count(chan, n)
      /\ Waits' = Waits - 1
  <2>1. PICK after : after = chan'
    OBVIOUS
  <2>2. after[s] = <<>> /\ \A j \in 0 .. s - 1 : after[j] = chan[j]
    BY <1>6, <2>1
  <2>3. /\ \A n \in 0 .. s : Count(after, n) = Count(chan, n)
        /\ Count(after, s + 1) = Count(chan, s + 1) - 1
    BY <1>3, <2>2, CountTaken
  <2> QED BY <1>1, <1>4, <2>1, <2>3 DEF Waits
<1>8. /\ next_batch \in Nat /\ Waits \in Nat \ {0} /\ Waits <= next_batch
      /\ results = [k \in 1 .. next_batch - Waits |->
                      [batch |-> k - 1, checksum |-> checksum(Contents(k - 1, s))]]
  <2>1. Waits \in Nat
    BY <1>1, BusyFinite DEF Waits
  <2>2. Waits = Count(chan, s) + 1 /\ Count(chan, s) \in Nat
    BY <1>1, <1>3, CountStep, BusyFinite DEF Waits
  <2> QED BY <1>1, <2>1, <2>2 DEF BaselineInv, ResultsOK
<1>9. m = [batch |-> next_batch - Waits, region |-> Contents(next_batch - Waits, s)]
  BY <1>1, <1>5 DEF MessageAt, Waits
<1>10. MessagesOK'
  <2> SUFFICES ASSUME NEW j \in 0 .. s
               PROVE  chan'[j] = <<>> \/ chan'[j] = <<MessageAt(j)>>'
    BY <1>1, <1>4, <1>6 DEF MessagesOK
  <2>1. CASE j = s
    BY <1>6, <2>1
  <2>2. CASE j # s
    <3>1. j \in 0 .. s - 1 /\ j + 1 \in 0 .. s
      BY <2>2
    <3>2. MessageAt(j)' = MessageAt(j) /\ chan'[j] = chan[j]
      BY <1>3, <1>6, <1>7, <3>1 DEF MessageAt
    <3> QED BY <1>1, <3>2 DEF BaselineInv, MessagesOK
  <2> QED BY <2>1, <2>2
<1>11. ResultsOK'
  <2> DEFINE result == [k \in Nat \ {0} |-> [batch |-> k - 1, checksum |-> checksum(Contents(k - 1, s))]]
  <2>1. PICK n \in Nat : n = next_batch - Waits
    BY <1>8
  <2>2. results = [k \in 1 .. n |-> result[k]]
    BY <1>8, <2>1
  <2>3. [batch |-> m.batch, checksum |-> checksum(m.region)] = result[n + 1]
    BY <1>9, <2>1
  <2>4. results' = Append(results, result[n + 1])
    BY <1>3, <2>3
  <2>5. results' = [k \in 1 .. n + 1 |-> result[k]]
    <3>1. PICK f : f = result
      OBVIOUS
    <3>2. results = [k \in 1 .. n |-> f[k]] /\ results' = Append(results, f[n + 1])
      BY <2>2, <2>4, <3>1
    <3>3. results' = [k \in 1 .. n + 1 |-> f[k]]
      BY <3>2, AppendedPrefix
    <3> QED BY <3>1, <3>3
  <2>6. next_batch' - Waits' = n + 1 /\ next_batch' \in Nat /\ Waits' <= next_batch'
    BY <1>3, <1>7, <1>8, <2>1
  <2> QED BY <1>1, <1>4, <2>5, <2>6 DEF ResultsOK
<1>12. RegionsOK'
  <2>1. m \in [batch : Nat, region : Region]
    <3>1. next_batch - Waits \in Nat
      BY <1>8
    <3> QED BY <1>9, <3>1, ContentsRegion
  <2>2. /\ returns \in Seq([batch : Nat, region : Region])
        /\ pool \in Seq(Region) /\ Len(pool) + Len(returns) + Waits = config.pool
    BY DEF BaselineInv, RegionsOK
  <2>3. /\ returns' \in Seq([batch : Nat, region : Region])
        /\ Len(returns') = Len(returns) + 1
    BY <1>3, <2>1, <2>2
  <2>4. Len(pool) \in Nat /\ Len(returns) \in Nat
    BY <2>2
  <2>5. Len(pool) + (Len(returns) + 1) + (Waits - 1) = config.pool
    BY <1>8, <2>2, <2>4
  <2> QED BY <1>3, <1>4, <1>7, <2>2, <2>3, <2>5 DEF RegionsOK
<1>13. ScheduleOK'
  BY <1>1, <1>4, <1>6 DEF BaselineInv, ScheduleOK
<1> QED BY <1>10, <1>11, <1>12, <1>13 DEF BaselineInv

\* Draining the returns keeps their regions, in order.
LEMMA DrainedRegions ==
  ASSUME RegionsOK
  PROVE  Drained \in Seq(Region) /\ Len(Drained) = Len(pool) + Len(returns)
<1> DEFINE back == [k \in DOMAIN returns |-> returns[k].region]
<1>1. pool \in Seq(Region) /\ returns \in Seq([batch : Nat, region : Region])
  BY DEF RegionsOK
<1>2. DOMAIN returns = 1 .. Len(returns) /\ Len(returns) \in Nat
  BY <1>1
<1>3. ASSUME NEW k \in 1 .. Len(returns)
      PROVE  returns[k].region \in Region
  <2>1. returns[k] \in [batch : Nat, region : Region]
    <3>1. PICK Msg : Msg = [batch : Nat, region : Region]
      OBVIOUS
    <3> QED BY <1>1, <3>1, ElementOfSeq
  <2> QED BY <2>1
<1>4. back \in [1 .. Len(returns) -> Region]
  BY <1>2, <1>3
<1>5. back \in Seq(Region) /\ Len(back) = Len(returns)
  <2> HIDE DEF back
  <2> QED BY <1>2, <1>4
<1> HIDE DEF back
<1>6. Drained = pool \o back
  BY DEF Drained, back
<1>7. /\ pool \o back \in Seq(Region)
      /\ Len(pool \o back) = Len(pool) + Len(back)
  BY <1>1, <1>5, ConcatProperties
<1> QED BY <1>5, <1>6, <1>7

LEMMA ProducerDrainsStep == ASSUME BaselineInv, ProducerOnlyDrains PROVE BaselineInv'
<1>1. PICK s \in Nat : s = config.stages
  BY ConfigFacts DEF BaselineInv, ScheduleOK
<1>2. /\ pool' = Drained /\ returns' = <<>> /\ UNCHANGED <<chan, next_batch, results>>
      /\ config' = config /\ turn' = 0
  <2>1. config \in Configs /\ Producer \in 0 .. config.stages + 2 /\ Producer = config.stages + 2
    BY <1>1 DEF BaselineInv, ScheduleOK, Producer
  <2> QED BY <2>1, NextTurn DEF ProducerOnlyDrains
<1>3. Drained \in Seq(Region) /\ Len(Drained) = Len(pool) + Len(returns)
  BY DrainedRegions DEF BaselineInv
<1>4. Waits' = Waits
  BY <1>2 DEF Waits
<1>5. RegionsOK'
  <2>1. <<>> \in Seq([batch : Nat, region : Region]) /\ Len(<<>>) = 0
    OBVIOUS
  <2>2. Len(pool) + Len(returns) + Waits = config.pool /\ Len(Drained) \in Nat
    BY <1>3 DEF BaselineInv, RegionsOK
  <2>3. Len(Drained) + 0 + Waits = config.pool
    BY <1>3, <2>2
  <2> QED BY <1>2, <1>3, <1>4, <2>1, <2>3 DEF RegionsOK
<1>6. ScheduleOK' /\ MessagesOK' /\ ResultsOK'
  BY <1>1, <1>2, <1>4 DEF BaselineInv, ScheduleOK, MessagesOK, MessageAt, ResultsOK
<1> QED BY <1>5, <1>6 DEF BaselineInv

LEMMA ProducerSendsStep == ASSUME BaselineInv, ProducerSends PROVE BaselineInv'
<1>1. PICK s \in Nat : s = config.stages
  BY ConfigFacts DEF BaselineInv, ScheduleOK
<1>2. PICK m : m = [batch |-> next_batch, region |-> Contents(next_batch, 0)]
  OBVIOUS
<1>3. /\ Drained # <<>> /\ Turn(Producer, TRUE, 1)
      /\ chan' = [chan EXCEPT ![0] = Append(@, m)]
      /\ pool' = Tail(Drained) /\ returns' = <<>>
      /\ next_batch' = next_batch + 1 /\ results' = results
  BY <1>2, FilledContents DEF ProducerSends, CanSend
<1>4. config' = config /\ turn = s + 2 /\ turn' = 0
  <2>1. config \in Configs /\ Producer \in 0 .. config.stages + 2 /\ Producer = config.stages + 2
    BY <1>1 DEF BaselineInv, ScheduleOK, Producer
  <2> QED BY <1>1, <1>3, <2>1, NextTurn
<1>5. chan[0] = <<>> /\ DOMAIN chan = 0 .. s
  <2>1. chan[config.stages + 2 - turn] = <<>> /\ config.stages + 2 - turn = 0
    BY <1>1, <1>4 DEF BaselineInv, ScheduleOK
  <2> QED BY <1>1, <2>1 DEF BaselineInv, MessagesOK
<1>6. DOMAIN chan' = 0 .. s /\ chan'[0] = <<m>> /\ \A j \in 1 .. s : chan'[j] = chan[j]
  BY <1>1, <1>3, <1>5
<1>7. \A n \in 1 .. s + 1 : Count(chan', n) = Count(chan, n) + 1 /\ Count(chan, n) \in Nat
  <2> SUFFICES ASSUME NEW n \in 1 .. s + 1
               PROVE  Count(chan', n) = Count(chan, n) + 1 /\ Count(chan, n) \in Nat
    OBVIOUS
  <2>1. PICK after : after = chan'
    OBVIOUS
  <2>2. after[0] # <<>>
    BY <1>6, <2>1
  <2>3. n \in Nat \ {0} /\ \A j \in 1 .. n - 1 : j \in 1 .. s
    OBVIOUS
  <2>4. \A j \in 1 .. n - 1 : after[j] = chan[j]
    BY <1>6, <2>1, <2>3
  <2>5. Count(after, n) = Count(chan, n) + 1
    BY <1>5, <2>2, <2>3, <2>4, CountAdded
  <2> QED BY <2>1, <2>3, <2>5, BusyFinite
<1>8. Waits' = Waits + 1 /\ Waits \in Nat /\ next_batch \in Nat
  BY <1>1, <1>4, <1>7 DEF Waits, BaselineInv, ResultsOK
<1>9. MessagesOK'
  <2> SUFFICES ASSUME NEW j \in 0 .. s
               PROVE  chan'[j] = <<>> \/ chan'[j] = <<MessageAt(j)>>'
    BY <1>1, <1>4, <1>6 DEF MessagesOK
  <2>1. next_batch' - Count(chan', j + 1) = next_batch - Count(chan, j + 1)
    <3>1. j + 1 \in 1 .. s + 1
      OBVIOUS
    <3>2. Count(chan', j + 1) = Count(chan, j + 1) + 1 /\ Count(chan, j + 1) \in Nat
      BY <1>7, <3>1
    <3>3. next_batch' = next_batch + 1 /\ next_batch \in Nat
      BY <1>3, <1>8
    <3> QED BY <3>2, <3>3
  <2>2. CASE j = 0
    <3>1. Count(chan, 1) = 0
      <4>1. Count(chan, 0 + 1) = Count(chan, 0) + 0
        BY <1>5, CountStep
      <4> QED BY <4>1, CountNone
    <3>2. next_batch' - Count(chan', j + 1) = next_batch
      BY <1>8, <2>1, <2>2, <3>1
    <3>3. MessageAt(j)' = m
      BY <1>2, <2>2, <3>2 DEF MessageAt
    <3> QED BY <1>6, <2>2, <3>3
  <2>3. CASE j # 0
    <3>1. MessageAt(j)' = MessageAt(j) /\ chan'[j] = chan[j]
      BY <1>6, <2>1, <2>3 DEF MessageAt
    <3> QED BY <1>1, <3>1 DEF BaselineInv, MessagesOK
  <2> QED BY <2>2, <2>3
<1>10. ResultsOK'
  <2>1. next_batch' - Waits' = next_batch - Waits /\ next_batch' \in Nat
    BY <1>3, <1>8
  <2>2. Waits' <= next_batch'
    BY <1>3, <1>8 DEF BaselineInv, ResultsOK
  <2> QED BY <1>3, <1>4, <2>1, <2>2 DEF BaselineInv, ResultsOK
<1>11. RegionsOK'
  <2>1. Drained \in Seq(Region) /\ Len(Drained) = Len(pool) + Len(returns)
    BY DrainedRegions DEF BaselineInv
  <2>2. Tail(Drained) \in Seq(Region) /\ Len(Tail(Drained)) = Len(Drained) - 1
    BY <1>3, <2>1, HeadTailProperties
  <2>3. <<>> \in Seq([batch : Nat, region : Region]) /\ Len(<<>>) = 0
    OBVIOUS
  <2>4. Len(pool) + Len(returns) + Waits = config.pool /\ Len(Drained) \in Nat
    BY <2>1 DEF BaselineInv, RegionsOK
  <2>5. (Len(Drained) - 1) + 0 + (Waits + 1) = config.pool
    BY <1>8, <2>1, <2>4
  <2> QED BY <1>3, <1>4, <1>8, <2>2, <2>3, <2>5 DEF RegionsOK
<1>12. ScheduleOK'
  BY <1>1, <1>4 DEF BaselineInv, ScheduleOK
<1> QED BY <1>9, <1>10, <1>11, <1>12 DEF BaselineInv

LEMMA BaselineInvAlways == Spec => []BaselineInv
<1>1. ASSUME BaselineInv, UNCHANGED vars
      PROVE  BaselineInv'
  BY <1>1 DEF vars, BaselineInv, ScheduleOK, MessagesOK, MessageAt, ResultsOK, RegionsOK, Waits
<1>2. BaselineInv /\ [Next]_vars => BaselineInv'
  BY <1>1, SupervisorStep, StageIdleStep, TransformerStep, SinkStep, ProducerSendsStep,
     ProducerDrainsStep DEF Next
<1> QED BY <1>2, InitBaselineInv, PTL DEF Spec

\* The sink's results are those of the first batches computed directly, one by one
\* and in order, for every number of batches, regions and stages.
THEOREM ResultsAreCorrect == Spec => []ResultsAreTheReference
BY InvMeans, BaselineInvAlways, PTL

\* No queue ever holds two messages, and every region of the pool is free, about to
\* return, or in one message.
THEOREM RegionsCirculate == Spec => []LockStep
BY InvMeans, BaselineInvAlways, PTL

(***************************************************************************)
(* The rate: which rounds a batch leaves in, and where it is afterwards.   *)
(***************************************************************************)

LEMMA Division ==
  ASSUME NEW x \in Nat, NEW m \in Nat \ {0}
  PROVE  x = (x \div m) * m + (x % m) /\ x % m \in 0 .. m - 1 /\ x \div m \in Nat
OBVIOUS

LEMMA DivisionIsUnique ==
  ASSUME NEW m \in Nat \ {0}, NEW q \in Int, NEW r \in 0 .. m - 1, NEW p \in Int, NEW s \in 0 .. m - 1,
         q * m + r = p * m + s
  PROVE  q = p /\ r = s
<1>1. (q - p) * m = s - r
  OBVIOUS
<1>2. CASE q - p >= 1
  <2>1. (q - p) * m >= m
    BY <1>2
  <2> QED BY <1>1, <2>1
<1>3. CASE q - p <= -1
  <2>1. (p - q) * m >= m
    BY <1>3
  <2> QED BY <1>1, <2>1
<1>4. CASE q = p
  BY <1>1, <1>4
<1> QED BY <1>2, <1>3, <1>4

\* x is q times m and r left over.
Splits(x, m, q, r) == x \in Nat /\ q \in Int /\ r \in 0 .. m - 1 /\ x = q * m + r

LEMMA Divided ==
  ASSUME NEW m \in Nat \ {0}, NEW q, NEW r, NEW x, Splits(x, m, q, r)
  PROVE  x \div m = q /\ x % m = r
<1>1. PICK y \in Nat, p \in Int, f \in 0 .. m - 1 : y = x /\ p = q /\ f = r /\ y = p * m + f
  BY DEF Splits
<1>2. PICK d \in Nat, e \in 0 .. m - 1 : d = y \div m /\ e = y % m /\ y = d * m + e
  BY Division
<1>3. d = p /\ e = f
  BY <1>1, <1>2, DivisionIsUnique
<1> QED BY <1>1, <1>2, <1>3

LEMMA NextQuotient ==
  ASSUME NEW m \in Nat \ {0}, NEW x \in Nat
  PROVE  /\ (x + 1) % m = (IF x % m = m - 1 THEN 0 ELSE (x % m) + 1)
         /\ (x + 1) \div m = (IF x % m = m - 1 THEN (x \div m) + 1 ELSE x \div m)
<1>1. PICK q \in Nat, r \in 0 .. m - 1 : q = x \div m /\ r = x % m /\ x = q * m + r
  BY Division
<1>2. CASE r = m - 1
  <2>1. Splits(x + 1, m, q + 1, 0)
    BY <1>1, <1>2 DEF Splits
  <2>2. (x + 1) \div m = q + 1 /\ (x + 1) % m = 0
    BY <2>1, Divided
  <2> QED BY <1>1, <1>2, <2>2
<1>3. CASE r # m - 1
  <2>1. Splits(x + 1, m, q, r + 1)
    BY <1>1, <1>3 DEF Splits
  <2>2. (x + 1) \div m = q /\ (x + 1) % m = r + 1
    BY <2>1, Divided
  <2> QED BY <1>1, <1>3, <2>2
<1> QED BY <1>2, <1>3

\* Of the s rounds before round r, those in which a region of a pool of p leaves.
Window(s, p, r) == {j \in 1 .. s : r - j \in Nat /\ (r - j) % (s + 1) < p}

\* If this is a round for a region to leave in, not all of them are under way.
LEMMA SomeoneIsBack ==
  ASSUME NEW s \in Nat, NEW p \in Nat, NEW r \in Nat, r % (s + 1) < p
  PROVE  Cardinality(Window(s, p, r)) < p
<1>1. PICK m \in Nat \ {0} : m = s + 1
  OBVIOUS
<1>2. PICK q \in Nat, f \in 0 .. m - 1 : f = r % m /\ r = q * m + f
  BY Division
<1> DEFINE others == (0 .. p - 1) \ {f}
           back == [k \in others |-> IF k < f THEN f - k ELSE f + m - k]
<1>3. IsFiniteSet(others) /\ Cardinality(others) = p - 1
  <2>1. f \in 0 .. p - 1
    BY <1>1, <1>2
  <2>2. IsFiniteSet(0 .. p - 1) /\ Cardinality(0 .. p - 1) = p
    <3>1. 0 \in Int /\ p - 1 \in Int /\ p \in Nat \ {0}
      BY <2>1
    <3> QED BY <3>1, FS_Interval
  <2>3. PICK all : all = 0 .. p - 1
    OBVIOUS
  <2>4. IsFiniteSet(all \ {f}) /\ Cardinality(all \ {f}) = Cardinality(all) - 1
    BY <2>1, <2>2, <2>3, FS_RemoveElement
  <2> QED BY <2>2, <2>3, <2>4
<1>4. ASSUME NEW j \in Window(s, p, r) PROVE \E k \in others : back[k] = j
  <2>1. j \in 1 .. s /\ r - j \in Nat /\ (r - j) % m < p
    BY <1>1 DEF Window
  <2>2. CASE j <= f
    <3>1. Splits(r - j, m, q, f - j)
      BY <1>2, <2>1, <2>2 DEF Splits
    <3>2. (r - j) % m = f - j
      BY <3>1, Divided
    <3>3. f - j \in others /\ f - j < f /\ f - (f - j) = j
      BY <2>1, <2>2, <3>2
    <3> QED BY <3>3
  <2>3. CASE j > f
    <3>1. f + m - j \in 0 .. m - 1
      BY <1>1, <1>2, <2>1, <2>3
    <3>2. (r - j) % m = f + m - j
      <4>1. Splits(r - j, m, q - 1, f + m - j)
        BY <1>2, <2>1, <3>1 DEF Splits
      <4> QED BY <4>1, Divided
    <3>3. f + m - j \in others /\ ~(f + m - j < f) /\ f + m - (f + m - j) = j
      BY <1>1, <2>1, <2>3, <3>1, <3>2
    <3> QED BY <3>3
  <2> QED BY <2>1, <2>2, <2>3
<1>5. Window(s, p, r) \subseteq {back[k] : k \in others}
  BY <1>4
<1>6. /\ IsFiniteSet({back[k] : k \in others})
      /\ Cardinality({back[k] : k \in others}) <= Cardinality(others)
  <2>1. PICK S, g : S = others /\ g = back /\ g = [k \in S |-> back[k]]
    OBVIOUS
  <2> HIDE DEF others, back
  <2>2. PICK T : T = {g[k] : k \in S}
    OBVIOUS
  <2>3. g \in Surjection(S, T)
    BY <2>1, <2>2 DEF Surjection
  <2>4. IsFiniteSet(T) /\ Cardinality(T) <= Cardinality(S)
    BY <1>3, <2>1, <2>3, FS_Surjection
  <2> QED BY <2>1, <2>2, <2>4
<1>7. Cardinality(Window(s, p, r)) <= Cardinality({back[k] : k \in others})
        /\ Cardinality(Window(s, p, r)) \in Nat
        /\ Cardinality({back[k] : k \in others}) \in Nat
  <2>1. PICK T : T = {back[k] : k \in others}
    OBVIOUS
  <2>2. Window(s, p, r) \subseteq T /\ IsFiniteSet(T)
    BY <1>5, <1>6, <2>1
  <2>3. /\ IsFiniteSet(Window(s, p, r)) /\ Cardinality(Window(s, p, r)) <= Cardinality(T)
    BY <2>2, FS_Subset
  <2> QED BY <2>1, <2>2, <2>3, FS_CardinalityType
<1> QED BY <1>3, <1>6, <1>7

\* If it is not, they all are.
LEMMA NobodyIsBack ==
  ASSUME NEW s \in Nat, NEW p \in Nat, NEW r \in Nat, ~(r % (s + 1) < p)
  PROVE  p <= Cardinality(Window(s, p, r))
<1>1. PICK m \in Nat \ {0} : m = s + 1
  OBVIOUS
<1>2. PICK q \in Nat, f \in 0 .. m - 1 : f = r % m /\ r = q * m + f
  BY Division
<1> DEFINE under == {f - k : k \in 0 .. p - 1}
           way == [k \in 0 .. p - 1 |-> f - k]
<1>3. p <= f
  BY <1>1, <1>2
<1>4. under \subseteq Window(s, p, r)
  <2>1. ASSUME NEW k \in 0 .. p - 1 PROVE f - k \in Window(s, p, r)
    <3>1. r - (f - k) = q * m + k /\ k \in 0 .. m - 1 /\ f - k \in 1 .. s
      BY <1>1, <1>2, <1>3
    <3>2. q * m \in Nat
      BY <1>2
    <3>3. r - (f - k) \in Nat
      BY <3>1, <3>2
    <3>4. (r - (f - k)) % m = k
      <4>1. Splits(r - (f - k), m, q, k)
        BY <1>2, <3>1, <3>3 DEF Splits
      <4> QED BY <4>1, Divided
    <3> QED BY <1>1, <3>1, <3>3, <3>4 DEF Window
  <2> QED BY <2>1
<1>5. IsFiniteSet(under) /\ Cardinality(under) = p
  <2>1. IsFiniteSet(0 .. p - 1) /\ Cardinality(0 .. p - 1) = p
    BY FS_Interval
  <2>2. way \in Surjection(0 .. p - 1, under)
    BY DEF Surjection
  <2>3. \A k, j \in 0 .. p - 1 : way[k] = way[j] => k = j
    BY <1>2
  <2>4. way \in [0 .. p - 1 -> under]
    OBVIOUS
  <2>5. way \in Injection(0 .. p - 1, under)
    <3> HIDE DEF way, under
    <3> QED BY <2>3, <2>4 DEF Injection, IsInjective
  <2>6. way \in Bijection(0 .. p - 1, under)
    <3> HIDE DEF way, under
    <3> QED BY <2>2, <2>5 DEF Bijection
  <2> HIDE DEF under, way
  <2>7. ExistsBijection(0 .. p - 1, under)
    BY <2>6 DEF ExistsBijection
  <2> QED BY <2>1, <2>7, FS_Bijection
<1>6. IsFiniteSet(Window(s, p, r))
  <2>1. IsFiniteSet(1 .. s) /\ Window(s, p, r) \subseteq 1 .. s
    BY FS_Interval DEF Window
  <2> QED BY <2>1, FS_Subset
<1> HIDE DEF under
<1> QED BY <1>4, <1>5, <1>6, FS_Subset

\* A batch leaves in this many of the first r rounds, unless they run out.
Departures(c, r) == {x \in 0 .. r - 1 : x % (c.stages + 1) < c.pool}
Due(c, r) == Cardinality(Departures(c, r))

Sent(c, r) == IF Due(c, r) < c.batches THEN Due(c, r) ELSE c.batches
Leaves(c, r) == r \in Nat /\ r % (c.stages + 1) < c.pool /\ Due(c, r) < c.batches

LEMMA DueNat == ASSUME NEW c, NEW r \in Nat PROVE IsFiniteSet(Departures(c, r)) /\ Due(c, r) \in Nat
<1>1. IsFiniteSet(0 .. r - 1) /\ Departures(c, r) \subseteq 0 .. r - 1
  BY FS_Interval DEF Departures
<1> QED BY <1>1, FS_Subset, FS_CardinalityType DEF Due

LEMMA DueStep ==
  ASSUME NEW c, NEW r \in Nat
  PROVE  Due(c, r + 1) = Due(c, r) + (IF r % (c.stages + 1) < c.pool THEN 1 ELSE 0)
<1>1. 0 .. (r + 1) - 1 = (0 .. r - 1) \union {r} /\ r \notin 0 .. r - 1
  OBVIOUS
<1>2. CASE r % (c.stages + 1) < c.pool
  <2>1. Departures(c, r + 1) = Departures(c, r) \union {r} /\ r \notin Departures(c, r)
    BY <1>1, <1>2 DEF Departures
  <2>2. Cardinality(Departures(c, r) \union {r}) = Cardinality(Departures(c, r)) + 1
    BY <2>1, DueNat, FS_AddElement
  <2> QED BY <1>2, <2>1, <2>2 DEF Due
<1>3. CASE ~(r % (c.stages + 1) < c.pool)
  <2>1. Departures(c, r + 1) = Departures(c, r)
    BY <1>1, <1>3 DEF Departures
  <2> QED BY <1>3, <2>1, DueNat DEF Due
<1> QED BY <1>2, <1>3

LEMMA DueGrows ==
  ASSUME NEW c, NEW r \in Nat, NEW x \in Nat, x <= r
  PROVE  Due(c, x) <= Due(c, r)
<1>1. Departures(c, x) \subseteq Departures(c, r)
  BY DEF Departures
<1> QED BY <1>1, DueNat, FS_Subset DEF Due

(***************************************************************************)
(* Where the messages are: a batch that left in round x is in channel j    *)
(* from its writer's turn in round x + j to its reader's in the next.      *)
(***************************************************************************)

Occupied(c, r, t, j) ==
  \/ t > c.stages + 2 - j /\ Leaves(c, r - j)
  \/ t < c.stages + 2 - j /\ Leaves(c, (r - 1) - j)

Placed(c, ch, r, t) == \A j \in 0 .. c.stages : ch[j] # <<>> <=> Occupied(c, r, t, j)

\* The supervisor's turn moves nothing.
LEMMA PlacedFirst ==
  ASSUME NEW c, c.stages \in Nat, NEW ch, NEW r \in Nat, Placed(c, ch, r, 0)
  PROVE  Placed(c, ch, r, 1)
<1>1. \A j \in 0 .. c.stages : /\ ~(0 > c.stages + 2 - j) /\ 0 < c.stages + 2 - j
                               /\ ~(1 > c.stages + 2 - j) /\ 1 < c.stages + 2 - j
  OBVIOUS
<1> QED BY <1>1 DEF Placed, Occupied

\* Turn k empties its channel into the next, if there is one.
LEMMA PlacedPassed ==
  ASSUME NEW c, NEW s \in Nat, s = c.stages, NEW before, NEW after, NEW r \in Nat,
         NEW k \in 1 .. s + 1, Placed(c, before, r, k),
         after[s + 1 - k] = <<>>,
         k # 1 => (after[s + 2 - k] # <<>> <=> before[s + 1 - k] # <<>>),
         \A j \in 0 .. s : j # s + 1 - k /\ j # s + 2 - k => after[j] = before[j]
  PROVE  Placed(c, after, r, k + 1)
<1> SUFFICES ASSUME NEW j \in 0 .. s
             PROVE  after[j] # <<>> <=> Occupied(c, r, k + 1, j)
  BY DEF Placed
<1>1. CASE j = s + 1 - k
  <2>1. ~(k + 1 > s + 2 - j) /\ ~(k + 1 < s + 2 - j)
    BY SMTT(20), <1>1
  <2> QED BY <1>1, <2>1 DEF Occupied
<1>2. CASE j = s + 2 - k
  <2>1. PICK i \in 0 .. s : i = s + 1 - k /\ j = i + 1 /\ k # 1
    BY <1>2
  <2>2. s + 2 - k = j /\ k + 1 > s + 2 - j /\ ~(k + 1 < s + 2 - j)
    BY SMTT(20), <1>2
  <2>3. k < s + 2 - i /\ ~(k > s + 2 - i)
    BY SMTT(20), <2>1
  <2>4. (r - 1) - i = r - j
    BY <2>1
  <2>5. before[i] # <<>> <=> Leaves(c, r - j)
    BY <2>3, <2>4 DEF Placed, Occupied
  <2>6. Occupied(c, r, k + 1, j) <=> Leaves(c, r - j)
    BY <2>2 DEF Occupied
  <2> QED BY <2>1, <2>2, <2>5, <2>6
<1>3. CASE j # s + 1 - k /\ j # s + 2 - k
  <2>1. /\ k > s + 2 - j <=> k + 1 > s + 2 - j
        /\ k < s + 2 - j <=> k + 1 < s + 2 - j
    BY <1>3
  <2>2. Occupied(c, r, k + 1, j) <=> Occupied(c, r, k, j)
    BY <2>1 DEF Occupied
  <2> QED BY <1>3, <2>2 DEF Placed
<1> QED BY <1>1, <1>2, <1>3

\* The producer's turn fills the first channel if a batch leaves, and ends the round.
LEMMA PlacedLast ==
  ASSUME NEW c, NEW s \in Nat, s = c.stages, NEW before, NEW after, NEW r \in Nat,
         Placed(c, before, r, s + 2),
         after[0] # <<>> <=> Leaves(c, r),
         \A j \in 1 .. s : after[j] = before[j]
  PROVE  Placed(c, after, r + 1, 0)
<1> SUFFICES ASSUME NEW j \in 0 .. s
             PROVE  after[j] # <<>> <=> Occupied(c, r + 1, 0, j)
  BY DEF Placed
<1>1. ~(0 > s + 2 - j) /\ 0 < s + 2 - j /\ ((r + 1) - 1) - j = r - j
  OBVIOUS
<1>2. Occupied(c, r + 1, 0, j) <=> Leaves(c, r - j)
  BY <1>1 DEF Occupied
<1>3. CASE j = 0
  BY <1>2, <1>3
<1>4. CASE j # 0
  <2>1. j \in 1 .. s /\ s + 2 > s + 2 - j /\ ~(s + 2 < s + 2 - j)
    BY <1>4
  <2>2. Occupied(c, r, s + 2, j) <=> Leaves(c, r - j)
    BY <2>1 DEF Occupied
  <2> QED BY <1>2, <2>1, <2>2 DEF Placed
<1> QED BY <1>3, <1>4

Rounds == stats.scheduler_turns \div processes

RateOK ==
  /\ stats.scheduler_turns \in Nat
  /\ turn = stats.scheduler_turns % processes
  /\ next_batch = Sent(config, Rounds)
  /\ Placed(config, chan, Rounds, turn)

LEMMA RoundFacts ==
  ASSUME config \in Configs, RateOK
  PROVE  Rounds \in Nat /\ turn \in 0 .. config.stages + 2
<1>1. PICK m \in Nat \ {0} : m = config.stages + 3 /\ m = processes
  BY ConfigFacts
<1>2. PICK x \in Nat : x = stats.scheduler_turns
  BY DEF RateOK
<1>3. PICK q \in Nat, f \in 0 .. m - 1 : q = x \div m /\ f = x % m
  BY Division
<1>4. Rounds = q /\ turn = f
  BY <1>1, <1>2, <1>3 DEF RateOK, Rounds
<1> QED BY <1>1, <1>4, ConfigFacts

\* Every turn counts, and the producer's completes a round.
LEMMA TurnCounts ==
  ASSUME config \in Configs, RateOK, NEW k \in 0 .. config.stages + 2, NEW progressed, NEW sent,
         Turn(k, progressed, sent)
  PROVE  /\ config' = config /\ turn = k
         /\ turn' = (IF k = config.stages + 2 THEN 0 ELSE k + 1)
         /\ stats'.scheduler_turns \in Nat
         /\ turn' = stats'.scheduler_turns % processes'
         /\ Rounds' = (IF k = config.stages + 2 THEN Rounds + 1 ELSE Rounds)
<1>1. PICK m \in Nat \ {0} : m = config.stages + 3 /\ m = processes
  BY ConfigFacts
<1>2. PICK x \in Nat : x = stats.scheduler_turns
  BY DEF RateOK
<1>3. /\ config' = config /\ turn = k
      /\ turn' = (IF k = config.stages + 2 THEN 0 ELSE k + 1)
  BY NextTurn
<1>4. stats'.scheduler_turns = x + 1
  BY <1>2 DEF Turn
<1>5. processes' = m
  BY <1>1, <1>3 DEF processes
<1>6. k = x % m /\ Rounds = x \div m
  BY <1>1, <1>2, <1>3 DEF RateOK, Rounds
<1>7. /\ (x + 1) % m = (IF x % m = m - 1 THEN 0 ELSE (x % m) + 1)
      /\ (x + 1) \div m = (IF x % m = m - 1 THEN (x \div m) + 1 ELSE x \div m)
  BY NextQuotient
<1>8. config.stages + 2 = m - 1
  BY <1>1, ConfigFacts
<1>9. Rounds' = (x + 1) \div m
  BY <1>4, <1>5 DEF Rounds
<1> QED BY <1>3, <1>4, <1>5, <1>6, <1>7, <1>8, <1>9

\* A batch leaves in the producer's turn exactly when one is due.
LEMMA CanSendWhenDue ==
  ASSUME BaselineInv, RateOK, turn = config.stages + 2
  PROVE  CanSend <=> Leaves(config, Rounds)
<1>1. PICK s \in Nat, p \in Nat, n \in Nat : s = config.stages /\ p = config.pool /\ n = config.batches
  BY ConfigFacts DEF BaselineInv, ScheduleOK
<1>2. PICK r \in Nat : r = Rounds
  BY RoundFacts DEF BaselineInv, ScheduleOK
<1>3. Due(config, r) \in Nat
  BY DueNat
<1>4. next_batch < n <=> Due(config, r) < n
  BY <1>1, <1>2, <1>3 DEF RateOK, Sent
<1>5. ASSUME Due(config, r) < n
      PROVE  Waits = Cardinality(Window(s, p, r))
  <2>1. ASSUME NEW j \in 1 .. s
        PROVE  chan[j] # <<>> <=> j \in Window(s, p, r)
    <3>1. Placed(config, chan, r, s + 2)
      BY <1>1, <1>2 DEF RateOK
    <3>2. j \in 0 .. s /\ s + 2 > s + 2 - j /\ ~(s + 2 < s + 2 - j)
      OBVIOUS
    <3>3. chan[j] # <<>> <=> Leaves(config, r - j)
      BY <1>1, <3>1, <3>2 DEF Placed, Occupied
    <3>4. r - j \in Nat => Due(config, r - j) < n
      <4>1. ASSUME r - j \in Nat PROVE Due(config, r - j) < n
        <5>1. PICK x \in Nat : x = r - j /\ x <= r
          BY <4>1
        <5>2. Due(config, x) <= Due(config, r) /\ Due(config, x) \in Nat
          BY <5>1, DueGrows, DueNat
        <5> QED BY <1>3, <1>5, <5>1, <5>2
      <4> QED BY <4>1
    <3> QED BY <1>1, <3>3, <3>4 DEF Leaves, Window
  <2>2. chan[0] = <<>>
    <3>1. chan[config.stages + 2 - turn] = <<>>
      BY <1>1 DEF BaselineInv, ScheduleOK
    <3> QED BY <1>1, <3>1
  <2>3. Busy(chan, s + 1) = Window(s, p, r)
    <3>1. \A j \in 0 .. (s + 1) - 1 : j = 0 \/ j \in 1 .. s
      OBVIOUS
    <3>2. Window(s, p, r) \subseteq 1 .. s /\ 1 .. s \subseteq 0 .. (s + 1) - 1 /\ 0 \notin 1 .. s
      BY DEF Window
    <3> QED BY <2>1, <2>2, <3>1, <3>2 DEF Busy
  <2> QED BY <1>1, <2>3 DEF Waits, Count
<1>6. Drained # <<>> <=> Waits < p
  <2>1. Drained \in Seq(Region) /\ Len(Drained) = Len(pool) + Len(returns)
    BY DrainedRegions DEF BaselineInv
  <2>2. Len(pool) + Len(returns) + Waits = p
    BY <1>1 DEF BaselineInv, RegionsOK
  <2>3. Waits \in Nat
    BY <1>1, BusyFinite DEF Waits
  <2>4. Len(Drained) \in Nat /\ (Drained = <<>> <=> Len(Drained) = 0)
    BY <2>1, EmptySeq
  <2>5. Len(pool) \in Nat /\ Len(returns) \in Nat
    BY DEF BaselineInv, RegionsOK
  <2> QED BY <2>1, <2>2, <2>3, <2>4, <2>5
<1>7. ASSUME Due(config, r) < n
      PROVE  Waits < p <=> r % (s + 1) < p
  <2>1. PICK w : w = Cardinality(Window(s, p, r))
    OBVIOUS
  <2>2. r % (s + 1) < p => w < p
    BY <2>1, SomeoneIsBack
  <2>3. ~(r % (s + 1) < p) => p <= w
    BY <2>1, NobodyIsBack
  <2>4. Waits = w /\ Waits \in Nat
    BY <1>1, <1>5, <1>7, <2>1, BusyFinite DEF Waits
  <2> QED BY <2>2, <2>3, <2>4
<1> QED BY <1>1, <1>2, <1>4, <1>6, <1>7 DEF CanSend, Leaves

\* Until the producer's turn the messages only move on.
LEMMA QuietRate ==
  ASSUME BaselineInv, RateOK, NEW s \in Nat, s = config.stages, NEW k \in 0 .. s + 1,
         NEW progressed, NEW sent, Turn(k, progressed, sent),
         next_batch' = next_batch,
         k = 0 => chan' = chan,
         k # 0 =>
           /\ chan'[s + 1 - k] = <<>>
           /\ k # 1 => (chan'[s + 2 - k] # <<>> <=> chan[s + 1 - k] # <<>>)
           /\ \A j \in 0 .. s : j # s + 1 - k /\ j # s + 2 - k => chan'[j] = chan[j]
  PROVE  RateOK'
<1>1. config \in Configs /\ k \in 0 .. config.stages + 2 /\ k # config.stages + 2
  BY DEF BaselineInv, ScheduleOK
<1>2. /\ config' = config /\ turn = k /\ turn' = k + 1
      /\ stats'.scheduler_turns \in Nat /\ turn' = stats'.scheduler_turns % processes'
      /\ Rounds' = Rounds
  BY <1>1, TurnCounts
<1>3. PICK r \in Nat : r = Rounds
  BY <1>1, RoundFacts
<1>4. Placed(config, chan, r, k)
  BY <1>2, <1>3 DEF RateOK
<1>5. PICK after : after = chan'
  OBVIOUS
<1>6. Placed(config, after, r, k + 1)
  <2>1. CASE k = 0
    <3>1. Placed(config, chan, r, 0) /\ config.stages \in Nat
      BY <1>4, <2>1
    <3>2. Placed(config, chan, r, 1)
      BY <3>1, PlacedFirst
    <3> QED BY <1>5, <2>1, <3>2
  <2>2. CASE k # 0
    <3>1. k \in 1 .. s + 1
      BY <2>2
    <3>2. /\ after[s + 1 - k] = <<>>
          /\ k # 1 => (after[s + 2 - k] # <<>> <=> chan[s + 1 - k] # <<>>)
          /\ \A j \in 0 .. s : j # s + 1 - k /\ j # s + 2 - k => after[j] = chan[j]
      BY <1>5, <2>2
    <3> QED BY <1>4, <3>1, <3>2, PlacedPassed
  <2> QED BY <2>1, <2>2
<1>7. Placed(config', chan', Rounds', turn')
  BY <1>2, <1>3, <1>5, <1>6
<1>8. next_batch' = Sent(config', Rounds')
  BY <1>2 DEF RateOK
<1> QED BY <1>2, <1>7, <1>8 DEF RateOK

\* The producer's turn sends what is due in this round.
LEMMA LastRate ==
  ASSUME BaselineInv, RateOK, NEW s \in Nat, s = config.stages,
         NEW progressed, NEW sent, Turn(s + 2, progressed, sent),
         next_batch' = next_batch + (IF CanSend THEN 1 ELSE 0),
         chan'[0] # <<>> <=> CanSend,
         \A j \in 1 .. s : chan'[j] = chan[j]
  PROVE  RateOK'
<1>1. config \in Configs /\ s + 2 \in 0 .. config.stages + 2 /\ s + 2 = config.stages + 2
  BY DEF BaselineInv, ScheduleOK
<1>2. /\ config' = config /\ turn = s + 2 /\ turn' = 0
      /\ stats'.scheduler_turns \in Nat /\ turn' = stats'.scheduler_turns % processes'
      /\ Rounds' = Rounds + 1
  BY <1>1, TurnCounts
<1>3. PICK r \in Nat : r = Rounds
  BY <1>1, RoundFacts
<1>4. CanSend <=> Leaves(config, r)
  BY <1>1, <1>2, <1>3, CanSendWhenDue
<1>5. PICK after : after = chan'
  OBVIOUS
<1>6. Placed(config, after, r + 1, 0)
  <2>1. /\ Placed(config, chan, r, s + 2)
        /\ after[0] # <<>> <=> Leaves(config, r)
        /\ \A j \in 1 .. s : after[j] = chan[j]
    BY <1>2, <1>3, <1>4, <1>5 DEF RateOK
  <2> QED BY <2>1, PlacedLast
<1>7. Placed(config', chan', Rounds', turn')
  BY <1>2, <1>3, <1>5, <1>6
<1>8. Sent(config, r + 1) = Sent(config, r) + (IF Leaves(config, r) THEN 1 ELSE 0)
  <2>1. Due(config, r + 1) = Due(config, r) + (IF r % (config.stages + 1) < config.pool THEN 1 ELSE 0)
    BY DueStep
  <2>2. Due(config, r) \in Nat /\ config.batches \in Nat
    BY <1>1, DueNat, ConfigFacts
  <2> QED BY <2>1, <2>2 DEF Sent, Leaves
<1>9. next_batch' = Sent(config', Rounds')
  BY <1>2, <1>3, <1>4, <1>8 DEF RateOK
<1> QED BY <1>2, <1>7, <1>9 DEF RateOK

LEMMA InitRate == Init => RateOK
<1> SUFFICES ASSUME Init PROVE RateOK
  OBVIOUS
<1>1. config \in Configs /\ config.stages \in Nat /\ config.batches \in Nat
  BY ConfigFacts DEF Init
<1>2. PICK m \in Nat \ {0} : m = processes
  BY <1>1, ConfigFacts
<1>3. stats.scheduler_turns = 0 /\ turn = 0 /\ next_batch = 0 /\ \A j \in 0 .. config.stages : chan[j] = <<>>
  BY DEF Init, NoStats, Supervisor
<1>4. 0 \div m = 0 /\ 0 % m = 0
  <2>1. 0 \in Nat /\ 0 \in Int /\ 0 \in 0 .. m - 1 /\ 0 = 0 * m + 0
    OBVIOUS
  <2> QED BY <2>1, Divided
<1>5. Rounds = 0
  BY <1>2, <1>3, <1>4 DEF Rounds
<1>6. Sent(config, 0) = 0
  <2>1. Departures(config, 0) = {}
    BY DEF Departures
  <2>2. Due(config, 0) = 0
    BY <2>1, FS_EmptySet DEF Due
  <2> QED BY <1>1, <2>2 DEF Sent
<1>7. Placed(config, chan, 0, 0)
  <2> SUFFICES ASSUME NEW j \in 0 .. config.stages PROVE ~Occupied(config, 0, 0, j)
    BY <1>3 DEF Placed
  <2>1. ~(0 > config.stages + 2 - j) /\ (0 - 1) - j \notin Nat
    BY <1>1
  <2> QED BY <2>1 DEF Occupied, Leaves
<1> QED BY <1>2, <1>3, <1>4, <1>5, <1>6, <1>7 DEF RateOK

LEMMA RateSteps == ASSUME BaselineInv, RateOK, Next PROVE RateOK'
<1>1. PICK s \in Nat : s = config.stages
  BY ConfigFacts DEF BaselineInv, ScheduleOK
<1>2. DOMAIN chan = 0 .. s
  BY <1>1 DEF BaselineInv, MessagesOK
<1>3. CASE SupervisorTurn
  <2>1. Turn(0, FALSE, 0) /\ chan' = chan /\ next_batch' = next_batch
    BY <1>3 DEF SupervisorTurn, Supervisor
  <2>2. 0 \in 0 .. s + 1
    OBVIOUS
  <2> QED BY <1>1, <2>1, <2>2, QuietRate
<1>4. ASSUME NEW i \in 0 .. config.stages, StageIdle(i)
      PROVE  RateOK'
  <2>1. PICK k \in 1 .. s + 1 : k = s + 1 - i
    BY <1>1, <1>4
  <2>2. s + 1 - k = i
    BY <1>1, <2>1
  <2>3. (IF i = config.stages THEN Sink ELSE Transformer(i)) = k
    BY <1>1, <2>1 DEF Sink, Transformer
  <2>4. Turn(k, FALSE, 0) /\ chan[i] = <<>> /\ chan' = chan /\ next_batch' = next_batch
    BY <1>4, <2>3 DEF StageIdle
  <2>5. k # 1 => chan[s + 2 - k] = <<>>
    <3>1. config \in Configs /\ k \in 0 .. config.stages + 2
      BY <1>1 DEF BaselineInv, ScheduleOK
    <3>2. turn = k
      BY <2>4 DEF Turn
    <3> QED BY <1>1, <3>2 DEF BaselineInv, ScheduleOK
  <2>6. k \in 0 .. s + 1 /\ k # 0 /\ chan'[s + 1 - k] = <<>>
    BY <2>2, <2>4
  <2>7. k # 1 => (chan'[s + 2 - k] # <<>> <=> chan[s + 1 - k] # <<>>)
    BY <2>2, <2>4, <2>5
  <2>8. \A j \in 0 .. s : chan'[j] = chan[j]
    BY <2>4
  <2> QED BY <1>1, <2>4, <2>6, <2>7, <2>8, QuietRate
<1>5. ASSUME NEW i \in 0 .. config.stages - 1, TransformerTurn(i)
      PROVE  RateOK'
  <2>1. PICK k \in 2 .. s + 1 : k = Transformer(i)
    BY <1>1 DEF Transformer
  <2>2. s + 1 - k = i /\ s + 2 - k = i + 1 /\ k \in 0 .. s + 1 /\ k # 0 /\ i \in 0 .. s /\ i + 1 \in 0 .. s
    BY SMTT(20), <1>1, <2>1 DEF Transformer
  <2>3. PICK passed : passed = [Head(chan[i]) EXCEPT !.region = transform(i, @)]
    OBVIOUS
  <2>4. /\ chan[i] # <<>> /\ Turn(k, TRUE, 1) /\ next_batch' = next_batch
        /\ chan' = [chan EXCEPT ![i] = Tail(@), ![i + 1] = Append(@, passed)]
    BY <1>5, <2>1, <2>3 DEF TransformerTurn
  <2>5. chan[i + 1] = <<>>
    <3>1. turn = k
      BY <2>4 DEF Turn
    <3> QED BY <1>1, <2>2, <3>1 DEF BaselineInv, ScheduleOK
  <2>6. chan[i] = <<MessageAt(i)>>
    BY <1>1, <2>2, <2>4 DEF BaselineInv, MessagesOK
  <2>7. chan'[i] = <<>> /\ chan'[i + 1] # <<>> /\ \A j \in 0 .. s : j # i /\ j # i + 1 => chan'[j] = chan[j]
    BY <1>2, <2>2, <2>4, <2>5, <2>6
  <2> QED BY <1>1, <2>2, <2>4, <2>7, QuietRate
<1>6. CASE SinkTurn
  <2>1. Turn(1, TRUE, 1) /\ next_batch' = next_batch /\ chan[s] # <<>>
        /\ chan' = [chan EXCEPT ![s] = Tail(@)]
    BY <1>1, <1>6 DEF SinkTurn, Sink
  <2>2. chan[s] = <<MessageAt(s)>>
    BY <1>1, <2>1 DEF BaselineInv, MessagesOK
  <2>3. chan'[s] = <<>> /\ \A j \in 0 .. s : j # s => chan'[j] = chan[j]
    BY <1>2, <2>1, <2>2
  <2>4. s + 1 - 1 = s /\ 1 \in 0 .. s + 1 /\ 1 # 0
    OBVIOUS
  <2> QED BY <1>1, <2>1, <2>3, <2>4, QuietRate
<1>7. CASE ProducerSends
  <2>1. PICK m : m = [batch |-> next_batch, region |-> fill_batch(next_batch, Head(Drained))]
    OBVIOUS
  <2>2. /\ CanSend /\ Turn(s + 2, TRUE, 1) /\ next_batch' = next_batch + 1
        /\ chan' = [chan EXCEPT ![0] = Append(@, m)]
    BY <1>1, <1>7, <2>1 DEF ProducerSends, Producer
  <2>3. chan[0] = <<>>
    <3>1. turn = s + 2
      BY <2>2 DEF Turn
    <3> QED BY <1>1, <3>1 DEF BaselineInv, ScheduleOK
  <2>4. chan'[0] # <<>> /\ \A j \in 1 .. s : chan'[j] = chan[j]
    BY <1>2, <2>2, <2>3
  <2> QED BY <1>1, <2>2, <2>4, LastRate
<1>8. CASE ProducerOnlyDrains
  <2>1. PICK progressed : progressed = (returns # <<>>)
    OBVIOUS
  <2>2. ~CanSend /\ Turn(s + 2, progressed, 0) /\ next_batch' = next_batch /\ chan' = chan
    BY <1>1, <1>8, <2>1 DEF ProducerOnlyDrains, Producer
  <2>3. chan[0] = <<>>
    <3>1. turn = s + 2
      BY <2>2 DEF Turn
    <3> QED BY <1>1, <3>1 DEF BaselineInv, ScheduleOK
  <2>4. next_batch' = next_batch + 0
    <3>1. next_batch \in Nat
      BY DEF BaselineInv, ResultsOK
    <3> QED BY <2>2, <3>1
  <2> QED BY <1>1, <2>2, <2>3, <2>4, LastRate
<1> QED BY <1>3, <1>4, <1>5, <1>6, <1>7, <1>8 DEF Next

\* Every round in which a region can be back carries a batch, whatever the pool and
\* the number of stages: nothing is lost to waiting.
THEOREM RateIsFull == Spec => []AtFullRate
<1>1. ASSUME BaselineInv, RateOK PROVE AtFullRate
  BY <1>1 DEF RateOK, Rounds, Sent, Due, Departures, AtFullRate
<1>2. ASSUME BaselineInv, RateOK, UNCHANGED vars
      PROVE  RateOK'
  <2>1. Rounds' = Rounds /\ processes' = processes
    BY <1>2 DEF vars, Rounds, processes
  <2> QED BY <1>2, <2>1 DEF vars, RateOK
<1>3. BaselineInv /\ RateOK /\ [Next]_vars => RateOK'
  BY <1>2, RateSteps
<1> QED BY <1>1, <1>3, InitRate, BaselineInvAlways, PTL DEF Spec
=============================================================================
