--------------------------- MODULE PipelineProofs ---------------------------
(* Theorems of Pipeline.tla and PipelineTrace.tla: every process always has  *)
(* the authority its next calls need and no more, each region has one owner, *)
(* the pipeline does turn by turn what the baseline does, and the stamps of  *)
(* its trace tell the schedule.                                              *)
EXTENDS PipelineTrace, CapabilityLemmas, FiniteSetTheorems, SequenceTheorems, TLAPS

\* No handle counter wraps during a run: the supervisor is granted a handle for
\* every object, the producer two views and a region for each it starts or gets
\* back with, the others a region per batch.
HandlesSuffice ==
  \A c \in Configs : /\ c.stages + c.pool + 2 < HandleSpace
                     /\ c.pool + c.batches + 2 < HandleSpace

(***************************************************************************)
(* The calls of a turn, when they are not refused.                         *)
(***************************************************************************)

Without(table, h) == [k \in DOMAIN table \ {h} |-> table[k]]
Raised(epochs, o) == [x \in DOMAIN epochs |-> epochs[x] + (IF x = o THEN 1 ELSE 0)]

LEMMA ConfigFacts ==
  ASSUME config \in Configs
  PROVE  /\ config.stages \in Nat /\ config.pool \in Nat /\ config.batches \in Nat
         /\ processes(config) = config.stages + 3
BY PipelineAssumption DEF processes

LEMMA SmallHandle ==
  ASSUME NEW n \in Nat, n < HandleSpace
  PROVE  n % HandleSpace = n
<1>1. \A m \in Nat \ {0} : \A i \in 0 .. m - 1 : i % m = i
  OBVIOUS
<1> QED BY <1>1, ProcessAssumption

\* One capability granted goes to the next handle.
LEMMA GrantedOne ==
  ASSUME NEW table, NEW next \in Nat, next + 1 < HandleSpace, NEW cap
  PROVE  /\ Granted(table, next, <<cap>>) = Extended(table, next, cap)
         /\ NextHandle(next, <<cap>>) = next + 1
<1>1. HandleOf(next, 1) = next
  <2>1. next + 1 - 1 = next /\ next < HandleSpace
    BY ProcessAssumption
  <2> QED BY <2>1, SmallHandle DEF HandleOf
<1>2. HandleOf(next, 2) = next + 1
  <2>1. next + 2 - 1 = next + 1 /\ next + 1 \in Nat
    OBVIOUS
  <2> QED BY <2>1, SmallHandle DEF HandleOf
<1>3. DOMAIN <<cap>> = {1} /\ Len(<<cap>>) = 1 /\ <<cap>>[1] = cap
  OBVIOUS
<1>4. PICK caps : caps = <<cap>>
  OBVIOUS
<1>5. DOMAIN caps = {1} /\ caps[1] = cap /\ Len(caps) = 1
  BY <1>3, <1>4
<1> DEFINE At(h) == {k \in DOMAIN caps : HandleOf(next, k) = h}
<1>6. \A h : At(h) = (IF h = next THEN {1} ELSE {})
  BY <1>1, <1>5
<1>7. (CHOOSE k \in {1} : \A j \in {1} : j <= k) = 1
  OBVIOUS
<1>8. {HandleOf(next, k) : k \in DOMAIN caps} = {next}
  BY <1>1, <1>5
<1>9. Granted(table, next, caps) =
        [h \in DOMAIN table \union {next} |->
           IF At(h) = {} THEN table[h] ELSE caps[CHOOSE k \in At(h) : \A j \in At(h) : j <= k]]
  BY <1>8 DEF Granted
<1> HIDE DEF At
<1>10. \A h \in DOMAIN table \union {next} :
         (IF At(h) = {} THEN table[h] ELSE caps[CHOOSE k \in At(h) : \A j \in At(h) : j <= k])
           = (IF h = next THEN cap ELSE table[h])
  BY <1>5, <1>6, <1>7
<1>11. Granted(table, next, caps) = Extended(table, next, cap)
  BY <1>9, <1>10 DEF Extended
<1>12. NextHandle(next, caps) = next + 1
  BY <1>2, <1>5 DEF NextHandle
<1> QED BY <1>4, <1>11, <1>12

\* Process p takes the only message of channel i, with one capability.
Taken(s, p, i, cap) ==
  [s EXCEPT !.queues[i] = <<>>,
            !.tables[p] = Extended(@, s.next_handle[p], cap),
            !.next_handle[p] = s.next_handle[p] + 1,
            !.held = @ \union {<<p, cap>>}]

LEMMA ReceiveOne ==
  ASSUME NEW s, NEW p, NEW view, NEW data, NEW cap,
         Live(s.epochs, view), "READ" \in view.rights, view.object \in DOMAIN s.queues,
         s.queues[view.object] = <<[data |-> data, caps |-> <<cap>>]>>,
         s.next_handle[p] \in Nat, s.next_handle[p] + 1 < HandleSpace
  PROVE  receive(s, p, view) = Taken(s, p, view.object, cap)
<1>1. CanReceive(s, view)
  BY PermitsWhenLive DEF CanReceive
<1>2. PICK m : m = [data |-> data, caps |-> <<cap>>]
  OBVIOUS
<1>3. waiting(s, view) = <<m>> /\ m.caps = <<cap>>
  BY <1>2 DEF waiting
<1>4. waiting(s, view) # <<>> /\ Head(waiting(s, view)).caps = <<cap>>
  BY <1>3
<1>5. HeldBy(p, <<cap>>) = {<<p, cap>>}
  BY DEF HeldBy, SetOf
<1>6. Tail(s.queues[view.object]) = <<>>
  BY <1>3 DEF waiting
<1>7. receive(s, p, view) =
        [s EXCEPT !.queues[view.object] = Tail(@),
                  !.tables[p] = Granted(@, s.next_handle[p], <<cap>>),
                  !.next_handle[p] = NextHandle(@, <<cap>>),
                  !.held = @ \union HeldBy(p, <<cap>>)]
  BY <1>1, <1>4 DEF receive
<1>8. /\ \A table : Granted(table, s.next_handle[p], <<cap>>) = Extended(table, s.next_handle[p], cap)
      /\ NextHandle(s.next_handle[p], <<cap>>) = s.next_handle[p] + 1
  BY GrantedOne
<1> QED BY <1>5, <1>6, <1>7, <1>8 DEF Taken

LEMMA ReceiveNone ==
  ASSUME NEW s, NEW p, NEW view, Live(s.epochs, view), "READ" \in view.rights,
         view.object \in DOMAIN s.queues, s.queues[view.object] = <<>>
  PROVE  receive(s, p, view) = s
BY PermitsWhenLive DEF CanReceive, receive, waiting

\* A batch of one move.
LEMMA MovedOne ==
  ASSUME NEW epochs, NEW table, NEW h \in DOMAIN table,
         Live(epochs, table[h]), "DESTROY" \in table[h].rights
  PROVE  /\ ValidBatch(epochs, table, Forward(h))
         /\ Delivered(epochs, table, Forward(h)) = <<reissued(epochs, table[h])>>
         /\ Remaining(table, Forward(h)) = Without(table, h)
         /\ AfterBatch(epochs, table, Forward(h)) = Raised(epochs, table[h].object)
<1>1. PICK grants : grants = Forward(h)
  OBVIOUS
<1>2. DOMAIN grants = {1} /\ grants[1] = Move(h) /\ grants[1].kind = "Move" /\ grants[1].handle = h
  BY <1>1 DEF Forward, Move
<1>3. ValidBatch(epochs, table, grants)
  <2>1. Permits(epochs, table[h], {"DESTROY"})
    BY PermitsWhenLive
  <2>2. Authorised(epochs, table, grants[1])
    BY <1>2, <2>1 DEF Authorised
  <2>3. NoDuplicateTransfer(grants) /\ NoMoveConflict(table, grants)
    BY <1>2 DEF NoDuplicateTransfer, NoMoveConflict
  <2> QED BY <1>2, <2>2, <2>3 DEF ValidBatch
<1>4. Delivered(epochs, table, grants) = <<reissued(epochs, table[h])>>
  <2>1. Delivered(epochs, table, grants) = [i \in {1} |-> reissued(epochs, table[h])]
    BY <1>2 DEF Delivered
  <2>2. PICK cap : cap = reissued(epochs, table[h])
    OBVIOUS
  <2>3. [i \in {1} |-> cap] = <<cap>>
    OBVIOUS
  <2> QED BY <2>1, <2>2, <2>3
<1>5. Remaining(table, grants) = Without(table, h)
  <2>1. {k \in DOMAIN table : \A i \in DOMAIN grants : leaves(grants[i]) => grants[i].handle # k}
          = DOMAIN table \ {h}
    BY <1>2 DEF leaves
  <2> QED BY <2>1 DEF Remaining, Without
<1>6. Moved(table, grants) = {table[h].object}
  BY <1>2 DEF Moved
<1>7. AfterBatch(epochs, table, grants) = Raised(epochs, table[h].object)
  BY <1>6 DEF AfterBatch, Raised
<1> QED BY <1>1, <1>3, <1>4, <1>5, <1>7

\* Process p moves what it has under handle h, object r, into a message to channel o.
Passed(s, p, h, r, o, sent) ==
  [s EXCEPT !.epochs = Raised(@, r),
            !.tables[p] = Without(@, h),
            !.queues[o] = Append(@, sent)]

LEMMA SendOne ==
  ASSUME NEW s, NEW p, NEW view, NEW h \in DOMAIN s.tables[p], NEW data,
         Live(s.epochs, view), "WRITE" \in view.rights, view.object \in DOMAIN s.queues,
         Live(s.epochs, s.tables[p][h]), "DESTROY" \in s.tables[p][h].rights
  PROVE  send(s, p, view, Forward(h), data) =
           Passed(s, p, h, s.tables[p][h].object, view.object,
                  [data |-> data, caps |-> <<reissued(s.epochs, s.tables[p][h])>>])
<1>1. PICK table : table = s.tables[p]
  OBVIOUS
<1>2. /\ ValidBatch(s.epochs, table, Forward(h))
      /\ Delivered(s.epochs, table, Forward(h)) = <<reissued(s.epochs, table[h])>>
      /\ Remaining(table, Forward(h)) = Without(table, h)
      /\ AfterBatch(s.epochs, table, Forward(h)) = Raised(s.epochs, table[h].object)
  BY <1>1, MovedOne
<1>3. CanSend(s, p, view, Forward(h))
  BY <1>1, <1>2, PermitsWhenLive DEF CanSend
<1>4. send(s, p, view, Forward(h), data) =
        [s EXCEPT !.epochs = AfterBatch(@, s.tables[p], Forward(h)),
                  !.tables[p] = Remaining(@, Forward(h)),
                  !.queues[view.object] =
                     Append(@, [data |-> data, caps |-> Delivered(s.epochs, s.tables[p], Forward(h))])]
  BY <1>3 DEF send
<1> QED BY <1>1, <1>2, <1>4 DEF Passed

(***************************************************************************)
(* The inductive invariant: who has what between turns, and between the    *)
(* calls of the producer's. s is the system, free the producer's free      *)
(* regions, n the next batch and d the number of results.                  *)
(***************************************************************************)

BP == INSTANCE BaselineProofs WITH
       chan <- [i \in 0 .. config.stages |-> messages_of(i)],
       returns <- messages_of(Return(config)),
       pool <- [k \in DOMAIN free_regions |->
                  contents_of(cap_of(sys, Producer(config), free_regions[k]))],
       turn <- Head(ready_queue)

\* Process p reads from one channel and writes to another.
InputOf(c, p) == IF p = Producer(c) THEN Return(c) ELSE c.stages + 1 - p
OutputOf(c, p) == c.stages + 2 - p
ReadView(o) == [object |-> o, rights |-> {"READ"}, epoch |-> 0]
WriteView(o) == [object |-> o, rights |-> {"WRITE"}, epoch |-> 0]

\* The region of batch b, and what holds it or brings it: the one capability that works.
RegionOf(c, b) == Return(c) + 1 + (b % c.pool)
RegionCap(c, epochs, b) ==
  [object |-> RegionOf(c, b), rights |-> RegionRights, epoch |-> epochs[RegionOf(c, b)]]
MessageOf(c, epochs, b) == [data |-> b, caps |-> <<RegionCap(c, epochs, b)>>]

Fields == {"epochs", "tables", "next_handle", "queues", "regions", "held", "failed"}

Carried(s, o) == Head(s.queues[o]).data
Returning(s) == IF s.queues[Return(config)] = <<>> THEN 0 ELSE 1

SystemOK(s) ==
  /\ DOMAIN s = Fields
  /\ s.failed = FALSE
  /\ DOMAIN s.epochs = 0 .. Return(config) + config.pool
  /\ \A o \in 0 .. Return(config) : s.epochs[o] = 0
  /\ \A o \in Regions(config) : s.epochs[o] \in Nat
  /\ DOMAIN s.tables = 0 .. Producer(config)
  /\ DOMAIN s.next_handle = 0 .. Producer(config)
  /\ DOMAIN s.queues = 0 .. Return(config)
  /\ DOMAIN s.regions = Regions(config)

ViewsOK(s) ==
  \A p \in 1 .. Producer(config) :
    /\ {stages[p].input, stages[p].output} = {0, 1}
    /\ cap_of(s, p, stages[p].input) = ReadView(InputOf(config, p))
    /\ cap_of(s, p, stages[p].output) = WriteView(OutputOf(config, p))

TableDomainsOK(s, free) ==
  /\ DOMAIN s.tables[Supervisor] = 0 .. Return(config)
  /\ \A p \in 1 .. Producer(config) :
       DOMAIN s.tables[p] = {0, 1} \union (IF p = Producer(config) THEN SetOf(free) ELSE {})

\* A message brings the region of its batch.
QueuesOK(s) ==
  \A o \in 0 .. Return(config) :
    \/ s.queues[o] = <<>>
    \/ \E b \in Nat : s.queues[o] = <<MessageOf(config, s.epochs, b)>>

\* The k-th free region is the one for the k-th batch from now.
FreeOK(s, free, n) ==
  /\ free \in Seq(Nat \ {0, 1})
  /\ \A k \in DOMAIN free :
       /\ free[k] < s.next_handle[Producer(config)]
       /\ s.tables[Producer(config)][free[k]] = RegionCap(config, s.epochs, n + (k - 1))

\* Handles are used up one per batch that came by.
HandlesOK(s, n, d) ==
  /\ \A p \in 1 .. Return(config) :
       /\ s.next_handle[p] \in 2 .. 2 + n
       /\ \A o \in 0 .. InputOf(config, p) :
            s.queues[o] # <<>> => s.next_handle[p] <= 2 + Carried(s, o)
  /\ s.next_handle[Producer(config)] \in 2 .. 2 + config.pool + d - Returning(s)

\* Of all the capabilities ever had for a region, only a free region's works.
HeldOK(s, free) ==
  /\ \A h \in s.held :
       LET p == h[1]  cap == h[2] IN
       IF cap.object \in Regions(config)
       THEN /\ cap.epoch \in Nat /\ cap.epoch <= s.epochs[cap.object]
            /\ cap.epoch = s.epochs[cap.object] =>
                 p = Producer(config) /\ \E k \in DOMAIN free :
                   cap = s.tables[Producer(config)][free[k]]
       ELSE p # Supervisor =>
              /\ p \in 1 .. Producer(config)
              /\ cap \in {ReadView(InputOf(config, p)), WriteView(OutputOf(config, p))}
  /\ \A k \in DOMAIN free :
       <<Producer(config), s.tables[Producer(config)][free[k]]>> \in s.held
  /\ \A h \in s.held : h = <<h[1], h[2]>>

\* Every region is free or on its way.
CoveredOK(s, free) ==
  \A o \in Regions(config) :
    \/ \E k \in DOMAIN free : s.tables[Producer(config)][free[k]].object = o
    \/ \E ch \in 0 .. Return(config) :
         s.queues[ch] # <<>> /\ RegionOf(config, Carried(s, ch)) = o

Own(s, free, n, d) ==
  /\ SystemOK(s) /\ ViewsOK(s) /\ TableDomainsOK(s, free) /\ QueuesOK(s)
  /\ FreeOK(s, free, n) /\ HandlesOK(s, n, d) /\ HeldOK(s, free) /\ CoveredOK(s, free)

\* The queue is the schedule, from its next process on; what the sink sent back is
\* the last result's region, and the producer takes it before the sink's next turn.
ReadyOK ==
  /\ Head(ready_queue) \in 0 .. Producer(config)
  /\ ready_queue = [k \in 1 .. processes(config) |->
                      (Head(ready_queue) + (k - 1)) % processes(config)]
  /\ sys.queues[Return(config)] # <<>> =>
       /\ Carried(sys, Return(config)) = Len(results) - 1
       /\ Head(ready_queue) # Supervisor /\ Head(ready_queue) # Sink

PipelineInv ==
  /\ next_batch \in 0 .. config.batches
  /\ ReadyOK
  /\ Own(sys, free_regions, next_batch, Len(results))
  /\ BP!BaselineInv

\* The batches under way are in order, the ones whose results are known behind them.
BatchesOK(s, free, n, d) ==
  /\ n \in Nat /\ d \in Nat /\ d <= n /\ n <= config.batches
  /\ Len(free) + Returning(s) + (n - d) = config.pool
  /\ s.queues[Return(config)] # <<>> => Carried(s, Return(config)) = d - 1
  /\ \A i \in 0 .. Return(config) - 1 : s.queues[i] # <<>> =>
       /\ Carried(s, i) \in d .. n - 1
       /\ \A j \in 0 .. i - 1 : s.queues[j] # <<>> => Carried(s, i) < Carried(s, j)

\* No two places have the same region.
ApartOK(s, free, n) ==
  /\ \A o \in 0 .. Return(config) : s.queues[o] # <<>> =>
       /\ RegionOf(config, Carried(s, o)) \in Regions(config)
       /\ \A q \in 0 .. Return(config) : s.queues[q] # <<>> /\ q # o =>
            RegionOf(config, Carried(s, q)) # RegionOf(config, Carried(s, o))
       /\ \A k \in DOMAIN free :
            RegionOf(config, Carried(s, o)) # RegionOf(config, n + (k - 1))
  /\ \A k \in DOMAIN free :
       /\ RegionOf(config, n + (k - 1)) \in Regions(config)
       /\ \A l \in DOMAIN free : k # l =>
            RegionOf(config, n + (k - 1)) # RegionOf(config, n + (l - 1))

(***************************************************************************)
(* Batches under way, and their regions.                                   *)
(***************************************************************************)

LEMMA RegionTypes ==
  ASSUME NEW c \in Configs, c.pool # 0, NEW b \in Nat
  PROVE  RegionOf(c, b) \in Regions(c)
<1>1. PICK m \in Nat \ {0} : m = c.pool
  BY PipelineAssumption
<1>2. PICK f \in 0 .. m - 1 : f = b % m
  OBVIOUS
<1>3. c.stages \in Nat /\ Regions(c) = c.stages + 2 .. c.stages + 1 + m /\ RegionOf(c, b) = c.stages + 1 + 1 + f
  BY <1>1, <1>2, PipelineAssumption DEF RegionOf, Regions, Return
<1> QED BY <1>3

\* A pool's worth of successive batches have different regions.
LEMMA DifferentRegions ==
  ASSUME NEW c \in Configs, NEW a \in Nat, NEW b \in Nat, a < b, b < a + c.pool
  PROVE  RegionOf(c, a) # RegionOf(c, b)
<1>1. PICK m \in Nat \ {0} : m = c.pool
  BY PipelineAssumption
<1>2. PICK q \in Nat, f \in 0 .. m - 1 : q = a \div m /\ f = a % m /\ a = q * m + f
  OBVIOUS
<1>3. PICK r \in Nat, g \in 0 .. m - 1 : r = b \div m /\ g = b % m /\ b = r * m + g
  OBVIOUS
<1>4. f # g
  <2> SUFFICES ASSUME f = g PROVE FALSE
    OBVIOUS
  <2>1. b - a = (r - q) * m
    <3>1. (r - q) * m = r * m - q * m
      OBVIOUS
    <3>2. r * m \in Int /\ q * m \in Int
      OBVIOUS
    <3>3. a = q * m + f /\ b = r * m + f
      BY <1>2, <1>3
    <3> QED BY <3>1, <3>2, <3>3
  <2>2. b - a \in 1 .. m - 1
    BY <1>1
  <2>3. CASE r - q >= 1
    <3>1. (r - q) * m >= m
      BY <2>3
    <3> QED BY <2>1, <2>2, <3>1
  <2>4. CASE r - q <= 0
    <3>1. (q - r) * m >= 0
      BY <2>4
    <3>2. (r - q) * m <= 0
      BY <3>1
    <3> QED BY <2>1, <2>2, <3>2
  <2> QED BY <2>3, <2>4
<1>5. c.stages \in Nat
  BY PipelineAssumption
<1>6. RegionOf(c, a) = c.stages + 1 + 1 + f
  BY <1>1, <1>2 DEF RegionOf, Return
<1>7. RegionOf(c, b) = c.stages + 1 + 1 + g
  BY <1>1, <1>3 DEF RegionOf, Return
<1> QED BY <1>4, <1>5, <1>6, <1>7

\* A region comes round after as many batches as there are regions.
LEMMA RegionsComeRound ==
  ASSUME NEW c \in Configs, c.pool # 0, NEW b \in Nat
  PROVE  RegionOf(c, b + c.pool) = RegionOf(c, b)
<1>1. PICK m \in Nat \ {0} : m = c.pool
  BY PipelineAssumption
<1>2. PICK q \in Nat, f \in 0 .. m - 1 : q = b \div m /\ f = b % m /\ b = q * m + f
  OBVIOUS
<1>3. BP!Splits(b + m, m, q + 1, f)
  BY <1>2 DEF BP!Splits
<1>4. (b + m) % m = f
  BY <1>3, BP!Divided, PipelineAssumption
<1> QED BY <1>1, <1>2, <1>4 DEF RegionOf

LEMMA SameInterval ==
  ASSUME NEW m \in Nat, NEW n \in Nat, 1 .. m = 1 .. n
  PROVE  m = n
<1>1. CASE m < n
  <2>1. n \in 1 .. n /\ n \notin 1 .. m
    BY <1>1
  <2> QED BY <2>1
<1>2. CASE n < m
  <2>1. m \in 1 .. m /\ m \notin 1 .. n
    BY <1>2
  <2> QED BY <2>1
<1> QED BY <1>1, <1>2

\* The messages of channel o, as the baseline has them, in system s.
Messages(s, o) ==
  [m \in DOMAIN s.queues[o] |->
     [batch |-> s.queues[o][m].data, region |-> s.regions[Head(s.queues[o][m].caps).object]]]

LEMMA MessagesAre == ASSUME NEW o PROVE messages_of(o) = Messages(sys, o)
BY DEF messages_of, contents_of, Messages

LEMMA OneMessage ==
  ASSUME NEW s, QueuesOK(s), NEW o \in 0 .. Return(config), s.queues[o] # <<>>
  PROVE  /\ Carried(s, o) \in Nat
         /\ s.queues[o] = <<MessageOf(config, s.epochs, Carried(s, o))>>
         /\ Len(s.queues[o]) = 1
         /\ Messages(s, o) = <<[batch |-> Carried(s, o),
                                region |-> s.regions[RegionOf(config, Carried(s, o))]]>>
<1>1. PICK b \in Nat : s.queues[o] = <<MessageOf(config, s.epochs, b)>>
  BY DEF QueuesOK
<1>2. PICK m : m = MessageOf(config, s.epochs, b)
  OBVIOUS
<1>3. m.data = b /\ Head(m.caps).object = RegionOf(config, b)
  <2>1. PICK cap : cap = RegionCap(config, s.epochs, b)
    OBVIOUS
  <2>2. m.data = b /\ m.caps = <<cap>> /\ cap.object = RegionOf(config, b)
    BY <1>2, <2>1 DEF MessageOf, RegionCap
  <2> QED BY <2>2
<1>4. s.queues[o] = <<m>> /\ Head(<<m>>) = m /\ Len(<<m>>) = 1 /\ DOMAIN <<m>> = {1} /\ <<m>>[1] = m
  BY <1>1, <1>2
<1>5. Carried(s, o) = b
  BY <1>3, <1>4 DEF Carried
<1>6. Messages(s, o) = [k \in {1} |-> [batch |-> b, region |-> s.regions[RegionOf(config, b)]]]
  BY <1>3, <1>4 DEF Messages
<1>7. \A x : [k \in {1} |-> x] = <<x>>
  OBVIOUS
<1> QED BY <1>1, <1>4, <1>5, <1>6, <1>7

LEMMA NoMessage ==
  ASSUME NEW s, NEW o, s.queues[o] = <<>>
  PROVE  Messages(s, o) = <<>>
BY DEF Messages

\* The channels as the baseline has them.
Chan == [i \in 0 .. config.stages |-> messages_of(i)]

LEMMA InvConfig ==
  ASSUME PipelineInv
  PROVE  /\ config \in Configs /\ config.stages \in Nat /\ config.pool \in Nat /\ config.batches \in Nat
         /\ Return(config) = config.stages + 1 /\ Producer(config) = config.stages + 2
         /\ processes(config) = config.stages + 3
         /\ Regions(config) = config.stages + 2 .. config.stages + 1 + config.pool
BY ConfigFacts DEF PipelineInv, BP!BaselineInv, BP!ScheduleOK, Return, Producer, Regions

\* What the baseline's invariant says of the batches under way.
LEMMA BatchesInOrder ==
  ASSUME PipelineInv
  PROVE  BatchesOK(sys, free_regions, next_batch, Len(results))
<1>1. PICK s \in Nat : s = config.stages /\ Return(config) = s + 1
  BY InvConfig
<1>2. QueuesOK(sys) /\ config \in Configs
  BY InvConfig DEF PipelineInv, Own
<1>3. /\ BP!Waits = BP!Count(Chan, s + 1) /\ BP!Waits \in Nat
      /\ next_batch \in Nat /\ BP!Waits <= next_batch
      /\ Len(results) = next_batch - BP!Waits
  <2>1. BP!Waits = BP!Count(Chan, s + 1) /\ BP!Count(Chan, s + 1) \in Nat
    BY <1>1, BP!BusyFinite, PipelineAssumption DEF BP!Waits, Chan
  <2>2. /\ next_batch \in Nat /\ BP!Waits <= next_batch
        /\ results = [k \in 1 .. next_batch - BP!Waits |->
                       [batch |-> k - 1,
                        checksum |-> BP!checksum(BP!Contents(k - 1, config.stages))]]
    BY DEF PipelineInv, BP!BaselineInv, BP!ResultsOK
  <2>3. PICK n \in Nat : n = next_batch - BP!Waits
    BY <2>1, <2>2
  <2>4. \A f : f = [k \in 1 .. n |-> f[k]] => f \in Seq({f[k] : k \in 1 .. n}) /\ Len(f) = n
    OBVIOUS
  <2>5. results = [k \in 1 .. n |-> results[k]]
    BY <2>2, <2>3
  <2> QED BY <2>1, <2>2, <2>3, <2>4, <2>5
<1>4. ASSUME NEW i \in 0 .. s, sys.queues[i] # <<>>
      PROVE  Chan[i] # <<>> /\ Carried(sys, i) = next_batch - BP!Count(Chan, i + 1)
  <2>1. PICK m : m = [batch |-> Carried(sys, i), region |-> sys.regions[RegionOf(config, Carried(sys, i))]]
    OBVIOUS
  <2>2. Chan[i] = <<m>> /\ m.batch = Carried(sys, i)
    BY <1>1, <1>2, <1>4, <2>1, OneMessage, MessagesAre DEF Chan
  <2>3. Chan[i] # <<>> /\ Chan[i][1] = m
    BY <2>2
  <2>4. Chan[i] = <<BP!MessageAt(i)>>
    BY <1>1, <2>3 DEF PipelineInv, BP!BaselineInv, BP!MessagesOK, Chan
  <2>5. m = BP!MessageAt(i)
    BY <2>2, <2>4
  <2> QED BY <2>2, <2>3, <2>5 DEF BP!MessageAt, Chan
<1>5. ASSUME NEW i \in 0 .. s, NEW j \in 0 .. i
      PROVE  BP!Count(Chan, j) <= BP!Count(Chan, i) /\ BP!Count(Chan, j) \in Nat /\ BP!Count(Chan, i) \in Nat
  <2> i \in Nat /\ j \in 0 .. i /\ j \in Nat
    OBVIOUS
  <2> PICK n \in Nat : n = i
    OBVIOUS
  <2>1. PICK m \in 0 .. n : n = i /\ m = j
    OBVIOUS
  <2>2. BP!Count(Chan, m) <= BP!Count(Chan, n)
    BY BP!CountGrows, PipelineAssumption
  <2>3. BP!Count(Chan, m) \in Nat /\ BP!Count(Chan, n) \in Nat
    BY BP!BusyFinite, PipelineAssumption
  <2> QED BY <2>1, <2>2, <2>3
<1>6. ASSUME NEW i \in 0 .. s, sys.queues[i] # <<>>
      PROVE  BP!Count(Chan, i + 1) = BP!Count(Chan, i) + 1
  BY <1>4, <1>6, BP!CountStep, PipelineAssumption
<1>7. ASSUME NEW i \in 0 .. s, sys.queues[i] # <<>>
      PROVE  /\ Carried(sys, i) \in Len(results) .. next_batch - 1
             /\ \A j \in 0 .. i - 1 : sys.queues[j] # <<>> => Carried(sys, i) < Carried(sys, j)
  <2>1. BP!Count(Chan, i + 1) = BP!Count(Chan, i) + 1 /\ BP!Count(Chan, i) \in Nat
    BY <1>5, <1>6, <1>7
  <2>2. BP!Count(Chan, i + 1) <= BP!Count(Chan, s + 1)
    <3>1. CASE i = s
      BY <2>1, <3>1
    <3>2. CASE i # s
      <4>1. i + 1 \in 0 .. s /\ s \in 0 .. s
        BY <3>2
      <4>2. BP!Count(Chan, i + 1) <= BP!Count(Chan, s) /\ BP!Count(Chan, s) \in Nat
        BY <1>5, <4>1
      <4>3. BP!Count(Chan, s + 1) = BP!Count(Chan, s) + (IF Chan[s] = <<>> THEN 0 ELSE 1)
        BY BP!CountStep, PipelineAssumption
      <4> QED BY <2>1, <4>2, <4>3
    <3> QED BY <3>1, <3>2
  <2>3. Carried(sys, i) = next_batch - BP!Count(Chan, i + 1)
    BY <1>4, <1>7
  <2>4. Carried(sys, i) \in Len(results) .. next_batch - 1
    BY <1>3, <2>1, <2>2, <2>3
  <2>5. ASSUME NEW j \in 0 .. i - 1, sys.queues[j] # <<>>
        PROVE  Carried(sys, i) < Carried(sys, j)
    <3>1. j \in 0 .. s /\ j + 1 \in 0 .. i
      OBVIOUS
    <3>2. BP!Count(Chan, j + 1) <= BP!Count(Chan, i) /\ BP!Count(Chan, j + 1) \in Nat
      BY <1>5, <3>1
    <3>3. Carried(sys, j) = next_batch - BP!Count(Chan, j + 1)
      BY <1>4, <2>5, <3>1
    <3> QED BY SMTT(20), <1>3, <2>1, <2>3, <3>2, <3>3
  <2> QED BY <2>4, <2>5
<1>8. Len(messages_of(Return(config))) = Returning(sys)
  <2>1. CASE sys.queues[Return(config)] = <<>>
    BY <2>1, NoMessage, MessagesAre DEF Returning
  <2>2. CASE sys.queues[Return(config)] # <<>>
    <3>1. Return(config) \in 0 .. Return(config)
      BY <1>1
    <3>2. \A x : Len(<<x>>) = 1
      OBVIOUS
    <3> QED BY <1>2, <2>2, <3>1, <3>2, OneMessage, MessagesAre DEF Returning
  <2> QED BY <2>1, <2>2
<1>9. Len(free_regions) + Returning(sys) + (next_batch - Len(results)) = config.pool
  <2>1. free_regions \in Seq(Nat \ {0, 1})
    BY DEF PipelineInv, Own, FreeOK
  <2>2. PICK free : free = [k \in DOMAIN free_regions |->
                  contents_of(cap_of(sys, Producer(config), free_regions[k]))]
    OBVIOUS
  <2>3. DOMAIN free = DOMAIN free_regions
    BY <2>2
  <2>4. free \in Seq(BP!Region) /\ Len(free) + Len(messages_of(Return(config))) + BP!Waits = config.pool
    BY <2>2 DEF PipelineInv, BP!BaselineInv, BP!RegionsOK
  <2>5. Len(free) = Len(free_regions) /\ Len(free) \in Nat
    <3>1. DOMAIN free = 1 .. Len(free) /\ DOMAIN free_regions = 1 .. Len(free_regions)
          /\ Len(free) \in Nat /\ Len(free_regions) \in Nat
      BY <2>1, <2>4
    <3> QED BY <2>3, <3>1, SameInterval
  <2>6. Returning(sys) \in Nat
    BY DEF Returning
  <2> QED BY <1>3, <1>8, <2>4, <2>5, <2>6
<1>10. next_batch <= config.batches
  BY InvConfig DEF PipelineInv
<1>11. sys.queues[Return(config)] # <<>> => Carried(sys, Return(config)) = Len(results) - 1
  BY DEF PipelineInv, ReadyOK
<1> QED BY <1>1, <1>3, <1>7, <1>9, <1>10, <1>11 DEF BatchesOK

LEMMA RegionsApart ==
  ASSUME config \in Configs, NEW s, NEW free, NEW n, NEW d,
         QueuesOK(s), free \in Seq(Nat \ {0, 1}), BatchesOK(s, free, n, d)
  PROVE  ApartOK(s, free, n)
<1>2. config.pool \in Nat /\ config.stages \in Nat /\ Return(config) = config.stages + 1
  BY ConfigFacts DEF Return
<1>3. PICK p \in Nat, w \in 0 .. 1, f \in Nat :
        p = config.pool /\ w = Returning(s) /\ f = Len(free)
  <2>1. Len(free) \in Nat /\ Returning(s) \in 0 .. 1
    BY DEF Returning
  <2> QED BY <1>2, <2>1
<1>4. n \in Nat /\ d \in Nat /\ f + w + (n - d) = p /\ d <= n
  BY <1>3 DEF BatchesOK
<1>5. DOMAIN free = 1 .. f
  BY <1>3
<1>6. ASSUME NEW o \in 0 .. Return(config), s.queues[o] # <<>>
      PROVE  Carried(s, o) \in d - w .. n - 1 /\ Carried(s, o) \in Nat
  <2>1. Carried(s, o) \in Nat
    BY <1>6, OneMessage
  <2>2. CASE o = Return(config)
    <3>1. Carried(s, o) = d - 1 /\ w = 1
      BY <1>3, <1>6, <2>2 DEF BatchesOK, Returning
    <3> QED BY <1>4, <2>1, <3>1
  <2>3. CASE o # Return(config)
    <3>1. o \in 0 .. Return(config) - 1
      BY <1>2, <2>3
    <3>2. Carried(s, o) \in d .. n - 1
      BY <1>6, <3>1 DEF BatchesOK
    <3> QED BY <1>4, <3>2
  <2> QED BY <2>2, <2>3
<1>7. ASSUME NEW a \in Nat, NEW b \in Nat, a \in d - w .. n + f - 1, b \in d - w .. n + f - 1, a # b
      PROVE  RegionOf(config, a) # RegionOf(config, b)
  <2>1. CASE a < b
    <3>1. b < a + p
      BY <1>4, <1>7
    <3> QED BY <1>2, <1>3, <2>1, <3>1, DifferentRegions
  <2>2. CASE b < a
    <3>1. a < b + p
      BY <1>4, <1>7
    <3> QED BY <1>2, <1>3, <2>2, <3>1, DifferentRegions
  <2> QED BY <1>7, <2>1, <2>2
<1>8. ASSUME NEW a \in Nat, a \in d - w .. n + f - 1
      PROVE  RegionOf(config, a) \in Regions(config)
  <2>1. config.pool # 0
    BY <1>3, <1>4, <1>8
  <2> QED BY <1>2, <2>1, RegionTypes
<1>9. ASSUME NEW k \in 1 .. f
      PROVE  n + (k - 1) \in Nat /\ n + (k - 1) \in n .. n + f - 1 /\ n + (k - 1) \in d - w .. n + f - 1
  BY <1>4
<1>10. ASSUME NEW o \in 0 .. Return(config), s.queues[o] # <<>>
       PROVE  /\ RegionOf(config, Carried(s, o)) \in Regions(config)
              /\ \A q \in 0 .. Return(config) : s.queues[q] # <<>> /\ q # o =>
                   RegionOf(config, Carried(s, q)) # RegionOf(config, Carried(s, o))
              /\ \A k \in 1 .. f : RegionOf(config, Carried(s, o)) # RegionOf(config, n + (k - 1))
  <2>1. Carried(s, o) \in Nat /\ Carried(s, o) \in d - w .. n - 1 /\ Carried(s, o) \in d - w .. n + f - 1
    BY <1>4, <1>6, <1>10
  <2>2. ASSUME NEW q \in 0 .. Return(config), s.queues[q] # <<>>, q # o
        PROVE  Carried(s, q) # Carried(s, o) /\ Carried(s, q) \in Nat /\ Carried(s, q) \in d - w .. n + f - 1
    <3>1. Carried(s, q) \in Nat /\ Carried(s, q) \in d - w .. n + f - 1
      BY <1>4, <1>6, <2>2
    <3>2. Carried(s, q) # Carried(s, o)
      <4>1. \A i \in 0 .. Return(config) - 1 : s.queues[i] # <<>> =>
              /\ Carried(s, i) >= d
              /\ \A j \in 0 .. i - 1 : s.queues[j] # <<>> => Carried(s, i) < Carried(s, j)
        BY <1>4 DEF BatchesOK
      <4>2. s.queues[Return(config)] # <<>> => Carried(s, Return(config)) = d - 1
        BY DEF BatchesOK
      <4>3. CASE o = Return(config) \/ q = Return(config)
        BY <1>2, <1>4, <1>10, <2>2, <4>1, <4>2, <4>3
      <4>4. CASE o \in 0 .. Return(config) - 1 /\ q \in 0 .. Return(config) - 1
        <5>1. o \in 0 .. q - 1 \/ q \in 0 .. o - 1
          BY <1>2, <2>2, <4>4
        <5> QED BY <1>10, <2>1, <2>2, <3>1, <4>1, <4>4, <5>1
      <4> QED BY <1>2, <4>3, <4>4
    <3> QED BY <3>1, <3>2
  <2>3. ASSUME NEW k \in 1 .. f PROVE RegionOf(config, Carried(s, o)) # RegionOf(config, n + (k - 1))
    <3>1. n + (k - 1) # Carried(s, o)
      BY <1>4, <1>9, <2>1
    <3> QED BY <1>7, <1>9, <2>1, <3>1
  <2> QED BY <1>7, <1>8, <2>1, <2>2, <2>3
<1>11. ASSUME NEW k \in 1 .. f
       PROVE  /\ RegionOf(config, n + (k - 1)) \in Regions(config)
              /\ \A l \in 1 .. f : k # l => RegionOf(config, n + (k - 1)) # RegionOf(config, n + (l - 1))
  <2>1. ASSUME NEW l \in 1 .. f, k # l PROVE n + (k - 1) # n + (l - 1)
    BY <1>4, <2>1
  <2> QED BY <1>7, <1>8, <1>9, <2>1
<1> QED BY <1>5, <1>10, <1>11 DEF ApartOK

(***************************************************************************)
(* What a turn's calls lead to.                                            *)
(***************************************************************************)

LEMMA Forwarding ==
  ASSUME NEW w, NEW p, NEW h \in DOMAIN w.tables[p], NEW b, NEW o,
         w.tables[p][h] = RegionCap(config, w.epochs, b),
         RegionOf(config, b) \in DOMAIN w.epochs,
         output_cap(p) = WriteView(o), o \in DOMAIN w.epochs, w.epochs[o] = 0, o \in DOMAIN w.queues
  PROVE  forwarded(w, p, h, b) =
           Passed(w, p, h, RegionOf(config, b), o,
                  MessageOf(config, Raised(w.epochs, RegionOf(config, b)), b))
<1>1. PICK cap : cap = w.tables[p][h]
  OBVIOUS
<1>2. PICK r : r = RegionOf(config, b)
  OBVIOUS
<1>3. cap = [object |-> r, rights |-> RegionRights, epoch |-> w.epochs[r]]
  BY <1>1, <1>2 DEF RegionCap
<1>4. Live(w.epochs, cap) /\ "DESTROY" \in cap.rights /\ cap.object = r
  BY <1>2, <1>3 DEF Live, object_exists, RegionRights
<1>5. PICK view : view = output_cap(p)
  OBVIOUS
<1>6. Live(w.epochs, view) /\ "WRITE" \in view.rights /\ view.object = o
  BY <1>5 DEF Live, object_exists, WriteView
<1>7. send(w, p, view, Forward(h), b) =
        Passed(w, p, h, r, o, [data |-> b, caps |-> <<reissued(w.epochs, cap)>>])
  <2>1. /\ Live(w.epochs, view) /\ "WRITE" \in view.rights /\ view.object \in DOMAIN w.queues
        /\ Live(w.epochs, w.tables[p][h]) /\ "DESTROY" \in w.tables[p][h].rights
    BY <1>1, <1>4, <1>6
  <2>2. send(w, p, view, Forward(h), b) =
          Passed(w, p, h, w.tables[p][h].object, view.object,
                 [data |-> b, caps |-> <<reissued(w.epochs, w.tables[p][h])>>])
    BY <2>1, SendOne
  <2> QED BY <1>1, <1>4, <1>6, <2>2
<1>8. reissued(w.epochs, cap) = RegionCap(config, Raised(w.epochs, r), b)
  <2>1. bumped(w.epochs, r)[r] = w.epochs[r] + 1
    BY <1>2 DEF bumped
  <2>2. Raised(w.epochs, r)[r] = w.epochs[r] + 1
    BY <1>2 DEF Raised
  <2>3. reissued(w.epochs, cap) = [object |-> r, rights |-> RegionRights, epoch |-> w.epochs[r] + 1]
    BY <1>3, <2>1 DEF reissued
  <2> QED BY <1>2, <2>2, <2>3 DEF RegionCap
<1> QED BY <1>2, <1>5, <1>7, <1>8 DEF forwarded, MessageOf

\* Whoever has the working capability may read and write its region.
LEMMA Updating ==
  ASSUME NEW w, NEW b, NEW contents,
         RegionOf(config, b) \in DOMAIN w.epochs, RegionOf(config, b) \in DOMAIN w.regions
  PROVE  /\ update(w, RegionCap(config, w.epochs, b), contents)
              = [w EXCEPT !.regions[RegionOf(config, b)] = contents]
         /\ inspect(w, RegionCap(config, w.epochs, b)) = w
<1>0. PICK cap : cap = RegionCap(config, w.epochs, b)
  OBVIOUS
<1>1. /\ cap.object = RegionOf(config, b) /\ cap.rights = RegionRights
      /\ cap.epoch = w.epochs[RegionOf(config, b)]
  BY <1>0 DEF RegionCap
<1>2. Live(w.epochs, cap) /\ {"READ", "WRITE"} \subseteq cap.rights /\ {"READ"} \subseteq cap.rights
  BY <1>1 DEF Live, object_exists, RegionRights
<1>3. /\ accessible(w.epochs, w.regions, cap, {"READ", "WRITE"})
      /\ accessible(w.epochs, w.regions, cap, {"READ"})
  BY <1>1, <1>2, PermitsWhenLive DEF accessible
<1> QED BY <1>0, <1>1, <1>3 DEF update, inspect

\* The state in which process p, in `before`, has received batch b from channel i.
Fetched(before, p, i, b) == Taken(before, p, i, RegionCap(config, before.epochs, b))

LEMMA Fetching ==
  ASSUME NEW before, NEW p, NEW i, NEW b,
         input_cap(p) = ReadView(i), i \in DOMAIN before.epochs, before.epochs[i] = 0,
         i \in DOMAIN before.queues, before.queues[i] = <<MessageOf(config, before.epochs, b)>>,
         before.next_handle[p] \in Nat, before.next_handle[p] + 1 < HandleSpace
  PROVE  receive_region(before, p) = Fetched(before, p, i, b)
<1>1. PICK cap : cap = RegionCap(config, before.epochs, b)
  OBVIOUS
<1>2. before.queues[i] = <<[data |-> b, caps |-> <<cap>>]>>
  BY <1>1 DEF MessageOf
<1>3. PICK view : view = input_cap(p)
  OBVIOUS
<1>4. Live(before.epochs, view) /\ "READ" \in view.rights /\ view.object = i
  BY <1>3 DEF Live, object_exists, ReadView
<1>5. receive(before, p, view) = Taken(before, p, i, cap)
  <2>1. /\ Live(before.epochs, view) /\ "READ" \in view.rights /\ view.object \in DOMAIN before.queues
        /\ before.queues[view.object] = <<[data |-> b, caps |-> <<cap>>]>>
    BY <1>2, <1>4
  <2>2. receive(before, p, view) = Taken(before, p, view.object, cap)
    BY <2>1, ReceiveOne
  <2> QED BY <1>4, <2>2
<1>6. ~(waiting(before, view) # <<>> /\ Head(waiting(before, view)).caps = <<>>)
  <2>1. PICK m : m = [data |-> b, caps |-> <<cap>>]
    OBVIOUS
  <2>2. waiting(before, view) = <<m>> /\ m.caps # <<>> /\ Head(<<m>>) = m
    BY <1>2, <1>4, <2>1 DEF waiting
  <2> QED BY <2>2
<1> QED BY <1>1, <1>3, <1>5, <1>6 DEF receive_region, Fetched

LEMMA FetchingNone ==
  ASSUME NEW before, NEW p, NEW i, input_cap(p) = ReadView(i), i \in DOMAIN before.epochs,
         before.epochs[i] = 0, i \in DOMAIN before.queues, before.queues[i] = <<>>
  PROVE  receive_region(before, p) = before
<1>1. PICK view : view = input_cap(p)
  OBVIOUS
<1>2. Live(before.epochs, view) /\ "READ" \in view.rights /\ view.object = i
  BY <1>1 DEF Live, object_exists, ReadView
<1>3. waiting(before, view) = <<>>
  BY <1>2 DEF waiting
<1> QED BY <1>1, <1>2, <1>3, ReceiveNone DEF receive_region

\* What the calls change, field by field.
IsTaken(s, t, p, i, cap) ==
  /\ DOMAIN t = Fields /\ t.failed = s.failed
  /\ t.epochs = s.epochs /\ t.regions = s.regions
  /\ t.queues = [s.queues EXCEPT ![i] = <<>>]
  /\ t.tables = [s.tables EXCEPT ![p] = Extended(s.tables[p], s.next_handle[p], cap)]
  /\ t.next_handle = [s.next_handle EXCEPT ![p] = s.next_handle[p] + 1]
  /\ t.held = s.held \union {<<p, cap>>}

IsPassed(s, t, p, h, r, o, m) ==
  /\ DOMAIN t = Fields /\ t.failed = s.failed /\ t.held = s.held
  /\ t.regions = s.regions /\ t.next_handle = s.next_handle
  /\ t.epochs = Raised(s.epochs, r)
  /\ t.queues = [s.queues EXCEPT ![o] = Append(s.queues[o], m)]
  /\ t.tables = [s.tables EXCEPT ![p] = Without(s.tables[p], h)]

IsWritten(s, t, r, contents) ==
  /\ DOMAIN t = Fields /\ t.failed = s.failed /\ t.held = s.held
  /\ t.epochs = s.epochs /\ t.next_handle = s.next_handle
  /\ t.queues = s.queues /\ t.tables = s.tables
  /\ DOMAIN t.regions = DOMAIN s.regions
  /\ \A x \in DOMAIN s.regions : t.regions[x] = IF x = r THEN contents ELSE s.regions[x]

LEMMA FieldsTaken ==
  ASSUME NEW s, DOMAIN s = Fields, NEW p, NEW i, NEW cap
  PROVE  IsTaken(s, Taken(s, p, i, cap), p, i, cap)
BY DEF Taken, Fields, IsTaken

LEMMA FieldsPassed ==
  ASSUME NEW s, DOMAIN s = Fields, NEW p, NEW h, NEW r, NEW o, NEW m
  PROVE  IsPassed(s, Passed(s, p, h, r, o, m), p, h, r, o, m)
BY DEF Passed, Fields, IsPassed

LEMMA FieldsWritten ==
  ASSUME NEW s, DOMAIN s = Fields, NEW r, NEW contents
  PROVE  IsWritten(s, [s EXCEPT !.regions[r] = contents], r, contents)
BY DEF Fields, IsWritten

(***************************************************************************)
(* A stage's turn.                                                         *)
(***************************************************************************)

\* Stage p has passed batch b on from channel i to o, its region now with `contents`.
Hopped(s, t, p, i, o, b, contents) ==
  /\ DOMAIN t = Fields /\ t.failed = FALSE
  /\ t.epochs = Raised(s.epochs, RegionOf(config, b))
  /\ DOMAIN t.tables = DOMAIN s.tables
  /\ \A q \in DOMAIN s.tables :
       /\ DOMAIN t.tables[q] = DOMAIN s.tables[q]
       /\ \A k \in DOMAIN s.tables[q] : t.tables[q][k] = s.tables[q][k]
  /\ DOMAIN t.next_handle = DOMAIN s.next_handle
  /\ \A q \in DOMAIN s.next_handle :
       t.next_handle[q] = IF q = p THEN s.next_handle[p] + 1 ELSE s.next_handle[q]
  /\ DOMAIN t.queues = DOMAIN s.queues
  /\ \A c \in DOMAIN s.queues :
       t.queues[c] = IF c = i THEN <<>>
                     ELSE IF c = o THEN <<MessageOf(config, t.epochs, b)>> ELSE s.queues[c]
  /\ DOMAIN t.regions = DOMAIN s.regions
  /\ \A x \in DOMAIN s.regions :
       t.regions[x] = IF x = RegionOf(config, b) THEN contents ELSE s.regions[x]
  /\ t.held = s.held \union {<<p, RegionCap(config, s.epochs, b)>>}

\* Received in `before`, perhaps rewritten in `written`, and forwarded.
LEMMA HopFields ==
  ASSUME config \in Configs,
         NEW s, SystemOK(s), NEW p \in 1 .. Producer(config), NEW i \in 0 .. Return(config),
         NEW o \in 0 .. Return(config), i # o, s.queues[o] = <<>>, NEW b,
         RegionOf(config, b) \in Regions(config), RegionOf(config, b) \in DOMAIN s.epochs,
         s.next_handle[p] \in Nat, s.next_handle[p] \notin DOMAIN s.tables[p],
         NEW before, before = Fetched(s, p, i, b),
         NEW contents, NEW written, IsWritten(before, written, RegionOf(config, b), contents),
         output_cap(p) = WriteView(o)
  PROVE  LET h == s.next_handle[p] IN
         /\ h \in DOMAIN written.tables[p]
         /\ written.tables[p][h] = RegionCap(config, s.epochs, b)
         /\ Hopped(s, forwarded(written, p, h, b), p, i, o, b, contents)
<1>1. PICK h \in Nat, r \in Regions(config), cap \in {RegionCap(config, s.epochs, b)} :
        h = s.next_handle[p] /\ r = RegionOf(config, b) /\ cap = RegionCap(config, s.epochs, b)
  OBVIOUS
<1>2. /\ DOMAIN s = Fields /\ s.failed = FALSE
      /\ p \in DOMAIN s.tables /\ p \in DOMAIN s.next_handle
      /\ i \in DOMAIN s.queues /\ o \in DOMAIN s.queues /\ s.epochs[o] = 0 /\ o \in DOMAIN s.epochs
  <2>1. /\ config.pool \in Nat /\ config.stages \in Nat
        /\ Producer(config) = config.stages + 2 /\ Return(config) = config.stages + 1
    BY ConfigFacts DEF Producer, Return
  <2> QED BY <2>1 DEF SystemOK
<1>3. /\ before.failed = FALSE /\ before.epochs = s.epochs /\ before.regions = s.regions
      /\ before.queues = [s.queues EXCEPT ![i] = <<>>]
      /\ before.tables = [s.tables EXCEPT ![p] = Extended(s.tables[p], h, cap)]
      /\ before.next_handle = [s.next_handle EXCEPT ![p] = h + 1]
      /\ before.held = s.held \union {<<p, cap>>}
  <2>1. before = Taken(s, p, i, cap)
    BY <1>1 DEF Fetched
  <2>2. IsTaken(s, before, p, i, cap)
    BY <1>2, <2>1, FieldsTaken
  <2> QED BY <1>1, <1>2, <2>2 DEF IsTaken
<1>31. /\ DOMAIN written = Fields /\ written.failed = FALSE /\ written.epochs = s.epochs
       /\ written.queues = before.queues /\ written.tables = before.tables
       /\ written.next_handle = before.next_handle /\ written.held = before.held
       /\ DOMAIN written.regions = DOMAIN s.regions
       /\ \A x \in DOMAIN s.regions : written.regions[x] = IF x = r THEN contents ELSE s.regions[x]
  BY <1>1, <1>3 DEF IsWritten
<1>4. DOMAIN written.tables[p] = DOMAIN s.tables[p] \union {h} /\ written.tables[p][h] = cap
  BY <1>2, <1>3, <1>31 DEF Extended
<1>5. PICK m : m = MessageOf(config, Raised(s.epochs, r), b)
  OBVIOUS
<1>6. forwarded(written, p, h, b) = Passed(written, p, h, r, o, m)
  <2>1. /\ h \in DOMAIN written.tables[p] /\ written.tables[p][h] = RegionCap(config, written.epochs, b)
        /\ RegionOf(config, b) \in DOMAIN written.epochs
        /\ o \in DOMAIN written.epochs /\ written.epochs[o] = 0 /\ o \in DOMAIN written.queues
    BY <1>1, <1>2, <1>3, <1>31, <1>4
  <2>2. forwarded(written, p, h, b) =
           Passed(written, p, h, RegionOf(config, b), o,
                  MessageOf(config, Raised(written.epochs, RegionOf(config, b)), b))
    BY <2>1, Forwarding
  <2> QED BY <1>1, <1>3, <1>31, <1>5, <2>2
<1>7. PICK t : t = forwarded(written, p, h, b)
  OBVIOUS
<1>8. /\ DOMAIN t = Fields /\ t.failed = FALSE /\ t.held = s.held \union {<<p, cap>>}
      /\ t.regions = written.regions
      /\ t.next_handle = [s.next_handle EXCEPT ![p] = h + 1]
      /\ t.epochs = Raised(s.epochs, r)
      /\ t.queues = [written.queues EXCEPT ![o] = Append(written.queues[o], m)]
      /\ t.tables = [written.tables EXCEPT ![p] = Without(written.tables[p], h)]
  <2>1. t = Passed(written, p, h, r, o, m)
    BY <1>6, <1>7
  <2>2. IsPassed(written, t, p, h, r, o, m)
    BY <1>31, <2>1, FieldsPassed
  <2> QED BY <1>3, <1>31, <2>2 DEF IsPassed
<1>9. \A c \in DOMAIN s.queues :
        t.queues[c] = IF c = i THEN <<>> ELSE IF c = o THEN <<m>> ELSE s.queues[c]
  <2>1. Append(<<>>, m) = <<m>>
    OBVIOUS
  <2>2. DOMAIN written.queues = DOMAIN s.queues /\ \A c \in DOMAIN s.queues :
          written.queues[c] = IF c = i THEN <<>> ELSE s.queues[c]
    BY <1>3, <1>31
  <2>3. written.queues[o] = <<>>
    BY <1>2, <2>2
  <2>4. \A c \in DOMAIN s.queues :
          t.queues[c] = IF c = o THEN <<m>> ELSE written.queues[c]
    BY <1>8, <2>1, <2>2, <2>3
  <2> QED BY <2>2, <2>4
<1>10. \A q \in DOMAIN s.tables :
         /\ DOMAIN t.tables[q] = DOMAIN s.tables[q]
         /\ \A k \in DOMAIN s.tables[q] : t.tables[q][k] = s.tables[q][k]
  <2>1. DOMAIN written.tables = DOMAIN s.tables
        /\ \A q \in DOMAIN s.tables :
             written.tables[q] = IF q = p THEN Extended(s.tables[p], h, cap) ELSE s.tables[q]
    BY <1>3, <1>31
  <2>2. \A q \in DOMAIN s.tables :
          t.tables[q] = IF q = p THEN Without(Extended(s.tables[p], h, cap), h) ELSE s.tables[q]
    BY <1>2, <1>8, <2>1
  <2>3. \A table : h \notin DOMAIN table =>
          LET same == Without(Extended(table, h, cap), h) IN
          DOMAIN same = DOMAIN table /\ \A k \in DOMAIN table : same[k] = table[k]
    BY DEF Without, Extended
  <2> QED BY <1>1, <2>2, <2>3
<1>11. \A q \in DOMAIN s.next_handle :
         t.next_handle[q] = IF q = p THEN s.next_handle[p] + 1 ELSE s.next_handle[q]
  BY <1>1, <1>2, <1>8
<1>12. DOMAIN t.tables = DOMAIN s.tables /\ DOMAIN t.next_handle = DOMAIN s.next_handle
       /\ DOMAIN t.queues = DOMAIN s.queues /\ DOMAIN t.regions = DOMAIN s.regions
  BY <1>3, <1>31, <1>8
<1>13. Hopped(s, t, p, i, o, b, contents)
  BY <1>1, <1>31, <1>5, <1>8, <1>9, <1>10, <1>11, <1>12 DEF Hopped
<1> QED BY <1>1, <1>4, <1>7, <1>13

\* Another batch's region is not touched.
LEMMA OtherRegion ==
  ASSUME NEW c, NEW epochs, NEW r, NEW b, RegionOf(c, b) \in DOMAIN epochs,
         epochs[RegionOf(c, b)] \in Int, RegionOf(c, b) # r
  PROVE  /\ RegionCap(c, Raised(epochs, r), b) = RegionCap(c, epochs, b)
         /\ MessageOf(c, Raised(epochs, r), b) = MessageOf(c, epochs, b)
<1>1. PICK x : x = RegionOf(c, b)
  OBVIOUS
<1>2. Raised(epochs, r)[x] = epochs[x]
  <2>1. Raised(epochs, r)[x] = epochs[x] + 0
    BY <1>1 DEF Raised
  <2> QED BY <1>1, <2>1
<1> QED BY <1>1, <1>2 DEF RegionCap, MessageOf

\* The configuration's numbers.
Sizes(S, P) ==
  /\ S = config.stages /\ P = config.pool
  /\ Return(config) = S + 1 /\ Producer(config) = S + 2 /\ Supervisor = 0
  /\ Regions(config) = S + 2 .. S + 1 + P

LEMMA SizesExist ==
  ASSUME config \in Configs
  PROVE  \E S \in Nat, P \in Nat : Sizes(S, P)
BY ConfigFacts DEF Return, Producer, Regions, Supervisor, Sizes

\* After the epoch of r is raised, what it holds of the others is as it was.
LEMMA RaisedEpochs ==
  ASSUME config \in Configs, NEW s, SystemOK(s), NEW r \in Regions(config),
         NEW epochs, epochs = Raised(s.epochs, r)
  PROVE  /\ DOMAIN epochs = 0 .. Return(config) + config.pool
         /\ \A o \in 0 .. Return(config) : epochs[o] = 0
         /\ \A o \in Regions(config) :
              epochs[o] \in Nat /\ epochs[o] = s.epochs[o] + (IF o = r THEN 1 ELSE 0)
<1>1. DOMAIN s.epochs = 0 .. Return(config) + config.pool
      /\ (\A o \in 0 .. Return(config) : s.epochs[o] = 0)
      /\ (\A o \in Regions(config) : s.epochs[o] \in Nat)
  BY DEF SystemOK
<1>2. DOMAIN epochs = DOMAIN s.epochs
      /\ \A o \in DOMAIN s.epochs : epochs[o] = s.epochs[o] + (IF o = r THEN 1 ELSE 0)
  BY DEF Raised
<1>3. PICK R \in Nat, Q \in Nat : R = Return(config) /\ Q = config.pool /\ Regions(config) = R + 1 .. R + Q
  <2>1. config.pool \in Nat /\ config.stages \in Nat
    BY ConfigFacts
  <2> QED BY <2>1 DEF Return, Regions
<1>4. DOMAIN s.epochs = 0 .. R + Q
  BY <1>1, <1>3
<1>5. ASSUME NEW o \in 0 .. R PROVE epochs[o] = 0
  <2>1. o \in 0 .. R + Q /\ o # r
    BY <1>3
  <2>2. s.epochs[o] = 0
    BY <1>1, <1>3
  <2> QED BY <1>2, <1>4, <2>1, <2>2
<1>6. ASSUME NEW o \in Regions(config)
      PROVE  epochs[o] \in Nat /\ epochs[o] = s.epochs[o] + (IF o = r THEN 1 ELSE 0)
  <2>1. o \in DOMAIN s.epochs
    BY <1>3, <1>4
  <2>2. PICK v \in Nat : v = s.epochs[o]
    BY <1>1
  <2>3. epochs[o] = v + (IF o = r THEN 1 ELSE 0)
    BY <1>2, <2>1, <2>2
  <2> QED BY <2>2, <2>3
<1> QED BY <1>1, <1>2, <1>3, <1>5, <1>6

\* Batch b is the only message of channel i, and channel o is empty.
Passing(s, i, o, b) == s.queues[i] # <<>> /\ s.queues[o] = <<>> /\ b = Carried(s, i)

LEMMA HopKeeps ==
  ASSUME config \in Configs, NEW S \in Nat, NEW P \in Nat, Sizes(S, P),
         NEW s, NEW free, NEW n \in Nat, NEW d \in Nat,
         Own(s, free, n, d), BatchesOK(s, free, n, d),
         NEW p \in 1 .. S + 1, NEW i \in 0 .. S, NEW o \in 1 .. S + 1, NEW b \in Nat,
         i = S + 1 - p, o = S + 2 - p, Passing(s, i, o, b),
         NEW t, NEW contents, Hopped(s, t, p, i, o, b, contents),
         NEW e \in Nat, e = IF p = 1 THEN d + 1 ELSE d
  PROVE  Own(t, free, n, e)
<1>1. /\ Return(config) = S + 1 /\ Producer(config) = S + 2 /\ Supervisor = 0
      /\ Regions(config) = S + 2 .. S + 1 + P
  BY DEF Sizes
<1>0. \A q \in 1 .. S + 1 : InputOf(config, q) = S + 1 - q
  BY SMTT(20) DEF Sizes, InputOf
<1>2. /\ SystemOK(s) /\ ViewsOK(s) /\ TableDomainsOK(s, free) /\ QueuesOK(s)
      /\ FreeOK(s, free, n) /\ HandlesOK(s, n, d) /\ HeldOK(s, free) /\ CoveredOK(s, free)
  BY DEF Own
<1>3. ApartOK(s, free, n)
  BY <1>2, RegionsApart DEF FreeOK
<1>4. s.queues[i] # <<>> /\ s.queues[o] = <<>> /\ b = Carried(s, i)
  BY DEF Passing
<1>5. /\ d <= n
      /\ \A c \in 0 .. S : s.queues[c] # <<>> =>
           /\ Carried(s, c) \in d .. n - 1
           /\ \A j \in 0 .. c - 1 : s.queues[j] # <<>> => Carried(s, c) < Carried(s, j)
  BY SMTT(20), <1>1 DEF BatchesOK
<1>51. b \in d .. n - 1
  BY <1>4, <1>5
<1>52. PICK r \in Regions(config) : r = RegionOf(config, b)
  <2>1. i \in 0 .. Return(config)
    BY <1>1
  <2> QED BY <1>3, <1>4, <2>1 DEF ApartOK
<1>53. \A c \in 0 .. Return(config) : s.queues[c] # <<>> /\ c # i =>
         RegionOf(config, Carried(s, c)) \in Regions(config) /\ RegionOf(config, Carried(s, c)) # r
  <2>1. i \in 0 .. Return(config)
    BY <1>1
  <2> QED BY <1>3, <1>4, <1>52, <2>1 DEF ApartOK
<1>54. \A k \in DOMAIN free :
         RegionOf(config, n + (k - 1)) \in Regions(config) /\ RegionOf(config, n + (k - 1)) # r
  <2>1. i \in 0 .. Return(config)
    BY <1>1
  <2> QED BY <1>3, <1>4, <1>52, <2>1 DEF ApartOK
<1>55. t.epochs = Raised(s.epochs, r)
  BY <1>52 DEF Hopped
<1>56. ASSUME NEW x, RegionOf(config, x) \in Regions(config), RegionOf(config, x) # r
       PROVE  /\ RegionCap(config, t.epochs, x) = RegionCap(config, s.epochs, x)
              /\ MessageOf(config, t.epochs, x) = MessageOf(config, s.epochs, x)
  <2>1. RegionOf(config, x) \in DOMAIN s.epochs /\ s.epochs[RegionOf(config, x)] \in Int
    <3>1. \A y \in Regions(config) : y \in 0 .. Return(config) + config.pool
      BY SMTT(20), <1>1 DEF Sizes
    <3> QED BY <1>2, <1>56, <3>1 DEF SystemOK
  <2> QED BY <1>55, <1>56, <2>1, OtherRegion
<1>6. SystemOK(t)
  <2>1. /\ DOMAIN t.epochs = 0 .. Return(config) + config.pool
        /\ \A x \in 0 .. Return(config) : t.epochs[x] = 0
        /\ \A x \in Regions(config) : t.epochs[x] \in Nat
    BY <1>2, <1>55, RaisedEpochs
  <2> QED BY <1>2, <2>1 DEF SystemOK, Hopped
<1>7. \A q \in 0 .. Producer(config) :
        /\ DOMAIN t.tables[q] = DOMAIN s.tables[q]
        /\ \A k \in DOMAIN s.tables[q] : t.tables[q][k] = s.tables[q][k]
  BY <1>2 DEF SystemOK, Hopped
<1>8. TableDomainsOK(t, free)
  <2>1. Supervisor \in 0 .. Producer(config) /\ \A q \in 1 .. Producer(config) : q \in 0 .. Producer(config)
    BY <1>1
  <2> QED BY <1>2, <1>7, <2>1 DEF TableDomainsOK
<1>9. ViewsOK(t)
  <2> SUFFICES ASSUME NEW q \in 1 .. Producer(config)
               PROVE  /\ {stages[q].input, stages[q].output} = {0, 1}
                      /\ cap_of(t, q, stages[q].input) = ReadView(InputOf(config, q))
                      /\ cap_of(t, q, stages[q].output) = WriteView(OutputOf(config, q))
    BY DEF ViewsOK
  <2>1. stages[q].input \in DOMAIN s.tables[q] /\ stages[q].output \in DOMAIN s.tables[q]
    BY <1>2 DEF TableDomainsOK, ViewsOK
  <2>2. q \in 0 .. Producer(config)
    BY <1>1
  <2>3. \A k \in DOMAIN s.tables[q] : cap_of(t, q, k) = cap_of(s, q, k)
    BY <1>7, <2>2 DEF cap_of
  <2> QED BY <1>2, <2>1, <2>3 DEF ViewsOK
<1>10. \A k \in DOMAIN free :
         /\ RegionOf(config, n + (k - 1)) \in Regions(config) /\ RegionOf(config, n + (k - 1)) # r
         /\ RegionCap(config, t.epochs, n + (k - 1)) = RegionCap(config, s.epochs, n + (k - 1))
  <2> SUFFICES ASSUME NEW k \in DOMAIN free
               PROVE  /\ RegionOf(config, n + (k - 1)) \in Regions(config)
                      /\ RegionOf(config, n + (k - 1)) # r
                      /\ RegionCap(config, t.epochs, n + (k - 1)) = RegionCap(config, s.epochs, n + (k - 1))
    OBVIOUS
  <2> QED BY <1>54, <1>56
<1>11. FreeOK(t, free, n)
  <2>1. t.next_handle[Producer(config)] = s.next_handle[Producer(config)]
    <3>1. Producer(config) \in DOMAIN s.next_handle /\ Producer(config) # p
      <4>1. DOMAIN s.next_handle = 0 .. Producer(config)
        BY <1>2 DEF SystemOK
      <4>2. S + 2 \in 0 .. S + 2 /\ S + 2 # p
        OBVIOUS
      <4> QED BY <1>1, <4>1, <4>2
    <3>2. s.next_handle[Producer(config)] \in Int
      BY <1>2 DEF HandlesOK
    <3> QED BY <3>1, <3>2 DEF Hopped
  <2>2. \A k \in DOMAIN free : t.tables[Producer(config)][free[k]] = s.tables[Producer(config)][free[k]]
    <3>1. Producer(config) \in 1 .. Producer(config)
      BY <1>1
    <3>2. DOMAIN s.tables[Producer(config)] = {0, 1} \union SetOf(free)
      BY <1>2, <3>1 DEF TableDomainsOK
    <3>3. \A k \in DOMAIN free : free[k] \in DOMAIN s.tables[Producer(config)]
      BY <3>2 DEF SetOf
    <3> QED BY <1>7, <3>1, <3>3
  <2> QED BY <1>2, <1>10, <2>1, <2>2 DEF FreeOK
<1>12. \A c \in 0 .. Return(config) :
         t.queues[c] = IF c = i THEN <<>>
                       ELSE IF c = o THEN <<MessageOf(config, t.epochs, b)>> ELSE s.queues[c]
  BY <1>2 DEF SystemOK, Hopped
<1>13. QueuesOK(t)
  <2> SUFFICES ASSUME NEW c \in 0 .. Return(config), c # i, c # o, s.queues[c] # <<>>
               PROVE  \E x \in Nat : s.queues[c] = <<MessageOf(config, t.epochs, x)>>
    BY <1>4, <1>12 DEF QueuesOK
  <2>1. PICK x \in Nat : x = Carried(s, c) /\ s.queues[c] = <<MessageOf(config, s.epochs, x)>>
    BY <1>2, OneMessage
  <2>2. MessageOf(config, t.epochs, x) = MessageOf(config, s.epochs, x)
    BY <1>53, <1>56, <2>1
  <2> QED BY <2>1, <2>2
<1>14. /\ t.queues[i] = <<>> /\ t.queues[o] # <<>> /\ Carried(t, o) = b
       /\ \A c \in 0 .. Return(config) : c # i /\ c # o =>
            t.queues[c] = s.queues[c] /\ Carried(t, c) = Carried(s, c)
  <2>1. PICK m : m = MessageOf(config, t.epochs, b)
    OBVIOUS
  <2>2. m.data = b
    BY <2>1 DEF MessageOf
  <2>3. i # o /\ i \in 0 .. Return(config) /\ o \in 0 .. Return(config)
    BY <1>1
  <2>4. t.queues[o] = <<m>>
    BY <1>12, <2>1, <2>3
  <2>5. t.queues[o] # <<>> /\ Head(t.queues[o]) = m
    BY <2>4
  <2> QED BY <1>12, <2>2, <2>3, <2>5 DEF Carried
<1>15. HandlesOK(t, n, e)
  <2>1. \A q \in 0 .. S + 2 :
          t.next_handle[q] = IF q = p THEN s.next_handle[p] + 1 ELSE s.next_handle[q]
    <3>1. DOMAIN s.next_handle = 0 .. S + 2
      BY <1>1, <1>2 DEF SystemOK
    <3>2. \A q \in DOMAIN s.next_handle :
            t.next_handle[q] = IF q = p THEN s.next_handle[p] + 1 ELSE s.next_handle[q]
      BY DEF Hopped
    <3> QED BY <3>1, <3>2
  <2>2. ASSUME NEW q \in 1 .. S + 1
        PROVE  /\ t.next_handle[q] \in 2 .. 2 + n
               /\ \A c \in 0 .. InputOf(config, q) :
                    t.queues[c] # <<>> => t.next_handle[q] <= 2 + Carried(t, c)
    <3>1. InputOf(config, q) = S + 1 - q /\ S + 1 - q \in 0 .. S
      BY <1>0
    <3>2. /\ s.next_handle[q] \in 2 .. 2 + n
          /\ \A c \in 0 .. S + 1 - q : s.queues[c] # <<>> => s.next_handle[q] <= 2 + Carried(s, c)
      BY <1>1, <1>2, <3>1 DEF HandlesOK
    <3>3. PICK x \in 2 .. 2 + n : x = s.next_handle[q]
      BY <3>2
    <3>4. CASE q = p
      <4>1. x <= 2 + b /\ t.next_handle[q] = x + 1
        <5>1. q \in 0 .. S + 2 /\ i \in 0 .. S + 1 - q
          BY <3>4
        <5> QED BY <1>4, <2>1, <3>2, <3>3, <3>4, <5>1
      <4>2. ASSUME NEW c \in 0 .. i, t.queues[c] # <<>> PROVE x + 1 <= 2 + Carried(t, c)
        <5>1. c \in 0 .. i - 1 /\ c \in 0 .. Return(config) /\ c # i /\ c # o
          BY <1>1, <1>14, <4>2
        <5>2. s.queues[c] # <<>> /\ Carried(t, c) = Carried(s, c)
          BY <1>14, <4>2, <5>1
        <5>3. b < Carried(s, c)
          BY <1>4, <1>5, <5>1, <5>2
        <5>4. Carried(s, c) \in Nat
          BY <1>2, <5>1, <5>2, OneMessage
        <5>5. PICK y \in Nat : y = Carried(s, c) /\ y = Carried(t, c) /\ b < y
          BY <5>2, <5>3, <5>4
        <5>6. x + 1 <= 2 + y
          BY <4>1, <5>5
        <5> QED BY <5>5, <5>6
      <4>3. x + 1 \in 2 .. 2 + n
        BY <1>51, <3>3, <4>1
      <4> QED BY <1>1, <3>1, <3>4, <4>1, <4>2, <4>3
    <3>5. CASE q # p
      <4>1. t.next_handle[q] = x
        BY <2>1, <3>3, <3>5
      <4>2. ASSUME NEW c \in 0 .. S + 1 - q, t.queues[c] # <<>> PROVE x <= 2 + Carried(t, c)
        <5>1. c \in 0 .. Return(config) /\ c # i
          BY <1>1, <1>14, <3>1, <4>2
        <5>2. CASE c = o
          <6>1. i \in 0 .. S + 1 - q
            BY <1>1, <5>2
          <6>2. x <= 2 + b
            BY <1>4, <3>2, <3>3, <6>1
          <6> QED BY <1>14, <5>2, <6>2
        <5>3. CASE c # o
          BY <1>14, <3>2, <3>3, <4>2, <5>1, <5>3
        <5> QED BY <5>2, <5>3
      <4> QED BY <3>1, <3>3, <4>1, <4>2
    <3> QED BY <3>4, <3>5
  <2>3. t.next_handle[Producer(config)] \in 2 .. 2 + config.pool + e - Returning(t)
    <3>1. t.next_handle[S + 2] = s.next_handle[S + 2] /\ s.next_handle[S + 2] \in Int
          /\ s.next_handle[S + 2] \in 2 .. 2 + P + d - Returning(s)
      <4>1. s.next_handle[S + 2] \in 2 .. 2 + P + d - Returning(s)
        BY <1>1, <1>2 DEF HandlesOK, Sizes
      <4> QED BY <1>1, <2>1, <4>1
    <3>2. e - Returning(t) = d - Returning(s)
      <4>1. CASE p = 1
        <5>1. o = Return(config) /\ e = d + 1
          BY <1>1, <4>1
        <5>2. Returning(s) = 0 /\ Returning(t) = 1
          BY <1>4, <1>14, <5>1 DEF Returning
        <5> QED BY <5>1, <5>2
      <4>2. CASE p # 1
        <5>1. o # Return(config) /\ i # Return(config) /\ e = d /\ Return(config) \in 0 .. Return(config)
          BY <1>1, <4>2
        <5> QED BY <1>4, <1>14, <5>1 DEF Returning
      <4> QED BY <4>1, <4>2
    <3>3. e \in Nat /\ Returning(t) \in Nat /\ Returning(s) \in Nat
      BY DEF Returning
    <3>4. PICK x \in Int, y \in Nat, z \in Nat :
            x = s.next_handle[S + 2] /\ y = Returning(s) /\ z = Returning(t)
      BY <3>1, <3>3
    <3>5. t.next_handle[Producer(config)] = x /\ x \in 2 .. 2 + P + d - y /\ e - z = d - y
      BY <1>1, <3>1, <3>2, <3>4
    <3>6. x \in 2 .. 2 + P + e - z
      BY <3>5
    <3> QED BY <3>4, <3>5, <3>6 DEF Sizes
  <2> QED BY <1>1, <2>2, <2>3 DEF HandlesOK
<1>16. HeldOK(t, free)
  <2>1. \A x \in Regions(config) : t.epochs[x] = s.epochs[x] + (IF x = r THEN 1 ELSE 0) /\ s.epochs[x] \in Nat
    <3>1. t.epochs = Raised(s.epochs, r)
      BY <1>55
    <3>2. \A x \in Regions(config) : s.epochs[x] \in Nat
      BY <1>2 DEF SystemOK
    <3>3. \A x \in Regions(config) : t.epochs[x] = s.epochs[x] + (IF x = r THEN 1 ELSE 0)
      BY <1>2, <3>1, RaisedEpochs
    <3> QED BY <3>2, <3>3
  <2>2. t.held = s.held \union {<<p, RegionCap(config, s.epochs, b)>>}
    BY DEF Hopped
  <2>3. \A k \in DOMAIN free :
          /\ t.tables[Producer(config)][free[k]] = s.tables[Producer(config)][free[k]]
          /\ s.tables[Producer(config)][free[k]].object # r
    <3> SUFFICES ASSUME NEW k \in DOMAIN free
                 PROVE /\ t.tables[Producer(config)][free[k]] = s.tables[Producer(config)][free[k]]
                       /\ s.tables[Producer(config)][free[k]].object # r
      OBVIOUS
    <3>1. free[k] \in DOMAIN s.tables[Producer(config)]
      BY <1>1, <1>2 DEF TableDomainsOK, SetOf
    <3>2. s.tables[Producer(config)][free[k]] = RegionCap(config, s.epochs, n + (k - 1))
      BY <1>2 DEF FreeOK
    <3>3. s.tables[Producer(config)][free[k]].object # r
      BY <1>54, <3>2 DEF RegionCap
    <3>4. Producer(config) \in 0 .. Producer(config)
      BY <1>1
    <3> QED BY <1>7, <3>1, <3>3, <3>4
  <2>4. ASSUME NEW h \in t.held, NEW q, NEW cap, q = h[1], cap = h[2]
        PROVE  IF cap.object \in Regions(config)
               THEN /\ cap.epoch \in Nat /\ cap.epoch <= t.epochs[cap.object]
                    /\ cap.epoch = t.epochs[cap.object] =>
                         q = Producer(config) /\ \E k \in DOMAIN free :
                           cap = t.tables[Producer(config)][free[k]]
               ELSE q # Supervisor =>
                      /\ q \in 1 .. Producer(config)
                      /\ cap \in {ReadView(InputOf(config, q)), WriteView(OutputOf(config, q))}
    <3>1. CASE h = <<p, RegionCap(config, s.epochs, b)>>
      <4>1. cap.object = r /\ cap.epoch = s.epochs[r]
        BY <1>52, <2>4, <3>1 DEF RegionCap
      <4> QED BY <2>1, <4>1
    <3>2. CASE h \in s.held
      <4>1. IF cap.object \in Regions(config)
            THEN /\ cap.epoch \in Nat /\ cap.epoch <= s.epochs[cap.object]
                 /\ cap.epoch = s.epochs[cap.object] =>
                      q = Producer(config) /\ \E k \in DOMAIN free :
                        cap = s.tables[Producer(config)][free[k]]
            ELSE q # Supervisor =>
                   /\ q \in 1 .. Producer(config)
                   /\ cap \in {ReadView(InputOf(config, q)), WriteView(OutputOf(config, q))}
        BY <1>2, <2>4, <3>2 DEF HeldOK
      <4>2. CASE cap.object \notin Regions(config)
        BY <4>1, <4>2
      <4>3. CASE cap.object = r
        BY <2>1, <2>3, <4>1, <4>3
      <4>4. CASE cap.object \in Regions(config) /\ cap.object # r
        <5>1. t.epochs[cap.object] = s.epochs[cap.object]
          BY <2>1, <4>4
        <5> QED BY <2>3, <4>1, <4>4, <5>1
      <4> QED BY <4>2, <4>3, <4>4
    <3> QED BY <2>2, <2>4, <3>1, <3>2
  <2>5. \A k \in DOMAIN free :
          <<Producer(config), t.tables[Producer(config)][free[k]]>> \in t.held
    BY <1>2, <2>2, <2>3 DEF HeldOK
  <2>6. \A h \in t.held : h = <<h[1], h[2]>>
    BY <1>2, <2>2 DEF HeldOK
  <2> QED BY <2>4, <2>5, <2>6 DEF HeldOK
<1>17. CoveredOK(t, free)
  <2> SUFFICES ASSUME NEW x \in Regions(config)
               PROVE  \/ \E k \in DOMAIN free : t.tables[Producer(config)][free[k]].object = x
                      \/ \E c \in 0 .. Return(config) :
                           t.queues[c] # <<>> /\ RegionOf(config, Carried(t, c)) = x
    BY DEF CoveredOK
  <2>1. CASE \E k \in DOMAIN free : s.tables[Producer(config)][free[k]].object = x
    <3>1. \A k \in DOMAIN free : free[k] \in DOMAIN s.tables[Producer(config)]
      BY <1>1, <1>2 DEF TableDomainsOK, SetOf
    <3> QED BY <1>1, <1>7, <2>1, <3>1
  <2>2. ASSUME NEW c \in 0 .. Return(config), s.queues[c] # <<>>, RegionOf(config, Carried(s, c)) = x
        PROVE  \E q \in 0 .. Return(config) : t.queues[q] # <<>> /\ RegionOf(config, Carried(t, q)) = x
    <3>1. CASE c = i
      <4>1. o \in 0 .. Return(config)
        BY <1>1
      <4> QED BY <1>4, <1>14, <2>2, <3>1, <4>1
    <3>2. CASE c # i
      <4>1. c # o
        BY <1>4, <2>2
      <4> QED BY <1>14, <2>2, <3>2, <4>1
    <3> QED BY <3>1, <3>2
  <2> QED BY <1>2, <2>1, <2>2 DEF CoveredOK
<1> QED BY <1>6, <1>8, <1>9, <1>11, <1>13, <1>15, <1>16, <1>17 DEF Own

(***************************************************************************)
(* The producer's turn.                                                    *)
(***************************************************************************)

LEMMA AppendIs ==
  ASSUME NEW A, NEW f \in Seq(A), NEW x \in A
  PROVE  /\ Append(f, x) \in Seq(A) /\ Len(Append(f, x)) = Len(f) + 1
         /\ DOMAIN f = 1 .. Len(f) /\ DOMAIN Append(f, x) = 1 .. Len(f) + 1 /\ Len(f) \in Nat
         /\ \A k \in 1 .. Len(f) : Append(f, x)[k] = f[k]
         /\ Append(f, x)[Len(f) + 1] = x
OBVIOUS

LEMMA TailIs ==
  ASSUME NEW A, NEW f \in Seq(A), f # <<>>
  PROVE  /\ Tail(f) \in Seq(A) /\ Head(f) = f[1] /\ f[1] \in A
         /\ Len(f) \in Nat \ {0} /\ Len(Tail(f)) = Len(f) - 1
         /\ DOMAIN f = 1 .. Len(f) /\ DOMAIN Tail(f) = 1 .. Len(f) - 1
         /\ \A k \in 1 .. Len(f) - 1 : Tail(f)[k] = f[k + 1]
OBVIOUS

\* In t, the producer has taken batch b's region back under handle h.
Draining(s, t, b, h) ==
  /\ Returning(s) = 1 /\ b = Carried(s, Return(config)) /\ h = s.next_handle[Producer(config)]
  /\ t = Fetched(s, Producer(config), Return(config), b)

\* It keeps the invariant, and nothing is waiting for it any more.
Drains(s, t, S, free, h, n, d) ==
  /\ Own(t, Append(free, h), n, d) /\ BatchesOK(t, Append(free, h), n, d)
  /\ t.queues[S + 1] = <<>> /\ t.regions = s.regions
  /\ \A c \in 0 .. S : t.queues[c] = s.queues[c]

\* The producer has taken back the region of the last result.
LEMMA DrainKeeps ==
  ASSUME config \in Configs, NEW S \in Nat, NEW P \in Nat, Sizes(S, P),
         NEW s, NEW free, NEW n \in Nat, NEW d \in Nat,
         Own(s, free, n, d), BatchesOK(s, free, n, d),
         NEW t, NEW b \in Nat, NEW h, Draining(s, t, b, h)
  PROVE  Drains(s, t, S, free, h, n, d)
<1>1. /\ Return(config) = S + 1 /\ Producer(config) = S + 2 /\ Supervisor = 0
      /\ Regions(config) = S + 2 .. S + 1 + P
  BY DEF Sizes
<1>0. \A q \in 1 .. S + 1 : InputOf(config, q) = S + 1 - q
  BY DEF Sizes, InputOf
<1>2. /\ SystemOK(s) /\ ViewsOK(s) /\ TableDomainsOK(s, free) /\ QueuesOK(s)
      /\ FreeOK(s, free, n) /\ HandlesOK(s, n, d) /\ HeldOK(s, free) /\ CoveredOK(s, free)
  BY DEF Own
<1>28. /\ Returning(s) = 1 /\ b = Carried(s, S + 1) /\ h = s.next_handle[S + 2]
       /\ t = Fetched(s, S + 2, S + 1, b)
  BY <1>1 DEF Draining
<1>3. PICK cap : cap = RegionCap(config, s.epochs, b)
  OBVIOUS
<1>4. IsTaken(s, t, S + 2, S + 1, cap)
  BY <1>2, <1>3, <1>28, FieldsTaken DEF SystemOK, Fetched
<1>5. PICK l \in Nat : l = Len(free) /\ DOMAIN free = 1 .. l
  BY <1>2 DEF FreeOK
<1>6. s.queues[S + 1] # <<>>
  BY <1>1, <1>28 DEF Returning
<1>7. b = d - 1 /\ l + 1 + (n - d) = P /\ P # 0 /\ n + l = b + P
  <2>1. d - 1 = b /\ Len(free) + 1 + (n - d) = P /\ d <= n
    BY <1>1, <1>6, <1>28 DEF BatchesOK, Sizes
  <2> QED BY <1>5, <2>1
<1>8. RegionOf(config, n + l) = RegionOf(config, b) /\ RegionOf(config, b) \in Regions(config)
  BY <1>7, RegionsComeRound, RegionTypes DEF Sizes
<1>9. PICK r \in Regions(config) : r = RegionOf(config, b) /\ cap.object = r /\ cap.epoch = s.epochs[r]
  BY <1>3, <1>8 DEF RegionCap
<1>10. h \in Nat \ {0, 1} /\ h \notin DOMAIN s.tables[S + 2]
  <2>1. s.next_handle[S + 2] \in Int /\ s.next_handle[S + 2] >= 2
    <3>1. s.next_handle[S + 2] \in 2 .. 2 + config.pool + d - Returning(s)
      BY <1>1, <1>2 DEF HandlesOK
    <3>2. PICK m \in Int : m = 2 + config.pool + d - Returning(s)
      BY <1>28 DEF Sizes
    <3> QED BY <3>1, <3>2
  <2>2. h \in Nat \ {0, 1}
    BY <1>28, <2>1
  <2>3. DOMAIN s.tables[S + 2] = {0, 1} \union SetOf(free)
    <3>1. S + 2 \in 1 .. Producer(config)
      BY <1>1
    <3> QED BY <1>1, <1>2, <3>1 DEF TableDomainsOK
  <2>4. \A k \in DOMAIN free : free[k] \in Nat /\ free[k] < h
    BY SMTT(20), <1>1, <1>2, <1>28 DEF FreeOK
  <2>5. h \notin SetOf(free)
    BY <2>2, <2>4 DEF SetOf
  <2> QED BY <2>2, <2>3, <2>5
<1>11. PICK free2 : free2 = Append(free, h)
  OBVIOUS
<1>12. /\ free2 \in Seq(Nat \ {0, 1}) /\ Len(free2) = l + 1 /\ DOMAIN free2 = 1 .. l + 1
       /\ \A k \in 1 .. l : free2[k] = free[k]
       /\ free2[l + 1] = h
  <2>1. free \in Seq(Nat \ {0, 1})
    BY <1>2 DEF FreeOK
  <2> QED BY <1>5, <1>10, <1>11, <2>1, AppendIs
<1>13. /\ DOMAIN t = Fields /\ t.failed = s.failed /\ t.epochs = s.epochs /\ t.regions = s.regions
       /\ t.held = s.held \union {<<S + 2, cap>>}
       /\ DOMAIN t.queues = DOMAIN s.queues
       /\ DOMAIN t.tables = DOMAIN s.tables /\ DOMAIN t.next_handle = DOMAIN s.next_handle
       /\ \A c \in DOMAIN s.queues : t.queues[c] = IF c = S + 1 THEN <<>> ELSE s.queues[c]
       /\ \A q \in DOMAIN s.next_handle :
            t.next_handle[q] = IF q = S + 2 THEN h + 1 ELSE s.next_handle[q]
       /\ \A q \in DOMAIN s.tables :
            t.tables[q] = IF q = S + 2 THEN Extended(s.tables[q], h, cap) ELSE s.tables[q]
  BY <1>4, <1>28 DEF IsTaken
<1>14. /\ DOMAIN s.queues = 0 .. S + 1 /\ DOMAIN s.next_handle = 0 .. S + 2 /\ DOMAIN s.tables = 0 .. S + 2
  BY <1>1, <1>2 DEF SystemOK
<1>15. \A q \in 0 .. S + 2 :
         /\ DOMAIN t.tables[q] = DOMAIN s.tables[q] \union (IF q = S + 2 THEN {h} ELSE {})
         /\ \A k \in DOMAIN s.tables[q] : t.tables[q][k] = s.tables[q][k]
  <2> SUFFICES ASSUME NEW q \in 0 .. S + 2
               PROVE  /\ DOMAIN t.tables[q] = DOMAIN s.tables[q] \union (IF q = S + 2 THEN {h} ELSE {})
                      /\ \A k \in DOMAIN s.tables[q] : t.tables[q][k] = s.tables[q][k]
    OBVIOUS
  <2>1. t.tables[q] = IF q = S + 2 THEN Extended(s.tables[q], h, cap) ELSE s.tables[q]
    BY <1>13, <1>14
  <2>2. CASE q = S + 2
    <3>1. PICK table : table = s.tables[q] /\ h \notin DOMAIN table
      BY <1>10, <2>2
    <3>2. t.tables[q] = [k \in DOMAIN table \union {h} |-> IF k = h THEN cap ELSE table[k]]
      BY <2>1, <2>2, <3>1 DEF Extended
    <3> QED BY <2>2, <3>1, <3>2
  <2>3. CASE q # S + 2
    BY <2>1, <2>3
  <2> QED BY <2>2, <2>3
<1>16. t.tables[S + 2][h] = cap
  <2>1. S + 2 \in 0 .. S + 2
    OBVIOUS
  <2> QED BY <1>13, <1>14, <2>1 DEF Extended
<1>17. SystemOK(t)
  BY <1>2, <1>13 DEF SystemOK
<1>18. TableDomainsOK(t, free2)
  <2>1. SetOf(free2) = SetOf(free) \union {h}
    <3>1. SetOf(free2) = {free2[k] : k \in 1 .. l + 1} /\ SetOf(free) = {free[k] : k \in 1 .. l}
      BY <1>5, <1>12 DEF SetOf
    <3>2. \A k \in 1 .. l : k \in 1 .. l + 1
      OBVIOUS
    <3>3. l + 1 \in 1 .. l + 1 /\ \A k \in 1 .. l + 1 : k \in 1 .. l \/ k = l + 1
      OBVIOUS
    <3> QED BY <1>12, <3>1, <3>2, <3>3
  <2>2. DOMAIN t.tables[Supervisor] = 0 .. Return(config)
    <3>1. 0 \in 0 .. S + 2 /\ 0 # S + 2
      OBVIOUS
    <3> QED BY <1>1, <1>2, <1>15, <3>1 DEF TableDomainsOK
  <2>3. ASSUME NEW q \in 1 .. Producer(config)
        PROVE  DOMAIN t.tables[q] = {0, 1} \union (IF q = Producer(config) THEN SetOf(free2) ELSE {})
    <3>1. q \in 0 .. S + 2
      BY <1>1
    <3>2. DOMAIN s.tables[q] = {0, 1} \union (IF q = Producer(config) THEN SetOf(free) ELSE {})
      BY <1>2 DEF TableDomainsOK
    <3> QED BY <1>1, <1>15, <2>1, <3>1, <3>2
  <2> QED BY <2>2, <2>3 DEF TableDomainsOK
<1>19. ViewsOK(t)
  <2> SUFFICES ASSUME NEW q \in 1 .. Producer(config)
               PROVE  /\ {stages[q].input, stages[q].output} = {0, 1}
                      /\ cap_of(t, q, stages[q].input) = ReadView(InputOf(config, q))
                      /\ cap_of(t, q, stages[q].output) = WriteView(OutputOf(config, q))
    BY DEF ViewsOK
  <2>1. stages[q].input \in DOMAIN s.tables[q] /\ stages[q].output \in DOMAIN s.tables[q]
    BY <1>2 DEF TableDomainsOK, ViewsOK
  <2>2. q \in 0 .. S + 2
    BY <1>1
  <2>3. \A k \in DOMAIN s.tables[q] : cap_of(t, q, k) = cap_of(s, q, k)
    BY <1>15, <2>2 DEF cap_of
  <2> QED BY <1>2, <2>1, <2>3 DEF ViewsOK
<1>20. QueuesOK(t)
  <2> SUFFICES ASSUME NEW o \in 0 .. Return(config)
               PROVE  \/ t.queues[o] = <<>>
                      \/ \E x \in Nat : t.queues[o] = <<MessageOf(config, t.epochs, x)>>
    BY DEF QueuesOK
  <2>1. \/ s.queues[o] = <<>>
        \/ \E x \in Nat : s.queues[o] = <<MessageOf(config, s.epochs, x)>>
    BY <1>2 DEF QueuesOK
  <2>2. o \in DOMAIN s.queues
    BY <1>1, <1>14
  <2>3. t.queues[o] = <<>> \/ t.queues[o] = s.queues[o]
    BY <1>13, <2>2
  <2>4. t.epochs = s.epochs
    BY <1>13
  <2> QED BY <2>1, <2>3, <2>4
<1>21. \A k \in 1 .. l :
         /\ free[k] < s.next_handle[S + 2] /\ free[k] \in Nat /\ free[k] \in DOMAIN s.tables[S + 2]
         /\ s.tables[S + 2][free[k]] = RegionCap(config, s.epochs, n + (k - 1))
         /\ t.tables[S + 2][free2[k]] = s.tables[S + 2][free[k]]
  <2> SUFFICES ASSUME NEW k \in 1 .. l
      PROVE  /\ free[k] < s.next_handle[S + 2] /\ free[k] \in Nat /\ free[k] \in DOMAIN s.tables[S + 2]
             /\ s.tables[S + 2][free[k]] = RegionCap(config, s.epochs, n + (k - 1))
             /\ t.tables[S + 2][free2[k]] = s.tables[S + 2][free[k]]
    OBVIOUS
  <2>1. free[k] < s.next_handle[S + 2] /\ free[k] \in Nat
        /\ s.tables[S + 2][free[k]] = RegionCap(config, s.epochs, n + (k - 1))
    <3>1. k \in DOMAIN free
      BY <1>5
    <3> QED BY <1>1, <1>2, <3>1 DEF FreeOK
  <2>2. free[k] \in DOMAIN s.tables[S + 2]
    <3>1. S + 2 \in 1 .. Producer(config)
      BY <1>1
    <3> QED BY <1>1, <1>2, <1>5, <3>1 DEF TableDomainsOK, SetOf
  <2>3. S + 2 \in 0 .. S + 2
    OBVIOUS
  <2> QED BY SMTT(20), <1>12, <1>15, <2>1, <2>2, <2>3
<1>22. FreeOK(t, free2, n)
  <2>1. t.next_handle[Producer(config)] = h + 1
    BY <1>1, <1>13, <1>14
  <2>2. ASSUME NEW k \in 1 .. l + 1
        PROVE  /\ free2[k] < t.next_handle[Producer(config)]
               /\ t.tables[Producer(config)][free2[k]] = RegionCap(config, t.epochs, n + (k - 1))
    <3>1. CASE k \in 1 .. l
      <4>1. free2[k] = free[k] /\ free[k] < h /\ free[k] \in Nat
        BY <1>12, <1>21, <1>28, <3>1
      <4>2. free2[k] < h + 1
        BY <1>10, <4>1
      <4> QED BY <1>1, <1>13, <1>21, <2>1, <3>1, <4>2
    <3>2. CASE k = l + 1
      <4>1. RegionCap(config, s.epochs, n + l) = cap
        BY <1>3, <1>8 DEF RegionCap
      <4>2. n + (k - 1) = n + l
        BY <3>2
      <4>3. free2[k] = h /\ h < h + 1
        BY <1>10, <1>12, <3>2
      <4>4. t.tables[Producer(config)][free2[k]] = cap
        BY <1>1, <1>16, <4>3
      <4>5. RegionCap(config, t.epochs, n + (k - 1)) = cap
        BY <1>13, <4>1, <4>2
      <4> QED BY <2>1, <4>3, <4>4, <4>5
    <3> QED BY <3>1, <3>2
  <2> QED BY <1>12, <2>2 DEF FreeOK
<1>23. Returning(t) = 0
  <2>1. S + 1 \in DOMAIN s.queues
    BY <1>14
  <2>2. t.queues[S + 1] = <<>>
    BY <1>13, <2>1
  <2> QED BY <1>1, <2>2 DEF Returning
<1>24. HandlesOK(t, n, d)
  <2>1. ASSUME NEW q \in 1 .. S + 1
        PROVE  /\ t.next_handle[q] \in 2 .. 2 + n
               /\ \A c \in 0 .. InputOf(config, q) :
                    t.queues[c] # <<>> => t.next_handle[q] <= 2 + Carried(t, c)
    <3>1. /\ s.next_handle[q] \in 2 .. 2 + n
          /\ \A c \in 0 .. InputOf(config, q) : s.queues[c] # <<>> => s.next_handle[q] <= 2 + Carried(s, c)
      BY <1>1, <1>2 DEF HandlesOK
    <3>2. t.next_handle[q] = s.next_handle[q]
      <4>1. q \in DOMAIN s.next_handle /\ q # S + 2
        BY <1>14
      <4> QED BY <1>13, <4>1
    <3>3. \A c \in 0 .. InputOf(config, q) : c \in 0 .. S + 1 /\ c # S + 1
      BY <1>0
    <3> QED BY <1>13, <1>14, <3>1, <3>2, <3>3 DEF Carried
  <2>2. t.next_handle[S + 2] \in 2 .. 2 + P + d - 0
    <3>1. h \in 2 .. 2 + P + d - 1
      BY <1>1, <1>2, <1>28 DEF HandlesOK, Sizes
    <3>2. t.next_handle[S + 2] = h + 1
      BY <1>13, <1>14
    <3> QED BY <3>1, <3>2
  <2> QED BY <1>1, <1>23, <2>1, <2>2 DEF HandlesOK, Sizes
<1>25. HeldOK(t, free2)
  <2>1. ASSUME NEW e \in t.held, NEW q, NEW c, q = e[1], c = e[2]
        PROVE  IF c.object \in Regions(config)
               THEN /\ c.epoch \in Nat /\ c.epoch <= t.epochs[c.object]
                    /\ c.epoch = t.epochs[c.object] =>
                         q = Producer(config) /\ \E k \in DOMAIN free2 :
                           c = t.tables[Producer(config)][free2[k]]
               ELSE q # Supervisor =>
                      /\ q \in 1 .. Producer(config)
                      /\ c \in {ReadView(InputOf(config, q)), WriteView(OutputOf(config, q))}
    <3>1. CASE e = <<S + 2, cap>>
      <4>1. q = Producer(config) /\ c = cap
        BY <1>1, <2>1, <3>1
      <4>2. c = t.tables[Producer(config)][free2[l + 1]] /\ l + 1 \in DOMAIN free2
        BY <1>1, <1>12, <1>16, <4>1
      <4>3. t.epochs[r] \in Nat
        BY <1>2, <1>13 DEF SystemOK
      <4> QED BY SMTT(20), <1>9, <1>13, <4>1, <4>2, <4>3
    <3>2. CASE e \in s.held
      <4>1. IF c.object \in Regions(config)
            THEN /\ c.epoch \in Nat /\ c.epoch <= s.epochs[c.object]
                 /\ c.epoch = s.epochs[c.object] =>
                      q = Producer(config) /\ \E k \in DOMAIN free :
                        c = s.tables[Producer(config)][free[k]]
            ELSE q # Supervisor =>
                   /\ q \in 1 .. Producer(config)
                   /\ c \in {ReadView(InputOf(config, q)), WriteView(OutputOf(config, q))}
        BY <1>2, <2>1, <3>2 DEF HeldOK
      <4>2. ASSUME NEW k \in DOMAIN free, c = s.tables[Producer(config)][free[k]]
            PROVE  \E j \in DOMAIN free2 : c = t.tables[Producer(config)][free2[j]]
        <5>1. k \in 1 .. l /\ k \in DOMAIN free2
          BY <1>5, <1>12, <4>2
        <5> QED BY <1>1, <1>21, <4>2, <5>1
      <4> QED BY <1>13, <4>1, <4>2
    <3> QED BY <1>13, <2>1, <3>1, <3>2
  <2>2. ASSUME NEW k \in DOMAIN free2
        PROVE  <<Producer(config), t.tables[Producer(config)][free2[k]]>> \in t.held
    <3>1. CASE k \in 1 .. l
      BY SMTT(20), <1>1, <1>2, <1>5, <1>13, <1>21, <3>1 DEF HeldOK
    <3>2. CASE k = l + 1
      BY <1>1, <1>12, <1>13, <1>16, <3>2
    <3> QED BY <1>12, <3>1, <3>2
  <2>3. \A e \in t.held : e = <<e[1], e[2]>>
    <3>1. \A e \in s.held : e = <<e[1], e[2]>>
      BY <1>2 DEF HeldOK
    <3>2. \A e : e = <<S + 2, cap>> => e = <<e[1], e[2]>>
      OBVIOUS
    <3> QED BY <1>13, <3>1, <3>2
  <2> QED BY <2>1, <2>2, <2>3 DEF HeldOK
<1>26. CoveredOK(t, free2)
  <2> SUFFICES ASSUME NEW x \in Regions(config)
               PROVE  \/ \E k \in DOMAIN free2 : t.tables[Producer(config)][free2[k]].object = x
                      \/ \E c \in 0 .. Return(config) :
                           t.queues[c] # <<>> /\ RegionOf(config, Carried(t, c)) = x
    BY DEF CoveredOK
  <2>1. ASSUME NEW k \in DOMAIN free, s.tables[Producer(config)][free[k]].object = x
        PROVE  \E j \in DOMAIN free2 : t.tables[Producer(config)][free2[j]].object = x
    <3>1. k \in 1 .. l /\ k \in DOMAIN free2
      BY <1>5, <1>12, <2>1
    <3> QED BY <1>1, <1>21, <2>1, <3>1
  <2>2. ASSUME NEW c \in 0 .. Return(config), s.queues[c] # <<>>, RegionOf(config, Carried(s, c)) = x
        PROVE  \/ \E k \in DOMAIN free2 : t.tables[Producer(config)][free2[k]].object = x
               \/ t.queues[c] # <<>> /\ RegionOf(config, Carried(t, c)) = x
    <3>1. CASE c = S + 1
      <4>1. x = r
        BY <1>9, <1>28, <2>2, <3>1
      <4>2. l + 1 \in DOMAIN free2 /\ t.tables[Producer(config)][free2[l + 1]].object = r
        BY <1>1, <1>9, <1>12, <1>16
      <4> QED BY <4>1, <4>2
    <3>2. CASE c # S + 1
      BY <1>1, <1>13, <1>14, <2>2, <3>2 DEF Carried
    <3> QED BY <3>1, <3>2
  <2> QED BY <1>2, <2>1, <2>2 DEF CoveredOK
<1>27. BatchesOK(t, free2, n, d)
  <2>1. Len(free2) + 0 + (n - d) = config.pool /\ d <= n /\ n <= config.batches
    BY <1>7, <1>12 DEF Sizes, BatchesOK
  <2>2. \A c \in 0 .. S : t.queues[c] = s.queues[c] /\ Carried(t, c) = Carried(s, c)
    BY <1>13, <1>14 DEF Carried
  <2>3. \A i \in 0 .. S : t.queues[i] # <<>> =>
          /\ Carried(t, i) \in d .. n - 1
          /\ \A j \in 0 .. i - 1 : t.queues[j] # <<>> => Carried(t, i) < Carried(t, j)
    <3>1. \A i \in 0 .. S : s.queues[i] # <<>> =>
            /\ Carried(s, i) \in d .. n - 1
            /\ \A j \in 0 .. i - 1 : s.queues[j] # <<>> => Carried(s, i) < Carried(s, j)
      BY <1>1 DEF BatchesOK
    <3>2. \A i \in 0 .. S : \A j \in 0 .. i - 1 : j \in 0 .. S
      OBVIOUS
    <3> QED BY <2>2, <3>1, <3>2
  <2>4. t.queues[Return(config)] = <<>>
    <3>1. S + 1 \in DOMAIN s.queues
      BY <1>14
    <3>2. t.queues[S + 1] = <<>>
      BY <1>13, <3>1
    <3> QED BY <1>1, <3>2
  <2> QED BY <1>1, <1>23, <2>1, <2>3, <2>4 DEF BatchesOK
<1>29. /\ t.queues[S + 1] = <<>> /\ t.regions = s.regions
       /\ \A c \in 0 .. S : t.queues[c] = s.queues[c]
  <2>1. S + 1 \in DOMAIN s.queues /\ \A c \in 0 .. S : c \in DOMAIN s.queues /\ c # S + 1
    BY <1>14
  <2> QED BY <1>13, <2>1
<1>30. Own(t, free2, n, d)
  BY <1>17, <1>18, <1>19, <1>20, <1>22, <1>24, <1>25, <1>26 DEF Own
<1> QED BY <1>11, <1>27, <1>29, <1>30 DEF Drains

\* In t, the producer has sent batch n in its first free region.
Sending(s, t, free, n) ==
  LET p == Producer(config)  r == RegionOf(config, n) IN
  /\ s.queues[0] = <<>>
  /\ DOMAIN t = Fields /\ t.failed = FALSE /\ t.held = s.held
  /\ t.next_handle = s.next_handle
  /\ t.epochs = Raised(s.epochs, r)
  /\ DOMAIN t.tables = DOMAIN s.tables
  /\ \A q \in DOMAIN s.tables :
       /\ DOMAIN t.tables[q] = DOMAIN s.tables[q] \ (IF q = p THEN {Head(free)} ELSE {})
       /\ \A k \in DOMAIN t.tables[q] : t.tables[q][k] = s.tables[q][k]
  /\ DOMAIN t.queues = DOMAIN s.queues
  /\ \A c \in DOMAIN s.queues :
       t.queues[c] = IF c = 0 THEN <<MessageOf(config, t.epochs, n)>> ELSE s.queues[c]
  /\ DOMAIN t.regions = DOMAIN s.regions
  /\ \A x \in DOMAIN s.regions :
       t.regions[x] = IF x = r THEN fill_batch(n, s.regions[r]) ELSE s.regions[x]

LEMMA SendKeeps ==
  ASSUME config \in Configs, NEW S \in Nat, NEW P \in Nat, Sizes(S, P),
         NEW s, NEW free, NEW n \in Nat, NEW d \in Nat,
         Own(s, free, n, d), BatchesOK(s, free, n, d), Returning(s) = 0,
         free # <<>>, NEW t, Sending(s, t, free, n)
  PROVE  Own(t, Tail(free), n + 1, d)
<1>1. /\ Return(config) = S + 1 /\ Producer(config) = S + 2 /\ Supervisor = 0
      /\ Regions(config) = S + 2 .. S + 1 + P
  BY DEF Sizes
<1>0. \A q \in 1 .. S + 1 : InputOf(config, q) = S + 1 - q
  BY DEF Sizes, InputOf
<1>2. /\ SystemOK(s) /\ ViewsOK(s) /\ TableDomainsOK(s, free) /\ QueuesOK(s)
      /\ FreeOK(s, free, n) /\ HandlesOK(s, n, d) /\ HeldOK(s, free) /\ CoveredOK(s, free)
  BY DEF Own
<1>3. ApartOK(s, free, n)
  BY <1>2, RegionsApart DEF FreeOK
<1>25. /\ Tail(free) \in Seq(Nat \ {0, 1}) /\ Head(free) = free[1] /\ free[1] \in Nat \ {0, 1}
       /\ Len(free) \in Nat \ {0} /\ Len(Tail(free)) = Len(free) - 1
       /\ DOMAIN free = 1 .. Len(free) /\ DOMAIN Tail(free) = 1 .. Len(free) - 1
       /\ \A k \in 1 .. Len(free) - 1 : Tail(free)[k] = free[k + 1]
  <2>1. free \in Seq(Nat \ {0, 1})
    BY SMTT(20), <1>2 DEF FreeOK
  <2> QED BY <2>1, TailIs
<1>26. PICK l \in Nat \ {0} : l = Len(free)
  BY <1>25
<1>27. PICK rest : rest = Tail(free)
  OBVIOUS
<1>28. PICK h : h = free[1]
  OBVIOUS
<1>4. /\ rest = Tail(free) /\ h = free[1] /\ h = Head(free) /\ h \in Nat \ {0, 1}
      /\ l = Len(free) /\ DOMAIN free = 1 .. l /\ DOMAIN rest = 1 .. l - 1
      /\ rest \in Seq(Nat \ {0, 1}) /\ Len(rest) = l - 1
      /\ \A k \in 1 .. l - 1 : rest[k] = free[k + 1]
  BY <1>25, <1>26, <1>27, <1>28
<1>5. PICK r \in Regions(config) : r = RegionOf(config, n)
  <2>1. 1 \in DOMAIN free /\ n + (1 - 1) = n
    BY <1>4
  <2>2. RegionOf(config, n + (1 - 1)) \in Regions(config)
    BY <1>3, <2>1 DEF ApartOK
  <2> QED BY <2>1, <2>2
<1>6. \A c \in 0 .. S + 1 : s.queues[c] # <<>> =>
        RegionOf(config, Carried(s, c)) \in Regions(config) /\ RegionOf(config, Carried(s, c)) # r
  <2>1. 1 \in DOMAIN free /\ n + (1 - 1) = n
    BY <1>4
  <2>2. \A c \in 0 .. Return(config) : s.queues[c] # <<>> =>
          /\ RegionOf(config, Carried(s, c)) \in Regions(config)
          /\ RegionOf(config, Carried(s, c)) # RegionOf(config, n + (1 - 1))
    BY <1>3, <2>1 DEF ApartOK
  <2> QED BY <1>1, <1>5, <2>1, <2>2
<1>7. \A k \in 1 .. l : /\ RegionOf(config, n + (k - 1)) \in Regions(config)
                        /\ k # 1 => RegionOf(config, n + (k - 1)) # r
  <2>1. 1 \in DOMAIN free /\ n + (1 - 1) = n
    BY <1>4
  <2>2. \A k \in DOMAIN free :
          /\ RegionOf(config, n + (k - 1)) \in Regions(config)
          /\ k # 1 => RegionOf(config, n + (k - 1)) # RegionOf(config, n + (1 - 1))
    BY <1>3, <2>1 DEF ApartOK
  <2> QED BY <1>4, <1>5, <2>1, <2>2
<1>8. t.epochs = Raised(s.epochs, r)
  BY <1>5 DEF Sending
<1>9. ASSUME NEW x, RegionOf(config, x) \in Regions(config), RegionOf(config, x) # r
      PROVE  /\ RegionCap(config, t.epochs, x) = RegionCap(config, s.epochs, x)
             /\ MessageOf(config, t.epochs, x) = MessageOf(config, s.epochs, x)
  <2>1. RegionOf(config, x) \in DOMAIN s.epochs /\ s.epochs[RegionOf(config, x)] \in Int
    <3>1. \A y \in Regions(config) : y \in 0 .. Return(config) + config.pool
      BY <1>1 DEF Sizes
    <3> QED BY <1>2, <1>9, <3>1 DEF SystemOK
  <2> QED BY <1>8, <1>9, <2>1, OtherRegion
<1>10. /\ DOMAIN s.queues = 0 .. S + 1 /\ DOMAIN s.next_handle = 0 .. S + 2 /\ DOMAIN s.tables = 0 .. S + 2
  BY <1>1, <1>2 DEF SystemOK
<1>11. /\ t.held = s.held /\ t.next_handle = s.next_handle
       /\ \A c \in 0 .. S + 1 :
            t.queues[c] = IF c = 0 THEN <<MessageOf(config, t.epochs, n)>> ELSE s.queues[c]
       /\ \A q \in 0 .. S + 2 :
            /\ DOMAIN t.tables[q] = DOMAIN s.tables[q] \ (IF q = S + 2 THEN {h} ELSE {})
            /\ \A k \in DOMAIN t.tables[q] : t.tables[q][k] = s.tables[q][k]
  <2>1. t.held = s.held /\ t.next_handle = s.next_handle
    BY DEF Sending
  <2>2. \A c \in 0 .. S + 1 :
            t.queues[c] = IF c = 0 THEN <<MessageOf(config, t.epochs, n)>> ELSE s.queues[c]
    BY <1>10 DEF Sending
  <2>3. \A q \in 0 .. S + 2 :
            /\ DOMAIN t.tables[q] = DOMAIN s.tables[q] \ (IF q = S + 2 THEN {h} ELSE {})
            /\ \A k \in DOMAIN t.tables[q] : t.tables[q][k] = s.tables[q][k]
    <3>1. h = Head(free)
      BY <1>4
    <3> QED BY <1>1, <1>10, <3>1 DEF Sending
  <2> QED BY <2>1, <2>2, <2>3
<1>12. SystemOK(t)
  <2>1. /\ DOMAIN t.epochs = 0 .. Return(config) + config.pool
        /\ \A x \in 0 .. Return(config) : t.epochs[x] = 0
        /\ \A x \in Regions(config) : t.epochs[x] \in Nat
    BY <1>2, <1>8, RaisedEpochs
  <2> QED BY <1>2, <2>1 DEF SystemOK, Sending
<1>13. \A k \in 1 .. l :
         /\ free[k] < s.next_handle[S + 2] /\ free[k] \in DOMAIN s.tables[S + 2]
         /\ s.tables[S + 2][free[k]] = RegionCap(config, s.epochs, n + (k - 1))
         /\ s.tables[S + 2][free[k]].object = RegionOf(config, n + (k - 1))
  <2> SUFFICES ASSUME NEW k \in 1 .. l
      PROVE  /\ free[k] < s.next_handle[S + 2] /\ free[k] \in DOMAIN s.tables[S + 2]
             /\ s.tables[S + 2][free[k]] = RegionCap(config, s.epochs, n + (k - 1))
             /\ s.tables[S + 2][free[k]].object = RegionOf(config, n + (k - 1))
    OBVIOUS
  <2>1. free[k] < s.next_handle[S + 2]
        /\ s.tables[S + 2][free[k]] = RegionCap(config, s.epochs, n + (k - 1))
    <3>1. k \in DOMAIN free
      BY <1>4
    <3> QED BY <1>1, <1>2, <3>1 DEF FreeOK
  <2>2. free[k] \in DOMAIN s.tables[S + 2]
    <3>1. S + 2 \in 1 .. Producer(config) /\ k \in DOMAIN free
      BY <1>1, <1>4
    <3> QED BY <1>1, <1>2, <3>1 DEF TableDomainsOK, SetOf
  <2> QED BY <2>1, <2>2 DEF RegionCap
<1>14. \A k \in 1 .. l - 1 :
         /\ k + 1 \in 1 .. l /\ rest[k] = free[k + 1] /\ rest[k] # h
         /\ rest[k] \in DOMAIN t.tables[S + 2]
         /\ t.tables[S + 2][rest[k]] = s.tables[S + 2][free[k + 1]]
         /\ s.tables[S + 2][free[k + 1]] = RegionCap(config, t.epochs, n + 1 + (k - 1))
         /\ s.tables[S + 2][free[k + 1]].object # r
  <2> SUFFICES ASSUME NEW k \in 1 .. l - 1
      PROVE  /\ k + 1 \in 1 .. l /\ rest[k] = free[k + 1] /\ rest[k] # h
             /\ rest[k] \in DOMAIN t.tables[S + 2]
             /\ t.tables[S + 2][rest[k]] = s.tables[S + 2][free[k + 1]]
             /\ s.tables[S + 2][free[k + 1]] = RegionCap(config, t.epochs, n + 1 + (k - 1))
             /\ s.tables[S + 2][free[k + 1]].object # r
    OBVIOUS
  <2>1. PICK j \in 1 .. l : j = k + 1 /\ j # 1 /\ n + (j - 1) = n + 1 + (k - 1)
    BY <1>4
  <2>2. 1 \in 1 .. l /\ n + (1 - 1) = n /\ S + 2 \in 0 .. S + 2
    BY <1>4
  <2>3. s.tables[S + 2][free[j]].object # r
    BY <1>7, <1>13, <2>1
  <2>4. s.tables[S + 2][h].object = r
    BY <1>4, <1>5, <1>13, <2>2
  <2>5. rest[k] = free[j] /\ rest[k] # h
    BY <1>4, <2>1, <2>3, <2>4
  <2>6. rest[k] \in DOMAIN t.tables[S + 2] /\ t.tables[S + 2][rest[k]] = s.tables[S + 2][free[j]]
    BY <1>11, <1>13, <2>1, <2>2, <2>5
  <2>7. s.tables[S + 2][free[j]] = RegionCap(config, t.epochs, n + (j - 1))
    BY <1>7, <1>9, <1>13, <2>1
  <2> QED BY <2>1, <2>3, <2>5, <2>6, <2>7
<1>15. FreeOK(t, rest, n + 1)
  <2>1. t.next_handle[S + 2] = s.next_handle[S + 2]
    BY <1>11
  <2>2. \A k \in 1 .. l - 1 : rest[k] < s.next_handle[S + 2]
    BY <1>13, <1>14
  <2>3. rest \in Seq(Nat \ {0, 1}) /\ DOMAIN rest = 1 .. l - 1
    BY <1>4
  <2>4. ASSUME NEW k \in 1 .. l - 1
        PROVE  /\ rest[k] < t.next_handle[S + 2]
               /\ t.tables[S + 2][rest[k]] = RegionCap(config, t.epochs, n + 1 + (k - 1))
    BY <1>14, <2>1, <2>2
  <2> QED BY <1>1, <2>3, <2>4 DEF FreeOK
<1>16. TableDomainsOK(t, rest)
  <2>1. SetOf(rest) = SetOf(free) \ {h}
    <3>1. SetOf(rest) = {rest[k] : k \in 1 .. l - 1} /\ SetOf(free) = {free[k] : k \in 1 .. l}
      BY <1>4 DEF SetOf
    <3>2. \A k \in 1 .. l - 1 : rest[k] = free[k + 1] /\ k + 1 \in 1 .. l /\ rest[k] # h
      BY <1>14
    <3>3. \A k \in 1 .. l : k = 1 \/ (k - 1 \in 1 .. l - 1 /\ (k - 1) + 1 = k)
      BY <1>4
    <3>4. ASSUME NEW k \in 1 .. l, free[k] # h PROVE free[k] \in SetOf(rest)
      <4>1. PICK j \in 1 .. l - 1 : j + 1 = k
        BY <1>4, <3>3, <3>4
      <4> QED BY <3>1, <3>2, <4>1
    <3>5. ASSUME NEW x \in SetOf(rest) PROVE x \in SetOf(free) /\ x # h
      BY <3>1, <3>2
    <3>6. ASSUME NEW x \in SetOf(free), x # h PROVE x \in SetOf(rest)
      BY <3>1, <3>4, <3>6
    <3> QED BY <3>5, <3>6
  <2>2. DOMAIN t.tables[Supervisor] = 0 .. Return(config)
    <3>1. 0 \in 0 .. S + 2 /\ 0 # S + 2
      OBVIOUS
    <3> QED BY <1>1, <1>2, <1>11, <3>1 DEF TableDomainsOK
  <2>3. ASSUME NEW q \in 1 .. Producer(config)
        PROVE  DOMAIN t.tables[q] = {0, 1} \union (IF q = Producer(config) THEN SetOf(rest) ELSE {})
    <3>1. q \in 0 .. S + 2
      BY <1>1
    <3>2. DOMAIN s.tables[q] = {0, 1} \union (IF q = Producer(config) THEN SetOf(free) ELSE {})
      BY <1>2 DEF TableDomainsOK
    <3>3. h \notin {0, 1}
      BY <1>4
    <3> QED BY SMTT(20), <1>1, <1>11, <2>1, <3>1, <3>2, <3>3
  <2> QED BY <2>2, <2>3 DEF TableDomainsOK
<1>17. ViewsOK(t)
  <2> SUFFICES ASSUME NEW q \in 1 .. Producer(config)
               PROVE  /\ {stages[q].input, stages[q].output} = {0, 1}
                      /\ cap_of(t, q, stages[q].input) = ReadView(InputOf(config, q))
                      /\ cap_of(t, q, stages[q].output) = WriteView(OutputOf(config, q))
    BY DEF ViewsOK
  <2>1. stages[q].input \in DOMAIN t.tables[q] /\ stages[q].output \in DOMAIN t.tables[q]
    <3>1. {stages[q].input, stages[q].output} = {0, 1}
      BY <1>2 DEF ViewsOK
    <3>2. 0 \in DOMAIN t.tables[q] /\ 1 \in DOMAIN t.tables[q]
      BY <1>16 DEF TableDomainsOK
    <3> QED BY <3>1, <3>2
  <2>2. q \in 0 .. S + 2
    BY <1>1
  <2>3. \A k \in DOMAIN t.tables[q] : cap_of(t, q, k) = cap_of(s, q, k)
    BY <1>11, <2>2 DEF cap_of
  <2> QED BY <1>2, <2>1, <2>3 DEF ViewsOK
<1>18. QueuesOK(t)
  <2> SUFFICES ASSUME NEW c \in 0 .. S + 1, c # 0, s.queues[c] # <<>>
               PROVE  \E x \in Nat : s.queues[c] = <<MessageOf(config, t.epochs, x)>>
    <3>1. t.queues[0] = <<MessageOf(config, t.epochs, n)>>
      <4>1. 0 \in 0 .. S + 1
        OBVIOUS
      <4> QED BY <1>11, <4>1
    <3>2. \A c \in 0 .. S + 1 : c # 0 => t.queues[c] = s.queues[c]
      BY <1>11
    <3> QED BY <1>1, <3>1, <3>2 DEF QueuesOK
  <2>1. PICK x \in Nat : x = Carried(s, c) /\ s.queues[c] = <<MessageOf(config, s.epochs, x)>>
    BY <1>1, <1>2, OneMessage
  <2>2. MessageOf(config, t.epochs, x) = MessageOf(config, s.epochs, x)
    BY <1>6, <1>9, <2>1
  <2> QED BY <2>1, <2>2
<1>19. /\ t.queues[0] # <<>> /\ Carried(t, 0) = n
       /\ \A c \in 0 .. S + 1 : c # 0 => t.queues[c] = s.queues[c] /\ Carried(t, c) = Carried(s, c)
  <2>1. PICK m : m = MessageOf(config, t.epochs, n)
    OBVIOUS
  <2>2. m.data = n
    BY <2>1 DEF MessageOf
  <2>3. 0 \in 0 .. S + 1
    OBVIOUS
  <2>4. t.queues[0] = <<m>>
    BY <1>11, <2>1, <2>3
  <2>5. t.queues[0] # <<>> /\ Head(t.queues[0]) = m
    BY <2>4
  <2> QED BY <1>11, <2>2, <2>5 DEF Carried
<1>20. HandlesOK(t, n + 1, d)
  <2>1. ASSUME NEW q \in 1 .. S + 1
        PROVE  /\ t.next_handle[q] \in 2 .. 2 + (n + 1)
               /\ \A c \in 0 .. InputOf(config, q) :
                    t.queues[c] # <<>> => t.next_handle[q] <= 2 + Carried(t, c)
    <3>1. /\ s.next_handle[q] \in 2 .. 2 + n
          /\ \A c \in 0 .. S + 1 - q : s.queues[c] # <<>> => s.next_handle[q] <= 2 + Carried(s, c)
      BY <1>0, <1>1, <1>2 DEF HandlesOK
    <3>2. PICK x \in 2 .. 2 + n : x = s.next_handle[q] /\ x = t.next_handle[q]
      BY <1>11, <3>1
    <3>3. \A c \in 0 .. S + 1 - q : c = 0 \/ (c \in 0 .. S + 1 /\ c # 0)
      OBVIOUS
    <3>4. \A c \in 0 .. S + 1 - q : t.queues[c] # <<>> => x <= 2 + Carried(t, c)
      BY <1>19, <3>1, <3>2, <3>3
    <3>5. x \in 2 .. 2 + (n + 1)
      OBVIOUS
    <3> QED BY <1>0, <3>2, <3>4, <3>5
  <2>2. t.next_handle[S + 2] \in 2 .. 2 + config.pool + d - 0
    BY <1>1, <1>2, <1>11 DEF HandlesOK
  <2>3. Returning(t) = 0
    <3>1. S + 1 \in 0 .. S + 1 /\ S + 1 # 0
      OBVIOUS
    <3> QED BY <1>1, <1>19, <3>1 DEF Returning
  <2> QED BY <1>1, <2>1, <2>2, <2>3 DEF HandlesOK
<1>21. \A x \in Regions(config) : t.epochs[x] = s.epochs[x] + (IF x = r THEN 1 ELSE 0) /\ s.epochs[x] \in Nat
  <2>1. \A x \in Regions(config) : s.epochs[x] \in Nat
    BY <1>2 DEF SystemOK
  <2>2. \A x \in Regions(config) : t.epochs[x] = s.epochs[x] + (IF x = r THEN 1 ELSE 0)
    BY <1>2, <1>8, RaisedEpochs
  <2> QED BY <2>1, <2>2
\* What was under a later handle still is.
<1>22. ASSUME NEW k \in DOMAIN free, NEW cap, cap = s.tables[Producer(config)][free[k]], cap.object # r
       PROVE  \E j \in DOMAIN rest : cap = t.tables[Producer(config)][rest[j]]
  <2>1. k # 1 /\ k \in 1 .. l
    <3>1. 1 \in 1 .. l /\ n + (1 - 1) = n
      BY <1>4
    <3>2. s.tables[S + 2][free[1]].object = r
      BY <1>5, <1>13, <3>1
    <3> QED BY <1>1, <1>4, <1>22, <3>2
  <2>2. PICK j \in 1 .. l - 1 : j + 1 = k
    <3>1. k - 1 \in 1 .. l - 1 /\ (k - 1) + 1 = k
      BY <2>1
    <3> QED BY <3>1
  <2>3. j \in DOMAIN rest
    BY <1>4
  <2>4. t.tables[S + 2][rest[j]] = s.tables[S + 2][free[k]]
    BY <1>14, <2>2
  <2> QED BY <1>1, <1>22, <2>3, <2>4
<1>23. HeldOK(t, rest)
  <2>1. ASSUME NEW e \in t.held, NEW q, NEW c, q = e[1], c = e[2]
        PROVE  IF c.object \in Regions(config)
               THEN /\ c.epoch \in Nat /\ c.epoch <= t.epochs[c.object]
                    /\ c.epoch = t.epochs[c.object] =>
                         q = Producer(config) /\ \E k \in DOMAIN rest :
                           c = t.tables[Producer(config)][rest[k]]
               ELSE q # Supervisor =>
                      /\ q \in 1 .. Producer(config)
                      /\ c \in {ReadView(InputOf(config, q)), WriteView(OutputOf(config, q))}
    <3>1. IF c.object \in Regions(config)
          THEN /\ c.epoch \in Nat /\ c.epoch <= s.epochs[c.object]
               /\ c.epoch = s.epochs[c.object] =>
                    q = Producer(config) /\ \E k \in DOMAIN free :
                      c = s.tables[Producer(config)][free[k]]
          ELSE q # Supervisor =>
                 /\ q \in 1 .. Producer(config)
                 /\ c \in {ReadView(InputOf(config, q)), WriteView(OutputOf(config, q))}
      BY <1>2, <1>11, <2>1 DEF HeldOK
    <3>2. CASE c.object = r
      BY <1>21, <3>1, <3>2
    <3>3. CASE c.object \in Regions(config) /\ c.object # r
      <4>1. t.epochs[c.object] = s.epochs[c.object]
        BY <1>21, <3>3
      <4> QED BY <1>22, <3>1, <3>3, <4>1
    <3>4. CASE c.object \notin Regions(config)
      BY <3>1, <3>4
    <3> QED BY <3>2, <3>3, <3>4
  <2>2. ASSUME NEW k \in DOMAIN rest
        PROVE  <<Producer(config), t.tables[Producer(config)][rest[k]]>> \in t.held
    <3>1. k \in 1 .. l - 1
      BY <1>4
    <3>2. k + 1 \in DOMAIN free
      BY <1>4, <1>14, <3>1
    <3>3. <<S + 2, s.tables[S + 2][free[k + 1]]>> \in s.held
      BY <1>1, <1>2, <3>2 DEF HeldOK
    <3>4. t.tables[S + 2][rest[k]] = s.tables[S + 2][free[k + 1]]
      BY <1>14, <3>1
    <3> QED BY <1>1, <1>11, <3>3, <3>4
  <2>3. \A e \in t.held : e = <<e[1], e[2]>>
    BY <1>2, <1>11 DEF HeldOK
  <2> QED BY <2>1, <2>2, <2>3 DEF HeldOK
<1>24. CoveredOK(t, rest)
  <2> SUFFICES ASSUME NEW x \in Regions(config)
               PROVE  \/ \E k \in DOMAIN rest : t.tables[Producer(config)][rest[k]].object = x
                      \/ \E c \in 0 .. Return(config) :
                           t.queues[c] # <<>> /\ RegionOf(config, Carried(t, c)) = x
    BY DEF CoveredOK
  <2>1. CASE x = r
    <3>1. 0 \in 0 .. Return(config)
      BY <1>1
    <3> QED BY <1>5, <1>19, <2>1, <3>1
  <2>2. ASSUME x # r, NEW k \in DOMAIN free, s.tables[Producer(config)][free[k]].object = x
        PROVE  \E j \in DOMAIN rest : t.tables[Producer(config)][rest[j]].object = x
    BY <1>22, <2>2
  <2>3. ASSUME NEW c \in 0 .. Return(config), x # r, s.queues[c] # <<>>, RegionOf(config, Carried(s, c)) = x
        PROVE  \E q \in 0 .. Return(config) : t.queues[q] # <<>> /\ RegionOf(config, Carried(t, q)) = x
    <3>1. c # 0
      BY <2>3 DEF Sending
    <3> QED BY <1>1, <1>19, <2>3, <3>1
  <2> QED BY <1>2, <2>1, <2>2, <2>3 DEF CoveredOK
<1> QED BY <1>4, <1>12, <1>15, <1>16, <1>17, <1>18, <1>20, <1>23, <1>24 DEF Own

(***************************************************************************)
(* From one turn to the next.                                              *)
(***************************************************************************)

\* x modulo m, for an x below twice m.
Around(x, m) == IF x < m THEN x ELSE x - m

LEMMA ModIs ==
  ASSUME NEW m \in Nat \ {0}, NEW x \in 0 .. 2 * m - 1
  PROVE  x % m = Around(x, m)
<1>1. CASE x < m
  <2>1. BP!Splits(x, m, 0, x)
    BY <1>1 DEF BP!Splits
  <2> QED BY <1>1, <2>1, BP!Divided, PipelineAssumption DEF Around
<1>2. CASE ~(x < m)
  <2>1. BP!Splits(x, m, 1, x - m)
    BY <1>2 DEF BP!Splits
  <2> QED BY <1>2, <2>1, BP!Divided, PipelineAssumption DEF Around
<1> QED BY <1>1, <1>2

\* The queue with its first process moved to the back starts with the next process.
LEMMA Rotated ==
  ASSUME NEW m \in Nat \ {0}, NEW t \in 0 .. m - 1, NEW queue,
         queue = [k \in 1 .. m |-> (t + (k - 1)) % m]
  PROVE  LET after == Append(Tail(queue), t)
             next == (t + 1) % m
         IN  /\ Head(after) = next /\ next \in 0 .. m - 1
             /\ after = [k \in 1 .. m |-> (next + (k - 1)) % m]
<1> DEFINE next == (t + 1) % m
           after == Append(Tail(queue), t)
           rotated == [k \in 1 .. m |-> (next + (k - 1)) % m]
<1>0. \A x \in 0 .. 2 * m - 1 : x % m = Around(x, m)
  BY ModIs
<1>1. next = (IF t + 1 = m THEN 0 ELSE t + 1) /\ next \in 0 .. m - 1
  <2>1. t + 1 \in 0 .. 2 * m - 1
    OBVIOUS
  <2>2. (t + 1) % m = Around(t + 1, m)
    BY Zenon, <1>0, <2>1
  <2>3. next = Around(t + 1, m)
    BY Zenon, <2>2
  <2> HIDE DEF next
  <2> QED BY <2>3 DEF Around
<1>2. \A k \in 1 .. m : queue[k] = Around(t + (k - 1), m)
  <2> SUFFICES ASSUME NEW k \in 1 .. m
               PROVE  queue[k] = Around(t + (k - 1), m)
    OBVIOUS
  <2>1. t + (k - 1) \in 0 .. 2 * m - 1
    OBVIOUS
  <2>2. queue[k] = (t + (k - 1)) % m
    OBVIOUS
  <2>3. (t + (k - 1)) % m = Around(t + (k - 1), m)
    BY Zenon, <1>0, <2>1
  <2> QED BY Zenon, <2>2, <2>3
<1>3. \A k \in 1 .. m : rotated[k] = Around(next + (k - 1), m)
  <2> SUFFICES ASSUME NEW k \in 1 .. m
               PROVE  rotated[k] = Around(next + (k - 1), m)
    OBVIOUS
  <2>1. next + (k - 1) \in 0 .. 2 * m - 1
    BY <1>1
  <2>2. rotated[k] = (next + (k - 1)) % m
    OBVIOUS
  <2> HIDE DEF next, rotated
  <2>3. (next + (k - 1)) % m = Around(next + (k - 1), m)
    BY Zenon, <1>0, <2>1
  <2> QED BY Zenon, <2>2, <2>3
<1>4. queue \in Seq(Int) /\ Len(queue) = m
  <2>1. \A k \in 1 .. m : queue[k] \in Int
    BY <1>2
  <2>2. queue \in [1 .. m -> Int]
    BY <2>1
  <2> QED BY <2>2
<1>5. queue # <<>>
  BY <1>4
<1>6. /\ Tail(queue) \in Seq(Int) /\ Len(Tail(queue)) = m - 1
      /\ \A k \in 1 .. m - 1 : Tail(queue)[k] = queue[k + 1]
  BY <1>4, <1>5, TailIs
<1>7. /\ after \in Seq(Int) /\ Len(after) = m /\ DOMAIN after = 1 .. m
      /\ \A k \in 1 .. m - 1 : after[k] = queue[k + 1]
      /\ after[m] = t
  <2>1. t \in Int
    OBVIOUS
  <2>2. PICK rest \in Seq(Int) : rest = Tail(queue) /\ Len(rest) = m - 1
    BY <1>6
  <2>3. /\ Append(rest, t) \in Seq(Int) /\ Len(Append(rest, t)) = Len(rest) + 1
        /\ DOMAIN Append(rest, t) = 1 .. Len(rest) + 1
        /\ \A k \in 1 .. Len(rest) : Append(rest, t)[k] = rest[k]
        /\ Append(rest, t)[Len(rest) + 1] = t
    BY <2>1, AppendIs
  <2>4. after = Append(rest, t)
    BY <2>2
  <2>5. \A k \in 1 .. m - 1 : rest[k] = queue[k + 1]
    BY <1>6, <2>2
  <2> HIDE DEF after
  <2>6. Len(rest) = m - 1 /\ m - 1 + 1 = m
    BY <2>2
  <2> QED BY <2>3, <2>4, <2>5, <2>6
<1> HIDE DEF after, next
<1>8. \A k \in 1 .. m : after[k] = rotated[k]
  <2> SUFFICES ASSUME NEW k \in 1 .. m PROVE after[k] = rotated[k]
    OBVIOUS
  <2>1. CASE k = m
    BY <1>1, <1>3, <1>7, <2>1 DEF Around
  <2>2. CASE k # m
    <3>1. k \in 1 .. m - 1 /\ k + 1 \in 1 .. m
      BY <2>2
    <3>2. after[k] = Around(t + k, m)
      <4>1. PICK j \in 1 .. m : j = k + 1 /\ j - 1 = k
        BY <3>1
      <4> QED BY <1>2, <1>7, <3>1, <4>1
    <3> QED BY <1>1, <1>3, <3>1, <3>2 DEF Around
  <2> QED BY <2>1, <2>2
<1>9. after = rotated
  BY <1>7, <1>8
<1>10. Head(after) = next
  <2>1. 1 \in 1 .. m /\ after # <<>> /\ Head(after) = after[1]
    BY <1>7
  <2>2. rotated[1] = next
    BY <1>1, <1>3, <2>1 DEF Around
  <2> QED BY <1>8, <2>1, <2>2
<1> QED BY <1>1, <1>9, <1>10 DEF after, next

\* Between turns nothing but variables is new.
LEMMA OwnNext ==
  ASSUME config' = config, stages' = stages,
         Own(sys', free_regions', next_batch', Len(results'))
  PROVE  Own(sys, free_regions, next_batch, Len(results))'
<1>1. SystemOK(sys)'
  BY DEF Own, SystemOK, Producer, Return, Regions
<1>2. ViewsOK(sys)'
  BY DEF Own, ViewsOK, Producer, Return, InputOf, OutputOf
<1>3. TableDomainsOK(sys, free_regions)'
  BY DEF Own, TableDomainsOK
<1>4. QueuesOK(sys)'
  BY DEF Own, QueuesOK
<1>5. FreeOK(sys, free_regions, next_batch)'
  BY DEF Own, FreeOK
<1>6. HandlesOK(sys, next_batch, Len(results))'
  BY DEF Own, HandlesOK, Carried, Returning
<1>7. HeldOK(sys, free_regions)'
  BY DEF Own, HeldOK
<1>8. CoveredOK(sys, free_regions)'
  BY DEF Own, CoveredOK
<1> QED BY <1>1, <1>2, <1>3, <1>4, <1>5, <1>6, <1>7, <1>8 DEF Own

(***************************************************************************)
(* What the baseline sees of it.                                           *)
(***************************************************************************)

\* The contents of the producer's free regions.
PoolOf(s, free) == [k \in DOMAIN free |-> s.regions[s.tables[Producer(config)][free[k]].object]]

Seen(b, contents) == <<[batch |-> b, region |-> contents]>>

\* Batch b's message went from channel i to o, with these contents.
SeenHop(s, t, free, i, o, b, contents) ==
  /\ PoolOf(t, free) = PoolOf(s, free)
  /\ Messages(s, i) = Seen(b, s.regions[RegionOf(config, b)]) /\ Messages(t, i) = <<>>
  /\ Messages(s, o) = <<>> /\ Messages(t, o) = Seen(b, contents)
  /\ \A c \in 0 .. Return(config) : c # i /\ c # o => Messages(t, c) = Messages(s, c)

LEMMA FreeObjects ==
  ASSUME NEW s, NEW free, NEW n, FreeOK(s, free, n)
  PROVE  \A k \in DOMAIN free :
           s.tables[Producer(config)][free[k]].object = RegionOf(config, n + (k - 1))
<1>1. \A c, epochs, b : RegionCap(c, epochs, b).object = RegionOf(c, b)
  BY DEF RegionCap
<1>2. \A k \in DOMAIN free :
        s.tables[Producer(config)][free[k]] = RegionCap(config, s.epochs, n + (k - 1))
  BY DEF FreeOK
<1> QED BY <1>1, <1>2

LEMMA OneMore ==
  ASSUME NEW A, NEW f \in Seq(A), NEW x \in A
  PROVE  f \o <<x>> = Append(f, x)
OBVIOUS

LEMMA HopViews ==
  ASSUME config \in Configs, NEW S \in Nat, NEW P \in Nat, Sizes(S, P),
         NEW s, NEW free, NEW n \in Nat, NEW d \in Nat,
         Own(s, free, n, d), BatchesOK(s, free, n, d),
         NEW p \in 1 .. S + 1, NEW i \in 0 .. S, NEW o \in 1 .. S + 1, NEW b \in Nat,
         i # o, Passing(s, i, o, b),
         NEW t, NEW contents, Hopped(s, t, p, i, o, b, contents), NEW e, Own(t, free, n, e)
  PROVE  SeenHop(s, t, free, i, o, b, contents)
<1>1. /\ Return(config) = S + 1 /\ Producer(config) = S + 2
      /\ Regions(config) = S + 2 .. S + 1 + P
  BY DEF Sizes
<1>2. /\ SystemOK(s) /\ QueuesOK(s) /\ FreeOK(s, free, n) /\ QueuesOK(t) /\ FreeOK(t, free, n)
  BY DEF Own
<1>3. ApartOK(s, free, n)
  BY <1>2, RegionsApart DEF FreeOK, Own
<1>4. s.queues[i] # <<>> /\ s.queues[o] = <<>> /\ b = Carried(s, i)
  BY DEF Passing
<1>5. i \in 0 .. S + 1 /\ o \in 0 .. S + 1
  OBVIOUS
<1>6. PICK r \in Regions(config) : r = RegionOf(config, b)
  BY <1>1, <1>3, <1>4, <1>5 DEF ApartOK
<1>7. /\ \A c \in 0 .. S + 1 : s.queues[c] # <<>> /\ c # i =>
           RegionOf(config, Carried(s, c)) \in Regions(config) /\ RegionOf(config, Carried(s, c)) # r
      /\ \A k \in DOMAIN free :
           RegionOf(config, n + (k - 1)) \in Regions(config) /\ RegionOf(config, n + (k - 1)) # r
  BY <1>1, <1>3, <1>4, <1>5, <1>6 DEF ApartOK
<1>8. \A x \in Regions(config) : t.regions[x] = IF x = r THEN contents ELSE s.regions[x]
  BY <1>2, <1>6 DEF SystemOK, Hopped
<1>9. \A c \in 0 .. S + 1 :
        t.queues[c] = IF c = i THEN <<>>
                      ELSE IF c = o THEN <<MessageOf(config, t.epochs, b)>> ELSE s.queues[c]
  BY <1>1, <1>2 DEF SystemOK, Hopped
<1>10. PoolOf(t, free) = PoolOf(s, free)
  <2>1. \A k \in DOMAIN free :
          /\ s.tables[Producer(config)][free[k]].object = RegionOf(config, n + (k - 1))
          /\ t.tables[Producer(config)][free[k]].object = RegionOf(config, n + (k - 1))
    BY <1>2, FreeObjects
  <2>2. \A k \in DOMAIN free : t.regions[t.tables[Producer(config)][free[k]].object]
                                 = s.regions[s.tables[Producer(config)][free[k]].object]
    BY <1>7, <1>8, <2>1
  <2> QED BY <2>2 DEF PoolOf
<1>11. Messages(s, i) = Seen(b, s.regions[RegionOf(config, b)])
  BY <1>1, <1>2, <1>4, <1>5, OneMessage DEF Seen
<1>12. Messages(s, o) = <<>> /\ Messages(t, i) = <<>>
  <2>1. t.queues[i] = <<>>
    BY <1>5, <1>9
  <2> QED BY <1>4, <2>1, NoMessage
<1>13. Messages(t, o) = Seen(b, contents)
  <2>1. PICK m : m = MessageOf(config, t.epochs, b)
    OBVIOUS
  <2>2. t.queues[o] = <<m>> /\ m.data = b
    BY <1>5, <1>9, <2>1 DEF MessageOf
  <2>3. t.queues[o] # <<>> /\ Carried(t, o) = b
    BY <2>2 DEF Carried
  <2>4. Messages(t, o) = <<[batch |-> b, region |-> t.regions[RegionOf(config, b)]]>>
    BY <1>1, <1>2, <1>5, <2>3, OneMessage
  <2> QED BY <1>6, <1>8, <2>4 DEF Seen
<1>14. ASSUME NEW c \in 0 .. S + 1, c # i, c # o
       PROVE  Messages(t, c) = Messages(s, c)
  <2>1. t.queues[c] = s.queues[c]
    BY <1>9, <1>14
  <2>2. CASE s.queues[c] = <<>>
    <3>1. t.queues[c] = <<>>
      BY <2>1, <2>2
    <3> QED BY <2>2, <3>1, NoMessage
  <2>3. CASE s.queues[c] # <<>>
    <3>1. Carried(t, c) = Carried(s, c) /\ t.queues[c] # <<>>
      BY <2>1, <2>3 DEF Carried
    <3>2. t.regions[RegionOf(config, Carried(s, c))] = s.regions[RegionOf(config, Carried(s, c))]
      BY <1>7, <1>8, <1>14, <2>3
    <3>3. Messages(t, c) = <<[batch |-> Carried(t, c), region |-> t.regions[RegionOf(config, Carried(t, c))]]>>
      BY <1>1, <1>2, <3>1, OneMessage
    <3>4. Messages(s, c) = <<[batch |-> Carried(s, c), region |-> s.regions[RegionOf(config, Carried(s, c))]]>>
      BY <1>1, <1>2, <2>3, OneMessage
    <3> QED BY <3>1, <3>2, <3>3, <3>4
  <2> QED BY <2>2, <2>3
<1> QED BY <1>1, <1>10, <1>11, <1>12, <1>13, <1>14 DEF SeenHop

\* The producer took the returned region b back under handle h.
SeenDrain(s, t, free, h, b) ==
  /\ PoolOf(t, Append(free, h)) = PoolOf(s, free) \o <<s.regions[RegionOf(config, b)]>>
  /\ Messages(s, Return(config)) = Seen(b, s.regions[RegionOf(config, b)])
  /\ Messages(t, Return(config)) = <<>>
  /\ \A c \in 0 .. config.stages : Messages(t, c) = Messages(s, c)

LEMMA DrainViews ==
  ASSUME config \in Configs, NEW S \in Nat, NEW P \in Nat, Sizes(S, P),
         NEW s, NEW free, NEW n \in Nat, NEW d \in Nat,
         Own(s, free, n, d), BatchesOK(s, free, n, d),
         NEW t, NEW b \in Nat, NEW h, Draining(s, t, b, h)
  PROVE  SeenDrain(s, t, free, h, b)
<1>1. /\ Return(config) = S + 1 /\ Producer(config) = S + 2 /\ config.stages = S
      /\ Regions(config) = S + 2 .. S + 1 + P
  BY DEF Sizes
<1>2. /\ Own(t, Append(free, h), n, d)
      /\ t.queues[S + 1] = <<>> /\ t.regions = s.regions
      /\ \A c \in 0 .. S : t.queues[c] = s.queues[c]
  <2>1. Drains(s, t, S, free, h, n, d)
    BY DrainKeeps
  <2> QED BY <2>1 DEF Drains
<1>3. /\ QueuesOK(s) /\ FreeOK(s, free, n) /\ HandlesOK(s, n, d)
      /\ QueuesOK(t) /\ FreeOK(t, Append(free, h), n)
  BY <1>2 DEF Own
<1>4. Returning(s) = 1 /\ b = Carried(s, S + 1) /\ h = s.next_handle[S + 2]
  BY <1>1 DEF Draining
<1>5. PICK l \in Nat : l = Len(free) /\ DOMAIN free = 1 .. l
  BY <1>3 DEF FreeOK
<1>6. s.queues[S + 1] # <<>>
  BY <1>1, <1>4 DEF Returning
<1>7. b = d - 1 /\ l + 1 + (n - d) = P /\ P # 0 /\ n + l = b + P
  <2>1. d - 1 = b /\ Len(free) + 1 + (n - d) = P /\ d <= n
    BY <1>1, <1>4, <1>6 DEF BatchesOK, Sizes
  <2> QED BY <1>5, <2>1
<1>8. RegionOf(config, n + l) = RegionOf(config, b)
  BY <1>7, RegionsComeRound DEF Sizes
<1>9. PICK more : more = Append(free, h)
  OBVIOUS
<1>10. DOMAIN more = 1 .. l + 1 /\ \A k \in 1 .. l : more[k] = free[k] /\ k \in 1 .. l + 1
  BY <1>3, <1>5, <1>9, AppendIs DEF FreeOK
<1>11. \A k \in 1 .. l + 1 : t.tables[Producer(config)][more[k]].object = RegionOf(config, n + (k - 1))
  <2>1. \A k \in DOMAIN more :
          t.tables[Producer(config)][more[k]].object = RegionOf(config, n + (k - 1))
    <3>1. FreeOK(t, more, n)
      BY <1>3, <1>9
    <3> QED BY <3>1, FreeObjects
  <2> QED BY <1>10, <2>1
<1>12. \A k \in 1 .. l : s.tables[Producer(config)][free[k]].object = RegionOf(config, n + (k - 1))
  BY SMTT(20), <1>3, <1>5, FreeObjects
<1>13. PoolOf(t, more) = PoolOf(s, free) \o <<s.regions[RegionOf(config, b)]>>
  <2>1. PICK f : f = [k \in 1 .. l |-> s.regions[RegionOf(config, n + (k - 1))]]
    OBVIOUS
  <2>2. PICK g : g = [k \in 1 .. l + 1 |-> s.regions[RegionOf(config, n + (k - 1))]]
    OBVIOUS
  <2>3. PoolOf(s, free) = f
    BY <1>5, <1>12, <2>1 DEF PoolOf
  <2>4. PoolOf(t, more) = g
    BY <1>2, <1>10, <1>11, <2>2 DEF PoolOf
  <2>5. PICK x : x = s.regions[RegionOf(config, b)]
    OBVIOUS
  <2>6. /\ DOMAIN f = 1 .. l /\ DOMAIN g = 1 .. l + 1 /\ \A k \in 1 .. l : g[k] = f[k]
        /\ g[l + 1] = x
    <3>1. l + 1 \in 1 .. l + 1 /\ n + (l + 1 - 1) = n + l
      OBVIOUS
    <3>2. g[l + 1] = x
      BY <1>8, <2>2, <2>5, <3>1
    <3> QED BY <2>1, <2>2, <3>2
  <2>7. g = f \o <<x>>
    <3> DEFINE A == {f[k] : k \in 1 .. l} \union {x}
    <3>1. f \in [1 .. l -> A] /\ x \in A
      BY <2>1
    <3>2. \A k \in 1 .. l + 1 : g[k] \in A
      <4>1. \A k \in 1 .. l + 1 : k \in 1 .. l \/ k = l + 1
        OBVIOUS
      <4> QED BY <2>6, <3>1, <4>1
    <3>3. g \in [1 .. l + 1 -> A]
      BY <2>2, <3>2
    <3> HIDE DEF A
    <3>4. f \in Seq(A) /\ g \in Seq(A) /\ Len(f) = l /\ Len(g) = l + 1
      BY <3>1, <3>3
    <3>5. /\ f \o <<x>> = Append(f, x) /\ Append(f, x) \in Seq(A) /\ Len(Append(f, x)) = Len(f) + 1
          /\ \A k \in 1 .. Len(f) : Append(f, x)[k] = f[k]
          /\ Append(f, x)[Len(f) + 1] = x
      BY <3>1, <3>4, AppendIs, OneMore
    <3>6. \A k \in 1 .. l + 1 : Append(f, x)[k] = g[k]
      BY <2>6, <3>4, <3>5
    <3> QED BY <3>4, <3>5, <3>6
  <2> QED BY <2>3, <2>4, <2>5, <2>7
<1>14. Messages(s, S + 1) = Seen(b, s.regions[RegionOf(config, b)])
  <2>1. S + 1 \in 0 .. Return(config)
    BY <1>1
  <2> QED BY <1>3, <1>4, <1>6, <2>1, OneMessage DEF Seen
<1>15. Messages(t, S + 1) = <<>>
  BY <1>2, NoMessage
<1>16. \A c \in 0 .. S : Messages(t, c) = Messages(s, c)
  BY <1>2 DEF Messages
<1> QED BY <1>1, <1>9, <1>13, <1>14, <1>15, <1>16 DEF SeenDrain

\* The producer sent batch n in its first free region.
SeenSend(s, t, free, n) ==
  /\ PoolOf(s, free) # <<>>
  /\ PoolOf(t, Tail(free)) = Tail(PoolOf(s, free))
  /\ Messages(s, 0) = <<>>
  /\ Messages(t, 0) = Seen(n, fill_batch(n, Head(PoolOf(s, free))))
  /\ \A c \in 1 .. Return(config) : Messages(t, c) = Messages(s, c)

LEMMA SendViews ==
  ASSUME config \in Configs, NEW S \in Nat, NEW P \in Nat, Sizes(S, P),
         NEW s, NEW free, NEW n \in Nat, NEW d \in Nat,
         Own(s, free, n, d), BatchesOK(s, free, n, d), Returning(s) = 0,
         free # <<>>, NEW t, Sending(s, t, free, n)
  PROVE  SeenSend(s, t, free, n)
<1>1. /\ Return(config) = S + 1 /\ Producer(config) = S + 2
      /\ Regions(config) = S + 2 .. S + 1 + P
  BY DEF Sizes
<1>2. Own(t, Tail(free), n + 1, d)
  BY SendKeeps
<1>3. /\ SystemOK(s) /\ QueuesOK(s) /\ FreeOK(s, free, n)
      /\ QueuesOK(t) /\ FreeOK(t, Tail(free), n + 1)
  BY <1>2 DEF Own
<1>4. ApartOK(s, free, n)
  BY <1>3, RegionsApart DEF FreeOK, Own
<1>5. PICK l \in Nat \ {0} : l = Len(free) /\ DOMAIN free = 1 .. l
  BY <1>3, TailIs DEF FreeOK
<1>6. PICK rest : rest = Tail(free)
  OBVIOUS
<1>7. DOMAIN rest = 1 .. l - 1
  BY <1>3, <1>5, <1>6, TailIs DEF FreeOK
<1>8. PICK r \in Regions(config) : r = RegionOf(config, n)
  <2>1. 1 \in DOMAIN free /\ n + (1 - 1) = n
    BY <1>5
  <2>2. RegionOf(config, n + (1 - 1)) \in Regions(config)
    BY <1>4, <2>1 DEF ApartOK
  <2> QED BY <2>1, <2>2
<1>9. \A c \in 0 .. S + 1 : s.queues[c] # <<>> =>
        RegionOf(config, Carried(s, c)) \in Regions(config) /\ RegionOf(config, Carried(s, c)) # r
  <2>1. 1 \in DOMAIN free /\ n + (1 - 1) = n
    BY <1>5
  <2>2. \A c \in 0 .. Return(config) : s.queues[c] # <<>> =>
          /\ RegionOf(config, Carried(s, c)) \in Regions(config)
          /\ RegionOf(config, Carried(s, c)) # RegionOf(config, n + (1 - 1))
    BY <1>4, <2>1 DEF ApartOK
  <2> QED BY <1>1, <1>8, <2>1, <2>2
<1>10. \A k \in 1 .. l : /\ RegionOf(config, n + (k - 1)) \in Regions(config)
                         /\ k # 1 => RegionOf(config, n + (k - 1)) # r
  <2>1. 1 \in DOMAIN free /\ n + (1 - 1) = n
    BY <1>5
  <2>2. \A k \in DOMAIN free :
          /\ RegionOf(config, n + (k - 1)) \in Regions(config)
          /\ k # 1 => RegionOf(config, n + (k - 1)) # RegionOf(config, n + (1 - 1))
    BY <1>4, <2>1 DEF ApartOK
  <2> QED BY <1>5, <1>8, <2>1, <2>2
<1>11. \A x \in Regions(config) : t.regions[x] = IF x = r THEN fill_batch(n, s.regions[r]) ELSE s.regions[x]
  BY <1>3, <1>8 DEF SystemOK, Sending
<1>12. \A c \in 0 .. S + 1 :
         t.queues[c] = IF c = 0 THEN <<MessageOf(config, t.epochs, n)>> ELSE s.queues[c]
  BY <1>1, <1>3 DEF SystemOK, Sending
<1>13. \A k \in 1 .. l : s.tables[Producer(config)][free[k]].object = RegionOf(config, n + (k - 1))
  BY SMTT(20), <1>3, <1>5, FreeObjects
<1>14. \A k \in 1 .. l - 1 : t.tables[Producer(config)][rest[k]].object = RegionOf(config, n + 1 + (k - 1))
  <2>1. \A k \in DOMAIN rest :
          t.tables[Producer(config)][rest[k]].object = RegionOf(config, n + 1 + (k - 1))
    <3>1. FreeOK(t, rest, n + 1)
      BY <1>3, <1>6
    <3> QED BY <3>1, FreeObjects
  <2> QED BY <1>7, <2>1
<1>15. /\ PoolOf(s, free) # <<>> /\ Head(PoolOf(s, free)) = s.regions[r]
       /\ PoolOf(t, rest) = Tail(PoolOf(s, free))
  <2>1. PICK f : f = [k \in 1 .. l |-> s.regions[RegionOf(config, n + (k - 1))]]
    OBVIOUS
  <2>2. PICK g : g = [k \in 1 .. l - 1 |-> t.regions[RegionOf(config, n + 1 + (k - 1))]]
    OBVIOUS
  <2>3. PoolOf(s, free) = f
    BY <1>5, <1>13, <2>1 DEF PoolOf
  <2>4. PoolOf(t, rest) = g
    BY <1>7, <1>14, <2>2 DEF PoolOf
  <2>5. f[1] = s.regions[r]
    <3>1. 1 \in 1 .. l /\ n + (1 - 1) = n
      BY <1>5
    <3> QED BY <1>8, <2>1, <3>1
  <2>6. \A k \in 1 .. l - 1 : g[k] = f[k + 1]
    <3> SUFFICES ASSUME NEW k \in 1 .. l - 1 PROVE g[k] = f[k + 1]
      OBVIOUS
    <3>1. PICK j \in 1 .. l : j = k + 1 /\ j # 1 /\ n + 1 + (k - 1) = n + (j - 1)
      OBVIOUS
    <3>2. t.regions[RegionOf(config, n + (j - 1))] = s.regions[RegionOf(config, n + (j - 1))]
      BY <1>10, <1>11, <3>1
    <3> QED BY <2>1, <2>2, <3>1, <3>2
  <2> DEFINE A == {f[k] : k \in 1 .. l}
  <2>7. f \in [1 .. l -> A] /\ DOMAIN g = 1 .. l - 1
    BY <2>1, <2>2
  <2>8. \A k \in 1 .. l - 1 : g[k] \in A
    <3> SUFFICES ASSUME NEW k \in 1 .. l - 1 PROVE g[k] \in A
      OBVIOUS
    <3>1. k + 1 \in 1 .. l
      OBVIOUS
    <3> QED BY <2>6, <3>1
  <2>9. g \in [1 .. l - 1 -> A]
    <3> HIDE DEF A
    <3> QED BY <2>2, <2>7, <2>8
  <2> HIDE DEF A
  <2>10. f \in Seq(A) /\ Len(f) = l /\ f # <<>> /\ l - 1 \in Nat
    BY <2>7
  <2>11. g \in Seq(A) /\ Len(g) = l - 1
    BY <2>9, <2>10
  <2>12. Tail(f) \in Seq(A) /\ Len(Tail(f)) = l - 1 /\ Head(f) = f[1]
         /\ \A k \in 1 .. l - 1 : Tail(f)[k] = f[k + 1]
    BY <2>10, TailIs
  <2>13. g = Tail(f)
    BY <2>6, <2>11, <2>12
  <2> QED BY <2>3, <2>4, <2>5, <2>10, <2>12, <2>13
<1>16. Messages(s, 0) = <<>>
  BY NoMessage DEF Sending
<1>17. Messages(t, 0) = Seen(n, fill_batch(n, s.regions[r]))
  <2>1. PICK m : m = MessageOf(config, t.epochs, n)
    OBVIOUS
  <2>0. 0 \in 0 .. S + 1
    OBVIOUS
  <2>2. t.queues[0] = <<m>> /\ m.data = n
    BY <1>12, <2>0, <2>1 DEF MessageOf
  <2>3. t.queues[0] # <<>> /\ Carried(t, 0) = n
    BY <2>2 DEF Carried
  <2>4. Messages(t, 0) = <<[batch |-> n, region |-> t.regions[RegionOf(config, n)]]>>
    BY <1>1, <1>3, <2>0, <2>3, OneMessage
  <2> QED BY <1>8, <1>11, <2>4 DEF Seen
<1>18. ASSUME NEW c \in 1 .. S + 1
       PROVE  Messages(t, c) = Messages(s, c)
  <2>0. c \in 0 .. S + 1 /\ c # 0
    OBVIOUS
  <2>1. t.queues[c] = s.queues[c]
    BY <1>12, <2>0
  <2>2. CASE s.queues[c] = <<>>
    <3>1. t.queues[c] = <<>>
      BY <2>1, <2>2
    <3> QED BY <2>2, <3>1, NoMessage
  <2>3. CASE s.queues[c] # <<>>
    <3>1. Carried(t, c) = Carried(s, c) /\ t.queues[c] # <<>>
      BY <2>1, <2>3 DEF Carried
    <3>2. t.regions[RegionOf(config, Carried(s, c))] = s.regions[RegionOf(config, Carried(s, c))]
      BY <1>9, <1>11, <2>0, <2>3
    <3>3. Messages(t, c) = <<[batch |-> Carried(t, c), region |-> t.regions[RegionOf(config, Carried(t, c))]]>>
      BY <1>1, <1>3, <2>0, <3>1, OneMessage
    <3>4. Messages(s, c) = <<[batch |-> Carried(s, c), region |-> s.regions[RegionOf(config, Carried(s, c))]]>>
      BY <1>1, <1>3, <2>0, <2>3, OneMessage
    <3> QED BY <3>1, <3>2, <3>3, <3>4
  <2> QED BY <2>2, <2>3
<1> QED BY <1>1, <1>6, <1>15, <1>16, <1>17, <1>18 DEF SeenSend

(***************************************************************************)
(* The turns, each with the baseline's.                                    *)
(***************************************************************************)

LEMMA BaselineSees ==
  /\ Chan = [i \in 0 .. config.stages |-> Messages(sys, i)]
  /\ messages_of(Return(config)) = Messages(sys, Return(config))
  /\ [k \in DOMAIN free_regions |-> contents_of(cap_of(sys, Producer(config), free_regions[k]))]
       = PoolOf(sys, free_regions)
BY DEF Chan, Messages, messages_of, contents_of, PoolOf, cap_of

LEMMA BaselineSeesNext ==
  ASSUME config' = config
  PROVE  /\ Chan' = [i \in 0 .. config.stages |-> Messages(sys', i)]
         /\ messages_of(Return(config))' = Messages(sys', Return(config))
         /\ [k \in DOMAIN free_regions |->
               contents_of(cap_of(sys, Producer(config), free_regions[k]))]'
              = PoolOf(sys', free_regions')
<1>1. Chan' = [i \in 0 .. config.stages |-> Messages(sys', i)]
  BY DEF Chan, Messages, messages_of, contents_of
<1>2. messages_of(Return(config))' = Messages(sys', Return(config))
  BY DEF Messages, messages_of, contents_of, Return
<1>3. [k \in DOMAIN free_regions |-> contents_of(cap_of(sys, Producer(config), free_regions[k]))]'
        = PoolOf(sys', free_regions')
  BY DEF contents_of, cap_of, PoolOf, Producer
<1> QED BY <1>1, <1>2, <1>3

\* A turn passes to the next process, in both.
LEMMA Scheduling ==
  ASSUME PipelineInv, NEW S \in Nat, NEW P \in Nat, Sizes(S, P), NEW k \in 0 .. S + 2,
         NEW after, NEW progressed, NEW sent, Turn(k, after, progressed, sent)
  PROVE  /\ config' = config /\ stages' = stages /\ sys' = after
         /\ Head(ready_queue) = k
         /\ Head(ready_queue)' = (IF k = S + 2 THEN 0 ELSE k + 1)
         /\ (ready_queue = [j \in 1 .. processes(config) |->
                              (Head(ready_queue) + (j - 1)) % processes(config)])'
         /\ BP!Turn(k, progressed, sent)
<1>1. /\ config' = config /\ stages' = stages /\ sys' = after
      /\ Head(ready_queue) = k /\ ready_queue' = Append(Tail(ready_queue), k)
  BY DEF Turn
<1>2. PICK m \in Nat \ {0} : m = S + 3 /\ m = processes(config) /\ k \in 0 .. m - 1
  BY DEF Sizes, processes
<1>3. ready_queue = [j \in 1 .. m |-> (k + (j - 1)) % m]
  BY <1>1, <1>2 DEF PipelineInv, ReadyOK
<1>4. /\ Head(ready_queue') = (k + 1) % m
      /\ ready_queue' = [j \in 1 .. m |-> (((k + 1) % m) + (j - 1)) % m]
  BY ZenonT(30), <1>1, <1>2, <1>3, Rotated
<1>5. Head(ready_queue)' = (k + 1) % m
  BY <1>4
<1>6. (ready_queue = [j \in 1 .. processes(config) |->
                       (Head(ready_queue) + (j - 1)) % processes(config)])'
  BY <1>1, <1>2, <1>4
<1>7. (k + 1) % m = (IF k = S + 2 THEN 0 ELSE k + 1)
  <2>1. k + 1 \in 0 .. 2 * m - 1
    BY <1>2
  <2>2. (k + 1) % m = Around(k + 1, m)
    BY <1>2, <2>1, ModIs
  <2>3. Around(k + 1, m) = (IF k = S + 2 THEN 0 ELSE k + 1)
    BY <1>2 DEF Around
  <2> QED BY Zenon, <2>2, <2>3
<1>8. BP!Turn(k, progressed, sent)
  <2>1. BP!processes = m /\ processes(config) = m
    BY <1>2 DEF BP!processes, processes
  <2>2. ~BP!Completed /\ ~BP!Stalled
    BY <1>2, <2>1 DEF Turn, BP!Completed, BP!Stalled, Completed, Stalled
  <2>3. Head(ready_queue)' = (Head(ready_queue) + 1) % BP!processes
    BY <1>1, <1>5, <2>1
  <2> QED BY <1>1, <2>2, <2>3 DEF Turn, BP!Turn
<1> QED BY <1>1, <1>5, <1>6, <1>7, <1>8

\* The views of process p.
LEMMA ViewsAre ==
  ASSUME PipelineInv, NEW S \in Nat, NEW P \in Nat, Sizes(S, P), NEW p \in 1 .. S + 2
  PROVE  /\ input_cap(p) = ReadView(InputOf(config, p))
         /\ output_cap(p) = WriteView(OutputOf(config, p))
         /\ waiting(sys, input_cap(p)) = sys.queues[InputOf(config, p)]
<1>1. ViewsOK(sys) /\ Producer(config) = S + 2
  BY DEF PipelineInv, Own, Sizes
<1>2. /\ input_cap(p) = ReadView(InputOf(config, p))
      /\ output_cap(p) = WriteView(OutputOf(config, p))
  BY <1>1 DEF ViewsOK, input_cap, output_cap
<1>3. \A o : ReadView(o).object = o
  BY DEF ReadView
<1> QED BY <1>2, <1>3 DEF waiting

LEMMA SystemFacts ==
  ASSUME PipelineInv, NEW S \in Nat, NEW P \in Nat, Sizes(S, P)
  PROVE  /\ config \in Configs
         /\ Own(sys, free_regions, next_batch, Len(results))
         /\ BatchesOK(sys, free_regions, next_batch, Len(results))
         /\ next_batch \in Nat /\ Len(results) \in Nat
         /\ sys.failed = FALSE
         /\ \A o \in 0 .. S + 1 : o \in DOMAIN sys.epochs /\ sys.epochs[o] = 0 /\ o \in DOMAIN sys.queues
         /\ \A x \in Regions(config) : x \in DOMAIN sys.epochs /\ x \in DOMAIN sys.regions
<1>1. /\ config \in Configs /\ Own(sys, free_regions, next_batch, Len(results))
  BY InvConfig DEF PipelineInv
<1>2. BatchesOK(sys, free_regions, next_batch, Len(results))
  BY BatchesInOrder
<1>3. next_batch \in Nat /\ Len(results) \in Nat
  BY <1>2 DEF BatchesOK
<1>4. /\ sys.failed = FALSE
      /\ DOMAIN sys.epochs = 0 .. Return(config) + config.pool
      /\ \A o \in 0 .. Return(config) : sys.epochs[o] = 0
      /\ DOMAIN sys.queues = 0 .. Return(config) /\ DOMAIN sys.regions = Regions(config)
  BY <1>1 DEF Own, SystemOK
<1>5. DOMAIN sys.epochs = 0 .. S + 1 + P /\ Return(config) = S + 1
      /\ Regions(config) = S + 2 .. S + 1 + P
  BY <1>4 DEF Sizes
<1>8. /\ DOMAIN sys.queues = 0 .. S + 1 /\ \A o \in 0 .. S + 1 : sys.epochs[o] = 0
  BY <1>4, <1>5
<1>9. \A x \in 0 .. S + 1 : x \in 0 .. S + 1 + P
  OBVIOUS
<1>10. \A x \in S + 2 .. S + 1 + P : x \in 0 .. S + 1 + P
  OBVIOUS
<1>11. DOMAIN sys.epochs = 0 .. S + 1 + P
  BY <1>5
<1>6. \A o \in 0 .. S + 1 : o \in DOMAIN sys.epochs /\ sys.epochs[o] = 0 /\ o \in DOMAIN sys.queues
  BY <1>8, <1>9, <1>11
<1>7. \A x \in Regions(config) : x \in DOMAIN sys.epochs /\ x \in DOMAIN sys.regions
  <2>1. DOMAIN sys.regions = S + 2 .. S + 1 + P /\ Regions(config) = S + 2 .. S + 1 + P
    BY <1>4, <1>5
  <2> QED BY <1>10, <1>11, <2>1
<1> QED BY <1>1, <1>2, <1>3, <1>4, <1>6, <1>7

\* A turn in which nothing happens.
LEMMA QuietStep ==
  ASSUME PipelineInv, NEW S \in Nat, NEW P \in Nat, Sizes(S, P), NEW k \in 0 .. S + 1,
         NEW progressed, NEW sent,
         Turn(k, sys, progressed, sent), UNCHANGED <<free_regions, next_batch, results>>,
         BP!BaselineInv'
  PROVE  PipelineInv'
<1>1. /\ config' = config /\ stages' = stages /\ sys' = sys
      /\ Head(ready_queue) = k
      /\ Head(ready_queue)' = (IF k = S + 2 THEN 0 ELSE k + 1)
      /\ (ready_queue = [j \in 1 .. processes(config) |->
                              (Head(ready_queue) + (j - 1)) % processes(config)])'
  BY Scheduling
<1>2. Own(sys, free_regions, next_batch, Len(results))'
  <2>1. Own(sys', free_regions', next_batch', Len(results'))
    BY <1>1 DEF PipelineInv
  <2> QED BY <1>1, <2>1, OwnNext
<1>3. Return(config)' = Return(config) /\ Producer(config)' = S + 2
  BY <1>1 DEF Return, Producer, Sizes
<1>4. ReadyOK'
  <2>1. Head(ready_queue)' = k + 1 /\ k + 1 \in 0 .. S + 2
    BY <1>1
  <2>2. sys.queues[Return(config)] # <<>> =>
          /\ Carried(sys, Return(config)) = Len(results) - 1
          /\ k # 0 /\ k # 1
    BY <1>1 DEF PipelineInv, ReadyOK, Supervisor, Sink
  <2>3. Carried(sys, Return(config))' = Carried(sys, Return(config))
    BY <1>1, <1>3 DEF Carried
  <2>4. (sys.queues[Return(config)])' # <<>> =>
          /\ Carried(sys, Return(config))' = Len(results)' - 1
          /\ k + 1 # 0 /\ k + 1 # 1
    BY <1>1, <1>3, <2>2, <2>3
  <2>5. (Supervisor = 0 /\ Sink = 1)'
    BY DEF Supervisor, Sink
  <2> QED BY <1>1, <1>3, <2>1, <2>4, <2>5 DEF ReadyOK
<1>5. (next_batch \in 0 .. config.batches)'
  BY <1>1 DEF PipelineInv
<1> QED BY <1>2, <1>4, <1>5 DEF PipelineInv

LEMMA SupervisorStep ==
  ASSUME PipelineInv, NEW S \in Nat, NEW P \in Nat, Sizes(S, P), SupervisorTurn
  PROVE  BP!SupervisorTurn /\ PipelineInv'
<1>1. /\ Turn(0, sys, FALSE, 0) /\ UNCHANGED <<free_regions, next_batch, results>>
      /\ 0 \in 0 .. S + 2 /\ 0 \in 0 .. S + 1
  <2>1. Turn(Supervisor, sys, FALSE, 0) /\ UNCHANGED <<free_regions, next_batch, results>>
    BY DEF SupervisorTurn
  <2>2. 0 \in 0 .. S + 2 /\ 0 \in 0 .. S + 1
    OBVIOUS
  <2> QED BY <2>1, <2>2 DEF Supervisor
<1>2. config' = config /\ sys' = sys /\ BP!Turn(0, FALSE, 0)
  BY <1>1, Scheduling
<1>3. BP!SupervisorTurn
  <2>1. Chan' = Chan /\ messages_of(Return(config))' = messages_of(Return(config))
    BY <1>2, BaselineSees, BaselineSeesNext
  <2>2. [k \in DOMAIN free_regions |-> contents_of(cap_of(sys, Producer(config), free_regions[k]))]'
          = [k \in DOMAIN free_regions |-> contents_of(cap_of(sys, Producer(config), free_regions[k]))]
    BY <1>1, <1>2, BaselineSees, BaselineSeesNext
  <2> QED BY <1>1, <1>2, <2>1, <2>2 DEF BP!SupervisorTurn, BP!Supervisor, Chan
<1>4. BP!BaselineInv'
  BY <1>3, BP!SupervisorStep, PipelineAssumption DEF PipelineInv
<1> QED BY <1>1, <1>3, <1>4, QuietStep

LEMMA StageIdleStep ==
  ASSUME PipelineInv, NEW S \in Nat, NEW P \in Nat, Sizes(S, P), NEW p \in 1 .. S + 1, StageIdle(p)
  PROVE  BP!StageIdle(S + 1 - p) /\ PipelineInv'
<1>0. PICK i \in 0 .. S : i = S + 1 - p /\ i \in 0 .. S + 1 /\ p \in 1 .. S + 2 /\ p \in 0 .. S + 2
  OBVIOUS
<1>1. InputOf(config, p) = i
  BY <1>0 DEF InputOf, Sizes
<1>2. input_cap(p) = ReadView(i) /\ waiting(sys, input_cap(p)) = sys.queues[i]
  BY <1>0, <1>1, ViewsAre
<1>3. sys.queues[i] = <<>>
  BY <1>2 DEF StageIdle
<1>4. received(p) = sys
  <2>1. i \in DOMAIN sys.epochs /\ sys.epochs[i] = 0 /\ i \in DOMAIN sys.queues
    BY <1>0, SystemFacts
  <2> QED BY <1>2, <1>3, <2>1, FetchingNone DEF received
<1>5. Turn(p, sys, FALSE, 0) /\ UNCHANGED <<free_regions, next_batch, results>>
  BY <1>4 DEF StageIdle
<1>6. config' = config /\ sys' = sys /\ BP!Turn(p, FALSE, 0)
  BY <1>0, <1>5, Scheduling
<1>7. BP!StageIdle(i)
  <2>1. Chan' = Chan /\ messages_of(Return(config))' = messages_of(Return(config))
    BY <1>6, BaselineSees, BaselineSeesNext
  <2>2. [k \in DOMAIN free_regions |-> contents_of(cap_of(sys, Producer(config), free_regions[k]))]'
          = [k \in DOMAIN free_regions |-> contents_of(cap_of(sys, Producer(config), free_regions[k]))]
    BY <1>5, <1>6, BaselineSees, BaselineSeesNext
  <2>3. Chan[i] = <<>>
    BY <1>3, NoMessage, BaselineSees DEF Sizes
  <2>4. (IF i = config.stages THEN BP!Sink ELSE BP!Transformer(i)) = p
    BY SMTT(20), <1>0 DEF BP!Sink, BP!Transformer, Sizes
  <2> QED BY <1>5, <1>6, <2>1, <2>2, <2>3, <2>4 DEF BP!StageIdle, Chan
<1>8. BP!BaselineInv'
  <2>1. i \in 0 .. config.stages
    BY DEF Sizes
  <2> QED BY <1>7, <2>1, BP!StageIdleStep, PipelineAssumption DEF PipelineInv
<1>9. BP!StageIdle(S + 1 - p)
  BY <1>0, <1>7
<1>10. PipelineInv'
  <2>1. p \in 0 .. S + 1
    OBVIOUS
  <2> QED BY <1>5, <1>8, <2>1, QuietStep
<1> QED BY <1>9, <1>10

\* Stage p takes batch b and its region from channel i.
Got(p, i, b) ==
  /\ b \in Nat /\ b = Carried(sys, i)
  /\ received(p) = Fetched(sys, p, i, b) /\ received(p).failed = FALSE
  /\ DOMAIN received(p) = Fields
  /\ received(p).epochs = sys.epochs /\ received(p).regions = sys.regions
  /\ message(p).data = b
  /\ received_region(p) = sys.next_handle[p] /\ sys.next_handle[p] \in Nat \ {0, 1}
  /\ received_cap(p) = RegionCap(config, sys.epochs, b)
  /\ received_contents(p) = sys.regions[RegionOf(config, b)]
  /\ RegionOf(config, b) \in Regions(config)

LEMMA Receiving ==
  ASSUME HandlesSuffice, PipelineInv, NEW S \in Nat, NEW P \in Nat, Sizes(S, P),
         NEW p \in 1 .. S + 1, NEW i \in 0 .. S, i = S + 1 - p, sys.queues[i] # <<>>
  PROVE  Got(p, i, Carried(sys, i))
<1>1. /\ Return(config) = S + 1 /\ Producer(config) = S + 2 /\ i \in 0 .. S + 1 /\ p \in 1 .. S + 2
      /\ InputOf(config, p) = i /\ p \in 0 .. S + 2
  BY DEF Sizes, InputOf
<1>2. /\ SystemOK(sys) /\ QueuesOK(sys) /\ HandlesOK(sys, next_batch, Len(results))
      /\ TableDomainsOK(sys, free_regions) /\ config \in Configs
      /\ BatchesOK(sys, free_regions, next_batch, Len(results))
  BY SystemFacts DEF Own
<1>3. PICK b \in Nat : /\ b = Carried(sys, i)
                       /\ sys.queues[i] = <<MessageOf(config, sys.epochs, b)>>
  BY <1>1, <1>2, OneMessage
<1>4. PICK r : r = RegionOf(config, b) /\ r \in Regions(config)
  <2>1. ApartOK(sys, free_regions, next_batch)
    BY <1>2, SystemFacts, RegionsApart DEF FreeOK, Own
  <2> QED BY <1>1, <1>3, <2>1 DEF ApartOK
<1>5. PICK n \in Nat, most \in Nat : n = next_batch /\ most = config.batches /\ n <= most /\ b <= n - 1
  <2>1. next_batch \in Nat /\ config.batches \in Nat /\ next_batch <= config.batches
    BY <1>2, SystemFacts, ConfigFacts DEF BatchesOK
  <2>2. Carried(sys, i) \in Len(results) .. next_batch - 1 /\ Len(results) \in Nat
    BY <1>1, <1>2 DEF BatchesOK
  <2> QED BY <1>3, <2>1, <2>2
<1>6. PICK h \in Nat \ {0, 1} : h = sys.next_handle[p] /\ h + 1 < HandleSpace
  <2>1. sys.next_handle[p] \in 2 .. 2 + n /\ sys.next_handle[p] <= 2 + b
    <3>1. i \in 0 .. InputOf(config, p) /\ p \in 1 .. Return(config)
      BY <1>1
    <3> QED BY <1>2, <1>3, <1>5, <3>1 DEF HandlesOK
  <2>2. P + most + 2 < HandleSpace
    BY <1>2, <1>5 DEF HandlesSuffice, Sizes
  <2>3. HandleSpace \in Nat
    BY ProcessAssumption
  <2>4. PICK x \in Nat \ {0, 1} : x = sys.next_handle[p] /\ x <= 2 + b
    BY <2>1
  <2>5. x + 1 < HandleSpace
    BY SMTT(20), <1>5, <2>2, <2>3, <2>4
  <2> QED BY <2>4, <2>5
<1>7. /\ input_cap(p) = ReadView(i) /\ waiting(sys, input_cap(p)) = sys.queues[i]
  BY <1>1, ViewsAre
<1>8. received(p) = Fetched(sys, p, i, b)
  <2>1. i \in DOMAIN sys.epochs /\ sys.epochs[i] = 0 /\ i \in DOMAIN sys.queues
    BY <1>1, SystemFacts
  <2>2. sys.next_handle[p] \in Nat /\ sys.next_handle[p] + 1 < HandleSpace
    BY <1>6
  <2> QED BY <1>3, <1>7, <2>1, <2>2, Fetching DEF received
<1>9. PICK cap : cap = RegionCap(config, sys.epochs, b)
  OBVIOUS
<1>10. PICK s : s = received(p)
  OBVIOUS
<1>11. IsTaken(sys, s, p, i, cap)
  <2>1. DOMAIN sys = Fields
    BY <1>2 DEF SystemOK
  <2>2. s = Taken(sys, p, i, cap)
    BY <1>8, <1>9, <1>10 DEF Fetched
  <2> QED BY <2>1, <2>2, FieldsTaken
<1>12. /\ DOMAIN s = Fields /\ s.failed = FALSE
       /\ s.epochs = sys.epochs /\ s.regions = sys.regions
  BY <1>11, SystemFacts DEF IsTaken
<1>13. s.tables[p][h] = cap
  <2>1. p \in DOMAIN sys.tables
    BY <1>1, <1>2 DEF SystemOK
  <2>2. Extended(sys.tables[p], h, cap)[h] = cap
    BY DEF Extended
  <2> QED BY <1>6, <1>11, <2>1, <2>2 DEF IsTaken
<1>14. received_region(p) = h /\ received_cap(p) = cap
  BY <1>6, <1>10, <1>13 DEF received_region, received_cap, cap_of
<1>15. received_contents(p) = sys.regions[r]
  <2>1. cap.object = r
    BY <1>4, <1>9 DEF RegionCap
  <2> QED BY <1>10, <1>12, <1>14, <2>1 DEF received_contents
<1>16. message(p).data = b
  <2>1. PICK m : m = MessageOf(config, sys.epochs, b)
    OBVIOUS
  <2>2. m.data = b /\ Head(<<m>>) = m
    BY <2>1 DEF MessageOf
  <2> QED BY <1>3, <1>7, <2>1, <2>2 DEF message
<1>17. Got(p, i, b)
  <2>1. b \in Nat /\ b = Carried(sys, i)
    BY <1>3
  <2>2. /\ received(p).failed = FALSE /\ DOMAIN received(p) = Fields
        /\ received(p).epochs = sys.epochs /\ received(p).regions = sys.regions
    BY <1>10, <1>12
  <2>3. received_region(p) = sys.next_handle[p] /\ sys.next_handle[p] \in Nat \ {0, 1}
    BY <1>6, <1>14
  <2>4. received_cap(p) = RegionCap(config, sys.epochs, b)
    BY <1>9, <1>14
  <2>5. /\ received_contents(p) = sys.regions[RegionOf(config, b)]
        /\ RegionOf(config, b) \in Regions(config)
    BY <1>4, <1>15
  <2> QED BY <1>8, <1>16, <2>1, <2>2, <2>3, <2>4, <2>5 DEF Got
<1> QED BY <1>3, <1>17

\* And passes it on.
LEMMA PassingOn ==
  ASSUME PipelineInv, NEW S \in Nat, NEW P \in Nat, Sizes(S, P),
         NEW p \in 1 .. S + 1, NEW i \in 0 .. S, NEW o \in 1 .. S + 1, NEW b, Got(p, i, b),
         i = S + 1 - p, o = S + 2 - p, Passing(sys, i, o, b),
         NEW contents, NEW written, IsWritten(received(p), written, RegionOf(config, b), contents)
  PROVE  Hopped(sys, forwarded(written, p, received_region(p), b), p, i, o, b, contents)
<1>1. /\ Return(config) = S + 1 /\ Producer(config) = S + 2 /\ OutputOf(config, p) = o
      /\ p \in 1 .. S + 2 /\ p \in 1 .. Producer(config) /\ p # S + 2 /\ p \in 0 .. S + 2
      /\ i \in 0 .. Return(config) /\ o \in 0 .. Return(config) /\ i # o
  <2>1. Return(config) = S + 1 /\ Producer(config) = S + 2 /\ OutputOf(config, p) = o
    BY DEF Sizes, OutputOf
  <2>2. /\ p \in 1 .. S + 2 /\ p # S + 2 /\ p \in 0 .. S + 2
        /\ i \in 0 .. S + 1 /\ o \in 0 .. S + 1 /\ i # o
    OBVIOUS
  <2> QED BY <2>1, <2>2
<1>2. /\ SystemOK(sys) /\ HandlesOK(sys, next_batch, Len(results))
      /\ TableDomainsOK(sys, free_regions) /\ config \in Configs
  BY SystemFacts DEF Own
<1>3. output_cap(p) = WriteView(o)
  BY <1>1, ViewsAre
<1>4. RegionOf(config, b) \in Regions(config) /\ RegionOf(config, b) \in DOMAIN sys.epochs
  BY SystemFacts DEF Got
<1>5. /\ sys.next_handle[p] \in Nat /\ sys.next_handle[p] \notin DOMAIN sys.tables[p]
  <2>1. DOMAIN sys.tables[p] = {0, 1}
    BY <1>1, <1>2 DEF TableDomainsOK
  <2> QED BY <2>1 DEF Got
<1>6. sys.queues[o] = <<>>
  BY DEF Passing
<1>7. PICK before : before = received(p)
  OBVIOUS
<1>8. before = Fetched(sys, p, i, b) /\ IsWritten(before, written, RegionOf(config, b), contents)
  BY <1>7 DEF Got
<1>9. Hopped(sys, forwarded(written, p, sys.next_handle[p], b), p, i, o, b, contents)
  BY <1>1, <1>2, <1>3, <1>4, <1>5, <1>6, <1>8, HopFields
<1>10. received_region(p) = sys.next_handle[p]
  BY DEF Got
<1> QED BY <1>9, <1>10

LEMMA HopDone ==
  ASSUME PipelineInv, NEW S \in Nat, NEW P \in Nat, Sizes(S, P),
         NEW p \in 1 .. S + 1, NEW i \in 0 .. S, NEW o \in 1 .. S + 1,
         i = S + 1 - p, o = S + 2 - p, NEW b \in Nat, Passing(sys, i, o, b),
         NEW contents, NEW after, Hopped(sys, after, p, i, o, b, contents),
         NEW e \in Nat, e = IF p = 1 THEN Len(results) + 1 ELSE Len(results)
  PROVE  /\ Own(after, free_regions, next_batch, e)
         /\ SeenHop(sys, after, free_regions, i, o, b, contents)
<1>1. /\ config \in Configs /\ Own(sys, free_regions, next_batch, Len(results))
      /\ BatchesOK(sys, free_regions, next_batch, Len(results))
      /\ next_batch \in Nat /\ Len(results) \in Nat
  BY SystemFacts
<1>7. i # o
  OBVIOUS
<1>2. PICK n \in Nat, d \in Nat, free \in {free_regions} : n = next_batch /\ d = Len(results) /\ free = free_regions
  BY <1>1
<1>3. Own(sys, free, n, d) /\ BatchesOK(sys, free, n, d)
  BY <1>1, <1>2
<1>4. e = IF p = 1 THEN d + 1 ELSE d
  BY <1>2
<1>5. Own(after, free, n, e)
  BY <1>1, <1>3, <1>4, HopKeeps
<1>6. SeenHop(sys, after, free, i, o, b, contents)
  BY <1>1, <1>3, <1>5, <1>7, HopViews
<1> QED BY <1>2, <1>5, <1>6

\* The sink's batch is the next to be reported.
LEMMA SinkBatch ==
  ASSUME PipelineInv, NEW S \in Nat, NEW P \in Nat, Sizes(S, P), sys.queues[S] # <<>>
  PROVE  Carried(sys, S) = Len(results)
<1>1. Return(config) = S + 1 /\ config.stages = S /\ S \in 0 .. S + 1 /\ S \in 0 .. S
      /\ QueuesOK(sys) /\ next_batch \in Nat
  <2>1. Return(config) = S + 1 /\ config.stages = S
    BY DEF Sizes
  <2>2. QueuesOK(sys) /\ next_batch \in Nat
    BY SystemFacts DEF Own
  <2> QED BY <2>1, <2>2
<1>2. PICK m : m = [batch |-> Carried(sys, S), region |-> sys.regions[RegionOf(config, Carried(sys, S))]]
  OBVIOUS
<1>3. Chan[S] = <<m>> /\ m.batch = Carried(sys, S)
  BY <1>1, <1>2, OneMessage, MessagesAre DEF Chan
<1>4. Chan[S] # <<>> /\ Chan[S][1] = m
  BY <1>3
<1>5. Chan[S] = <<BP!MessageAt(S)>>
  BY <1>1, <1>4 DEF PipelineInv, BP!BaselineInv, BP!MessagesOK, Chan
<1>6. m = BP!MessageAt(S)
  BY <1>3, <1>5
<1>7. Carried(sys, S) = next_batch - BP!Count(Chan, S + 1)
  BY <1>3, <1>6 DEF BP!MessageAt, Chan
<1>8. BP!Waits = BP!Count(Chan, S + 1) /\ BP!Count(Chan, S + 1) \in Nat
  BY <1>1, BP!BusyFinite, PipelineAssumption DEF BP!Waits, Chan
<1>9. /\ BP!Waits <= next_batch
      /\ results = [k \in 1 .. next_batch - BP!Waits |->
                     [batch |-> k - 1,
                      checksum |-> BP!checksum(BP!Contents(k - 1, config.stages))]]
  BY DEF PipelineInv, BP!BaselineInv, BP!ResultsOK
<1>10. PICK n \in Nat : n = next_batch - BP!Waits
  BY <1>1, <1>8, <1>9
<1>11. \A f : f = [k \in 1 .. n |-> f[k]] => Len(f) = n
  <2> SUFFICES ASSUME NEW f, f = [k \in 1 .. n |-> f[k]] PROVE Len(f) = n
    OBVIOUS
  <2>1. f \in Seq({f[k] : k \in 1 .. n}) /\ DOMAIN f = 1 .. n
    OBVIOUS
  <2> QED BY <2>1
<1>12. results = [k \in 1 .. n |-> results[k]]
  BY <1>9, <1>10
<1> QED BY <1>7, <1>8, <1>10, <1>11, <1>12

\* A stage's turn keeps the invariant.
LEMMA HopInv ==
  ASSUME PipelineInv, NEW S \in Nat, NEW P \in Nat, Sizes(S, P),
         NEW p \in 1 .. S + 1, NEW i \in 0 .. S, NEW o \in 1 .. S + 1,
         i = S + 1 - p, o = S + 2 - p, NEW b \in Nat, Passing(sys, i, o, b),
         NEW contents, NEW after, Hopped(sys, after, p, i, o, b, contents),
         Turn(p, after, TRUE, 1), UNCHANGED <<free_regions, next_batch>>,
         NEW e \in Nat, e = IF p = 1 THEN Len(results) + 1 ELSE Len(results),
         Len(results') = e, BP!BaselineInv'
  PROVE  PipelineInv'
<1>1. /\ config' = config /\ stages' = stages /\ sys' = after
      /\ Head(ready_queue) = p
      /\ Head(ready_queue)' = (IF p = S + 2 THEN 0 ELSE p + 1)
      /\ (ready_queue = [j \in 1 .. processes(config) |->
                              (Head(ready_queue) + (j - 1)) % processes(config)])'
  <2>1. p \in 0 .. S + 2
    OBVIOUS
  <2> QED BY <2>1, Scheduling
<1>2. Own(after, free_regions, next_batch, e)
  BY HopDone
<1>3. Own(sys, free_regions, next_batch, Len(results))'
  <2>1. Own(sys', free_regions', next_batch', Len(results'))
    BY <1>1, <1>2
  <2> QED BY <1>1, <2>1, OwnNext
<1>4. Return(config)' = S + 1 /\ Producer(config)' = S + 2 /\ Return(config) = S + 1
  BY <1>1 DEF Return, Producer, Sizes
<1>5. (next_batch \in 0 .. config.batches)'
  BY <1>1 DEF PipelineInv
<1>6. Head(ready_queue)' = p + 1 /\ p + 1 \in 0 .. S + 2 /\ p + 1 # 0 /\ p + 1 # 1
  BY <1>1
<1>7. \A c \in 0 .. S + 1 :
         after.queues[c] = IF c = i THEN <<>>
                           ELSE IF c = o THEN <<MessageOf(config, after.epochs, b)>> ELSE sys.queues[c]
  <2>1. DOMAIN sys.queues = 0 .. S + 1
    BY <1>4, SystemFacts DEF Own, SystemOK
  <2> QED BY <2>1 DEF Hopped
<1>8. after.queues[S + 1] # <<>> => Carried(after, S + 1) = e - 1
  <2>0. S + 1 \in 0 .. S + 1 /\ S + 1 # i
    OBVIOUS
  <2>1. CASE p = 1
    <3>1. o = S + 1 /\ i = S
      BY <2>1
    <3>2. b = Len(results)
      BY <3>1, SinkBatch DEF Passing
    <3>3. PICK m : m = MessageOf(config, after.epochs, b)
      OBVIOUS
    <3>4. after.queues[S + 1] = <<m>> /\ m.data = b
      BY <1>7, <2>0, <3>1, <3>3 DEF MessageOf
    <3>5. Carried(after, S + 1) = b
      BY <3>4 DEF Carried
    <3> QED BY <2>1, <3>2, <3>5
  <2>2. CASE p # 1
    <3>1. after.queues[S + 1] = sys.queues[S + 1]
      <4>1. S + 1 # o
        BY <2>2
      <4> QED BY <1>7, <2>0, <4>1
    <3>2. sys.queues[S + 1] # <<>> => Carried(sys, S + 1) = Len(results) - 1
      BY <1>4 DEF PipelineInv, ReadyOK
    <3> QED BY <2>2, <3>1, <3>2 DEF Carried
  <2> QED BY <2>1, <2>2
<1>9. ReadyOK'
  <2>1. Carried(sys, Return(config))' = Carried(after, S + 1)
    BY <1>1, <1>4 DEF Carried
  <2>2. (sys.queues[Return(config)])' = after.queues[S + 1]
    BY <1>1, <1>4
  <2>3. (Supervisor = 0 /\ Sink = 1)'
    BY DEF Supervisor, Sink
  <2>4. (sys.queues[Return(config)])' # <<>> =>
          /\ Carried(sys, Return(config))' = Len(results)' - 1
          /\ p + 1 # 0 /\ p + 1 # 1
    BY <1>6, <1>8, <2>1, <2>2
  <2> QED BY <1>1, <1>4, <1>6, <2>3, <2>4 DEF ReadyOK
<1> QED BY <1>3, <1>5, <1>9 DEF PipelineInv

\* What a stage is about to write to is empty.
LEMMA OutputEmpty ==
  ASSUME PipelineInv, NEW S \in Nat, NEW P \in Nat, Sizes(S, P),
         NEW k \in 1 .. S + 2, Head(ready_queue) = k
  PROVE  sys.queues[S + 2 - k] = <<>>
<1>1. Return(config) = S + 1 /\ config.stages = S
  BY DEF Sizes
<1>2. CASE k = 1
  <2>1. S + 2 - k = Return(config)
    BY <1>1, <1>2
  <2> QED BY <1>2, <2>1 DEF PipelineInv, ReadyOK, Sink
<1>3. CASE k # 1
  <2>1. PICK o \in 0 .. S : o = S + 2 - k /\ o \in 0 .. S + 1
    BY <1>3
  <2>2. Chan[o] = <<>>
    BY SMTT(20), <1>1, <1>3, <2>1 DEF PipelineInv, BP!BaselineInv, BP!ScheduleOK, Chan
  <2>3. Messages(sys, o) = <<>>
    BY <1>1, <2>1, <2>2, BaselineSees
  <2>4. ASSUME sys.queues[o] # <<>> PROVE FALSE
    <3>1. PICK m : m = [batch |-> Carried(sys, o), region |-> sys.regions[RegionOf(config, Carried(sys, o))]]
      OBVIOUS
    <3>2. Messages(sys, o) = <<m>>
      BY <1>1, <2>1, <2>4, <3>1, OneMessage, SystemFacts DEF Own
    <3> QED BY <2>3, <3>2
  <2> QED BY <2>1, <2>4
<1> QED BY <1>2, <1>3

\* What the turn of process p does to the channels: one message on, i to o.
PassesOn(p, i, o) ==
  /\ message(p).data = Carried(sys, i) /\ config' = config /\ next_batch' = next_batch
  /\ sys.queues[i] # <<>> /\ sys.queues[o] = <<>>
  /\ sys'.queues[i] = <<>> /\ sys'.queues[o] # <<>> /\ Carried(sys', o) = Carried(sys, i)
  /\ \A c \in 0 .. Return(config) \ {i, o} : sys'.queues[c] = sys.queues[c]

LEMMA HopPassesOn ==
  ASSUME PipelineInv, NEW S \in Nat, NEW P \in Nat, Sizes(S, P), NEW p,
         NEW i \in 0 .. S + 1, NEW o \in 0 .. S + 1, i # o,
         NEW b, Passing(sys, i, o, b), message(p).data = b,
         NEW contents, Hopped(sys, sys', p, i, o, b, contents), config' = config, next_batch' = next_batch
  PROVE  PassesOn(p, i, o)
<1>1. DOMAIN sys.queues = 0 .. S + 1 /\ Return(config) = S + 1
  BY SystemFacts DEF Own, SystemOK, Sizes
<1>2. PICK m : m = MessageOf(config, sys'.epochs, b)
  OBVIOUS
<1>3. \A c \in 0 .. S + 1 :
        sys'.queues[c] = IF c = i THEN <<>> ELSE IF c = o THEN <<m>> ELSE sys.queues[c]
  BY <1>1, <1>2 DEF Hopped
<1>4. sys'.queues[i] = <<>> /\ sys'.queues[o] = <<m>>
  BY <1>3
<1>5. Carried(sys', o) = b
  <2>1. m.data = b
    BY <1>2 DEF MessageOf
  <2> QED BY <1>4, <2>1 DEF Carried
<1>6. \A c \in 0 .. S + 1 \ {i, o} : sys'.queues[c] = sys.queues[c]
  BY <1>3
<1> QED BY <1>1, <1>4, <1>5, <1>6 DEF PassesOn, Passing

LEMMA TransformerStep ==
  ASSUME HandlesSuffice, PipelineInv, NEW S \in Nat, NEW P \in Nat, Sizes(S, P),
         NEW p \in 2 .. S + 1, TransformerTurn(p)
  PROVE  BP!TransformerTurn(S + 1 - p) /\ PipelineInv' /\ PassesOn(p, S + 1 - p, S + 2 - p)
<1>1. PICK i \in 0 .. S - 1, o \in 1 .. S + 1 :
        /\ i = S + 1 - p /\ o = S + 2 - p /\ o = i + 1
        /\ i \in 0 .. S /\ o \in 0 .. S /\ p \in 1 .. S + 1 /\ p \in 1 .. S + 2 /\ p \in 0 .. S + 2
  OBVIOUS
<1>2. config.stages = S /\ Return(config) = S + 1 /\ InputOf(config, p) = i /\ StageOf(config, p) = i
  BY <1>1 DEF Sizes, InputOf, StageOf
<1>3. waiting(sys, input_cap(p)) = sys.queues[i]
  BY <1>1, <1>2, ViewsAre
<1>4. sys.queues[i] # <<>>
  BY <1>3 DEF TransformerTurn
<1>5. PICK b : b = Carried(sys, i) /\ Got(p, i, b)
  BY <1>1, <1>4, Receiving
<1>6. PICK worked : worked = Then(received(p), update(received(p), received_cap(p),
                       transform(StageOf(config, p), received_contents(p))))
  OBVIOUS
<1>7. /\ Turn(p, Then(worked, forwarded(worked, p, received_region(p), message(p).data)), TRUE, 1)
      /\ UNCHANGED <<free_regions, next_batch, results>>
  BY <1>6 DEF TransformerTurn
<1>8. PICK contents : contents = transform(i, sys.regions[RegionOf(config, b)])
  OBVIOUS
<1>9. IsWritten(received(p), worked, RegionOf(config, b), contents) /\ worked.failed = FALSE
  <2>1. worked = update(received(p), received_cap(p), contents)
    BY <1>2, <1>5, <1>6, <1>8 DEF Got, Then
  <2>2. PICK w : w = received(p)
    OBVIOUS
  <2>3. /\ received_cap(p) = RegionCap(config, w.epochs, b) /\ DOMAIN w = Fields /\ w.failed = FALSE
        /\ RegionOf(config, b) \in DOMAIN w.epochs /\ RegionOf(config, b) \in DOMAIN w.regions
    BY <1>5, <2>2, SystemFacts DEF Got
  <2>4. worked = [w EXCEPT !.regions[RegionOf(config, b)] = contents]
    <3>1. update(w, RegionCap(config, w.epochs, b), contents)
            = [w EXCEPT !.regions[RegionOf(config, b)] = contents]
      <4>1. RegionOf(config, b) \in DOMAIN w.epochs /\ RegionOf(config, b) \in DOMAIN w.regions
        BY <2>3
      <4> QED BY <4>1, Updating
    <3> QED BY <2>1, <2>2, <2>3, <3>1
  <2>5. IsWritten(w, worked, RegionOf(config, b), contents)
    BY <2>3, <2>4, FieldsWritten
  <2> QED BY <2>2, <2>3, <2>5 DEF IsWritten
<1>10. PICK after : after = forwarded(worked, p, received_region(p), b)
  OBVIOUS
<1>11. Turn(p, after, TRUE, 1)
  <2>1. message(p).data = b
    BY <1>5 DEF Got
  <2> QED BY <1>7, <1>9, <1>10, <2>1 DEF Then
<1>12. Passing(sys, i, o, b)
  <2>1. Head(ready_queue) = p
    BY <1>11 DEF Turn
  <2>2. sys.queues[S + 2 - p] = <<>>
    BY <1>1, <2>1, OutputEmpty
  <2> QED BY <1>1, <1>4, <1>5, <2>2 DEF Passing
<1>13. Hopped(sys, after, p, i, o, b, contents)
  BY <1>1, <1>5, <1>9, <1>10, <1>12, PassingOn
<1>14. PICK e \in Nat : e = Len(results) /\ e = IF p = 1 THEN Len(results) + 1 ELSE Len(results)
  <2>1. p # 1 /\ Len(results) \in Nat
    BY SystemFacts
  <2> QED BY <2>1
<1>15. b \in Nat
  BY <1>5 DEF Got
<1>16. SeenHop(sys, after, free_regions, i, o, b, contents)
  BY <1>1, <1>12, <1>13, <1>14, <1>15, HopDone
<1>17. config' = config /\ sys' = after /\ BP!Turn(p, TRUE, 1)
  BY <1>1, <1>11, Scheduling
<1>18. BP!TransformerTurn(i)
  <2>1. PICK m : m = [batch |-> b, region |-> sys.regions[RegionOf(config, b)]]
    OBVIOUS
  <2>2. PICK m2 : m2 = [m EXCEPT !.region = transform(i, @)]
    OBVIOUS
  <2>3. m2 = [batch |-> b, region |-> contents]
    BY <1>8, <2>1, <2>2
  <2>4. Chan = [c \in 0 .. S |-> Messages(sys, c)] /\ Chan' = [c \in 0 .. S |-> Messages(after, c)]
    BY <1>2, <1>17, BaselineSees, BaselineSeesNext
  <2>5. Chan[i] = <<m>> /\ Chan[o] = <<>>
    BY <1>1, <1>16, <2>1, <2>4 DEF SeenHop, Seen
  <2>6. \A c \in 0 .. S : Chan'[c] = IF c = i THEN <<>> ELSE IF c = o THEN <<m2>> ELSE Chan[c]
    <3>1. /\ Messages(after, i) = <<>> /\ Messages(after, o) = <<m2>>
          /\ \A c \in 0 .. S + 1 : c # i /\ c # o => Messages(after, c) = Messages(sys, c)
      BY <1>2, <1>16, <2>3 DEF SeenHop, Seen
    <3>2. \A c \in 0 .. S : c \in 0 .. S + 1
      OBVIOUS
    <3> QED BY <2>4, <3>1, <3>2
  <2>7. Chan' = [Chan EXCEPT ![i] = Tail(@), ![i + 1] = Append(@, m2)]
    <3>1. Tail(<<m>>) = <<>> /\ Append(<<>>, m2) = <<m2>>
      OBVIOUS
    <3>2. i # o /\ i \in 0 .. S /\ o \in 0 .. S
      BY <1>1
    <3>3. \A f : DOMAIN f = 0 .. S /\ f[i] = <<m>> /\ f[o] = <<>> =>
            [f EXCEPT ![i] = Tail(@), ![o] = Append(@, m2)]
              = [c \in 0 .. S |-> IF c = i THEN <<>> ELSE IF c = o THEN <<m2>> ELSE f[c]]
      BY <3>1, <3>2
    <3>4. [Chan EXCEPT ![i] = Tail(@), ![o] = Append(@, m2)]
              = [c \in 0 .. S |-> IF c = i THEN <<>> ELSE IF c = o THEN <<m2>> ELSE Chan[c]]
      <4>1. PICK f : f = Chan
        OBVIOUS
      <4>2. DOMAIN f = 0 .. S /\ f[i] = <<m>> /\ f[o] = <<>>
        BY <2>4, <2>5, <4>1
      <4> QED BY <3>3, <4>1, <4>2
    <3>5. Chan' = [c \in 0 .. S |-> IF c = i THEN <<>> ELSE IF c = o THEN <<m2>> ELSE Chan[c]]
      BY <2>4, <2>6
    <3> QED BY <1>1, <3>4, <3>5
  <2>8. Head(Chan[i]) = m /\ Chan[i] # <<>>
    BY <2>5
  <2>9. m2 = [m EXCEPT !.region = BP!transform(i, @)]
    BY <2>2 DEF transform, BP!transform
  <2>10. messages_of(Return(config))' = messages_of(Return(config))
    <3>1. S + 1 \in 0 .. Return(config) /\ S + 1 # i /\ S + 1 # o
      BY <1>1, <1>2
    <3>2. Messages(after, S + 1) = Messages(sys, S + 1)
      BY <1>16, <3>1 DEF SeenHop
    <3> QED BY <1>2, <1>17, <3>2, BaselineSees, BaselineSeesNext
  <2>11. [k \in DOMAIN free_regions |-> contents_of(cap_of(sys, Producer(config), free_regions[k]))]'
           = [k \in DOMAIN free_regions |-> contents_of(cap_of(sys, Producer(config), free_regions[k]))]
    BY <1>7, <1>16, <1>17, BaselineSees, BaselineSeesNext DEF SeenHop
  <2>12. BP!Transformer(i) = p
    BY <1>1, <1>2 DEF BP!Transformer
  <2>13. Chan' = [Chan EXCEPT ![i] = Tail(@),
                      ![i + 1] = Append(@, [Head(Chan[i]) EXCEPT !.region = BP!transform(i, @)])]
    BY <2>7, <2>8, <2>9
  <2> QED BY <1>7, <1>17, <2>8, <2>10, <2>11, <2>12, <2>13 DEF BP!TransformerTurn, Chan
<1>19. BP!BaselineInv'
  <2>1. i \in 0 .. config.stages - 1
    BY <1>1, <1>2
  <2> QED BY <1>18, <2>1, BP!TransformerStep, PipelineAssumption DEF PipelineInv
<1>20. PipelineInv'
  <2>1. UNCHANGED <<free_regions, next_batch>> /\ Len(results') = e
    BY <1>7, <1>14
  <2> QED BY <1>1, <1>11, <1>12, <1>13, <1>14, <1>15, <1>19, <2>1, HopInv
<1>21. BP!TransformerTurn(S + 1 - p)
  BY <1>1, <1>18
<1>22. PassesOn(p, i, o)
  <2>1. message(p).data = b /\ Hopped(sys, sys', p, i, o, b, contents) /\ next_batch' = next_batch
    BY <1>5, <1>7, <1>13, <1>17 DEF Got
  <2>2. i \in 0 .. S + 1 /\ o \in 0 .. S + 1 /\ i # o
    BY <1>1
  <2> QED BY <1>12, <1>17, <2>1, <2>2, HopPassesOn
<1> QED BY <1>1, <1>20, <1>21, <1>22

LEMMA OneMoreResult ==
  ASSUME PipelineInv, NEW x
  PROVE  Len(Append(results, x)) = Len(results) + 1
<1>1. PICK n \in Nat : results = [k \in 1 .. n |-> results[k]]
  <2>1. BP!Waits \in Nat
    BY InvConfig, BP!BusyFinite, PipelineAssumption DEF BP!Waits
  <2>2. /\ next_batch \in Nat /\ BP!Waits <= next_batch
        /\ results = [k \in 1 .. next_batch - BP!Waits |->
                       [batch |-> k - 1,
                        checksum |-> BP!checksum(BP!Contents(k - 1, config.stages))]]
    BY DEF PipelineInv, BP!BaselineInv, BP!ResultsOK
  <2>3. PICK n \in Nat : n = next_batch - BP!Waits
    BY <2>1, <2>2
  <2>4. results = [k \in 1 .. n |-> results[k]]
    BY <2>2, <2>3
  <2> QED BY <2>4
<1>2. PICK f : f = results
  OBVIOUS
<1>3. f = [k \in 1 .. n |-> f[k]]
  BY <1>1, <1>2
<1> DEFINE A == {f[k] : k \in 1 .. n} \union {x}
<1>4. f \in [1 .. n -> A] /\ x \in A
  BY <1>3
<1> HIDE DEF A
<1>5. f \in Seq(A)
  BY <1>4
<1> QED BY <1>2, <1>4, <1>5, AppendIs

LEMMA SinkStep ==
  ASSUME HandlesSuffice, PipelineInv, NEW S \in Nat, NEW P \in Nat, Sizes(S, P), SinkTurn
  PROVE  BP!SinkTurn /\ PipelineInv' /\ PassesOn(1, S, S + 1)
<1>1. PICK p \in 1 .. S + 1, i \in 0 .. S, o \in 1 .. S + 1 :
        /\ p = 1 /\ i = S /\ o = S + 1 /\ i = S + 1 - p /\ o = S + 2 - p
        /\ p \in 1 .. S + 2 /\ p \in 0 .. S + 2
  OBVIOUS
<1>2. config.stages = S /\ Return(config) = S + 1 /\ InputOf(config, p) = i /\ Sink = p
  BY <1>1 DEF Sizes, InputOf, Sink
<1>3. waiting(sys, input_cap(p)) = sys.queues[i]
  BY <1>1, <1>2, ViewsAre
<1>4. sys.queues[i] # <<>>
  BY <1>2, <1>3 DEF SinkTurn
<1>5. PICK b : b = Carried(sys, i) /\ Got(p, i, b)
  BY <1>1, <1>4, Receiving
<1>6. PICK looked : looked = Then(received(p), inspect(received(p), received_cap(p)))
  OBVIOUS
<1>7. /\ Turn(p, Then(looked, forwarded(looked, p, received_region(p), message(p).data)), TRUE, 1)
      /\ results' = IF looked.failed THEN results
                    ELSE Append(results, [batch |-> message(p).data,
                                          checksum |-> checksum(received_contents(p))])
      /\ UNCHANGED <<free_regions, next_batch>>
  BY <1>2, <1>6 DEF SinkTurn
<1>8. PICK contents : contents = sys.regions[RegionOf(config, b)]
  OBVIOUS
<1>9. looked = received(p) /\ IsWritten(received(p), looked, RegionOf(config, b), contents) /\ looked.failed = FALSE
  <2>1. looked = inspect(received(p), received_cap(p))
    BY <1>5, <1>6 DEF Got, Then
  <2>2. PICK w : w = received(p)
    OBVIOUS
  <2>3. /\ received_cap(p) = RegionCap(config, w.epochs, b) /\ DOMAIN w = Fields /\ w.failed = FALSE
        /\ RegionOf(config, b) \in DOMAIN w.epochs /\ RegionOf(config, b) \in DOMAIN w.regions
        /\ w.regions = sys.regions
    BY <1>5, <2>2, SystemFacts DEF Got
  <2>4. looked = w
    <3>1. inspect(w, RegionCap(config, w.epochs, b)) = w
      <4>1. RegionOf(config, b) \in DOMAIN w.epochs /\ RegionOf(config, b) \in DOMAIN w.regions
        BY <2>3
      <4> QED BY <4>1, Updating
    <3> QED BY <2>1, <2>2, <2>3, <3>1
  <2>5. IsWritten(w, w, RegionOf(config, b), contents)
    BY <1>8, <2>3 DEF IsWritten
  <2> QED BY <2>2, <2>3, <2>4, <2>5
<1>10. PICK after : after = forwarded(looked, p, received_region(p), b)
  OBVIOUS
<1>11. Turn(p, after, TRUE, 1)
  <2>1. message(p).data = b
    BY <1>5 DEF Got
  <2> QED BY <1>7, <1>9, <1>10, <2>1 DEF Then
<1>12. Passing(sys, i, o, b)
  <2>1. Head(ready_queue) = p
    BY <1>11 DEF Turn
  <2>2. sys.queues[S + 2 - p] = <<>>
    BY <1>1, <2>1, OutputEmpty
  <2> QED BY <1>1, <1>4, <1>5, <2>2 DEF Passing
<1>13. Hopped(sys, after, p, i, o, b, contents)
  BY <1>1, <1>5, <1>9, <1>10, <1>12, PassingOn
<1>14. PICK e \in Nat : e = Len(results) + 1 /\ e = IF p = 1 THEN Len(results) + 1 ELSE Len(results)
  BY <1>1, SystemFacts
<1>15. b \in Nat
  BY <1>5 DEF Got
<1>16. SeenHop(sys, after, free_regions, i, o, b, contents)
  BY <1>1, <1>12, <1>13, <1>14, <1>15, HopDone
<1>17. config' = config /\ sys' = after /\ BP!Turn(p, TRUE, 1)
  BY <1>1, <1>11, Scheduling
<1>18. results' = Append(results, [batch |-> b, checksum |-> checksum(contents)])
  <2>1. message(p).data = b /\ received_contents(p) = contents
    BY <1>5, <1>8 DEF Got
  <2> QED BY <1>7, <1>9, <2>1
<1>19. BP!SinkTurn
  <2>1. PICK m : m = [batch |-> b, region |-> contents]
    OBVIOUS
  <2>4. Chan = [c \in 0 .. S |-> Messages(sys, c)] /\ Chan' = [c \in 0 .. S |-> Messages(after, c)]
    BY <1>2, <1>17, BaselineSees, BaselineSeesNext
  <2>5. Chan[S] = <<m>> /\ Chan[S] # <<>> /\ Head(Chan[S]) = m
    <3>1. Chan[i] = <<m>>
      BY <1>1, <1>8, <1>16, <2>1, <2>4 DEF SeenHop, Seen
    <3> QED BY <1>1, <3>1
  <2>6. \A c \in 0 .. S : Chan'[c] = IF c = i THEN <<>> ELSE Chan[c]
    <3>1. /\ Messages(after, i) = <<>>
          /\ \A c \in 0 .. S + 1 : c # i /\ c # o => Messages(after, c) = Messages(sys, c)
      BY <1>2, <1>16 DEF SeenHop
    <3>2. \A c \in 0 .. S : c \in 0 .. S + 1 /\ c # o
      BY <1>1
    <3> QED BY <2>4, <3>1, <3>2
  <2>7. Chan' = [Chan EXCEPT ![S] = Tail(@)]
    <3>1. Tail(<<m>>) = <<>>
      OBVIOUS
    <3>2. PICK f : f = Chan
      OBVIOUS
    <3>3. DOMAIN f = 0 .. S /\ f[S] = <<m>>
      BY <2>4, <2>5, <3>2
    <3>4. [f EXCEPT ![S] = Tail(@)] = [c \in 0 .. S |-> IF c = S THEN <<>> ELSE f[c]]
      BY <3>1, <3>3
    <3>5. Chan' = [c \in 0 .. S |-> IF c = S THEN <<>> ELSE Chan[c]]
      BY <1>1, <2>4, <2>6
    <3> QED BY <3>2, <3>4, <3>5
  <2>10. messages_of(Return(config))' = Append(messages_of(Return(config)), m)
    <3>1. Messages(after, o) = <<m>> /\ Messages(sys, o) = <<>>
      BY <1>16, <2>1 DEF SeenHop, Seen
    <3>2. messages_of(Return(config))' = <<m>> /\ messages_of(Return(config)) = <<>>
      BY <1>1, <1>2, <1>17, <3>1, BaselineSees, BaselineSeesNext
    <3>3. Append(<<>>, m) = <<m>>
      OBVIOUS
    <3> QED BY <3>2, <3>3
  <2>11. [k \in DOMAIN free_regions |-> contents_of(cap_of(sys, Producer(config), free_regions[k]))]'
           = [k \in DOMAIN free_regions |-> contents_of(cap_of(sys, Producer(config), free_regions[k]))]
    BY <1>7, <1>16, <1>17, BaselineSees, BaselineSeesNext DEF SeenHop
  <2>12. BP!Sink = p
    BY <1>1 DEF BP!Sink
  <2>13. results' = Append(results, [batch |-> m.batch, checksum |-> BP!checksum(m.region)])
    BY <1>18, <2>1 DEF checksum, BP!checksum
  <2> QED BY <1>2, <1>7, <1>17, <2>5, <2>7, <2>10, <2>11, <2>12, <2>13 DEF BP!SinkTurn, Chan
<1>20. BP!BaselineInv'
  BY <1>19, BP!SinkStep, PipelineAssumption DEF PipelineInv
<1>21. PipelineInv'
  <2>1. Len(results') = e
    BY <1>14, <1>18, OneMoreResult
  <2>2. UNCHANGED <<free_regions, next_batch>>
    BY <1>7
  <2> QED BY <1>1, <1>11, <1>12, <1>13, <1>14, <1>15, <1>20, <2>1, <2>2, HopInv
<1>22. PassesOn(p, i, o)
  <2>1. message(p).data = b /\ Hopped(sys, sys', p, i, o, b, contents) /\ next_batch' = next_batch
    BY <1>5, <1>7, <1>13, <1>17 DEF Got
  <2>2. i \in 0 .. S + 1 /\ o \in 0 .. S + 1 /\ i # o
    BY <1>1
  <2> QED BY <1>12, <1>17, <2>1, <2>2, HopPassesOn
<1> QED BY <1>1, <1>19, <1>21, <1>22

(***************************************************************************)
(* The producer's turn starts with what has come back.                     *)
(***************************************************************************)

\* When the first call leads to `first` and the next finds nothing more.
LEMMA ReturnedIs ==
  ASSUME NEW L \in {0, 1}, Len(waiting(sys, input_cap(Producer(config)))) = L,
         sys.failed = FALSE, NEW first, receive_region(sys, Producer(config)) = first,
         first.failed = FALSE, receive_region(first, Producer(config)) = first,
         L = 0 => first = sys
  PROVE  returned[0] = sys /\ drained = first
<1> DEFINE p == Producer(config)
           Step(f, n) == IF n = 0 THEN sys ELSE Then(f[n - 1], receive_region(f[n - 1], p))
           closed == [n \in 0 .. L + 1 |-> IF n = 0 THEN sys ELSE first]
           after == CHOOSE f : f = [n \in 0 .. L + 1 |-> Step(f, n)]
<1>1. closed = [n \in 0 .. L + 1 |-> Step(closed, n)]
  <2>1. ASSUME NEW n \in 0 .. L + 1
        PROVE  closed[n] = Step(closed, n)
    <3>1. CASE n = 0
      BY <3>1
    <3>2. CASE n = 1
      <4>1. closed[0] = sys /\ closed[n] = first /\ n - 1 = 0
        BY <3>2
      <4> QED BY <3>2, <4>1 DEF Then
    <3>3. CASE n # 0 /\ n # 1
      <4>1. n - 1 \in 0 .. L + 1 /\ n - 1 # 0
        BY <3>3
      <4>2. closed[n - 1] = first /\ closed[n] = first
        BY <3>3, <4>1
      <4> QED BY <3>3, <4>2 DEF Then
    <3> QED BY <3>1, <3>2, <3>3
  <2> QED BY <2>1
<1>2. after = [n \in 0 .. L + 1 |-> Step(after, n)]
  BY <1>1
<1>3. returned = after
  BY DEF returned
<1> HIDE DEF after
<1>4. after[0] = sys
  <2>1. 0 \in 0 .. L + 1
    OBVIOUS
  <2> QED BY <1>2, <2>1
<1>5. after[1] = first
  <2>1. 1 \in 0 .. L + 1 /\ 1 - 1 = 0 /\ 1 # 0
    OBVIOUS
  <2>2. after[1] = Then(after[0], receive_region(after[0], p))
    BY <1>2, <2>1
  <2> QED BY <1>4, <2>2 DEF Then
<1>6. after[L + 1] = first
  <2>1. CASE L = 0
    BY <1>5, <2>1
  <2>2. CASE L = 1
    <3>1. 2 \in 0 .. L + 1 /\ 2 - 1 = 1 /\ 2 # 0
      BY <2>2
    <3>2. after[2] = Then(after[1], receive_region(after[1], p))
      BY <1>2, <3>1
    <3> QED BY <1>5, <2>2, <3>2 DEF Then
  <2> QED BY <2>1, <2>2
<1> QED BY <1>3, <1>4, <1>6 DEF drained

\* After the drain: the invariant, nothing waiting, the baseline's pool.
ProducerReady(S) ==
  /\ Own(drained, Free, next_batch, Len(results))
  /\ BatchesOK(drained, Free, next_batch, Len(results))
  /\ drained.queues[S + 1] = <<>>
  /\ PoolOf(drained, Free) = BP!Drained
  /\ Messages(drained, S + 1) = <<>>
  /\ \A c \in 0 .. S : drained.queues[c] = sys.queues[c] /\ Messages(drained, c) = Messages(sys, c)

LEMMA DrainNone ==
  ASSUME HandlesSuffice, PipelineInv, NEW S \in Nat, NEW P \in Nat, Sizes(S, P),
         sys.queues[S + 1] = <<>>
  PROVE  ProducerReady(S)
<1>1. /\ Return(config) = S + 1 /\ Producer(config) = S + 2 /\ InputOf(config, S + 2) = S + 1
      /\ S + 1 \in 0 .. S + 1 /\ S + 2 \in 1 .. S + 2
  BY DEF Sizes, InputOf
<1>2. /\ input_cap(S + 2) = ReadView(S + 1) /\ waiting(sys, input_cap(S + 2)) = <<>>
  BY <1>1, ViewsAre
<1>3. receive_region(sys, S + 2) = sys
  <2>1. S + 1 \in DOMAIN sys.epochs /\ sys.epochs[S + 1] = 0 /\ S + 1 \in DOMAIN sys.queues
    BY <1>1, SystemFacts
  <2> QED BY <1>2, <2>1, FetchingNone
<1>4. drained = sys
  <2>1. Len(waiting(sys, input_cap(Producer(config)))) = 0
    BY <1>1, <1>2
  <2>2. sys.failed = FALSE /\ receive_region(sys, Producer(config)) = sys
    BY <1>1, <1>3, SystemFacts
  <2> QED BY <2>1, <2>2, ReturnedIs
<1>5. Free = free_regions
  <2>1. free_regions \in Seq(Nat \ {0, 1})
    BY SystemFacts DEF Own, FreeOK
  <2>2. DOMAIN waiting(sys, input_cap(Producer(config))) = {}
    BY <1>1, <1>2
  <2>3. \A f : DOMAIN f = {} => free_regions \o [n \in DOMAIN f |->
                     returned[n - 1].next_handle[Producer(config)]] = free_regions
    <3> SUFFICES ASSUME NEW f, DOMAIN f = {}
                 PROVE  free_regions \o [n \in DOMAIN f |->
                     returned[n - 1].next_handle[Producer(config)]] = free_regions
      OBVIOUS
    <3>1. [n \in DOMAIN f |-> returned[n - 1].next_handle[Producer(config)]] = <<>>
      OBVIOUS
    <3>2. free_regions \o <<>> = free_regions
      BY <2>1
    <3> QED BY <3>1, <3>2
  <2> QED BY <2>2, <2>3 DEF Free
<1>6. Messages(sys, S + 1) = <<>>
  BY NoMessage
<1>7. PoolOf(sys, free_regions) = BP!Drained
  <2>1. PICK pool : pool = PoolOf(sys, free_regions)
    OBVIOUS
  <2>2. pool \in Seq(BP!Region)
    BY <2>1, BaselineSees DEF PipelineInv, BP!BaselineInv, BP!RegionsOK
  <2>3. PICK returns : returns = Messages(sys, S + 1)
    OBVIOUS
  <2>4. BP!Drained = pool \o [k \in DOMAIN returns |-> returns[k].region]
    BY <1>1, <2>1, <2>3, BaselineSees DEF BP!Drained
  <2>5. [k \in DOMAIN returns |-> returns[k].region] = <<>>
    BY <1>6, <2>3
  <2>6. pool \o <<>> = pool
    BY <2>2
  <2> QED BY <2>1, <2>4, <2>5, <2>6
<1> QED BY <1>4, <1>5, <1>6, <1>7, SystemFacts DEF ProducerReady

LEMMA DrainOne ==
  ASSUME HandlesSuffice, PipelineInv, NEW S \in Nat, NEW P \in Nat, Sizes(S, P),
         sys.queues[S + 1] # <<>>
  PROVE  ProducerReady(S)
<1>1. /\ Return(config) = S + 1 /\ Producer(config) = S + 2 /\ InputOf(config, S + 2) = S + 1
      /\ S + 1 \in 0 .. S + 1 /\ S + 2 \in 1 .. S + 2 /\ config.stages = S
  BY DEF Sizes, InputOf
<1>2. /\ Own(sys, free_regions, next_batch, Len(results))
      /\ BatchesOK(sys, free_regions, next_batch, Len(results))
      /\ QueuesOK(sys) /\ HandlesOK(sys, next_batch, Len(results)) /\ config \in Configs
      /\ FreeOK(sys, free_regions, next_batch)
  BY SystemFacts DEF Own
<1>3. PICK b \in Nat : /\ b = Carried(sys, S + 1)
                       /\ sys.queues[S + 1] = <<MessageOf(config, sys.epochs, b)>>
                       /\ Len(sys.queues[S + 1]) = 1
  BY <1>1, <1>2, OneMessage
<1>4. /\ input_cap(S + 2) = ReadView(S + 1) /\ waiting(sys, input_cap(S + 2)) = sys.queues[S + 1]
  BY <1>1, ViewsAre
<1>5. PICK h \in Nat : h = sys.next_handle[S + 2] /\ h + 1 < HandleSpace
  <2>1. PICK d \in Nat, most \in Nat, n \in Nat :
          d = Len(results) /\ most = config.batches /\ n = next_batch /\ d <= n /\ n <= most
    BY <1>2, SystemFacts, ConfigFacts DEF BatchesOK
  <2>2. Returning(sys) = 1 /\ config.pool = P
    BY <1>1 DEF Returning, Sizes
  <2>3. sys.next_handle[S + 2] \in 2 .. 2 + P + d - 1
    BY <1>1, <1>2, <2>1, <2>2 DEF HandlesOK
  <2>4. P + most + 2 < HandleSpace /\ HandleSpace \in Nat
    BY <1>2, <2>1, <2>2, ProcessAssumption DEF HandlesSuffice
  <2>5. PICK x \in Nat : x = sys.next_handle[S + 2] /\ x <= 1 + P + d
    BY <2>3
  <2>7. d <= most
    BY <2>1
  <2>6. x + 1 < HandleSpace
    BY <2>4, <2>5, <2>7
  <2> QED BY <2>5, <2>6
<1>6. PICK t : t = Fetched(sys, S + 2, S + 1, b)
  OBVIOUS
<1>7. receive_region(sys, S + 2) = t
  <2>1. S + 1 \in DOMAIN sys.epochs /\ sys.epochs[S + 1] = 0 /\ S + 1 \in DOMAIN sys.queues
    BY <1>1, SystemFacts
  <2>2. sys.next_handle[S + 2] \in Nat /\ sys.next_handle[S + 2] + 1 < HandleSpace
    BY <1>5
  <2> QED BY <1>3, <1>4, <1>6, <2>1, <2>2, Fetching
<1>8. Draining(sys, t, b, h)
  BY <1>1, <1>3, <1>5, <1>6 DEF Draining, Returning
<1>9. PICK n \in Nat, d \in Nat, free \in {free_regions} : n = next_batch /\ d = Len(results) /\ free = free_regions
  BY SystemFacts
<1>10. Own(sys, free, n, d) /\ BatchesOK(sys, free, n, d) /\ FreeOK(sys, free, n)
  BY <1>2, <1>9
<1>11. Drains(sys, t, S, free, h, n, d)
  BY <1>2, <1>8, <1>10, DrainKeeps
<1>12. SeenDrain(sys, t, free, h, b)
  BY <1>2, <1>8, <1>10, DrainViews
<1>13. /\ SystemOK(t) /\ t.failed = FALSE /\ t.queues[S + 1] = <<>>
  BY <1>11 DEF Drains, Own, SystemOK
<1>14. receive_region(t, S + 2) = t
  <2>1. S + 1 \in DOMAIN t.epochs /\ t.epochs[S + 1] = 0 /\ S + 1 \in DOMAIN t.queues
    <3>1. t.epochs = sys.epochs
      <4>1. DOMAIN sys = Fields
        BY <1>2 DEF Own, SystemOK
      <4>2. IsTaken(sys, t, S + 2, S + 1, RegionCap(config, sys.epochs, b))
        BY <1>6, <4>1, FieldsTaken DEF Fetched
      <4> QED BY <4>2 DEF IsTaken
    <3>2. S + 1 \in DOMAIN sys.epochs /\ sys.epochs[S + 1] = 0
      BY <1>1, SystemFacts
    <3>3. S + 1 \in DOMAIN t.queues
      BY <1>1, <1>13 DEF SystemOK
    <3> QED BY <3>1, <3>2, <3>3
  <2> QED BY <1>4, <1>13, <2>1, FetchingNone
<1>15. returned[0] = sys /\ drained = t
  <2>1. PICK L \in {0, 1} : L = 1 /\ Len(waiting(sys, input_cap(Producer(config)))) = L
    BY <1>1, <1>3, <1>4
  <2>2. sys.failed = FALSE /\ receive_region(sys, Producer(config)) = t
        /\ receive_region(t, Producer(config)) = t
    BY <1>1, <1>7, <1>14, SystemFacts
  <2>3. L = 0 => t = sys
    BY <2>1
  <2> QED BY <1>13, <2>1, <2>2, <2>3, ReturnedIs
<1>16. Free = Append(free, h)
  <2>1. DOMAIN waiting(sys, input_cap(Producer(config))) = {1}
    <3>1. PICK m : m = MessageOf(config, sys.epochs, b)
      OBVIOUS
    <3>2. waiting(sys, input_cap(Producer(config))) = <<m>>
      BY <1>1, <1>3, <1>4, <3>1
    <3> QED BY <3>2
  <2>2. PICK f : f = [k \in {1} |-> returned[k - 1].next_handle[Producer(config)]]
    OBVIOUS
  <2>3. f = [k \in {1} |-> h]
    BY <1>1, <1>5, <1>15, <2>2
  <2>4. f = <<h>>
    BY <2>3
  <2>5. Free = free \o f
    BY <1>9, <2>1, <2>2 DEF Free
  <2>6. free \in Seq(Nat)
    <3>1. free \in Seq(Nat \ {0, 1})
      BY <1>10 DEF FreeOK
    <3> QED BY <3>1
  <2>7. free \o <<h>> = Append(free, h)
    BY <2>6, OneMore
  <2> QED BY <2>4, <2>5, <2>7
<1>17. PoolOf(t, Append(free, h)) = BP!Drained
  <2>1. PICK pool : pool = PoolOf(sys, free)
    OBVIOUS
  <2>2. PICK x : x = sys.regions[RegionOf(config, b)]
    OBVIOUS
  <2>3. PICK m : m = [batch |-> b, region |-> x]
    OBVIOUS
  <2>4. PICK returns : returns = <<m>>
    OBVIOUS
  <2>5. Messages(sys, Return(config)) = returns
    BY <1>12, <2>2, <2>3, <2>4 DEF SeenDrain, Seen
  <2>6. BP!Drained = pool \o [k \in DOMAIN returns |-> returns[k].region]
    BY <1>9, <2>1, <2>5, BaselineSees DEF BP!Drained
  <2>7. [k \in DOMAIN returns |-> returns[k].region] = <<x>>
    <3>1. DOMAIN returns = {1} /\ returns[1].region = x
      BY <2>3, <2>4
    <3>2. [k \in DOMAIN returns |-> returns[k].region] = [k \in {1} |-> x]
      BY <3>1
    <3> QED BY <3>2
  <2> QED BY <1>12, <2>1, <2>2, <2>6, <2>7 DEF SeenDrain
<1>18. Messages(t, S + 1) = <<>> /\ \A c \in 0 .. S : Messages(t, c) = Messages(sys, c)
  BY <1>1, <1>12 DEF SeenDrain
<1>19. \A c \in 0 .. S : t.queues[c] = sys.queues[c]
  BY <1>11 DEF Drains
<1>20. Own(t, Append(free, h), n, d) /\ BatchesOK(t, Append(free, h), n, d)
  BY <1>11 DEF Drains
<1> QED BY <1>9, <1>13, <1>15, <1>16, <1>17, <1>18, <1>19, <1>20 DEF ProducerReady

LEMMA ProducerDrained ==
  ASSUME HandlesSuffice, PipelineInv, NEW S \in Nat, NEW P \in Nat, Sizes(S, P)
  PROVE  ProducerReady(S)
BY DrainNone, DrainOne

\* What was ready in the first channel when the producer's turn came: nothing.
LEMMA ProducerOnlyDrainsStep ==
  ASSUME HandlesSuffice, PipelineInv, NEW S \in Nat, NEW P \in Nat, Sizes(S, P), ProducerOnlyDrains
  PROVE  BP!ProducerOnlyDrains /\ PipelineInv'
<1>1. /\ Return(config) = S + 1 /\ Producer(config) = S + 2 /\ config.stages = S /\ S + 2 \in 0 .. S + 2
      /\ InputOf(config, S + 2) = S + 1 /\ S + 2 \in 1 .. S + 2 /\ S + 1 \in 0 .. S + 1
  BY DEF Sizes, InputOf
<1>2. ProducerReady(S)
  BY ProducerDrained
<1>3. PICK progressed : progressed = (waiting(sys, input_cap(Producer(config))) # <<>>)
  OBVIOUS
<1>4. /\ ~HasWork /\ Turn(S + 2, drained, progressed, 0) /\ free_regions' = Free
      /\ UNCHANGED <<next_batch, results>>
  BY <1>1, <1>3 DEF ProducerOnlyDrains
<1>5. /\ config' = config /\ stages' = stages /\ sys' = drained
      /\ Head(ready_queue)' = 0
      /\ (ready_queue = [j \in 1 .. processes(config) |->
                           (Head(ready_queue) + (j - 1)) % processes(config)])'
      /\ BP!Turn(S + 2, progressed, 0)
  BY <1>1, <1>4, Scheduling
<1>6. /\ Chan' = Chan /\ messages_of(Return(config))' = <<>>
      /\ [k \in DOMAIN free_regions |-> contents_of(cap_of(sys, Producer(config), free_regions[k]))]'
           = BP!Drained
  <2>1. /\ \A c \in 0 .. S : Messages(drained, c) = Messages(sys, c)
        /\ Messages(drained, S + 1) = <<>> /\ PoolOf(drained, Free) = BP!Drained
    BY <1>2 DEF ProducerReady
  <2>2. Chan' = Chan
    BY <1>1, <1>5, <2>1, BaselineSees, BaselineSeesNext
  <2>3. messages_of(Return(config))' = <<>>
    BY <1>1, <1>5, <2>1, BaselineSeesNext
  <2>4. [k \in DOMAIN free_regions |-> contents_of(cap_of(sys, Producer(config), free_regions[k]))]'
           = BP!Drained
    BY <1>4, <1>5, <2>1, BaselineSeesNext
  <2> QED BY <2>2, <2>3, <2>4
<1>7. progressed = (messages_of(Return(config)) # <<>>)
  <2>1. waiting(sys, input_cap(Producer(config))) = sys.queues[S + 1]
    BY <1>1, ViewsAre
  <2>2. CASE sys.queues[S + 1] = <<>>
    <3>1. messages_of(Return(config)) = <<>>
      BY <1>1, <2>2, NoMessage, MessagesAre
    <3> QED BY <1>3, <2>1, <2>2, <3>1
  <2>3. CASE sys.queues[S + 1] # <<>>
    <3>1. PICK m : m = [batch |-> Carried(sys, S + 1),
                        region |-> sys.regions[RegionOf(config, Carried(sys, S + 1))]]
      OBVIOUS
    <3>2. messages_of(Return(config)) = <<m>>
      BY ZenonT(30), <1>1, <2>3, <3>1, OneMessage, MessagesAre, SystemFacts DEF Own
    <3>3. messages_of(Return(config)) # <<>>
      BY <3>2
    <3> QED BY <1>3, <2>1, <2>3, <3>3
  <2> QED BY <2>2, <2>3
<1>8. (Free # <<>>) = (BP!Drained # <<>>)
  <2>1. PoolOf(drained, Free) = BP!Drained /\ Free \in Seq(Nat \ {0, 1})
    BY <1>2 DEF ProducerReady, Own, FreeOK
  <2>2. DOMAIN PoolOf(drained, Free) = DOMAIN Free
    BY DEF PoolOf
  <2>3. CASE Free = <<>>
    <3>1. DOMAIN BP!Drained = {}
      BY <2>1, <2>2, <2>3
    <3>2. BP!Drained = <<>>
      <4>1. PoolOf(drained, Free) = <<>>
        BY <2>3 DEF PoolOf
      <4> QED BY <2>1, <4>1
    <3> QED BY <2>3, <3>2
  <2>4. CASE Free # <<>>
    <3>1. 1 \in DOMAIN Free
      BY <2>1, <2>4
    <3>2. 1 \in DOMAIN BP!Drained
      BY <2>1, <2>2, <3>1
    <3>3. BP!Drained # <<>>
      BY <3>2
    <3> QED BY <2>4, <3>3
  <2> QED BY <2>3, <2>4
<1>9. BP!ProducerOnlyDrains
  <2>1. ~BP!CanSend
    BY <1>4, <1>8 DEF BP!CanSend, HasWork
  <2>2. BP!Producer = S + 2
    BY <1>1 DEF BP!Producer
  <2>3. BP!Turn(BP!Producer, messages_of(Return(config)) # <<>>, 0)
    BY <1>5, <1>7, <2>2
  <2> QED BY <1>4, <1>6, <2>1, <2>3 DEF BP!ProducerOnlyDrains, Chan
<1>10. BP!BaselineInv'
  BY <1>9, BP!ProducerDrainsStep, PipelineAssumption DEF PipelineInv
<1>11. Own(sys, free_regions, next_batch, Len(results))'
  <2>1. Own(sys', free_regions', next_batch', Len(results'))
    BY <1>2, <1>4, <1>5 DEF ProducerReady
  <2> QED BY <1>5, <2>1, OwnNext
<1>12. ReadyOK'
  <2>1. Return(config)' = S + 1 /\ Producer(config)' = S + 2
    BY <1>5 DEF Return, Producer, Sizes
  <2>2. (sys.queues[Return(config)])' = <<>>
    BY <1>2, <1>5, <2>1 DEF ProducerReady
  <2>3. 0 \in 0 .. S + 2
    OBVIOUS
  <2> QED BY <1>5, <2>1, <2>2, <2>3 DEF ReadyOK
<1>13. (next_batch \in 0 .. config.batches)'
  BY <1>4, <1>5 DEF PipelineInv
<1> QED BY <1>9, <1>10, <1>11, <1>12, <1>13 DEF PipelineInv

\* Batch n is filled into the first of the regions `free` of s and sent.
LEMMA SendFields ==
  ASSUME PipelineInv, NEW S \in Nat, NEW P \in Nat, Sizes(S, P),
         NEW s, NEW free, NEW n \in Nat, NEW d \in Nat,
         Own(s, free, n, d), BatchesOK(s, free, n, d), free # <<>>, s.queues[0] = <<>>,
         NEW filled,
         filled = Then(s, update(s, cap_of(s, Producer(config), Head(free)),
                    fill_batch(n, s.regions[cap_of(s, Producer(config), Head(free)).object])))
  PROVE  /\ filled.failed = FALSE
         /\ Sending(s, forwarded(filled, Producer(config), Head(free), n), free, n)
<1>1. /\ Return(config) = S + 1 /\ Producer(config) = S + 2 /\ OutputOf(config, S + 2) = 0
      /\ S + 2 \in 1 .. S + 2 /\ S + 2 \in 0 .. S + 2 /\ Regions(config) = S + 2 .. S + 1 + P
  BY DEF Sizes, OutputOf
<1>2. /\ SystemOK(s) /\ TableDomainsOK(s, free) /\ FreeOK(s, free, n) /\ config \in Configs
  BY SystemFacts DEF Own
<1>3. ApartOK(s, free, n)
  BY <1>2, RegionsApart DEF FreeOK, Own
<1>4. PICK h : h = Head(free) /\ h = free[1] /\ 1 \in DOMAIN free
  BY <1>2, TailIs DEF FreeOK
<1>5. PICK r \in Regions(config) : r = RegionOf(config, n)
  <2>1. n + (1 - 1) = n
    OBVIOUS
  <2>2. RegionOf(config, n + (1 - 1)) \in Regions(config)
    BY <1>3, <1>4 DEF ApartOK
  <2> QED BY <2>1, <2>2
<1>6. s.tables[S + 2][h] = RegionCap(config, s.epochs, n)
  <2>1. n + (1 - 1) = n
    OBVIOUS
  <2>2. s.tables[Producer(config)][free[1]] = RegionCap(config, s.epochs, n + (1 - 1))
    BY <1>2, <1>4 DEF FreeOK
  <2> QED BY <1>1, <1>4, <2>1, <2>2
<1>7. h \in DOMAIN s.tables[S + 2]
  <2>1. h \in SetOf(free)
    BY <1>4 DEF SetOf
  <2> QED BY <1>1, <1>2, <2>1 DEF TableDomainsOK
<1>8. /\ DOMAIN s = Fields /\ s.failed = FALSE
      /\ DOMAIN s.tables = 0 .. S + 2 /\ DOMAIN s.queues = 0 .. S + 1
      /\ 0 \in DOMAIN s.queues /\ S + 2 \in DOMAIN s.tables
      /\ s.epochs[0] = 0
  <2>1. 0 \in 0 .. S + 1
    OBVIOUS
  <2> QED BY <1>1, <1>2, <2>1 DEF SystemOK
<1>9. 0 \in DOMAIN s.epochs /\ r \in DOMAIN s.epochs /\ r \in DOMAIN s.regions
  <2>1. DOMAIN s.epochs = 0 .. S + 1 + P /\ DOMAIN s.regions = S + 2 .. S + 1 + P
    BY <1>1, <1>2 DEF SystemOK, Sizes
  <2>2. r \in S + 2 .. S + 1 + P
    BY <1>1
  <2>3. 0 \in 0 .. S + 1 + P /\ r \in 0 .. S + 1 + P
    BY <2>2
  <2> QED BY <2>1, <2>2, <2>3
<1>10. PICK contents : contents = fill_batch(n, s.regions[r])
  OBVIOUS
<1>11. IsWritten(s, filled, r, contents)
  <2>1. cap_of(s, Producer(config), Head(free)) = RegionCap(config, s.epochs, n)
    BY <1>1, <1>4, <1>6 DEF cap_of
  <2>2. RegionCap(config, s.epochs, n).object = r
    BY <1>5 DEF RegionCap
  <2>3. filled = update(s, RegionCap(config, s.epochs, n), contents)
    BY <1>8, <1>10, <2>1, <2>2 DEF Then
  <2>4. update(s, RegionCap(config, s.epochs, n), contents) = [s EXCEPT !.regions[r] = contents]
    <3>1. RegionOf(config, n) \in DOMAIN s.epochs /\ RegionOf(config, n) \in DOMAIN s.regions
      BY <1>5, <1>9
    <3> QED BY ZenonT(60), <1>5, <3>1, Updating
  <2> QED BY <1>8, <2>3, <2>4, FieldsWritten
<1>12. /\ DOMAIN filled = Fields /\ filled.failed = FALSE /\ filled.held = s.held
       /\ filled.epochs = s.epochs /\ filled.next_handle = s.next_handle
       /\ filled.queues = s.queues /\ filled.tables = s.tables
       /\ DOMAIN filled.regions = DOMAIN s.regions
       /\ \A x \in DOMAIN s.regions : filled.regions[x] = IF x = r THEN contents ELSE s.regions[x]
  BY <1>8, <1>11 DEF IsWritten
<1>13. PICK m : m = MessageOf(config, Raised(s.epochs, r), n)
  OBVIOUS
<1>14. PICK t : t = forwarded(filled, S + 2, h, n)
  OBVIOUS
<1>15. t = Passed(filled, S + 2, h, r, 0, m)
  <2>1. output_cap(S + 2) = WriteView(0)
    BY <1>1, ViewsAre
  <2>2. /\ h \in DOMAIN filled.tables[S + 2]
        /\ filled.tables[S + 2][h] = RegionCap(config, filled.epochs, n)
        /\ RegionOf(config, n) \in DOMAIN filled.epochs
        /\ 0 \in DOMAIN filled.epochs /\ filled.epochs[0] = 0 /\ 0 \in DOMAIN filled.queues
    BY <1>5, <1>6, <1>7, <1>8, <1>9, <1>12
  <2>3. forwarded(filled, S + 2, h, n) =
           Passed(filled, S + 2, h, RegionOf(config, n), 0,
                  MessageOf(config, Raised(filled.epochs, RegionOf(config, n)), n))
    BY SMTT(20), <2>1, <2>2, Forwarding
  <2> QED BY <1>5, <1>12, <1>13, <1>14, <2>3
<1>16. /\ DOMAIN t = Fields /\ t.failed = FALSE /\ t.held = s.held
       /\ t.regions = filled.regions /\ t.next_handle = s.next_handle
       /\ t.epochs = Raised(s.epochs, r)
       /\ t.queues = [s.queues EXCEPT ![0] = Append(s.queues[0], m)]
       /\ t.tables = [s.tables EXCEPT ![S + 2] = Without(s.tables[S + 2], h)]
  <2>1. IsPassed(filled, t, S + 2, h, r, 0, m)
    BY <1>12, <1>15, FieldsPassed
  <2> QED BY ZenonT(30), <1>12, <2>1 DEF IsPassed
<1>17. DOMAIN t.queues = DOMAIN s.queues /\ \A c \in DOMAIN s.queues :
         t.queues[c] = IF c = 0 THEN <<MessageOf(config, t.epochs, n)>> ELSE s.queues[c]
  <2>1. Append(<<>>, m) = <<m>>
    OBVIOUS
  <2>2. m = MessageOf(config, t.epochs, n)
    BY <1>13, <1>16
  <2>3. Append(s.queues[0], m) = <<m>>
    BY <2>1
  <2> QED BY <1>8, <1>16, <2>2, <2>3
<1>18. DOMAIN t.tables = DOMAIN s.tables /\ \A q \in DOMAIN s.tables :
         /\ DOMAIN t.tables[q] = DOMAIN s.tables[q] \ (IF q = S + 2 THEN {h} ELSE {})
         /\ \A k \in DOMAIN t.tables[q] : t.tables[q][k] = s.tables[q][k]
  <2>1. \A q \in DOMAIN s.tables :
          t.tables[q] = IF q = S + 2 THEN Without(s.tables[S + 2], h) ELSE s.tables[q]
    BY <1>8, <1>16
  <2>2. \A table : /\ DOMAIN Without(table, h) = DOMAIN table \ {h}
                   /\ \A k \in DOMAIN table \ {h} : Without(table, h)[k] = table[k]
    BY DEF Without
  <2>3. DOMAIN t.tables = DOMAIN s.tables
    BY <1>16
  <2> SUFFICES ASSUME NEW q \in DOMAIN s.tables
               PROVE  /\ DOMAIN t.tables[q] = DOMAIN s.tables[q] \ (IF q = S + 2 THEN {h} ELSE {})
                      /\ \A k \in DOMAIN t.tables[q] : t.tables[q][k] = s.tables[q][k]
    BY <2>3
  <2>4. CASE q = S + 2
    <3>1. PICK table : table = s.tables[S + 2]
      OBVIOUS
    <3>2. t.tables[q] = Without(table, h) /\ s.tables[q] = table
      BY <2>1, <2>4, <3>1
    <3>3. PICK rest : rest = Without(table, h)
      OBVIOUS
    <3>4. DOMAIN rest = DOMAIN table \ {h} /\ \A k \in DOMAIN table \ {h} : rest[k] = table[k]
      BY <2>2, <3>3
    <3>5. DOMAIN rest = DOMAIN s.tables[q] \ {h} /\ \A k \in DOMAIN rest : rest[k] = s.tables[q][k]
      BY <3>2, <3>4
    <3>6. t.tables[q] = rest
      BY <3>2, <3>3
    <3> QED BY <2>4, <3>5, <3>6
  <2>5. CASE q # S + 2
    <3>1. t.tables[q] = s.tables[q]
      BY SMTT(20), <2>1, <2>5
    <3> QED BY <2>5, <3>1
  <2> QED BY <2>4, <2>5
<1>19. DOMAIN t.regions = DOMAIN s.regions /\ \A x \in DOMAIN s.regions :
         t.regions[x] = IF x = r THEN fill_batch(n, s.regions[r]) ELSE s.regions[x]
  BY ZenonT(30), <1>10, <1>12, <1>16
<1>20. Sending(s, t, free, n)
  BY <1>1, <1>4, <1>5, <1>16, <1>17, <1>18, <1>19 DEF Sending
<1> QED BY <1>1, <1>4, <1>12, <1>14, <1>20

\* What the producer's turn does to the channels when it sends a batch.
StartsBatch ==
  /\ config' = config /\ next_batch' = next_batch + 1
  /\ sys.queues[0] = <<>> /\ sys'.queues[0] # <<>> /\ Carried(sys', 0) = next_batch
  /\ sys'.queues[Return(config)] = <<>>
  /\ \A c \in 1 .. config.stages : sys'.queues[c] = sys.queues[c]

LEMMA ProducerSendsStep ==
  ASSUME HandlesSuffice, PipelineInv, NEW S \in Nat, NEW P \in Nat, Sizes(S, P), ProducerSends
  PROVE  BP!ProducerSends /\ PipelineInv' /\ StartsBatch
<1>1. /\ Return(config) = S + 1 /\ Producer(config) = S + 2 /\ config.stages = S /\ S + 2 \in 0 .. S + 2
      /\ S + 2 - (S + 2) = 0 /\ S + 2 \in 1 .. S + 2 /\ S + 1 \in 0 .. S + 1
  BY SMTT(20) DEF Sizes
<1>2. ProducerReady(S) /\ config \in Configs
  BY ProducerDrained, SystemFacts
<1>3. PICK n \in Nat, d \in Nat, free \in {Free}, s \in {drained} :
        n = next_batch /\ d = Len(results) /\ free = Free /\ s = drained
  BY SystemFacts
<1>4. /\ Own(s, free, n, d) /\ BatchesOK(s, free, n, d)
      /\ s.queues[S + 1] = <<>> /\ PoolOf(s, free) = BP!Drained /\ Messages(s, S + 1) = <<>>
      /\ \A c \in 0 .. S : s.queues[c] = sys.queues[c] /\ Messages(s, c) = Messages(sys, c)
  BY <1>2, <1>3 DEF ProducerReady
<1>5. PICK filled : filled = Then(s, update(s, cap_of(s, Producer(config), Head(free)),
                    fill_batch(n, s.regions[cap_of(s, Producer(config), Head(free)).object])))
  OBVIOUS
<1>6. /\ n < config.batches /\ free # <<>>
      /\ Turn(S + 2, Then(filled, forwarded(filled, Producer(config), Head(free), n)), TRUE, 1)
      /\ free_regions' = Tail(free) /\ next_batch' = n + 1 /\ results' = results
  BY <1>1, <1>3, <1>5 DEF ProducerSends, HasWork, LeftFree
<1>7. s.queues[0] = <<>>
  <2>1. Head(ready_queue) = S + 2
    BY <1>6 DEF Turn
  <2>2. sys.queues[0] = <<>>
    BY <1>1, <2>1, OutputEmpty
  <2>3. 0 \in 0 .. S
    OBVIOUS
  <2> QED BY <1>4, <2>2, <2>3
<1>8. PICK t : t = forwarded(filled, Producer(config), Head(free), n)
  OBVIOUS
<1>9. Sending(s, t, free, n) /\ filled.failed = FALSE
  BY ZenonT(30), <1>4, <1>5, <1>6, <1>7, <1>8, SendFields
<1>10. Turn(S + 2, t, TRUE, 1)
  BY <1>6, <1>8, <1>9 DEF Then
<1>11. /\ config' = config /\ stages' = stages /\ sys' = t
       /\ Head(ready_queue)' = 0
       /\ (ready_queue = [j \in 1 .. processes(config) |->
                            (Head(ready_queue) + (j - 1)) % processes(config)])'
       /\ BP!Turn(S + 2, TRUE, 1)
  BY <1>1, <1>10, Scheduling
<1>12. Returning(s) = 0
  BY <1>1, <1>4 DEF Returning
<1>13. Own(t, Tail(free), n + 1, d)
  BY <1>2, <1>4, <1>6, <1>9, <1>12, SendKeeps
<1>14. SeenSend(s, t, free, n)
  BY <1>2, <1>4, <1>6, <1>9, <1>12, SendViews
<1>15. PICK m : m = [batch |-> n, region |-> fill_batch(n, Head(BP!Drained))]
  OBVIOUS
<1>16. Chan[0] = <<>> /\ Chan' = [Chan EXCEPT ![0] = Append(@, m)]
  <2>1. Chan = [c \in 0 .. S |-> Messages(sys, c)] /\ Chan' = [c \in 0 .. S |-> Messages(t, c)]
    BY <1>1, <1>11, BaselineSees, BaselineSeesNext
  <2>2. Messages(t, 0) = <<m>> /\ Messages(s, 0) = <<>>
    BY <1>4, <1>14, <1>15 DEF SeenSend, Seen
  <2>3. 0 \in 0 .. S
    OBVIOUS
  <2>4. \A c \in 0 .. S : c # 0 => Messages(t, c) = Messages(sys, c)
    <3> SUFFICES ASSUME NEW c \in 0 .. S, c # 0 PROVE Messages(t, c) = Messages(sys, c)
      OBVIOUS
    <3>1. c \in 1 .. S + 1
      OBVIOUS
    <3>2. Messages(t, c) = Messages(s, c)
      BY <1>1, <1>14, <3>1 DEF SeenSend
    <3> QED BY <1>4, <3>2
  <2>5. Chan[0] = <<>>
    BY <1>4, <2>1, <2>2, <2>3
  <2>6. PICK f : f = Chan
    OBVIOUS
  <2>7. DOMAIN f = 0 .. S /\ f[0] = <<>>
    BY <2>1, <2>5, <2>6
  <2>8. Append(<<>>, m) = <<m>>
    OBVIOUS
  <2>9. [f EXCEPT ![0] = Append(@, m)] = [c \in 0 .. S |-> IF c = 0 THEN <<m>> ELSE f[c]]
    BY <2>7, <2>8
  <2>10. Chan' = [c \in 0 .. S |-> IF c = 0 THEN <<m>> ELSE Chan[c]]
    BY <2>1, <2>2, <2>4
  <2> QED BY <2>5, <2>6, <2>9, <2>10
<1>17. messages_of(Return(config))' = <<>>
  <2>1. S + 1 \in 1 .. S + 1
    OBVIOUS
  <2>2. Messages(t, S + 1) = <<>>
    BY <1>1, <1>4, <1>14, <2>1 DEF SeenSend
  <2> QED BY <1>1, <1>11, <2>2, BaselineSeesNext
<1>18. [k \in DOMAIN free_regions |-> contents_of(cap_of(sys, Producer(config), free_regions[k]))]'
         = Tail(BP!Drained)
  BY <1>4, <1>6, <1>11, <1>14, BaselineSeesNext DEF SeenSend
<1>19. BP!ProducerSends
  <2>1. BP!CanSend
    BY <1>3, <1>4, <1>6, <1>14 DEF BP!CanSend, SeenSend
  <2>2. BP!Producer = S + 2
    BY <1>1 DEF BP!Producer
  <2>3. m = [batch |-> next_batch, region |-> BP!fill_batch(next_batch, Head(BP!Drained))]
    BY <1>3, <1>15 DEF fill_batch, BP!fill_batch
  <2>4. next_batch' = next_batch + 1
    BY <1>3, <1>6
  <2> QED BY <1>6, <1>11, <1>16, <1>17, <1>18, <2>1, <2>2, <2>3, <2>4 DEF BP!ProducerSends, Chan
<1>20. BP!BaselineInv'
  BY <1>19, BP!ProducerSendsStep, PipelineAssumption DEF PipelineInv
<1>21. Own(sys, free_regions, next_batch, Len(results))'
  <2>1. Own(sys', free_regions', next_batch', Len(results'))
    BY <1>3, <1>6, <1>11, <1>13
  <2> QED BY <1>11, <2>1, OwnNext
<1>22. ReadyOK'
  <2>1. Return(config)' = S + 1 /\ Producer(config)' = S + 2
    BY <1>11 DEF Return, Producer, Sizes
  <2>2. t.queues[S + 1] = <<>>
    <3>1. S + 1 \in DOMAIN s.queues /\ S + 1 # 0
      BY <1>1, <1>4 DEF Own, SystemOK
    <3> QED BY <1>4, <1>9, <3>1 DEF Sending
  <2>3. (sys.queues[Return(config)])' = <<>>
    BY <1>11, <2>1, <2>2
  <2>4. 0 \in 0 .. S + 2
    OBVIOUS
  <2> QED BY <1>11, <2>1, <2>3, <2>4 DEF ReadyOK
<1>23. (next_batch \in 0 .. config.batches)'
  <2>1. config.batches \in Nat
    BY <1>2, ConfigFacts
  <2>2. n + 1 \in 0 .. config.batches
    BY <1>6, <2>1
  <2> QED BY <1>6, <1>11, <2>2
<1>24. StartsBatch
  <2>1. DOMAIN s.queues = 0 .. S + 1
    BY <1>1, <1>4 DEF Own, SystemOK
  <2>2. PICK sent : sent = MessageOf(config, t.epochs, n)
    OBVIOUS
  <2>3. \A c \in 0 .. S + 1 : t.queues[c] = IF c = 0 THEN <<sent>> ELSE s.queues[c]
    BY <1>9, <2>1, <2>2 DEF Sending
  <2>4. 0 \in 0 .. S + 1 /\ 0 \in 0 .. S /\ S + 1 \in 0 .. S + 1 /\ S + 1 # 0
        /\ \A c \in 1 .. S : c \in 0 .. S + 1 /\ c \in 0 .. S /\ c # 0
    OBVIOUS
  <2>5. t.queues[0] = <<sent>> /\ t.queues[S + 1] = <<>> /\ sys.queues[0] = <<>>
    BY <1>4, <1>7, <2>3, <2>4
  <2>6. \A c \in 1 .. S : t.queues[c] = sys.queues[c]
    BY <1>4, <2>3, <2>4
  <2>7. Carried(t, 0) = n /\ t.queues[0] # <<>>
    <3>1. sent.data = n
      BY <2>2 DEF MessageOf
    <3> QED BY <2>5, <3>1 DEF Carried
  <2>8. next_batch' = next_batch + 1
    BY <1>3, <1>6
  <2> QED BY <1>1, <1>3, <1>11, <2>5, <2>6, <2>7, <2>8 DEF StartsBatch
<1> QED BY <1>19, <1>20, <1>21, <1>22, <1>23, <1>24 DEF PipelineInv

LEMMA PipelineSteps ==
  ASSUME HandlesSuffice, PipelineInv, Next
  PROVE  BP!Next /\ PipelineInv'
<1>1. PICK S \in Nat, P \in Nat : Sizes(S, P)
  BY InvConfig, SizesExist
<1>2. config.stages = S
  BY <1>1 DEF Sizes
<1>3. CASE SupervisorTurn
  BY <1>1, <1>3, SupervisorStep DEF BP!Next
<1>4. ASSUME NEW p \in Stages, StageIdle(p)
      PROVE  BP!Next /\ PipelineInv'
  <2>1. p \in 1 .. S + 1 /\ S + 1 - p \in 0 .. config.stages
    BY <1>2 DEF Stages
  <2>2. BP!StageIdle(S + 1 - p) /\ PipelineInv'
    BY <1>1, <1>4, <2>1, StageIdleStep
  <2> QED BY <2>1, <2>2 DEF BP!Next
<1>5. ASSUME NEW p \in Stages \ {Sink}, TransformerTurn(p)
      PROVE  BP!Next /\ PipelineInv'
  <2>1. p \in 2 .. S + 1 /\ S + 1 - p \in 0 .. config.stages - 1
    BY <1>2 DEF Stages, Sink
  <2>2. BP!TransformerTurn(S + 1 - p) /\ PipelineInv'
    BY <1>1, <1>5, <2>1, TransformerStep
  <2> QED BY <2>1, <2>2 DEF BP!Next
<1>6. CASE SinkTurn
  BY <1>1, <1>6, SinkStep DEF BP!Next
<1>7. CASE ProducerSends
  BY <1>1, <1>7, ProducerSendsStep DEF BP!Next
<1>8. CASE ProducerOnlyDrains
  BY <1>1, <1>8, ProducerOnlyDrainsStep DEF BP!Next
<1> QED BY <1>3, <1>4, <1>5, <1>6, <1>7, <1>8 DEF Next

(***************************************************************************)
(* The boot: the supervisor gets a capability for every object, and gives  *)
(* each child what it needs.                                               *)
(***************************************************************************)

FullCap(o) == [object |-> o, rights |-> RegionRights, epoch |-> 0]
FullTable(m) == [o \in 0 .. m |-> FullCap(o)]

\* A new process gets its capabilities in order, from handle 0.
LEMMA GrantedAll ==
  ASSUME NEW caps, NEW L \in Nat, DOMAIN caps = 1 .. L, Len(caps) = L, L < HandleSpace
  PROVE  /\ Granted(Empty, 0, caps) = [h \in 0 .. L - 1 |-> caps[h + 1]]
         /\ NextHandle(0, caps) = L
<1>1. ASSUME NEW k \in 1 .. L + 1
      PROVE  HandleOf(0, k) = k - 1
  <2>1. 0 + k - 1 = k - 1 /\ k - 1 \in Nat /\ k - 1 < HandleSpace
    BY ProcessAssumption
  <2> QED BY <2>1, SmallHandle DEF HandleOf
<1> DEFINE At(h) == {k \in DOMAIN caps : HandleOf(0, k) = h}
<1>2. ASSUME NEW h \in 0 .. L - 1
      PROVE  At(h) = {h + 1}
  <2>1. h + 1 \in 1 .. L /\ h + 1 \in 1 .. L + 1 /\ h + 1 - 1 = h
    OBVIOUS
  <2>2. \A k \in 1 .. L : HandleOf(0, k) = k - 1
    BY <1>1
  <2>3. \A k \in 1 .. L : k - 1 = h <=> k = h + 1
    OBVIOUS
  <2> QED BY <2>1, <2>2, <2>3
<1>3. {HandleOf(0, k) : k \in DOMAIN caps} = 0 .. L - 1
  <2>1. \A k \in 1 .. L : HandleOf(0, k) = k - 1
    BY <1>1
  <2>2. \A h \in 0 .. L - 1 : h + 1 \in 1 .. L /\ h = (h + 1) - 1
    OBVIOUS
  <2>3. \A k \in 1 .. L : k - 1 \in 0 .. L - 1
    OBVIOUS
  <2>4. {k - 1 : k \in 1 .. L} = 0 .. L - 1
    BY <2>2, <2>3
  <2>5. {HandleOf(0, k) : k \in 1 .. L} = {k - 1 : k \in 1 .. L}
    BY <2>1
  <2> QED BY <2>4, <2>5
<1>4. DOMAIN Empty = {}
  BY DEF Empty
<1>5. DOMAIN Empty \union {HandleOf(0, k) : k \in DOMAIN caps} = 0 .. L - 1
  BY <1>3, <1>4
<1>6. Granted(Empty, 0, caps) =
        [h \in 0 .. L - 1 |-> IF At(h) = {} THEN Empty[h]
                              ELSE caps[CHOOSE k \in At(h) : \A j \in At(h) : j <= k]]
  BY <1>5 DEF Granted
<1> HIDE DEF At
<1>7. ASSUME NEW h \in 0 .. L - 1
      PROVE  (IF At(h) = {} THEN Empty[h]
              ELSE caps[CHOOSE k \in At(h) : \A j \in At(h) : j <= k]) = caps[h + 1]
  <2>1. PICK i \in Nat : i = h + 1
    OBVIOUS
  <2>2. At(h) = {i}
    BY <1>2, <2>1
  <2>3. (CHOOSE k \in {i} : \A j \in {i} : j <= k) = i
    OBVIOUS
  <2> QED BY <2>1, <2>2, <2>3
<1>8. NextHandle(0, caps) = L
  <2>1. L + 1 \in 1 .. L + 1
    OBVIOUS
  <2>2. HandleOf(0, L + 1) = L
    BY <1>1, <2>1
  <2> QED BY <2>2 DEF NextHandle
<1> QED BY <1>6, <1>7, <1>8

LEMMA DerivedView ==
  ASSUME NEW o
  PROVE  derived(FullCap(o), {"READ"}) = ReadView(o) /\ derived(FullCap(o), {"WRITE"}) = WriteView(o)
<1>1. \A rights, kept : [[object |-> o, rights |-> rights, epoch |-> 0] EXCEPT !.rights = kept]
                         = [object |-> o, rights |-> kept, epoch |-> 0]
  OBVIOUS
<1> QED BY <1>1 DEF derived, FullCap, ReadView, WriteView

\* What a child is spawned with: two views, derived from what the supervisor has.
LEMMA ViewsBatch ==
  ASSUME NEW m \in Nat, NEW epochs, epochs = [o \in 0 .. m |-> 0],
         NEW i \in 0 .. m, NEW o \in 0 .. m
  PROVE  /\ ValidBatch(epochs, FullTable(m), Views(i, o))
         /\ Delivered(epochs, FullTable(m), Views(i, o)) = <<ReadView(i), WriteView(o)>>
         /\ AfterBatch(epochs, FullTable(m), Views(i, o)) = epochs
         /\ Remaining(FullTable(m), Views(i, o)) = FullTable(m)
<1>1. PICK table : table = FullTable(m)
  OBVIOUS
<1>2. DOMAIN table = 0 .. m /\ table[i] = FullCap(i) /\ table[o] = FullCap(o)
  BY <1>1 DEF FullTable
<1>3. PICK grants : grants = Views(i, o)
  OBVIOUS
<1>4. DOMAIN grants = {1, 2}
      /\ grants[1] = Derive(i, {"READ"}) /\ grants[2] = Derive(o, {"WRITE"})
  BY <1>3 DEF Views
<1>5. \A k \in DOMAIN grants : grants[k].kind = "Derive"
  BY <1>4 DEF Derive
<1>6. /\ grants[1].handle = i /\ grants[1].rights = {"READ"}
      /\ grants[2].handle = o /\ grants[2].rights = {"WRITE"}
  BY <1>4 DEF Derive
<1>7. \A x \in 0 .. m : Permits(epochs, FullCap(x), {"GRANT"})
  <2> SUFFICES ASSUME NEW x \in 0 .. m
               PROVE  Permits(epochs, FullCap(x), {"GRANT"})
    OBVIOUS
  <2>1. Live(epochs, FullCap(x)) /\ "GRANT" \in FullCap(x).rights
    BY DEF Live, object_exists, FullCap, RegionRights
  <2> QED BY <2>1, PermitsWhenLive
<1>8. \A x \in 0 .. m : "READ" \in FullCap(x).rights /\ "WRITE" \in FullCap(x).rights
  BY DEF FullCap, RegionRights
<1>9. ValidBatch(epochs, table, grants)
  <2>1. \A k \in DOMAIN grants : grants[k].handle \in DOMAIN table
    BY <1>2, <1>4, <1>6
  <2>2. Authorised(epochs, table, grants[1]) /\ Authorised(epochs, table, grants[2])
    <3>1. CanDerive(epochs, table[i], {"READ"}) /\ CanDerive(epochs, table[o], {"WRITE"})
      BY <1>2, <1>7, <1>8 DEF CanDerive, contains
    <3>2. grants[1].kind # "Move" /\ grants[2].kind # "Move"
      BY <1>4, <1>5
    <3> QED BY <1>6, <3>1, <3>2 DEF Authorised
  <2>3. NoDuplicateTransfer(grants) /\ NoMoveConflict(table, grants)
    BY <1>5 DEF NoDuplicateTransfer, NoMoveConflict, leaves
  <2> QED BY <1>4, <2>1, <2>2, <2>3 DEF ValidBatch
<1>10. Delivered(epochs, table, grants) = <<ReadView(i), WriteView(o)>>
  <2>1. derived(FullCap(i), {"READ"}) = ReadView(i) /\ derived(FullCap(o), {"WRITE"}) = WriteView(o)
    BY DerivedView
  <2>2. Delivered(epochs, table, grants)
          = [k \in {1, 2} |-> derived(table[grants[k].handle], grants[k].rights)]
    BY <1>4, <1>5 DEF Delivered
  <2>3. PICK a, b : a = ReadView(i) /\ b = WriteView(o)
    OBVIOUS
  <2>4. Delivered(epochs, table, grants) = [k \in {1, 2} |-> IF k = 1 THEN a ELSE b]
    BY ZenonT(30), <1>2, <1>6, <2>1, <2>2, <2>3
  <2>5. [k \in {1, 2} |-> IF k = 1 THEN a ELSE b] = <<a, b>>
    OBVIOUS
  <2> QED BY <2>3, <2>4, <2>5
<1>11. AfterBatch(epochs, table, grants) = epochs
  <2>1. Moved(table, grants) = {}
    BY <1>5 DEF Moved
  <2> QED BY <2>1 DEF AfterBatch
<1>12. Remaining(table, grants) = table
  <2>1. {k \in DOMAIN table : \A j \in DOMAIN grants : leaves(grants[j]) => grants[j].handle # k}
          = DOMAIN table
    BY <1>5 DEF leaves
  <2>2. table = [k \in DOMAIN table |-> table[k]]
    BY <1>1 DEF FullTable
  <2> QED BY <2>1, <2>2 DEF Remaining
<1> QED BY <1>1, <1>3, <1>9, <1>10, <1>11, <1>12

\* The producer's: its two views, and the whole pool.
MovedCap(o) == [object |-> o, rights |-> RegionRights, epoch |-> 1]
ProducerGrants(S, P) ==
  <<Derive(0, {"WRITE"}), Derive(S + 1, {"READ"})>> \o [r \in 1 .. P |-> Move(S + 1 + r)]
ProducerCaps(S, P) ==
  [k \in 1 .. P + 2 |-> IF k = 1 THEN WriteView(0)
                        ELSE IF k = 2 THEN ReadView(S + 1) ELSE MovedCap(S + k - 1)]

LEMMA ProducerGrantsAre ==
  ASSUME NEW S \in Nat, NEW P \in Nat, NEW grants, grants = ProducerGrants(S, P)
  PROVE  /\ DOMAIN grants = 1 .. P + 2
         /\ grants[1] = Derive(0, {"WRITE"}) /\ grants[2] = Derive(S + 1, {"READ"})
         /\ \A k \in 3 .. P + 2 : grants[k] = Move(S + k - 1)
<1>1. PICK a, b : a = Derive(0, {"WRITE"}) /\ b = Derive(S + 1, {"READ"})
  OBVIOUS
<1>2. PICK f : f = [r \in 1 .. P |-> Move(S + 1 + r)]
  OBVIOUS
<1>3. DOMAIN f = 1 .. P /\ \A r \in 1 .. P : f[r] = Move(S + 1 + r)
  BY <1>2
<1>4. f \in Seq({f[r] : r \in 1 .. P}) /\ Len(f) = P
  <2>1. f \in [1 .. P -> {f[r] : r \in 1 .. P}]
    BY <1>2
  <2> QED BY <2>1
<1>5. PICK A : a \in A /\ b \in A /\ f \in Seq(A)
  <2>1. PICK A : A = {f[r] : r \in 1 .. P} \union {a, b}
    OBVIOUS
  <2>2. f \in Seq(A)
    BY <1>4, <2>1
  <2> QED BY <2>1, <2>2
<1>6. PICK g \in Seq(A) : g = <<a, b>>
  <2>1. a \in A /\ b \in A
    BY <1>5
  <2>2. <<a, b>> \in Seq(A)
    BY <2>1
  <2> QED BY <2>2
<1>7. Len(g) = 2 /\ g[1] = a /\ g[2] = b
  BY <1>6
<1>8. grants = g \o f
  BY <1>1, <1>2, <1>6 DEF ProducerGrants
<1>9. DOMAIN grants = 1 .. P + 2
      /\ \A k \in 1 .. P + 2 : grants[k] = IF k <= 2 THEN g[k] ELSE f[k - 2]
  <2>1. f \in Seq(A) /\ g \in Seq(A) /\ Len(g) = 2 /\ Len(f) = P
    BY <1>4, <1>5, <1>7
  <2>2. PICK e : e = g \o f
    OBVIOUS
  <2>3. /\ e \in Seq(A) /\ Len(e) = Len(g) + Len(f)
        /\ \A k \in 1 .. Len(g) + Len(f) : e[k] = IF k <= Len(g) THEN g[k] ELSE f[k - Len(g)]
    <3>1. /\ g \o f \in Seq(A) /\ Len(g \o f) = Len(g) + Len(f)
          /\ \A k \in 1 .. Len(g) + Len(f) :
               (g \o f)[k] = IF k <= Len(g) THEN g[k] ELSE f[k - Len(g)]
      BY <2>1, ConcatProperties, Zenon
    <3> QED BY <2>2, <3>1, Zenon
  <2>4. DOMAIN e = 1 .. P + 2
    BY <2>1, <2>3
  <2>5. \A k \in 1 .. P + 2 : e[k] = IF k <= 2 THEN g[k] ELSE f[k - 2]
    BY <2>1, <2>3
  <2> QED BY <1>8, <2>2, <2>4, <2>5
<1>10. ASSUME NEW k \in 3 .. P + 2
       PROVE  grants[k] = Move(S + k - 1)
  <2>1. PICK r \in 1 .. P : r = k - 2
    OBVIOUS
  <2>2. S + 1 + r = S + k - 1 /\ k \in 1 .. P + 2 /\ ~(k <= 2)
    BY <2>1
  <2>3. grants[k] = f[r]
    BY <1>9, <2>1, <2>2
  <2> QED BY <1>3, <2>2, <2>3
<1>11. 1 \in 1 .. P + 2 /\ 2 \in 1 .. P + 2
  OBVIOUS
<1> QED BY <1>1, <1>7, <1>9, <1>10, <1>11

LEMMA ProducerBatch ==
  ASSUME NEW S \in Nat, NEW P \in Nat, NEW epochs, epochs = [o \in 0 .. S + 1 + P |-> 0]
  PROVE  /\ ValidBatch(epochs, FullTable(S + 1 + P), ProducerGrants(S, P))
         /\ Delivered(epochs, FullTable(S + 1 + P), ProducerGrants(S, P)) = ProducerCaps(S, P)
         /\ AfterBatch(epochs, FullTable(S + 1 + P), ProducerGrants(S, P))
              = [o \in 0 .. S + 1 + P |-> IF o <= S + 1 THEN 0 ELSE 1]
         /\ Remaining(FullTable(S + 1 + P), ProducerGrants(S, P)) = FullTable(S + 1)
<1>1. PICK m \in Nat : m = S + 1 + P
  OBVIOUS
<1>2. PICK table : table = FullTable(m)
  OBVIOUS
<1>3. DOMAIN table = 0 .. m /\ \A o \in 0 .. m : table[o] = FullCap(o)
  BY <1>2 DEF FullTable
<1>4. PICK grants : grants = ProducerGrants(S, P)
  OBVIOUS
<1>5. /\ DOMAIN grants = 1 .. P + 2
      /\ grants[1] = Derive(0, {"WRITE"}) /\ grants[2] = Derive(S + 1, {"READ"})
      /\ \A k \in 3 .. P + 2 : grants[k] = Move(S + k - 1)
  BY ZenonT(60), <1>4, ProducerGrantsAre
<1>6. /\ grants[1].kind = "Derive" /\ grants[1].handle = 0 /\ grants[1].rights = {"WRITE"}
      /\ grants[2].kind = "Derive" /\ grants[2].handle = S + 1 /\ grants[2].rights = {"READ"}
  BY <1>5 DEF Derive
<1>7. \A k \in 3 .. P + 2 : grants[k].kind = "Move" /\ grants[k].handle = S + k - 1
  <2>1. \A h : Move(h).kind = "Move" /\ Move(h).handle = h
    BY DEF Move
  <2> QED BY <1>5, <2>1
<1>8. \A k \in 1 .. P + 2 : k = 1 \/ k = 2 \/ k \in 3 .. P + 2
  OBVIOUS
<1>9. 0 \in 0 .. m /\ S + 1 \in 0 .. m /\ 1 \in 1 .. P + 2 /\ 2 \in 1 .. P + 2
      /\ \A k \in 3 .. P + 2 : S + k - 1 \in 0 .. m /\ S + k - 1 > S + 1 /\ S + k - 1 # 0 /\ k \in 1 .. P + 2
  BY <1>1
<1>10. \A x \in 0 .. m : Permits(epochs, FullCap(x), {"GRANT"}) /\ Permits(epochs, FullCap(x), {"DESTROY"})
  <2> SUFFICES ASSUME NEW x \in 0 .. m
               PROVE  Permits(epochs, FullCap(x), {"GRANT"}) /\ Permits(epochs, FullCap(x), {"DESTROY"})
    OBVIOUS
  <2>1. Live(epochs, FullCap(x))
    BY <1>1 DEF Live, object_exists, FullCap
  <2>2. "GRANT" \in FullCap(x).rights /\ "DESTROY" \in FullCap(x).rights
    BY DEF FullCap, RegionRights
  <2> QED BY <2>1, <2>2, PermitsWhenLive
<1>11. \A x : /\ "READ" \in FullCap(x).rights /\ "WRITE" \in FullCap(x).rights
              /\ FullCap(x).object = x
  BY DEF FullCap, RegionRights
<1>12. ValidBatch(epochs, table, grants)
  <2>1. \A k \in DOMAIN grants : grants[k].handle \in DOMAIN table
    BY SMTT(20), <1>3, <1>5, <1>6, <1>7, <1>8, <1>9
  <2>2. Authorised(epochs, table, grants[1])
    <3>1. CanDerive(epochs, table[0], {"WRITE"})
      BY <1>3, <1>9, <1>10, <1>11 DEF CanDerive, contains
    <3> QED BY <1>6, <3>1 DEF Authorised
  <2>3. Authorised(epochs, table, grants[2])
    <3>1. CanDerive(epochs, table[S + 1], {"READ"})
      BY <1>3, <1>9, <1>10, <1>11 DEF CanDerive, contains
    <3> QED BY <1>6, <3>1 DEF Authorised
  <2>4. \A k \in 3 .. P + 2 : Authorised(epochs, table, grants[k])
    <3> SUFFICES ASSUME NEW k \in 3 .. P + 2 PROVE Authorised(epochs, table, grants[k])
      OBVIOUS
    <3>1. Permits(epochs, table[S + k - 1], {"DESTROY"})
      BY <1>3, <1>9, <1>10
    <3> QED BY <1>7, <3>1 DEF Authorised
  <2>5. NoDuplicateTransfer(grants)
    <3> SUFFICES ASSUME NEW i \in DOMAIN grants, NEW j \in DOMAIN grants, i # j,
                        leaves(grants[i]), leaves(grants[j])
                 PROVE  grants[i].handle # grants[j].handle
      BY DEF NoDuplicateTransfer
    <3>1. i \in 3 .. P + 2 /\ j \in 3 .. P + 2
      BY <1>5, <1>6, <1>8 DEF leaves
    <3> QED BY <1>7, <3>1
  <2>6. NoMoveConflict(table, grants)
    <3> SUFFICES ASSUME NEW i \in DOMAIN grants, NEW j \in DOMAIN grants, i # j,
                        grants[i].kind = "Move"
                 PROVE  table[grants[j].handle].object # table[grants[i].handle].object
      BY DEF NoMoveConflict
    <3>1. i \in 3 .. P + 2
      BY <1>5, <1>6, <1>8
    <3>2. \A k \in DOMAIN grants : table[grants[k].handle].object = grants[k].handle
      BY <1>3, <1>11, <2>1
    <3>3. grants[j].handle # grants[i].handle
      <4>1. CASE j \in 3 .. P + 2
        BY <1>7, <3>1, <4>1
      <4>2. CASE j = 1
        BY <1>6, <1>7, <1>9, <3>1, <4>2
      <4>3. CASE j = 2
        BY <1>6, <1>7, <1>9, <3>1, <4>3
      <4> QED BY <1>5, <1>8, <4>1, <4>2, <4>3
    <3> QED BY <3>2, <3>3
  <2> QED BY <1>5, <1>8, <2>1, <2>2, <2>3, <2>4, <2>5, <2>6 DEF ValidBatch
<1>13. \A o \in 0 .. m : reissued(epochs, FullCap(o)) = MovedCap(o)
  <2> SUFFICES ASSUME NEW o \in 0 .. m PROVE reissued(epochs, FullCap(o)) = MovedCap(o)
    OBVIOUS
  <2>1. bumped(epochs, o)[o] = 1
    BY <1>1 DEF bumped
  <2>2. \A rights, e : [[object |-> o, rights |-> rights, epoch |-> 0] EXCEPT !.epoch = e]
                          = [object |-> o, rights |-> rights, epoch |-> e]
    OBVIOUS
  <2> QED BY <1>11, <2>1, <2>2 DEF reissued, FullCap, MovedCap
<1>14. Delivered(epochs, table, grants) = ProducerCaps(S, P)
  <2> DEFINE Given(k) == CASE grants[k].kind = "Transfer" -> table[grants[k].handle]
                         [] grants[k].kind = "Derive" -> derived(table[grants[k].handle], grants[k].rights)
                         [] grants[k].kind = "Move" -> reissued(epochs, table[grants[k].handle])
             Cap(k) == IF k = 1 THEN WriteView(0)
                       ELSE IF k = 2 THEN ReadView(S + 1) ELSE MovedCap(S + k - 1)
  <2>1. Delivered(epochs, table, grants) = [k \in 1 .. P + 2 |-> Given(k)]
    BY <1>5 DEF Delivered
  <2>2. ProducerCaps(S, P) = [k \in 1 .. P + 2 |-> Cap(k)]
    BY DEF ProducerCaps
  <2>3. Given(1) = Cap(1)
    BY <1>3, <1>6, <1>9, DerivedView
  <2>4. Given(2) = Cap(2)
    BY <1>3, <1>6, <1>9, DerivedView
  <2>5. ASSUME NEW k \in 3 .. P + 2 PROVE Given(k) = Cap(k)
    <3>1. table[grants[k].handle] = FullCap(S + k - 1)
      BY <1>3, <1>7, <1>9
    <3>2. reissued(epochs, FullCap(S + k - 1)) = MovedCap(S + k - 1)
      BY <1>9, <1>13
    <3>3. k # 1 /\ k # 2
      OBVIOUS
    <3> QED BY <1>7, <3>1, <3>2, <3>3
  <2> HIDE DEF Given, Cap
  <2>6. \A k \in 1 .. P + 2 : Given(k) = Cap(k)
    BY <1>8, <2>3, <2>4, <2>5
  <2> QED BY <2>1, <2>2, <2>6
<1>15. Moved(table, grants) = {o \in 0 .. m : o > S + 1}
  <2>1. ASSUME NEW k \in DOMAIN grants, grants[k].kind = "Move"
        PROVE  table[grants[k].handle].object \in 0 .. m /\ table[grants[k].handle].object > S + 1
    <3>1. k \in 3 .. P + 2
      BY <1>5, <1>6, <1>8, <2>1
    <3> QED BY <1>3, <1>7, <1>9, <1>11, <3>1
  <2>2. ASSUME NEW o \in 0 .. m, o > S + 1
        PROVE  \E k \in DOMAIN grants : grants[k].kind = "Move" /\ table[grants[k].handle].object = o
    <3>1. PICK k \in 3 .. P + 2 : k = o - S + 1
      BY <1>1, <2>2
    <3>2. S + k - 1 = o /\ k \in DOMAIN grants
      BY <1>5, <1>9, <3>1
    <3> QED BY SMTT(20), <1>3, <1>7, <1>11, <3>1, <3>2
  <2> QED BY <2>1, <2>2 DEF Moved
<1>16. AfterBatch(epochs, table, grants) = [o \in 0 .. m |-> IF o <= S + 1 THEN 0 ELSE 1]
  <2>1. AfterBatch(epochs, table, grants)
          = [o \in 0 .. m |-> epochs[o] + (IF o \in Moved(table, grants) THEN 1 ELSE 0)]
    BY <1>1 DEF AfterBatch
  <2>2. \A o \in 0 .. m : epochs[o] + (IF o \in Moved(table, grants) THEN 1 ELSE 0)
                            = IF o <= S + 1 THEN 0 ELSE 1
    <3> SUFFICES ASSUME NEW o \in 0 .. m
                 PROVE  epochs[o] + (IF o \in Moved(table, grants) THEN 1 ELSE 0)
                          = IF o <= S + 1 THEN 0 ELSE 1
      OBVIOUS
    <3>1. epochs[o] = 0 /\ (o \in Moved(table, grants) <=> ~(o <= S + 1))
      BY <1>1, <1>15
    <3> QED BY <3>1
  <2> QED BY <2>1, <2>2
<1>17. Remaining(table, grants) = FullTable(S + 1)
  <2>1. {x \in DOMAIN table : \A k \in DOMAIN grants : leaves(grants[k]) => grants[k].handle # x}
          = 0 .. S + 1
    <3>1. ASSUME NEW x \in 0 .. S + 1, NEW k \in DOMAIN grants, leaves(grants[k])
          PROVE  grants[k].handle # x
      <4>1. k \in 3 .. P + 2
        BY <1>5, <1>6, <1>8, <3>1 DEF leaves
      <4> QED BY <1>7, <1>9, <4>1
    <3>2. ASSUME NEW x \in 0 .. m, x \notin 0 .. S + 1
          PROVE  \E k \in DOMAIN grants : leaves(grants[k]) /\ grants[k].handle = x
      <4>1. PICK k \in 3 .. P + 2 : k = x - S + 1
        BY <1>1, <3>2
      <4>2. S + k - 1 = x /\ k \in DOMAIN grants
        BY <1>5, <1>9, <4>1
      <4> QED BY <1>7, <4>1, <4>2 DEF leaves
    <3>3. 0 .. S + 1 \subseteq 0 .. m
      BY <1>1
    <3> QED BY <1>3, <3>1, <3>2, <3>3
  <2>2. Remaining(table, grants) = [x \in 0 .. S + 1 |-> table[x]]
    BY <2>1 DEF Remaining
  <2>3. \A x \in 0 .. S + 1 : table[x] = FullCap(x)
    BY <1>1, <1>3
  <2> QED BY <2>2, <2>3 DEF FullTable
<1> QED BY <1>1, <1>2, <1>4, <1>12, <1>14, <1>16, <1>17

\* The system when the supervisor has spawned k children.
CapsOf(S, P, p) ==
  IF p = 0 THEN [k \in 1 .. S + 2 + P |-> FullCap(k - 1)]
  ELSE IF p = S + 2 THEN ProducerCaps(S, P) ELSE <<ReadView(S + 1 - p), WriteView(S + 2 - p)>>
BootEpochs(S, P, k) ==
  IF k = S + 2 THEN [o \in 0 .. S + 1 + P |-> IF o <= S + 1 THEN 0 ELSE 1]
  ELSE [o \in 0 .. S + 1 + P |-> 0]
BootTables(S, P, k) ==
  [p \in 0 .. k |-> IF p = 0 THEN FullTable(IF k = S + 2 THEN S + 1 ELSE S + 1 + P)
                    ELSE Granted(Empty, 0, CapsOf(S, P, p))]
BootHandles(S, P, k) == [p \in 0 .. k |-> NextHandle(0, CapsOf(S, P, p))]
BootHeld(S, P, k) == UNION {HeldBy(p, CapsOf(S, P, p)) : p \in 0 .. k}
SystemOf(epochs, tables, next_handle, queues, regions, held, failed) ==
  [epochs |-> epochs, tables |-> tables, next_handle |-> next_handle, queues |-> queues,
   regions |-> regions, held |-> held, failed |-> failed]
BootState(S, P, k) ==
  SystemOf(BootEpochs(S, P, k), BootTables(S, P, k), BootHandles(S, P, k),
           [o \in 0 .. S + 1 |-> <<>>], [o \in S + 2 .. S + 1 + P |-> Zeroed], BootHeld(S, P, k), FALSE)

LEMMA BootFirst ==
  ASSUME config \in Configs, HandlesSuffice, NEW S \in Nat, NEW P \in Nat, Sizes(S, P)
  PROVE  Booting(config) = BootState(S, P, 0)
<1>1. /\ config.stages + 1 = S + 1 /\ Regions(config) = S + 2 .. S + 1 + P
      /\ S + P + 2 < HandleSpace
  <2>1. config.stages = S /\ config.pool = P
    BY DEF Sizes
  <2>2. config.stages + config.pool + 2 < HandleSpace
    BY DEF HandlesSuffice
  <2> QED BY <2>1, <2>2 DEF Sizes
<1>2. PICK queues : queues = [o \in 0 .. S + 1 |-> <<>>]
  OBVIOUS
<1>3. PICK regions : regions = [o \in S + 2 .. S + 1 + P |-> Zeroed]
  OBVIOUS
<1>4. Booting(config) = booted(queues, regions)
  BY <1>1, <1>2, <1>3 DEF Booting
<1>5. PICK L \in Nat : L = S + 2 + P
  OBVIOUS
<1>6. DOMAIN queues \union DOMAIN regions = 0 .. L - 1
  BY <1>2, <1>3, <1>5
<1>7. Cardinality(0 .. L - 1) = L
  <2>1. 0 \in Int /\ L - 1 \in Int
    OBVIOUS
  <2>2. Cardinality(0 .. L - 1) = IF 0 > L - 1 THEN 0 ELSE (L - 1) - 0 + 1
    BY <2>1, FS_Interval
  <2> QED BY <1>5, <2>2
<1>8. PICK full : full = [k \in 1 .. L |-> FullCap(k - 1)]
  OBVIOUS
<1>9. booted(queues, regions) =
        SystemOf([o \in 0 .. L - 1 |-> 0], [p \in {0} |-> Granted(Empty, 0, full)],
                 [p \in {0} |-> NextHandle(0, full)], queues, regions, HeldBy(0, full), FALSE)
  <2>1. full = [k \in 1 .. L |-> [object |-> k - 1, rights |-> RegionRights, epoch |-> 0]]
    BY <1>8 DEF FullCap
  <2>2. booted(queues, regions) =
          LET objects == DOMAIN queues \union DOMAIN regions
              all == [k \in 1 .. Cardinality(objects) |->
                        [object |-> k - 1, rights |-> RegionRights, epoch |-> 0]]
          IN
          SystemOf([o \in objects |-> 0], [p \in {0} |-> Granted(Empty, 0, all)],
                   [p \in {0} |-> NextHandle(0, all)], queues, regions, HeldBy(0, all), FALSE)
    BY DEF booted, SystemOf
  <2>3. PICK objects : objects = DOMAIN queues \union DOMAIN regions
    OBVIOUS
  <2>4. PICK all : all = [k \in 1 .. Cardinality(objects) |->
                            [object |-> k - 1, rights |-> RegionRights, epoch |-> 0]]
    OBVIOUS
  <2>5. booted(queues, regions) =
          SystemOf([o \in objects |-> 0], [p \in {0} |-> Granted(Empty, 0, all)],
                   [p \in {0} |-> NextHandle(0, all)], queues, regions, HeldBy(0, all), FALSE)
    BY <2>2, <2>3, <2>4
  <2>6. Cardinality(objects) = L /\ objects = 0 .. L - 1
    BY <1>6, <1>7, <2>3
  <2>7. all = full
    BY <2>1, <2>4, <2>6
  <2> QED BY <2>5, <2>6, <2>7
<1>10. full = CapsOf(S, P, 0)
  BY <1>5, <1>8 DEF CapsOf
<1>11. Granted(Empty, 0, full) = FullTable(S + 1 + P)
  <2>1. DOMAIN full = 1 .. L /\ Len(full) = L
    BY <1>8
  <2>2. Granted(Empty, 0, full) = [h \in 0 .. L - 1 |-> full[h + 1]]
    <3>1. L < HandleSpace
      BY <1>1, <1>5
    <3> QED BY <2>1, <3>1, GrantedAll
  <2>3. \A h \in 0 .. L - 1 : full[h + 1] = FullCap(h)
    <3> SUFFICES ASSUME NEW h \in 0 .. L - 1 PROVE full[h + 1] = FullCap(h)
      OBVIOUS
    <3>1. h + 1 \in 1 .. L /\ h + 1 - 1 = h
      OBVIOUS
    <3> QED BY <1>8, <3>1
  <2>4. L - 1 = S + 1 + P
    BY <1>5
  <2> QED BY <2>2, <2>3, <2>4 DEF FullTable
<1>12. BootEpochs(S, P, 0) = [o \in 0 .. L - 1 |-> 0]
  <2>1. 0 # S + 2 /\ L - 1 = S + 1 + P
    BY <1>5
  <2> QED BY <2>1 DEF BootEpochs
<1>13. BootTables(S, P, 0) = [p \in {0} |-> Granted(Empty, 0, full)]
  <2>1. 0 # S + 2 /\ 0 .. 0 = {0}
    OBVIOUS
  <2> QED BY <1>11, <2>1 DEF BootTables
<1>14. BootHandles(S, P, 0) = [p \in {0} |-> NextHandle(0, full)]
  <2>1. 0 .. 0 = {0}
    OBVIOUS
  <2> QED BY <1>10, <2>1 DEF BootHandles
<1>15. BootHeld(S, P, 0) = HeldBy(0, full)
  <2>1. 0 .. 0 = {0}
    OBVIOUS
  <2> QED BY <1>10, <2>1 DEF BootHeld
<1> QED BY <1>2, <1>3, <1>4, <1>9, <1>12, <1>13, <1>14, <1>15 DEF BootState

LEMMA SpawnIs ==
  ASSUME NEW s, NEW grants, ValidBatch(s.epochs, s.tables[0], grants)
  PROVE  spawn_child(s, 0, grants)
           = LET caps == Delivered(s.epochs, s.tables[0], grants)
                 k == Cardinality(DOMAIN s.tables)
             IN [s EXCEPT !.epochs = AfterBatch(@, s.tables[0], grants),
                          !.tables = Extended([s.tables EXCEPT ![0] = Remaining(@, grants)], k,
                                              Granted(Empty, 0, caps)),
                          !.next_handle = Extended(@, k, NextHandle(0, caps)),
                          !.held = @ \union HeldBy(k, caps)]
BY DEF spawn_child

LEMMA BootGrants ==
  ASSUME NEW S \in Nat, NEW P \in Nat, Sizes(S, P), NEW k \in 1 .. S + 2,
         NEW epochs, epochs = [o \in 0 .. S + 1 + P |-> 0]
  PROVE  /\ ValidBatch(epochs, FullTable(S + 1 + P), GrantsFor(config, k))
         /\ Delivered(epochs, FullTable(S + 1 + P), GrantsFor(config, k)) = CapsOf(S, P, k)
         /\ AfterBatch(epochs, FullTable(S + 1 + P), GrantsFor(config, k)) = BootEpochs(S, P, k)
         /\ Remaining(FullTable(S + 1 + P), GrantsFor(config, k))
              = FullTable(IF k = S + 2 THEN S + 1 ELSE S + 1 + P)
<1>1. /\ config.stages = S /\ config.pool = P /\ Return(config) = S + 1 /\ Producer(config) = S + 2
      /\ Sink = 1 /\ k # 0
  BY DEF Sizes, Sink
<1>2. CASE k = S + 2
  <2>1. k # Sink /\ k \notin 2 .. S + 1 /\ k = Producer(config)
    BY <1>1, <1>2
  <2>2. GrantsFor(config, k) = ProducerGrants(S, P)
    BY <1>1, <2>1 DEF GrantsFor, ProducerGrants
  <2>3. CapsOf(S, P, k) = ProducerCaps(S, P)
    BY <1>1, <1>2 DEF CapsOf
  <2>4. BootEpochs(S, P, k) = [o \in 0 .. S + 1 + P |-> IF o <= S + 1 THEN 0 ELSE 1]
    BY <1>2 DEF BootEpochs
  <2> QED BY ZenonT(30), <1>2, <2>2, <2>3, <2>4, ProducerBatch
<1>3. CASE k # S + 2
  <2>1. PICK i \in 0 .. S + 1 + P, o \in 0 .. S + 1 + P : i = S + 1 - k /\ o = S + 2 - k
    BY <1>3
  <2>2. GrantsFor(config, k) = Views(i, o)
    <3>1. CASE k = 1
      BY <1>1, <2>1, <3>1 DEF GrantsFor
    <3>2. CASE k # 1
      <4>1. k # Sink /\ k \in 2 .. S + 1 /\ k # Producer(config)
        BY <1>1, <1>3, <3>2
      <4>2. StageOf(config, k) = i /\ i + 1 = o
        BY <1>1, <2>1 DEF StageOf
      <4> QED BY <1>1, <4>1, <4>2 DEF GrantsFor
    <3> QED BY <3>1, <3>2
  <2>3. CapsOf(S, P, k) = <<ReadView(i), WriteView(o)>>
    BY <1>1, <1>3, <2>1 DEF CapsOf
  <2>4. BootEpochs(S, P, k) = epochs
    BY <1>3 DEF BootEpochs
  <2> QED BY <1>3, <2>1, <2>2, <2>3, <2>4, ViewsBatch
<1> QED BY <1>2, <1>3

LEMMA BootNext ==
  ASSUME NEW S \in Nat, NEW P \in Nat, Sizes(S, P), NEW k \in 1 .. S + 2
  PROVE  spawn_child(BootState(S, P, k - 1), Supervisor, GrantsFor(config, k)) = BootState(S, P, k)
<1>1. PICK j \in Nat : j = k - 1 /\ j # S + 2 /\ k = j + 1
  OBVIOUS
<1>2. PICK epochs : epochs = [o \in 0 .. S + 1 + P |-> 0]
  OBVIOUS
<1>3. PICK tables : tables = BootTables(S, P, j)
  OBVIOUS
<1>4. DOMAIN tables = 0 .. j /\ tables[0] = FullTable(S + 1 + P)
      /\ \A p \in 0 .. j : p # 0 => tables[p] = Granted(Empty, 0, CapsOf(S, P, p))
  <2>1. tables = [p \in 0 .. j |-> IF p = 0 THEN FullTable(S + 1 + P)
                                   ELSE Granted(Empty, 0, CapsOf(S, P, p))]
    BY <1>1, <1>3 DEF BootTables
  <2>2. 0 \in 0 .. j
    OBVIOUS
  <2> QED BY <2>1, <2>2
<1>5. PICK handles : handles = BootHandles(S, P, j)
  OBVIOUS
<1>6. PICK held : held = BootHeld(S, P, j)
  OBVIOUS
<1>7. PICK queues : queues = [o \in 0 .. S + 1 |-> <<>>]
  OBVIOUS
<1>8. PICK regions : regions = [o \in S + 2 .. S + 1 + P |-> Zeroed]
  OBVIOUS
<1>9. PICK s : s = SystemOf(epochs, tables, handles, queues, regions, held, FALSE)
  OBVIOUS
<1>10. s = BootState(S, P, j)
  BY <1>1, <1>2, <1>3, <1>5, <1>6, <1>7, <1>8, <1>9 DEF BootState, BootEpochs
<1>11. s.epochs = epochs /\ s.tables = tables /\ s.next_handle = handles /\ s.held = held
  BY <1>9 DEF SystemOf
<1>12. PICK grants : grants = GrantsFor(config, k)
  OBVIOUS
<1>13. PICK caps : caps = CapsOf(S, P, k)
  OBVIOUS
<1>14. PICK left : left = FullTable(IF k = S + 2 THEN S + 1 ELSE S + 1 + P)
  OBVIOUS
<1>15. /\ ValidBatch(epochs, tables[0], grants)
       /\ Delivered(epochs, tables[0], grants) = caps
       /\ AfterBatch(epochs, tables[0], grants) = BootEpochs(S, P, k)
       /\ Remaining(tables[0], grants) = left
  BY <1>2, <1>4, <1>12, <1>13, <1>14, BootGrants
<1>16. Cardinality(DOMAIN s.tables) = k
  <2>1. 0 \in Int /\ j \in Int /\ ~(0 > j)
    OBVIOUS
  <2>2. Cardinality(0 .. j) = j - 0 + 1
    BY <2>1, FS_Interval
  <2> QED BY <1>1, <1>4, <1>11, <2>2
<1>17. spawn_child(s, 0, grants)
         = [s EXCEPT !.epochs = BootEpochs(S, P, k),
                     !.tables = Extended([tables EXCEPT ![0] = left], k, Granted(Empty, 0, caps)),
                     !.next_handle = Extended(handles, k, NextHandle(0, caps)),
                     !.held = held \union HeldBy(k, caps)]
  <2>1. ValidBatch(s.epochs, s.tables[0], grants)
    BY <1>11, <1>15
  <2>2. spawn_child(s, 0, grants)
           = [s EXCEPT !.epochs = AfterBatch(s.epochs, s.tables[0], grants),
                       !.tables = Extended([s.tables EXCEPT ![0] = Remaining(s.tables[0], grants)],
                                           Cardinality(DOMAIN s.tables),
                                           Granted(Empty, 0, Delivered(s.epochs, s.tables[0], grants))),
                       !.next_handle = Extended(s.next_handle, Cardinality(DOMAIN s.tables),
                                           NextHandle(0, Delivered(s.epochs, s.tables[0], grants))),
                       !.held = s.held \union HeldBy(Cardinality(DOMAIN s.tables),
                                           Delivered(s.epochs, s.tables[0], grants))]
    BY <2>1, SpawnIs
  <2> QED BY <1>11, <1>15, <1>16, <2>2
<1>18. Extended([tables EXCEPT ![0] = left], k, Granted(Empty, 0, caps)) = BootTables(S, P, k)
  <2>1. PICK f : f = Extended([tables EXCEPT ![0] = left], k, Granted(Empty, 0, caps))
    OBVIOUS
  <2>2. PICK g : g = [tables EXCEPT ![0] = left]
    OBVIOUS
  <2>3. DOMAIN g = 0 .. j /\ \A p \in 0 .. j : g[p] = IF p = 0 THEN left ELSE tables[p]
    BY <1>4, <2>2
  <2>4. f = [p \in 0 .. j \union {k} |-> IF p = k THEN Granted(Empty, 0, caps) ELSE g[p]]
    BY <2>1, <2>2, <2>3 DEF Extended
  <2>5. 0 .. j \union {k} = 0 .. k
    BY <1>1
  <2>6. \A p \in 0 .. k : (IF p = k THEN Granted(Empty, 0, caps) ELSE g[p])
                            = IF p = 0 THEN left ELSE Granted(Empty, 0, CapsOf(S, P, p))
    <3> SUFFICES ASSUME NEW p \in 0 .. k
                 PROVE  (IF p = k THEN Granted(Empty, 0, caps) ELSE g[p])
                            = IF p = 0 THEN left ELSE Granted(Empty, 0, CapsOf(S, P, p))
      OBVIOUS
    <3>1. CASE p = k
      BY <1>1, <1>13, <3>1
    <3>2. CASE p # k
      <4>1. p \in 0 .. j
        BY <1>1, <3>2
      <4> QED BY <1>4, <2>3, <3>2, <4>1
    <3> QED BY <3>1, <3>2
  <2>7. BootTables(S, P, k) = [p \in 0 .. k |-> IF p = 0 THEN left
                                               ELSE Granted(Empty, 0, CapsOf(S, P, p))]
    BY <1>14 DEF BootTables
  <2> QED BY <2>1, <2>4, <2>5, <2>6, <2>7
<1>19. Extended(handles, k, NextHandle(0, caps)) = BootHandles(S, P, k)
  <2>1. DOMAIN handles = 0 .. j /\ \A p \in 0 .. j : handles[p] = NextHandle(0, CapsOf(S, P, p))
    BY <1>5 DEF BootHandles
  <2>2. 0 .. j \union {k} = 0 .. k
    BY <1>1
  <2>3. Extended(handles, k, NextHandle(0, caps))
          = [p \in 0 .. k |-> IF p = k THEN NextHandle(0, caps) ELSE handles[p]]
    BY <2>1, <2>2 DEF Extended
  <2>4. \A p \in 0 .. k : p # k => p \in 0 .. j
    BY <1>1
  <2>5. \A p \in 0 .. k : (IF p = k THEN NextHandle(0, caps) ELSE handles[p])
                             = NextHandle(0, CapsOf(S, P, p))
    BY <1>13, <2>1, <2>4
  <2> QED BY <2>3, <2>5 DEF BootHandles
<1>20. held \union HeldBy(k, caps) = BootHeld(S, P, k)
  <2>1. 0 .. j \union {k} = 0 .. k
    BY <1>1
  <2>2. \A p : p \in 0 .. k <=> p \in 0 .. j \/ p = k
    BY <2>1
  <2>3. PICK f : f = [p \in 0 .. k |-> HeldBy(p, CapsOf(S, P, p))]
    OBVIOUS
  <2>4. \A p \in 0 .. k : f[p] = HeldBy(p, CapsOf(S, P, p))
    BY <2>3
  <2>5. BootHeld(S, P, k) = UNION {f[p] : p \in 0 .. k}
    BY <2>4 DEF BootHeld
  <2>6. held = UNION {f[p] : p \in 0 .. j}
    <3>1. 0 .. j \subseteq 0 .. k
      BY <1>1
    <3> QED BY <1>6, <2>4, <3>1 DEF BootHeld
  <2>7. HeldBy(k, caps) = f[k]
    BY <1>13, <2>4
  <2>8. \A x : x \in BootHeld(S, P, k) <=> \E p \in 0 .. k : x \in f[p]
    BY <2>5
  <2>9. \A x : x \in held <=> \E p \in 0 .. j : x \in f[p]
    BY <2>6
  <2>10. \A x : x \in BootHeld(S, P, k) <=> x \in held \/ x \in HeldBy(k, caps)
    BY <2>2, <2>7, <2>8, <2>9
  <2> QED BY <2>10
<1>21. spawn_child(s, 0, grants)
         = SystemOf(BootEpochs(S, P, k), BootTables(S, P, k), BootHandles(S, P, k), queues, regions,
                    BootHeld(S, P, k), FALSE)
  <2>1. PICK e, t, n, h : /\ e = BootEpochs(S, P, k) /\ t = BootTables(S, P, k)
                          /\ n = BootHandles(S, P, k) /\ h = BootHeld(S, P, k)
    OBVIOUS
  <2>2. spawn_child(s, 0, grants)
          = [s EXCEPT !.epochs = e, !.tables = t, !.next_handle = n, !.held = h]
    BY <1>17, <1>18, <1>19, <1>20, <2>1
  <2>3. PICK no : no = FALSE
    OBVIOUS
  <2>4. [SystemOf(epochs, tables, handles, queues, regions, held, no)
           EXCEPT !.epochs = e, !.tables = t, !.next_handle = n, !.held = h]
          = SystemOf(e, t, n, queues, regions, h, no)
    <3>1. [SystemOf(epochs, tables, handles, queues, regions, held, no) EXCEPT !.epochs = e]
            = SystemOf(e, tables, handles, queues, regions, held, no)
      BY DEF SystemOf
    <3>2. [SystemOf(e, tables, handles, queues, regions, held, no) EXCEPT !.tables = t]
            = SystemOf(e, t, handles, queues, regions, held, no)
      BY DEF SystemOf
    <3>3. [SystemOf(e, t, handles, queues, regions, held, no) EXCEPT !.next_handle = n]
            = SystemOf(e, t, n, queues, regions, held, no)
      BY DEF SystemOf
    <3>4. [SystemOf(e, t, n, queues, regions, held, no) EXCEPT !.held = h]
            = SystemOf(e, t, n, queues, regions, h, no)
      BY DEF SystemOf
    <3>5. PICK r : r = SystemOf(epochs, tables, handles, queues, regions, held, no)
      OBVIOUS
    <3>6. [r EXCEPT !.epochs = e, !.tables = t, !.next_handle = n, !.held = h]
            = [[[[r EXCEPT !.epochs = e] EXCEPT !.tables = t] EXCEPT !.next_handle = n] EXCEPT !.held = h]
      OBVIOUS
    <3> QED BY <3>1, <3>2, <3>3, <3>4, <3>5, <3>6
  <2>5. s = SystemOf(epochs, tables, handles, queues, regions, held, no)
    BY <1>9, <2>3
  <2> QED BY <2>1, <2>2, <2>3, <2>4, <2>5
<1> QED BY <1>1, <1>7, <1>8, <1>10, <1>12, <1>21 DEF BootState, Supervisor

LEMMA BootedIs ==
  ASSUME config \in Configs, HandlesSuffice, NEW S \in Nat, NEW P \in Nat, Sizes(S, P)
  PROVE  Booted(config) = BootState(S, P, S + 2)
<1> DEFINE Step(f, k) == IF k = 0 THEN Booting(config)
                         ELSE Then(f[k - 1], spawn_child(f[k - 1], Supervisor, GrantsFor(config, k)))
           closed == [k \in 0 .. S + 2 |-> BootState(S, P, k)]
           after == CHOOSE f : f = [k \in 0 .. S + 2 |-> Step(f, k)]
<1>1. Booting(config) = BootState(S, P, 0)
  BY BootFirst
<1>2. ASSUME NEW k \in 1 .. S + 2
      PROVE  Then(BootState(S, P, k - 1),
                  spawn_child(BootState(S, P, k - 1), Supervisor, GrantsFor(config, k)))
               = BootState(S, P, k)
  <2>1. BootState(S, P, k - 1).failed = FALSE
    BY DEF BootState, SystemOf
  <2>2. spawn_child(BootState(S, P, k - 1), Supervisor, GrantsFor(config, k)) = BootState(S, P, k)
    BY BootNext
  <2> QED BY <2>1, <2>2 DEF Then
<1>3. closed = [k \in 0 .. S + 2 |-> Step(closed, k)]
  <2>1. ASSUME NEW k \in 0 .. S + 2
        PROVE  closed[k] = Step(closed, k)
    <3>1. CASE k = 0
      BY <1>1, <3>1
    <3>2. CASE k # 0
      <4>1. k \in 1 .. S + 2 /\ k - 1 \in 0 .. S + 2
        BY <3>2
      <4>2. closed[k - 1] = BootState(S, P, k - 1)
        BY <4>1
      <4> QED BY <1>2, <3>2, <4>1, <4>2
    <3> QED BY <3>1, <3>2
  <2> QED BY <2>1
<1>4. after = [k \in 0 .. S + 2 |-> Step(after, k)]
  BY <1>3
<1>5. Booted(config) = after[S + 2]
  <2>1. Producer(config) = S + 2
    BY DEF Sizes
  <2> QED BY <2>1 DEF Booted
<1> HIDE DEF after
<1>6. \A k \in 0 .. S + 2 : after[k] = BootState(S, P, k)
  <2> DEFINE Wrong == {k \in 0 .. S + 2 : after[k] # BootState(S, P, k)}
  <2>1. ASSUME NEW k \in Wrong, \A j \in Wrong : k <= j
        PROVE  FALSE
    <3>1. CASE k = 0
      BY <1>1, <1>4, <2>1, <3>1
    <3>2. CASE k # 0
      <4>1. k \in 1 .. S + 2 /\ k - 1 \in 0 .. S + 2 /\ ~(k <= k - 1)
        BY <3>2
      <4>2. after[k - 1] = BootState(S, P, k - 1)
        BY <2>1, <4>1
      <4>3. after[k] = Then(after[k - 1], spawn_child(after[k - 1], Supervisor, GrantsFor(config, k)))
        BY <1>4, <3>2
      <4> QED BY <1>2, <4>1, <4>2, <4>3
    <3> QED BY <3>1, <3>2
  <2>2. Wrong \in SUBSET Nat
    OBVIOUS
  <2> QED BY <2>1, <2>2, BP!LeastOf, PipelineAssumption
<1>7. S + 2 \in 0 .. S + 2
  OBVIOUS
<1> QED BY <1>5, <1>6, <1>7

\* What everyone has when the boot is done.
BootDone(s, S, P) ==
  /\ DOMAIN s = Fields /\ s.failed = FALSE
  /\ s.epochs = [o \in 0 .. S + 1 + P |-> IF o <= S + 1 THEN 0 ELSE 1]
  /\ DOMAIN s.tables = 0 .. S + 2
  /\ s.tables[0] = FullTable(S + 1)
  /\ \A p \in 1 .. S + 1 : s.tables[p] = [h \in 0 .. 1 |-> IF h = 0 THEN ReadView(S + 1 - p)
                                                          ELSE WriteView(S + 2 - p)]
  /\ s.tables[S + 2] = [h \in 0 .. P + 1 |-> IF h = 0 THEN WriteView(0)
                                             ELSE IF h = 1 THEN ReadView(S + 1) ELSE MovedCap(S + h)]
  /\ DOMAIN s.next_handle = 0 .. S + 2
  /\ \A p \in 1 .. S + 1 : s.next_handle[p] = 2
  /\ s.next_handle[S + 2] = P + 2
  /\ s.queues = [o \in 0 .. S + 1 |-> <<>>]
  /\ s.regions = [o \in S + 2 .. S + 1 + P |-> Zeroed]
  /\ \A h \in s.held :
       \/ h[1] = 0 /\ \E o \in 0 .. S + 1 + P : h[2] = FullCap(o)
       \/ \E p \in 1 .. S + 1 : h[1] = p /\ h[2] \in {ReadView(S + 1 - p), WriteView(S + 2 - p)}
       \/ h[1] = S + 2 /\ h[2] \in {ReadView(S + 1), WriteView(0)}
       \/ h[1] = S + 2 /\ \E k \in 1 .. P : h[2] = MovedCap(S + 1 + k)
  /\ \A k \in 1 .. P : <<S + 2, MovedCap(S + 1 + k)>> \in s.held
  /\ \A h \in s.held : h = <<h[1], h[2]>>

LEMMA StageTable ==
  ASSUME NEW a, NEW b, 2 < HandleSpace
  PROVE  /\ Granted(Empty, 0, <<a, b>>) = [h \in 0 .. 1 |-> IF h = 0 THEN a ELSE b]
         /\ NextHandle(0, <<a, b>>) = 2
<1>1. PICK caps : caps = <<a, b>>
  OBVIOUS
<1>2. DOMAIN caps = 1 .. 2 /\ Len(caps) = 2 /\ caps[1] = a /\ caps[2] = b
  BY <1>1
<1>3. Granted(Empty, 0, caps) = [h \in 0 .. 2 - 1 |-> caps[h + 1]] /\ NextHandle(0, caps) = 2
  BY <1>2, GrantedAll
<1>4. \A h \in 0 .. 1 : caps[h + 1] = IF h = 0 THEN a ELSE b
  <2>1. \A h \in 0 .. 1 : h = 0 \/ h = 1
    OBVIOUS
  <2> QED BY <1>2, <2>1
<1> QED BY <1>1, <1>3, <1>4

LEMMA BootEnds ==
  ASSUME config \in Configs, HandlesSuffice, NEW S \in Nat, NEW P \in Nat, Sizes(S, P)
  PROVE  BootDone(Booted(config), S, P)
<1>1. PICK s : s = BootState(S, P, S + 2)
  OBVIOUS
<1>2. s = Booted(config)
  BY <1>1, BootedIs
<1>3. 2 < HandleSpace /\ P + 2 < HandleSpace
  <2>1. PICK b \in Nat, h \in Nat : b = config.batches /\ h = HandleSpace
    BY ConfigFacts, ProcessAssumption
  <2>2. config.pool + config.batches + 2 < HandleSpace
    BY DEF HandlesSuffice
  <2>3. config.pool = P
    BY DEF Sizes
  <2> QED BY <2>1, <2>2, <2>3
<1>4. /\ DOMAIN s = Fields /\ s.failed = FALSE
      /\ s.epochs = BootEpochs(S, P, S + 2) /\ s.tables = BootTables(S, P, S + 2)
      /\ s.next_handle = BootHandles(S, P, S + 2) /\ s.held = BootHeld(S, P, S + 2)
      /\ s.queues = [o \in 0 .. S + 1 |-> <<>>]
      /\ s.regions = [o \in S + 2 .. S + 1 + P |-> Zeroed]
  BY <1>1 DEF BootState, SystemOf, Fields
<1>5. s.epochs = [o \in 0 .. S + 1 + P |-> IF o <= S + 1 THEN 0 ELSE 1]
  BY <1>4 DEF BootEpochs
<1>6. /\ CapsOf(S, P, S + 2) = ProducerCaps(S, P)
      /\ \A p \in 1 .. S + 1 : CapsOf(S, P, p) = <<ReadView(S + 1 - p), WriteView(S + 2 - p)>>
  <2>1. S + 2 # 0 /\ \A p \in 1 .. S + 1 : p # 0 /\ p # S + 2
    OBVIOUS
  <2> QED BY <2>1 DEF CapsOf
<1>7. /\ DOMAIN s.tables = 0 .. S + 2 /\ s.tables[0] = FullTable(S + 1)
      /\ \A p \in 1 .. S + 2 : s.tables[p] = Granted(Empty, 0, CapsOf(S, P, p))
  <2>1. s.tables = [p \in 0 .. S + 2 |-> IF p = 0 THEN FullTable(S + 1)
                                         ELSE Granted(Empty, 0, CapsOf(S, P, p))]
    BY <1>4 DEF BootTables
  <2>2. 0 \in 0 .. S + 2 /\ \A p \in 1 .. S + 2 : p \in 0 .. S + 2 /\ p # 0
    OBVIOUS
  <2> QED BY <2>1, <2>2
<1>8. /\ DOMAIN s.next_handle = 0 .. S + 2
      /\ \A p \in 1 .. S + 2 : s.next_handle[p] = NextHandle(0, CapsOf(S, P, p))
  <2>1. \A p \in 1 .. S + 2 : p \in 0 .. S + 2
    OBVIOUS
  <2> QED BY <1>4, <2>1 DEF BootHandles
<1>9. ASSUME NEW p \in 1 .. S + 1
      PROVE  /\ s.tables[p] = [h \in 0 .. 1 |-> IF h = 0 THEN ReadView(S + 1 - p)
                                                ELSE WriteView(S + 2 - p)]
             /\ s.next_handle[p] = 2
  <2>1. PICK a, b : a = ReadView(S + 1 - p) /\ b = WriteView(S + 2 - p)
    OBVIOUS
  <2>2. p \in 1 .. S + 2
    OBVIOUS
  <2>3. s.tables[p] = Granted(Empty, 0, <<a, b>>) /\ s.next_handle[p] = NextHandle(0, <<a, b>>)
    BY <1>6, <1>7, <1>8, <2>1, <2>2
  <2> QED BY <1>3, <2>1, <2>3, StageTable
<1>10. PICK caps : caps = ProducerCaps(S, P)
  OBVIOUS
<1>11. /\ DOMAIN caps = 1 .. P + 2 /\ Len(caps) = P + 2
       /\ caps[1] = WriteView(0) /\ caps[2] = ReadView(S + 1)
       /\ \A k \in 3 .. P + 2 : caps[k] = MovedCap(S + k - 1)
  <2>1. caps = [k \in 1 .. P + 2 |-> IF k = 1 THEN WriteView(0)
                        ELSE IF k = 2 THEN ReadView(S + 1) ELSE MovedCap(S + k - 1)]
    BY <1>10 DEF ProducerCaps
  <2>2. DOMAIN caps = 1 .. P + 2 /\ Len(caps) = P + 2
    BY <2>1
  <2>3. 1 \in 1 .. P + 2 /\ 2 \in 1 .. P + 2 /\ \A k \in 3 .. P + 2 : k \in 1 .. P + 2 /\ k # 1 /\ k # 2
    OBVIOUS
  <2> QED BY <2>1, <2>2, <2>3
<1>12. /\ s.tables[S + 2] = [h \in 0 .. P + 1 |-> IF h = 0 THEN WriteView(0)
                               ELSE IF h = 1 THEN ReadView(S + 1) ELSE MovedCap(S + h)]
       /\ s.next_handle[S + 2] = P + 2
  <2>1. S + 2 \in 1 .. S + 2 /\ P + 2 - 1 = P + 1
    OBVIOUS
  <2>2. Granted(Empty, 0, caps) = [h \in 0 .. P + 2 - 1 |-> caps[h + 1]] /\ NextHandle(0, caps) = P + 2
    <3>1. PICK L \in Nat : L = P + 2
      OBVIOUS
    <3>2. DOMAIN caps = 1 .. L /\ Len(caps) = L /\ L < HandleSpace
      BY <1>3, <1>11, <3>1
    <3>3. Granted(Empty, 0, caps) = [h \in 0 .. L - 1 |-> caps[h + 1]] /\ NextHandle(0, caps) = L
      BY <3>2, GrantedAll
    <3> QED BY <3>1, <3>3
  <2>3. \A h \in 0 .. P + 1 : caps[h + 1] = IF h = 0 THEN WriteView(0)
                               ELSE IF h = 1 THEN ReadView(S + 1) ELSE MovedCap(S + h)
    <3> SUFFICES ASSUME NEW h \in 0 .. P + 1
                 PROVE  caps[h + 1] = IF h = 0 THEN WriteView(0)
                               ELSE IF h = 1 THEN ReadView(S + 1) ELSE MovedCap(S + h)
      OBVIOUS
    <3>1. CASE h = 0 \/ h = 1
      BY <1>11, <3>1
    <3>2. CASE h # 0 /\ h # 1
      <4>1. h + 1 \in 3 .. P + 2 /\ S + (h + 1) - 1 = S + h
        BY <3>2
      <4>2. caps[h + 1] = MovedCap(S + (h + 1) - 1)
        BY <1>11, <4>1
      <4> QED BY <3>2, <4>1, <4>2
    <3> QED BY <3>1, <3>2
  <2>4. s.tables[S + 2] = Granted(Empty, 0, caps) /\ s.next_handle[S + 2] = NextHandle(0, caps)
    BY <1>6, <1>7, <1>8, <1>10, <2>1
  <2> QED BY <2>1, <2>2, <2>3, <2>4
<1>13. \A h : h \in s.held <=> \E p \in 0 .. S + 2 : h \in HeldBy(p, CapsOf(S, P, p))
  BY <1>4 DEF BootHeld
<1>14. ASSUME NEW h \in s.held
       PROVE  \/ h[1] = 0 /\ \E o \in 0 .. S + 1 + P : h[2] = FullCap(o)
              \/ \E p \in 1 .. S + 1 : h[1] = p /\ h[2] \in {ReadView(S + 1 - p), WriteView(S + 2 - p)}
              \/ h[1] = S + 2 /\ h[2] \in {ReadView(S + 1), WriteView(0)}
              \/ h[1] = S + 2 /\ \E k \in 1 .. P : h[2] = MovedCap(S + 1 + k)
  <2>1. PICK p \in 0 .. S + 2 : h \in HeldBy(p, CapsOf(S, P, p))
    BY <1>13
  <2>2. PICK k \in DOMAIN CapsOf(S, P, p) : h = <<p, CapsOf(S, P, p)[k]>>
    BY <2>1 DEF HeldBy, SetOf
  <2>3. h[1] = p /\ h[2] = CapsOf(S, P, p)[k]
    BY <2>2
  <2>4. CASE p = 0
    <3>1. CapsOf(S, P, p) = [j \in 1 .. S + 2 + P |-> FullCap(j - 1)]
      BY <2>4 DEF CapsOf
    <3>2. k \in 1 .. S + 2 + P /\ h[2] = FullCap(k - 1)
      BY <2>3, <3>1
    <3>3. k - 1 \in 0 .. S + 1 + P
      BY <3>2
    <3> QED BY <2>3, <2>4, <3>2, <3>3
  <2>5. CASE p \in 1 .. S + 1
    <3>1. PICK a, b : a = ReadView(S + 1 - p) /\ b = WriteView(S + 2 - p)
      OBVIOUS
    <3>2. CapsOf(S, P, p) = <<a, b>>
      BY <1>6, <2>5, <3>1
    <3>3. CapsOf(S, P, p)[k] \in {a, b}
      <4>1. \A c, j : c = <<a, b>> /\ j \in DOMAIN c => c[j] \in {a, b}
        OBVIOUS
      <4> QED BY <3>2, <4>1
    <3> QED BY <2>3, <2>5, <3>1, <3>3
  <2>6. CASE p = S + 2
    <3>1. k \in 1 .. P + 2 /\ h[2] = caps[k]
      BY <1>6, <1>10, <1>11, <2>3, <2>6
    <3>2. CASE k = 1 \/ k = 2
      BY <1>11, <2>3, <2>6, <3>1, <3>2
    <3>3. CASE k # 1 /\ k # 2
      <4>1. PICK j \in 1 .. P : k = j + 2
        <5>1. k - 2 \in 1 .. P /\ k = (k - 2) + 2
          BY <3>1, <3>3
        <5> QED BY <5>1
      <4>2. k \in 3 .. P + 2 /\ S + k - 1 = S + 1 + j
        BY <4>1
      <4>3. h[2] = MovedCap(S + 1 + j)
        BY <1>11, <3>1, <4>2
      <4> QED BY <2>3, <2>6, <4>3
    <3> QED BY <3>2, <3>3
  <2> QED BY <2>4, <2>5, <2>6
<1>15. ASSUME NEW k \in 1 .. P
       PROVE  <<S + 2, MovedCap(S + 1 + k)>> \in s.held
  <2>1. k + 2 \in 3 .. P + 2 /\ k + 2 \in 1 .. P + 2 /\ S + (k + 2) - 1 = S + 1 + k
    OBVIOUS
  <2>2. caps[k + 2] = MovedCap(S + 1 + k) /\ k + 2 \in DOMAIN caps
    BY <1>11, <2>1
  <2>3. <<S + 2, caps[k + 2]>> \in HeldBy(S + 2, caps)
    BY <2>2 DEF HeldBy, SetOf
  <2>4. S + 2 \in 0 .. S + 2
    OBVIOUS
  <2> QED BY <1>6, <1>10, <1>13, <2>2, <2>3, <2>4
<1>16. ASSUME NEW h \in s.held PROVE h = <<h[1], h[2]>>
  <2>1. PICK p \in 0 .. S + 2 : h \in HeldBy(p, CapsOf(S, P, p))
    BY <1>13
  <2>2. PICK k \in DOMAIN CapsOf(S, P, p) : h = <<p, CapsOf(S, P, p)[k]>>
    BY <2>1 DEF HeldBy, SetOf
  <2> QED BY <2>2
<1>17. BootDone(s, S, P)
  BY <1>4, <1>5, <1>7, <1>8, <1>9, <1>12, <1>14, <1>15, <1>16 DEF BootDone
<1> QED BY <1>2, <1>17

LEMMA SortedIs ==
  ASSUME NEW s, NEW p, NEW m \in Nat, DOMAIN s.tables[p] = 0 .. m
  PROVE  sorted_handles(s, p) = [k \in 1 .. m + 1 |-> k - 1]
<1>1. PICK handles : handles = DOMAIN s.tables[p]
  OBVIOUS
<1>2. handles = 0 .. m
  BY <1>1
<1>3. Cardinality(handles) = m + 1
  <2>1. 0 \in Int /\ m \in Int /\ ~(0 > m)
    OBVIOUS
  <2>2. Cardinality(0 .. m) = m - 0 + 1
    BY <2>1, FS_Interval
  <2> QED BY <1>2, <2>2
<1>4. ASSUME NEW h \in 0 .. m
      PROVE  Cardinality({x \in handles : x < h}) = h
  <2>1. 0 \in Int /\ h - 1 \in Int
    OBVIOUS
  <2>2. Cardinality(0 .. h - 1) = IF 0 > h - 1 THEN 0 ELSE (h - 1) - 0 + 1
    BY <2>1, FS_Interval
  <2>3. Cardinality(0 .. h - 1) = h
    BY <2>2
  <2>4. {x \in handles : x < h} = 0 .. h - 1
    BY <1>2
  <2> QED BY <2>3, <2>4
<1>5. ASSUME NEW k \in 1 .. m + 1
      PROVE  (CHOOSE h \in handles : Cardinality({x \in handles : x < h}) = k - 1) = k - 1
  <2>1. PICK j \in 0 .. m : j = k - 1
    OBVIOUS
  <2>2. \A h \in handles : Cardinality({x \in handles : x < h}) = k - 1 <=> h = j
    BY <1>2, <1>4, <2>1
  <2>3. j \in handles
    BY <1>2, <2>1
  <2> DEFINE Q(h) == Cardinality({x \in handles : x < h}) = k - 1
  <2>4. \A h \in handles : Q(h) <=> h = j
    BY <2>2
  <2> HIDE DEF Q
  <2>5. (CHOOSE h \in handles : Q(h)) = j
    BY <2>3, <2>4
  <2> QED BY <2>1, <2>5 DEF Q
<1>6. sorted_handles(s, p)
        = [k \in 1 .. Cardinality(handles) |->
             CHOOSE h \in handles : Cardinality({x \in handles : x < h}) = k - 1]
  BY <1>1 DEF sorted_handles
<1> QED BY <1>3, <1>5, <1>6

LEMMA InitFields ==
  ASSUME HandlesSuffice, Init, NEW S \in Nat, NEW P \in Nat, Sizes(S, P)
  PROVE  /\ BootDone(sys, S, P)
         /\ free_regions = [k \in 1 .. P |-> k + 1]
         /\ \A p \in 1 .. S + 1 : stages[p].input = 0 /\ stages[p].output = 1
         /\ stages[S + 2].input = 1 /\ stages[S + 2].output = 0
<1>1. config \in Configs /\ sys = Booted(config)
  BY DEF Init
<1>2. BootDone(sys, S, P)
  BY <1>1, BootEnds
<1>3. Producer(config) = S + 2 /\ config.pool = P
  BY DEF Sizes
<1>4. ASSUME NEW p \in 1 .. S + 1
      PROVE  DOMAIN sys.tables[p] = 0 .. 1
  <2>1. sys.tables[p] = [h \in 0 .. 1 |-> IF h = 0 THEN ReadView(S + 1 - p) ELSE WriteView(S + 2 - p)]
    BY <1>2 DEF BootDone
  <2>2. PICK table : table = sys.tables[p]
    OBVIOUS
  <2>3. DOMAIN table = 0 .. 1
    BY <2>1, <2>2
  <2> QED BY <2>2, <2>3
<1>5. DOMAIN sys.tables[S + 2] = 0 .. P + 1
  BY <1>2 DEF BootDone
<1>6. \A p \in 1 .. S + 1 : sorted_handles(sys, p)[1] = 0 /\ sorted_handles(sys, p)[2] = 1
  <2> SUFFICES ASSUME NEW p \in 1 .. S + 1
               PROVE  sorted_handles(sys, p)[1] = 0 /\ sorted_handles(sys, p)[2] = 1
    OBVIOUS
  <2>1. sorted_handles(sys, p) = [k \in 1 .. 1 + 1 |-> k - 1]
    BY <1>4, SortedIs
  <2> QED BY <2>1
<1>7. sorted_handles(sys, S + 2) = [k \in 1 .. P + 2 |-> k - 1]
  <2>1. PICK m \in Nat : m = P + 1 /\ m + 1 = P + 2
    OBVIOUS
  <2>2. sorted_handles(sys, S + 2) = [k \in 1 .. m + 1 |-> k - 1]
    BY <1>5, <2>1, SortedIs
  <2> QED BY <2>1, <2>2
<1>8. free_regions = [k \in 1 .. P |-> k + 1]
  <2>1. PICK h : h = sorted_handles(sys, S + 2)
    OBVIOUS
  <2>2. free_regions = SubSeq(h, 3, 2 + P)
    BY <1>3, <2>1 DEF Init
  <2>3. SubSeq(h, 3, 2 + P) = [i \in 1 .. (1 + (2 + P) - 3) |-> h[i + 3 - 1]]
    OBVIOUS
  <2>4. 1 + (2 + P) - 3 = P
    OBVIOUS
  <2>5. \A i \in 1 .. P : h[i + 3 - 1] = i + 1
    <3> SUFFICES ASSUME NEW i \in 1 .. P PROVE h[i + 3 - 1] = i + 1
      OBVIOUS
    <3>1. i + 3 - 1 \in 1 .. P + 2 /\ (i + 3 - 1) - 1 = i + 1
      OBVIOUS
    <3> QED BY <1>7, <2>1, <3>1
  <2> QED BY <2>2, <2>3, <2>4, <2>5
<1>9. ASSUME NEW p \in 1 .. S + 2
      PROVE  LET h == sorted_handles(sys, p) IN
             stages[p] = IF p = S + 2 THEN [output |-> h[1], input |-> h[2]]
                         ELSE [input |-> h[1], output |-> h[2]]
  BY <1>3 DEF Init
<1>10. \A p \in 1 .. S + 1 : stages[p].input = 0 /\ stages[p].output = 1
  <2> SUFFICES ASSUME NEW p \in 1 .. S + 1 PROVE stages[p].input = 0 /\ stages[p].output = 1
    OBVIOUS
  <2>1. p \in 1 .. S + 2 /\ p # S + 2
    OBVIOUS
  <2>2. stages[p] = [input |-> sorted_handles(sys, p)[1], output |-> sorted_handles(sys, p)[2]]
    BY <1>9, <2>1
  <2> QED BY <1>6, <2>2
<1>11. stages[S + 2].input = 1 /\ stages[S + 2].output = 0
  <2>1. S + 2 \in 1 .. S + 2 /\ 1 \in 1 .. P + 2 /\ 2 \in 1 .. P + 2
    OBVIOUS
  <2>2. sorted_handles(sys, S + 2)[1] = 0 /\ sorted_handles(sys, S + 2)[2] = 1
    BY <1>7, <2>1
  <2>3. stages[S + 2] = [output |-> sorted_handles(sys, S + 2)[1], input |-> sorted_handles(sys, S + 2)[2]]
    BY <1>9, <2>1
  <2> QED BY <2>2, <2>3
<1> QED BY <1>2, <1>8, <1>10, <1>11

LEMMA BootOwn ==
  ASSUME config \in Configs, NEW S \in Nat, NEW P \in Nat, Sizes(S, P),
         NEW s, BootDone(s, S, P), NEW free, free = [k \in 1 .. P |-> k + 1],
         \A p \in 1 .. S + 1 : stages[p].input = 0 /\ stages[p].output = 1,
         stages[S + 2].input = 1 /\ stages[S + 2].output = 0
  PROVE  Own(s, free, 0, 0)
<1>1. /\ config.stages = S /\ config.pool = P /\ Return(config) = S + 1 /\ Producer(config) = S + 2
      /\ Regions(config) = S + 2 .. S + 1 + P /\ Supervisor = 0
  BY DEF Sizes
<1>2. /\ s.epochs = [o \in 0 .. S + 1 + P |-> IF o <= S + 1 THEN 0 ELSE 1]
      /\ \A o \in 0 .. S + 1 : o \in 0 .. S + 1 + P /\ s.epochs[o] = 0 /\ s.queues[o] = <<>>
      /\ \A o \in S + 2 .. S + 1 + P : o \in 0 .. S + 1 + P /\ s.epochs[o] = 1
  BY DEF BootDone
<1>3. SystemOK(s)
  BY <1>1, <1>2 DEF SystemOK, BootDone
<1>4. DOMAIN free = 1 .. P /\ (\A k \in 1 .. P : free[k] = k + 1) /\ free \in Seq(Nat \ {0, 1})
  OBVIOUS
<1>5. ViewsOK(s)
  <2> SUFFICES ASSUME NEW p \in 1 .. S + 2
               PROVE  /\ {stages[p].input, stages[p].output} = {0, 1}
                      /\ s.tables[p][stages[p].input] = ReadView(InputOf(config, p))
                      /\ s.tables[p][stages[p].output] = WriteView(OutputOf(config, p))
    BY <1>1 DEF ViewsOK, cap_of
  <2>1. CASE p = S + 2
    <3>1. InputOf(config, p) = S + 1 /\ OutputOf(config, p) = 0
      BY <1>1, <2>1 DEF InputOf, OutputOf
    <3>2. s.tables[p][0] = WriteView(0) /\ s.tables[p][1] = ReadView(S + 1)
      <4>1. 0 \in 0 .. P + 1 /\ 1 \in 0 .. P + 1
        OBVIOUS
      <4>2. s.tables[S + 2] = [h \in 0 .. P + 1 |-> IF h = 0 THEN WriteView(0)
                                   ELSE IF h = 1 THEN ReadView(S + 1) ELSE MovedCap(S + h)]
        BY DEF BootDone
      <4> QED BY <2>1, <4>1, <4>2
    <3> QED BY <2>1, <3>1, <3>2
  <2>2. CASE p # S + 2
    <3>1. p \in 1 .. S + 1
      BY <2>2
    <3>2. InputOf(config, p) = S + 1 - p /\ OutputOf(config, p) = S + 2 - p
      BY <1>1, <2>2 DEF InputOf, OutputOf
    <3>3. s.tables[p][0] = ReadView(S + 1 - p) /\ s.tables[p][1] = WriteView(S + 2 - p)
      <4>1. PICK table : table = s.tables[p]
        OBVIOUS
      <4>2. table = [h \in 0 .. 1 |-> IF h = 0 THEN ReadView(S + 1 - p) ELSE WriteView(S + 2 - p)]
        BY <3>1, <4>1 DEF BootDone
      <4>3. table[0] = ReadView(S + 1 - p) /\ table[1] = WriteView(S + 2 - p)
        BY <4>2
      <4> QED BY <4>1, <4>3
    <3>4. stages[p].input = 0 /\ stages[p].output = 1
      BY <3>1
    <3> QED BY <3>2, <3>3, <3>4
  <2> QED BY <2>1, <2>2
<1>6. /\ DOMAIN s.tables[S + 2] = 0 .. P + 1
      /\ \A k \in 1 .. P : s.tables[S + 2][free[k]] = MovedCap(S + 1 + k)
  <2>1. s.tables[S + 2] = [h \in 0 .. P + 1 |-> IF h = 0 THEN WriteView(0)
                               ELSE IF h = 1 THEN ReadView(S + 1) ELSE MovedCap(S + h)]
    BY DEF BootDone
  <2> SUFFICES ASSUME NEW k \in 1 .. P PROVE s.tables[S + 2][k + 1] = MovedCap(S + 1 + k)
    BY <1>4, <2>1
  <2>2. k + 1 \in 0 .. P + 1 /\ k + 1 # 0 /\ k + 1 # 1 /\ S + (k + 1) = S + 1 + k
    OBVIOUS
  <2>3. s.tables[S + 2][k + 1] = MovedCap(S + (k + 1))
    BY <2>1, <2>2
  <2> QED BY <2>2, <2>3
<1>7. TableDomainsOK(s, free)
  <2>1. SetOf(free) = 2 .. P + 1
    <3>1. \A h \in 2 .. P + 1 : h - 1 \in 1 .. P /\ (h - 1) + 1 = h
      OBVIOUS
    <3>2. \A k \in 1 .. P : k + 1 \in 2 .. P + 1
      OBVIOUS
    <3>3. \A h : h \in SetOf(free) <=> \E k \in 1 .. P : h = k + 1
      BY <1>4 DEF SetOf
    <3>4. \A h : h \in 2 .. P + 1 <=> \E k \in 1 .. P : h = k + 1
      BY <3>1, <3>2
    <3> QED BY <3>3, <3>4
  <2>2. DOMAIN s.tables[S + 2] = {0, 1} \union SetOf(free)
    BY <1>6, <2>1
  <2>3. DOMAIN s.tables[0] = 0 .. S + 1
    BY DEF BootDone, FullTable
  <2>4. ASSUME NEW p \in 1 .. S + 2
        PROVE  DOMAIN s.tables[p] = {0, 1} \union (IF p = S + 2 THEN SetOf(free) ELSE {})
    <3>1. CASE p = S + 2
      BY <2>2, <3>1
    <3>2. CASE p # S + 2
      <4>1. p \in 1 .. S + 1 /\ 0 .. 1 = {0, 1}
        BY <3>2
      <4>2. DOMAIN s.tables[p] = 0 .. 1
        BY <4>1 DEF BootDone
      <4> QED BY <3>2, <4>1, <4>2
    <3> QED BY <3>1, <3>2
  <2> QED BY <1>1, <2>3, <2>4 DEF TableDomainsOK
<1>8. QueuesOK(s)
  BY <1>1, <1>2 DEF QueuesOK
<1>9. \A k \in 1 .. P : MovedCap(S + 1 + k) = RegionCap(config, s.epochs, 0 + (k - 1))
                        /\ S + 1 + k \in S + 2 .. S + 1 + P
  <2> SUFFICES ASSUME NEW k \in 1 .. P
               PROVE  /\ MovedCap(S + 1 + k) = RegionCap(config, s.epochs, 0 + (k - 1))
                      /\ S + 1 + k \in S + 2 .. S + 1 + P
    OBVIOUS
  <2>1. 0 + (k - 1) = k - 1 /\ k - 1 \in 0 .. P - 1
    OBVIOUS
  <2>2. (k - 1) % P = k - 1
    <3>1. PICK j \in Nat : j = k - 1 /\ j < P
      OBVIOUS
    <3>2. \A m \in Nat \ {0} : \A i \in 0 .. m - 1 : i % m = i
      BY SMTT(20)
    <3>3. P \in Nat \ {0} /\ j \in 0 .. P - 1
      BY <3>1
    <3> QED BY <3>1, <3>2, <3>3
  <2>3. RegionOf(config, 0 + (k - 1)) = S + 1 + 1 + (k - 1)
    BY <1>1, <2>1, <2>2 DEF RegionOf
  <2>4. S + 1 + 1 + (k - 1) = S + 1 + k /\ S + 1 + k \in S + 2 .. S + 1 + P
    OBVIOUS
  <2>5. s.epochs[S + 1 + k] = 1
    BY <1>2, <2>4
  <2> QED BY <2>3, <2>4, <2>5 DEF RegionCap, MovedCap
<1>10. FreeOK(s, free, 0)
  <2>1. \A k \in 1 .. P : free[k] < s.next_handle[S + 2]
    BY <1>4 DEF BootDone
  <2> QED BY <1>1, <1>4, <1>6, <1>9, <2>1 DEF FreeOK
<1>11. HandlesOK(s, 0, 0)
  <2>1. \A p \in 1 .. S + 1 : s.next_handle[p] \in 2 .. 2 + 0
    BY DEF BootDone
  <2>2. S + 1 \in 0 .. S + 1
    OBVIOUS
  <2>3. Returning(s) = 0
    BY <1>1, <1>2, <2>2 DEF Returning
  <2>4. s.next_handle[S + 2] \in 2 .. 2 + P + 0 - 0
    BY DEF BootDone
  <2>5. ASSUME NEW p \in 1 .. S + 1, NEW o \in 0 .. InputOf(config, p)
        PROVE  s.queues[o] = <<>>
    <3>1. InputOf(config, p) = S + 1 - p
      BY <1>1 DEF InputOf
    <3>2. o \in 0 .. S + 1
      BY <3>1
    <3> QED BY <1>2, <3>2
  <2> QED BY <1>1, <2>1, <2>3, <2>4, <2>5 DEF HandlesOK
<1>12. HeldOK(s, free)
  <2>1. ASSUME NEW h \in s.held
        PROVE  IF h[2].object \in Regions(config)
               THEN /\ h[2].epoch \in Nat /\ h[2].epoch <= s.epochs[h[2].object]
                    /\ h[2].epoch = s.epochs[h[2].object] =>
                         h[1] = Producer(config) /\ \E k \in DOMAIN free :
                           h[2] = s.tables[Producer(config)][free[k]]
               ELSE h[1] # Supervisor =>
                      /\ h[1] \in 1 .. Producer(config)
                      /\ h[2] \in {ReadView(InputOf(config, h[1])), WriteView(OutputOf(config, h[1]))}
    <3>1. CASE h[1] = 0 /\ \E o \in 0 .. S + 1 + P : h[2] = FullCap(o)
      <4>1. h[2].epoch = 0
        BY <3>1 DEF FullCap
      <4>2. h[2].object \in Regions(config) => s.epochs[h[2].object] = 1
        BY <1>1, <1>2
      <4> QED BY <1>1, <3>1, <4>1, <4>2
    <3>2. CASE \E p \in 1 .. S + 1 : h[1] = p /\ h[2] \in {ReadView(S + 1 - p), WriteView(S + 2 - p)}
      <4>1. PICK p \in 1 .. S + 1 : h[1] = p /\ h[2] \in {ReadView(S + 1 - p), WriteView(S + 2 - p)}
        BY <3>2
      <4>2. InputOf(config, p) = S + 1 - p /\ OutputOf(config, p) = S + 2 - p /\ p \in 1 .. S + 2
        BY <1>1 DEF InputOf, OutputOf
      <4>3. h[2].object \in {S + 1 - p, S + 2 - p}
        BY <4>1 DEF ReadView, WriteView
      <4>4. h[2].object \notin Regions(config)
        BY <1>1, <4>3
      <4> QED BY <1>1, <4>1, <4>2, <4>4
    <3>3. CASE h[1] = S + 2 /\ h[2] \in {ReadView(S + 1), WriteView(0)}
      <4>1. InputOf(config, S + 2) = S + 1 /\ OutputOf(config, S + 2) = 0 /\ S + 2 \in 1 .. S + 2
        BY <1>1 DEF InputOf, OutputOf
      <4>2. h[2].object \in {S + 1, 0}
        BY <3>3 DEF ReadView, WriteView
      <4>3. h[2].object \notin Regions(config)
        BY <1>1, <4>2
      <4> QED BY <1>1, <3>3, <4>1, <4>3
    <3>4. CASE h[1] = S + 2 /\ \E k \in 1 .. P : h[2] = MovedCap(S + 1 + k)
      <4>1. PICK k \in 1 .. P : h[2] = MovedCap(S + 1 + k)
        BY <3>4
      <4>2. h[2].object = S + 1 + k /\ h[2].epoch = 1
        BY <4>1 DEF MovedCap
      <4>3. h[2].object \in Regions(config) /\ s.epochs[h[2].object] = 1
        BY <1>1, <1>2, <1>9, <4>2
      <4>4. h[2] = s.tables[S + 2][free[k]]
        BY <1>6, <4>1
      <4> QED BY <1>1, <1>4, <3>4, <4>2, <4>3, <4>4
    <3> QED BY <3>1, <3>2, <3>3, <3>4 DEF BootDone
  <2>2. \A k \in 1 .. P : <<S + 2, s.tables[S + 2][free[k]]>> \in s.held
    BY <1>6 DEF BootDone
  <2>3. \A h \in s.held : h = <<h[1], h[2]>>
    BY DEF BootDone
  <2> QED BY <1>1, <1>4, <2>1, <2>2, <2>3 DEF HeldOK
<1>13. CoveredOK(s, free)
  <2> SUFFICES ASSUME NEW o \in S + 2 .. S + 1 + P
               PROVE  \E k \in DOMAIN free : s.tables[S + 2][free[k]].object = o
    <3>1. \A o \in Regions(config) : \E k \in DOMAIN free : s.tables[Producer(config)][free[k]].object = o
      BY SMTT(20), <1>1
    <3> QED BY <3>1 DEF CoveredOK
  <2>1. PICK k \in 1 .. P : S + 1 + k = o
    <3>1. o - (S + 1) \in 1 .. P /\ S + 1 + (o - (S + 1)) = o
      OBVIOUS
    <3> QED BY <3>1
  <2>2. s.tables[S + 2][free[k]] = MovedCap(o)
    BY <1>6, <2>1
  <2>3. MovedCap(o).object = o
    BY DEF MovedCap
  <2> QED BY <1>4, <2>2, <2>3
<1> QED BY <1>3, <1>5, <1>7, <1>8, <1>10, <1>11, <1>12, <1>13 DEF Own

LEMMA BootsIntoInv ==
  ASSUME HandlesSuffice, Init
  PROVE  BP!Init /\ PipelineInv
<1>1. config \in Configs /\ next_batch = 0 /\ results = <<>> /\ idle_streak = 0
      /\ stats = [scheduler_turns |-> 0, idle_turns |-> 0, messages |-> 0, touched |-> 0]
      /\ ready_queue = [k \in 1 .. processes(config) |-> k - 1]
  BY DEF Init
<1>2. PICK S \in Nat, P \in Nat : Sizes(S, P)
  BY <1>1, SizesExist
<1>3. /\ config.stages = S /\ config.pool = P /\ Return(config) = S + 1 /\ Producer(config) = S + 2
      /\ Regions(config) = S + 2 .. S + 1 + P /\ processes(config) = S + 3 /\ config.batches \in Nat
  BY <1>1, <1>2, ConfigFacts DEF Sizes
<1>4. /\ BootDone(sys, S, P) /\ free_regions = [k \in 1 .. P |-> k + 1]
      /\ \A p \in 1 .. S + 1 : stages[p].input = 0 /\ stages[p].output = 1
      /\ stages[S + 2].input = 1 /\ stages[S + 2].output = 0
  BY <1>2, InitFields
<1>5. Own(sys, free_regions, 0, 0)
  BY <1>1, <1>2, <1>4, BootOwn
<1>6. Len(results) = 0
  BY <1>1
<1>7. Head(ready_queue) = 0 /\ ready_queue = [k \in 1 .. S + 3 |-> (0 + (k - 1)) % (S + 3)]
  <2>1. PICK n \in Nat \ {0} : n = S + 3
    OBVIOUS
  <2>2. ready_queue = [k \in 1 .. n |-> k - 1]
    BY <1>1, <1>3, <2>1
  <2>3. ready_queue # <<>> /\ Head(ready_queue) = ready_queue[1]
    <3>1. ready_queue \in Seq(Nat)
      BY <2>2
    <3>2. 1 \in DOMAIN ready_queue
      BY <2>2
    <3> QED BY <3>1, <3>2
  <2>4. 1 \in 1 .. n /\ 1 - 1 = 0
    OBVIOUS
  <2>5. \A i \in 0 .. n - 1 : i % n = i
    OBVIOUS
  <2>6. \A k \in 1 .. n : k - 1 = (0 + (k - 1)) % n
    <3> SUFFICES ASSUME NEW k \in 1 .. n PROVE k - 1 = (0 + (k - 1)) % n
      OBVIOUS
    <3>1. PICK i \in 0 .. n - 1 : i = k - 1 /\ i = 0 + (k - 1)
      OBVIOUS
    <3> QED BY <2>5, <3>1
  <2> QED BY <2>1, <2>2, <2>3, <2>4, <2>6
<1>8. \A o \in 0 .. S + 1 : sys.queues[o] = <<>> /\ Messages(sys, o) = <<>>
  <2> SUFFICES ASSUME NEW o \in 0 .. S + 1
               PROVE  sys.queues[o] = <<>> /\ Messages(sys, o) = <<>>
    OBVIOUS
  <2>1. sys.queues[o] = <<>>
    BY <1>4 DEF BootDone
  <2> QED BY <2>1, NoMessage
<1>9. ReadyOK
  <2>1. sys.queues[S + 1] = <<>>
    BY <1>8
  <2>2. 0 \in 0 .. S + 2
    OBVIOUS
  <2> QED BY <1>3, <1>7, <2>1, <2>2 DEF ReadyOK
<1>10. Chan = [i \in 0 .. S |-> <<>>] /\ messages_of(Return(config)) = <<>>
  <2>1. \A i \in 0 .. S : Messages(sys, i) = <<>>
    BY <1>8
  <2>2. Messages(sys, S + 1) = <<>>
    BY <1>8
  <2> QED BY <1>3, <2>1, <2>2, BaselineSees
<1>11. PoolOf(sys, free_regions) = [k \in 1 .. P |-> Zeroed]
  <2>1. FreeOK(sys, free_regions, 0)
    BY <1>5 DEF Own
  <2>2. \A k \in DOMAIN free_regions :
          sys.tables[Producer(config)][free_regions[k]].object = RegionOf(config, 0 + (k - 1))
    BY <2>1, FreeObjects
  <2>3. DOMAIN free_regions = 1 .. P
    BY <1>4
  <2>4. ASSUME NEW k \in 1 .. P
        PROVE  RegionOf(config, 0 + (k - 1)) \in Regions(config)
    <3>1. k - 1 \in Nat /\ 0 + (k - 1) = k - 1 /\ config.pool # 0
      BY <1>3
    <3> QED BY <1>1, <3>1, RegionTypes
  <2>5. \A r \in Regions(config) : sys.regions[r] = Zeroed
    BY <1>3, <1>4 DEF BootDone
  <2>6. \A k \in 1 .. P :
          sys.regions[sys.tables[Producer(config)][free_regions[k]].object] = Zeroed
    BY <2>2, <2>3, <2>4, <2>5
  <2> QED BY <2>3, <2>6 DEF PoolOf
<1>12. BP!Init
  <2>1. [k \in DOMAIN free_regions |-> contents_of(cap_of(sys, Producer(config), free_regions[k]))]
          = [k \in 1 .. config.pool |-> BP!Zeroed]
    BY <1>3, <1>11, BaselineSees DEF Zeroed, BP!Zeroed
  <2> QED BY <1>1, <1>3, <1>7, <1>10, <2>1 DEF BP!Init, BP!Supervisor, BP!NoStats, Chan
<1>13. BP!BaselineInv
  BY <1>12, BP!InitBaselineInv, PipelineAssumption
<1> QED BY <1>1, <1>3, <1>5, <1>6, <1>9, <1>12, <1>13 DEF PipelineInv

LEMMA PipelineStutters ==
  ASSUME PipelineInv, UNCHANGED vars
  PROVE  PipelineInv' /\ UNCHANGED BP!vars
<1>1. /\ config' = config /\ sys' = sys /\ stages' = stages /\ ready_queue' = ready_queue
      /\ free_regions' = free_regions /\ next_batch' = next_batch /\ idle_streak' = idle_streak
      /\ results' = results /\ stats' = stats
  BY DEF vars
<1>2. Own(sys, free_regions, next_batch, Len(results))'
  <2>1. Own(sys', free_regions', next_batch', Len(results'))
    BY <1>1 DEF PipelineInv
  <2> QED BY <1>1, <2>1, OwnNext
<1>3. ReadyOK'
  BY <1>1 DEF PipelineInv, ReadyOK, Producer, Return, processes, Carried, Supervisor, Sink
<1>4. /\ Chan' = Chan /\ messages_of(Return(config))' = messages_of(Return(config))
      /\ [k \in DOMAIN free_regions |-> contents_of(cap_of(sys, Producer(config), free_regions[k]))]'
           = [k \in DOMAIN free_regions |-> contents_of(cap_of(sys, Producer(config), free_regions[k]))]
      /\ Head(ready_queue)' = Head(ready_queue)
  BY <1>1, BaselineSees, BaselineSeesNext
<1>5. UNCHANGED BP!vars
  BY <1>1, <1>4 DEF BP!vars, Chan
<1>6. BP!BaselineInv'
  BY <1>1, <1>4 DEF PipelineInv, BP!BaselineInv, BP!ScheduleOK, BP!MessagesOK, BP!MessageAt,
     BP!ResultsOK, BP!RegionsOK, BP!Waits, Chan
<1> QED BY <1>1, <1>2, <1>3, <1>5, <1>6 DEF PipelineInv

LEMMA PipelineInvAlways == ASSUME HandlesSuffice PROVE Spec => []PipelineInv
<1>1. Init => PipelineInv
  BY BootsIntoInv
<1>2. PipelineInv /\ [Next]_vars => PipelineInv'
  BY PipelineSteps, PipelineStutters
<1> QED BY <1>1, <1>2, PTL DEF Spec

\* No call is ever refused: boot and turns alike, every process has the authority
\* its next calls need, for every number of stages, regions and batches.
THEOREM CallsSucceed == ASSUME HandlesSuffice PROVE Spec => []NoCallFails
<1>1. PipelineInv => NoCallFails
  BY DEF PipelineInv, Own, SystemOK, NoCallFails
<1> QED BY <1>1, PipelineInvAlways, PTL

LEMMA InvMeansRotation == ASSUME PipelineInv PROVE RegionsRotate
<1>1. QueuesOK(sys) /\ DOMAIN sys.queues = 0 .. Return(config)
  BY DEF PipelineInv, Own, SystemOK
<1>2. ASSUME NEW ch \in 0 .. Return(config), NEW m \in SetOf(sys.queues[ch])
      PROVE  Head(m.caps).object = Return(config) + 1 + (m.data % config.pool)
  <2>1. sys.queues[ch] # <<>>
    BY <1>2 DEF SetOf
  <2>2. PICK b \in Nat : sys.queues[ch] = <<MessageOf(config, sys.epochs, b)>>
    BY <1>1, <2>1 DEF QueuesOK
  <2>3. PICK one, cap : one = MessageOf(config, sys.epochs, b) /\ cap = RegionCap(config, sys.epochs, b)
    OBVIOUS
  <2>4. m = one
    BY <1>2, <2>2, <2>3 DEF SetOf
  <2>5. one.data = b /\ one.caps = <<cap>> /\ cap.object = RegionOf(config, b)
    BY <2>3 DEF MessageOf, RegionCap
  <2>6. Head(<<cap>>) = cap
    OBVIOUS
  <2> QED BY <2>4, <2>5, <2>6 DEF RegionOf
<1> QED BY <1>1, <1>2 DEF RegionsRotate

\* The pool is used in turn: batch b travels in region b mod pool, for every number
\* of regions and stages (pipeline.rs:122, `free_regions` is a queue).
THEOREM PoolRotates == ASSUME HandlesSuffice PROVE Spec => []RegionsRotate
<1>1. PipelineInv => RegionsRotate
  BY InvMeansRotation
<1> QED BY <1>1, PipelineInvAlways, PTL

LEMMA InvMeansPrivilege == ASSUME PipelineInv PROVE LeastPrivilege
<1>1. PICK S \in Nat, P \in Nat : Sizes(S, P)
  BY InvConfig, SizesExist
<1>2. Producer(config) = S + 2 /\ TableDomainsOK(sys, free_regions) /\ ViewsOK(sys)
      /\ HeldOK(sys, free_regions)
  BY <1>1 DEF PipelineInv, Own, Sizes
<1>3. ASSUME NEW p \in 1 .. Producer(config)
      PROVE  DOMAIN sys.tables[p] = {stages[p].input, stages[p].output}
               \union (IF p = Producer(config) THEN SetOf(free_regions) ELSE {})
  BY <1>2 DEF TableDomainsOK, ViewsOK
<1>4. ASSUME NEW h \in sys.held, h[1] # Supervisor, h[2].object \notin Regions(config)
      PROVE  \/ h[2] = input_cap(h[1]) /\ h[2].rights = {"READ"}
             \/ h[2] = output_cap(h[1]) /\ h[2].rights = {"WRITE"}
  <2>1. PICK p, cap : p = h[1] /\ cap = h[2]
    OBVIOUS
  <2>2. p \in 1 .. Producer(config)
        /\ cap \in {ReadView(InputOf(config, p)), WriteView(OutputOf(config, p))}
    BY <1>2, <1>4, <2>1 DEF HeldOK
  <2>3. input_cap(p) = ReadView(InputOf(config, p)) /\ output_cap(p) = WriteView(OutputOf(config, p))
    BY <1>1, <1>2, <2>2, ViewsAre
  <2>4. \A o : ReadView(o).rights = {"READ"} /\ WriteView(o).rights = {"WRITE"}
    BY DEF ReadView, WriteView
  <2>5. \/ cap = input_cap(p) /\ cap.rights = {"READ"}
        \/ cap = output_cap(p) /\ cap.rights = {"WRITE"}
    BY <2>2, <2>3, <2>4
  <2> QED BY <2>1, <2>5
<1>5. DOMAIN sys.tables[Supervisor] = 0 .. Return(config)
  BY <1>2 DEF TableDomainsOK
<1> QED BY <1>3, <1>4, <1>5 DEF LeastPrivilege

\* However long the run, a process has its two views and, the producer, its free
\* regions; and of what it was ever given for a channel it can do no more than read
\* its input and write its output (pipeline.rs:14).
THEOREM PrivilegeIsLeast == ASSUME HandlesSuffice PROVE Spec => []LeastPrivilege
<1>1. PipelineInv => LeastPrivilege
  BY InvMeansPrivilege
<1> QED BY <1>1, PipelineInvAlways, PTL

\* What is known of the capabilities for region o.
LEMMA RegionFacts ==
  ASSUME PipelineInv, NEW o \in Regions(config)
  PROVE  /\ \A h \in sys.held : h[2].object = o /\ Live(sys.epochs, h[2]) =>
              \E k \in DOMAIN free_regions :
                /\ RegionOf(config, next_batch + (k - 1)) = o
                /\ h = <<Producer(config), cap_of(sys, Producer(config), free_regions[k])>>
         /\ \A k \in DOMAIN free_regions :
              LET cap == cap_of(sys, Producer(config), free_regions[k]) IN
              /\ cap.object = RegionOf(config, next_batch + (k - 1))
              /\ cap.object = o => Live(sys.epochs, cap)
              /\ <<Producer(config), cap>> \in sys.held
         /\ \A ch \in 0 .. Return(config) : sys.queues[ch] # <<>> =>
              /\ DOMAIN sys.queues[ch] = {1}
              /\ (\E cap \in SetOf(sys.queues[ch][1].caps) : cap.object = o /\ Live(sys.epochs, cap))
                   <=> RegionOf(config, Carried(sys, ch)) = o
<1>1. /\ QueuesOK(sys) /\ FreeOK(sys, free_regions, next_batch) /\ HeldOK(sys, free_regions)
  BY DEF PipelineInv, Own
<1>2. \A b : /\ RegionCap(config, sys.epochs, b).object = RegionOf(config, b)
             /\ RegionOf(config, b) = o => Live(sys.epochs, RegionCap(config, sys.epochs, b))
  <2>1. o \in DOMAIN sys.epochs
    <3>1. PICK S \in Nat, P \in Nat : Sizes(S, P)
      BY InvConfig, SizesExist
    <3> QED BY <3>1, SystemFacts
  <2> QED BY <2>1 DEF RegionCap, Live, object_exists
<1>3. ASSUME NEW k \in DOMAIN free_regions, NEW cap,
             cap = cap_of(sys, Producer(config), free_regions[k])
      PROVE  /\ cap.object = RegionOf(config, next_batch + (k - 1))
             /\ cap.object = o => Live(sys.epochs, cap)
             /\ <<Producer(config), cap>> \in sys.held
  <2>1. cap = RegionCap(config, sys.epochs, next_batch + (k - 1))
    BY <1>1, <1>3 DEF FreeOK, cap_of
  <2>2. <<Producer(config), cap>> \in sys.held
    BY <1>1, <1>3 DEF HeldOK, cap_of
  <2> QED BY <1>2, <2>1, <2>2
<1>4. ASSUME NEW h \in sys.held, h[2].object = o, Live(sys.epochs, h[2])
      PROVE  \E k \in DOMAIN free_regions :
                /\ RegionOf(config, next_batch + (k - 1)) = o
                /\ h = <<Producer(config), cap_of(sys, Producer(config), free_regions[k])>>
  <2>1. PICK p, cap : p = h[1] /\ cap = h[2] /\ h = <<p, cap>>
    BY <1>1 DEF HeldOK
  <2>2. cap.object = o /\ cap.epoch = sys.epochs[o]
    BY <1>4, <2>1 DEF Live
  <2>3. p = Producer(config) /\ \E k \in DOMAIN free_regions :
                   cap = sys.tables[Producer(config)][free_regions[k]]
    BY <1>1, <2>1, <2>2 DEF HeldOK
  <2>4. PICK k \in DOMAIN free_regions : cap = cap_of(sys, Producer(config), free_regions[k])
    BY <2>3 DEF cap_of
  <2>5. RegionOf(config, next_batch + (k - 1)) = o
    BY <1>3, <2>2, <2>4
  <2> QED BY <2>1, <2>3, <2>4, <2>5
<1>5. ASSUME NEW ch \in 0 .. Return(config), sys.queues[ch] # <<>>
      PROVE  /\ DOMAIN sys.queues[ch] = {1}
             /\ (\E cap \in SetOf(sys.queues[ch][1].caps) : cap.object = o /\ Live(sys.epochs, cap))
                  <=> RegionOf(config, Carried(sys, ch)) = o
  <2>1. PICK b \in Nat : b = Carried(sys, ch) /\ sys.queues[ch] = <<MessageOf(config, sys.epochs, b)>>
    BY <1>1, <1>5, OneMessage
  <2>2. PICK one, cap : one = MessageOf(config, sys.epochs, b) /\ cap = RegionCap(config, sys.epochs, b)
    OBVIOUS
  <2>3. one.caps = <<cap>>
    BY <2>2 DEF MessageOf
  <2>4. DOMAIN sys.queues[ch] = {1} /\ sys.queues[ch][1] = one
    BY <2>1, <2>2
  <2>5. SetOf(<<cap>>) = {cap}
    BY DEF SetOf
  <2>6. cap.object = RegionOf(config, b) /\ (cap.object = o => Live(sys.epochs, cap))
    BY <1>2, <2>2
  <2>7. (\E c \in {cap} : c.object = o /\ Live(sys.epochs, c)) <=> RegionOf(config, b) = o
    BY <2>6
  <2>8. SetOf(sys.queues[ch][1].caps) = {cap}
    BY <2>3, <2>4, <2>5
  <2> QED BY <2>1, <2>4, <2>7, <2>8
<1> QED BY <1>3, <1>4, <1>5

LEMMA InvMeansOneOwner == ASSUME PipelineInv PROVE OneOwnerPerRegion
<1>1. PICK n \in Nat, d \in Nat : n = next_batch /\ d = Len(results)
  <2>1. BatchesOK(sys, free_regions, next_batch, Len(results))
    BY BatchesInOrder
  <2> QED BY <2>1 DEF BatchesOK
<1>2. ApartOK(sys, free_regions, n)
  <2>1. QueuesOK(sys) /\ free_regions \in Seq(Nat \ {0, 1}) /\ config \in Configs
    BY InvConfig DEF PipelineInv, Own, FreeOK
  <2> QED BY <1>1, <2>1, BatchesInOrder, RegionsApart
<1>3. DOMAIN sys.queues = 0 .. Return(config) /\ CoveredOK(sys, free_regions)
  BY DEF PipelineInv, Own, SystemOK
<1> SUFFICES ASSUME NEW o \in Regions(config), NEW owners, NEW flights, NEW free,
        owners = {h \in sys.held : h[2].object = o /\ Live(sys.epochs, h[2])},
        flights = UNION {{ch} \X {m \in DOMAIN sys.queues[ch] :
                             \E cap \in SetOf(sys.queues[ch][m].caps) :
                               cap.object = o /\ Live(sys.epochs, cap)}
                            : ch \in DOMAIN sys.queues},
        free = {k \in DOMAIN free_regions :
                   cap_of(sys, Producer(config), free_regions[k]).object = o}
    PROVE  /\ Cardinality(owners) + Cardinality(flights) = 1
           /\ Cardinality(free) = Cardinality(owners)
           /\ owners \subseteq
                {Producer(config)} \X {cap_of(sys, Producer(config), free_regions[k]) : k \in free}
  BY DEF OneOwnerPerRegion
<1> DEFINE Cap(k) == cap_of(sys, Producer(config), free_regions[k])
           Of(k) == RegionOf(config, n + (k - 1))
           Brings(ch) == sys.queues[ch] # <<>> /\ RegionOf(config, Carried(sys, ch)) = o
<1>4. \A h \in owners : \E k \in DOMAIN free_regions : Of(k) = o /\ h = <<Producer(config), Cap(k)>>
  BY <1>1, RegionFacts
<1>5. \A k \in DOMAIN free_regions :
        /\ Cap(k).object = Of(k) /\ (Of(k) = o => Live(sys.epochs, Cap(k)))
        /\ <<Producer(config), Cap(k)>> \in sys.held
  BY <1>1, RegionFacts
<1>6. \A ch \in 0 .. Return(config) : sys.queues[ch] # <<>> =>
              /\ DOMAIN sys.queues[ch] = {1}
              /\ (\E cap \in SetOf(sys.queues[ch][1].caps) : cap.object = o /\ Live(sys.epochs, cap))
                   <=> RegionOf(config, Carried(sys, ch)) = o
  BY RegionFacts
<1> HIDE DEF Cap
<1>7. \A f : f \in flights <=> \E ch \in 0 .. Return(config) : Brings(ch) /\ f = <<ch, 1>>
  <2> DEFINE At(ch) == {m \in DOMAIN sys.queues[ch] :
                             \E cap \in SetOf(sys.queues[ch][m].caps) :
                               cap.object = o /\ Live(sys.epochs, cap)}
  <2>1. ASSUME NEW ch \in 0 .. Return(config)
        PROVE  At(ch) = IF Brings(ch) THEN {1} ELSE {}
    <3>1. CASE sys.queues[ch] = <<>>
      BY <3>1
    <3>2. CASE sys.queues[ch] # <<>>
      BY <1>6, <3>2
    <3> QED BY <3>1, <3>2
  <2>2. flights = UNION {{ch} \X At(ch) : ch \in 0 .. Return(config)}
    BY <1>3
  <2> HIDE DEF At, Brings
  <2>3. \A f : f \in flights <=> \E ch \in 0 .. Return(config) : f \in {ch} \X At(ch)
    BY <2>2
  <2>4. \A ch \in 0 .. Return(config) : \A f : f \in {ch} \X At(ch) <=> Brings(ch) /\ f = <<ch, 1>>
    BY <2>1
  <2> QED BY <2>3, <2>4
<1>8. free = {k \in DOMAIN free_regions : Of(k) = o}
  BY <1>5 DEF Cap
<1>9. \A k, l \in DOMAIN free_regions : Of(k) = Of(l) => k = l
  BY <1>2 DEF ApartOK
<1>10. \A ch \in 0 .. Return(config) : Brings(ch) =>
         /\ \A k \in DOMAIN free_regions : Of(k) # o
         /\ \A q \in 0 .. Return(config) : Brings(q) => q = ch
  BY <1>2 DEF ApartOK
<1>11. CASE \E k \in DOMAIN free_regions : Of(k) = o
  <2>1. PICK k \in DOMAIN free_regions : Of(k) = o
    BY <1>11
  <2>2. free = {k}
    BY <1>8, <1>9, <2>1
  <2>3. PICK h : h = <<Producer(config), Cap(k)>>
    OBVIOUS
  <2>4. h \in owners
    <3>1. h \in sys.held /\ h[2] = Cap(k)
      BY <1>5, <2>3
    <3> QED BY <1>5, <2>1, <3>1
  <2>5. owners = {h}
    BY <1>4, <1>9, <2>1, <2>3, <2>4
  <2>6. flights = {}
    BY <1>7, <1>10, <2>1
  <2>7. Cardinality(owners) = 1 /\ Cardinality(flights) = 0 /\ Cardinality(free) = 1
    BY <2>2, <2>5, <2>6, FS_Singleton, FS_EmptySet
  <2> QED BY <2>2, <2>3, <2>5, <2>7 DEF Cap
<1>12. CASE ~\E k \in DOMAIN free_regions : Of(k) = o
  <2>1. free = {} /\ owners = {}
    BY <1>4, <1>8, <1>12
  <2>2. PICK ch \in 0 .. Return(config) : Brings(ch)
    BY <1>3, <1>5, <1>12 DEF CoveredOK, Cap, cap_of
  <2>3. PICK f : f = <<ch, 1>>
    OBVIOUS
  <2>4. flights = {f}
    BY <1>7, <1>10, <2>2, <2>3
  <2>5. Cardinality(owners) = 0 /\ Cardinality(flights) = 1 /\ Cardinality(free) = 0
    BY <2>1, <2>4, FS_Singleton, FS_EmptySet
  <2> QED BY <2>1, <2>5
<1> QED BY <1>11, <1>12

\* "Each region always has exactly one live owner and every earlier holder's
\* capability is dead" (pipeline.rs:17): of every capability any process ever had
\* for a region one works, the producer's, or one message brings the one that does.
THEOREM OneOwner == ASSUME HandlesSuffice PROVE Spec => []OneOwnerPerRegion
<1>1. PipelineInv => OneOwnerPerRegion
  BY InvMeansOneOwner
<1> QED BY <1>1, PipelineInvAlways, PTL

(***************************************************************************)
(* The baseline is implemented, and what it guarantees holds here.         *)
(***************************************************************************)

LEMMA SameBaseline ==
  /\ B!vars = BP!vars
  /\ B!Init <=> BP!Init
  /\ B!Next <=> BP!Next
<1>1. B!vars = BP!vars
  BY DEF B!vars, BP!vars
<1>2. B!Init <=> BP!Init
  BY DEF B!Init, BP!Init, B!Zeroed, BP!Zeroed, B!Supervisor, BP!Supervisor, B!NoStats, BP!NoStats
<1>3. /\ B!processes = BP!processes
      /\ B!Completed <=> BP!Completed
      /\ B!Supervisor = BP!Supervisor
      /\ B!Sink = BP!Sink
      /\ B!Producer = BP!Producer
      /\ \A i : B!Transformer(i) = BP!Transformer(i)
  BY DEF B!processes, BP!processes, B!Completed, BP!Completed,
     B!Supervisor, BP!Supervisor, B!Sink, BP!Sink, B!Producer, BP!Producer,
     B!Transformer, BP!Transformer
<1>4. B!Stalled <=> BP!Stalled
  BY <1>3 DEF B!Stalled, BP!Stalled
<1>5. \A k, progressed, sent : B!Turn(k, progressed, sent) <=> BP!Turn(k, progressed, sent)
  BY <1>3, <1>4 DEF B!Turn, BP!Turn
<1>6. /\ B!Drained = BP!Drained
      /\ \A i, c : B!transform(i, c) = BP!transform(i, c)
      /\ \A i, c : B!fill_batch(i, c) = BP!fill_batch(i, c)
      /\ \A c : B!checksum(c) = BP!checksum(c)
  BY DEF B!Drained, BP!Drained, B!transform, BP!transform, B!fill_batch, BP!fill_batch,
     B!checksum, BP!checksum
<1>7. B!CanSend <=> BP!CanSend
  BY <1>6 DEF B!CanSend, BP!CanSend
<1>8. B!SupervisorTurn <=> BP!SupervisorTurn
  BY <1>3, <1>5 DEF B!SupervisorTurn, BP!SupervisorTurn
<1>9. \A i : B!StageIdle(i) <=> BP!StageIdle(i)
  BY <1>3, <1>5 DEF B!StageIdle, BP!StageIdle
<1>10. \A i : B!TransformerTurn(i) <=> BP!TransformerTurn(i)
  BY <1>3, <1>5, <1>6 DEF B!TransformerTurn, BP!TransformerTurn
<1>11. B!SinkTurn <=> BP!SinkTurn
  BY <1>3, <1>5, <1>6 DEF B!SinkTurn, BP!SinkTurn
<1>12. B!ProducerSends <=> BP!ProducerSends
  BY <1>3, <1>5, <1>6, <1>7 DEF B!ProducerSends, BP!ProducerSends
<1>13. B!ProducerOnlyDrains <=> BP!ProducerOnlyDrains
  BY <1>3, <1>5, <1>6, <1>7 DEF B!ProducerOnlyDrains, BP!ProducerOnlyDrains
<1>14. B!Next <=> BP!Next
  BY <1>8, <1>9, <1>10, <1>11, <1>12, <1>13 DEF B!Next, BP!Next
<1> QED BY <1>1, <1>2, <1>14

\* "Results and scheduler statistics must match the kernel pipeline exactly"
\* (baseline.rs:14): boot is the baseline's start, and each turn is one of the
\* baseline's with the same batches, contents, results and statistics, or none.
THEOREM StepsAreTheBaselines ==
  ASSUME HandlesSuffice
  PROVE  Spec => B!Init /\ [][B!Next]_(B!vars)
<1>1. Init => B!Init /\ PipelineInv
  BY BootsIntoInv, SameBaseline
<1>2. PipelineInv /\ [Next]_vars => [B!Next]_(B!vars)
  <2>1. ASSUME PipelineInv, Next PROVE B!Next
    BY <2>1, PipelineSteps, SameBaseline
  <2>2. ASSUME PipelineInv, UNCHANGED vars PROVE UNCHANGED B!vars
    BY <2>2, PipelineStutters DEF B!vars, BP!vars
  <2> QED BY <2>1, <2>2
<1> QED BY <1>1, <1>2, PipelineInvAlways, PTL DEF Spec

\* Every result the sink reports is the reference result of its batch, computed with
\* no processes and no channels, each once and in order, and no queue ever grows:
\* grants, moves and handles notwithstanding.
THEOREM PipelineComputesTheReference ==
  ASSUME HandlesSuffice
  PROVE  Spec => [](B!ResultsAreTheReference /\ B!LockStep)
<1>1. ASSUME PipelineInv PROVE B!ResultsAreTheReference /\ B!LockStep
  <2>1. BP!ResultsAreTheReference /\ BP!LockStep
    BY <1>1, BP!InvMeans, PipelineAssumption DEF PipelineInv
  <2>2. \A b, n : B!reference_checksum(b, n) = BP!reference_checksum(b, n)
    BY DEF B!reference_checksum, BP!reference_checksum, B!transform, BP!transform,
       B!fill_batch, BP!fill_batch, B!checksum, BP!checksum, B!Zeroed, BP!Zeroed
  <2>3. B!ResultsAreTheReference
    BY <2>1, <2>2 DEF B!ResultsAreTheReference, BP!ResultsAreTheReference
  <2>4. B!LockStep
    BY <2>1 DEF B!LockStep, BP!LockStep
  <2> QED BY <2>3, <2>4
<1> QED BY <1>1, PipelineInvAlways, PTL

\* And every round in which a region can be back carries a batch: the authority that
\* moves with the regions costs the pipeline no turn.
THEOREM PipelineIsAtFullRate == ASSUME HandlesSuffice PROVE Spec => []B!AtFullRate
<1>1. Init => BP!RateOK
  BY BootsIntoInv, BP!InitRate, PipelineAssumption
<1>2. PipelineInv /\ BP!RateOK /\ [Next]_vars => BP!RateOK'
  <2>1. ASSUME PipelineInv, BP!RateOK, Next PROVE BP!RateOK'
    BY <2>1, PipelineSteps, BP!RateSteps, PipelineAssumption DEF PipelineInv
  <2>2. ASSUME PipelineInv, BP!RateOK, UNCHANGED vars PROVE BP!RateOK'
    <3>1. UNCHANGED BP!vars
      BY <2>2, PipelineStutters
    <3>2. BP!Rounds' = BP!Rounds /\ BP!processes' = BP!processes
      BY <3>1 DEF BP!vars, BP!Rounds, BP!processes
    <3> QED BY <2>2, <3>1, <3>2 DEF BP!vars, BP!RateOK
  <2> QED BY <2>1, <2>2
<1>3. ASSUME PipelineInv, BP!RateOK PROVE B!AtFullRate
  <2>1. BP!AtFullRate
    BY <1>3 DEF BP!RateOK, BP!Rounds, BP!Sent, BP!Due, BP!Departures, BP!AtFullRate
  <2>2. \A S : B!Cardinality(S) = BP!Cardinality(S)
    BY DEF B!Cardinality, BP!Cardinality
  <2>3. B!processes = BP!processes
    BY DEF B!processes, BP!processes
  <2>4. B!Supervisor = BP!Supervisor
    BY DEF B!Supervisor, BP!Supervisor
  <2> QED BY <2>1, <2>2, <2>3, <2>4 DEF B!AtFullRate, BP!AtFullRate
<1> QED BY <1>1, <1>2, <1>3, PipelineInvAlways, PTL DEF Spec

(***************************************************************************)
(* The clocks of the run: what each operation does to `get`.               *)
(***************************************************************************)

IsVector(v) == v \in [DOMAIN v -> Nat]

LEMMA GetNat ==
  ASSUME NEW v, IsVector(v), NEW q
  PROVE  get(v, q) \in Nat
BY DEF IsVector, get

LEMMA TickGet ==
  ASSUME NEW v, IsVector(v), NEW p
  PROVE  /\ IsVector(tick(v, p))
         /\ get(tick(v, p), p) = get(v, p) + 1
         /\ \A q : q # p => get(tick(v, p), q) = get(v, q)
<1>1. \A q : get(v, q) \in Nat
  BY GetNat
<1>2. DOMAIN tick(v, p) = DOMAIN v \union {p}
  BY DEF tick
<1>3. \A q \in DOMAIN v \union {p} : tick(v, p)[q] = get(v, q) + (IF q = p THEN 1 ELSE 0)
  BY DEF tick
<1>4. IsVector(tick(v, p))
  <2>1. tick(v, p) \in [DOMAIN v \union {p} -> Nat]
    BY <1>1 DEF tick
  <2> QED BY <1>2, <2>1 DEF IsVector
<1>5. get(tick(v, p), p) = get(v, p) + 1
  BY <1>1, <1>2, <1>3 DEF get
<1>6. ASSUME NEW q, q # p PROVE get(tick(v, p), q) = get(v, q)
  BY <1>1, <1>2, <1>3, <1>6 DEF get
<1> QED BY <1>4, <1>5, <1>6

LEMMA MergeGet ==
  ASSUME NEW v, NEW w, IsVector(v), IsVector(w)
  PROVE  /\ IsVector(merge(v, w))
         /\ \A q : /\ get(v, q) <= get(merge(v, w), q)
                   /\ get(w, q) <= get(merge(v, w), q)
                   /\ get(merge(v, w), q) \in {get(v, q), get(w, q)}
<1>1. \A q : get(v, q) \in Nat /\ get(w, q) \in Nat
  BY GetNat
<1>2. DOMAIN merge(v, w) = DOMAIN v \union DOMAIN w
  BY DEF merge
<1>3. \A q \in DOMAIN v \union DOMAIN w :
        merge(v, w)[q] = IF get(v, q) < get(w, q) THEN get(w, q) ELSE get(v, q)
  BY DEF merge
<1>4. IsVector(merge(v, w))
  <2>1. merge(v, w) \in [DOMAIN v \union DOMAIN w -> Nat]
    BY <1>1 DEF merge
  <2> QED BY <1>2, <2>1 DEF IsVector
<1>5. ASSUME NEW q
      PROVE  /\ get(v, q) <= get(merge(v, w), q)
             /\ get(w, q) <= get(merge(v, w), q)
             /\ get(merge(v, w), q) \in {get(v, q), get(w, q)}
  <2>1. CASE q \in DOMAIN v \union DOMAIN w
    <3>1. get(merge(v, w), q) = IF get(v, q) < get(w, q) THEN get(w, q) ELSE get(v, q)
      BY <1>2, <1>3, <2>1 DEF get
    <3> QED BY <1>1, <3>1
  <2>2. CASE q \notin DOMAIN v \union DOMAIN w
    BY <1>2, <2>2 DEF get
  <2> QED BY <2>1, <2>2
<1> QED BY <1>4, <1>5

\* `compare` looks at the processes either clock has heard of, and that is enough.
LEMMA Precedes ==
  ASSUME NEW v, NEW w, IsVector(v), IsVector(w)
  PROVE  compare(v, w) = "Before"
           <=> (\A q : get(v, q) <= get(w, q)) /\ \E q : get(v, q) < get(w, q)
<1>1. \A q : get(v, q) \in Nat /\ get(w, q) \in Nat
  BY GetNat
<1>2. some_less(v, w) <=> \E q : get(v, q) < get(w, q)
  <2>1. ASSUME NEW q, get(v, q) < get(w, q) PROVE q \in DOMAIN v \union DOMAIN w
    BY <2>1 DEF get
  <2> QED BY <2>1 DEF some_less
<1>3. some_less(w, v) <=> \E q : get(w, q) < get(v, q)
  <2>1. ASSUME NEW q, get(w, q) < get(v, q) PROVE q \in DOMAIN v \union DOMAIN w
    BY <2>1 DEF get
  <2> QED BY <2>1 DEF some_less
<1>4. compare(v, w) = "Before" <=> some_less(v, w) /\ ~some_less(w, v)
  <2>1. CASE some_less(v, w) /\ some_less(w, v)
    BY <2>1 DEF compare
  <2>2. CASE some_less(v, w) /\ ~some_less(w, v)
    BY <2>2 DEF compare
  <2>3. CASE ~some_less(v, w) /\ some_less(w, v)
    BY <2>3 DEF compare
  <2>4. CASE ~some_less(v, w) /\ ~some_less(w, v)
    BY <2>4 DEF compare
  <2> QED BY <2>1, <2>2, <2>3, <2>4
<1>5. (\A q : get(v, q) <= get(w, q)) <=> ~some_less(w, v)
  BY <1>1, <1>3
<1> QED BY <1>2, <1>4, <1>5

IsClock(c, p) == c.process = p /\ c.lamport \in Nat /\ IsVector(c.vector)

LEMMA LocalEvents ==
  ASSUME NEW c, NEW p, IsClock(c, p), NEW s, s = local_event(c)
  PROVE  /\ IsClock(s, p) /\ c.lamport < s.lamport
         /\ get(s.vector, p) = get(c.vector, p) + 1
         /\ \A q : q # p => get(s.vector, q) = get(c.vector, q)
<1>1. s.process = p /\ s.lamport = c.lamport + 1 /\ s.vector = tick(c.vector, p)
  BY DEF local_event, lamport_tick, IsClock
<1>2. IsVector(c.vector) /\ c.lamport \in Nat
  BY DEF IsClock
<1> QED BY <1>1, <1>2, TickGet DEF IsClock

LEMMA ReceiveEvents ==
  ASSUME NEW c, NEW p, IsClock(c, p), NEW m, NEW q \in {m.process}, IsClock(m, q),
         NEW s, s = receive_event(c, m), get(m.vector, p) <= get(c.vector, p)
  PROVE  /\ IsClock(s, p) /\ c.lamport < s.lamport /\ m.lamport < s.lamport
         /\ get(s.vector, p) = get(c.vector, p) + 1
         /\ \A x : x # p => /\ get(c.vector, x) <= get(s.vector, x) /\ get(m.vector, x) <= get(s.vector, x)
                            /\ get(s.vector, x) \in {get(c.vector, x), get(m.vector, x)}
<1>1. PICK both : both = merge(c.vector, m.vector)
  OBVIOUS
<1>2. /\ s.process = p /\ s.vector = tick(both, p)
      /\ s.lamport = (IF c.lamport < m.lamport THEN m.lamport ELSE c.lamport) + 1
  BY <1>1 DEF receive_event, lamport_observe, IsClock
<1>3. IsVector(c.vector) /\ IsVector(m.vector) /\ c.lamport \in Nat /\ m.lamport \in Nat
  BY DEF IsClock
<1>4. /\ IsVector(both)
      /\ \A x : /\ get(c.vector, x) <= get(both, x) /\ get(m.vector, x) <= get(both, x)
                /\ get(both, x) \in {get(c.vector, x), get(m.vector, x)}
  BY <1>1, <1>3, MergeGet
<1>5. \A x : get(c.vector, x) \in Nat /\ get(m.vector, x) \in Nat
  BY <1>3, GetNat
<1>6. get(both, p) = get(c.vector, p)
  BY <1>4, <1>5
<1>7. /\ IsVector(s.vector) /\ get(s.vector, p) = get(both, p) + 1
      /\ \A x : x # p => get(s.vector, x) = get(both, x)
  BY <1>2, <1>4, TickGet
<1>8. s.lamport \in Nat /\ c.lamport < s.lamport /\ m.lamport < s.lamport
  BY <1>2, <1>3
<1> QED BY <1>2, <1>4, <1>6, <1>7, <1>8 DEF IsClock

(***************************************************************************)
(* The trace as a log: who did what, in which order. S is the number of    *)
(* stages, tr a trace of n events; of each place in the ring `got` says    *)
(* how many batches were received there, and `done` how many were sent on. *)
(***************************************************************************)

Spot(S, e) == IF e.role = S + 2 THEN IF e.action = "Send" THEN 0 ELSE S + 2 ELSE S + 2 - e.role

\* ReturnedBefore and Knows of a trace tr.
Back(S, tr, b, c) ==
  \E m, n \in DOMAIN tr :
    /\ m < n
    /\ tr[m].batch = b /\ Spot(S, tr[m]) = S + 2
    /\ tr[n].batch = c /\ Spot(S, tr[n]) = 0

Told(S, tr, l, k) ==
  \/ tr[k].role = tr[l].role /\ k < l
  \/ tr[k].batch <= tr[l].batch /\ Spot(S, tr[k]) < Spot(S, tr[l])
  \/ Back(S, tr, tr[k].batch, tr[l].batch)

IsEvent(S, e) ==
  /\ e.role \in 1 .. S + 2 /\ e.action \in {"Send", "Receive"} /\ e.batch \in Nat
  /\ IsClock(e.stamp, e.role)

\* A batch is sent on after it was received, and received after it was sent.
Counts(S, got, done) ==
  /\ \A j \in 0 .. S + 2 : got[j] \in Nat /\ done[j] \in Nat
  /\ \A j \in 1 .. S + 1 : done[j] <= got[j]
  /\ \A i \in 0 .. S + 1, j \in 1 .. S + 2 : i < j => got[j] <= done[i]

\* Every event counted is in the log, and no other.
Entries(S, tr, n, got, done) ==
  /\ DOMAIN tr = 1 .. n
  /\ \A k \in 1 .. n :
       /\ IsEvent(S, tr[k])
       /\ tr[k].batch < (IF tr[k].action = "Send" THEN done[Spot(S, tr[k])] ELSE got[Spot(S, tr[k])])
  /\ \A j \in 0 .. S + 1, b \in Nat : b < done[j] =>
       \E k \in 1 .. n : Spot(S, tr[k]) = j /\ tr[k].action = "Send" /\ tr[k].batch = b
  /\ \A j \in 1 .. S + 2, b \in Nat : b < got[j] =>
       \E k \in 1 .. n : Spot(S, tr[k]) = j /\ tr[k].action = "Receive" /\ tr[k].batch = b

\* At one place, batch after batch, and received before it is sent.
InTurn(S, tr, n) ==
  \A k, l \in 1 .. n : k < l /\ Spot(S, tr[k]) = Spot(S, tr[l]) =>
    \/ tr[k].batch < tr[l].batch
    \/ tr[k].batch = tr[l].batch /\ tr[k].action = "Receive" /\ tr[l].action = "Send"

Log(S, tr, n, got, done) ==
  Counts(S, got, done) /\ Entries(S, tr, n, got, done) /\ InTurn(S, tr, n)

LEMMA Spots ==
  ASSUME NEW S \in Nat, NEW e, IsEvent(S, e)
  PROVE  /\ Spot(S, e) \in 0 .. S + 2 /\ e.batch \in Nat /\ e.role \in Nat
         /\ Spot(S, e) = 0 <=> e.role = S + 2 /\ e.action = "Send"
         /\ Spot(S, e) = S + 2 <=> e.role = S + 2 /\ e.action = "Receive"
         /\ e.role # S + 2 => Spot(S, e) = S + 2 - e.role /\ Spot(S, e) \in 1 .. S + 1
         /\ e.action \in {"Send", "Receive"}
BY DEF Spot, IsEvent

LEMMA SameRole ==
  ASSUME NEW S \in Nat, NEW e, NEW f, IsEvent(S, e), IsEvent(S, f)
  PROVE  /\ Spot(S, e) = Spot(S, f) => e.role = f.role
         /\ e.role = f.role /\ e.role # S + 2 => Spot(S, e) = Spot(S, f)
         /\ e.role = S + 2 <=> Spot(S, e) \in {0, S + 2}
BY Spots DEF IsEvent

\* One more event.
Grown(tr, n, tr2, f) ==
  /\ DOMAIN tr = 1 .. n /\ DOMAIN tr2 = 1 .. n + 1
  /\ \A k \in 1 .. n : tr2[k] = tr[k]
  /\ tr2[n + 1] = f

\* The event that the next is: f is what happens to the next batch at its place.
Due(S, got, done, f) ==
  /\ IsEvent(S, f)
  /\ f.action = "Send" => /\ f.batch = done[Spot(S, f)]
                          /\ Spot(S, f) # 0 => got[Spot(S, f)] = f.batch + 1
  /\ f.action = "Receive" => /\ f.batch = got[Spot(S, f)] /\ f.batch < done[Spot(S, f) - 1]
                             /\ Spot(S, f) # S + 2 => done[Spot(S, f)] = f.batch

\* Whatever is downstream of it, or at its place, was about earlier batches, and what
\* has returned is earlier.
LEMMA Later ==
  ASSUME NEW S \in Nat, NEW got, NEW done, NEW n \in Nat, NEW tr, Log(S, tr, n, got, done),
         NEW f, Due(S, got, done, f), NEW k \in 1 .. n
  PROVE  /\ Spot(S, tr[k]) > Spot(S, f) => tr[k].batch < f.batch
         /\ Spot(S, tr[k]) = Spot(S, f) =>
              \/ tr[k].batch < f.batch
              \/ tr[k].batch = f.batch /\ tr[k].action = "Receive" /\ f.action = "Send"
         /\ Spot(S, tr[k]) = S + 2 => tr[k].batch < f.batch
         /\ f.action = "Send" /\ Spot(S, f) = 0 => tr[k].batch < f.batch
         /\ f.batch < done[0] \/ (f.action = "Send" /\ Spot(S, f) = 0)
<1>1. PICK i \in 0 .. S + 2 : i = Spot(S, tr[k])
  BY Spots DEF Log, Entries
<1>2. PICK j \in 0 .. S + 2 : j = Spot(S, f)
  BY Spots DEF Due
<1>3. PICK b \in Nat, c \in Nat : b = tr[k].batch /\ c = f.batch
  BY Spots DEF Log, Entries, Due
<1>4. /\ tr[k].action \in {"Send", "Receive"} /\ b < (IF tr[k].action = "Send" THEN done[i] ELSE got[i])
      /\ tr[k].action = "Send" => i # S + 2
      /\ tr[k].action = "Receive" => i # 0
  BY <1>1, <1>3, Spots DEF Log, Entries
<1>5. /\ f.action \in {"Send", "Receive"}
      /\ f.action = "Send" => j # S + 2 /\ c = done[j] /\ (j # 0 => got[j] = c + 1)
      /\ f.action = "Receive" => j # 0 /\ c = got[j] /\ c < done[j - 1] /\ (j # S + 2 => done[j] = c)
  BY <1>2, <1>3, Spots DEF Due
<1>6. /\ \A x \in 0 .. S + 2 : got[x] \in Nat /\ done[x] \in Nat
      /\ \A x \in 1 .. S + 1 : done[x] <= got[x]
      /\ \A x \in 0 .. S + 1, y \in 1 .. S + 2 : x < y => got[y] <= done[x]
  BY DEF Log, Counts
<1>7. PICK mine \in Nat, theirs \in Nat, gone \in Nat :
        /\ mine = (IF i = 0 THEN done[0] ELSE got[i]) /\ theirs = (IF j = S + 2 THEN got[j] ELSE done[j])
        /\ gone = got[S + 2]
  <2>1. S + 2 \in 0 .. S + 2 /\ 0 \in 0 .. S + 2
    OBVIOUS
  <2> QED BY <1>6, <2>1
<1>8. b < mine
  <2>1. CASE tr[k].action = "Receive"
    BY <1>4, <1>7, <2>1
  <2>2. CASE tr[k].action = "Send" /\ i = 0
    BY <1>4, <1>7, <2>2
  <2>3. CASE tr[k].action = "Send" /\ i # 0
    <3>1. i \in 1 .. S + 1
      BY <1>4, <2>3
    <3>2. done[i] <= got[i] /\ done[i] \in Nat /\ got[i] \in Nat
      BY <1>6, <3>1
    <3> QED BY <1>4, <1>7, <2>3, <3>1, <3>2
  <2> QED BY <1>4, <2>1, <2>2, <2>3
<1>9. theirs = c
  BY <1>5, <1>7
<1>10. ASSUME i > j PROVE b < c
  <2>1. i \in 1 .. S + 2 /\ j \in 0 .. S + 1
    BY <1>10
  <2>2. got[i] <= done[j]
    BY <1>6, <1>10, <2>1
  <2> QED BY <1>7, <1>8, <1>9, <2>1, <2>2
<1>11. gone <= c
  <2>1. CASE j = S + 2
    BY <1>7, <1>9, <2>1
  <2>2. CASE j # S + 2
    <3>1. j \in 0 .. S + 1 /\ S + 2 \in 1 .. S + 2 /\ j < S + 2
      BY <2>2
    <3>2. got[S + 2] <= done[j]
      BY <1>6, <3>1
    <3> QED BY <1>7, <1>9, <2>2, <3>2
  <2> QED BY <2>1, <2>2
<1>12. i = S + 2 => b < c
  <2> SUFFICES ASSUME i = S + 2 PROVE b < c
    OBVIOUS
  <2>1. mine = gone
    BY <1>7
  <2> QED BY <1>8, <1>11, <2>1
<1>13. ASSUME f.action = "Send", j = 0 PROVE b < c
  <2>1. CASE i = 0
    BY <1>7, <1>8, <1>9, <1>13, <2>1
  <2>2. CASE i # 0
    BY <1>10, <1>13, <2>2
  <2> QED BY <2>1, <2>2
<1>14. ASSUME i = j PROVE b < c \/ (b = c /\ tr[k].action = "Receive" /\ f.action = "Send")
  <2>1. CASE f.action = "Receive"
    <3>1. mine = c
      BY <1>5, <1>7, <1>14, <2>1
    <3> QED BY <1>8, <3>1
  <2>2. CASE f.action = "Send" /\ tr[k].action = "Send"
    BY <1>4, <1>5, <1>14, <2>2
  <2>3. CASE f.action = "Send" /\ tr[k].action = "Receive"
    <3>1. got[i] = c + 1
      BY <1>4, <1>5, <1>14, <2>3
    <3> QED BY <1>4, <2>3, <3>1
  <2> QED BY <1>4, <1>5, <2>1, <2>2, <2>3
<1>15. c < done[0] \/ (f.action = "Send" /\ j = 0)
  <2>1. CASE f.action = "Send" /\ j # 0
    <3>1. 0 \in 0 .. S + 1 /\ j \in 1 .. S + 2 /\ 0 < j
      BY <2>1
    <3>2. got[j] <= done[0] /\ done[0] \in Nat
      BY <1>6, <3>1
    <3> QED BY <1>5, <2>1, <3>2
  <2>2. CASE f.action = "Receive"
    <3>1. PICK x \in 0 .. S + 1 : x = j - 1
      BY <1>5, <2>2
    <3>2. done[x] \in Nat /\ done[0] \in Nat /\ c < done[x]
      BY <1>5, <1>6, <2>2, <3>1
    <3>3. CASE x # 0
      <4>1. x \in 1 .. S + 1 /\ x \in 1 .. S + 2 /\ 0 \in 0 .. S + 1 /\ 0 < x
        BY <3>3
      <4>2. done[x] <= got[x] /\ got[x] <= done[0] /\ got[x] \in Nat
        BY <1>6, <4>1
      <4> QED BY <3>2, <4>2
    <3> QED BY <3>2, <3>3
  <2> QED BY <1>5, <2>1, <2>2
<1>16. /\ i > j => b < c
       /\ i = j => b < c \/ (b = c /\ tr[k].action = "Receive" /\ f.action = "Send")
       /\ i = S + 2 => b < c
       /\ f.action = "Send" /\ j = 0 => b < c
       /\ c < done[0] \/ (f.action = "Send" /\ j = 0)
  <2>1. i > j => b < c
    BY <1>10
  <2>2. i = j => b < c \/ (b = c /\ tr[k].action = "Receive" /\ f.action = "Send")
    BY <1>14
  <2>3. f.action = "Send" /\ j = 0 => b < c
    BY <1>13
  <2> QED BY Zenon, <1>12, <1>15, <2>1, <2>2, <2>3
<1> QED BY ZenonT(30), <1>1, <1>2, <1>3, <1>16

LEMMA BackStays ==
  ASSUME NEW S \in Nat, NEW n \in Nat, NEW tr, NEW tr2, NEW f, Grown(tr, n, tr2, f), NEW b, NEW c
  PROVE  /\ Back(S, tr, b, c) => Back(S, tr2, b, c)
         /\ Back(S, tr2, b, c) => Back(S, tr, b, c) \/ (Spot(S, f) = 0 /\ f.batch = c)
         /\ Spot(S, f) = 0 /\ f.batch = c =>
              \A m \in 1 .. n : tr[m].batch = b /\ Spot(S, tr[m]) = S + 2 => Back(S, tr2, b, c)
<1>1. /\ DOMAIN tr = 1 .. n /\ DOMAIN tr2 = 1 .. n + 1
      /\ (\A k \in 1 .. n : tr2[k] = tr[k]) /\ tr2[n + 1] = f
  BY DEF Grown
<1>2. \A k \in 1 .. n : k \in 1 .. n + 1 /\ k < n + 1
  OBVIOUS
<1>3. \A k \in 1 .. n + 1 : k \in 1 .. n \/ k = n + 1
  OBVIOUS
<1>4. \A l \in 1 .. n + 1 : ~(n + 1 < l)
  OBVIOUS
<1>5. n + 1 \in 1 .. n + 1
  OBVIOUS
<1>6. Back(S, tr, b, c) => Back(S, tr2, b, c)
  BY <1>1, <1>2 DEF Back
<1>7. Back(S, tr2, b, c) => Back(S, tr, b, c) \/ (Spot(S, f) = 0 /\ f.batch = c)
  BY <1>1, <1>3, <1>4 DEF Back
<1>8. ASSUME Spot(S, f) = 0, f.batch = c, NEW m \in 1 .. n, tr[m].batch = b, Spot(S, tr[m]) = S + 2
      PROVE  Back(S, tr2, b, c)
  BY <1>1, <1>2, <1>5, <1>8 DEF Back
<1> QED BY <1>6, <1>7, <1>8

LEMMA BackPlaces ==
  ASSUME NEW S, NEW tr, NEW n, DOMAIN tr = 1 .. n, NEW b, NEW c
  PROVE  Back(S, tr, b, c) <=>
           \E m, l \in 1 .. n : /\ m < l
                                /\ tr[m].batch = b /\ Spot(S, tr[m]) = S + 2
                                /\ tr[l].batch = c /\ Spot(S, tr[l]) = 0
BY DEF Back

\* What was known of what stays as it was.
LEMMA OldPairs ==
  ASSUME NEW S \in Nat, NEW got, NEW done, NEW n \in Nat, NEW tr, Log(S, tr, n, got, done),
         NEW f, Due(S, got, done, f), NEW tr2, Grown(tr, n, tr2, f), NEW k \in 1 .. n, NEW l \in 1 .. n
  PROVE  Told(S, tr2, l, k) <=> Told(S, tr, l, k)
<1>1. tr2[k] = tr[k] /\ tr2[l] = tr[l]
  BY DEF Grown
<1>2. Spot(S, f) = 0 => f.batch # tr[l].batch
  <2>1. Spot(S, f) = 0 => f.action = "Send" /\ f.batch \in Nat
    BY Spots DEF Due
  <2>2. Spot(S, f) = 0 => tr[l].batch < f.batch /\ tr[l].batch \in Nat
    BY <2>1, Later, Spots DEF Log, Entries
  <2> QED BY <2>1, <2>2
<1>3. Back(S, tr2, tr[k].batch, tr[l].batch) <=> Back(S, tr, tr[k].batch, tr[l].batch)
  BY <1>2, BackStays
<1> QED BY <1>1, <1>3 DEF Told

\* Nobody knows of it yet, not even itself.
LEMMA NoNews ==
  ASSUME NEW S \in Nat, NEW got, NEW done, NEW n \in Nat, NEW tr, Log(S, tr, n, got, done),
         NEW f, Due(S, got, done, f), NEW tr2, Grown(tr, n, tr2, f), NEW l \in 1 .. n + 1
  PROVE  ~Told(S, tr2, l, n + 1)
<1>1. tr2[n + 1] = f /\ ~(n + 1 < l) /\ (l = n + 1 \/ (l \in 1 .. n /\ tr2[l] = tr[l]))
  BY DEF Grown
<1>2. IsEvent(S, f) /\ f.batch \in Nat /\ Spot(S, f) \in Nat
  BY Spots DEF Due
<1>3. ~(f.batch <= tr2[l].batch /\ Spot(S, f) < Spot(S, tr2[l]))
  <2>1. CASE l = n + 1
    BY <1>1, <1>2, <2>1
  <2>2. CASE l \in 1 .. n
    <3>1. Spot(S, tr[l]) > Spot(S, f) => tr[l].batch < f.batch
      BY <2>2, Later
    <3>2. Spot(S, tr[l]) \in Nat /\ tr[l].batch \in Nat
      BY <2>2, Spots DEF Log, Entries
    <3> QED BY <1>1, <1>2, <2>2, <3>1, <3>2
  <2> QED BY <1>1, <2>1, <2>2
<1>4. \A c : ~Back(S, tr2, f.batch, c)
  <2> SUFFICES ASSUME NEW c, Back(S, tr2, f.batch, c) PROVE FALSE
    OBVIOUS
  <2>1. DOMAIN tr2 = 1 .. n + 1
    BY DEF Grown
  <2>2. PICK m \in 1 .. n + 1, x \in 1 .. n + 1 : m < x /\ tr2[m].batch = f.batch /\ Spot(S, tr2[m]) = S + 2
    BY <2>1 DEF Back
  <2>3. m \in 1 .. n
    BY <2>2
  <2>4. tr2[m] = tr[m]
    BY <2>3 DEF Grown
  <2>5. tr[m].batch < f.batch
    BY <2>2, <2>3, <2>4, Later
  <2> QED BY <1>2, <2>2, <2>4, <2>5
<1> QED BY <1>1, <1>3, <1>4 DEF Told

\* The events it follows upon: the last of its process, the one whose message it receives.
LastOwn(tr, n, f, x) ==
  tr[x].role = f.role /\ \A l \in 1 .. n : tr[l].role = f.role => l <= x
SentFor(S, tr, f, x) ==
  /\ f.action = "Receive" /\ tr[x].action = "Send" /\ tr[x].batch = f.batch
  /\ Spot(S, tr[x]) = Spot(S, f) - 1

Sources(S, tr, n, f, X) ==
  /\ X \subseteq 1 .. n
  /\ \A x \in X : LastOwn(tr, n, f, x) \/ SentFor(S, tr, f, x)
  /\ (\E k \in 1 .. n : tr[k].role = f.role) => \E x \in X : LastOwn(tr, n, f, x)
  /\ f.action = "Receive" => \E x \in X : SentFor(S, tr, f, x)

\* What a new event knows: what the events it follows upon are or know.
LEMMA HeardReceiving ==
  ASSUME NEW S \in Nat, NEW got, NEW done, NEW n \in Nat, NEW tr, Log(S, tr, n, got, done),
         NEW f, Due(S, got, done, f), f.action = "Receive",
         NEW tr2, Grown(tr, n, tr2, f), NEW X, Sources(S, tr, n, f, X),
         NEW k \in 1 .. n, tr[k].role # f.role
  PROVE  Told(S, tr2, n + 1, k) <=> \E x \in X : x = k \/ Told(S, tr, x, k)
<1>1. \A x \in 1 .. n : IsEvent(S, tr[x]) /\ tr[x].batch \in Nat /\ Spot(S, tr[x]) \in 0 .. S + 2
  BY Spots DEF Log, Entries
<1>2. IsEvent(S, f) /\ f.batch \in Nat
  BY Spots DEF Due
<1>3. PICK j \in 1 .. S + 2 : j = Spot(S, f) /\ f.batch < done[0]
  BY <1>2, Spots, Later
<1>4. /\ tr2[n + 1] = f /\ tr2[k] = tr[k] /\ DOMAIN tr = 1 .. n
  BY DEF Grown
<1>5. \A b : Back(S, tr2, b, f.batch) <=> Back(S, tr, b, f.batch)
  BY <1>3, BackStays
<1>6. Told(S, tr2, n + 1, k) <=> \/ tr[k].batch <= f.batch /\ Spot(S, tr[k]) < j
                                 \/ Back(S, tr, tr[k].batch, f.batch)
  BY <1>3, <1>4, <1>5 DEF Told
<1>7. PICK s \in X : SentFor(S, tr, f, s) /\ s \in 1 .. n
  BY DEF Sources
<1>8. /\ tr[s].action = "Send" /\ tr[s].batch = f.batch /\ Spot(S, tr[s]) = j - 1
  BY <1>3, <1>7 DEF SentFor
<1>9. ASSUME Told(S, tr2, n + 1, k)
      PROVE  s = k \/ Told(S, tr, s, k)
  <2>1. CASE tr[k].batch <= f.batch /\ Spot(S, tr[k]) < j - 1
    BY <1>8, <2>1 DEF Told
  <2>2. CASE tr[k].batch <= f.batch /\ Spot(S, tr[k]) = j - 1
    <3>1. tr[k].role = tr[s].role
      BY <1>1, <1>7, <1>8, <2>2, SameRole
    <3>2. ~(s < k)
      <4> SUFFICES ASSUME s < k PROVE FALSE
        OBVIOUS
      <4>1. \/ tr[s].batch < tr[k].batch
            \/ tr[s].batch = tr[k].batch /\ tr[s].action = "Receive" /\ tr[k].action = "Send"
        BY <1>7, <1>8, <2>2 DEF Log, InTurn
      <4> QED BY <1>1, <1>2, <1>8, <2>2, <4>1
    <3>3. s = k \/ k < s
      BY <1>7, <3>2
    <3> QED BY <3>1, <3>3 DEF Told
  <2>3. CASE Back(S, tr, tr[k].batch, f.batch)
    BY <1>8, <2>3 DEF Told
  <2>4. Spot(S, tr[k]) < j => Spot(S, tr[k]) < j - 1 \/ Spot(S, tr[k]) = j - 1
    BY <1>1
  <2> QED BY <1>6, <1>9, <2>1, <2>2, <2>3, <2>4
<1>10. ASSUME s = k \/ Told(S, tr, s, k)
       PROVE  Told(S, tr2, n + 1, k)
  <2>1. CASE s = k
    <3>1. f.batch <= f.batch /\ j - 1 < j
      BY <1>2
    <3> QED BY <1>6, <1>8, <2>1, <3>1
  <2>2. CASE tr[k].role = tr[s].role /\ k < s
    <3>1. CASE Spot(S, tr[k]) = Spot(S, tr[s])
      <4>1. \/ tr[k].batch < tr[s].batch
            \/ tr[k].batch = tr[s].batch /\ tr[k].action = "Receive" /\ tr[s].action = "Send"
        BY <1>7, <2>2, <3>1 DEF Log, InTurn
      <4>2. tr[k].batch <= f.batch /\ j - 1 < j
        BY <1>1, <1>2, <1>8, <4>1
      <4> QED BY <1>6, <1>8, <3>1, <4>2
    <3>2. CASE Spot(S, tr[k]) # Spot(S, tr[s])
      <4>1. tr[s].role = S + 2 /\ Spot(S, tr[s]) = 0
        BY <1>1, <1>7, <1>8, <2>2, <3>2, SameRole, Spots
      <4>2. Spot(S, tr[k]) = S + 2
        BY <1>1, <1>7, <2>2, <3>2, <4>1, SameRole
      <4>3. Back(S, tr, tr[k].batch, f.batch)
        BY <1>4, <1>7, <1>8, <2>2, <4>1, <4>2 DEF Back
      <4> QED BY <1>6, <4>3
    <3> QED BY <3>1, <3>2
  <2>3. CASE tr[k].batch <= tr[s].batch /\ Spot(S, tr[k]) < Spot(S, tr[s])
    <3>1. tr[k].batch <= f.batch /\ Spot(S, tr[k]) < j
      BY <1>1, <1>8, <2>3
    <3> QED BY <1>6, <3>1
  <2>4. CASE Back(S, tr, tr[k].batch, tr[s].batch)
    BY <1>6, <1>8, <2>4
  <2> QED BY <1>10, <2>1, <2>2, <2>3, <2>4 DEF Told
<1>11. ASSUME NEW x \in 1 .. n, LastOwn(tr, n, f, x), x = k \/ Told(S, tr, x, k)
       PROVE  Told(S, tr2, n + 1, k)
  <2>1. tr[x].role = f.role /\ tr[x].role # tr[k].role /\ x # k
    BY <1>11 DEF LastOwn
  <2>2. Spot(S, tr[k]) # j
    BY <1>1, <1>2, <1>3, SameRole
  <2>3. CASE tr[k].batch <= tr[x].batch /\ Spot(S, tr[k]) < Spot(S, tr[x])
    <3>1. Spot(S, tr[x]) = j
      <4>1. CASE f.role # S + 2
        BY <1>1, <1>2, <1>3, <2>1, <4>1, SameRole
      <4>2. CASE f.role = S + 2
        <5>1. Spot(S, tr[x]) \in {0, S + 2} /\ j \in {0, S + 2}
          BY <1>1, <1>2, <1>3, <2>1, <4>2, SameRole
        <5>2. Spot(S, tr[x]) # 0 /\ j # 0
          BY <1>1, <2>3
        <5> QED BY <5>1, <5>2
      <4> QED BY <4>1, <4>2
    <3>2. tr[x].batch < f.batch
      BY <1>3, <3>1, Later
    <3>3. tr[k].batch <= f.batch
      BY <1>1, <1>2, <2>3, <3>2
    <3> QED BY <1>6, <2>3, <3>1, <3>3
  <2>4. CASE Back(S, tr, tr[k].batch, tr[x].batch)
    <3>1. PICK m \in 1 .. n, l \in 1 .. n :
            /\ m < l
            /\ tr[m].batch = tr[k].batch /\ Spot(S, tr[m]) = S + 2
            /\ tr[l].batch = tr[x].batch /\ Spot(S, tr[l]) = 0
      BY <1>4, <2>4 DEF Back
    <3>2. CASE j = S + 2
      <4>0. tr[m].batch < f.batch
        BY <3>1, Later
      <4>1. tr[k].batch < f.batch
        BY <3>1, <4>0
      <4>2. Spot(S, tr[k]) < j
        BY <1>1, <2>2, <3>2
      <4>3. tr[k].batch <= f.batch
        BY <1>1, <1>2, <4>1
      <4> QED BY <1>6, <4>2, <4>3
    <3>3. CASE j # S + 2
      <4>0. f.role # S + 2
        BY <1>2, <1>3, <3>3, SameRole
      <4>1. Spot(S, tr[x]) = j
        BY <1>1, <1>2, <1>3, <2>1, <4>0, SameRole
      <4>2. tr[x].batch < f.batch
        BY <1>3, <4>1, Later
      <4>3. PICK y \in 1 .. n : Spot(S, tr[y]) = 0 /\ tr[y].batch = f.batch
        <5>1. 0 \in 0 .. S + 1
          OBVIOUS
        <5> QED BY <1>2, <1>3, <5>1 DEF Log, Entries
      <4>4. l < y
        <5> SUFFICES ASSUME ~(l < y) PROVE FALSE
          OBVIOUS
        <5>1. l = y \/ y < l
          OBVIOUS
        <5>2. y < l => \/ tr[y].batch < tr[l].batch
                       \/ tr[y].batch = tr[l].batch /\ tr[y].action = "Receive" /\ tr[l].action = "Send"
          BY <3>1, <4>3 DEF Log, InTurn
        <5> QED BY <1>1, <1>2, <3>1, <4>2, <4>3, <5>1, <5>2
      <4>5. m < y
        BY <3>1, <4>4
      <4>6. Back(S, tr, tr[k].batch, f.batch)
        BY <1>4, <3>1, <4>3, <4>5 DEF Back
      <4> QED BY <1>6, <4>6
    <3> QED BY <3>2, <3>3
  <2> QED BY <1>11, <2>1, <2>3, <2>4 DEF Told
<1>12. ASSUME NEW x \in X, x = k \/ Told(S, tr, x, k)
       PROVE  Told(S, tr2, n + 1, k)
  <2>1. x \in 1 .. n /\ (LastOwn(tr, n, f, x) \/ SentFor(S, tr, f, x))
    BY DEF Sources
  <2>2. CASE LastOwn(tr, n, f, x)
    BY <1>11, <1>12, <2>1, <2>2
  <2>3. CASE SentFor(S, tr, f, x)
    <3>1. x = s
      <4>1. Spot(S, tr[x]) = Spot(S, tr[s]) /\ tr[x].batch = tr[s].batch /\ tr[x].action = "Send" /\ tr[s].action = "Send"
        BY <1>7, <2>3 DEF SentFor
      <4>2. ~(x < s) /\ ~(s < x)
        BY <1>1, <1>7, <2>1, <4>1 DEF Log, InTurn
      <4> QED BY <1>7, <2>1, <4>2
    <3> QED BY <1>10, <1>12, <3>1
  <2> QED BY <2>1, <2>2, <2>3
<1> QED BY <1>7, <1>9, <1>12


LEMMA BackSame ==
  ASSUME NEW S \in Nat, NEW n \in Nat, NEW tr, NEW tr2, NEW f, Grown(tr, n, tr2, f), NEW b, NEW c,
         Spot(S, f) # 0
  PROVE  Back(S, tr2, b, c) <=> Back(S, tr, b, c)
BY BackStays

\* A stage sends the batch it has just received.
LEMMA LastHeard ==
  ASSUME NEW S \in Nat, NEW got, NEW done, NEW n \in Nat, NEW tr, Log(S, tr, n, got, done),
         NEW f, Due(S, got, done, f), f.action = "Send", Spot(S, f) # 0,
         NEW x \in 1 .. n, LastOwn(tr, n, f, x)
  PROVE  tr[x].batch = f.batch /\ Spot(S, tr[x]) = Spot(S, f)
<1>1. \A y \in 1 .. n : IsEvent(S, tr[y]) /\ tr[y].batch \in Nat
  BY Spots DEF Log, Entries
<1>2. IsEvent(S, f) /\ f.batch \in Nat /\ Spot(S, f) \in 1 .. S + 1
  BY Spots DEF Due
<1>3. f.role # S + 2 /\ tr[x].role = f.role
  BY <1>2, SameRole DEF LastOwn
<1>4. Spot(S, tr[x]) = Spot(S, f)
  BY <1>1, <1>2, <1>3, SameRole
<1>5. PICK y \in 1 .. n : Spot(S, tr[y]) = Spot(S, f) /\ tr[y].action = "Receive" /\ tr[y].batch = f.batch
  <2>1. got[Spot(S, f)] = f.batch + 1
    BY DEF Due
  <2>2. f.batch < got[Spot(S, f)] /\ Spot(S, f) \in 1 .. S + 2
    BY <1>2, <2>1
  <2> QED BY <1>2, <2>2 DEF Log, Entries
<1>6. y <= x
  BY <1>1, <1>2, <1>5, SameRole DEF LastOwn
<1>7. tr[x].batch < f.batch \/ tr[x].batch = f.batch
  BY <1>4, Later
<1>8. y # x => \/ tr[y].batch < tr[x].batch
               \/ tr[y].batch = tr[x].batch
  BY <1>4, <1>5, <1>6 DEF Log, InTurn
<1> QED BY <1>1, <1>2, <1>4, <1>5, <1>7, <1>8

LEMMA HeardPassingOn ==
  ASSUME NEW S \in Nat, NEW got, NEW done, NEW n \in Nat, NEW tr, Log(S, tr, n, got, done),
         NEW f, Due(S, got, done, f), f.action = "Send", Spot(S, f) # 0,
         NEW tr2, Grown(tr, n, tr2, f), NEW X, Sources(S, tr, n, f, X),
         NEW k \in 1 .. n, tr[k].role # f.role
  PROVE  Told(S, tr2, n + 1, k) <=> \E x \in X : x = k \/ Told(S, tr, x, k)
<1>1. IsEvent(S, f) /\ f.batch \in Nat /\ Spot(S, f) \in 1 .. S + 1
  BY Spots DEF Due
<1>2. tr2[n + 1] = f /\ tr2[k] = tr[k]
  BY DEF Grown
<1>3. Back(S, tr2, tr[k].batch, f.batch) <=> Back(S, tr, tr[k].batch, f.batch)
  BY BackSame
<1>4. ASSUME NEW x \in X
      PROVE  (x = k \/ Told(S, tr, x, k)) <=> Told(S, tr2, n + 1, k)
  <2>1. x \in 1 .. n /\ LastOwn(tr, n, f, x)
    BY DEF Sources, SentFor
  <2>2. tr[x].batch = f.batch /\ Spot(S, tr[x]) = Spot(S, f)
    BY <2>1, LastHeard
  <2>3. tr[x].role = f.role
    BY <2>1 DEF LastOwn
  <2> QED BY <1>2, <1>3, <2>2, <2>3 DEF Told
<1>5. \E x \in X : TRUE
  <2>1. PICK y \in 1 .. n : Spot(S, tr[y]) = Spot(S, f)
    <3>1. got[Spot(S, f)] = f.batch + 1
      BY DEF Due
    <3>2. f.batch < got[Spot(S, f)] /\ Spot(S, f) \in 1 .. S + 2
      BY <1>1, <3>1
    <3> QED BY <1>1, <3>2 DEF Log, Entries
  <2>2. tr[y].role = f.role
    BY <1>1, <2>1, SameRole DEF Log, Entries
  <2> QED BY <2>2 DEF Sources
<1> QED BY <1>4, <1>5

LEMMA HeardStarting ==
  ASSUME NEW S \in Nat, NEW got, NEW done, NEW n \in Nat, NEW tr, Log(S, tr, n, got, done),
         NEW f, Due(S, got, done, f), f.action = "Send", Spot(S, f) = 0,
         NEW tr2, Grown(tr, n, tr2, f), NEW X, Sources(S, tr, n, f, X),
         NEW k \in 1 .. n, tr[k].role # f.role
  PROVE  Told(S, tr2, n + 1, k) <=> \E x \in X : x = k \/ Told(S, tr, x, k)
<1>1. \A y \in 1 .. n : IsEvent(S, tr[y]) /\ tr[y].batch \in Nat /\ Spot(S, tr[y]) \in 0 .. S + 2
  BY Spots DEF Log, Entries
<1>2. IsEvent(S, f) /\ f.batch \in Nat /\ f.role = S + 2
  BY Spots, SameRole DEF Due
<1>3. tr2[n + 1] = f /\ tr2[k] = tr[k] /\ DOMAIN tr = 1 .. n
  BY DEF Grown
<1>4. Spot(S, tr[k]) \in 1 .. S + 1
  BY <1>1, <1>2, SameRole
<1>5. Back(S, tr2, tr[k].batch, f.batch)
        <=> \E m \in 1 .. n : tr[m].batch = tr[k].batch /\ Spot(S, tr[m]) = S + 2
  <2>1. ASSUME Back(S, tr2, tr[k].batch, f.batch)
        PROVE  \E m \in 1 .. n : tr[m].batch = tr[k].batch /\ Spot(S, tr[m]) = S + 2
    <3>1. DOMAIN tr2 = 1 .. n + 1 /\ \A m \in 1 .. n : tr2[m] = tr[m]
      BY DEF Grown
    <3>2. PICK m \in 1 .. n + 1, l \in 1 .. n + 1 :
            m < l /\ tr2[m].batch = tr[k].batch /\ Spot(S, tr2[m]) = S + 2
      BY <2>1, <3>1 DEF Back
    <3>3. m \in 1 .. n
      BY <3>2
    <3> QED BY <3>1, <3>2, <3>3
  <2> QED BY <2>1, BackStays
<1>6. Told(S, tr2, n + 1, k)
        <=> \E m \in 1 .. n : tr[m].batch = tr[k].batch /\ Spot(S, tr[m]) = S + 2
  <2>1. ~(Spot(S, tr[k]) < 0)
    BY <1>4
  <2> QED BY <1>3, <1>5, <2>1 DEF Told
<1>7. ASSUME NEW m \in 1 .. n, tr[m].batch = tr[k].batch, Spot(S, tr[m]) = S + 2
      PROVE  \E x \in X : Told(S, tr, x, k)
  <2>1. tr[m].role = f.role
    BY <1>1, <1>2, <1>7, SameRole
  <2>2. PICK x \in X : x \in 1 .. n /\ LastOwn(tr, n, f, x)
    BY <2>1 DEF Sources
  <2>3. m <= x /\ tr[x].role = S + 2
    BY <1>2, <2>1, <2>2 DEF LastOwn
  <2>4. Spot(S, tr[x]) \in {0, S + 2}
    BY <1>1, <2>2, <2>3, SameRole
  <2>5. CASE Spot(S, tr[x]) = 0
    <3>0. m # x
      BY <1>7, <2>5
    <3>1. m < x
      BY <2>2, <2>3, <3>0
    <3>2. Back(S, tr, tr[k].batch, tr[x].batch)
      BY <1>3, <1>7, <2>2, <2>5, <3>1 DEF Back
    <3> QED BY <3>2 DEF Told
  <2>6. CASE Spot(S, tr[x]) = S + 2
    <3>1. m < x => \/ tr[m].batch < tr[x].batch
                   \/ tr[m].batch = tr[x].batch
      BY <1>7, <2>2, <2>6 DEF Log, InTurn
    <3>2. m = x \/ m < x
      BY <2>2, <2>3
    <3>3. tr[k].batch <= tr[x].batch
      BY <1>1, <1>7, <2>2, <3>1, <3>2
    <3>4. Spot(S, tr[k]) < Spot(S, tr[x])
      BY <1>4, <2>6
    <3> QED BY <3>3, <3>4 DEF Told
  <2> QED BY <2>4, <2>5, <2>6
<1>8. ASSUME NEW x \in X, x = k \/ Told(S, tr, x, k)
      PROVE  \E m \in 1 .. n : tr[m].batch = tr[k].batch /\ Spot(S, tr[m]) = S + 2
  <2>1. x \in 1 .. n /\ tr[x].role = f.role
    BY DEF Sources, SentFor, LastOwn
  <2>2. \/ tr[k].batch <= tr[x].batch /\ Spot(S, tr[k]) < Spot(S, tr[x])
        \/ Back(S, tr, tr[k].batch, tr[x].batch)
    BY <1>8, <2>1 DEF Told
  <2>3. CASE tr[k].batch <= tr[x].batch /\ Spot(S, tr[k]) < Spot(S, tr[x])
    <3>1. Spot(S, tr[x]) \in {0, S + 2} /\ Spot(S, tr[x]) # 0
      BY <1>1, <1>2, <1>4, <2>1, <2>3, SameRole
    <3>2. Spot(S, tr[x]) = S + 2 /\ tr[x].action = "Receive"
      BY <1>1, <2>1, <3>1, Spots
    <3>3. tr[x].batch < got[S + 2]
      BY <2>1, <3>2 DEF Log, Entries
    <3>4. got[S + 2] \in Nat /\ S + 2 \in 1 .. S + 2
      <4>1. S + 2 \in 0 .. S + 2 /\ S + 2 \in 1 .. S + 2
        OBVIOUS
      <4> QED BY <4>1 DEF Log, Counts
    <3>5. tr[k].batch < got[S + 2] /\ tr[k].batch \in Nat
      BY <1>1, <2>1, <2>3, <3>3, <3>4
    <3> QED BY <3>4, <3>5 DEF Log, Entries
  <2>4. CASE Back(S, tr, tr[k].batch, tr[x].batch)
    BY <1>3, <2>4 DEF Back
  <2> QED BY <2>2, <2>3, <2>4
<1> QED BY <1>6, <1>7, <1>8

LEMMA Heard ==
  ASSUME NEW S \in Nat, NEW got, NEW done, NEW n \in Nat, NEW tr, Log(S, tr, n, got, done),
         NEW f, Due(S, got, done, f), NEW tr2, Grown(tr, n, tr2, f), NEW X, Sources(S, tr, n, f, X),
         NEW k \in 1 .. n, tr[k].role # f.role
  PROVE  Told(S, tr2, n + 1, k) <=> \E x \in X : x = k \/ Told(S, tr, x, k)
<1>1. f.action \in {"Send", "Receive"}
  BY DEF Due, IsEvent
<1> QED BY <1>1, HeardReceiving, HeardPassingOn, HeardStarting

\* The counts with f.
Counted(S, got, done, f, got2, done2) ==
  \A j \in 0 .. S + 2 :
    /\ got2[j] = IF f.action = "Receive" /\ j = Spot(S, f) THEN got[j] + 1 ELSE got[j]
    /\ done2[j] = IF f.action = "Send" /\ j = Spot(S, f) THEN done[j] + 1 ELSE done[j]

LEMMA CountsGrow ==
  ASSUME NEW S \in Nat, NEW got, NEW done, Counts(S, got, done), NEW f, Due(S, got, done, f),
         NEW got2, NEW done2, Counted(S, got, done, f, got2, done2)
  PROVE  Counts(S, got2, done2)
<1>1. PICK j \in 0 .. S + 2, c \in Nat : j = Spot(S, f) /\ c = f.batch
  BY Spots DEF Due
<1>2. /\ f.action = "Send" => c = done[j] /\ j # S + 2 /\ (j # 0 => got[j] = c + 1)
      /\ f.action = "Receive" => c = got[j] /\ c < done[j - 1] /\ j # 0
      /\ f.action = "Send" <=> f.action # "Receive"
  <2>1. f.action \in {"Send", "Receive"} /\ (f.action = "Send" => j # S + 2) /\ (f.action = "Receive" => j # 0)
    BY <1>1, Spots DEF Due
  <2> QED BY <1>1, <2>1 DEF Due
<1>3. \A x \in 0 .. S + 2 : got[x] \in Nat /\ done[x] \in Nat
  BY DEF Counts
<1>4. \A x \in 0 .. S + 2 :
        /\ got2[x] = IF f.action = "Receive" /\ x = j THEN got[x] + 1 ELSE got[x]
        /\ done2[x] = IF f.action = "Send" /\ x = j THEN done[x] + 1 ELSE done[x]
  BY <1>1 DEF Counted
<1>5. \A x \in 0 .. S + 2 : got2[x] \in Nat /\ done2[x] \in Nat /\ got[x] <= got2[x] /\ done[x] <= done2[x]
  BY <1>3, <1>4
<1>6. ASSUME NEW x \in 1 .. S + 1 PROVE done2[x] <= got2[x]
  <2>1. x \in 0 .. S + 2 /\ done[x] <= got[x]
    BY DEF Counts
  <2>2. CASE f.action = "Send" /\ x = j
    BY <1>2, <1>3, <1>4, <2>1, <2>2
  <2>3. CASE ~(f.action = "Send" /\ x = j)
    BY <1>3, <1>4, <1>5, <2>1, <2>3
  <2> QED BY <2>2, <2>3
<1>7. ASSUME NEW i \in 0 .. S + 1, NEW x \in 1 .. S + 2, i < x PROVE got2[x] <= done2[i]
  <2>1. i \in 0 .. S + 2 /\ x \in 0 .. S + 2 /\ got[x] <= done[i]
    BY <1>7 DEF Counts
  <2>2. CASE f.action = "Receive" /\ x = j
    <3>1. got2[x] = c + 1
      BY <1>2, <1>4, <2>1, <2>2
    <3>2. PICK y \in 0 .. S + 1 : y = x - 1
      OBVIOUS
    <3>3. c < done[y] /\ done[y] \in Nat /\ done[i] \in Nat
      BY <1>2, <1>3, <2>1, <2>2, <3>2
    <3>4. i < y => done[y] <= done[i]
      <4> SUFFICES ASSUME i < y PROVE done[y] <= done[i]
        OBVIOUS
      <4>1. y \in 1 .. S + 1 /\ y \in 1 .. S + 2 /\ y \in 0 .. S + 2
        BY <3>2
      <4>2. done[y] <= got[y] /\ got[y] <= done[i] /\ got[y] \in Nat
        BY <4>1 DEF Counts
      <4> QED BY <3>3, <4>2
    <3>5. c < done[i]
      BY <1>7, <3>2, <3>3, <3>4
    <3> QED BY <1>5, <2>1, <3>1, <3>3, <3>5
  <2>3. CASE ~(f.action = "Receive" /\ x = j)
    BY <1>3, <1>4, <1>5, <2>1, <2>3
  <2> QED BY <2>2, <2>3
<1> QED BY <1>5, <1>6, <1>7 DEF Counts

LEMMA EntriesGrow ==
  ASSUME NEW S \in Nat, NEW got, NEW done, NEW n \in Nat, NEW tr, Log(S, tr, n, got, done),
         NEW f, Due(S, got, done, f), NEW tr2, Grown(tr, n, tr2, f),
         NEW got2, NEW done2, Counted(S, got, done, f, got2, done2)
  PROVE  Entries(S, tr2, n + 1, got2, done2)
<1>1. PICK j \in 0 .. S + 2, c \in Nat : j = Spot(S, f) /\ c = f.batch
  BY Spots DEF Due
<1>2. /\ f.action = "Send" => c = done[j]
      /\ f.action = "Receive" => c = got[j]
      /\ f.action \in {"Send", "Receive"}
  BY <1>1 DEF Due, IsEvent
<1>3. \A x \in 0 .. S + 2 : got[x] \in Nat /\ done[x] \in Nat
  BY DEF Log, Counts
<1>4. \A x \in 0 .. S + 2 :
        /\ got2[x] = IF f.action = "Receive" /\ x = j THEN got[x] + 1 ELSE got[x]
        /\ done2[x] = IF f.action = "Send" /\ x = j THEN done[x] + 1 ELSE done[x]
  BY <1>1 DEF Counted
<1>5. \A x \in 0 .. S + 2 : got2[x] \in Nat /\ done2[x] \in Nat /\ got[x] <= got2[x] /\ done[x] <= done2[x]
  BY <1>3, <1>4
<1>6. DOMAIN tr2 = 1 .. n + 1 /\ (\A k \in 1 .. n : tr2[k] = tr[k]) /\ tr2[n + 1] = f
  BY DEF Grown
<1>7. ASSUME NEW k \in 1 .. n + 1
      PROVE  /\ IsEvent(S, tr2[k])
             /\ tr2[k].batch < (IF tr2[k].action = "Send" THEN done2[Spot(S, tr2[k])] ELSE got2[Spot(S, tr2[k])])
  <2>1. CASE k = n + 1
    <3>1. f.action = "Send" => c < done2[j]
      BY <1>2, <1>4
    <3>2. f.action = "Receive" => c < got2[j]
      BY <1>2, <1>4
    <3>3. IsEvent(S, f)
      BY DEF Due
    <3> QED BY <1>1, <1>2, <1>6, <2>1, <3>1, <3>2, <3>3
  <2>2. CASE k # n + 1
    <3>1. k \in 1 .. n /\ tr2[k] = tr[k]
      BY <1>6, <2>2
    <3>2. /\ IsEvent(S, tr[k])
          /\ tr[k].batch < (IF tr[k].action = "Send" THEN done[Spot(S, tr[k])] ELSE got[Spot(S, tr[k])])
      BY <3>1 DEF Log, Entries
    <3>3. PICK i \in 0 .. S + 2, b \in Nat : i = Spot(S, tr[k]) /\ b = tr[k].batch
      BY <3>2, Spots
    <3>4. b < (IF tr[k].action = "Send" THEN done2[i] ELSE got2[i])
      BY <1>3, <1>5, <3>2, <3>3
    <3> QED BY <3>1, <3>2, <3>3, <3>4
  <2> QED BY <2>1, <2>2
<1>8. ASSUME NEW i \in 0 .. S + 1, NEW b \in Nat, b < done2[i]
      PROVE  \E k \in 1 .. n + 1 : Spot(S, tr2[k]) = i /\ tr2[k].action = "Send" /\ tr2[k].batch = b
  <2>1. CASE b < done[i]
    <3>1. PICK k \in 1 .. n : Spot(S, tr[k]) = i /\ tr[k].action = "Send" /\ tr[k].batch = b
      BY <2>1 DEF Log, Entries
    <3> QED BY <1>6, <3>1
  <2>2. CASE ~(b < done[i])
    <3>1. i \in 0 .. S + 2 /\ f.action = "Send" /\ i = j /\ b = c
      BY <1>2, <1>3, <1>4, <1>8, <2>2
    <3> QED BY <1>1, <1>6, <3>1
  <2> QED BY <2>1, <2>2
<1>9. ASSUME NEW i \in 1 .. S + 2, NEW b \in Nat, b < got2[i]
      PROVE  \E k \in 1 .. n + 1 : Spot(S, tr2[k]) = i /\ tr2[k].action = "Receive" /\ tr2[k].batch = b
  <2>1. CASE b < got[i]
    <3>1. PICK k \in 1 .. n : Spot(S, tr[k]) = i /\ tr[k].action = "Receive" /\ tr[k].batch = b
      BY <2>1 DEF Log, Entries
    <3> QED BY <1>6, <3>1
  <2>2. CASE ~(b < got[i])
    <3>1. i \in 0 .. S + 2 /\ f.action = "Receive" /\ i = j /\ b = c
      BY <1>2, <1>3, <1>4, <1>9, <2>2
    <3> QED BY <1>1, <1>6, <3>1
  <2> QED BY <2>1, <2>2
<1> QED BY <1>6, <1>7, <1>8, <1>9 DEF Entries

LEMMA LogGrows ==
  ASSUME NEW S \in Nat, NEW got, NEW done, NEW n \in Nat, NEW tr, Log(S, tr, n, got, done),
         NEW f, Due(S, got, done, f), NEW tr2, Grown(tr, n, tr2, f),
         NEW got2, NEW done2, Counted(S, got, done, f, got2, done2)
  PROVE  Log(S, tr2, n + 1, got2, done2)
<1>1. Counts(S, got2, done2)
  BY CountsGrow DEF Log
<1>2. Entries(S, tr2, n + 1, got2, done2)
  BY EntriesGrow
<1>3. ASSUME NEW k \in 1 .. n + 1, NEW l \in 1 .. n + 1, k < l, Spot(S, tr2[k]) = Spot(S, tr2[l])
      PROVE  \/ tr2[k].batch < tr2[l].batch
             \/ tr2[k].batch = tr2[l].batch /\ tr2[k].action = "Receive" /\ tr2[l].action = "Send"
  <2>1. k \in 1 .. n /\ tr2[k] = tr[k] /\ tr2[n + 1] = f
    BY <1>3 DEF Grown
  <2>2. CASE l = n + 1
    <3>1. Spot(S, tr[k]) = Spot(S, f) /\ tr2[l] = f
      BY <1>3, <2>1, <2>2
    <3>2. \/ tr[k].batch < f.batch
          \/ tr[k].batch = f.batch /\ tr[k].action = "Receive" /\ f.action = "Send"
      BY <2>1, <3>1, Later
    <3> QED BY <2>1, <3>1, <3>2
  <2>3. CASE l # n + 1
    <3>1. l \in 1 .. n /\ tr2[l] = tr[l]
      BY <2>3 DEF Grown
    <3> QED BY <1>3, <2>1, <3>1 DEF Log, InTurn
  <2> QED BY <2>2, <2>3
<1> QED BY <1>1, <1>2, <1>3 DEF Log, InTurn

(***************************************************************************)
(* What the stamps say of a log: an event covers another's own entry if it *)
(* is that event or was told of it, and then it covers all of its entries. *)
(***************************************************************************)

Entry(tr, k, q) == get(tr[k].stamp.vector, q)

Covers(s, tr, k) ==
  tr[k].stamp.lamport < s.lamport /\ \A q : Entry(tr, k, q) <= get(s.vector, q)

Stamps(S, tr, n, clocks) ==
  /\ \A k \in 1 .. n : 1 <= Entry(tr, k, tr[k].role)
  /\ \A k \in 1 .. n, q \in 1 .. S + 2 : Entry(tr, k, q) <= get(clocks[q].vector, q)
  /\ \A k, l \in 1 .. n : Entry(tr, k, tr[k].role) <= Entry(tr, l, tr[k].role) <=> k = l \/ Told(S, tr, l, k)
  /\ \A k, l \in 1 .. n : Told(S, tr, l, k) => Covers(tr[l].stamp, tr, k)

\* The stamp of f: one more than its process had, and what the sources say.
Newest(S, tr, clocks, f, X) ==
  /\ get(f.stamp.vector, f.role) = get(clocks[f.role].vector, f.role) + 1
  /\ \A x \in X : Covers(f.stamp, tr, x)
  /\ \A q \in 1 .. S + 2 \ {f.role} :
       get(f.stamp.vector, q) = 0 \/ \E x \in X : get(f.stamp.vector, q) = Entry(tr, x, q)

Advanced(S, clocks, f, clocks2) ==
  \A q \in 1 .. S + 2 : clocks2[q] = IF q = f.role THEN f.stamp ELSE clocks[q]

AreClocks(S, clocks) == \A p \in 1 .. S + 2 : IsClock(clocks[p], p)

LEMMA EntryNat ==
  ASSUME NEW S \in Nat, NEW tr, NEW k, IsEvent(S, tr[k]), NEW q
  PROVE  Entry(tr, k, q) \in Nat /\ tr[k].stamp.lamport \in Nat
BY GetNat DEF IsEvent, IsClock, Entry

LEMMA CoversOn ==
  ASSUME NEW S \in Nat, NEW tr, NEW s, IsVector(s.vector), s.lamport \in Nat, NEW x, NEW k,
         IsEvent(S, tr[x]), IsEvent(S, tr[k]), Covers(s, tr, x), Covers(tr[x].stamp, tr, k)
  PROVE  Covers(s, tr, k)
<1>1. ASSUME NEW q PROVE Entry(tr, k, q) <= get(s.vector, q)
  <2>1. Entry(tr, k, q) \in Nat /\ Entry(tr, x, q) \in Nat /\ get(s.vector, q) \in Nat
    BY EntryNat, GetNat
  <2>2. Entry(tr, k, q) <= Entry(tr, x, q) /\ Entry(tr, x, q) <= get(s.vector, q)
    BY DEF Covers, Entry
  <2> QED BY <2>1, <2>2
<1>2. tr[k].stamp.lamport < s.lamport
  <2>1. tr[k].stamp.lamport \in Nat /\ tr[x].stamp.lamport \in Nat
    BY EntryNat
  <2> QED BY <2>1 DEF Covers
<1> QED BY <1>1, <1>2 DEF Covers

LEMMA Recorded ==
  ASSUME NEW S \in Nat, NEW got, NEW done, NEW n \in Nat, NEW tr, Log(S, tr, n, got, done),
         NEW f, Due(S, got, done, f), NEW tr2, Grown(tr, n, tr2, f), NEW X, Sources(S, tr, n, f, X),
         NEW clocks, AreClocks(S, clocks), Stamps(S, tr, n, clocks), Newest(S, tr, clocks, f, X),
         NEW clocks2, Advanced(S, clocks, f, clocks2)
  PROVE  Stamps(S, tr2, n + 1, clocks2)
<1>1. \A k \in 1 .. n : IsEvent(S, tr[k]) /\ tr[k].role \in 1 .. S + 2
  BY DEF Log, Entries, IsEvent
<1>2. IsEvent(S, f) /\ f.role \in 1 .. S + 2
  BY DEF Due, IsEvent
<1>3. \A k \in 1 .. n : \A q : Entry(tr, k, q) \in Nat
  BY <1>1, EntryNat
<1>4. \A q : get(f.stamp.vector, q) \in Nat
  BY <1>2, GetNat DEF IsEvent, IsClock
<1>5. \A q \in 1 .. S + 2 : get(clocks[q].vector, q) \in Nat
  BY GetNat DEF AreClocks, IsClock
<1>6. /\ \A k \in 1 .. n : tr2[k] = tr[k] /\ \A q : Entry(tr2, k, q) = Entry(tr, k, q)
      /\ tr2[n + 1] = f /\ \A q : Entry(tr2, n + 1, q) = get(f.stamp.vector, q)
  BY DEF Grown, Entry
<1>7. get(f.stamp.vector, f.role) = get(clocks[f.role].vector, f.role) + 1
  BY DEF Newest
<1>8. \A k \in 1 .. n : 1 <= Entry(tr, k, tr[k].role)
  BY DEF Stamps
<1>9. \A k \in 1 .. n, q \in 1 .. S + 2 : Entry(tr, k, q) <= get(clocks[q].vector, q)
  BY DEF Stamps
<1>10. \A k \in 1 .. n + 1 : k \in 1 .. n \/ k = n + 1
  OBVIOUS
<1>11. \A x \in X : x \in 1 .. n
  BY DEF Sources
<1>12. ASSUME NEW k \in 1 .. n + 1 PROVE 1 <= Entry(tr2, k, tr2[k].role)
  <2>1. CASE k \in 1 .. n
    BY <1>6, <1>8, <2>1
  <2>2. CASE k = n + 1
    BY <1>2, <1>5, <1>6, <1>7, <2>2
  <2> QED BY <1>10, <2>1, <2>2
<1>13. ASSUME NEW k \in 1 .. n + 1, NEW q \in 1 .. S + 2
       PROVE  Entry(tr2, k, q) <= get(clocks2[q].vector, q)
  <2>1. clocks2[q] = IF q = f.role THEN f.stamp ELSE clocks[q]
    BY DEF Advanced
  <2>2. CASE k \in 1 .. n
    <3>1. Entry(tr2, k, q) = Entry(tr, k, q) /\ Entry(tr, k, q) \in Nat /\ Entry(tr, k, q) <= get(clocks[q].vector, q)
      BY <1>3, <1>6, <1>9, <2>2
    <3>2. CASE q = f.role
      <4>1. get(clocks2[q].vector, q) = get(clocks[q].vector, q) + 1
        BY <1>7, <2>1, <3>2
      <4> QED BY <1>5, <3>1, <4>1
    <3>3. CASE q # f.role
      BY <2>1, <3>1, <3>3
    <3> QED BY <3>2, <3>3
  <2>3. CASE k = n + 1
    <3>1. Entry(tr2, k, q) = get(f.stamp.vector, q)
      BY <1>6, <2>3
    <3>2. CASE q = f.role
      BY <1>4, <2>1, <3>1, <3>2
    <3>3. CASE q # f.role
      <4>1. clocks2[q] = clocks[q]
        BY <2>1, <3>3
      <4>2. get(f.stamp.vector, q) = 0 \/ \E x \in X : get(f.stamp.vector, q) = Entry(tr, x, q)
        BY <3>3 DEF Newest
      <4>3. get(f.stamp.vector, q) <= get(clocks[q].vector, q)
        BY <1>5, <1>9, <1>11, <4>2
      <4> QED BY <3>1, <4>1, <4>3
    <3> QED BY <3>2, <3>3
  <2> QED BY <1>10, <2>2, <2>3
<1>14. ASSUME NEW k \in 1 .. n, tr[k].role # f.role
       PROVE  /\ Entry(tr, k, tr[k].role) <= get(f.stamp.vector, tr[k].role) <=> Told(S, tr2, n + 1, k)
              /\ Told(S, tr2, n + 1, k) => Covers(f.stamp, tr, k)
  <2>1. PICK q \in 1 .. S + 2 : q = tr[k].role /\ q # f.role
    BY <1>1, <1>14
  <2>2. Told(S, tr2, n + 1, k) <=> \E x \in X : x = k \/ Told(S, tr, x, k)
    BY <1>14, Heard
  <2>3. \A x \in X : Entry(tr, k, q) <= Entry(tr, x, q) <=> x = k \/ Told(S, tr, x, k)
    BY <1>11, <2>1 DEF Stamps
  <2>4. ASSUME NEW x \in X, Entry(tr, k, q) <= Entry(tr, x, q) PROVE Entry(tr, k, q) <= get(f.stamp.vector, q)
    <3>1. Entry(tr, x, q) <= get(f.stamp.vector, q)
      BY DEF Newest, Covers
    <3> QED BY <1>3, <1>4, <1>11, <2>4, <3>1
  <2>5. ASSUME Entry(tr, k, q) <= get(f.stamp.vector, q) PROVE \E x \in X : Entry(tr, k, q) <= Entry(tr, x, q)
    <3>1. get(f.stamp.vector, q) = 0 \/ \E x \in X : get(f.stamp.vector, q) = Entry(tr, x, q)
      BY <2>1 DEF Newest
    <3>2. 1 <= Entry(tr, k, q) /\ Entry(tr, k, q) \in Nat
      BY <1>3, <1>8, <2>1
    <3> QED BY <2>5, <3>1, <3>2
  <2>6. ASSUME NEW x \in X, x = k \/ Told(S, tr, x, k) PROVE Covers(f.stamp, tr, k)
    <3>1. Covers(f.stamp, tr, x)
      BY DEF Newest
    <3>2. CASE Told(S, tr, x, k)
      <4>1. Covers(tr[x].stamp, tr, k)
        BY <1>11, <3>2 DEF Stamps
      <4>2. IsVector(f.stamp.vector) /\ f.stamp.lamport \in Nat
        BY <1>2 DEF IsEvent, IsClock
      <4> QED BY <1>1, <1>11, <3>1, <4>1, <4>2, CoversOn
    <3> QED BY <2>6, <3>1, <3>2
  <2> QED BY <2>1, <2>2, <2>3, <2>4, <2>5, <2>6
<1>15. ASSUME NEW k \in 1 .. n, tr[k].role = f.role
       PROVE  /\ Entry(tr, k, tr[k].role) <= get(f.stamp.vector, tr[k].role)
              /\ Told(S, tr2, n + 1, k)
              /\ Covers(f.stamp, tr, k)
  <2>1. Entry(tr, k, f.role) <= get(f.stamp.vector, f.role)
    <3>1. Entry(tr, k, f.role) <= get(clocks[f.role].vector, f.role)
      BY <1>2, <1>9
    <3> QED BY <1>2, <1>3, <1>5, <1>7, <3>1
  <2>2. Told(S, tr2, n + 1, k)
    <3>1. k < n + 1
      OBVIOUS
    <3> QED BY <1>6, <1>15, <3>1 DEF Told
  <2>3. PICK x \in X : x \in 1 .. n /\ LastOwn(tr, n, f, x)
    BY <1>15, <1>11 DEF Sources
  <2>4. Covers(f.stamp, tr, x)
    BY DEF Newest
  <2>5. k <= x /\ tr[x].role = f.role
    BY <1>15, <2>3 DEF LastOwn
  <2>6. CASE k # x
    <3>1. k < x
      BY <2>3, <2>5, <2>6
    <3>2. Told(S, tr, x, k)
      BY <1>15, <2>5, <3>1 DEF Told
    <3>3. Covers(tr[x].stamp, tr, k)
      BY <2>3, <3>2 DEF Stamps
    <3>4. IsVector(f.stamp.vector) /\ f.stamp.lamport \in Nat
      BY <1>2 DEF IsEvent, IsClock
    <3> QED BY <1>1, <2>1, <1>15, <2>2, <2>3, <2>4, <3>3, <3>4, CoversOn
  <2> QED BY <1>15, <2>1, <2>2, <2>4, <2>6
<1>16. ASSUME NEW k \in 1 .. n + 1, NEW l \in 1 .. n + 1
       PROVE  /\ Entry(tr2, k, tr2[k].role) <= Entry(tr2, l, tr2[k].role) <=> k = l \/ Told(S, tr2, l, k)
              /\ Told(S, tr2, l, k) => Covers(tr2[l].stamp, tr2, k)
  <2>1. CASE k \in 1 .. n /\ l \in 1 .. n
    <3>1. Told(S, tr2, l, k) <=> Told(S, tr, l, k)
      BY <2>1, OldPairs
    <3>2. Covers(tr2[l].stamp, tr2, k) <=> Covers(tr[l].stamp, tr, k)
      BY <1>6, <2>1 DEF Covers
    <3>3. /\ Entry(tr, k, tr[k].role) <= Entry(tr, l, tr[k].role) <=> k = l \/ Told(S, tr, l, k)
          /\ Told(S, tr, l, k) => Covers(tr[l].stamp, tr, k)
      BY <2>1 DEF Stamps
    <3> QED BY <1>6, <2>1, <3>1, <3>2, <3>3
  <2>2. CASE k \in 1 .. n /\ l = n + 1
    <3>1. Covers(tr2[l].stamp, tr2, k) <=> Covers(f.stamp, tr, k)
      BY <1>6, <2>2 DEF Covers
    <3>2. /\ Entry(tr, k, tr[k].role) <= get(f.stamp.vector, tr[k].role) <=> Told(S, tr2, n + 1, k)
          /\ Told(S, tr2, n + 1, k) => Covers(f.stamp, tr, k)
      BY <1>14, <1>15, <2>2
    <3>3. k # l
      BY <2>2
    <3> QED BY <1>6, <2>2, <3>1, <3>2, <3>3
  <2>3. CASE k = n + 1
    <3>1. ~Told(S, tr2, l, k)
      BY <2>3, NoNews
    <3>2. CASE l = n + 1
      BY <1>4, <1>6, <2>3, <3>1, <3>2
    <3>3. CASE l \in 1 .. n
      <4>1. Entry(tr, l, f.role) <= get(clocks[f.role].vector, f.role)
        BY <1>2, <1>9, <3>3
      <4>2. ~(get(f.stamp.vector, f.role) <= Entry(tr, l, f.role))
        BY <1>2, <1>3, <1>5, <1>7, <3>3, <4>1
      <4>3. k # l
        BY <2>3, <3>3
      <4> QED BY <1>6, <2>3, <3>1, <3>3, <4>2, <4>3
    <3> QED BY <1>10, <3>2, <3>3
  <2> QED BY <1>10, <2>1, <2>2, <2>3
<1> QED BY <1>12, <1>13, <1>16 DEF Stamps

(***************************************************************************)
(* One call of a process, on a run: its clock, the stamps on the messages  *)
(* and the trace.                                                          *)
(***************************************************************************)

\* A sequence of its elements.
Listed(s) == s \in Seq({s[k] : k \in DOMAIN s})

LEMMA Appended ==
  ASSUME NEW tr, Listed(tr), NEW n \in Nat, DOMAIN tr = 1 .. n, NEW f
  PROVE  Listed(Append(tr, f)) /\ Grown(tr, n, Append(tr, f), f)
<1> DEFINE T == {tr[k] : k \in DOMAIN tr} \union {f}
           tr2 == Append(tr, f)
<1>1. tr \in Seq(T)
  <2>1. tr \in Seq({tr[k] : k \in DOMAIN tr})
    BY DEF Listed
  <2> QED BY <2>1
<1>2. Len(tr) = n
  <2>1. Len(tr) \in Nat /\ DOMAIN tr = 1 .. Len(tr)
    BY <1>1
  <2> QED BY <2>1, SameInterval
<1>3. f \in T
  OBVIOUS
<1> HIDE DEF T
<1>4. /\ tr2 \in Seq(T) /\ Len(tr2) = Len(tr) + 1
      /\ \A i \in 1 .. Len(tr) : tr2[i] = tr[i]
      /\ tr2[Len(tr) + 1] = f
  BY <1>1, <1>3, AppendProperties
<1> HIDE DEF tr2
<1>5. DOMAIN tr2 = 1 .. n + 1
  BY <1>2, <1>4
<1>6. tr2 \in Seq({tr2[k] : k \in DOMAIN tr2})
  <2>1. \A k \in 1 .. n + 1 : tr2[k] \in {tr2[i] : i \in DOMAIN tr2}
    BY <1>5
  <2>2. tr2 = [k \in 1 .. n + 1 |-> tr2[k]]
    BY <1>4, <1>5
  <2>3. tr2 \in [1 .. n + 1 -> {tr2[i] : i \in DOMAIN tr2}]
    BY <2>1, <2>2
  <2> QED BY <2>3
<1> QED BY <1>2, <1>4, <1>5, <1>6 DEF Grown, Listed, tr2

\* A clock is the stamp of its process's last event, or has heard of no other yet.
Current(S, tr, n, clocks) ==
  \A p \in 1 .. S + 2 :
    \/ /\ \A k \in 1 .. n : tr[k].role # p
       /\ \A q \in 1 .. S + 2 \ {p} : get(clocks[p].vector, q) = 0
    \/ \E l \in 1 .. n : /\ tr[l].role = p /\ clocks[p] = tr[l].stamp
                         /\ \A k \in 1 .. n : tr[k].role = p => k <= l

\* A message under way carries the stamp it was sent with.
Box(S, tr, n, j, sent, g, d) ==
  \/ d = g /\ sent = <<>>
  \/ /\ d = g + 1
     /\ \E x \in 1 .. n : /\ tr[x].action = "Send" /\ Spot(S, tr[x]) = j /\ tr[x].batch = g
                          /\ sent = <<tr[x].stamp>>

Mail(S, tr, n, sent, got, done) ==
  \A j \in 0 .. S + 1 : Box(S, tr, n, j, sent[j], got[j + 1], done[j])

Faithful(S, run, n, got, done) ==
  /\ Log(S, run.trace, n, got, done)
  /\ Listed(run.trace)
  /\ DOMAIN run.clock = 0 .. S + 2 /\ AreClocks(S, run.clock)
  /\ Stamps(S, run.trace, n, run.clock)
  /\ Current(S, run.trace, n, run.clock)

Run(S, run, n, got, done) ==
  /\ Faithful(S, run, n, got, done)
  /\ DOMAIN run.sent_at = 0 .. S + 1
  /\ Mail(S, run.trace, n, run.sent_at, got, done)

\* What a call adds.
Extends(S, run, n, f, run2) ==
  /\ run2.trace = Append(run.trace, f)
  /\ run2.clock = [run.clock EXCEPT ![f.role] = f.stamp]

LEMMA Recording ==
  ASSUME NEW S \in Nat, NEW run, NEW n \in Nat, NEW got, NEW done, Faithful(S, run, n, got, done),
         NEW f, Due(S, got, done, f), NEW run2, Extends(S, run, n, f, run2),
         NEW X, Sources(S, run.trace, n, f, X), Newest(S, run.trace, run.clock, f, X),
         NEW got2, NEW done2, Counted(S, got, done, f, got2, done2)
  PROVE  /\ Faithful(S, run2, n + 1, got2, done2)
         /\ Grown(run.trace, n, run2.trace, f)
<1>1. Listed(run2.trace) /\ Grown(run.trace, n, run2.trace, f)
  <2>1. DOMAIN run.trace = 1 .. n /\ Listed(run.trace)
    BY DEF Faithful, Log, Entries
  <2> QED BY <2>1, Appended DEF Extends
<1>2. Log(S, run2.trace, n + 1, got2, done2)
  BY <1>1, LogGrows DEF Faithful
<1>3. IsEvent(S, f) /\ f.role \in 1 .. S + 2 /\ f.role \in 0 .. S + 2
  BY DEF Due, IsEvent
<1>4. /\ DOMAIN run2.clock = 0 .. S + 2
      /\ \A q \in 1 .. S + 2 : run2.clock[q] = IF q = f.role THEN f.stamp ELSE run.clock[q]
  BY <1>3 DEF Extends, Faithful
<1>5. Advanced(S, run.clock, f, run2.clock)
  BY <1>4 DEF Advanced
<1>6. AreClocks(S, run2.clock)
  <2>1. IsClock(f.stamp, f.role)
    BY <1>3 DEF IsEvent
  <2> QED BY <1>4, <2>1 DEF AreClocks, Faithful
<1>7. Stamps(S, run2.trace, n + 1, run2.clock)
  BY <1>1, <1>5, Recorded DEF Faithful
<1>8. ASSUME NEW p \in 1 .. S + 2
      PROVE  \/ /\ \A k \in 1 .. n + 1 : run2.trace[k].role # p
                /\ \A q \in 1 .. S + 2 \ {p} : get(run2.clock[p].vector, q) = 0
             \/ \E l \in 1 .. n + 1 : /\ run2.trace[l].role = p /\ run2.clock[p] = run2.trace[l].stamp
                                      /\ \A k \in 1 .. n + 1 : run2.trace[k].role = p => k <= l
  <2>1. /\ \A k \in 1 .. n : run2.trace[k] = run.trace[k]
        /\ run2.trace[n + 1] = f /\ n + 1 \in 1 .. n + 1
        /\ \A k \in 1 .. n + 1 : k <= n + 1 /\ (k \in 1 .. n \/ k = n + 1)
        /\ \A k \in 1 .. n : k \in 1 .. n + 1
    BY <1>1 DEF Grown
  <2>2. CASE p = f.role
    BY <1>4, <2>1, <2>2
  <2>3. CASE p # f.role
    <3>1. run2.clock[p] = run.clock[p]
      BY <1>4, <2>3
    <3>2. CASE /\ \A k \in 1 .. n : run.trace[k].role # p
               /\ \A q \in 1 .. S + 2 \ {p} : get(run.clock[p].vector, q) = 0
      BY <2>1, <2>3, <3>1, <3>2
    <3>3. ASSUME NEW l \in 1 .. n, run.trace[l].role = p, run.clock[p] = run.trace[l].stamp,
                 \A k \in 1 .. n : run.trace[k].role = p => k <= l
          PROVE  \E m \in 1 .. n + 1 :
                   /\ run2.trace[m].role = p /\ run2.clock[p] = run2.trace[m].stamp
                   /\ \A k \in 1 .. n + 1 : run2.trace[k].role = p => k <= m
      <4>1. l \in 1 .. n + 1 /\ run2.trace[l].role = p /\ run2.clock[p] = run2.trace[l].stamp
        BY <2>1, <3>1, <3>3
      <4>2. \A k \in 1 .. n + 1 : run2.trace[k].role = p => k <= l
        BY <2>1, <2>3, <3>3
      <4> QED BY <4>1, <4>2
    <3> QED BY <3>2, <3>3 DEF Faithful, Current
  <2> QED BY <2>2, <2>3
<1>9. Current(S, run2.trace, n + 1, run2.clock)
  BY <1>8 DEF Current
<1> QED BY <1>1, <1>2, <1>4, <1>6, <1>7, <1>9 DEF Faithful

\* What the clock of a process says is 0 or from its last event, which is a source.
FromLast(S, run, n, p, f, X) ==
  /\ (\E k \in 1 .. n : run.trace[k].role = p) => \E x \in X : LastOwn(run.trace, n, f, x)
  /\ \A x \in 1 .. n : LastOwn(run.trace, n, f, x) => run.clock[p] = run.trace[x].stamp
  /\ \A q \in 1 .. S + 2 \ {p} :
       \/ get(run.clock[p].vector, q) = 0
       \/ \E x \in X : get(run.clock[p].vector, q) = Entry(run.trace, x, q)

LEMMA LastIsSource ==
  ASSUME NEW S \in Nat, NEW run, NEW n \in Nat, NEW got, NEW done, Faithful(S, run, n, got, done),
         NEW p \in 1 .. S + 2, NEW f, f.role = p, NEW X,
         \A x \in 1 .. n : LastOwn(run.trace, n, f, x) => x \in X
  PROVE  FromLast(S, run, n, p, f, X)
<1>1. CASE /\ \A k \in 1 .. n : run.trace[k].role # p
           /\ \A q \in 1 .. S + 2 \ {p} : get(run.clock[p].vector, q) = 0
  BY <1>1 DEF LastOwn, FromLast
<1>2. ASSUME NEW l \in 1 .. n, run.trace[l].role = p, run.clock[p] = run.trace[l].stamp,
             \A k \in 1 .. n : run.trace[k].role = p => k <= l
      PROVE  /\ \E x \in X : LastOwn(run.trace, n, f, x)
             /\ \A x \in 1 .. n : LastOwn(run.trace, n, f, x) => run.clock[p] = run.trace[x].stamp
             /\ \A q : \E x \in X : get(run.clock[p].vector, q) = Entry(run.trace, x, q)
  <2>1. LastOwn(run.trace, n, f, l) /\ l \in X
    BY <1>2 DEF LastOwn
  <2>2. ASSUME NEW x \in 1 .. n, LastOwn(run.trace, n, f, x) PROVE x = l
    <3>1. x <= l /\ l <= x
      BY <1>2, <2>2 DEF LastOwn
    <3> QED BY <3>1
  <2> QED BY <1>2, <2>1, <2>2 DEF Entry
<1>3. \/ /\ \A k \in 1 .. n : run.trace[k].role # p
         /\ \A q \in 1 .. S + 2 \ {p} : get(run.clock[p].vector, q) = 0
      \/ \E l \in 1 .. n : /\ run.trace[l].role = p /\ run.clock[p] = run.trace[l].stamp
                           /\ \A k \in 1 .. n : run.trace[k].role = p => k <= l
  BY DEF Faithful, Current
<1> QED BY <1>1, <1>2, <1>3 DEF FromLast

LEMMA Sends ==
  ASSUME NEW S \in Nat, NEW run, NEW n \in Nat, NEW got, NEW done, Faithful(S, run, n, got, done),
         NEW f, Due(S, got, done, f), f.action = "Send", f.stamp = local_event(run.clock[f.role]),
         NEW run2, Extends(S, run, n, f, run2),
         NEW done2, Counted(S, got, done, f, got, done2)
  PROVE  /\ Faithful(S, run2, n + 1, got, done2)
         /\ Grown(run.trace, n, run2.trace, f)
<1> DEFINE X == {x \in 1 .. n : LastOwn(run.trace, n, f, x)}
<1>1. PICK p \in 1 .. S + 2 : p = f.role
  BY DEF Due, IsEvent
<1>2. IsClock(run.clock[p], p)
  BY DEF Faithful, AreClocks
<1>3. /\ IsClock(f.stamp, p) /\ run.clock[p].lamport < f.stamp.lamport
      /\ get(f.stamp.vector, p) = get(run.clock[p].vector, p) + 1
      /\ \A q : q # p => get(f.stamp.vector, q) = get(run.clock[p].vector, q)
  BY <1>1, <1>2, LocalEvents
<1>4. /\ \A x \in X : x \in 1 .. n /\ LastOwn(run.trace, n, f, x)
      /\ \A x \in 1 .. n : LastOwn(run.trace, n, f, x) => x \in X
  OBVIOUS
<1> HIDE DEF X
<1>5. /\ (\E k \in 1 .. n : run.trace[k].role = p) => \E x \in X : LastOwn(run.trace, n, f, x)
      /\ \A x \in 1 .. n : LastOwn(run.trace, n, f, x) => run.clock[p] = run.trace[x].stamp
      /\ \A q \in 1 .. S + 2 \ {p} :
           \/ get(run.clock[p].vector, q) = 0
           \/ \E x \in X : get(run.clock[p].vector, q) = Entry(run.trace, x, q)
  <2>1. FromLast(S, run, n, p, f, X)
    BY <1>1, <1>4, LastIsSource
  <2> QED BY <2>1 DEF FromLast
<1>6. Sources(S, run.trace, n, f, X)
  BY <1>1, <1>4, <1>5 DEF Sources
<1>7. ASSUME NEW x \in X PROVE Covers(f.stamp, run.trace, x)
  <2>1. run.trace[x].stamp = run.clock[p]
    BY <1>4, <1>5
  <2>2. \A q : get(run.clock[p].vector, q) <= get(f.stamp.vector, q)
    <3>1. \A q : get(run.clock[p].vector, q) \in Nat
      BY <1>2, GetNat DEF IsClock
    <3> QED BY <1>3, <3>1
  <2> QED BY <1>3, <2>1, <2>2 DEF Covers, Entry
<1>8. Newest(S, run.trace, run.clock, f, X)
  BY <1>1, <1>3, <1>5, <1>7 DEF Newest
<1> QED BY <1>6, <1>8, Recording

LEMMA Receives ==
  ASSUME NEW S \in Nat, NEW run, NEW n \in Nat, NEW got, NEW done, Faithful(S, run, n, got, done),
         NEW f, Due(S, got, done, f), f.action = "Receive",
         NEW m \in 1 .. n, SentFor(S, run.trace, f, m),
         f.stamp = receive_event(run.clock[f.role], run.trace[m].stamp),
         NEW run2, Extends(S, run, n, f, run2),
         NEW got2, Counted(S, got, done, f, got2, done)
  PROVE  /\ Faithful(S, run2, n + 1, got2, done)
         /\ Grown(run.trace, n, run2.trace, f)
<1> DEFINE X == {x \in 1 .. n : LastOwn(run.trace, n, f, x) \/ x = m}
<1>1. PICK p \in 1 .. S + 2 : p = f.role
  BY DEF Due, IsEvent
<1>2. IsClock(run.clock[p], p)
  BY DEF Faithful, AreClocks
<1>3. PICK sent : sent = run.trace[m].stamp
  OBVIOUS
<1>4. PICK r : r = run.trace[m].role /\ IsClock(sent, r) /\ sent.process = r
  BY <1>3 DEF Faithful, Log, Entries, IsEvent, IsClock
<1>5. get(sent.vector, p) <= get(run.clock[p].vector, p)
  BY <1>3 DEF Faithful, Stamps, Entry
<1>6. /\ IsClock(f.stamp, p) /\ run.clock[p].lamport < f.stamp.lamport /\ sent.lamport < f.stamp.lamport
      /\ get(f.stamp.vector, p) = get(run.clock[p].vector, p) + 1
      /\ \A q : q # p =>
           /\ get(run.clock[p].vector, q) <= get(f.stamp.vector, q) /\ get(sent.vector, q) <= get(f.stamp.vector, q)
           /\ get(f.stamp.vector, q) \in {get(run.clock[p].vector, q), get(sent.vector, q)}
  <2>1. PICK mine, stamp : mine = run.clock[p] /\ stamp = f.stamp
    OBVIOUS
  <2>2. IsClock(mine, p) /\ IsClock(sent, r) /\ r \in {sent.process}
    BY <1>2, <1>4, <2>1
  <2>3. stamp = receive_event(mine, sent) /\ get(sent.vector, p) <= get(mine.vector, p)
    BY <1>1, <1>3, <1>5, <2>1
  <2> QED BY <2>1, <2>2, <2>3, ReceiveEvents
<1>7. /\ \A x \in X : x \in 1 .. n /\ (LastOwn(run.trace, n, f, x) \/ x = m)
      /\ \A x \in 1 .. n : LastOwn(run.trace, n, f, x) => x \in X
      /\ m \in X
  OBVIOUS
<1> HIDE DEF X
<1>8. /\ (\E k \in 1 .. n : run.trace[k].role = p) => \E x \in X : LastOwn(run.trace, n, f, x)
      /\ \A x \in 1 .. n : LastOwn(run.trace, n, f, x) => run.clock[p] = run.trace[x].stamp
      /\ \A q \in 1 .. S + 2 \ {p} :
           \/ get(run.clock[p].vector, q) = 0
           \/ \E x \in X : get(run.clock[p].vector, q) = Entry(run.trace, x, q)
  <2>1. FromLast(S, run, n, p, f, X)
    BY <1>1, <1>7, LastIsSource
  <2> QED BY <2>1 DEF FromLast
<1>9. Sources(S, run.trace, n, f, X)
  BY <1>1, <1>7, <1>8 DEF Sources
<1>10. /\ \A q : get(run.clock[p].vector, q) \in Nat /\ get(sent.vector, q) \in Nat
       /\ run.clock[p].lamport \in Nat
  BY <1>2, <1>4, GetNat DEF IsClock
<1>11. /\ \A q : get(run.clock[p].vector, q) <= get(f.stamp.vector, q)
       /\ \A q : get(sent.vector, q) <= get(f.stamp.vector, q)
  BY <1>5, <1>6, <1>10
<1>12. ASSUME NEW x \in X PROVE Covers(f.stamp, run.trace, x)
  <2>1. run.trace[x].stamp = run.clock[p] \/ run.trace[x].stamp = sent
    BY <1>3, <1>7, <1>8
  <2> QED BY <1>6, <1>11, <2>1 DEF Covers, Entry
<1>13. ASSUME NEW q \in 1 .. S + 2 \ {p}
       PROVE  get(f.stamp.vector, q) = 0 \/ \E x \in X : get(f.stamp.vector, q) = Entry(run.trace, x, q)
  <2>1. CASE get(f.stamp.vector, q) = get(sent.vector, q)
    BY <1>3, <1>7, <2>1 DEF Entry
  <2>2. CASE get(f.stamp.vector, q) = get(run.clock[p].vector, q)
    BY <1>8, <2>2
  <2> QED BY <1>6, <2>1, <2>2
<1>14. Newest(S, run.trace, run.clock, f, X)
  BY <1>1, <1>6, <1>12, <1>13 DEF Newest
<1> QED BY <1>9, <1>14, Recording

\* What was sent before stays as it was.
LEMMA BoxKept ==
  ASSUME NEW S, NEW n \in Nat, NEW tr, NEW tr2, NEW f, Grown(tr, n, tr2, f),
         NEW j, NEW sent, NEW g, NEW d, Box(S, tr, n, j, sent, g, d)
  PROVE  Box(S, tr2, n + 1, j, sent, g, d)
<1>1. \A x \in 1 .. n : x \in 1 .. n + 1 /\ tr2[x] = tr[x]
  BY DEF Grown
<1> QED BY <1>1 DEF Box

\* Process p sends batch b from place j.
LEMMA SendRuns ==
  ASSUME NEW S \in Nat, NEW run, NEW n \in Nat, NEW got, NEW done, Run(S, run, n, got, done),
         NEW p \in 1 .. S + 2, NEW j \in 0 .. S + 1, j = S + 2 - p, output_cap(p).object = j,
         done[j] = got[j + 1], j # 0 => got[j] = done[j] + 1, NEW b, b = done[j],
         NEW done2, \A x \in 0 .. S + 2 : done2[x] = IF x = j THEN done[x] + 1 ELSE done[x]
  PROVE  Run(S, after_send(run, p, b), n + 1, got, done2)
<1>1. PICK sent : sent = local_event(run.clock[p])
  OBVIOUS
<1>2. PICK f : f = event(p, "Send", b, sent)
  OBVIOUS
<1>3. f.role = p /\ f.action = "Send" /\ f.batch = b /\ f.stamp = sent
  BY <1>2 DEF event
<1>4. PICK run2 : run2 = after_send(run, p, b)
  OBVIOUS
<1>5. /\ run2.clock = [run.clock EXCEPT ![p] = sent]
      /\ run2.sent_at = [run.sent_at EXCEPT ![j] = Append(run.sent_at[j], sent)]
      /\ run2.trace = Append(run.trace, f)
  BY <1>1, <1>2, <1>4 DEF after_send
<1>6. IsClock(run.clock[p], p) /\ IsClock(sent, p)
  <2>1. IsClock(run.clock[p], p)
    BY DEF Run, Faithful, AreClocks
  <2> QED BY <1>1, <2>1, LocalEvents
<1>7. \A x \in 0 .. S + 2 : got[x] \in Nat /\ done[x] \in Nat
  BY DEF Run, Faithful, Log, Counts
<1>8. Spot(S, f) = j
  BY <1>3 DEF Spot
<1>9. Due(S, got, done, f)
  <2>1. b \in Nat
    BY <1>7
  <2>2. IsEvent(S, f)
    BY <1>3, <1>6, <2>1 DEF IsEvent
  <2> QED BY <1>3, <1>8, <2>2 DEF Due
<1>10. Extends(S, run, n, f, run2)
  BY <1>3, <1>5 DEF Extends
<1>11. Counted(S, got, done, f, got, done2)
  BY <1>3, <1>8 DEF Counted
<1>12. Faithful(S, run2, n + 1, got, done2) /\ Grown(run.trace, n, run2.trace, f)
  BY <1>1, <1>3, <1>9, <1>10, <1>11, Sends DEF Run
<1>13. /\ DOMAIN run2.sent_at = 0 .. S + 1
       /\ \A x \in 0 .. S + 1 : x # j => run2.sent_at[x] = run.sent_at[x]
       /\ run2.sent_at[j] = Append(run.sent_at[j], sent)
  BY <1>5 DEF Run
<1>14. run.sent_at[j] = <<>>
  <2>1. j + 1 \in 0 .. S + 2
    OBVIOUS
  <2>2. done[j] # got[j + 1] + 1
    BY <1>7, <2>1
  <2> QED BY <2>2 DEF Run, Mail, Box
<1>15. run2.sent_at[j] = <<sent>>
  BY <1>13, <1>14
<1>16. ASSUME NEW x \in 0 .. S + 1
       PROVE  Box(S, run2.trace, n + 1, x, run2.sent_at[x], got[x + 1], done2[x])
  <2>1. CASE x = j
    <3>1. done2[j] = got[j + 1] + 1 /\ b = got[j + 1]
      OBVIOUS
    <3>2. run2.trace[n + 1] = f /\ n + 1 \in 1 .. n + 1
      BY <1>12 DEF Grown
    <3> QED BY <1>3, <1>8, <1>15, <2>1, <3>1, <3>2 DEF Box
  <2>2. CASE x # j
    <3>1. done2[x] = done[x] /\ run2.sent_at[x] = run.sent_at[x]
      BY <1>13, <2>2
    <3>2. Box(S, run.trace, n, x, run.sent_at[x], got[x + 1], done[x])
      BY DEF Run, Mail
    <3>3. Box(S, run2.trace, n + 1, x, run.sent_at[x], got[x + 1], done[x])
      BY <1>12, <3>2, BoxKept
    <3> QED BY <3>1, <3>3
  <2> QED BY <2>1, <2>2
<1>17. Mail(S, run2.trace, n + 1, run2.sent_at, got, done2)
  BY <1>16 DEF Mail
<1> QED BY <1>4, <1>12, <1>13, <1>17 DEF Run

\* Process p receives the next batch at place j.
LEMMA ReceiveRuns ==
  ASSUME NEW S \in Nat, NEW run, NEW n \in Nat, NEW got, NEW done, Run(S, run, n, got, done),
         NEW p \in 1 .. S + 2, NEW j \in 1 .. S + 2, j = (IF p = S + 2 THEN S + 2 ELSE S + 2 - p),
         input_cap(p).object = j - 1,
         done[j - 1] # got[j], j # S + 2 => done[j] = got[j], NEW b, b = got[j],
         NEW got2, \A x \in 0 .. S + 2 : got2[x] = IF x = j THEN got[x] + 1 ELSE got[x]
  PROVE  Run(S, after_receive(run, p, b), n + 1, got2, done)
<1>0. PICK i \in 0 .. S + 1 : i = j - 1 /\ j = i + 1
  OBVIOUS
<1>1. PICK m \in 1 .. n : /\ run.trace[m].action = "Send" /\ Spot(S, run.trace[m]) = i /\ run.trace[m].batch = b
                          /\ run.sent_at[i] = <<run.trace[m].stamp>> /\ done[i] = got[j] + 1
  <2>1. Box(S, run.trace, n, i, run.sent_at[i], got[i + 1], done[i])
    BY DEF Run, Mail
  <2>2. done[i] # got[i + 1] /\ got[i + 1] = b /\ got[j] = b
    BY <1>0
  <2> QED BY <2>1, <2>2 DEF Box
<1>2. PICK received_at : received_at = receive_event(run.clock[p], run.trace[m].stamp)
  OBVIOUS
<1>3. PICK f : f = event(p, "Receive", b, received_at)
  OBVIOUS
<1>4. f.role = p /\ f.action = "Receive" /\ f.batch = b /\ f.stamp = received_at
  BY <1>3 DEF event
<1>5. PICK run2 : run2 = after_receive(run, p, b)
  OBVIOUS
<1>6. Head(run.sent_at[i]) = run.trace[m].stamp /\ Tail(run.sent_at[i]) = <<>>
  BY <1>1
<1>7. /\ run2.clock = [run.clock EXCEPT ![p] = received_at]
      /\ run2.sent_at = [run.sent_at EXCEPT ![i] = Tail(run.sent_at[i])]
      /\ run2.trace = Append(run.trace, f)
  BY <1>0, <1>2, <1>3, <1>5, <1>6 DEF after_receive
<1>8. \A x \in 0 .. S + 2 : got[x] \in Nat /\ done[x] \in Nat
  BY DEF Run, Faithful, Log, Counts
<1>9. Spot(S, f) = j
  BY <1>4 DEF Spot
<1>10. IsClock(received_at, p)
  <2>1. PICK mine, sent : mine = run.clock[p] /\ sent = run.trace[m].stamp
    OBVIOUS
  <2>2. PICK r : r = run.trace[m].role /\ IsClock(sent, r) /\ sent.process = r
    <3>1. IsEvent(S, run.trace[m])
      BY DEF Run, Faithful, Log, Entries
    <3> QED BY <2>1, <3>1 DEF IsEvent, IsClock
  <2>3. IsClock(mine, p)
    BY <2>1 DEF Run, Faithful, AreClocks
  <2>4. get(sent.vector, p) <= get(mine.vector, p)
    BY <2>1 DEF Run, Faithful, Stamps, Entry
  <2> QED BY <1>2, <2>1, <2>2, <2>3, <2>4, ReceiveEvents
<1>11. Due(S, got, done, f)
  <2>1. b \in Nat
    BY <1>8
  <2>2. IsEvent(S, f)
    BY <1>4, <1>10, <2>1 DEF IsEvent
  <2>3. b < done[j - 1]
    BY <1>0, <1>1, <2>1
  <2> QED BY <1>4, <1>9, <2>2, <2>3 DEF Due
<1>12. Extends(S, run, n, f, run2)
  BY <1>4, <1>7 DEF Extends
<1>13. Counted(S, got, done, f, got2, done)
  BY <1>4, <1>9 DEF Counted
<1>14. SentFor(S, run.trace, f, m)
  BY <1>0, <1>1, <1>4, <1>9 DEF SentFor
<1>15. Faithful(S, run2, n + 1, got2, done) /\ Grown(run.trace, n, run2.trace, f)
  BY <1>2, <1>4, <1>11, <1>12, <1>13, <1>14, Receives DEF Run
<1>16. /\ DOMAIN run2.sent_at = 0 .. S + 1
       /\ \A x \in 0 .. S + 1 : x # i => run2.sent_at[x] = run.sent_at[x]
       /\ run2.sent_at[i] = <<>>
  BY <1>6, <1>7 DEF Run
<1>17. ASSUME NEW x \in 0 .. S + 1
       PROVE  Box(S, run2.trace, n + 1, x, run2.sent_at[x], got2[x + 1], done[x])
  <2>1. CASE x = i
    BY <1>0, <1>1, <1>16, <2>1 DEF Box
  <2>2. CASE x # i
    <3>1. PICK y \in 0 .. S + 2 : y = x + 1 /\ y # j
      BY <1>0, <2>2
    <3>2. got2[y] = got[y] /\ run2.sent_at[x] = run.sent_at[x]
      BY <1>16, <2>2, <3>1
    <3>3. Box(S, run.trace, n, x, run.sent_at[x], got[x + 1], done[x])
      BY DEF Run, Mail
    <3>4. Box(S, run2.trace, n + 1, x, run.sent_at[x], got[x + 1], done[x])
      BY <1>15, <3>3, BoxKept
    <3> QED BY <3>1, <3>2, <3>4
  <2> QED BY <2>1, <2>2
<1>18. Mail(S, run2.trace, n + 1, run2.sent_at, got2, done)
  BY <1>17 DEF Mail
<1> QED BY <1>5, <1>15, <1>16, <1>18 DEF Run

(***************************************************************************)
(* The turns of the pipeline, with the run they leave.                     *)
(***************************************************************************)

\* A channel holds what was sent and has not been received.
Holds(s, j, g, d) ==
  \/ s.queues[j] = <<>> /\ d = g
  \/ s.queues[j] # <<>> /\ d = g + 1 /\ Carried(s, j) = g

\* The counts of the run agree with the channels: between two turns a stage has sent
\* on all it has received.
Matches(S, s, n, got, done) ==
  /\ done[0] = n
  /\ \A j \in 1 .. S + 1 : done[j] = got[j]
  /\ \A j \in 0 .. S + 1 : Holds(s, j, got[j + 1], done[j])

Traced(S, run, s, b) ==
  \E n \in Nat : \E got, done : Run(S, run, n, got, done) /\ Matches(S, s, b, got, done)

OneMoreOf(S, counts, j, counts2) ==
  \A x \in 0 .. S + 2 : counts2[x] = IF x = j THEN counts[x] + 1 ELSE counts[x]

LEMMA OneMoreExists ==
  ASSUME NEW S, NEW counts, NEW j
  PROVE  \E counts2 : OneMoreOf(S, counts, j, counts2)
<1> DEFINE counts2 == [x \in 0 .. S + 2 |-> IF x = j THEN counts[x] + 1 ELSE counts[x]]
<1>1. \A x \in 0 .. S + 2 : counts2[x] = IF x = j THEN counts[x] + 1 ELSE counts[x]
  OBVIOUS
<1> HIDE DEF counts2
<1> QED BY <1>1 DEF OneMoreOf

LEMMA RunCounts ==
  ASSUME NEW S \in Nat, NEW run, NEW n \in Nat, NEW got, NEW done, Run(S, run, n, got, done)
  PROVE  \A x \in 0 .. S + 2 : got[x] \in Nat /\ done[x] \in Nat
BY DEF Run, Faithful, Log, Counts

\* A message in, a message out.
LEMMA HopTraced ==
  ASSUME PipelineInv, NEW S \in Nat, NEW P \in Nat, Sizes(S, P), NEW p \in 1 .. S + 1,
         NEW i \in 0 .. S + 1, NEW o \in 0 .. S + 1, i = S + 1 - p, o = S + 2 - p,
         PassesOn(p, i, o), Traced(S, now, sys, next_batch)
  PROVE  Traced(S, hop(p), sys', next_batch')
<1>0. PICK n \in Nat : \E got, done : Run(S, now, n, got, done) /\ Matches(S, sys, next_batch, got, done)
  BY DEF Traced
<1>1. PICK got, done : Run(S, now, n, got, done) /\ Matches(S, sys, next_batch, got, done)
  BY <1>0
<1>2. PICK b : b = Carried(sys, i)
  OBVIOUS
<1>3. /\ message(p).data = b /\ sys.queues[i] # <<>> /\ sys.queues[o] = <<>>
      /\ sys'.queues[i] = <<>> /\ sys'.queues[o] # <<>> /\ Carried(sys', o) = b
      /\ next_batch' = next_batch
      /\ \A c \in 0 .. S + 1 \ {i, o} : sys'.queues[c] = sys.queues[c]
  BY <1>2 DEF PassesOn, Sizes
<1>4. p \in 1 .. S + 2 /\ o = i + 1 /\ o \in 1 .. S + 2 /\ p # S + 2 /\ o # S + 2 /\ o \in 0 .. S + 2
      /\ o \in 1 .. S + 1 /\ o + 1 \in 0 .. S + 2 /\ i \in 0 .. S + 2
  OBVIOUS
<1>5. input_cap(p).object = i /\ output_cap(p).object = o
  <2>1. InputOf(config, p) = i /\ OutputOf(config, p) = o
    BY DEF InputOf, OutputOf, Sizes
  <2> QED BY <1>4, <2>1, ViewsAre DEF ReadView, WriteView
<1>6. \A x \in 0 .. S + 2 : got[x] \in Nat /\ done[x] \in Nat
  BY <1>1, RunCounts
<1>7. done[i] = got[o] + 1 /\ b = got[o] /\ done[o] = got[o] /\ done[o] = got[o + 1]
  <2>1. Holds(sys, i, got[o], done[i]) /\ Holds(sys, o, got[o + 1], done[o])
    BY <1>1, <1>4 DEF Matches
  <2>2. done[o] = got[o]
    BY <1>1, <1>4 DEF Matches
  <2> QED BY <1>2, <1>3, <2>1, <2>2 DEF Holds
<1>8. PICK got2 : \A x \in 0 .. S + 2 : got2[x] = IF x = o THEN got[x] + 1 ELSE got[x]
  <2>1. PICK got2 : OneMoreOf(S, got, o, got2)
    BY OneMoreExists
  <2> QED BY <2>1 DEF OneMoreOf
<1>9. PICK done2 : \A x \in 0 .. S + 2 : done2[x] = IF x = o THEN done[x] + 1 ELSE done[x]
  <2>1. PICK done2 : OneMoreOf(S, done, o, done2)
    BY OneMoreExists
  <2> QED BY <2>1 DEF OneMoreOf
<1>10. PICK run1 : run1 = after_receive(now, p, b)
  OBVIOUS
<1>11. Run(S, run1, n + 1, got2, done)
  <2>1. o = (IF p = S + 2 THEN S + 2 ELSE S + 2 - p) /\ input_cap(p).object = o - 1
    BY <1>4, <1>5
  <2>2. done[o - 1] # got[o]
    BY <1>4, <1>6, <1>7
  <2> QED BY <1>1, <1>4, <1>7, <1>8, <1>10, <2>1, <2>2, ReceiveRuns
<1>12. PICK run2 : run2 = after_send(run1, p, b)
  OBVIOUS
<1>13. Run(S, run2, n + 1 + 1, got2, done2)
  <2>1. done[o] = got2[o + 1] /\ (o # 0 => got2[o] = done[o] + 1) /\ b = done[o]
    BY <1>4, <1>7, <1>8
  <2> QED BY <1>4, <1>5, <1>9, <1>11, <1>12, <2>1, SendRuns
<1>14. hop(p) = run2
  BY <1>3, <1>10, <1>12 DEF hop
<1>15. done2[0] = next_batch'
  <2>1. 0 \in 0 .. S + 2 /\ 0 # o
    BY <1>4
  <2> QED BY <1>1, <1>3, <1>9, <2>1 DEF Matches
<1>16. ASSUME NEW x \in 1 .. S + 1 PROVE done2[x] = got2[x]
  <2>1. x \in 0 .. S + 2 /\ done[x] = got[x]
    BY <1>1 DEF Matches
  <2> QED BY <1>8, <1>9, <2>1
<1>17. ASSUME NEW x \in 0 .. S + 1 PROVE Holds(sys', x, got2[x + 1], done2[x])
  <2>1. PICK y \in 0 .. S + 2 : y = x + 1 /\ x \in 0 .. S + 2
    OBVIOUS
  <2>2. CASE x = i
    <3>1. y = o /\ x # o
      BY <1>4, <2>1, <2>2
    <3>2. done2[x] = got2[y]
      BY <1>4, <1>7, <1>8, <1>9, <2>1, <2>2, <3>1
    <3> QED BY <1>3, <2>1, <2>2, <3>2 DEF Holds
  <2>3. CASE x = o
    <3>1. done2[x] = got2[y] + 1 /\ got2[y] = b
      BY <1>7, <1>8, <1>9, <2>1, <2>3
    <3> QED BY <1>3, <2>1, <2>3, <3>1 DEF Holds
  <2>4. CASE x # i /\ x # o
    <3>1. done2[x] = done[x] /\ got2[y] = got[y]
      BY <1>4, <1>8, <1>9, <2>1, <2>4
    <3>2. Holds(sys, x, got[y], done[x])
      BY <1>1, <2>1 DEF Matches
    <3>3. sys'.queues[x] = sys.queues[x]
      BY <1>3, <2>4
    <3> QED BY <2>1, <3>1, <3>2, <3>3 DEF Holds, Carried
  <2> QED BY <2>2, <2>3, <2>4
<1>18. Matches(S, sys', next_batch', got2, done2)
  BY <1>15, <1>16, <1>17 DEF Matches
<1>19. n + 1 + 1 \in Nat
  OBVIOUS
<1> QED BY <1>13, <1>14, <1>18, <1>19 DEF Traced

LEMMA DrainIs ==
  ASSUME PipelineInv, NEW S \in Nat, NEW P \in Nat, Sizes(S, P)
  PROVE  drain = IF sys.queues[S + 1] = <<>> THEN now
                 ELSE after_receive(now, S + 2, Carried(sys, S + 1))
<1> DEFINE returns == waiting(sys, input_cap(Producer(config)))
           Step(f, k) == IF k = 0 THEN now ELSE after_receive(f[k - 1], Producer(config), returns[k].data)
           after == CHOOSE f : f = [k \in 0 .. Len(returns) |-> Step(f, k)]
<1>1. drain = after[Len(returns)]
  BY DEF drain
<1>2. Producer(config) = S + 2 /\ returns = sys.queues[S + 1] /\ QueuesOK(sys) /\ S + 1 \in 0 .. Return(config)
  <2>1. Producer(config) = S + 2 /\ Return(config) = S + 1 /\ S + 2 \in 1 .. S + 2
    BY DEF Sizes
  <2>2. InputOf(config, S + 2) = S + 1
    BY <2>1 DEF InputOf
  <2>3. S + 1 \in 0 .. Return(config)
    BY <2>1
  <2> QED BY <2>1, <2>2, <2>3, ViewsAre, SystemFacts DEF Own
<1>3. CASE sys.queues[S + 1] = <<>>
  <2> DEFINE closed == [k \in 0 .. 0 |-> now]
  <2>1. Len(returns) = 0
    BY <1>2, <1>3
  <2>2. closed = [k \in 0 .. 0 |-> Step(closed, k)]
    <3>1. ASSUME NEW k \in 0 .. 0 PROVE closed[k] = Step(closed, k)
      BY <3>1
    <3> QED BY <3>1
  <2>3. after = [k \in 0 .. 0 |-> Step(after, k)]
    BY <2>1, <2>2
  <2> HIDE DEF after
  <2>4. after[0] = now
    BY <2>3
  <2> QED BY <1>1, <1>3, <2>1, <2>4
<1>4. CASE sys.queues[S + 1] # <<>>
  <2>1. PICK b : b = Carried(sys, S + 1)
    OBVIOUS
  <2>2. Len(returns) = 1 /\ returns[1].data = b
    <3>1. Len(sys.queues[S + 1]) = 1 /\ sys.queues[S + 1] = <<MessageOf(config, sys.epochs, b)>>
      BY <1>2, <1>4, <2>1, OneMessage
    <3>2. sys.queues[S + 1][1] = Head(sys.queues[S + 1])
      BY <3>1
    <3> QED BY <1>2, <2>1, <3>1, <3>2 DEF Carried
  <2>3. PICK then : then = after_receive(now, Producer(config), b)
    OBVIOUS
  <2> DEFINE closed == [k \in 0 .. 1 |-> IF k = 0 THEN now ELSE then]
  <2>4. closed = [k \in 0 .. 1 |-> Step(closed, k)]
    <3>1. ASSUME NEW k \in 0 .. 1 PROVE closed[k] = Step(closed, k)
      <4>1. CASE k = 0
        BY <4>1
      <4>2. CASE k = 1
        <5>1. closed[k - 1] = now
          BY <4>2
        <5> QED BY <2>2, <2>3, <4>2, <5>1
      <4> QED BY <4>1, <4>2
    <3> QED BY <3>1
  <2>5. after = [k \in 0 .. 1 |-> Step(after, k)]
    BY <2>2, <2>4
  <2> HIDE DEF after
  <2>6. after[0] = now /\ after[1] = Step(after, 1)
    BY <2>5
  <2>7. after[1] = then
    BY <2>2, <2>3, <2>6
  <2> QED BY <1>1, <1>2, <1>4, <2>1, <2>2, <2>3, <2>7
<1> QED BY <1>3, <1>4

\* What has come back is received.
LEMMA DrainTraced ==
  ASSUME HandlesSuffice, PipelineInv, NEW S \in Nat, NEW P \in Nat, Sizes(S, P),
         Traced(S, now, sys, next_batch)
  PROVE  Traced(S, drain, drained, next_batch)
<1>0. PICK n \in Nat : \E got, done : Run(S, now, n, got, done) /\ Matches(S, sys, next_batch, got, done)
  BY DEF Traced
<1>1. PICK got, done : Run(S, now, n, got, done) /\ Matches(S, sys, next_batch, got, done)
  BY <1>0
<1>2. /\ drained.queues[S + 1] = <<>>
      /\ \A c \in 0 .. S : drained.queues[c] = sys.queues[c]
  BY ProducerDrained DEF ProducerReady
<1>3. /\ S + 2 \in 1 .. S + 2 /\ S + 2 \in 0 .. S + 2 /\ S + 1 \in 0 .. S + 2 /\ S + 1 \in 0 .. S + 1
      /\ S + 1 + 1 = S + 2 /\ S + 2 - 1 = S + 1
  OBVIOUS
<1>4. \A x \in 0 .. S + 2 : got[x] \in Nat /\ done[x] \in Nat
  BY <1>1, RunCounts
<1>5. Holds(sys, S + 1, got[S + 2], done[S + 1])
  <2>1. Holds(sys, S + 1, got[S + 1 + 1], done[S + 1])
    BY <1>1, <1>3 DEF Matches
  <2> QED BY <1>3, <2>1
<1>6. CASE sys.queues[S + 1] = <<>>
  <2>1. drain = now
    BY <1>6, DrainIs
  <2>2. ASSUME NEW x \in 0 .. S + 1 PROVE drained.queues[x] = sys.queues[x]
    BY <1>2, <1>6
  <2>3. Matches(S, drained, next_batch, got, done)
    BY <1>1, <2>2 DEF Matches, Holds, Carried
  <2> QED BY <1>1, <2>1, <2>3 DEF Traced
<1>7. CASE sys.queues[S + 1] # <<>>
  <2>1. PICK b : b = Carried(sys, S + 1)
    OBVIOUS
  <2>2. drain = after_receive(now, S + 2, b)
    BY <1>7, <2>1, DrainIs
  <2>3. done[S + 1] = got[S + 2] + 1 /\ b = got[S + 2]
    BY <1>5, <1>7, <2>1 DEF Holds
  <2>4. PICK got2 : \A x \in 0 .. S + 2 : got2[x] = IF x = S + 2 THEN got[x] + 1 ELSE got[x]
    <3>1. PICK got2 : OneMoreOf(S, got, S + 2, got2)
      BY OneMoreExists
    <3> QED BY <3>1 DEF OneMoreOf
  <2>5. PICK p \in 1 .. S + 2 : p = S + 2
    BY <1>3
  <2>6. input_cap(p).object = S + 1
    <3>1. InputOf(config, p) = S + 1
      BY <2>5 DEF InputOf, Sizes
    <3> QED BY <3>1, ViewsAre DEF ReadView
  <2>7. PICK j \in 1 .. S + 2 : /\ j = S + 2 /\ j = (IF p = S + 2 THEN S + 2 ELSE S + 2 - p)
                                /\ input_cap(p).object = j - 1 /\ done[j - 1] # got[j]
    BY <1>3, <1>4, <2>3, <2>5, <2>6
  <2>8. Run(S, after_receive(now, p, b), n + 1, got2, done)
    BY <1>1, <2>3, <2>4, <2>7, ReceiveRuns
  <2>9. ASSUME NEW x \in 0 .. S + 1 PROVE Holds(drained, x, got2[x + 1], done[x])
    <3>1. CASE x = S + 1
      <4>1. got2[S + 2] = done[S + 1]
        BY <1>3, <2>3, <2>4
      <4> QED BY <1>2, <1>3, <3>1, <4>1 DEF Holds
    <3>2. CASE x # S + 1
      <4>1. x \in 0 .. S /\ x + 1 \in 0 .. S + 2 /\ x + 1 # S + 2
        BY <3>2
      <4>2. got2[x + 1] = got[x + 1] /\ drained.queues[x] = sys.queues[x]
        BY <1>2, <2>4, <4>1
      <4>3. Holds(sys, x, got[x + 1], done[x])
        BY <1>1 DEF Matches
      <4> QED BY <4>2, <4>3 DEF Holds, Carried
    <3> QED BY <3>1, <3>2
  <2>10. ASSUME NEW x \in 1 .. S + 1 PROVE done[x] = got2[x]
    <3>1. x \in 0 .. S + 2 /\ x # S + 2 /\ done[x] = got[x]
      BY <1>1 DEF Matches
    <3> QED BY <2>4, <3>1
  <2>11. Matches(S, drained, next_batch, got2, done)
    BY <1>1, <2>9, <2>10 DEF Matches
  <2>12. n + 1 \in Nat
    OBVIOUS
  <2> QED BY <2>2, <2>5, <2>8, <2>11, <2>12 DEF Traced
<1> QED BY <1>6, <1>7

LEMMA StartTraced ==
  ASSUME HandlesSuffice, PipelineInv, NEW S \in Nat, NEW P \in Nat, Sizes(S, P),
         Traced(S, now, sys, next_batch), StartsBatch
  PROVE  Traced(S, after_send(drain, Producer(config), next_batch), sys', next_batch')
<1>0. PICK n \in Nat : \E got, done : Run(S, drain, n, got, done) /\ Matches(S, drained, next_batch, got, done)
  BY DrainTraced DEF Traced
<1>1. PICK got, done : Run(S, drain, n, got, done) /\ Matches(S, drained, next_batch, got, done)
  BY <1>0
<1>2. /\ drained.queues[S + 1] = <<>>
      /\ \A c \in 0 .. S : drained.queues[c] = sys.queues[c]
  BY ProducerDrained DEF ProducerReady
<1>3. /\ next_batch' = next_batch + 1
      /\ sys.queues[0] = <<>> /\ sys'.queues[0] # <<>> /\ Carried(sys', 0) = next_batch
      /\ sys'.queues[S + 1] = <<>>
      /\ \A c \in 1 .. S : sys'.queues[c] = sys.queues[c]
  BY DEF StartsBatch, Sizes
<1>4. \A x \in 0 .. S + 2 : got[x] \in Nat /\ done[x] \in Nat
  BY <1>1, RunCounts
<1>5. PICK p \in 1 .. S + 2, j \in 0 .. S + 1 : p = Producer(config) /\ j = 0 /\ j = S + 2 - p /\ j \in 0 .. S + 2
  <2>1. Producer(config) = S + 2
    BY DEF Sizes
  <2>2. S + 2 \in 1 .. S + 2 /\ 0 \in 0 .. S + 1 /\ 0 = S + 2 - (S + 2) /\ 0 \in 0 .. S + 2
    OBVIOUS
  <2> QED BY <2>1, <2>2
<1>6. output_cap(p).object = j
  <2>1. OutputOf(config, p) = j
    BY <1>5 DEF OutputOf, Sizes
  <2> QED BY <2>1, ViewsAre DEF WriteView
<1>7. done[j] = got[j + 1] /\ done[j] = next_batch
  <2>1. drained.queues[0] = <<>>
    <3>1. 0 \in 0 .. S
      OBVIOUS
    <3> QED BY <1>2, <1>3, <3>1
  <2>2. Holds(drained, j, got[j + 1], done[j])
    BY <1>1 DEF Matches
  <2> QED BY <1>1, <1>5, <2>1, <2>2 DEF Holds, Matches
<1>8. PICK done2 : \A x \in 0 .. S + 2 : done2[x] = IF x = j THEN done[x] + 1 ELSE done[x]
  <2>1. PICK done2 : OneMoreOf(S, done, j, done2)
    BY OneMoreExists
  <2> QED BY <2>1 DEF OneMoreOf
<1>9. Run(S, after_send(drain, p, next_batch), n + 1, got, done2)
  BY <1>1, <1>5, <1>6, <1>7, <1>8, SendRuns
<1>10. ASSUME NEW x \in 0 .. S + 1 PROVE Holds(sys', x, got[x + 1], done2[x])
  <2>1. x \in 0 .. S + 2
    OBVIOUS
  <2>2. CASE x = 0
    <3>1. done2[0] = got[0 + 1] + 1 /\ got[0 + 1] = next_batch
      BY <1>5, <1>7, <1>8
    <3> QED BY <1>3, <2>2, <3>1 DEF Holds
  <2>3. CASE x # 0
    <3>1. done2[x] = done[x]
      BY <1>5, <1>8, <2>1, <2>3
    <3>2. sys'.queues[x] = drained.queues[x]
      <4>1. CASE x = S + 1
        BY <1>2, <1>3, <4>1
      <4>2. CASE x # S + 1
        <5>1. x \in 1 .. S /\ x \in 0 .. S
          BY <2>3, <4>2
        <5> QED BY <1>2, <1>3, <5>1
      <4> QED BY <4>1, <4>2
    <3>3. Holds(drained, x, got[x + 1], done[x])
      BY <1>1 DEF Matches
    <3> QED BY <3>1, <3>2, <3>3 DEF Holds, Carried
  <2> QED BY <2>2, <2>3
<1>11. ASSUME NEW x \in 1 .. S + 1 PROVE done2[x] = got[x]
  <2>1. x \in 0 .. S + 2 /\ x # j /\ done[x] = got[x]
    BY <1>1, <1>5 DEF Matches
  <2> QED BY <1>8, <2>1
<1>12. done2[0] = next_batch'
  BY <1>3, <1>5, <1>7, <1>8
<1>13. Matches(S, sys', next_batch', got, done2)
  BY <1>10, <1>11, <1>12 DEF Matches
<1>14. n + 1 \in Nat
  OBVIOUS
<1> QED BY <1>5, <1>9, <1>13, <1>14 DEF Traced

(***************************************************************************)
(* The clocks after boot: the supervisor has counted the children, each of *)
(* which has heard of it alone.                                            *)
(***************************************************************************)

SpawnedStamp(k) ==
  [process |-> 0, lamport |-> k, vector |-> [q \in (IF k = 0 THEN {} ELSE {0}) |-> k]]

ChildStamp(k) ==
  [process |-> k, lamport |-> k + 1, vector |-> [q \in {0, k} |-> IF q = 0 THEN k ELSE 1]]

BootClocks(S, k) ==
  [p \in 0 .. S + 2 |-> IF p = 0 THEN SpawnedStamp(k)
                        ELSE IF p <= k THEN ChildStamp(p) ELSE NewClock(p)]

LEMMA Spawning ==
  ASSUME NEW k \in Nat, k # 0
  PROVE  /\ local_event(SpawnedStamp(k - 1)) = SpawnedStamp(k)
         /\ receive_event(NewClock(k), SpawnedStamp(k)) = ChildStamp(k)
<1>1. ASSUME NEW v, NEW j \in Nat, v = [q \in (IF j = 0 THEN {} ELSE {0}) |-> j]
      PROVE  DOMAIN v = (IF j = 0 THEN {} ELSE {0}) /\ get(v, 0) = j
  <2>1. DOMAIN v = (IF j = 0 THEN {} ELSE {0})
    BY <1>1
  <2>2. CASE j = 0
    BY <2>1, <2>2 DEF get
  <2>3. CASE j # 0
    BY <1>1, <2>1, <2>3 DEF get
  <2> QED BY <2>1, <2>2, <2>3
<1>2. PICK j \in Nat : j = k - 1 /\ j + 1 = k
  OBVIOUS
<1>3. PICK before, now0, child :
        /\ before = [q \in (IF j = 0 THEN {} ELSE {0}) |-> j]
        /\ now0 = [q \in (IF k = 0 THEN {} ELSE {0}) |-> k]
        /\ child = [q \in {0, k} |-> IF q = 0 THEN k ELSE 1]
  OBVIOUS
<1>4. DOMAIN before = (IF j = 0 THEN {} ELSE {0}) /\ get(before, 0) = j
  BY <1>1, <1>3
<1>5. DOMAIN now0 = {0} /\ get(now0, 0) = k
  BY <1>1, <1>3
<1>6. tick(before, 0) = now0
  <2>1. tick(before, 0) = [q \in {0} |-> get(before, q) + (IF q = 0 THEN 1 ELSE 0)]
    <3>1. DOMAIN before \union {0} = {0}
      BY <1>4
    <3> QED BY <3>1 DEF tick
  <2>2. \A q \in {0} : get(before, q) + (IF q = 0 THEN 1 ELSE 0) = k
    BY <1>2, <1>4
  <2>3. now0 = [q \in {0} |-> k]
    BY <1>3
  <2> QED BY <2>1, <2>2, <2>3
<1>7. merge(NoEntries, now0) = now0
  <2>1. DOMAIN NoEntries = {} /\ \A q : get(NoEntries, q) = 0
    BY DEF NoEntries, get
  <2>2. merge(NoEntries, now0)
          = [q \in {0} |-> IF get(NoEntries, q) < get(now0, q) THEN get(now0, q) ELSE get(NoEntries, q)]
    <3>1. DOMAIN NoEntries \union DOMAIN now0 = {0}
      BY <1>5, <2>1
    <3> QED BY <3>1 DEF merge
  <2>3. \A q \in {0} : (IF get(NoEntries, q) < get(now0, q) THEN get(now0, q) ELSE get(NoEntries, q)) = k
    BY <1>5, <2>1
  <2>4. now0 = [q \in {0} |-> k]
    BY <1>3
  <2> QED BY <2>2, <2>3, <2>4
<1>8. tick(now0, k) = child
  <2>1. tick(now0, k) = [q \in {0, k} |-> get(now0, q) + (IF q = k THEN 1 ELSE 0)]
    <3>1. DOMAIN now0 \union {k} = {0, k}
      BY <1>5
    <3> QED BY <3>1 DEF tick
  <2>2. get(now0, k) = 0
    BY <1>5 DEF get
  <2>3. \A q \in {0, k} : get(now0, q) + (IF q = k THEN 1 ELSE 0) = IF q = 0 THEN k ELSE 1
    BY <1>5, <2>2
  <2> QED BY <1>3, <2>1, <2>3
<1>9. local_event(SpawnedStamp(k - 1)) = SpawnedStamp(k)
  <2>1. SpawnedStamp(k - 1) = [process |-> 0, lamport |-> j, vector |-> before]
    BY <1>2, <1>3 DEF SpawnedStamp
  <2>2. SpawnedStamp(k) = [process |-> 0, lamport |-> j + 1, vector |-> now0]
    BY <1>2, <1>3 DEF SpawnedStamp
  <2> QED BY <1>6, <2>1, <2>2 DEF local_event, lamport_tick
<1>10. receive_event(NewClock(k), SpawnedStamp(k)) = ChildStamp(k)
  <2>1. SpawnedStamp(k) = [process |-> 0, lamport |-> k, vector |-> now0]
    BY <1>3 DEF SpawnedStamp
  <2>2. ChildStamp(k) = [process |-> k, lamport |-> k + 1, vector |-> child]
    BY <1>3 DEF ChildStamp
  <2>3. NewClock(k) = [process |-> k, lamport |-> 0, vector |-> NoEntries]
    BY DEF NewClock
  <2>4. lamport_observe(0, k) = k + 1
    BY DEF lamport_observe
  <2> QED BY <1>7, <1>8, <2>1, <2>2, <2>3, <2>4 DEF receive_event
<1> QED BY <1>9, <1>10

LEMMA BornIs ==
  ASSUME NEW S \in Nat, NEW k \in 1 .. S + 2
  PROVE  born(BootClocks(S, k - 1), k) = BootClocks(S, k)
<1>1. PICK before, after : before = BootClocks(S, k - 1) /\ after = BootClocks(S, k)
  OBVIOUS
<1>2. PICK spawned_at, received_at : spawned_at = SpawnedStamp(k) /\ received_at = ChildStamp(k)
  OBVIOUS
<1>3. before[0] = SpawnedStamp(k - 1) /\ before[k] = NewClock(k) /\ DOMAIN before = 0 .. S + 2
  BY <1>1 DEF BootClocks
<1>4. local_event(before[0]) = spawned_at /\ receive_event(before[k], spawned_at) = received_at
  BY <1>2, <1>3, Spawning
<1>5. born(before, k) = [before EXCEPT ![0] = spawned_at, ![k] = received_at]
  BY <1>4 DEF born, Supervisor
<1>6. \A p \in 0 .. S + 2 : after[p] = IF p = k THEN received_at ELSE IF p = 0 THEN spawned_at ELSE before[p]
  <2>1. \A p \in 0 .. S + 2 : after[p] = IF p = 0 THEN spawned_at
                                         ELSE IF p <= k THEN ChildStamp(p) ELSE NewClock(p)
    BY <1>1, <1>2 DEF BootClocks
  <2>2. \A p \in 0 .. S + 2 : p # 0 => before[p] = IF p <= k - 1 THEN ChildStamp(p) ELSE NewClock(p)
    BY <1>1 DEF BootClocks
  <2> QED BY <1>2, <2>1, <2>2
<1>7. after = [p \in 0 .. S + 2 |-> after[p]]
  BY <1>1 DEF BootClocks
<1>8. [before EXCEPT ![0] = spawned_at, ![k] = received_at]
        = [p \in 0 .. S + 2 |-> IF p = k THEN received_at ELSE IF p = 0 THEN spawned_at ELSE before[p]]
  BY <1>3
<1> QED BY <1>1, <1>5, <1>6, <1>7, <1>8

LEMMA ClocksAtBoot ==
  ASSUME NEW S \in Nat, NEW P \in Nat, Sizes(S, P), TraceInit
  PROVE  clock = BootClocks(S, S + 2)
<1> DEFINE unborn == [p \in 0 .. Producer(config) |-> NewClock(p)]
           Step(f, k) == IF k = 0 THEN unborn ELSE born(f[k - 1], k)
           closed == [k \in 0 .. S + 2 |-> BootClocks(S, k)]
           after == CHOOSE f : f = [k \in 0 .. Producer(config) |-> Step(f, k)]
<1>0. Producer(config) = S + 2
  BY DEF Sizes
<1>1. unborn = BootClocks(S, 0)
  <2>1. NewClock(0) = SpawnedStamp(0)
    <3>1. NoEntries = [q \in (IF 0 = 0 THEN {} ELSE {0}) |-> 0]
      BY DEF NoEntries
    <3> QED BY <3>1 DEF NewClock, SpawnedStamp
  <2>2. \A p \in 0 .. S + 2 : NewClock(p) = IF p = 0 THEN SpawnedStamp(0)
                                             ELSE IF p <= 0 THEN ChildStamp(p) ELSE NewClock(p)
    BY <2>1
  <2> QED BY <1>0, <2>2 DEF BootClocks
<1> HIDE DEF unborn
<1>3. closed = [k \in 0 .. S + 2 |-> Step(closed, k)]
  <2>1. ASSUME NEW k \in 0 .. S + 2
        PROVE  closed[k] = Step(closed, k)
    <3>1. CASE k = 0
      BY <1>1, <3>1
    <3>2. CASE k # 0
      <4>1. k \in 1 .. S + 2 /\ k - 1 \in 0 .. S + 2
        BY <3>2
      <4>2. closed[k - 1] = BootClocks(S, k - 1) /\ closed[k] = BootClocks(S, k)
        BY <4>1
      <4> QED BY <3>2, <4>1, <4>2, BornIs
    <3> QED BY <3>1, <3>2
  <2> QED BY <2>1
<1>4. after = [k \in 0 .. S + 2 |-> Step(after, k)]
  BY <1>0, <1>3
<1>5. clock = after[S + 2]
  BY <1>0 DEF TraceInit, unborn
<1> HIDE DEF after
<1>6. \A k \in 0 .. S + 2 : after[k] = BootClocks(S, k)
  <2> DEFINE Wrong == {k \in 0 .. S + 2 : after[k] # BootClocks(S, k)}
  <2>1. ASSUME NEW k \in Wrong, \A j \in Wrong : k <= j
        PROVE  FALSE
    <3>1. CASE k = 0
      BY <1>1, <1>4, <2>1, <3>1
    <3>2. CASE k # 0
      <4>1. k \in 1 .. S + 2 /\ k - 1 \in 0 .. S + 2 /\ ~(k <= k - 1)
        BY <3>2
      <4>2. after[k - 1] = BootClocks(S, k - 1)
        BY <2>1, <4>1
      <4>3. after[k] = born(after[k - 1], k)
        BY <1>4, <3>2
      <4> QED BY <4>1, <4>2, <4>3, BornIs
    <3> QED BY <3>1, <3>2
  <2>2. Wrong \in SUBSET Nat
    OBVIOUS
  <2> QED BY <2>1, <2>2, BP!LeastOf, PipelineAssumption
<1>7. S + 2 \in 0 .. S + 2
  OBVIOUS
<1> QED BY <1>5, <1>6, <1>7

LEMMA BootTraced ==
  ASSUME HandlesSuffice, TraceInit, NEW S \in Nat, NEW P \in Nat, Sizes(S, P)
  PROVE  Traced(S, now, sys, next_batch)
<1>1. /\ clock = BootClocks(S, S + 2) /\ trace = <<>> /\ next_batch = 0
      /\ sent_at = [ch \in 0 .. S + 1 |-> <<>>]
      /\ sys.queues = [o \in 0 .. S + 1 |-> <<>>]
  <2>1. Init /\ trace = <<>> /\ sent_at = [ch \in 0 .. S + 1 |-> <<>>]
    BY DEF TraceInit, Sizes
  <2>2. BootDone(sys, S, P) /\ next_batch = 0
    BY <2>1, InitFields DEF Init
  <2> QED BY <2>1, <2>2, ClocksAtBoot DEF BootDone
<1>2. now.clock = clock /\ now.sent_at = sent_at /\ now.trace = <<>>
  BY <1>1 DEF now
<1>3. PICK zero : zero = [x \in 0 .. S + 2 |-> 0]
  OBVIOUS
<1>4. \A x \in 0 .. S + 2 : zero[x] = 0
  BY <1>3
<1>5. \A k \in 1 .. 0 : FALSE
  OBVIOUS
<1>6. Log(S, now.trace, 0, zero, zero)
  <2>1. Counts(S, zero, zero)
    <3>1. \A x \in 0 .. S + 2 : zero[x] \in Nat
      BY <1>4
    <3>2. \A x \in 1 .. S + 1 : zero[x] <= zero[x]
      BY <1>4
    <3>3. \A i \in 0 .. S + 1, j \in 1 .. S + 2 : i < j => zero[j] <= zero[i]
      BY <1>4
    <3> QED BY <3>1, <3>2, <3>3 DEF Counts
  <2>2. Entries(S, now.trace, 0, zero, zero)
    <3>1. DOMAIN now.trace = 1 .. 0
      BY <1>2
    <3>2. \A x \in 0 .. S + 2, b \in Nat : ~(b < zero[x])
      BY <1>4
    <3>3. /\ \A x \in 0 .. S + 1, b \in Nat : ~(b < zero[x])
          /\ \A x \in 1 .. S + 2, b \in Nat : ~(b < zero[x])
      BY <3>2
    <3> QED BY <1>5, <3>1, <3>3 DEF Entries
  <2> QED BY <1>5, <2>1, <2>2 DEF Log, InTurn
<1>7. Listed(now.trace)
  BY <1>2 DEF Listed
<1>8. \A p \in 1 .. S + 2 : now.clock[p] = ChildStamp(p)
  BY <1>1, <1>2 DEF BootClocks
<1>9. DOMAIN now.clock = 0 .. S + 2
  BY <1>1, <1>2 DEF BootClocks
<1>10. ASSUME NEW p \in 1 .. S + 2
       PROVE  /\ IsClock(now.clock[p], p)
              /\ \A q \in 1 .. S + 2 \ {p} : get(now.clock[p].vector, q) = 0
  <2>1. PICK v : v = [q \in {0, p} |-> IF q = 0 THEN p ELSE 1]
    OBVIOUS
  <2>2. now.clock[p] = [process |-> p, lamport |-> p + 1, vector |-> v]
    BY <1>8, <2>1 DEF ChildStamp
  <2>3. DOMAIN v = {0, p} /\ v \in [DOMAIN v -> Nat]
    BY <2>1
  <2>4. \A q \in 1 .. S + 2 \ {p} : get(v, q) = 0
    BY <2>3 DEF get
  <2> QED BY <2>2, <2>3, <2>4 DEF IsClock, IsVector
<1>11. AreClocks(S, now.clock)
  BY <1>10 DEF AreClocks
<1>12. Stamps(S, now.trace, 0, now.clock)
  BY <1>5 DEF Stamps
<1>13. Current(S, now.trace, 0, now.clock)
  BY <1>5, <1>10 DEF Current
<1>14. Mail(S, now.trace, 0, now.sent_at, zero, zero)
  <2>1. ASSUME NEW j \in 0 .. S + 1
        PROVE  Box(S, now.trace, 0, j, now.sent_at[j], zero[j + 1], zero[j])
    <3>1. j \in 0 .. S + 2 /\ j + 1 \in 0 .. S + 2
      OBVIOUS
    <3>2. zero[j + 1] = 0 /\ zero[j] = 0
      BY <1>4, <3>1
    <3>3. now.sent_at[j] = <<>>
      BY <1>1, <1>2
    <3> QED BY <3>2, <3>3 DEF Box
  <2> QED BY <2>1 DEF Mail
<1>15. DOMAIN now.sent_at = 0 .. S + 1
  BY <1>1, <1>2
<1>16. Run(S, now, 0, zero, zero)
  BY <1>6, <1>7, <1>9, <1>11, <1>12, <1>13, <1>14, <1>15 DEF Run, Faithful
<1>17. Matches(S, sys, next_batch, zero, zero)
  <2>1. ASSUME NEW j \in 0 .. S + 1 PROVE Holds(sys, j, zero[j + 1], zero[j])
    <3>1. j \in 0 .. S + 2 /\ j + 1 \in 0 .. S + 2
      OBVIOUS
    <3>2. zero[j + 1] = 0 /\ zero[j] = 0
      BY <1>4, <3>1
    <3>3. sys.queues[j] = <<>>
      BY <1>1
    <3> QED BY <3>2, <3>3 DEF Holds
  <2>2. zero[0] = next_batch
    BY <1>1, <1>4
  <2>3. \A j \in 1 .. S + 1 : zero[j] = zero[j]
    OBVIOUS
  <2> QED BY <2>1, <2>2, <2>3 DEF Matches
<1> QED BY <1>16, <1>17 DEF Traced

\* The invariant of the run with its clocks.
TraceInv == PipelineInv /\ Traced(config.stages, now, sys, next_batch)

LEMMA BootsTraced ==
  ASSUME HandlesSuffice, TraceInit
  PROVE  TraceInv
<1>1. PipelineInv
  BY BootsIntoInv DEF TraceInit
<1>2. PICK S \in Nat, P \in Nat : Sizes(S, P)
  BY <1>1, InvConfig, SizesExist
<1>3. Traced(S, now, sys, next_batch)
  BY <1>2, BootTraced
<1> QED BY <1>1, <1>2, <1>3 DEF TraceInv, Sizes

\* What a run says is in its three fields.
LEMMA TracedFields ==
  ASSUME NEW S, NEW run, NEW s, NEW b, Traced(S, run, s, b), NEW copy,
         copy.clock = run.clock, copy.sent_at = run.sent_at, copy.trace = run.trace
  PROVE  Traced(S, copy, s, b)
<1>0. PICK n \in Nat : \E got, done : Run(S, run, n, got, done) /\ Matches(S, s, b, got, done)
  BY DEF Traced
<1>1. PICK got, done : Run(S, run, n, got, done) /\ Matches(S, s, b, got, done)
  BY <1>0
<1>2. Faithful(S, copy, n, got, done)
  BY <1>1 DEF Run, Faithful
<1>3. Run(S, copy, n, got, done)
  BY <1>1, <1>2 DEF Run
<1> QED BY <1>1, <1>3 DEF Traced

LEMMA BecomesNow ==
  ASSUME NEW run, Becomes(run), NEW S, config'.stages = S, Traced(S, run, sys', next_batch')
  PROVE  Traced(config.stages, now, sys, next_batch)'
<1>1. PICK copy : copy = [clock |-> run.clock, sent_at |-> run.sent_at, trace |-> run.trace]
  OBVIOUS
<1>2. now' = copy
  BY <1>1 DEF now, Becomes
<1>3. Traced(S, copy, sys', next_batch')
  <2>1. copy.clock = run.clock /\ copy.sent_at = run.sent_at /\ copy.trace = run.trace
    BY <1>1
  <2> QED BY <2>1, TracedFields
<1> QED BY <1>2, <1>3 DEF Traced, Run, Faithful


\* Nothing of the run has changed.
LEMMA StandsStill ==
  ASSUME TraceInv, UNCHANGED clockVars, config' = config, sys' = sys, next_batch' = next_batch
  PROVE  Traced(config.stages, now, sys, next_batch)'
<1>1. now' = now
  BY DEF now, clockVars
<1>2. PICK S : S = config.stages /\ Traced(S, now, sys, next_batch)
  BY DEF TraceInv
<1> QED BY <1>1, <1>2 DEF Traced, Run, Faithful

LEMMA IdleStands ==
  ASSUME PipelineInv, NEW S \in Nat, NEW P \in Nat, Sizes(S, P), NEW p \in 1 .. S + 1, StageIdle(p)
  PROVE  config' = config /\ sys' = sys /\ next_batch' = next_batch
<1>0. PICK i \in 0 .. S : i = S + 1 - p /\ i \in 0 .. S + 1 /\ p \in 1 .. S + 2 /\ p \in 0 .. S + 2
  OBVIOUS
<1>1. InputOf(config, p) = i
  BY <1>0 DEF InputOf, Sizes
<1>2. input_cap(p) = ReadView(i) /\ waiting(sys, input_cap(p)) = sys.queues[i]
  BY <1>0, <1>1, ViewsAre
<1>3. sys.queues[i] = <<>>
  BY <1>2 DEF StageIdle
<1>4. received(p) = sys
  <2>1. i \in DOMAIN sys.epochs /\ sys.epochs[i] = 0 /\ i \in DOMAIN sys.queues
    BY <1>0, SystemFacts
  <2> QED BY <1>2, <1>3, <2>1, FetchingNone DEF received
<1> QED BY <1>4 DEF StageIdle, Turn

LEMMA TraceSteps ==
  ASSUME HandlesSuffice, TraceInv, TraceNext
  PROVE  TraceInv'
<1>1. PICK S \in Nat, P \in Nat : Sizes(S, P) /\ config.stages = S
  BY InvConfig, SizesExist DEF TraceInv, Sizes
<1>2. PipelineInv /\ Traced(S, now, sys, next_batch)
  BY <1>1 DEF TraceInv
<1>3. PipelineInv'
  <2>1. Next
    BY DEF TraceNext, Next
  <2> QED BY <1>2, <2>1, PipelineSteps
<1>4. CASE SupervisorTurn /\ UNCHANGED clockVars
  <2>1. config' = config /\ sys' = sys /\ next_batch' = next_batch
    BY <1>4 DEF SupervisorTurn, Turn
  <2> QED BY <1>3, <1>4, <2>1, StandsStill DEF TraceInv
<1>5. ASSUME NEW p \in Stages, StageIdle(p), UNCHANGED clockVars
      PROVE  Traced(config.stages, now, sys, next_batch)'
  <2>1. p \in 1 .. S + 1
    BY <1>1 DEF Stages
  <2>2. config' = config /\ sys' = sys /\ next_batch' = next_batch
    BY <1>1, <1>2, <1>5, <2>1, IdleStands
  <2> QED BY <1>5, <2>2, StandsStill
<1>6. ASSUME NEW p \in Stages \ {Sink}, TransformerTurn(p), Becomes(hop(p))
      PROVE  Traced(config.stages, now, sys, next_batch)'
  <2>1. p \in 2 .. S + 1 /\ p \in 1 .. S + 1
    BY <1>1 DEF Stages, Sink
  <2>2. PICK i \in 0 .. S + 1, o \in 0 .. S + 1 : i = S + 1 - p /\ o = S + 2 - p
    BY <2>1
  <2>3. PassesOn(p, i, o)
    BY <1>1, <1>2, <1>6, <2>1, <2>2, TransformerStep
  <2>4. Traced(S, hop(p), sys', next_batch')
    BY <1>1, <1>2, <2>1, <2>2, <2>3, HopTraced
  <2> QED BY <1>1, <1>6, <2>3, <2>4, BecomesNow DEF PassesOn
<1>7. CASE SinkTurn /\ Becomes(hop(Sink))
  <2>1. PICK p \in 1 .. S + 1, i \in 0 .. S + 1, o \in 0 .. S + 1 :
          p = Sink /\ p = 1 /\ i = S /\ o = S + 1 /\ i = S + 1 - p /\ o = S + 2 - p
    BY DEF Sink
  <2>2. PassesOn(p, i, o)
    BY <1>1, <1>2, <1>7, <2>1, SinkStep
  <2>3. Traced(S, hop(p), sys', next_batch')
    BY <1>1, <1>2, <2>1, <2>2, HopTraced
  <2>4. config'.stages = S /\ Becomes(hop(p))
    BY <1>1, <1>7, <2>1, <2>2 DEF PassesOn
  <2> QED BY <1>3, <2>3, <2>4, BecomesNow DEF TraceInv
<1>8. CASE ProducerSends /\ Becomes(after_send(drain, Producer(config), next_batch))
  <2>1. StartsBatch
    BY <1>1, <1>2, <1>8, ProducerSendsStep
  <2>2. Traced(S, after_send(drain, Producer(config), next_batch), sys', next_batch')
    BY <1>1, <1>2, <2>1, StartTraced
  <2>3. config'.stages = S
    BY <1>1, <2>1 DEF StartsBatch
  <2>4. PICK run : run = after_send(drain, Producer(config), next_batch)
    OBVIOUS
  <2>5. Becomes(run) /\ Traced(S, run, sys', next_batch')
    BY <1>8, <2>2, <2>4
  <2> QED BY <1>3, <2>3, <2>5, BecomesNow DEF TraceInv
<1>9. CASE ProducerOnlyDrains /\ Becomes(drain)
  <2>1. config' = config /\ sys' = drained /\ next_batch' = next_batch
    BY <1>9 DEF ProducerOnlyDrains, Turn
  <2>2. Traced(S, drain, drained, next_batch)
    BY <1>1, <1>2, DrainTraced
  <2>3. config'.stages = S
    BY <1>1, <2>1
  <2>4. PICK run : run = drain
    OBVIOUS
  <2>5. Traced(S, run, sys', next_batch')
    BY <2>1, <2>2, <2>4
  <2>6. Becomes(run)
    BY <1>9, <2>4
  <2> QED BY <1>3, <2>3, <2>5, <2>6, BecomesNow DEF TraceInv
<1> QED BY <1>3, <1>4, <1>5, <1>6, <1>7, <1>8, <1>9 DEF TraceNext, TraceInv

LEMMA TraceStutters ==
  ASSUME TraceInv, UNCHANGED traceVars
  PROVE  TraceInv'
<1>1. UNCHANGED vars /\ UNCHANGED clockVars
  BY DEF traceVars
<1>2. config' = config /\ sys' = sys /\ next_batch' = next_batch
  BY <1>1 DEF vars
<1>3. PipelineInv'
  BY <1>1, PipelineStutters DEF TraceInv
<1> QED BY <1>1, <1>2, <1>3, StandsStill DEF TraceInv

\* Of two stamps of the log, one precedes the other exactly when the other was told.
LEMMA StampsTell ==
  ASSUME NEW S \in Nat, NEW tr, NEW n \in Nat, \A k \in 1 .. n : IsEvent(S, tr[k]),
         NEW clocks, Stamps(S, tr, n, clocks), NEW k \in 1 .. n, NEW l \in 1 .. n
  PROVE  /\ happened_before(tr[k].stamp, tr[l].stamp) <=> Told(S, tr, l, k)
         /\ Told(S, tr, l, k) => KeyLess(tr[k].stamp, tr[l].stamp)
<1>1. IsEvent(S, tr[k]) /\ IsEvent(S, tr[l])
  OBVIOUS
<1>2. \A q : Entry(tr, k, q) \in Nat /\ Entry(tr, l, q) \in Nat
  BY <1>1, EntryNat
<1>3. tr[k].stamp.lamport \in Nat /\ tr[l].stamp.lamport \in Nat
  BY <1>1, EntryNat
<1>4. PICK p \in 1 .. S + 2, q \in 1 .. S + 2 : p = tr[k].role /\ q = tr[l].role
  BY <1>1 DEF IsEvent
<1>5. happened_before(tr[k].stamp, tr[l].stamp)
        <=> (\A x : Entry(tr, k, x) <= Entry(tr, l, x)) /\ \E x : Entry(tr, k, x) < Entry(tr, l, x)
  <2>1. IsVector(tr[k].stamp.vector) /\ IsVector(tr[l].stamp.vector)
    BY <1>1 DEF IsEvent, IsClock
  <2>2. PICK v, w : v = tr[k].stamp.vector /\ w = tr[l].stamp.vector
    OBVIOUS
  <2>3. compare(v, w) = "Before" <=> (\A x : get(v, x) <= get(w, x)) /\ \E x : get(v, x) < get(w, x)
    BY <2>1, <2>2, Precedes
  <2> QED BY <2>2, <2>3 DEF happened_before, Entry
<1>6. /\ Entry(tr, k, p) <= Entry(tr, l, p) <=> k = l \/ Told(S, tr, l, k)
      /\ Entry(tr, l, q) <= Entry(tr, k, q) <=> l = k \/ Told(S, tr, k, l)
  BY <1>4 DEF Stamps
<1>7. /\ Told(S, tr, l, k) => Covers(tr[l].stamp, tr, k)
      /\ Told(S, tr, k, l) => Covers(tr[k].stamp, tr, l)
  BY DEF Stamps
<1>8. ASSUME Told(S, tr, l, k)
      PROVE  /\ \A x : Entry(tr, k, x) <= Entry(tr, l, x)
             /\ tr[k].stamp.lamport < tr[l].stamp.lamport
  BY <1>7, <1>8 DEF Covers, Entry
<1>9. ASSUME Told(S, tr, l, k) PROVE \E x : Entry(tr, k, x) < Entry(tr, l, x)
  <2>1. k # l
    BY <1>3, <1>8, <1>9
  <2>2. ~Told(S, tr, k, l)
    <3>1. Told(S, tr, k, l) => tr[l].stamp.lamport < tr[k].stamp.lamport
      BY <1>7 DEF Covers
    <3> QED BY <1>3, <1>8, <1>9, <3>1
  <2>3. ~(Entry(tr, l, q) <= Entry(tr, k, q))
    BY <1>6, <2>1, <2>2
  <2>4. Entry(tr, k, q) < Entry(tr, l, q)
    BY <1>2, <2>3
  <2> QED BY <2>4
<1>10. ASSUME happened_before(tr[k].stamp, tr[l].stamp) PROVE Told(S, tr, l, k)
  <2>1. (\A x : Entry(tr, k, x) <= Entry(tr, l, x)) /\ \E x : Entry(tr, k, x) < Entry(tr, l, x)
    BY <1>5, <1>10
  <2>2. k # l
    <3>1. PICK x : Entry(tr, k, x) < Entry(tr, l, x)
      BY <2>1
    <3>2. Entry(tr, k, x) \in Nat
      BY <1>2
    <3> QED BY <3>1, <3>2
  <2> QED BY <1>6, <2>1, <2>2
<1>11. Told(S, tr, l, k) => KeyLess(tr[k].stamp, tr[l].stamp)
  BY <1>8 DEF KeyLess
<1>12. Told(S, tr, l, k) => happened_before(tr[k].stamp, tr[l].stamp)
  BY <1>5, <1>8, <1>9
<1> QED BY <1>10, <1>11, <1>12

\* The stamps of any trace of the run, finished or not, tell the schedule.
LEMMA InvMeansStamps ==
  ASSUME TraceInv
  PROVE  StampsTellTheSchedule
<1>1. PICK S \in Nat, P \in Nat : Sizes(S, P) /\ config.stages = S /\ Producer(config) = S + 2
  BY InvConfig, SizesExist DEF TraceInv, Sizes
<1>0. PICK n \in Nat : \E got, done : Run(S, now, n, got, done)
  BY <1>1 DEF TraceInv, Traced
<1>2. PICK got, done : Run(S, now, n, got, done)
  BY <1>0
<1>3. now.trace = trace
  BY DEF now
<1>4. /\ DOMAIN trace = 1 .. n /\ \A k \in 1 .. n : IsEvent(S, trace[k])
      /\ Stamps(S, trace, n, now.clock)
  BY <1>2, <1>3 DEF Run, Faithful, Log, Entries
<1>5. \A e : Place(e) = Spot(S, e)
  BY <1>1 DEF Place, Spot
<1>6. \A b, c : ReturnedBefore(b, c) <=> Back(S, trace, b, c)
  BY <1>1, <1>5 DEF ReturnedBefore, Back
<1>7. \A k, l : Knows(l, k) <=> Told(S, trace, l, k)
  BY <1>5, <1>6 DEF Knows, Told
<1>8. ASSUME NEW k \in DOMAIN trace, NEW l \in DOMAIN trace
      PROVE  /\ happened_before(trace[k].stamp, trace[l].stamp) <=> Knows(l, k)
             /\ Knows(l, k) => KeyLess(trace[k].stamp, trace[l].stamp)
  <2>1. PICK tr : tr = trace
    OBVIOUS
  <2>2. /\ happened_before(tr[k].stamp, tr[l].stamp) <=> Told(S, tr, l, k)
        /\ Told(S, tr, l, k) => KeyLess(tr[k].stamp, tr[l].stamp)
    BY <1>4, <2>1, StampsTell
  <2> QED BY <1>7, <2>1, <2>2
<1> QED BY <1>8 DEF StampsTellTheSchedule

\* With enough handles, for every configuration: of any two events of the trace, the
\* stamps say that one happened before the other exactly when the schedule let the
\* other know of it, and then the order of `total_order_key` agrees.
THEOREM TraceTellsTheSchedule ==
  ASSUME HandlesSuffice
  PROVE  TraceSpec => []StampsTellTheSchedule
<1>1. TraceInit => TraceInv
  BY BootsTraced
<1>2. TraceInv /\ [TraceNext]_traceVars => TraceInv'
  BY TraceSteps, TraceStutters
<1>3. TraceInv => StampsTellTheSchedule
  BY InvMeansStamps
<1> QED BY <1>1, <1>2, <1>3, PTL DEF TraceSpec
=============================================================================
