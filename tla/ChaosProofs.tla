---------------------------- MODULE ChaosProofs -----------------------------
(* Theorems of Chaos.tla: kernel and model agree on every answer and every  *)
(* state, for any number of processes, regions and messages, and the harness*)
(* complains exactly when its model was tampered with.                      *)
EXTENDS Chaos, CapabilityLemmas, FiniteSetTheorems, WellFoundedInduction, TLAPS

\* No handle counter wraps: not at boot, nor within the bound of the runs.
HandlesSuffice ==
  /\ MaxHandles < HandleSpace
  /\ CHANNELS + BootRegions < HandleSpace

(***************************************************************************)
(* The inductive invariant: what it is for a system s and a model w to say *)
(* the same, part by part.                                                 *)
(***************************************************************************)

Bytes == UNION {[0 .. n - 1 -> Byte] : n \in 0 .. UsizeValues - 1}
RegionModel == [alive : BOOLEAN, epoch : Nat, bytes : Bytes]
Living(regions) == {r \in DOMAIN regions : regions[r].alive}

ObjectsOK(epochs, regions, modelled) ==
  /\ \E m \in Nat : DOMAIN modelled = CHANNELS .. CHANNELS + m - 1
  /\ \A r \in DOMAIN modelled : modelled[r] \in RegionModel
  /\ DOMAIN regions = Living(modelled)
  /\ DOMAIN epochs = Channel \union Living(modelled)
  /\ \A c \in Channel : epochs[c] = 0
  /\ \A r \in Living(modelled) : epochs[r] = modelled[r].epoch /\ regions[r] = modelled[r].bytes

\* Capabilities for channels and for the objects dom: those of channels never stale.
CapsOf(dom) == {cap \in Capability(Channel \union dom) : cap.object \in Channel => cap.epoch = 0}

\* Handles are below the counter, and one is for channel c.
TableOK(dom, table, next) ==
  /\ table \in [DOMAIN table -> CapsOf(dom)]
  /\ next \in 0 .. HandleSpace - 1
  /\ DOMAIN table \subseteq 0 .. next - 1
  /\ \A c \in Channel : \E h \in DOMAIN table :
       /\ table[h].object = c /\ ChannelView \subseteq table[h].rights
       /\ \A g \in DOMAIN table : table[g].object = c => g = h

TablesOK(dom, tables, next) ==
  /\ \E n \in Nat \ {0} : DOMAIN tables = 0 .. n - 1 /\ DOMAIN next = 0 .. n - 1
  /\ \A p \in DOMAIN tables : TableOK(dom, tables[p], next[p])

\* A model's message, and the message it is the model of. No channel ever travels.
MessageModel(dom) == [sender : Nat, caps : Seq(Capability(dom))]
Shown(messages) ==
  [k \in DOMAIN messages |-> [data |-> messages[k].sender, caps |-> messages[k].caps]]

FlightOK(dom, queues, in_flight) ==
  /\ DOMAIN queues = Channel /\ DOMAIN in_flight = Channel
  /\ \A c \in Channel : /\ in_flight[c] \in Seq(MessageModel(dom))
                        /\ queues[c] = Shown(in_flight[c])

StashOK(dom, held, kept) ==
  /\ kept = {<<h[2], h[2]>> : h \in held}
  /\ \A h \in held : h[2] \in CapsOf(dom)

SysFields == {"epochs", "tables", "next_handle", "queues", "regions", "held", "failed"}
WorldFields == {"regions", "procs", "in_flight"}

Exact(s, w, kept) ==
  /\ DOMAIN s = SysFields /\ s.failed = FALSE /\ DOMAIN w = WorldFields
  /\ ObjectsOK(s.epochs, s.regions, w.regions)
  /\ w.procs = s.tables
  /\ TablesOK(DOMAIN w.regions, s.tables, s.next_handle)
  /\ FlightOK(DOMAIN w.regions, s.queues, w.in_flight)
  /\ StashOK(DOMAIN w.regions, s.held, kept)

ChaosInv ==
  /\ fault \in {"pending", "injected"} /\ FailsExactlyOnFault
  /\ failure = "none" => Exact(sys, model, stash)

(***************************************************************************)
(* What the model predicts.                                                *)
(***************************************************************************)

LEMMA ChannelsAndRegions ==
  ASSUME NEW epochs, NEW regions, NEW modelled, ObjectsOK(epochs, regions, modelled)
  PROVE  /\ \A r \in DOMAIN modelled : r \in Nat /\ r \notin Channel
         /\ Living(modelled) \subseteq DOMAIN modelled
<1>1. PICK m \in Nat : DOMAIN modelled = CHANNELS .. CHANNELS + m - 1
  BY DEF ObjectsOK
<1> QED BY <1>1, ChaosAssumption DEF Channel, Living

LEMMA CapFields ==
  ASSUME NEW dom, NEW cap \in CapsOf(dom)
  PROVE  /\ cap.object \in Channel \union dom /\ cap.rights \in Rights /\ cap.epoch \in Nat
         /\ cap.object \in Channel => cap.epoch = 0
         /\ cap \in Capability(Channel \union dom)
BY DEF CapsOf, Capability

LEMMA RegionCapIs ==
  ASSUME NEW dom, NEW cap \in Capability(dom), dom \intersect Channel = {}
  PROVE  cap \in CapsOf(dom) /\ cap.object \in dom /\ cap.object \notin Channel
BY DEF CapsOf, Capability

LEMMA IsRegionCap ==
  ASSUME NEW dom, NEW cap \in CapsOf(dom), cap.object \notin Channel
  PROVE  cap \in Capability(dom)
BY DEF CapsOf, Capability

\* `predict_check` predicts `Kernel::check`.
LEMMA Predicts ==
  ASSUME NEW epochs, NEW regions, NEW w, ObjectsOK(epochs, regions, w.regions),
         NEW cap \in CapsOf(DOMAIN w.regions), NEW required
  PROVE  /\ check(epochs, cap, required) = predict_check(w, cap, required)
         /\ predict_check(w, cap, required) = "Ok" => Live(epochs, cap) /\ required \subseteq cap.rights
<1>1. /\ cap.object \in Channel \union DOMAIN w.regions
      /\ cap.object \in Channel => cap.epoch = 0
  BY CapFields
<1>2. \A r \in DOMAIN w.regions : r \notin Channel
  BY ChannelsAndRegions
<1>3. CASE cap.object \in Channel
  <2>1. Live(epochs, cap)
    BY <1>1, <1>3 DEF ObjectsOK, Live, object_exists
  <2>2. ~is_region(cap)
    BY <1>3 DEF is_region
  <2>3. predict_check(w, cap, required) = (IF ~(required \subseteq cap.rights) THEN "InsufficientRights" ELSE "Ok")
    BY <2>2 DEF predict_check
  <2>4. CASE required \subseteq cap.rights
    BY <2>1, <2>3, <2>4, CheckVerdict DEF contains
  <2>5. CASE ~(required \subseteq cap.rights)
    BY <2>1, <2>3, <2>5, CheckVerdict DEF contains
  <2> QED BY <2>4, <2>5
<1>4. CASE cap.object \notin Channel
  <2>1. is_region(cap) /\ cap.object \in DOMAIN w.regions
    BY <1>1, <1>4 DEF is_region
  <2>2. object_exists(epochs, cap.object) <=> cap.object \in Living(w.regions)
    BY <1>4 DEF ObjectsOK, object_exists
  <2>3. cap.object \in Living(w.regions) => epochs[cap.object] = w.regions[cap.object].epoch
    BY DEF ObjectsOK
  <2>4. cap.object \in Living(w.regions) <=> w.regions[cap.object].alive
    BY <2>1 DEF Living
  <2>5. CASE ~w.regions[cap.object].alive
    <3>1. predict_check(w, cap, required) = "UnknownObject"
      BY <2>1, <2>5 DEF predict_check
    <3>2. check(epochs, cap, required) = "UnknownObject"
      BY <2>2, <2>4, <2>5, CheckVerdict
    <3> QED BY <3>1, <3>2
  <2>6. CASE w.regions[cap.object].alive /\ w.regions[cap.object].epoch # cap.epoch
    <3>1. predict_check(w, cap, required) = "Revoked"
      BY <2>1, <2>6 DEF predict_check
    <3>2. object_exists(epochs, cap.object) /\ ~Live(epochs, cap)
      BY <2>2, <2>3, <2>4, <2>6 DEF Live
    <3>3. check(epochs, cap, required) = "Revoked"
      BY <3>2, CheckVerdict
    <3> QED BY <3>1, <3>3
  <2>7. CASE w.regions[cap.object].alive /\ w.regions[cap.object].epoch = cap.epoch
    <3>1. predict_check(w, cap, required) = (IF ~(required \subseteq cap.rights) THEN "InsufficientRights" ELSE "Ok")
      BY <2>1, <2>7 DEF predict_check
    <3>2. Live(epochs, cap)
      BY <2>2, <2>3, <2>4, <2>7 DEF Live
    <3>3. CASE required \subseteq cap.rights
      BY <3>1, <3>2, <3>3, CheckVerdict DEF contains
    <3>4. CASE ~(required \subseteq cap.rights)
      BY <3>1, <3>2, <3>4, CheckVerdict DEF contains
    <3> QED BY <3>3, <3>4
  <2> QED BY <2>5, <2>6, <2>7
<1> QED BY <1>3, <1>4

LEMMA BytesFacts ==
  ASSUME NEW bytes \in Bytes
  PROVE  /\ size_of(bytes) \in 0 .. UsizeValues - 1
         /\ DOMAIN bytes = 0 .. size_of(bytes) - 1
         /\ \A i \in DOMAIN bytes : bytes[i] \in Byte
<1>1. PICK n \in 0 .. UsizeValues - 1 : bytes \in [0 .. n - 1 -> Byte]
  BY DEF Bytes
<1>2. Cardinality(0 .. n - 1) = n
  <2>1. 0 \in Int /\ n - 1 \in Int
    BY <1>1, ChaosAssumption
  <2>2. Cardinality(0 .. n - 1) = IF 0 > n - 1 THEN 0 ELSE (n - 1) - 0 + 1
    BY <2>1, FS_Interval
  <2> QED BY <2>2, ChaosAssumption
<1> QED BY <1>1, <1>2 DEF size_of

\* `predict_access` predicts what the registry answers.
LEMMA PredictsAccess ==
  ASSUME Exact(sys, model, stash), NEW cap \in CapsOf(DOMAIN model.regions), NEW required,
         NEW offset \in 0 .. UsizeValues - 1, NEW len \in 0 .. UsizeValues - 1
  PROVE  access(cap, required, offset, len) = predict_access(model, cap, required, offset, len)
<1>1. ObjectsOK(sys.epochs, sys.regions, model.regions)
  BY DEF Exact
<1>2. /\ check(sys.epochs, cap, required) = predict_check(model, cap, required)
      /\ predict_check(model, cap, required) = "Ok" => Live(sys.epochs, cap) /\ required \subseteq cap.rights
  BY <1>1, Predicts
<1>3. CASE check(sys.epochs, cap, required) # "Ok"
  BY <1>2, <1>3 DEF access, predict_access
<1>4. CASE check(sys.epochs, cap, required) = "Ok" /\ cap.object \in Channel
  <2>1. ~is_region(cap) /\ cap.object \notin DOMAIN sys.regions
    <3>1. Living(model.regions) \subseteq DOMAIN model.regions
          /\ \A r \in DOMAIN model.regions : r \notin Channel
      BY <1>1, ChannelsAndRegions
    <3>2. DOMAIN sys.regions = Living(model.regions)
      BY <1>1 DEF ObjectsOK
    <3> QED BY <1>4, <3>1, <3>2 DEF is_region
  <2>2. access(cap, required, offset, len) = "UnknownRegion"
    BY <1>4, <2>1 DEF access
  <2>3. predict_access(model, cap, required, offset, len) = "UnknownRegion"
    BY <1>2, <1>4, <2>1 DEF predict_access
  <2> QED BY <2>2, <2>3
<1>5. CASE check(sys.epochs, cap, required) = "Ok" /\ cap.object \notin Channel
  <2>1. is_region(cap)
    BY <1>5 DEF is_region
  <2>2. cap.object \in DOMAIN sys.epochs
    BY <1>2, <1>5 DEF Live, object_exists
  <2>3. cap.object \in DOMAIN sys.regions /\ cap.object \in Living(model.regions)
    BY <1>1, <1>5, <2>2 DEF ObjectsOK
  <2>4. sys.regions[cap.object] = model.regions[cap.object].bytes
    BY <1>1, <2>3 DEF ObjectsOK
  <2>5. model.regions[cap.object].bytes \in Bytes
    BY <1>1, <2>3 DEF ObjectsOK, RegionModel, Living
  <2>6. PICK bytes \in Bytes : bytes = model.regions[cap.object].bytes
    BY <2>5
  <2>7. in_bounds(UsizeValues, bytes, offset, len) <=> offset + len <= size_of(bytes)
    <3>1. size_of(bytes) \in 0 .. UsizeValues - 1
      BY BytesFacts
    <3> QED BY <3>1, ChaosAssumption DEF in_bounds
  <2>8. accessible(sys.epochs, sys.regions, cap, required)
    BY <1>5, <2>3 DEF accessible, Permits
  <2>9. checked_range(UsizeValues, sys.epochs, sys.regions, cap, required, offset, len)
          <=> offset + len <= size_of(bytes)
    BY <2>4, <2>6, <2>7, <2>8 DEF checked_range
  <2>10. access(cap, required, offset, len) = (IF offset + len <= size_of(bytes) THEN "Ok" ELSE "OutOfBounds")
    BY <1>5, <2>3, <2>9 DEF access
  <2>11. predict_access(model, cap, required, offset, len)
           = (IF offset + len <= size_of(bytes) THEN "Ok" ELSE "OutOfBounds")
    BY <1>2, <1>5, <2>1, <2>6 DEF predict_access
  <2> QED BY <2>10, <2>11
<1> QED BY <1>3, <1>4, <1>5

(***************************************************************************)
(* The audit after a step finds nothing, unless a byte was flipped.        *)
(***************************************************************************)

LEMMA StashPairs ==
  ASSUME NEW dom, NEW held, NEW kept, StashOK(dom, held, kept), NEW pair \in kept
  PROVE  pair[1] \in CapsOf(dom) /\ pair[2] = pair[1] /\ pair = <<pair[1], pair[1]>>
BY DEF StashOK

LEMMA ReadersWork ==
  ASSUME NEW s, NEW w, NEW kept, Exact(s, w, kept), NEW r \in DOMAIN w.regions,
         NEW cap \in readers(w, kept, r)
  PROVE  /\ cap.object = r /\ accessible(s.epochs, s.regions, cap, {"READ"})
         /\ r \in Living(w.regions) /\ s.regions[r] = w.regions[r].bytes
<1>1. /\ ObjectsOK(s.epochs, s.regions, w.regions)
      /\ StashOK(DOMAIN w.regions, s.held, kept)
  BY DEF Exact
<1>2. PICK pair \in kept : /\ cap = pair[1] /\ pair[2].object = r
                           /\ predict_check(w, pair[2], {"READ"}) = "Ok"
  BY DEF readers
<1>3. cap \in CapsOf(DOMAIN w.regions) /\ cap = pair[2]
  BY <1>1, <1>2, StashPairs
<1>4. check(s.epochs, cap, {"READ"}) = "Ok" /\ Live(s.epochs, cap)
  <2>1. PICK required : required = {"READ"}
    OBVIOUS
  <2>2. predict_check(w, cap, required) = "Ok"
    BY <1>2, <1>3, <2>1
  <2>3. check(s.epochs, cap, required) = "Ok" /\ Live(s.epochs, cap)
    BY ZenonT(30), <1>1, <1>3, <2>2, Predicts
  <2> QED BY <2>1, <2>3
<1>5. r \in DOMAIN s.epochs /\ r \notin Channel /\ cap.object = r
  BY <1>1, <1>2, <1>3, <1>4, ChannelsAndRegions DEF Live, object_exists
<1>6. r \in Living(w.regions) /\ r \in DOMAIN s.regions /\ s.regions[r] = w.regions[r].bytes
  BY <1>1, <1>5 DEF ObjectsOK
<1> QED BY <1>4, <1>5, <1>6 DEF accessible, Permits

LEMMA SweepPasses ==
  ASSUME NEW s, NEW w, NEW kept, Exact(s, w, kept)
  PROVE  sweep(s, w, kept)
<1>1. w.procs = s.tables
  BY DEF Exact
<1>2. ASSUME NEW pair \in kept
      PROVE  check(s.epochs, pair[1], NONE) = predict_check(w, pair[2], NONE)
  <2>1. pair[1] \in CapsOf(DOMAIN w.regions) /\ pair[2] = pair[1]
    BY <1>2, StashPairs DEF Exact
  <2>2. ObjectsOK(s.epochs, s.regions, w.regions)
    BY DEF Exact
  <2>3. PICK cap \in CapsOf(DOMAIN w.regions) : cap = pair[1] /\ cap = pair[2]
    BY <2>1
  <2>4. check(s.epochs, cap, NONE) = predict_check(w, cap, NONE)
    BY <2>2, Predicts
  <2> QED BY <2>3, <2>4
<1>3. DOMAIN s.regions = alive(w)
  BY DEF Exact, ObjectsOK, Living, alive
<1>4. ASSUME NEW r \in auditable(w, kept)
      PROVE  SameBytes(s, w, kept, r)
  <2>1. r \in DOMAIN w.regions /\ readers(w, kept, r) # {}
    BY <1>4 DEF auditable
  <2>2. PICK auditor : auditor = (CHOOSE cap \in readers(w, kept, r) : TRUE)
    OBVIOUS
  <2>3. auditor \in readers(w, kept, r)
    BY <2>1, <2>2
  <2>4. auditor.object = r /\ accessible(s.epochs, s.regions, auditor, {"READ"}) /\ s.regions[r] = w.regions[r].bytes
    BY <2>1, <2>3, ReadersWork
  <2> QED BY <2>2, <2>4 DEF SameBytes
<1> QED BY <1>1, <1>2, <1>3, <1>4 DEF sweep

LEMMA Least ==
  ASSUME NEW S \in SUBSET Nat, S # {}
  PROVE  \E k \in S : \A j \in S : k <= j
<1>1. PICK k \in S : \A j \in S : <<j, k>> \notin OpToRel(<, Nat)
  BY NatLessThanWellFounded, WFMin
<1>2. \A j \in S : ~(j < k)
  BY <1>1 DEF OpToRel
<1> QED BY <1>2

\* A model that differs in the first byte of an auditable region.
LEMMA SweepFinds ==
  ASSUME NEW s, NEW w, NEW kept, Exact(s, w, kept), NEW r \in auditable(w, kept),
         size_of(w.regions[r].bytes) > 0, NEW t, t = corrupted(w, r)
  PROVE  ~sweep(s, t, kept)
<1>1. r \in DOMAIN w.regions /\ readers(w, kept, r) # {}
  BY DEF auditable
<1>2. DOMAIN w = WorldFields /\ ObjectsOK(s.epochs, s.regions, w.regions)
  BY DEF Exact
<1>3. w.regions[r] \in RegionModel
  BY <1>1, <1>2 DEF ObjectsOK
<1>4. PICK bytes \in Bytes : bytes = w.regions[r].bytes
  BY <1>3 DEF RegionModel
<1>5. 0 \in DOMAIN bytes /\ bytes[0] \in Byte /\ flipped(bytes[0]) # bytes[0]
  <2>1. size_of(bytes) \in Nat /\ DOMAIN bytes = 0 .. size_of(bytes) - 1 /\ size_of(bytes) > 0
    BY <1>4, BytesFacts, ChaosAssumption
  <2>2. 0 \in DOMAIN bytes
    BY <2>1
  <2>3. bytes[0] \in Byte
    BY <2>2, BytesFacts
  <2> QED BY <2>2, <2>3 DEF Byte, flipped
<1>6. PICK region \in RegionModel : region = w.regions[r]
  BY <1>3
<1>7. t.regions = [w.regions EXCEPT ![r] = [region EXCEPT !.bytes = [bytes EXCEPT ![0] = flipped(bytes[0])]]]
  BY <1>2, <1>4, <1>6 DEF corrupted, WorldFields
<1>8. PICK new : new = [region EXCEPT !.bytes = [bytes EXCEPT ![0] = flipped(bytes[0])]]
  OBVIOUS
<1>9. new.alive = region.alive /\ new.epoch = region.epoch /\ new.bytes[0] = flipped(bytes[0])
  BY <1>5, <1>8 DEF RegionModel
<1>10. DOMAIN t.regions = DOMAIN w.regions /\ t.regions[r] = new
  BY <1>1, <1>7, <1>8
<1>11. \A cap : cap.object = r => predict_check(t, cap, {"READ"}) = predict_check(w, cap, {"READ"})
  BY <1>6, <1>9, <1>10 DEF predict_check
<1>12. readers(t, kept, r) = readers(w, kept, r)
  BY <1>11 DEF readers
<1>13. r \in auditable(t, kept)
  BY <1>1, <1>10, <1>12 DEF auditable
<1>14. ~SameBytes(s, t, kept, r)
  <2>1. PICK auditor : auditor = (CHOOSE cap \in readers(t, kept, r) : TRUE)
    OBVIOUS
  <2>2. auditor \in readers(w, kept, r)
    BY <1>1, <1>12, <2>1
  <2>3. auditor.object = r /\ s.regions[r] = w.regions[r].bytes
    BY <1>1, <2>2, ReadersWork
  <2>4. s.regions[r] # t.regions[r].bytes
    BY <1>4, <1>5, <1>9, <1>10, <2>3
  <2> QED BY <2>1, <2>3, <2>4 DEF SameBytes
<1> QED BY <1>13, <1>14 DEF sweep

\* One step of the harness, if kernel and model agree before and after.
LEMMA StepKeeps ==
  ASSUME ChaosInv, NEW real, NEW world, NEW kept, Step(real, world, kept, TRUE),
         Exact(real, world, kept)
  PROVE  ChaosInv'
<1>1. /\ fault = "pending" /\ failure = "none"
      /\ sys' = real /\ stash' = kept /\ Corrupt(world, kept)
      /\ failure' = IF sweep(real, model', kept) THEN "none" ELSE "sweep"
  BY DEF Step, ChaosInv, FailsExactlyOnFault
<1> DEFINE targets == {r \in auditable(world, kept) : size_of(world.regions[r].bytes) > 0}
<1>2. CASE model' = world /\ fault' = fault
  <2>1. failure' = "none"
    BY <1>1, <1>2, SweepPasses
  <2>2. Exact(sys', model', stash')
    BY <1>1, <1>2
  <2> QED BY <1>1, <1>2, <2>1, <2>2 DEF ChaosInv, FailsExactlyOnFault
<1>3. CASE /\ targets # {}
           /\ model' = corrupted(world, CHOOSE r \in targets : \A q \in targets : r <= q)
           /\ fault' = "injected"
  <2>1. ObjectsOK(real.epochs, real.regions, world.regions)
    BY DEF Exact
  <2>2. targets \in SUBSET Nat
    BY <2>1, ChannelsAndRegions DEF auditable
  <2>3. \E r \in targets : \A q \in targets : r <= q
    BY <1>3, <2>2, Least
  <2>4. PICK low \in targets : low = (CHOOSE r \in targets : \A q \in targets : r <= q)
    BY <2>3
  <2>5. low \in auditable(world, kept) /\ size_of(world.regions[low].bytes) > 0
    BY <2>4
  <2>6. model' = corrupted(world, low)
    BY <1>3, <2>4
  <2>7. ~sweep(real, model', kept)
    BY <2>5, <2>6, SweepFinds
  <2>8. failure' = "sweep"
    BY <1>1, <2>7
  <2> QED BY <1>3, <2>8 DEF ChaosInv, FailsExactlyOnFault
<1> QED BY <1>1, <1>2, <1>3 DEF Corrupt

(***************************************************************************)
(* Tables and queues.                                                      *)
(***************************************************************************)

LEMMA SmallHandle ==
  ASSUME NEW n \in Nat, n < HandleSpace
  PROVE  n % HandleSpace = n
<1>1. \A m \in Nat \ {0} : \A i \in 0 .. m - 1 : i % m = i
  OBVIOUS
<1> QED BY <1>1, ProcessAssumption

IsFunction(f) == f = [x \in DOMAIN f |-> f[x]]

\* Without a wrap, capabilities granted take the handles from the next one on.
Granting(table, next, caps, L, after) ==
  /\ IsFunction(after)
  /\ DOMAIN after = DOMAIN table \union (next .. next + L - 1)
  /\ \A k \in 1 .. L : HandleOf(next, k) = next + k - 1
  /\ \A k \in 1 .. L : after[next + k - 1] = caps[k]
  /\ \A h \in DOMAIN table : h \notin next .. next + L - 1 => after[h] = table[h]
  /\ NextHandle(next, caps) = next + L

LEMMA GrantsAre ==
  ASSUME NEW table, NEW next \in Nat, NEW caps, NEW L \in Nat, DOMAIN caps = 1 .. L, Len(caps) = L,
         next + L < HandleSpace, NEW after, after = Granted(table, next, caps)
  PROVE  Granting(table, next, caps, L, after)
<1>1. ASSUME NEW k \in 1 .. L + 1
      PROVE  HandleOf(next, k) = next + k - 1
  <2>1. next + k - 1 \in Nat /\ next + k - 1 < HandleSpace
    BY ProcessAssumption
  <2> QED BY <2>1, SmallHandle DEF HandleOf
<1> DEFINE At(h) == {k \in DOMAIN caps : HandleOf(next, k) = h}
           last(h) == CHOOSE k \in At(h) : \A j \in At(h) : j <= k
<1>2. ASSUME NEW k \in 1 .. L
      PROVE  At(next + k - 1) = {k}
  <2>1. \A j \in 1 .. L : HandleOf(next, j) = next + j - 1
    BY <1>1
  <2>2. \A j \in 1 .. L : next + j - 1 = next + k - 1 <=> j = k
    OBVIOUS
  <2> QED BY <2>1, <2>2
<1>3. ASSUME NEW h, h \notin next .. next + L - 1
      PROVE  At(h) = {}
  <2>1. \A j \in 1 .. L : HandleOf(next, j) = next + j - 1 /\ next + j - 1 \in next .. next + L - 1
    BY <1>1
  <2> QED BY <1>3, <2>1
<1>4. {HandleOf(next, k) : k \in DOMAIN caps} = next .. next + L - 1
  <2>1. \A k \in 1 .. L : HandleOf(next, k) = next + k - 1 /\ next + k - 1 \in next .. next + L - 1
    BY <1>1
  <2>2. \A h \in next .. next + L - 1 : h - next + 1 \in 1 .. L /\ h = next + (h - next + 1) - 1
    OBVIOUS
  <2>3. \A h \in next .. next + L - 1 : \E k \in 1 .. L : HandleOf(next, k) = h
    BY <2>1, <2>2
  <2>4. \A k \in DOMAIN caps : HandleOf(next, k) \in next .. next + L - 1
    BY <2>1
  <2>5. \A h \in next .. next + L - 1 : h \in {HandleOf(next, k) : k \in DOMAIN caps}
    BY <2>3
  <2> QED BY <2>4, <2>5
<1>5. after = [h \in DOMAIN table \union (next .. next + L - 1) |->
                 IF At(h) = {} THEN table[h] ELSE caps[last(h)]]
  BY <1>4 DEF Granted
<1>6. ASSUME NEW k \in 1 .. L
      PROVE  last(next + k - 1) = k
  <2>1. (CHOOSE j \in {k} : \A i \in {k} : i <= j) = k
    OBVIOUS
  <2> QED BY <1>2, <2>1
<1>7. ASSUME NEW k \in 1 .. L
      PROVE  after[next + k - 1] = caps[k]
  <2>1. next + k - 1 \in next .. next + L - 1
    OBVIOUS
  <2>2. At(next + k - 1) # {} /\ last(next + k - 1) = k
    BY <1>2, <1>6
  <2> HIDE DEF At, last
  <2>3. PICK h : h = next + k - 1
    OBVIOUS
  <2> QED BY <1>5, <2>1, <2>2, <2>3
<1>8. ASSUME NEW h \in DOMAIN table, h \notin next .. next + L - 1
      PROVE  after[h] = table[h]
  <2>1. At(h) = {}
    BY <1>3, <1>8
  <2> HIDE DEF At, last
  <2> QED BY <1>5, <2>1
<1>9. NextHandle(next, caps) = next + L
  <2>1. L + 1 \in 1 .. L + 1 /\ next + (L + 1) - 1 = next + L
    OBVIOUS
  <2>2. HandleOf(next, L + 1) = next + L
    BY <1>1, <2>1
  <2> QED BY <2>2 DEF NextHandle
<1> HIDE DEF At, last
<1>10. /\ DOMAIN after = DOMAIN table \union (next .. next + L - 1)
       /\ IsFunction(after)
  BY <1>5 DEF IsFunction
<1>11. \A k \in 1 .. L : HandleOf(next, k) = next + k - 1
  <2>1. \A k \in 1 .. L : k \in 1 .. L + 1
    OBVIOUS
  <2> QED BY <1>1, <2>1
<1> QED BY <1>7, <1>8, <1>9, <1>10, <1>11 DEF Granting

LEMMA CapsMore ==
  ASSUME NEW dom, NEW more, dom \subseteq more
  PROVE  CapsOf(dom) \subseteq CapsOf(more) /\ Capability(dom) \subseteq Capability(more)
BY DEF CapsOf, Capability

LEMMA TableMore ==
  ASSUME NEW dom, NEW more, dom \subseteq more, NEW table, NEW next, TableOK(dom, table, next)
  PROVE  TableOK(more, table, next)
<1>1. CapsOf(dom) \subseteq CapsOf(more)
  BY CapsMore
<1> QED BY <1>1 DEF TableOK

LEMMA FlightMore ==
  ASSUME NEW dom, NEW more, dom \subseteq more, NEW queues, NEW in_flight, FlightOK(dom, queues, in_flight)
  PROVE  FlightOK(more, queues, in_flight)
<1>1. Capability(dom) \subseteq Capability(more)
  BY CapsMore
<1>2. ASSUME NEW m \in MessageModel(dom)
      PROVE  m \in MessageModel(more)
  <2>1. m.caps \in Seq(Capability(more))
    BY <1>1 DEF MessageModel
  <2> QED BY <2>1 DEF MessageModel
<1>3. ASSUME NEW c \in Channel
      PROVE  in_flight[c] \in Seq(MessageModel(more))
  <2>1. PICK queue : queue = in_flight[c]
    OBVIOUS
  <2>2. queue \in Seq(MessageModel(dom))
    BY <2>1 DEF FlightOK
  <2>3. \A k \in 1 .. Len(queue) : queue[k] \in MessageModel(more)
    BY <1>2, <2>2
  <2> QED BY <2>1, <2>2, <2>3
<1> QED BY <1>3 DEF FlightOK

LEMMA StashMore ==
  ASSUME NEW dom, NEW more, dom \subseteq more, NEW held, NEW kept, StashOK(dom, held, kept)
  PROVE  StashOK(more, held, kept)
BY CapsMore DEF StashOK

\* Capabilities for regions disturb no channel.
LEMMA GrantTable ==
  ASSUME NEW dom, dom \intersect Channel = {}, NEW table, NEW next, TableOK(dom, table, next),
         NEW caps \in Seq(Capability(dom)), next + Len(caps) < HandleSpace
  PROVE  TableOK(dom, Granted(table, next, caps), NextHandle(next, caps))
<1>1. PICK after : after = Granted(table, next, caps)
  OBVIOUS
<1>2. next \in Nat /\ DOMAIN table \subseteq 0 .. next - 1 /\ table \in [DOMAIN table -> CapsOf(dom)]
  BY ProcessAssumption DEF TableOK
<1>3. PICK L \in Nat : L = Len(caps) /\ DOMAIN caps = 1 .. L
  OBVIOUS
<1>0. Granting(table, next, caps, L, after)
  <2>1. next + L < HandleSpace
    BY <1>3
  <2>2. L \in Nat /\ next \in Nat /\ DOMAIN caps = 1 .. L /\ Len(caps) = L
    BY <1>2, <1>3
  <2> QED BY <1>1, <2>1, <2>2, GrantsAre
<1>4. /\ IsFunction(after)
      /\ DOMAIN after = DOMAIN table \union (next .. next + L - 1)
      /\ \A k \in 1 .. L : after[next + k - 1] = caps[k]
      /\ \A h \in DOMAIN table : h \notin next .. next + L - 1 => after[h] = table[h]
      /\ NextHandle(next, caps) = next + L
  BY <1>0 DEF Granting
<1>5. ASSUME NEW h \in DOMAIN table
      PROVE  after[h] = table[h]
  <2>1. h \notin next .. next + L - 1
    BY <1>2
  <2> QED BY <1>4, <2>1
<1>6. ASSUME NEW h \in next .. next + L - 1
      PROVE  after[h] \in Capability(dom)
  <2>1. PICK k \in 1 .. L : h = next + k - 1
    <3>1. h - next + 1 \in 1 .. L /\ h = next + (h - next + 1) - 1
      BY <1>2
    <3> QED BY <3>1
  <2>2. caps[k] \in Capability(dom)
    BY <1>3, <2>1
  <2> QED BY <1>4, <2>1, <2>2
<1>7. after \in [DOMAIN after -> CapsOf(dom)]
  <2>1. \A h \in DOMAIN after : after[h] \in CapsOf(dom)
    BY <1>2, <1>4, <1>5, <1>6, RegionCapIs
  <2>2. after = [h \in DOMAIN after |-> after[h]]
    BY <1>4 DEF IsFunction
  <2> QED BY <2>1, <2>2
<1>8. ASSUME NEW c \in Channel
      PROVE  \E h \in DOMAIN after :
               /\ after[h].object = c /\ ChannelView \subseteq after[h].rights
               /\ \A g \in DOMAIN after : after[g].object = c => g = h
  <2>1. PICK h \in DOMAIN table : /\ table[h].object = c /\ ChannelView \subseteq table[h].rights
                                  /\ \A g \in DOMAIN table : table[g].object = c => g = h
    BY DEF TableOK
  <2>2. \A g \in next .. next + L - 1 : after[g].object # c
    BY <1>6, RegionCapIs
  <2>3. h \in DOMAIN after /\ after[h] = table[h]
    BY <1>4, <1>5
  <2>4. ASSUME NEW g \in DOMAIN after, after[g].object = c
        PROVE  g = h
    <3>1. g \in DOMAIN table
      BY <1>4, <2>2, <2>4
    <3> QED BY <1>5, <2>1, <2>4, <3>1
  <2> QED BY <2>1, <2>3, <2>4
<1>9. DOMAIN after \subseteq 0 .. next + L - 1
  BY <1>2, <1>4
<1>10. next + L \in 0 .. HandleSpace - 1
  BY <1>2, <1>3, ProcessAssumption
<1>11. PICK counter : counter = NextHandle(next, caps)
  OBVIOUS
<1>12. counter \in 0 .. HandleSpace - 1 /\ DOMAIN after \subseteq 0 .. counter - 1
  <2>1. counter = next + L
    BY <1>4, <1>11
  <2> QED BY <1>2, <1>9, <1>10, <2>1
<1>13. TableOK(dom, after, counter)
  BY <1>7, <1>8, <1>12 DEF TableOK
<1> QED BY <1>1, <1>11, <1>13

(***************************************************************************)
(* One object: read, written, revoked, destroyed.                          *)
(***************************************************************************)

LEMMA Running ==
  ASSUME ChaosInv, NEW real, NEW world, NEW kept, NEW agreed, Step(real, world, kept, agreed)
  PROVE  failure = "none" /\ Exact(sys, model, stash)
BY DEF Step, ChaosInv

\* `pick_cap` finds the same capability in both.
LEMMA PickFacts ==
  ASSUME Exact(sys, model, stash), NEW pick \in Picks
  PROVE  pick[1] = pick[2] /\ pick[1] \in CapsOf(DOMAIN model.regions)
<1>1. CASE pick \in stash
  BY <1>1, StashPairs DEF Exact
<1>2. ASSUME NEW p \in Process, NEW h \in DOMAIN model.procs[p], pick = <<cap_of(sys, p, h), model.procs[p][h]>>
      PROVE  pick[1] = pick[2] /\ pick[1] \in CapsOf(DOMAIN model.regions)
  <2>1. model.procs = sys.tables
    BY DEF Exact
  <2>2. TableOK(DOMAIN model.regions, sys.tables[p], sys.next_handle[p])
    BY <2>1 DEF Exact, TablesOK, Process
  <2>3. sys.tables[p][h] \in CapsOf(DOMAIN model.regions)
    BY <2>1, <2>2 DEF TableOK
  <2> QED BY <1>2, <2>1, <2>3 DEF cap_of
<1> QED BY <1>1, <1>2 DEF Picks

\* A map with another value for r, or without it.
Replaced(f, g, r, present, value) ==
  /\ DOMAIN g = IF present THEN DOMAIN f ELSE DOMAIN f \ {r}
  /\ \A q \in DOMAIN f \ {r} : g[q] = f[q]
  /\ present => g[r] = value

\* A region's model, and what kernel and registry keep of it, change together.
LEMMA ObjectsOne ==
  ASSUME NEW epochs, NEW regions, NEW modelled, ObjectsOK(epochs, regions, modelled),
         NEW r \in Living(modelled), NEW changed \in RegionModel,
         NEW epochs2, NEW regions2, NEW modelled2,
         Replaced(modelled, modelled2, r, TRUE, changed),
         Replaced(epochs, epochs2, r, changed.alive, changed.epoch),
         Replaced(regions, regions2, r, changed.alive, changed.bytes)
  PROVE  ObjectsOK(epochs2, regions2, modelled2)
<1>1. r \in DOMAIN modelled /\ r \notin Channel
  BY ChannelsAndRegions
<1>2. changed.alive \in BOOLEAN
  BY DEF RegionModel, Replaced
<1>3. Living(modelled2) = IF changed.alive THEN Living(modelled) ELSE Living(modelled) \ {r}
  BY <1>1, <1>2 DEF Living, Replaced
<1>4. \A q \in DOMAIN modelled2 : modelled2[q] \in RegionModel
  BY <1>1 DEF ObjectsOK, Replaced
<1>5. DOMAIN regions2 = Living(modelled2)
  BY <1>2, <1>3 DEF ObjectsOK, Replaced
<1>6. DOMAIN epochs2 = Channel \union Living(modelled2)
  BY <1>1, <1>2, <1>3 DEF ObjectsOK, Replaced
<1>7. \A c \in Channel : epochs2[c] = 0
  BY <1>1 DEF ObjectsOK, Replaced
<1>8. ASSUME NEW q \in Living(modelled2)
      PROVE  epochs2[q] = modelled2[q].epoch /\ regions2[q] = modelled2[q].bytes
  <2>1. CASE q = r
    BY <1>2, <1>3, <1>8, <2>1 DEF Replaced
  <2>2. CASE q # r
    <3>1. q \in Living(modelled) /\ q \in DOMAIN modelled \ {r}
      BY <1>3, <2>2 DEF Living, Replaced
    <3>2. q \in DOMAIN epochs \ {r} /\ q \in DOMAIN regions \ {r}
      BY <3>1 DEF ObjectsOK, Replaced
    <3> QED BY <3>1, <3>2 DEF ObjectsOK, Replaced
  <2> QED BY <2>1, <2>2
<1> QED BY <1>4, <1>5, <1>6, <1>7, <1>8 DEF ObjectsOK, Replaced

\* Only objects change.
LEMMA ExactObjects ==
  ASSUME NEW s, NEW w, NEW kept, Exact(s, w, kept), NEW t, NEW v,
         DOMAIN t = DOMAIN s, DOMAIN v = DOMAIN w,
         \A field \in SysFields \ {"epochs", "regions"} : t[field] = s[field],
         \A field \in WorldFields \ {"regions"} : v[field] = w[field],
         ObjectsOK(t.epochs, t.regions, v.regions), DOMAIN v.regions = DOMAIN w.regions
  PROVE  Exact(t, v, kept)
<1>1. /\ t.tables = s.tables /\ t.next_handle = s.next_handle /\ t.queues = s.queues
      /\ t.held = s.held /\ t.failed = s.failed
  BY DEF SysFields
<1>2. v.procs = w.procs /\ v.in_flight = w.in_flight
  BY DEF WorldFields
<1> QED BY <1>1, <1>2 DEF Exact

LEMMA LocalStep == ASSUME ChaosInv, Local PROVE ChaosInv'
<1>1. Step(sys, model, stash, TRUE)
  BY DEF Local
<1>2. Exact(sys, model, stash)
  BY <1>1, Running
<1> QED BY <1>1, <1>2, StepKeeps

\* A capability the kernel lets through for a region.
LEMMA PermittedRegion ==
  ASSUME Exact(sys, model, stash), NEW cap \in CapsOf(DOMAIN model.regions), cap.object \notin Channel,
         NEW required, check(sys.epochs, cap, required) = "Ok"
  PROVE  /\ cap.object \in Living(model.regions) /\ cap.object \in DOMAIN sys.regions
         /\ cap.object \in DOMAIN sys.epochs /\ cap.object \in DOMAIN model.regions
         /\ sys.epochs[cap.object] = cap.epoch /\ cap.epoch = model.regions[cap.object].epoch
         /\ sys.regions[cap.object] = model.regions[cap.object].bytes
         /\ model.regions[cap.object] \in RegionModel
         /\ model.regions[cap.object].alive
<1>1. ObjectsOK(sys.epochs, sys.regions, model.regions)
  BY DEF Exact
<1>2. Live(sys.epochs, cap)
  BY CheckVerdict
<1>3. cap.object \in DOMAIN sys.epochs /\ sys.epochs[cap.object] = cap.epoch
  BY <1>2 DEF Live, object_exists
<1>4. cap.object \in Living(model.regions) /\ cap.object \in DOMAIN sys.regions
  BY <1>1, <1>3 DEF ObjectsOK
<1>5. cap.object \in DOMAIN model.regions /\ model.regions[cap.object].alive
  BY <1>4 DEF Living
<1> QED BY <1>1, <1>3, <1>4, <1>5 DEF ObjectsOK

\* An access the registry allows is to a region.
LEMMA AllowedAccess ==
  ASSUME NEW cap, NEW required, NEW offset, NEW len,
         access(cap, required, offset, len) = "Ok"
  PROVE  check(sys.epochs, cap, required) = "Ok" /\ cap.object \in DOMAIN sys.regions
<1>1. check(sys.epochs, cap, required) = "Ok"
  <2>1. CASE check(sys.epochs, cap, required) # "Ok"
    BY <2>1 DEF access
  <2> QED BY <2>1
<1>2. CASE cap.object \notin DOMAIN sys.regions
  BY <1>1, <1>2 DEF access
<1> QED BY <1>1, <1>2

LEMMA RegionObject ==
  ASSUME Exact(sys, model, stash), NEW r \in DOMAIN sys.regions
  PROVE  r \notin Channel
<1>1. ObjectsOK(sys.epochs, sys.regions, model.regions)
  BY DEF Exact
<1>2. r \in Living(model.regions)
  BY <1>1 DEF ObjectsOK
<1>3. r \in DOMAIN model.regions
  BY <1>2 DEF Living
<1> QED BY <1>1, <1>3, ChannelsAndRegions

LEMMA ReadStep ==
  ASSUME ChaosInv, NEW pick \in Picks, NEW span \in Spans, Read(pick, span[1], span[2])
  PROVE  ChaosInv'
<1>1. Exact(sys, model, stash)
  BY Running DEF Read
<1>2. PICK cap \in CapsOf(DOMAIN model.regions) : cap = pick[1] /\ cap = pick[2]
  BY <1>1, PickFacts
<1>3. PICK offset \in 0 .. UsizeValues - 1, len \in 0 .. UsizeValues - 1 : offset = span[1] /\ len = span[2]
  BY ChaosAssumption
<1>4. PICK required : required = {"READ"}
  OBVIOUS
<1>5. access(cap, required, offset, len) = predict_access(model, cap, required, offset, len)
  BY <1>1, PredictsAccess
<1>6. ASSUME access(cap, required, offset, len) = "Ok"
      PROVE  range(sys.regions[cap.object], offset, len) = range(model.regions[cap.object].bytes, offset, len)
  <2>1. check(sys.epochs, cap, required) = "Ok" /\ cap.object \in DOMAIN sys.regions
    BY <1>6, AllowedAccess
  <2>2. sys.regions[cap.object] = model.regions[cap.object].bytes
    BY <1>1, <2>1, PermittedRegion, RegionObject
  <2> QED BY <2>2
<1>7. Step(sys, model, stash, TRUE)
  BY <1>2, <1>3, <1>4, <1>5, <1>6 DEF Read, Step
<1> QED BY <1>1, <1>7, StepKeeps

LEMMA WrittenBytes ==
  ASSUME NEW bytes \in Bytes, NEW offset, NEW len, NEW byte \in Byte, NEW written,
         written = overwritten(bytes, offset, [i \in 0 .. len - 1 |-> byte])
  PROVE  written \in Bytes
<1>1. PICK n \in 0 .. UsizeValues - 1 : bytes \in [0 .. n - 1 -> Byte]
  BY DEF Bytes
<1>2. written \in [0 .. n - 1 -> Byte]
  BY <1>1 DEF overwritten
<1> QED BY <1>2 DEF Bytes

LEMMA WriteStep ==
  ASSUME ChaosInv, NEW pick \in Picks, NEW span \in Spans, NEW byte \in Byte,
         Write(pick, span[1], span[2], byte)
  PROVE  ChaosInv'
<1>1. Exact(sys, model, stash)
  BY Running DEF Write
<1>2. PICK cap \in CapsOf(DOMAIN model.regions) : cap = pick[1] /\ cap = pick[2]
  BY <1>1, PickFacts
<1>3. PICK offset \in 0 .. UsizeValues - 1, len \in 0 .. UsizeValues - 1 : offset = span[1] /\ len = span[2]
  BY ChaosAssumption
<1>4. PICK required : required = {"WRITE"}
  OBVIOUS
<1>5. access(cap, required, offset, len) = predict_access(model, cap, required, offset, len)
  BY <1>1, PredictsAccess
<1>6. CASE access(cap, required, offset, len) # "Ok"
  <2>1. Step(sys, model, stash, TRUE)
    BY <1>2, <1>3, <1>4, <1>5, <1>6 DEF Write, Step
  <2> QED BY <1>1, <2>1, StepKeeps
<1>7. CASE access(cap, required, offset, len) = "Ok"
  <2>1. check(sys.epochs, cap, required) = "Ok" /\ cap.object \in DOMAIN sys.regions
    BY <1>7, AllowedAccess
  <2>2. PICK r : r = cap.object
    OBVIOUS
  <2>3. /\ r \in Living(model.regions) /\ r \in DOMAIN sys.regions /\ r \in DOMAIN sys.epochs
        /\ sys.regions[r] = model.regions[r].bytes /\ model.regions[r] \in RegionModel
        /\ model.regions[r].alive /\ r \in DOMAIN model.regions
        /\ sys.epochs[r] = model.regions[r].epoch
    BY <1>1, <2>1, <2>2, PermittedRegion, RegionObject
  <2>4. PICK region \in RegionModel : region = model.regions[r]
    BY <2>3
  <2>5. PICK bytes \in Bytes : bytes = region.bytes
    BY DEF RegionModel
  <2>6. PICK written : written = overwritten(bytes, offset, [i \in 0 .. len - 1 |-> byte])
    OBVIOUS
  <2>7. written \in Bytes
    BY <2>6, WrittenBytes
  <2>8. PICK real : real = [sys EXCEPT !.regions[r] = written]
    OBVIOUS
  <2>9. PICK world : world = [model EXCEPT !.regions[r].bytes = written]
    OBVIOUS
  <2>10. Step(real, world, stash, TRUE)
    <3>1. real = [sys EXCEPT !.regions[pick[1].object]
                    = overwritten(@, offset, [i \in 0 .. len - 1 |-> byte])]
      BY <1>2, <2>2, <2>3, <2>4, <2>5, <2>6, <2>8
    <3>2. world = [model EXCEPT !.regions[pick[2].object].bytes
                     = overwritten(@, offset, [i \in 0 .. len - 1 |-> byte])]
      BY <1>2, <2>2, <2>3, <2>4, <2>5, <2>6, <2>9
    <3> QED BY <1>2, <1>3, <1>4, <1>5, <1>7, <3>1, <3>2 DEF Write, Step
  <2>11. /\ DOMAIN real = DOMAIN sys /\ DOMAIN world = DOMAIN model
         /\ \A field \in SysFields \ {"epochs", "regions"} : real[field] = sys[field]
         /\ \A field \in WorldFields \ {"regions"} : world[field] = model[field]
         /\ real.epochs = sys.epochs /\ real.regions = [sys.regions EXCEPT ![r] = written]
         /\ world.regions = [model.regions EXCEPT ![r] = [region EXCEPT !.bytes = written]]
    BY <1>1, <2>4, <2>8, <2>9 DEF Exact, SysFields, WorldFields
  <2>12. PICK changed : changed = [region EXCEPT !.bytes = written]
    OBVIOUS
  <2>13. /\ changed \in RegionModel /\ changed.alive = region.alive /\ changed.epoch = region.epoch
         /\ changed.bytes = written
    BY <2>7, <2>12 DEF RegionModel
  <2>14. ObjectsOK(real.epochs, real.regions, world.regions)
    <3>1. PICK regions, modelled : regions = real.regions /\ modelled = world.regions
      OBVIOUS
    <3>2. Replaced(model.regions, modelled, r, TRUE, changed)
      BY <2>3, <2>11, <2>12, <3>1 DEF Replaced
    <3>3. /\ Replaced(sys.regions, regions, r, changed.alive, changed.bytes)
          /\ Replaced(sys.epochs, sys.epochs, r, changed.alive, changed.epoch)
      BY <2>3, <2>4, <2>11, <2>13, <3>1 DEF Replaced
    <3>4. ObjectsOK(sys.epochs, sys.regions, model.regions)
      BY <1>1 DEF Exact
    <3>5. ObjectsOK(sys.epochs, regions, modelled)
      BY <2>3, <2>13, <3>2, <3>3, <3>4, ObjectsOne
    <3> QED BY <2>11, <3>1, <3>5
  <2>15. DOMAIN world.regions = DOMAIN model.regions
    BY <2>11
  <2>16. Exact(real, world, stash)
    BY <1>1, <2>11, <2>14, <2>15, ExactObjects
  <2> QED BY <2>10, <2>16, StepKeeps
<1> QED BY <1>6, <1>7

LEMMA RevokeStep == ASSUME ChaosInv, NEW pick \in RegionPicks, Revoke(pick) PROVE ChaosInv'
<1>1. Exact(sys, model, stash)
  BY Running DEF Revoke
<1>2. PICK cap \in CapsOf(DOMAIN model.regions) : cap = pick[1] /\ cap = pick[2] /\ cap.object \notin Channel
  BY <1>1, PickFacts DEF RegionPicks, is_region
<1>3. PICK required : required = {"DESTROY"}
  OBVIOUS
<1>4. check(sys.epochs, cap, required) = predict_check(model, cap, required)
  <2>1. ObjectsOK(sys.epochs, sys.regions, model.regions)
    BY <1>1 DEF Exact
  <2> QED BY ZenonT(30), <2>1, Predicts
<1>5. CASE check(sys.epochs, cap, required) # "Ok"
  <2>1. Step(sys, model, stash, TRUE)
    BY <1>2, <1>3, <1>4, <1>5 DEF Revoke, Step
  <2> QED BY <1>1, <2>1, StepKeeps
<1>6. CASE check(sys.epochs, cap, required) = "Ok"
  <2>1. PICK r : r = cap.object
    OBVIOUS
  <2>2. /\ r \in Living(model.regions) /\ r \in DOMAIN sys.regions /\ r \in DOMAIN sys.epochs
        /\ sys.regions[r] = model.regions[r].bytes /\ model.regions[r] \in RegionModel
        /\ model.regions[r].alive /\ r \in DOMAIN model.regions
        /\ sys.epochs[r] = model.regions[r].epoch
    BY <1>1, <1>2, <1>6, <2>1, PermittedRegion
  <2>3. PICK region \in RegionModel : region = model.regions[r]
    BY <2>2
  <2>4. PICK changed : changed = [region EXCEPT !.epoch = @ + 1]
    OBVIOUS
  <2>5. /\ changed \in RegionModel /\ changed.alive = region.alive /\ changed.epoch = region.epoch + 1
        /\ changed.bytes = region.bytes
    BY <2>4 DEF RegionModel
  <2>6. PICK real : real = [sys EXCEPT !.epochs = bumped(@, r)]
    OBVIOUS
  <2>7. PICK world : world = [model EXCEPT !.regions[r] = changed]
    OBVIOUS
  <2>8. Step(real, world, stash, TRUE)
    <3>1. world = [model EXCEPT !.regions[r] = next_epoch(@)]
      BY <2>3, <2>4, <2>7 DEF next_epoch
    <3> QED BY <1>2, <1>3, <1>4, <1>6, <2>1, <2>6, <3>1 DEF Revoke, Step
  <2>9. /\ DOMAIN real = DOMAIN sys /\ DOMAIN world = DOMAIN model
        /\ \A field \in SysFields \ {"epochs", "regions"} : real[field] = sys[field]
        /\ \A field \in WorldFields \ {"regions"} : world[field] = model[field]
        /\ real.epochs = [sys.epochs EXCEPT ![r] = @ + 1] /\ real.regions = sys.regions
        /\ world.regions = [model.regions EXCEPT ![r] = changed]
    BY <1>1, <2>6, <2>7 DEF Exact, SysFields, WorldFields, bumped
  <2>10. ObjectsOK(real.epochs, real.regions, world.regions)
    <3>1. PICK epochs, modelled : epochs = real.epochs /\ modelled = world.regions
      OBVIOUS
    <3>2. Replaced(model.regions, modelled, r, TRUE, changed)
      BY <2>2, <2>9, <3>1 DEF Replaced
    <3>3. /\ Replaced(sys.epochs, epochs, r, changed.alive, changed.epoch)
          /\ Replaced(sys.regions, sys.regions, r, changed.alive, changed.bytes)
      BY <2>2, <2>3, <2>5, <2>9, <3>1 DEF Replaced
    <3>4. ObjectsOK(sys.epochs, sys.regions, model.regions)
      BY <1>1 DEF Exact
    <3>5. ObjectsOK(epochs, sys.regions, modelled)
      BY <2>2, <2>5, <3>2, <3>3, <3>4, ObjectsOne
    <3> QED BY <2>9, <3>1, <3>5
  <2>11. DOMAIN world.regions = DOMAIN model.regions
    BY <2>9
  <2>12. Exact(real, world, stash)
    BY <1>1, <2>9, <2>10, <2>11, ExactObjects
  <2> QED BY <2>8, <2>12, StepKeeps
<1> QED BY <1>5, <1>6

LEMMA DestroyStep == ASSUME ChaosInv, NEW pick \in RegionPicks, Destroy(pick) PROVE ChaosInv'
<1>1. Exact(sys, model, stash)
  BY Running DEF Destroy
<1>2. PICK cap \in CapsOf(DOMAIN model.regions) : cap = pick[1] /\ cap = pick[2] /\ cap.object \notin Channel
  BY <1>1, PickFacts DEF RegionPicks, is_region
<1>3. PICK required : required = {"DESTROY"}
  OBVIOUS
<1>4. ObjectsOK(sys.epochs, sys.regions, model.regions)
  BY <1>1 DEF Exact
<1>5. check(sys.epochs, cap, required) = predict_check(model, cap, required)
  BY <1>4, Predicts
<1>6. CASE check(sys.epochs, cap, required) # "Ok"
  <2>1. access(cap, required, 0, 0) = check(sys.epochs, cap, required)
    BY <1>6 DEF access
  <2>2. Step(sys, model, stash, TRUE)
    BY <1>2, <1>3, <1>5, <1>6, <2>1 DEF Destroy, Step
  <2> QED BY <1>1, <2>2, StepKeeps
<1>7. CASE check(sys.epochs, cap, required) = "Ok"
  <2>1. PICK r : r = cap.object
    OBVIOUS
  <2>2. /\ r \in Living(model.regions) /\ r \in DOMAIN sys.regions /\ r \in DOMAIN sys.epochs
        /\ sys.regions[r] = model.regions[r].bytes /\ model.regions[r] \in RegionModel
        /\ model.regions[r].alive /\ r \in DOMAIN model.regions
        /\ sys.epochs[r] = model.regions[r].epoch
    BY <1>1, <1>2, <1>7, <2>1, PermittedRegion
  <2>3. PICK region \in RegionModel : region = model.regions[r]
    BY <2>2
  <2>4. PICK changed : changed = [region EXCEPT !.alive = FALSE]
    OBVIOUS
  <2>5. changed \in RegionModel /\ changed.alive = FALSE
    BY <2>4 DEF RegionModel
  <2>6. access(cap, required, 0, 0) = "Ok"
    <3>1. region.bytes \in Bytes
      BY DEF RegionModel
    <3>2. PICK bytes \in Bytes : bytes = region.bytes
      BY <3>1
    <3>3. size_of(bytes) \in 0 .. UsizeValues - 1
      BY BytesFacts
    <3>4. in_bounds(UsizeValues, bytes, 0, 0)
      BY <3>3, ChaosAssumption DEF in_bounds
    <3>5. sys.regions[r] = bytes
      BY <2>2, <2>3, <3>2
    <3>6. checked_range(UsizeValues, sys.epochs, sys.regions, cap, required, 0, 0)
      BY <1>7, <2>1, <2>2, <3>4, <3>5 DEF checked_range, accessible, Permits
    <3> QED BY <1>7, <2>1, <2>2, <3>6 DEF access
  <2>7. PICK real : real = [sys EXCEPT !.epochs = removed(@, r), !.regions = removed(@, r)]
    OBVIOUS
  <2>8. PICK world : world = [model EXCEPT !.regions[r].alive = FALSE]
    OBVIOUS
  <2>9. Step(real, world, stash, TRUE)
    BY <1>2, <1>3, <1>5, <1>7, <2>1, <2>6, <2>7, <2>8 DEF Destroy, Step
  <2>10. /\ DOMAIN real = DOMAIN sys /\ DOMAIN world = DOMAIN model
         /\ \A field \in SysFields \ {"epochs", "regions"} : real[field] = sys[field]
         /\ \A field \in WorldFields \ {"regions"} : world[field] = model[field]
         /\ real.epochs = removed(sys.epochs, r) /\ real.regions = removed(sys.regions, r)
         /\ world.regions = [model.regions EXCEPT ![r] = changed]
    BY <1>1, <2>3, <2>4, <2>7, <2>8 DEF Exact, SysFields, WorldFields
  <2>11. ObjectsOK(real.epochs, real.regions, world.regions)
    <3>1. PICK epochs, regions, modelled : epochs = real.epochs /\ regions = real.regions /\ modelled = world.regions
      OBVIOUS
    <3>2. Replaced(model.regions, modelled, r, TRUE, changed)
      BY <2>2, <2>10, <3>1 DEF Replaced
    <3>3. Replaced(sys.epochs, epochs, r, changed.alive, changed.epoch)
      BY <2>5, <2>10, <3>1 DEF removed, Replaced
    <3>4. Replaced(sys.regions, regions, r, changed.alive, changed.bytes)
      BY <2>5, <2>10, <3>1 DEF removed, Replaced
    <3>5. ObjectsOK(epochs, regions, modelled)
      BY <1>4, <2>2, <2>5, <3>2, <3>3, <3>4, ObjectsOne
    <3> QED BY <3>1, <3>5
  <2>12. DOMAIN world.regions = DOMAIN model.regions
    BY <2>10
  <2>13. Exact(real, world, stash)
    BY <1>1, <2>10, <2>11, <2>12, ExactObjects
  <2> QED BY <2>9, <2>13, StepKeeps
<1> QED BY <1>6, <1>7

(***************************************************************************)
(* A new region, and messages received.                                    *)
(***************************************************************************)

LEMMA GrantedOne ==
  ASSUME NEW table, NEW next \in Nat, next + 1 < HandleSpace, NEW cap
  PROVE  Granted(table, next, <<cap>>) = Extended(table, next, cap)
<1>1. PICK caps : caps = <<cap>>
  OBVIOUS
<1>2. DOMAIN caps = 1 .. 1 /\ Len(caps) = 1 /\ caps[1] = cap /\ 1 \in Nat
  BY <1>1
<1>3. PICK after : after = Granted(table, next, caps)
  OBVIOUS
<1>4. Granting(table, next, caps, 1, after)
  BY <1>2, <1>3, GrantsAre
<1>5. next + 1 - 1 = next /\ next .. next = {next}
  OBVIOUS
<1>6. /\ after = [h \in DOMAIN after |-> after[h]] /\ DOMAIN after = DOMAIN table \union {next}
      /\ after[next] = cap /\ \A h \in DOMAIN table : h # next => after[h] = table[h]
  BY <1>2, <1>4, <1>5 DEF Granting, IsFunction
<1>7. after = Extended(table, next, cap)
  BY <1>6 DEF Extended
<1> QED BY <1>1, <1>3, <1>7

LEMMA TablesOne ==
  ASSUME NEW dom, NEW more, dom \subseteq more, NEW tables, NEW next, TablesOK(dom, tables, next),
         NEW p \in DOMAIN tables, NEW table, NEW counter, TableOK(more, table, counter),
         NEW tables2, Replaced(tables, tables2, p, TRUE, table),
         NEW next2, Replaced(next, next2, p, TRUE, counter)
  PROVE  TablesOK(more, tables2, next2)
<1>1. DOMAIN tables2 = DOMAIN tables /\ DOMAIN next2 = DOMAIN next /\ DOMAIN next = DOMAIN tables
  BY DEF TablesOK, Replaced
<1>2. ASSUME NEW q \in DOMAIN tables2
      PROVE  TableOK(more, tables2[q], next2[q])
  <2>1. CASE q = p
    BY <2>1 DEF Replaced
  <2>2. CASE q # p
    <3>1. tables2[q] = tables[q] /\ next2[q] = next[q]
      BY <1>1, <1>2, <2>2 DEF Replaced
    <3>2. TableOK(dom, tables[q], next[q])
      BY <1>1, <1>2 DEF TablesOK
    <3> QED BY <3>1, <3>2, TableMore
  <2> QED BY <2>1, <2>2
<1>3. \E n \in Nat \ {0} : DOMAIN tables2 = 0 .. n - 1 /\ DOMAIN next2 = 0 .. n - 1
  BY <1>1 DEF TablesOK
<1> QED BY <1>2, <1>3 DEF TablesOK

LEMMA StashGrows ==
  ASSUME NEW dom, NEW held, NEW kept, StashOK(dom, held, kept), NEW p, NEW caps,
         \A k \in DOMAIN caps : caps[k] \in CapsOf(dom)
  PROVE  StashOK(dom, held \union HeldBy(p, caps), kept \union pairs(caps, caps))
<1>1. \A h \in HeldBy(p, caps) : \E k \in DOMAIN caps : h[2] = caps[k]
  BY DEF HeldBy, SetOf
<1>2. \A k \in DOMAIN caps : <<p, caps[k]>> \in HeldBy(p, caps)
  BY DEF HeldBy, SetOf
<1>3. {<<h[2], h[2]>> : h \in HeldBy(p, caps)} = pairs(caps, caps)
  BY <1>1, <1>2 DEF pairs
<1>4. {<<h[2], h[2]>> : h \in held \union HeldBy(p, caps)}
        = {<<h[2], h[2]>> : h \in held} \union {<<h[2], h[2]>> : h \in HeldBy(p, caps)}
  OBVIOUS
<1>5. \A h \in HeldBy(p, caps) : h[2] \in CapsOf(dom)
  BY <1>1
<1> QED BY <1>3, <1>4, <1>5 DEF StashOK

LEMMA ZeroedBytes == ASSUME NEW size \in 0 .. UsizeValues - 1 PROVE zeroed(size) \in Bytes
<1>1. zeroed(size) \in [0 .. size - 1 -> Byte]
  BY DEF zeroed, Byte
<1> QED BY <1>1 DEF Bytes

LEMMA RegionCount ==
  ASSUME NEW epochs, NEW regions, NEW modelled, ObjectsOK(epochs, regions, modelled)
  PROVE  \E m \in Nat : DOMAIN modelled = CHANNELS .. CHANNELS + m - 1 /\ Cardinality(DOMAIN modelled) = m
<1>1. PICK m \in Nat : DOMAIN modelled = CHANNELS .. CHANNELS + m - 1
  BY DEF ObjectsOK
<1>2. CHANNELS \in Int /\ CHANNELS + m - 1 \in Int
  BY ChaosAssumption
<1>3. Cardinality(CHANNELS .. CHANNELS + m - 1)
        = IF CHANNELS > CHANNELS + m - 1 THEN 0 ELSE (CHANNELS + m - 1) - CHANNELS + 1
  BY <1>2, FS_Interval
<1>4. Cardinality(CHANNELS .. CHANNELS + m - 1) = m
  BY SMTT(20), <1>3, ChaosAssumption
<1> QED BY <1>1, <1>4

\* One more region.
LEMMA ObjectsMore ==
  ASSUME NEW epochs, NEW regions, NEW modelled, ObjectsOK(epochs, regions, modelled),
         NEW object, object = CHANNELS + Cardinality(DOMAIN modelled),
         NEW bytes \in Bytes, NEW new, new = [alive |-> TRUE, epoch |-> 0, bytes |-> bytes],
         NEW epochs2, epochs2 = inserted(epochs, object),
         NEW regions2, regions2 = Extended(regions, object, bytes),
         NEW modelled2, modelled2 = Extended(modelled, object, new)
  PROVE  ObjectsOK(epochs2, regions2, modelled2) /\ object \notin Channel /\ object \notin DOMAIN modelled
<1>1. PICK m \in Nat : DOMAIN modelled = CHANNELS .. CHANNELS + m - 1 /\ Cardinality(DOMAIN modelled) = m
  BY RegionCount
<1>2. object = CHANNELS + m /\ object \notin DOMAIN modelled /\ object \notin Channel
  BY SMTT(20), <1>1, ChaosAssumption DEF Channel
<1>3. DOMAIN modelled2 = CHANNELS .. CHANNELS + (m + 1) - 1
  <2>1. CHANNELS .. CHANNELS + (m + 1) - 1 = (CHANNELS .. CHANNELS + m - 1) \union {CHANNELS + m}
    BY ChaosAssumption
  <2> QED BY <1>1, <1>2, <2>1 DEF Extended
<1>4. new \in RegionModel /\ new.alive
  BY DEF RegionModel
<1>5. /\ DOMAIN modelled2 = DOMAIN modelled \union {object} /\ modelled2[object] = new
      /\ \A r \in DOMAIN modelled : modelled2[r] = modelled[r]
  BY <1>2 DEF Extended
<1>6. \A r \in DOMAIN modelled2 : modelled2[r] \in RegionModel
  <2>1. \A r \in DOMAIN modelled : modelled[r] \in RegionModel
    BY DEF ObjectsOK
  <2> QED BY <1>4, <1>5, <2>1
<1>7. Living(modelled2) = Living(modelled) \union {object}
  BY ZenonT(30), <1>4, <1>5 DEF Living
<1>8. /\ DOMAIN epochs2 = DOMAIN epochs \union {object} /\ epochs2[object] = 0
      /\ \A o \in DOMAIN epochs : o # object => epochs2[o] = epochs[o]
  BY DEF inserted
<1>9. /\ DOMAIN regions2 = DOMAIN regions \union {object} /\ regions2[object] = bytes
      /\ \A o \in DOMAIN regions : o # object => regions2[o] = regions[o]
  BY DEF Extended
<1>10. \A c \in Channel : epochs2[c] = 0
  BY <1>2, <1>8 DEF ObjectsOK
<1>11. ASSUME NEW r \in Living(modelled2)
       PROVE  epochs2[r] = modelled2[r].epoch /\ regions2[r] = modelled2[r].bytes
  <2>1. CASE r = object
    BY <1>5, <1>8, <1>9, <2>1
  <2>2. CASE r # object
    <3>1. r \in Living(modelled) /\ r \in DOMAIN modelled
      BY <1>7, <1>11, <2>2 DEF Living
    <3>2. r \in DOMAIN epochs /\ r \in DOMAIN regions /\ epochs[r] = modelled[r].epoch /\ regions[r] = modelled[r].bytes
      BY <3>1 DEF ObjectsOK
    <3> QED BY <1>5, <1>8, <1>9, <2>2, <3>1, <3>2
  <2> QED BY <2>1, <2>2
<1>12. DOMAIN regions2 = Living(modelled2) /\ DOMAIN epochs2 = Channel \union Living(modelled2)
  BY <1>7, <1>8, <1>9 DEF ObjectsOK
<1>13. \E n \in Nat : DOMAIN modelled2 = CHANNELS .. CHANNELS + n - 1
  BY <1>3
<1> QED BY <1>2, <1>6, <1>10, <1>11, <1>12, <1>13 DEF ObjectsOK

LEMMA NewRegionStep ==
  ASSUME HandlesSuffice, ChaosInv, NEW p \in Process, NEW size \in Sizes, NewRegion(p, size)
  PROVE  ChaosInv'
<1>1. Exact(sys, model, stash)
  BY Running DEF NewRegion
<1>2. PICK object : object = CHANNELS + Cardinality(DOMAIN model.regions)
  OBVIOUS
<1>3. PICK cap : cap = [object |-> object, rights |-> RegionRights, epoch |-> 0]
  OBVIOUS
<1>4. PICK bytes \in Bytes : bytes = zeroed(size)
  BY ZeroedBytes, ChaosAssumption
<1>5. PICK new : new = [alive |-> TRUE, epoch |-> 0, bytes |-> bytes]
  OBVIOUS
<1>6. PICK handle, table, caps : /\ handle = sys.next_handle[p] /\ table = sys.tables[p]
                                 /\ caps = <<cap>>
  OBVIOUS
<1>7. PICK real : real = [sys EXCEPT !.epochs = inserted(@, object),
                                     !.regions = Extended(@, object, bytes),
                                     !.tables[p] = Granted(@, handle, caps),
                                     !.next_handle[p] = NextHandle(@, caps),
                                     !.held = @ \union HeldBy(p, caps)]
  OBVIOUS
<1>8. PICK world : world = [model EXCEPT !.regions = Extended(@, object, new),
                                         !.procs[p] = Extended(@, handle, cap)]
  OBVIOUS
<1>9. Step(real, world, stash \union {<<cap, cap>>}, TRUE) /\ handle < MaxHandles
  BY <1>2, <1>3, <1>4, <1>5, <1>6, <1>7, <1>8 DEF NewRegion
<1>10. PICK dom, more : dom = DOMAIN model.regions /\ more = DOMAIN world.regions
  OBVIOUS
<1>11. /\ model.procs = sys.tables /\ p \in DOMAIN sys.tables
       /\ ObjectsOK(sys.epochs, sys.regions, model.regions)
       /\ TablesOK(dom, sys.tables, sys.next_handle)
       /\ FlightOK(dom, sys.queues, model.in_flight) /\ StashOK(dom, sys.held, stash)
  BY <1>1, <1>10 DEF Exact, Process
<1>12. /\ DOMAIN real = SysFields /\ real.failed = FALSE /\ DOMAIN world = WorldFields
       /\ real.epochs = inserted(sys.epochs, object) /\ real.regions = Extended(sys.regions, object, bytes)
       /\ real.tables = [sys.tables EXCEPT ![p] = Granted(table, handle, caps)]
       /\ real.next_handle = [sys.next_handle EXCEPT ![p] = NextHandle(handle, caps)]
       /\ real.held = sys.held \union HeldBy(p, caps) /\ real.queues = sys.queues
       /\ world.regions = Extended(model.regions, object, new) /\ world.in_flight = model.in_flight
       /\ world.procs = [model.procs EXCEPT ![p] = Extended(model.procs[p], handle, cap)]
  BY <1>1, <1>6, <1>7, <1>8 DEF Exact, SysFields, WorldFields
<1>13. /\ ObjectsOK(real.epochs, real.regions, world.regions)
       /\ object \notin Channel /\ object \notin dom
  BY <1>2, <1>5, <1>10, <1>11, <1>12, ObjectsMore
<1>14. more = dom \union {object} /\ more \intersect Channel = {} /\ dom \subseteq more
  <2>1. more = dom \union {object}
    BY <1>10, <1>12 DEF Extended
  <2>2. \A r \in dom : r \notin Channel
    BY <1>10, <1>11, ChannelsAndRegions
  <2> QED BY <1>13, <2>1, <2>2
<1>15. cap \in Capability(more) /\ caps \in Seq(Capability(more)) /\ Len(caps) = 1
  BY <1>3, <1>6, <1>14 DEF Capability, RegionRights, Rights, Right
<1>16. TableOK(more, table, handle) /\ handle \in Nat /\ handle + 1 < HandleSpace
  <2>1. TableOK(dom, table, handle)
    BY <1>6, <1>11 DEF TablesOK
  <2>2. handle \in 0 .. HandleSpace - 1
    BY <2>1 DEF TableOK
  <2>3. handle \in Nat /\ handle + 1 < HandleSpace
    BY SMTT(20), <1>9, <2>2, ProcessAssumption, ChaosAssumption DEF HandlesSuffice
  <2> QED BY <1>14, <2>1, <2>3, TableMore
<1>17. PICK after, counter : after = Granted(table, handle, caps) /\ counter = NextHandle(handle, caps)
  OBVIOUS
<1>18. TableOK(more, after, counter)
  BY <1>14, <1>15, <1>16, <1>17, GrantTable
<1>19. TablesOK(more, real.tables, real.next_handle)
  <2>1. Replaced(sys.tables, real.tables, p, TRUE, after)
    BY <1>11, <1>12, <1>17 DEF Replaced
  <2>2. Replaced(sys.next_handle, real.next_handle, p, TRUE, counter)
    BY <1>11, <1>12, <1>17 DEF Replaced, TablesOK
  <2>3. PICK tables2, next2 : tables2 = real.tables /\ next2 = real.next_handle
    OBVIOUS
  <2>4. TablesOK(more, tables2, next2)
    BY <1>11, <1>14, <1>18, <2>1, <2>2, <2>3, TablesOne
  <2> QED BY <2>3, <2>4
<1>20. world.procs = real.tables
  <2>1. Granted(table, handle, caps) = Extended(table, handle, cap)
    BY <1>6, <1>16, GrantedOne
  <2> QED BY <1>6, <1>11, <1>12, <2>1
<1>21. FlightOK(more, real.queues, world.in_flight)
  BY <1>11, <1>12, <1>14, FlightMore
<1>22. StashOK(more, real.held, stash \union {<<cap, cap>>})
  <2>1. StashOK(more, sys.held, stash)
    BY <1>11, <1>14, StashMore
  <2>2. DOMAIN caps = {1} /\ caps[1] = cap
    BY <1>6
  <2>3. pairs(caps, caps) = {<<cap, cap>>}
    BY <2>2 DEF pairs
  <2>4. \A k \in DOMAIN caps : caps[k] \in CapsOf(more)
    BY <1>14, <1>15, <2>2, RegionCapIs
  <2>5. PICK held : held = sys.held
    OBVIOUS
  <2>6. StashOK(more, held \union HeldBy(p, caps), stash \union pairs(caps, caps))
    BY <2>1, <2>4, <2>5, StashGrows
  <2> QED BY <1>12, <2>3, <2>5, <2>6
<1>23. Exact(real, world, stash \union {<<cap, cap>>})
  BY <1>10, <1>12, <1>13, <1>19, <1>20, <1>21, <1>22 DEF Exact
<1> QED BY <1>9, <1>23, StepKeeps

\* The harness looks up a channel in a process's table.
LEMMA ChannelHandle ==
  ASSUME NEW dom, NEW table, NEW next, TableOK(dom, table, next), NEW c \in Channel,
         NEW h, h = CHOOSE g \in DOMAIN table : table[g].object = c
  PROVE  /\ h \in DOMAIN table /\ table[h].object = c /\ table[h].epoch = 0
         /\ ChannelView \subseteq table[h].rights /\ table[h] \in CapsOf(dom)
<1>1. PICK g \in DOMAIN table : /\ table[g].object = c /\ ChannelView \subseteq table[g].rights
                                /\ \A k \in DOMAIN table : table[k].object = c => k = g
  BY DEF TableOK
<1>2. h \in DOMAIN table /\ table[h].object = c /\ h = g
  BY <1>1
<1>3. table[h] \in CapsOf(dom)
  BY <1>2 DEF TableOK
<1>4. table[h].epoch = 0
  BY <1>2, <1>3, CapFields
<1> QED BY <1>1, <1>2, <1>3, <1>4

LEMMA ChannelCap ==
  ASSUME Exact(sys, model, stash), NEW p \in Process, NEW c \in Channel, NEW cap, cap = channel_cap(p, c)
  PROVE  /\ cap.object = c /\ cap \in CapsOf(DOMAIN model.regions) /\ c \in DOMAIN sys.queues
         /\ Permits(sys.epochs, cap, {"READ"}) /\ Permits(sys.epochs, cap, {"WRITE"})
         /\ Permits(sys.epochs, cap, {"GRANT"})
         /\ channel_handle(p, c) \in DOMAIN sys.tables[p]
         /\ sys.tables[p][channel_handle(p, c)] = cap /\ ChannelView \subseteq cap.rights
         /\ cap.epoch = 0
<1>1. PICK table, h : table = sys.tables[p] /\ h = channel_handle(p, c)
  OBVIOUS
<1>2. model.procs = sys.tables /\ TableOK(DOMAIN model.regions, table, sys.next_handle[p])
  BY <1>1 DEF Exact, TablesOK, Process
<1>3. h = CHOOSE g \in DOMAIN table : table[g].object = c
  BY <1>1, <1>2 DEF channel_handle
<1>4. /\ h \in DOMAIN table /\ table[h].object = c /\ table[h].epoch = 0
      /\ ChannelView \subseteq table[h].rights /\ table[h] \in CapsOf(DOMAIN model.regions)
  BY <1>2, <1>3, ChannelHandle
<1>5. cap = table[h]
  BY <1>1 DEF channel_cap, cap_of
<1>6. Live(sys.epochs, cap)
  BY <1>4, <1>5 DEF Exact, ObjectsOK, Live, object_exists
<1>7. \A required \in SUBSET ChannelView : Permits(sys.epochs, cap, required)
  BY <1>4, <1>5, <1>6, PermitsWhenLive
<1>8. c \in DOMAIN sys.queues
  BY DEF Exact, FlightOK
<1> QED BY <1>1, <1>4, <1>5, <1>7, <1>8 DEF ChannelView

LEMMA ShownFacts ==
  ASSUME NEW dom, NEW queue \in Seq(MessageModel(dom))
  PROVE  /\ DOMAIN Shown(queue) = 1 .. Len(queue) /\ Len(Shown(queue)) = Len(queue)
         /\ Shown(queue) = <<>> <=> queue = <<>>
<1>1. PICK n \in Nat : n = Len(queue) /\ DOMAIN queue = 1 .. n
  OBVIOUS
<1>2. PICK shown : shown = Shown(queue)
  OBVIOUS
<1>3. shown = [k \in 1 .. n |-> [data |-> queue[k].sender, caps |-> queue[k].caps]]
  BY <1>1, <1>2 DEF Shown
<1>4. Len(shown) = n /\ DOMAIN shown = 1 .. n
  BY <1>1, <1>3
<1>5. shown = <<>> <=> n = 0
  BY <1>1, <1>3
<1>6. queue = <<>> <=> n = 0
  BY <1>1
<1> QED BY <1>1, <1>2, <1>4, <1>5, <1>6

LEMMA ShownHead ==
  ASSUME NEW dom, NEW queue \in Seq(MessageModel(dom)), queue # <<>>
  PROVE  /\ Head(queue) \in MessageModel(dom) /\ Tail(queue) \in Seq(MessageModel(dom))
         /\ Head(Shown(queue)) = [data |-> Head(queue).sender, caps |-> Head(queue).caps]
         /\ Tail(Shown(queue)) = Shown(Tail(queue))
<1>1. PICK n \in Nat : n = Len(queue) /\ DOMAIN queue = 1 .. n /\ n > 0
  OBVIOUS
<1>2. PICK shown : shown = Shown(queue)
  OBVIOUS
<1>3. shown = [k \in 1 .. n |-> [data |-> queue[k].sender, caps |-> queue[k].caps]]
  BY <1>1, <1>2 DEF Shown
<1>4. Len(shown) = n
  BY <1>1, <1>3
<1>5. Head(queue) = queue[1] /\ Head(shown) = shown[1]
  BY DEF Head
<1>6. Head(shown) = [data |-> Head(queue).sender, caps |-> Head(queue).caps]
  BY <1>1, <1>3, <1>5
<1>7. PICK S : S = [data : Nat, caps : Seq(Capability(dom))]
  OBVIOUS
<1>8. shown \in Seq(S)
  <2>1. \A k \in 1 .. n : queue[k] \in MessageModel(dom)
    BY <1>1
  <2>2. \A k \in 1 .. n : [data |-> queue[k].sender, caps |-> queue[k].caps] \in S
    BY <1>7, <2>1 DEF MessageModel
  <2> QED BY <1>3, <2>2
<1>9. PICK tail, rest : tail = Tail(queue) /\ rest = Tail(shown)
  OBVIOUS
<1>10. /\ tail \in Seq(MessageModel(dom)) /\ Len(tail) = n - 1
       /\ \A k \in 1 .. n - 1 : tail[k] = queue[k + 1]
  BY <1>1, <1>9
<1>11. rest \in Seq(S) /\ Len(rest) = n - 1 /\ \A k \in 1 .. n - 1 : rest[k] = shown[k + 1]
  <2>1. shown # <<>>
    BY <1>1, <1>4
  <2> QED BY <1>1, <1>4, <1>8, <1>9, <2>1
<1>12. PICK again : again = Shown(tail)
  OBVIOUS
<1>13. again = [k \in 1 .. n - 1 |-> [data |-> tail[k].sender, caps |-> tail[k].caps]]
  BY <1>10, <1>12 DEF Shown
<1>14. ASSUME NEW k \in 1 .. n - 1
       PROVE  again[k] = rest[k]
  <2>1. k + 1 \in 1 .. n
    BY <1>1
  <2> QED BY <1>3, <1>10, <1>11, <1>13, <2>1
<1>15. rest = [k \in 1 .. n - 1 |-> rest[k]] /\ again = [k \in 1 .. n - 1 |-> again[k]]
  BY <1>11, <1>13
<1>16. again = rest
  BY <1>14, <1>15
<1> QED BY <1>2, <1>6, <1>9, <1>10, <1>12, <1>16

LEMMA ShownAppend ==
  ASSUME NEW dom, NEW queue \in Seq(MessageModel(dom)), NEW message \in MessageModel(dom)
  PROVE  /\ Append(queue, message) \in Seq(MessageModel(dom))
         /\ Append(Shown(queue), [data |-> message.sender, caps |-> message.caps])
              = Shown(Append(queue, message))
<1>1. PICK n \in Nat : n = Len(queue) /\ DOMAIN queue = 1 .. n
  OBVIOUS
<1>2. PICK shown, x : shown = Shown(queue) /\ x = [data |-> message.sender, caps |-> message.caps]
  OBVIOUS
<1>3. shown = [k \in 1 .. n |-> [data |-> queue[k].sender, caps |-> queue[k].caps]] /\ Len(shown) = n
  BY <1>1, <1>2, ShownFacts DEF Shown
<1>4. PICK longer : longer = Append(queue, message)
  OBVIOUS
<1>5. /\ DOMAIN longer = 1 .. n + 1 /\ longer[n + 1] = message
      /\ \A k \in 1 .. n : longer[k] = queue[k]
  BY <1>1, <1>4
<1>6. Append(shown, x) = [k \in 1 .. n + 1 |-> IF k <= n THEN shown[k] ELSE x]
  BY <1>3 DEF Append
<1>7. Shown(longer) = [k \in 1 .. n + 1 |-> [data |-> longer[k].sender, caps |-> longer[k].caps]]
  BY <1>5 DEF Shown
<1>8. ASSUME NEW k \in 1 .. n + 1
      PROVE  (IF k <= n THEN shown[k] ELSE x) = [data |-> longer[k].sender, caps |-> longer[k].caps]
  <2>1. CASE k <= n
    BY <1>3, <1>5, <2>1
  <2>2. CASE ~(k <= n)
    <3>1. k = n + 1
      BY <2>2
    <3> QED BY <1>2, <1>5, <2>2, <3>1
  <2> QED BY <2>1, <2>2
<1>9. Append(shown, x) = Shown(longer)
  BY <1>6, <1>7, <1>8
<1> QED BY <1>2, <1>4, <1>9

LEMMA ReceiveNothingStep ==
  ASSUME ChaosInv, NEW p \in Process, NEW c \in Channel, ReceiveNothing(p, c)
  PROVE  ChaosInv'
<1>1. Exact(sys, model, stash)
  BY Running DEF ReceiveNothing
<1>2. PICK cap : cap = channel_cap(p, c)
  OBVIOUS
<1>3. CanReceive(sys, cap) /\ cap.object = c
  BY <1>1, <1>2, ChannelCap DEF CanReceive
<1>4. waiting(sys, cap) = <<>>
  <2>1. PICK queue : queue = model.in_flight[c]
    OBVIOUS
  <2>2. queue \in Seq(MessageModel(DOMAIN model.regions)) /\ sys.queues[c] = Shown(queue)
    BY <1>1, <2>1 DEF Exact, FlightOK
  <2>3. queue = <<>>
    BY <2>1 DEF ReceiveNothing
  <2> QED BY <1>3, <2>2, <2>3, ShownFacts DEF waiting
<1>5. receive(sys, p, cap) = sys
  BY <1>3, <1>4 DEF receive
<1>6. sys.failed = FALSE
  BY <1>1 DEF Exact
<1>7. Step(sys, model, stash, TRUE)
  BY <1>2, <1>5, <1>6 DEF ReceiveNothing, settled, Step
<1> QED BY <1>1, <1>7, StepKeeps

LEMMA ReceiveStep ==
  ASSUME HandlesSuffice, ChaosInv, NEW p \in Process, NEW c \in Channel, Receive(p, c)
  PROVE  ChaosInv'
<1>1. Exact(sys, model, stash)
  BY Running DEF Receive
<1>2. PICK cap : cap = channel_cap(p, c)
  OBVIOUS
<1>3. CanReceive(sys, cap) /\ cap.object = c
  BY <1>1, <1>2, ChannelCap DEF CanReceive
<1>4. PICK dom, queue : dom = DOMAIN model.regions /\ queue = model.in_flight[c]
  OBVIOUS
<1>5. /\ model.procs = sys.tables /\ p \in DOMAIN sys.tables
      /\ ObjectsOK(sys.epochs, sys.regions, model.regions)
      /\ TablesOK(dom, sys.tables, sys.next_handle)
      /\ FlightOK(dom, sys.queues, model.in_flight) /\ StashOK(dom, sys.held, stash)
  BY <1>1, <1>4 DEF Exact, Process
<1>6. queue \in Seq(MessageModel(dom)) /\ queue # <<>> /\ waiting(sys, cap) = Shown(queue)
  BY <1>3, <1>4, <1>5 DEF FlightOK, waiting, Receive
<1>7. PICK expected \in MessageModel(dom) : expected = Head(queue)
  BY <1>6, ShownHead
<1>8. PICK caps \in Seq(Capability(dom)) : caps = expected.caps
  BY DEF MessageModel
<1>9. /\ Head(waiting(sys, cap)) = [data |-> expected.sender, caps |-> caps]
      /\ Tail(waiting(sys, cap)) = Shown(Tail(queue)) /\ Tail(queue) \in Seq(MessageModel(dom))
      /\ waiting(sys, cap) # <<>>
  BY <1>6, <1>7, <1>8, ShownHead, ShownFacts
<1>10. PICK next, table : next = sys.next_handle[p] /\ table = sys.tables[p]
  OBVIOUS
<1>11. PICK granted, counter : granted = Granted(table, next, caps) /\ counter = NextHandle(next, caps)
  OBVIOUS
<1>12. PICK real : real = [sys EXCEPT !.queues[c] = Shown(Tail(queue)),
                                      !.tables[p] = granted, !.next_handle[p] = counter,
                                      !.held = @ \union HeldBy(p, caps)]
  OBVIOUS
<1>13. receive(sys, p, cap) = real
  <2>1. Head(waiting(sys, cap)).caps = caps
    BY <1>9
  <2>2. receive(sys, p, cap)
          = [sys EXCEPT !.queues[c] = Tail(@), !.tables[p] = Granted(@, next, caps),
                        !.next_handle[p] = NextHandle(@, caps), !.held = @ \union HeldBy(p, caps)]
    BY <1>3, <1>9, <1>10, <2>1 DEF receive
  <2>3. Tail(sys.queues[c]) = Shown(Tail(queue))
    BY <1>3, <1>9 DEF waiting
  <2> QED BY <1>10, <1>11, <1>12, <2>2, <2>3
<1>14. PICK world : world = [model EXCEPT !.in_flight[c] = Tail(queue), !.procs[p] = granted]
  OBVIOUS
<1>15. /\ DOMAIN real = SysFields /\ real.failed = FALSE /\ DOMAIN world = WorldFields
       /\ real.epochs = sys.epochs /\ real.regions = sys.regions /\ world.regions = model.regions
       /\ real.tables = [sys.tables EXCEPT ![p] = granted]
       /\ real.next_handle = [sys.next_handle EXCEPT ![p] = counter]
       /\ real.held = sys.held \union HeldBy(p, caps)
       /\ real.queues = [sys.queues EXCEPT ![c] = Shown(Tail(queue))]
       /\ world.in_flight = [model.in_flight EXCEPT ![c] = Tail(queue)]
       /\ world.procs = [model.procs EXCEPT ![p] = granted]
  BY <1>1, <1>12, <1>14 DEF Exact, SysFields, WorldFields
<1>16. PICK L \in Nat : L = Len(caps) /\ DOMAIN caps = 1 .. L
  OBVIOUS
<1>17. TableOK(dom, table, next)
  BY <1>5, <1>10 DEF TablesOK
<1>18. next \in Nat /\ next + L < HandleSpace
  <2>1. next \in 0 .. HandleSpace - 1
    BY <1>17 DEF TableOK
  <2>2. next + L <= MaxHandles
    BY <1>4, <1>7, <1>8, <1>10, <1>16 DEF Receive
  <2> QED BY SMTT(20), <2>1, <2>2, ProcessAssumption, ChaosAssumption DEF HandlesSuffice
<1>19. Granting(table, next, caps, L, granted)
  BY <1>11, <1>16, <1>18, GrantsAre
<1>20. [k \in DOMAIN caps |-> cap_of(real, p, HandleOf(next, k))] = caps
  <2>1. real.tables[p] = granted
    BY <1>5, <1>15
  <2>2. \A k \in DOMAIN caps : cap_of(real, p, HandleOf(next, k)) = caps[k]
    BY <1>16, <1>19, <2>1 DEF Granting, cap_of
  <2>3. caps = [k \in DOMAIN caps |-> caps[k]]
    BY <1>16
  <2> QED BY <2>2, <2>3
<1>21. PICK kept : kept = stash \union pairs(caps, caps)
  OBVIOUS
<1>22. Step(real, world, kept, TRUE)
  <2>1. settled(real) = real
    BY <1>15 DEF settled
  <2>2. world = [model EXCEPT !.in_flight[c] = Tail(@), !.procs[p] = Granted(@, next, caps)]
    BY <1>4, <1>5, <1>10, <1>11, <1>14
  <2>3. Head(model.in_flight[c]).caps = caps /\ Head(model.in_flight[c]).sender = expected.sender
    BY <1>4, <1>7, <1>8
  <2>4. PICK delivered : delivered = Head(waiting(sys, cap))
    OBVIOUS
  <2>5. delivered.caps = caps /\ delivered.data = expected.sender
    BY <1>9, <2>4
  <2>6. pairs([k \in DOMAIN delivered.caps |-> cap_of(real, p, HandleOf(next, k))], caps) = pairs(caps, caps)
    BY <1>20, <2>5
  <2>7. Step(settled(real), world, stash \union pairs([k \in DOMAIN delivered.caps |-> cap_of(real, p, HandleOf(next, k))], caps),
             /\ ~real.failed
             /\ waiting(sys, cap) # <<>>
             /\ delivered.data = expected.sender
             /\ Len(delivered.caps) = Len(caps))
    BY <1>2, <1>10, <1>13, <2>2, <2>3, <2>4 DEF Receive
  <2>8. real.failed = FALSE /\ waiting(sys, cap) # <<>>
    BY <1>9, <1>15
  <2> QED BY <1>21, <2>1, <2>5, <2>6, <2>7, <2>8 DEF Step
<1>23. dom \intersect Channel = {} /\ dom \subseteq dom
  BY <1>4, <1>5, ChannelsAndRegions
<1>24. TableOK(dom, granted, counter)
  BY <1>11, <1>16, <1>17, <1>18, <1>23, GrantTable
<1>25. TablesOK(dom, real.tables, real.next_handle)
  <2>1. Replaced(sys.tables, real.tables, p, TRUE, granted)
    BY <1>5, <1>15 DEF Replaced
  <2>2. Replaced(sys.next_handle, real.next_handle, p, TRUE, counter)
    BY <1>5, <1>15 DEF Replaced, TablesOK
  <2>3. PICK tables2, next2 : tables2 = real.tables /\ next2 = real.next_handle
    OBVIOUS
  <2>4. TablesOK(dom, tables2, next2)
    BY <1>5, <1>23, <1>24, <2>1, <2>2, <2>3, TablesOne
  <2> QED BY <2>3, <2>4
<1>26. FlightOK(dom, real.queues, world.in_flight)
  BY <1>5, <1>9, <1>15 DEF FlightOK
<1>27. StashOK(dom, real.held, kept)
  <2>1. \A k \in DOMAIN caps : caps[k] \in CapsOf(dom)
    <3>1. \A k \in DOMAIN caps : caps[k] \in Capability(dom)
      BY <1>16
    <3> QED BY <1>23, <3>1, RegionCapIs
  <2>2. PICK held : held = sys.held
    OBVIOUS
  <2>3. StashOK(dom, held \union HeldBy(p, caps), stash \union pairs(caps, caps))
    BY <1>5, <2>1, <2>2, StashGrows
  <2> QED BY <1>15, <1>21, <2>2, <2>3
<1>28. Exact(real, world, kept)
  BY <1>4, <1>5, <1>15, <1>25, <1>26, <1>27 DEF Exact
<1> QED BY <1>22, <1>28, StepKeeps

(***************************************************************************)
(* A batch: the model rejects what the process crate rejects, and is left  *)
(* with the same.                                                          *)
(***************************************************************************)

\* Grants of regions in a table, as the harness makes them up.
GrantsOf(table, grants, n) ==
  /\ n \in Nat /\ DOMAIN grants = 1 .. n /\ Len(grants) = n /\ IsFunction(grants)
  /\ \A i \in 1 .. n : /\ grants[i].kind \in {"Transfer", "Derive", "Move"}
                       /\ grants[i].handle \in DOMAIN table
                       /\ table[grants[i].handle].object \notin Channel

LEMMA BatchesAre ==
  ASSUME NEW p \in Process, NEW grants \in Batches(p)
  PROVE  \E n \in Nat : GrantsOf(model.procs[p], grants, n)
<1> DEFINE handles == {h \in DOMAIN model.procs[p] : is_region(model.procs[p][h])}
           choices == {Transfer(h) : h \in handles} \union {Move(h) : h \in handles}
                        \union {Derive(h, rights) : h \in handles, rights \in ArbRights}
<1>1. PICK n \in 0 .. MaxBatch : grants \in [1 .. n -> choices]
  BY DEF Batches
<1>2. n \in Nat /\ Len(grants) = n
  BY <1>1, ChaosAssumption
<1>3. ASSUME NEW grant \in choices
      PROVE  grant.kind \in {"Transfer", "Derive", "Move"} /\ grant.handle \in handles
  BY DEF Transfer, Move, Derive
<1>4. \A i \in 1 .. n : grants[i] \in choices
  BY <1>1
<1>5. \A h \in handles : h \in DOMAIN model.procs[p] /\ model.procs[p][h].object \notin Channel
  BY DEF is_region
<1> HIDE DEF choices, handles
<1>6. DOMAIN grants = 1 .. n /\ IsFunction(grants)
  BY <1>1 DEF IsFunction
<1> QED BY <1>2, <1>3, <1>4, <1>5, <1>6 DEF GrantsOf

LEMMA GrantedCap ==
  ASSUME NEW dom, NEW table, NEW next, TableOK(dom, table, next), NEW grants, NEW n, GrantsOf(table, grants, n),
         NEW i \in 1 .. n
  PROVE  /\ table[grants[i].handle] \in CapsOf(dom) /\ table[grants[i].handle] \in Capability(dom)
         /\ table[grants[i].handle].object \in dom /\ table[grants[i].handle].object \notin Channel
         /\ grants[i].kind \in {"Transfer", "Derive", "Move"}
<1>1. PICK h \in DOMAIN table : h = grants[i].handle /\ table[h].object \notin Channel
  BY DEF GrantsOf
<1>2. table[h] \in CapsOf(dom)
  BY DEF TableOK
<1>3. table[h] \in Capability(dom)
  BY <1>1, <1>2, IsRegionCap
<1>4. table[h].object \in dom
  BY <1>3 DEF Capability
<1> QED BY <1>1, <1>2, <1>3, <1>4 DEF GrantsOf

\* `predict_batch` predicts `resolve_grants`.
LEMMA PredictsBatch ==
  ASSUME Exact(sys, model, stash), NEW p \in Process, NEW grants, NEW n, GrantsOf(model.procs[p], grants, n)
  PROVE  predict_batch(model, p, grants) <=> ValidBatch(sys.epochs, sys.tables[p], grants)
<1>1. PICK table : table = sys.tables[p] /\ table = model.procs[p]
  BY DEF Exact
<1>2. TableOK(DOMAIN model.regions, table, sys.next_handle[p]) /\ GrantsOf(table, grants, n)
  BY <1>1 DEF Exact, TablesOK, Process
<1>3. ObjectsOK(sys.epochs, sys.regions, model.regions)
  BY DEF Exact
<1>4. PICK grant_ : grant_ = {"GRANT"}
  OBVIOUS
<1>5. PICK destroy_ : destroy_ = {"DESTROY"}
  OBVIOUS
<1>6. ASSUME NEW i \in 1 .. n
      PROVE  Authorised(sys.epochs, table, grants[i]) <=>
               /\ grants[i].kind = "Derive" =>
                    /\ predict_check(model, table[grants[i].handle], grant_) = "Ok"
                    /\ grants[i].rights \subseteq table[grants[i].handle].rights
               /\ grants[i].kind = "Move" => predict_check(model, table[grants[i].handle], destroy_) = "Ok"
  <2>1. PICK cap \in CapsOf(DOMAIN model.regions) : cap = table[grants[i].handle]
    BY <1>2, GrantedCap
  <2>2. check(sys.epochs, cap, grant_) = predict_check(model, cap, grant_)
    BY ZenonT(30), <1>3, Predicts
  <2>3. check(sys.epochs, cap, destroy_) = predict_check(model, cap, destroy_)
    BY ZenonT(30), <1>3, Predicts
  <2> QED BY <1>4, <1>5, <2>1, <2>2, <2>3 DEF Authorised, CanDerive, Permits, contains
<1>7. ASSUME NEW i \in 1 .. n, NEW j \in 1 .. n
      PROVE  "Derive" \notin {grants[i].kind, grants[j].kind} <=> leaves(grants[i]) /\ leaves(grants[j])
  BY <1>2 DEF GrantsOf, leaves
<1>8. DOMAIN grants = 1 .. n
  BY <1>2 DEF GrantsOf
<1>9. (\A i, j \in DOMAIN grants :
         i # j /\ "Derive" \notin {grants[i].kind, grants[j].kind} => grants[i].handle # grants[j].handle)
        <=> NoDuplicateTransfer(grants)
  BY <1>7, <1>8 DEF NoDuplicateTransfer
<1>10. moves_apart(model, p, grants) <=> NoMoveConflict(table, grants)
  BY <1>1 DEF moves_apart, NoMoveConflict
<1>11. \A i \in DOMAIN grants : grants[i].handle \in DOMAIN table
  BY <1>2, <1>8 DEF GrantsOf
<1>12. (\A i \in DOMAIN grants : Authorised(sys.epochs, table, grants[i])) <=>
         \A i \in DOMAIN grants :
           /\ grants[i].kind = "Derive" =>
                /\ predict_check(model, table[grants[i].handle], grant_) = "Ok"
                /\ grants[i].rights \subseteq table[grants[i].handle].rights
           /\ grants[i].kind = "Move" => predict_check(model, table[grants[i].handle], destroy_) = "Ok"
  BY <1>6, <1>8
<1> QED BY <1>1, <1>4, <1>5, <1>9, <1>10, <1>11, <1>12 DEF predict_batch, ValidBatch

LEMMA MovedIsPermitted ==
  ASSUME NEW epochs, NEW table, NEW grants, NEW n, GrantsOf(table, grants, n),
         ValidBatch(epochs, table, grants), NEW i \in 1 .. n, grants[i].kind = "Move"
  PROVE  check(epochs, table[grants[i].handle], {"DESTROY"}) = "Ok"
BY DEF ValidBatch, GrantsOf, Authorised, Permits

\* `apply_grants_model` resolves to what is delivered.
LEMMA ResolvedIs ==
  ASSUME Exact(sys, model, stash), NEW p \in Process, NEW grants, NEW n, GrantsOf(model.procs[p], grants, n),
         ValidBatch(sys.epochs, sys.tables[p], grants), NEW caps, caps = resolved(model, p, grants)
  PROVE  /\ caps = Delivered(sys.epochs, sys.tables[p], grants)
         /\ caps \in Seq(Capability(DOMAIN model.regions)) /\ Len(caps) = n /\ DOMAIN caps = 1 .. n
<1>1. PICK table, dom : table = sys.tables[p] /\ table = model.procs[p] /\ dom = DOMAIN model.regions
  BY DEF Exact
<1>2. TableOK(dom, table, sys.next_handle[p]) /\ GrantsOf(table, grants, n) /\ DOMAIN grants = 1 .. n /\ n \in Nat
  BY <1>1 DEF Exact, TablesOK, Process, GrantsOf
<1>3. PICK delivered : delivered = Delivered(sys.epochs, table, grants)
  OBVIOUS
<1>4. caps = [i \in 1 .. n |-> caps[i]] /\ delivered = [i \in 1 .. n |-> delivered[i]]
  <2> DEFINE held(i) == model.procs[p][grants[i].handle]
             f(i) == CASE grants[i].kind = "Transfer" -> held(i)
                       [] grants[i].kind = "Derive" -> [held(i) EXCEPT !.rights = grants[i].rights]
                       [] grants[i].kind = "Move" -> [held(i) EXCEPT !.epoch = model.regions[held(i).object].epoch + 1]
             g(i) == CASE grants[i].kind = "Transfer" -> table[grants[i].handle]
                       [] grants[i].kind = "Derive" -> derived(table[grants[i].handle], grants[i].rights)
                       [] grants[i].kind = "Move" -> reissued(sys.epochs, table[grants[i].handle])
  <2>1. caps = [i \in DOMAIN grants |-> f(i)]
    BY DEF resolved
  <2>2. delivered = [i \in DOMAIN grants |-> g(i)]
    BY <1>3 DEF Delivered
  <2> HIDE DEF f, g
  <2> QED BY <1>2, <2>1, <2>2
<1>5. ASSUME NEW i \in 1 .. n
      PROVE  caps[i] = delivered[i] /\ caps[i] \in Capability(dom)
  <2>1. PICK held \in Capability(dom) : held = table[grants[i].handle]
    BY <1>2, GrantedCap
  <2>2. CASE grants[i].kind = "Transfer"
    <3>1. caps[i] = held /\ delivered[i] = held
      BY <1>1, <1>2, <1>3, <2>1, <2>2 DEF resolved, Delivered
    <3> QED BY ZenonT(30), <3>1
  <2>3. CASE grants[i].kind = "Derive"
    <3>1. PICK rights : rights = grants[i].rights
      BY ZenonT(30)
    <3>2. caps[i] = [held EXCEPT !.rights = rights] /\ delivered[i] = [held EXCEPT !.rights = rights]
      BY <1>1, <1>2, <1>3, <2>1, <2>3, <3>1 DEF resolved, Delivered, derived
    <3>3. rights \subseteq held.rights
      BY <1>1, <1>2, <2>1, <2>3, <3>1 DEF ValidBatch, Authorised, CanDerive, contains
    <3>4. held.rights \in SUBSET Right
      BY DEF Capability, Rights
    <3>5. rights \in Rights
      BY <3>3, <3>4 DEF Rights
    <3> QED BY <3>2, <3>5 DEF Capability
  <2>4. CASE grants[i].kind = "Move"
    <3>1. /\ held.object \in DOMAIN sys.epochs /\ model.regions[held.object] \in RegionModel
          /\ sys.epochs[held.object] = model.regions[held.object].epoch
      <4>1. PICK cap \in CapsOf(dom) : cap = held /\ cap.object \notin Channel
        BY <1>2, <2>1, GrantedCap
      <4>2. check(sys.epochs, cap, {"DESTROY"}) = "Ok"
        BY <1>1, <1>2, <2>1, <2>4, <4>1, MovedIsPermitted
      <4>3. PICK required : required = {"DESTROY"}
        OBVIOUS
      <4> QED BY <1>1, <4>1, <4>2, <4>3, PermittedRegion
    <3>2. PICK epoch \in Nat : epoch = model.regions[held.object].epoch
      BY <3>1 DEF RegionModel
    <3>3. caps[i] = [held EXCEPT !.epoch = epoch + 1]
      BY <1>1, <1>2, <2>1, <2>4, <3>2 DEF resolved
    <3>4. bumped(sys.epochs, held.object)[held.object] = epoch + 1
      BY <3>1, <3>2 DEF bumped
    <3>5. delivered[i] = [held EXCEPT !.epoch = epoch + 1]
      BY <1>2, <1>3, <2>1, <2>4, <3>4 DEF Delivered, reissued
    <3> QED BY <3>2, <3>3, <3>5 DEF Capability
  <2> QED BY <1>2, <2>2, <2>3, <2>4 DEF GrantsOf
<1>6. caps = delivered /\ caps \in Seq(Capability(dom)) /\ Len(caps) = n /\ DOMAIN caps = 1 .. n
  <2>1. \A i \in 1 .. n : caps[i] \in Capability(dom)
    BY <1>5
  <2>2. caps = delivered
    BY <1>4, <1>5
  <2> QED BY <1>2, <1>4, <2>1, <2>2
<1> QED BY <1>1, <1>3, <1>6

\* What a process keeps still has every channel, for channels are only derived from.
LEMMA RemainingOK ==
  ASSUME NEW dom, NEW table, NEW next, TableOK(dom, table, next), NEW grants, NEW n,
         GrantsOf(table, grants, n), NEW left, left = Remaining(table, grants)
  PROVE  TableOK(dom, left, next)
<1>1. DOMAIN left \subseteq DOMAIN table /\ \A h \in DOMAIN left : left[h] = table[h]
  BY DEF Remaining
<1>2. left = [h \in DOMAIN left |-> left[h]]
  BY DEF Remaining
<1>3. \A h \in DOMAIN left : left[h] \in CapsOf(dom)
  BY <1>1 DEF TableOK
<1>4. left \in [DOMAIN left -> CapsOf(dom)]
  BY <1>2, <1>3
<1>5. \A h \in DOMAIN table : table[h].object \in Channel => h \in DOMAIN left
  BY DEF Remaining, GrantsOf
<1>6. ASSUME NEW c \in Channel
      PROVE  \E h \in DOMAIN left :
               /\ left[h].object = c /\ ChannelView \subseteq left[h].rights
               /\ \A g \in DOMAIN left : left[g].object = c => g = h
  <2>1. PICK h \in DOMAIN table : /\ table[h].object = c /\ ChannelView \subseteq table[h].rights
                                  /\ \A g \in DOMAIN table : table[g].object = c => g = h
    BY DEF TableOK
  <2>2. h \in DOMAIN left
    BY <1>5, <2>1
  <2> QED BY <1>1, <2>1, <2>2
<1>7. next \in 0 .. HandleSpace - 1 /\ DOMAIN left \subseteq 0 .. next - 1
  BY <1>1 DEF TableOK
<1> QED BY <1>4, <1>6, <1>7 DEF TableOK

\* The model after a batch, left with the capabilities given.
Left(world, p, left) ==
  /\ DOMAIN world = WorldFields /\ world.in_flight = model.in_flight
  /\ world.procs = [model.procs EXCEPT ![p] = left]
  /\ DOMAIN world.regions = DOMAIN model.regions

LEMMA AppliedIs ==
  ASSUME Exact(sys, model, stash), NEW p \in Process, NEW grants, NEW n, GrantsOf(model.procs[p], grants, n),
         ValidBatch(sys.epochs, sys.tables[p], grants),
         NEW world, world = applied(model, p, grants),
         NEW left, left = Remaining(sys.tables[p], grants),
         NEW epochs, epochs = AfterBatch(sys.epochs, sys.tables[p], grants)
  PROVE  /\ Left(world, p, left)
         /\ ObjectsOK(epochs, sys.regions, world.regions)
<1>1. PICK table, dom : table = sys.tables[p] /\ table = model.procs[p] /\ dom = DOMAIN model.regions
  BY DEF Exact
<1>2. /\ TableOK(dom, table, sys.next_handle[p]) /\ GrantsOf(table, grants, n)
      /\ ObjectsOK(sys.epochs, sys.regions, model.regions)
      /\ DOMAIN model = WorldFields
  BY <1>1 DEF Exact, TablesOK, Process
<1>3. DOMAIN grants = 1 .. n /\ \A i \in 1 .. n : grants[i].kind \in {"Transfer", "Derive", "Move"}
  BY <1>2 DEF GrantsOf
<1>4. PICK gone : gone = {grants[i].handle : i \in {j \in DOMAIN grants : grants[j].kind \in {"Transfer", "Move"}}}
  OBVIOUS
<1>5. PICK moved : moved = {table[grants[i].handle].object : i \in {j \in DOMAIN grants : grants[j].kind \in {"Move"}}}
  OBVIOUS
<1>6. PICK modelled : modelled = [r \in dom |-> IF r \in moved THEN next_epoch(model.regions[r]) ELSE model.regions[r]]
  OBVIOUS
<1>7. PICK rest : rest = [h \in DOMAIN table \ gone |-> table[h]]
  OBVIOUS
<1>8. world = [model EXCEPT !.procs[p] = rest, !.regions = modelled]
  BY <1>1, <1>4, <1>5, <1>6, <1>7 DEF applied
<1>9. rest = left
  <2>1. {k \in DOMAIN table : \A i \in DOMAIN grants : leaves(grants[i]) => grants[i].handle # k} = DOMAIN table \ gone
    BY <1>4 DEF leaves
  <2> QED BY <1>1, <1>7, <2>1 DEF Remaining
<1>10. Left(world, p, left)
  <2>1. DOMAIN world = WorldFields /\ world.in_flight = model.in_flight
    BY <1>2, <1>8 DEF WorldFields
  <2>2. world.procs = [model.procs EXCEPT ![p] = left] /\ world.regions = modelled
    BY <1>2, <1>8, <1>9 DEF WorldFields
  <2> QED BY <1>1, <1>6, <2>1, <2>2 DEF Left
<1>11. moved = Moved(table, grants)
  BY <1>5 DEF Moved
<1>12. \A c \in Channel : c \notin moved
  BY <1>2, <1>3, <1>5 DEF GrantsOf
<1>13. epochs = [o \in DOMAIN sys.epochs |-> sys.epochs[o] + (IF o \in moved THEN 1 ELSE 0)]
  BY <1>1, <1>11 DEF AfterBatch
<1>14. ASSUME NEW r \in dom
       PROVE  /\ modelled[r] \in RegionModel /\ modelled[r].alive = model.regions[r].alive
              /\ modelled[r].bytes = model.regions[r].bytes
              /\ modelled[r].epoch = model.regions[r].epoch + (IF r \in moved THEN 1 ELSE 0)
  <2>1. PICK region \in RegionModel : region = model.regions[r]
    BY <1>1, <1>2 DEF ObjectsOK
  <2>2. CASE r \in moved
    <3>1. modelled[r] = [region EXCEPT !.epoch = @ + 1]
      BY <1>6, <2>1, <2>2 DEF next_epoch
    <3> QED BY <2>1, <2>2, <3>1 DEF RegionModel
  <2>3. CASE r \notin moved
    <3>1. modelled[r] = region
      BY <1>6, <2>1, <2>3
    <3> QED BY <2>1, <2>3, <3>1 DEF RegionModel
  <2> QED BY <2>2, <2>3
<1>15. Living(modelled) = Living(model.regions)
  <2>1. DOMAIN modelled = dom
    BY <1>6
  <2> QED BY <1>1, <1>14, <2>1 DEF Living
<1>16. \A c \in Channel : epochs[c] = 0
  BY <1>2, <1>12, <1>13 DEF ObjectsOK
<1>17. ASSUME NEW r \in Living(modelled)
       PROVE  epochs[r] = modelled[r].epoch /\ sys.regions[r] = modelled[r].bytes
  <2>1. r \in Living(model.regions) /\ r \in dom
    BY <1>1, <1>15, <1>17 DEF Living
  <2>2. r \in DOMAIN sys.epochs /\ sys.epochs[r] = model.regions[r].epoch /\ sys.regions[r] = model.regions[r].bytes
    BY <1>2, <2>1 DEF ObjectsOK
  <2> QED BY <1>13, <1>14, <2>1, <2>2
<1>18. /\ \E m \in Nat : DOMAIN modelled = CHANNELS .. CHANNELS + m - 1
       /\ \A r \in DOMAIN modelled : modelled[r] \in RegionModel
  BY <1>1, <1>2, <1>6, <1>14 DEF ObjectsOK
<1>19. DOMAIN sys.regions = Living(modelled) /\ DOMAIN epochs = Channel \union Living(modelled)
  BY <1>2, <1>13, <1>15 DEF ObjectsOK
<1>20. ObjectsOK(epochs, sys.regions, modelled)
  BY <1>16, <1>17, <1>18, <1>19 DEF ObjectsOK
<1>21. world.regions = modelled
  BY <1>2, <1>8 DEF WorldFields
<1> QED BY <1>10, <1>20, <1>21

LEMMA TableOfProcess ==
  ASSUME Exact(sys, model, stash), NEW p \in Process
  PROVE  /\ p \in DOMAIN sys.tables /\ p \in Nat /\ model.procs[p] = sys.tables[p]
         /\ TableOK(DOMAIN model.regions, sys.tables[p], sys.next_handle[p])
<1>1. model.procs = sys.tables /\ TablesOK(DOMAIN model.regions, sys.tables, sys.next_handle)
  BY DEF Exact
<1>2. p \in DOMAIN sys.tables
  BY <1>1 DEF Process
<1>3. PICK n \in Nat \ {0} : DOMAIN sys.tables = 0 .. n - 1
  BY <1>1 DEF TablesOK
<1>4. p \in Nat
  BY <1>2, <1>3
<1> QED BY <1>1, <1>2, <1>4 DEF TablesOK

LEMMA SendStep ==
  ASSUME ChaosInv, NEW p \in Process, NEW c \in Channel, NEW grants \in Batches(p), Send(p, c, grants)
  PROVE  ChaosInv'
<1>1. Exact(sys, model, stash)
  BY Running DEF Send
<1>2. PICK n \in Nat : GrantsOf(model.procs[p], grants, n)
  BY BatchesAre
<1>3. predict_batch(model, p, grants) <=> ValidBatch(sys.epochs, sys.tables[p], grants)
  BY <1>1, <1>2, PredictsBatch
<1>4. PICK cap : cap = channel_cap(p, c)
  OBVIOUS
<1>5. /\ cap.object = c /\ c \in DOMAIN sys.queues
      /\ CanSend(sys, p, cap, grants) <=> ValidBatch(sys.epochs, sys.tables[p], grants)
  BY <1>1, <1>4, ChannelCap DEF CanSend
<1>6. DOMAIN sys = SysFields /\ sys.failed = FALSE
  BY <1>1 DEF Exact
<1>7. CASE ~predict_batch(model, p, grants)
  <2>1. send(sys, p, cap, grants, p) = Failed(sys)
    BY <1>3, <1>5, <1>7 DEF send
  <2>2. Failed(sys).failed = TRUE
    BY <1>6 DEF Failed, SysFields
  <2>3. PICK after : after = Failed(sys)
    OBVIOUS
  <2>4. settled(after) = sys
    BY <2>2, <2>3 DEF settled
  <2>5. after_batch(p, grants) = model
    BY <1>7 DEF after_batch
  <2>6. Step(settled(after), model, stash, after.failed)
    BY <1>4, <1>7, <2>1, <2>3, <2>5 DEF Send
  <2>7. Step(sys, model, stash, TRUE)
    BY <2>2, <2>3, <2>4, <2>6 DEF Step
  <2> QED BY <1>1, <2>7, StepKeeps
<1>8. CASE predict_batch(model, p, grants)
  <2>1. PICK table, dom : table = sys.tables[p] /\ dom = DOMAIN model.regions
    OBVIOUS
  <2>2. /\ p \in DOMAIN sys.tables /\ p \in Nat /\ model.procs[p] = table
        /\ TableOK(dom, table, sys.next_handle[p])
    BY <1>1, <2>1, TableOfProcess
  <2>3. PICK left, epochs : left = Remaining(table, grants) /\ epochs = AfterBatch(sys.epochs, table, grants)
    OBVIOUS
  <2>4. PICK applied_ : applied_ = applied(model, p, grants)
    OBVIOUS
  <2>5. PICK caps : caps = resolved(model, p, grants)
    OBVIOUS
  <2>6. Left(applied_, p, left) /\ ObjectsOK(epochs, sys.regions, applied_.regions)
    BY <1>1, <1>2, <1>3, <1>8, <2>1, <2>3, <2>4, AppliedIs
  <2>7. caps = Delivered(sys.epochs, table, grants) /\ caps \in Seq(Capability(dom))
    BY <1>1, <1>2, <1>3, <1>8, <2>1, <2>5, ResolvedIs
  <2>8. TableOK(dom, left, sys.next_handle[p])
    BY <1>2, <2>2, <2>3, RemainingOK
  <2>9. PICK queue, message : queue = model.in_flight[c] /\ message = [sender |-> p, caps |-> caps]
    OBVIOUS
  <2>10. FlightOK(dom, sys.queues, model.in_flight) /\ TablesOK(dom, sys.tables, sys.next_handle)
         /\ model.procs = sys.tables /\ StashOK(dom, sys.held, stash)
    BY <1>1, <2>1 DEF Exact
  <2>11. queue \in Seq(MessageModel(dom)) /\ sys.queues[c] = Shown(queue)
    BY <2>9, <2>10 DEF FlightOK
  <2>12. message \in MessageModel(dom)
    BY <2>2, <2>7, <2>9 DEF MessageModel
  <2>13. PICK longer : longer = Append(queue, message)
    OBVIOUS
  <2>14. /\ longer \in Seq(MessageModel(dom))
         /\ Append(Shown(queue), [data |-> p, caps |-> caps]) = Shown(longer)
    <3>1. message.sender = p /\ message.caps = caps
      BY <2>9
    <3> QED BY <2>11, <2>12, <2>13, <3>1, ShownAppend
  <2>15. PICK real : real = [sys EXCEPT !.epochs = epochs, !.tables[p] = left, !.queues[c] = Shown(longer)]
    OBVIOUS
  <2>16. send(sys, p, cap, grants, p) = real
    <3>1. CanSend(sys, p, cap, grants)
      BY <1>3, <1>5, <1>8
    <3>2. send(sys, p, cap, grants, p)
            = [sys EXCEPT !.epochs = AfterBatch(@, table, grants), !.tables[p] = Remaining(@, grants),
                          !.queues[c] = Append(@, [data |-> p, caps |-> Delivered(sys.epochs, table, grants)])]
      BY <1>5, <2>1, <3>1 DEF send
    <3> QED BY <1>6, <2>1, <2>3, <2>7, <2>11, <2>14, <2>15, <3>2 DEF SysFields
  <2>17. PICK world : world = [applied_ EXCEPT !.in_flight[c] = longer]
    OBVIOUS
  <2>18. /\ DOMAIN real = SysFields /\ real.failed = FALSE /\ real.epochs = epochs /\ real.regions = sys.regions
         /\ real.tables = [sys.tables EXCEPT ![p] = left] /\ real.next_handle = sys.next_handle
         /\ real.held = sys.held /\ real.queues = [sys.queues EXCEPT ![c] = Shown(longer)]
    BY <1>6, <2>15 DEF SysFields
  <2>19. /\ DOMAIN world = WorldFields /\ world.procs = [model.procs EXCEPT ![p] = left]
         /\ world.regions = applied_.regions /\ world.in_flight = [model.in_flight EXCEPT ![c] = longer]
         /\ DOMAIN world.regions = dom
    BY <2>1, <2>6, <2>17 DEF Left, WorldFields
  <2>20. Step(real, world, stash, TRUE)
    <3>1. world = [applied_ EXCEPT !.in_flight[c] = Append(@, message)]
      BY <2>6, <2>9, <2>13, <2>17 DEF Left
    <3>2. after_batch(p, grants) = applied_
      BY <1>8, <2>4 DEF after_batch
    <3>3. Step(settled(real), world, stash, ~real.failed)
      BY <1>4, <1>8, <2>5, <2>9, <2>16, <3>1, <3>2 DEF Send
    <3> QED BY <2>18, <3>3 DEF settled, Step
  <2>21. TablesOK(dom, real.tables, real.next_handle)
    <3>1. Replaced(sys.tables, real.tables, p, TRUE, left)
      BY <2>2, <2>18 DEF Replaced
    <3>2. PICK next, counter : next = sys.next_handle /\ counter = sys.next_handle[p]
      OBVIOUS
    <3>3. Replaced(next, next, p, TRUE, counter)
      BY <3>2 DEF Replaced
    <3>4. PICK tables2 : tables2 = real.tables
      OBVIOUS
    <3>5. TablesOK(dom, tables2, next)
      BY <2>2, <2>8, <2>10, <3>1, <3>2, <3>3, <3>4, TablesOne
    <3> QED BY <2>18, <3>2, <3>4, <3>5
  <2>22. FlightOK(dom, real.queues, world.in_flight)
    BY <2>10, <2>14, <2>18, <2>19 DEF FlightOK
  <2>23. world.procs = real.tables
    BY <2>10, <2>18, <2>19
  <2>24. Exact(real, world, stash)
    BY <2>6, <2>10, <2>18, <2>19, <2>21, <2>22, <2>23 DEF Exact
  <2> QED BY <2>20, <2>24, StepKeeps
<1> QED BY <1>7, <1>8

(***************************************************************************)
(* Spawning: a view of every channel, then the grants.                     *)
(***************************************************************************)

\* A sequence of f, for each channel, then g.
Joined(f, g, n, all) ==
  /\ IsFunction(all) /\ DOMAIN all = 1 .. CHANNELS + n
  /\ \A k \in 1 .. CHANNELS : all[k] = f[k]
  /\ \A i \in 1 .. n : all[CHANNELS + i] = g[i]

LEMMA Join ==
  ASSUME NEW f, IsFunction(f), DOMAIN f = 1 .. CHANNELS,
         NEW n \in Nat, NEW g, IsFunction(g), DOMAIN g = 1 .. n
  PROVE  Joined(f, g, n, f \o g) /\ Len(f \o g) = CHANNELS + n
<1>1. PICK S : S = {f[k] : k \in 1 .. CHANNELS} \union {g[i] : i \in 1 .. n}
  OBVIOUS
<1>2. CHANNELS \in Nat
  BY ChaosAssumption
<1>3. f \in [1 .. CHANNELS -> S] /\ g \in [1 .. n -> S]
  BY <1>1 DEF IsFunction
<1>4. f \in Seq(S) /\ g \in Seq(S) /\ Len(f) = CHANNELS /\ Len(g) = n
  BY <1>2, <1>3
<1>5. PICK all : all = f \o g
  OBVIOUS
<1>6. all \in Seq(S) /\ Len(all) = CHANNELS + n
  <2>1. f \in Seq(S) /\ g \in Seq(S)
    BY <1>4
  <2>2. f \o g \in Seq(S) /\ Len(f \o g) = Len(f) + Len(g)
    BY ONLY <2>1
  <2> QED BY <1>4, <1>5, <2>2
<1>7. \A k \in 1 .. CHANNELS : all[k] = f[k]
  BY <1>2, <1>4, <1>5
<1>8. ASSUME NEW i \in 1 .. n
      PROVE  all[CHANNELS + i] = g[i]
  <2>1. PICK k \in Nat : k = CHANNELS + i
    BY <1>2
  <2>2. k > CHANNELS /\ k <= CHANNELS + n /\ k - CHANNELS = i
    BY <1>2, <2>1
  <2>3. all[k] = g[k - CHANNELS]
    BY <1>2, <1>4, <1>5, <2>1, <2>2
  <2> QED BY <2>1, <2>2, <2>3
<1>9. DOMAIN all = 1 .. CHANNELS + n /\ IsFunction(all)
  BY <1>6 DEF IsFunction
<1> QED BY <1>5, <1>6, <1>7, <1>8, <1>9 DEF Joined

\* Two sequences put together alike are the same.
LEMMA SameJoin ==
  ASSUME NEW n \in Nat, NEW f, NEW g, NEW all, NEW all2, Joined(f, g, n, all),
         NEW f2, NEW g2, Joined(f2, g2, n, all2),
         \A k \in 1 .. CHANNELS : f[k] = f2[k], \A i \in 1 .. n : g[i] = g2[i]
  PROVE  all = all2
<1>1. ASSUME NEW k \in 1 .. CHANNELS + n
      PROVE  all[k] = all2[k]
  <2>1. CASE k <= CHANNELS
    <3>1. k \in 1 .. CHANNELS
      BY <2>1, ChaosAssumption
    <3> QED BY <3>1 DEF Joined
  <2>2. CASE ~(k <= CHANNELS)
    <3>1. k - CHANNELS \in 1 .. n /\ CHANNELS + (k - CHANNELS) = k
      BY SMTT(20), <2>2, ChaosAssumption
    <3>2. PICK i \in 1 .. n : k = CHANNELS + i
      BY <3>1
    <3> QED BY <3>2 DEF Joined
  <2> QED BY <2>1, <2>2
<1>2. DOMAIN all = 1 .. CHANNELS + n /\ DOMAIN all2 = 1 .. CHANNELS + n
  BY DEF Joined
<1>3. all = [k \in 1 .. CHANNELS + n |-> all[k]] /\ all2 = [k \in 1 .. CHANNELS + n |-> all2[k]]
  BY <1>2 DEF Joined, IsFunction
<1> QED BY <1>1, <1>3

ChannelCapOf(c) == [object |-> c, rights |-> ChannelView, epoch |-> 0]

\* Views of the channels, which the table's owner can derive.
ViewsOf(epochs, table, views) ==
  /\ IsFunction(views) /\ DOMAIN views = 1 .. CHANNELS
  /\ \A k \in 1 .. CHANNELS :
       /\ views[k].kind = "Derive" /\ views[k].rights = ChannelView /\ views[k].handle \in DOMAIN table
       /\ table[views[k].handle].object \in Channel
       /\ derived(table[views[k].handle], ChannelView) = ChannelCapOf(k - 1)
       /\ CanDerive(epochs, table[views[k].handle], ChannelView)

LEMMA ViewsAre ==
  ASSUME Exact(sys, model, stash), NEW p \in Process,
         NEW views, views = [k \in 1 .. CHANNELS |-> Derive(channel_handle(p, k - 1), ChannelView)]
  PROVE  ViewsOf(sys.epochs, sys.tables[p], views)
<1>1. PICK table : table = sys.tables[p]
  OBVIOUS
<1>2. ASSUME NEW k \in 1 .. CHANNELS
      PROVE  /\ views[k].kind = "Derive" /\ views[k].rights = ChannelView /\ views[k].handle \in DOMAIN table
             /\ table[views[k].handle].object \in Channel
             /\ derived(table[views[k].handle], ChannelView) = ChannelCapOf(k - 1)
             /\ CanDerive(sys.epochs, table[views[k].handle], ChannelView)
  <2>1. PICK c \in Channel : c = k - 1
    BY ChaosAssumption DEF Channel
  <2>2. PICK cap, h : cap = channel_cap(p, c) /\ h = channel_handle(p, c)
    OBVIOUS
  <2>3. views[k] = Derive(h, ChannelView)
    BY <2>1, <2>2
  <2>4. /\ cap.object = c /\ cap \in CapsOf(DOMAIN model.regions) /\ cap.epoch = 0
        /\ Permits(sys.epochs, cap, {"GRANT"}) /\ ChannelView \subseteq cap.rights
        /\ h \in DOMAIN table /\ table[h] = cap
    BY <1>1, <2>2, ChannelCap
  <2>5. views[k].kind = "Derive" /\ views[k].rights = ChannelView /\ views[k].handle = h
    BY <2>3 DEF Derive
  <2>6. CanDerive(sys.epochs, cap, ChannelView)
    BY <2>4 DEF CanDerive, contains
  <2>7. derived(cap, ChannelView) = ChannelCapOf(c)
    BY <2>4 DEF derived, ChannelCapOf, CapsOf, Capability
  <2> QED BY <2>1, <2>4, <2>5, <2>6, <2>7
<1>3. IsFunction(views) /\ DOMAIN views = 1 .. CHANNELS
  BY DEF IsFunction
<1> QED BY <1>1, <1>2, <1>3 DEF ViewsOf

LEMMA JoinedIndex ==
  ASSUME NEW n \in Nat, NEW k \in 1 .. CHANNELS + n
  PROVE  k \in 1 .. CHANNELS \/ \E i \in 1 .. n : k = CHANNELS + i
<1>1. CASE k <= CHANNELS
  BY <1>1, ChaosAssumption
<1>2. CASE ~(k <= CHANNELS)
  <2>1. k - CHANNELS \in 1 .. n /\ k = CHANNELS + (k - CHANNELS)
    BY SMTT(20), <1>2, ChaosAssumption
  <2> QED BY <2>1
<1> QED BY <1>1, <1>2

\* The views are refused by nobody, conflict with nothing and take nothing away.
LEMMA JoinedBatch ==
  ASSUME NEW epochs, NEW table, NEW views, ViewsOf(epochs, table, views),
         NEW grants, NEW n, GrantsOf(table, grants, n), NEW all, Joined(views, grants, n, all)
  PROVE  /\ ValidBatch(epochs, table, all) <=> ValidBatch(epochs, table, grants)
         /\ Remaining(table, all) = Remaining(table, grants)
         /\ AfterBatch(epochs, table, all) = AfterBatch(epochs, table, grants)
<1>1. n \in Nat /\ DOMAIN grants = 1 .. n /\ DOMAIN all = 1 .. CHANNELS + n
  BY DEF GrantsOf, Joined
<1>2. ASSUME NEW k \in DOMAIN all
      PROVE  \/ /\ all[k].kind = "Derive" /\ all[k].rights = ChannelView /\ all[k].handle \in DOMAIN table
                /\ table[all[k].handle].object \in Channel
                /\ CanDerive(epochs, table[all[k].handle], ChannelView)
             \/ \E i \in 1 .. n : k = CHANNELS + i /\ all[k] = grants[i]
  <2>1. CASE k \in 1 .. CHANNELS
    <3>1. all[k] = views[k]
      BY <2>1 DEF Joined
    <3> QED BY <2>1, <3>1 DEF ViewsOf
  <2>2. ASSUME NEW i \in 1 .. n, k = CHANNELS + i
        PROVE  all[k] = grants[i]
    BY <2>2 DEF Joined
  <2> QED BY <1>1, <2>1, <2>2, JoinedIndex
<1>3. ASSUME NEW i \in 1 .. n
      PROVE  CHANNELS + i \in DOMAIN all /\ all[CHANNELS + i] = grants[i]
  <2>1. CHANNELS + i \in 1 .. CHANNELS + n
    BY <1>1, ChaosAssumption
  <2> QED BY <1>1, <2>1 DEF Joined
<1>4. \A i, j \in 1 .. n : CHANNELS + i = CHANNELS + j => i = j
  BY ChaosAssumption
<1>5. \A i \in 1 .. n : table[grants[i].handle].object \notin Channel /\ grants[i].handle \in DOMAIN table
  BY DEF GrantsOf
<1>6. \A k \in DOMAIN all : all[k].handle \in DOMAIN table
  BY <1>2, <1>5
<1>7. NoDuplicateTransfer(all) <=> NoDuplicateTransfer(grants)
  <2>1. ASSUME NoDuplicateTransfer(all), NEW i \in 1 .. n, NEW j \in 1 .. n, i # j,
               leaves(grants[i]), leaves(grants[j])
        PROVE  grants[i].handle # grants[j].handle
    <3>1. CHANNELS + i # CHANNELS + j
      BY <1>4, <2>1
    <3> QED BY <1>3, <2>1, <3>1 DEF NoDuplicateTransfer
  <2>2. ASSUME NoDuplicateTransfer(grants), NEW k \in DOMAIN all, NEW m \in DOMAIN all, k # m,
               leaves(all[k]), leaves(all[m])
        PROVE  all[k].handle # all[m].handle
    <3>1. PICK i \in 1 .. n : k = CHANNELS + i /\ all[k] = grants[i]
      BY <1>2, <2>2 DEF leaves
    <3>2. PICK j \in 1 .. n : m = CHANNELS + j /\ all[m] = grants[j]
      BY <1>2, <2>2 DEF leaves
    <3>3. i # j
      BY <2>2, <3>1, <3>2
    <3> QED BY <1>1, <2>2, <3>1, <3>2, <3>3 DEF NoDuplicateTransfer
  <2>3. NoDuplicateTransfer(all) => NoDuplicateTransfer(grants)
    BY <1>1, <2>1 DEF NoDuplicateTransfer
  <2>4. NoDuplicateTransfer(grants) => NoDuplicateTransfer(all)
    BY <2>2 DEF NoDuplicateTransfer
  <2> QED BY <2>3, <2>4
<1>8. (\A k \in DOMAIN all : Authorised(epochs, table, all[k]))
        <=> \A i \in DOMAIN grants : Authorised(epochs, table, grants[i])
  <2>1. ASSUME NEW k \in DOMAIN all, all[k].kind = "Derive", all[k].rights = ChannelView,
               CanDerive(epochs, table[all[k].handle], ChannelView)
        PROVE  Authorised(epochs, table, all[k])
    BY <2>1 DEF Authorised
  <2> QED BY <1>1, <1>2, <1>3, <2>1
<1>9. NoMoveConflict(table, all) <=> NoMoveConflict(table, grants)
  <2>1. ASSUME NoMoveConflict(table, all), NEW i \in 1 .. n, NEW j \in 1 .. n, i # j, grants[i].kind = "Move"
        PROVE  table[grants[j].handle].object # table[grants[i].handle].object
    <3>1. CHANNELS + i # CHANNELS + j
      BY <1>4, <2>1
    <3> QED BY <1>3, <2>1, <3>1 DEF NoMoveConflict
  <2>2. ASSUME NoMoveConflict(table, grants), NEW k \in DOMAIN all, NEW m \in DOMAIN all, k # m,
               all[k].kind = "Move"
        PROVE  table[all[m].handle].object # table[all[k].handle].object
    <3>1. PICK i \in 1 .. n : k = CHANNELS + i /\ all[k] = grants[i]
      BY <1>2, <2>2
    <3>2. CASE table[all[m].handle].object \in Channel
      BY <1>5, <3>1, <3>2
    <3>3. ASSUME NEW j \in 1 .. n, m = CHANNELS + j, all[m] = grants[j]
          PROVE  table[all[m].handle].object # table[all[k].handle].object
      <4>1. i # j
        BY <2>2, <3>1, <3>3
      <4> QED BY <1>1, <2>2, <3>1, <3>3, <4>1 DEF NoMoveConflict
    <3> QED BY <1>2, <3>2, <3>3
  <2>3. NoMoveConflict(table, all) => NoMoveConflict(table, grants)
    BY <1>1, <2>1 DEF NoMoveConflict
  <2>4. NoMoveConflict(table, grants) => NoMoveConflict(table, all)
    BY <2>2 DEF NoMoveConflict
  <2> QED BY <2>3, <2>4
<1>10. ValidBatch(epochs, table, all) <=> ValidBatch(epochs, table, grants)
  BY <1>1, <1>5, <1>6, <1>7, <1>8, <1>9 DEF ValidBatch
<1>11. ASSUME NEW h
       PROVE  (\A k \in DOMAIN all : leaves(all[k]) => all[k].handle # h)
                <=> \A i \in DOMAIN grants : leaves(grants[i]) => grants[i].handle # h
  <2>1. \A k \in DOMAIN all : leaves(all[k]) => \E i \in 1 .. n : all[k] = grants[i]
    BY <1>2 DEF leaves
  <2> QED BY SMTT(20), <1>1, <1>3, <2>1
<1>12. Remaining(table, all) = Remaining(table, grants)
  BY <1>11 DEF Remaining
<1>13. Moved(table, all) = Moved(table, grants)
  <2>1. \A k \in DOMAIN all : all[k].kind = "Move" => \E i \in 1 .. n : all[k] = grants[i]
    BY <1>2
  <2>2. ASSUME NEW o
        PROVE  (\E k \in DOMAIN all : all[k].kind = "Move" /\ o = table[all[k].handle].object)
                 <=> \E i \in DOMAIN grants : grants[i].kind = "Move" /\ o = table[grants[i].handle].object
    BY SMTT(20), <1>1, <1>3, <2>1
  <2>3. \A o : o \in Moved(table, all) <=> \E k \in DOMAIN all : all[k].kind = "Move" /\ o = table[all[k].handle].object
    BY DEF Moved
  <2>4. \A o : o \in Moved(table, grants)
                <=> \E i \in DOMAIN grants : grants[i].kind = "Move" /\ o = table[grants[i].handle].object
    BY DEF Moved
  <2> QED BY <2>2, <2>3, <2>4
<1>14. AfterBatch(epochs, table, all) = AfterBatch(epochs, table, grants)
  BY <1>13 DEF AfterBatch
<1> QED BY <1>10, <1>12, <1>14

\* What is delivered: the views, then what the model resolves the grants to.
LEMMA JoinedDelivered ==
  ASSUME NEW epochs, NEW table, NEW views, ViewsOf(epochs, table, views),
         NEW grants, NEW n, GrantsOf(table, grants, n), NEW all, Joined(views, grants, n, all),
         NEW caps, caps = Delivered(epochs, table, grants), NEW delivered, delivered = Delivered(epochs, table, all),
         NEW channels, channels = [k \in 1 .. CHANNELS |-> ChannelCapOf(k - 1)]
  PROVE  Joined(channels, caps, n, delivered)
<1> DEFINE given(grant) ==
        CASE grant.kind = "Transfer" -> table[grant.handle]
          [] grant.kind = "Derive" -> derived(table[grant.handle], grant.rights)
          [] grant.kind = "Move" -> reissued(epochs, table[grant.handle])
<1>1. delivered = [k \in DOMAIN all |-> given(all[k])] /\ caps = [i \in DOMAIN grants |-> given(grants[i])]
  BY DEF Delivered
<1>2. \A grant : grant.kind = "Derive" => given(grant) = derived(table[grant.handle], grant.rights)
  OBVIOUS
<1> HIDE DEF given
<1>3. DOMAIN delivered = 1 .. CHANNELS + n /\ IsFunction(delivered) /\ DOMAIN grants = 1 .. n /\ n \in Nat
  BY <1>1 DEF Joined, IsFunction, GrantsOf
<1>4. ASSUME NEW k \in 1 .. CHANNELS
      PROVE  delivered[k] = channels[k]
  <2>1. k \in DOMAIN all /\ all[k] = views[k]
    BY <1>3, ChaosAssumption DEF Joined
  <2>2. given(views[k]) = ChannelCapOf(k - 1)
    BY <1>2 DEF ViewsOf
  <2> QED BY <1>1, <2>1, <2>2
<1>5. ASSUME NEW i \in 1 .. n
      PROVE  delivered[CHANNELS + i] = caps[i]
  <2>1. CHANNELS + i \in 1 .. CHANNELS + n
    BY <1>3, ChaosAssumption
  <2>2. CHANNELS + i \in DOMAIN all /\ all[CHANNELS + i] = grants[i]
    BY <2>1 DEF Joined
  <2> QED BY <1>1, <1>3, <2>2
<1> QED BY <1>3, <1>4, <1>5 DEF Joined

LEMMA SortedIs ==
  ASSUME NEW s, NEW p, NEW L \in Nat, DOMAIN s.tables[p] = 0 .. L - 1
  PROVE  sorted_handles(s, p) = [k \in 1 .. L |-> k - 1]
<1>1. PICK handles : handles = DOMAIN s.tables[p]
  OBVIOUS
<1>2. handles = 0 .. L - 1
  BY <1>1
<1>3. ASSUME NEW h \in 0 .. L
      PROVE  Cardinality(0 .. h - 1) = h
  <2>1. 0 \in Int /\ h - 1 \in Int
    OBVIOUS
  <2>2. Cardinality(0 .. h - 1) = IF 0 > h - 1 THEN 0 ELSE (h - 1) - 0 + 1
    BY <2>1, FS_Interval
  <2> QED BY <2>2
<1>4. Cardinality(handles) = L
  BY <1>2, <1>3
<1>5. ASSUME NEW h \in 0 .. L - 1
      PROVE  Cardinality({x \in handles : x < h}) = h
  <2>1. {x \in handles : x < h} = 0 .. h - 1
    BY <1>2
  <2>2. h \in 0 .. L
    OBVIOUS
  <2>3. Cardinality(0 .. h - 1) = h
    BY <1>3, <2>2
  <2> QED BY <2>1, <2>3
<1>6. ASSUME NEW k \in 1 .. L
      PROVE  (CHOOSE h \in handles : Cardinality({x \in handles : x < h}) = k - 1) = k - 1
  <2>1. PICK j \in 0 .. L - 1 : j = k - 1
    OBVIOUS
  <2>2. \A h \in handles : Cardinality({x \in handles : x < h}) = k - 1 <=> h = j
    BY <1>2, <1>5, <2>1
  <2>3. j \in handles
    BY <1>2, <2>1
  <2> DEFINE Q(h) == Cardinality({x \in handles : x < h}) = k - 1
  <2>4. \A h \in handles : Q(h) <=> h = j
    BY <2>2
  <2> HIDE DEF Q
  <2>5. (CHOOSE h \in handles : Q(h)) = j
    BY <2>3, <2>4
  <2> QED BY <2>1, <2>5 DEF Q
<1>7. sorted_handles(s, p)
        = [k \in 1 .. Cardinality(handles) |->
             CHOOSE h \in handles : Cardinality({x \in handles : x < h}) = k - 1]
  BY <1>1 DEF sorted_handles
<1> QED BY <1>4, <1>6, <1>7

\* A capability for each channel, with at least a child's view of it.
AllChannels(dom, channels) ==
  \A k \in 1 .. CHANNELS :
    channels[k] \in CapsOf(dom) /\ channels[k].object = k - 1 /\ ChannelView \subseteq channels[k].rights

LEMMA ChannelCaps ==
  ASSUME NEW dom, NEW channels, channels = [k \in 1 .. CHANNELS |-> ChannelCapOf(k - 1)]
  PROVE  AllChannels(dom, channels)
<1>1. ChannelView \in Rights
  BY DEF ChannelView, Rights, Right
<1>2. ASSUME NEW k \in 1 .. CHANNELS
      PROVE  channels[k] \in CapsOf(dom) /\ channels[k].object = k - 1 /\ ChannelView \subseteq channels[k].rights
  <2>1. PICK c \in Channel : c = k - 1
    BY ChaosAssumption DEF Channel
  <2>2. channels[k] = ChannelCapOf(c)
    BY <2>1
  <2> QED BY <1>1, <2>1, <2>2 DEF ChannelCapOf, CapsOf, Capability
<1> QED BY <1>2 DEF AllChannels

\* The first table of a process: one handle for each channel, then what was granted.
LEMMA FirstTable ==
  ASSUME NEW dom, dom \intersect Channel = {}, NEW n \in Nat, NEW L \in Nat, L = CHANNELS + n,
         L < HandleSpace,
         NEW caps \in Seq(Capability(dom)), Len(caps) = n,
         NEW channels, AllChannels(dom, channels), NEW delivered, Joined(channels, caps, n, delivered),
         NEW table, table = Granted(Empty, 0, delivered), NEW counter, counter = NextHandle(0, delivered)
  PROVE  /\ TableOK(dom, table, counter) /\ IsFunction(table) /\ DOMAIN table = 0 .. L - 1
         /\ \A k \in 1 .. L : table[k - 1] = delivered[k]
         /\ \A k \in 1 .. L : delivered[k] \in CapsOf(dom)
<1>1. DOMAIN delivered = 1 .. L /\ IsFunction(delivered)
  BY DEF Joined
<1>2. Len(delivered) = L
  <2>1. PICK S : S = {delivered[k] : k \in 1 .. L}
    OBVIOUS
  <2>2. delivered \in [1 .. L -> S]
    BY <1>1, <2>1 DEF IsFunction
  <2> QED BY <2>2
<1>3. Granting(Empty, 0, delivered, L, table)
  <2>1. 0 \in Nat /\ 0 + L < HandleSpace
    OBVIOUS
  <2>2. PICK empty : empty = Empty
    OBVIOUS
  <2>3. PICK zero \in Nat : zero = 0
    BY <2>1
  <2>4. Granting(empty, zero, delivered, L, table)
    BY <1>1, <1>2, <2>1, <2>2, <2>3, GrantsAre
  <2> QED BY <2>2, <2>3, <2>4
<1>4. /\ IsFunction(table) /\ DOMAIN table = 0 .. L - 1 /\ counter = L
      /\ \A k \in 1 .. L : table[k - 1] = delivered[k]
  <2>1. DOMAIN Empty = {}
    BY DEF Empty
  <2>2. IsFunction(table) /\ DOMAIN table = {} \union (0 .. 0 + L - 1) /\ counter = 0 + L
    BY <1>3, <2>1 DEF Granting
  <2>3. \A k \in 1 .. L : table[0 + k - 1] = delivered[k]
    BY <1>3 DEF Granting
  <2>4. ASSUME NEW k \in 1 .. L
        PROVE  table[k - 1] = delivered[k]
    <3>1. 0 + k - 1 = k - 1
      OBVIOUS
    <3> QED BY <2>3, <3>1
  <2> QED BY <2>2, <2>4
<1>5. \A k \in 1 .. CHANNELS : delivered[k] = channels[k]
  BY DEF Joined
<1>6. ASSUME NEW i \in 1 .. n
      PROVE  caps[i] \in CapsOf(dom) /\ caps[i].object \notin Channel
  <2>1. caps[i] \in Capability(dom)
    OBVIOUS
  <2> QED BY <2>1, RegionCapIs
<1>7. ASSUME NEW k \in 1 .. L
      PROVE  /\ delivered[k] \in CapsOf(dom)
             /\ k \in 1 .. CHANNELS => delivered[k].object = k - 1 /\ ChannelView \subseteq delivered[k].rights
             /\ k \notin 1 .. CHANNELS => delivered[k].object \notin Channel
  <2>1. CASE k \in 1 .. CHANNELS
    BY <1>5, <2>1 DEF AllChannels
  <2>2. CASE k \notin 1 .. CHANNELS
    <3>1. PICK i \in 1 .. n : k = CHANNELS + i
      BY <2>2, JoinedIndex
    <3>2. delivered[k] = caps[i]
      BY <3>1 DEF Joined
    <3> QED BY <1>6, <2>2, <3>2
  <2> QED BY <2>1, <2>2
<1>8. \A h \in 0 .. L - 1 : h + 1 \in 1 .. L /\ (h + 1) - 1 = h
  OBVIOUS
<1>9. \A h \in 0 .. L - 1 : table[h] = delivered[h + 1]
  BY <1>4, <1>8
<1>10. table \in [DOMAIN table -> CapsOf(dom)]
  <2>1. \A h \in DOMAIN table : table[h] \in CapsOf(dom)
    BY <1>4, <1>7, <1>8, <1>9
  <2> QED BY <1>4, <2>1 DEF IsFunction
<1>11. ASSUME NEW c \in Channel
       PROVE  \E h \in DOMAIN table :
                /\ table[h].object = c /\ ChannelView \subseteq table[h].rights
                /\ \A g \in DOMAIN table : table[g].object = c => g = h
  <2>1. c \in Nat /\ c \in 0 .. CHANNELS - 1 /\ c + 1 \in 1 .. CHANNELS /\ c \in 0 .. L - 1 /\ (c + 1) - 1 = c
    BY ChaosAssumption DEF Channel
  <2>2. table[c].object = c /\ ChannelView \subseteq table[c].rights
    <3>1. PICK k \in 1 .. L : k = c + 1 /\ k \in 1 .. CHANNELS /\ k - 1 = c
      BY <2>1
    <3>2. delivered[k].object = k - 1 /\ ChannelView \subseteq delivered[k].rights
      BY <1>7, <3>1
    <3> QED BY <1>9, <2>1, <3>1, <3>2
  <2>3. ASSUME NEW g \in DOMAIN table, table[g].object = c
        PROVE  g = c
    <3>1. PICK k \in 1 .. L : k = g + 1 /\ table[g] = delivered[k] /\ g = k - 1
      BY <1>4, <1>8, <1>9
    <3>2. k \in 1 .. CHANNELS
      BY <1>7, <2>3, <3>1
    <3>3. delivered[k].object = k - 1
      BY <1>7, <3>2
    <3> QED BY <2>3, <3>1, <3>3
  <2>4. c \in DOMAIN table
    BY <1>4, <2>1
  <2> QED BY <2>2, <2>3, <2>4
<1>12. counter \in 0 .. HandleSpace - 1 /\ DOMAIN table \subseteq 0 .. counter - 1
  BY <1>4, ProcessAssumption
<1>13. TableOK(dom, table, counter)
  BY <1>10, <1>11, <1>12 DEF TableOK
<1>14. \A k \in 1 .. L : delivered[k] \in CapsOf(dom)
  BY <1>7
<1> QED BY <1>4, <1>13, <1>14

LEMMA ProcessCount ==
  ASSUME NEW dom, NEW tables, NEW next, TablesOK(dom, tables, next)
  PROVE  \E m \in Nat \ {0} : /\ DOMAIN tables = 0 .. m - 1 /\ DOMAIN next = 0 .. m - 1
                              /\ Cardinality(DOMAIN tables) = m
<1>1. PICK m \in Nat \ {0} : DOMAIN tables = 0 .. m - 1 /\ DOMAIN next = 0 .. m - 1
  BY DEF TablesOK
<1>2. Cardinality(0 .. m - 1) = m
  <2>1. 0 \in Int /\ m - 1 \in Int
    OBVIOUS
  <2>2. Cardinality(0 .. m - 1) = IF 0 > m - 1 THEN 0 ELSE (m - 1) - 0 + 1
    BY <2>1, FS_Interval
  <2> QED BY <2>2
<1> QED BY <1>1, <1>2

\* One more process.
LEMMA TablesMore ==
  ASSUME NEW dom, NEW tables, NEW next, TablesOK(dom, tables, next),
         NEW m \in Nat, DOMAIN tables = 0 .. m - 1, NEW table, NEW counter, TableOK(dom, table, counter),
         NEW tables2, tables2 = Extended(tables, m, table), NEW next2, next2 = Extended(next, m, counter)
  PROVE  TablesOK(dom, tables2, next2)
<1>1. DOMAIN next = DOMAIN tables
  BY DEF TablesOK
<1>2. (0 .. m - 1) \union {m} = 0 .. (m + 1) - 1 /\ m \notin 0 .. m - 1
  OBVIOUS
<1>3. DOMAIN tables2 = 0 .. (m + 1) - 1 /\ DOMAIN next2 = 0 .. (m + 1) - 1
  BY <1>1, <1>2 DEF Extended
<1>4. ASSUME NEW p \in DOMAIN tables2
      PROVE  TableOK(dom, tables2[p], next2[p])
  <2>1. CASE p = m
    BY <1>1, <1>4, <2>1 DEF Extended
  <2>2. CASE p # m
    <3>1. p \in DOMAIN tables /\ tables2[p] = tables[p] /\ next2[p] = next[p]
      BY <1>1, <1>4, <2>2 DEF Extended
    <3> QED BY <3>1 DEF TablesOK
  <2> QED BY <2>1, <2>2
<1>5. m + 1 \in Nat \ {0}
  OBVIOUS
<1> QED BY <1>3, <1>4, <1>5 DEF TablesOK

LEMMA SpawnStep ==
  ASSUME HandlesSuffice, ChaosInv, NEW p \in Process, NEW grants \in Batches(p), Spawn(p, grants)
  PROVE  ChaosInv'
<1>1. Exact(sys, model, stash)
  BY Running DEF Spawn
<1>2. PICK n \in Nat : GrantsOf(model.procs[p], grants, n)
  BY BatchesAre
<1>3. PICK dom : dom = DOMAIN model.regions
  OBVIOUS
<1>4. PICK table : table = sys.tables[p] /\ model.procs[p] = table /\ p \in DOMAIN sys.tables
  BY <1>1, TableOfProcess
<1>5. TableOK(dom, table, sys.next_handle[p])
  BY <1>1, <1>3, <1>4, TableOfProcess
<1>6. GrantsOf(table, grants, n) /\ IsFunction(grants) /\ DOMAIN grants = 1 .. n
  BY <1>2, <1>4 DEF GrantsOf
<1>7. PICK views : views = [k \in 1 .. CHANNELS |-> Derive(channel_handle(p, k - 1), ChannelView)]
  OBVIOUS
<1>8. ViewsOf(sys.epochs, table, views)
  BY <1>1, <1>4, <1>7, ViewsAre
<1>9. PICK all : all = views \o grants
  OBVIOUS
<1>10. Joined(views, grants, n, all)
  BY <1>6, <1>8, <1>9, Join DEF ViewsOf
<1>11. predict_batch(model, p, grants) <=> ValidBatch(sys.epochs, table, grants)
  BY <1>1, <1>2, <1>4, PredictsBatch
<1>12. PICK epochs, left : epochs = AfterBatch(sys.epochs, table, grants) /\ left = Remaining(table, grants)
  OBVIOUS
<1>13. /\ ValidBatch(sys.epochs, table, all) <=> predict_batch(model, p, grants)
       /\ Remaining(table, all) = left /\ AfterBatch(sys.epochs, table, all) = epochs
  BY <1>6, <1>8, <1>10, <1>11, <1>12, JoinedBatch
<1>14. PICK m \in Nat \ {0} : DOMAIN sys.tables = 0 .. m - 1 /\ Cardinality(DOMAIN sys.tables) = m
  BY <1>1, ProcessCount DEF Exact
<1>15. Cardinality(Process) = m /\ model.procs = sys.tables
  BY <1>1, <1>14 DEF Process, Exact
<1>16. DOMAIN sys = SysFields /\ sys.failed = FALSE
  BY <1>1 DEF Exact
<1>17. PICK after : after = spawn_child(sys, p, all)
  OBVIOUS
<1>18. PICK handles : handles = sorted_handles(after, m)
  OBVIOUS
<1>19. PICK caps : caps = [k \in DOMAIN handles |-> cap_of(after, m, handles[k])]
  OBVIOUS
<1>20. PICK models : models = [k \in 1 .. CHANNELS |-> [object |-> k - 1, rights |-> ChannelView, epoch |-> 0]]
                                \o resolved(model, p, grants)
  OBVIOUS
<1>21. PICK mirror : mirror = [h \in SetOf(handles) |-> models[CHOOSE k \in DOMAIN handles : handles[k] = h]]
  OBVIOUS
<1>22. PICK born : born = [after_batch(p, grants) EXCEPT !.procs = Extended(@, m, mirror)]
  OBVIOUS
<1>23. /\ Len(models) <= MaxHandles
       /\ \/ /\ predict_batch(model, p, grants)
             /\ Step(settled(after), born, stash \union pairs(caps, models),
                     ~after.failed /\ Len(handles) = Len(models))
          \/ /\ ~predict_batch(model, p, grants)
             /\ Step(settled(after), model, stash, after.failed)
  <2> DEFINE views_ == [k \in 1 .. CHANNELS |-> Derive(channel_handle(p, k - 1), ChannelView)]
             after_ == spawn_child(sys, p, views_ \o grants)
             child_ == Cardinality(Process)
             handles_ == sorted_handles(after_, child_)
             caps_ == [k \in DOMAIN handles_ |-> cap_of(after_, child_, handles_[k])]
             models_ == [k \in 1 .. CHANNELS |-> [object |-> k - 1, rights |-> ChannelView, epoch |-> 0]]
                           \o resolved(model, p, grants)
             mirror_ == [h \in SetOf(handles_) |-> models_[CHOOSE k \in DOMAIN handles_ : handles_[k] = h]]
             born_ == [after_batch(p, grants) EXCEPT !.procs = Extended(@, child_, mirror_)]
  <2>1. /\ Len(models_) <= MaxHandles
        /\ \/ /\ predict_batch(model, p, grants)
              /\ Step(settled(after_), born_, stash \union pairs(caps_, models_),
                      ~after_.failed /\ Len(handles_) = Len(models_))
           \/ /\ ~predict_batch(model, p, grants)
              /\ Step(settled(after_), model, stash, after_.failed)
    BY DEF Spawn
  <2>2. after_ = after
    BY <1>7, <1>9, <1>17
  <2>3. child_ = m /\ models_ = models
    BY <1>15, <1>20
  <2> HIDE DEF views_, after_, child_, models_
  <2>4. handles_ = handles
    BY <1>18, <2>2, <2>3
  <2> HIDE DEF handles_
  <2>5. caps_ = caps /\ mirror_ = mirror
    BY <1>19, <1>21, <2>2, <2>3, <2>4
  <2> HIDE DEF caps_, mirror_
  <2>6. born_ = born
    BY <1>22, <2>3, <2>5
  <2> HIDE DEF born_
  <2> QED BY <2>1, <2>2, <2>3, <2>4, <2>5, <2>6
<1>24. CASE ~predict_batch(model, p, grants)
  <2>1. after = Failed(sys)
    BY <1>4, <1>13, <1>17, <1>24 DEF spawn_child
  <2>2. after.failed = TRUE
    BY <1>16, <2>1 DEF Failed, SysFields
  <2>3. Step(settled(after), model, stash, after.failed)
    BY <1>23, <1>24
  <2>4. Step(sys, model, stash, TRUE)
    BY <2>2, <2>3 DEF Step, settled
  <2> QED BY <1>1, <2>4, StepKeeps
<1>25. CASE predict_batch(model, p, grants)
  <2>1. Step(settled(after), born, stash \union pairs(caps, models), ~after.failed /\ Len(handles) = Len(models))
    BY <1>23, <1>25
  <2>2. PICK resolved_ : resolved_ = resolved(model, p, grants)
    OBVIOUS
  <2>3. /\ resolved_ = Delivered(sys.epochs, table, grants) /\ resolved_ \in Seq(Capability(dom))
        /\ Len(resolved_) = n /\ DOMAIN resolved_ = 1 .. n
    BY <1>1, <1>2, <1>3, <1>4, <1>11, <1>25, <2>2, ResolvedIs
  <2>4. PICK channels : channels = [k \in 1 .. CHANNELS |-> ChannelCapOf(k - 1)]
    OBVIOUS
  <2>5. PICK delivered : delivered = Delivered(sys.epochs, table, all)
    OBVIOUS
  <2>6. Joined(channels, resolved_, n, delivered)
    BY <1>6, <1>8, <1>10, <2>3, <2>4, <2>5, JoinedDelivered
  <2>7. IsFunction(channels) /\ DOMAIN channels = 1 .. CHANNELS /\ IsFunction(resolved_)
    BY <2>3, <2>4 DEF IsFunction
  <2>8. models = channels \o resolved_
    BY <1>20, <2>2, <2>4 DEF ChannelCapOf
  <2>9. Joined(channels, resolved_, n, models) /\ Len(models) = CHANNELS + n
    BY <2>3, <2>7, <2>8, Join
  <2>10. models = delivered
    BY <2>6, <2>9, SameJoin
  <2>11. PICK L \in Nat : L = CHANNELS + n
    BY ChaosAssumption
  <2>12. L < HandleSpace /\ Len(models) = L
    BY <1>23, <2>9, <2>11, ChaosAssumption, ProcessAssumption DEF HandlesSuffice
  <2>13. PICK first, counter : first = Granted(Empty, 0, delivered) /\ counter = NextHandle(0, delivered)
    OBVIOUS
  <2>14. dom \intersect Channel = {}
    BY <1>1, <1>3, ChannelsAndRegions DEF Exact
  <2>15. /\ TableOK(dom, first, counter) /\ IsFunction(first) /\ DOMAIN first = 0 .. L - 1
         /\ \A k \in 1 .. L : first[k - 1] = delivered[k]
         /\ \A k \in 1 .. L : delivered[k] \in CapsOf(dom)
    <3>1. AllChannels(dom, channels)
      BY <2>4, ChannelCaps
    <3> QED BY <2>3, <2>6, <2>11, <2>12, <2>13, <2>14, <3>1, FirstTable
  <2>16. PICK applied_ : applied_ = applied(model, p, grants)
    OBVIOUS
  <2>17. Left(applied_, p, left) /\ ObjectsOK(epochs, sys.regions, applied_.regions)
    BY <1>1, <1>2, <1>4, <1>11, <1>12, <1>25, <2>16, AppliedIs
  <2>18. TableOK(dom, left, sys.next_handle[p])
    BY <1>5, <1>6, <1>12, RemainingOK
  <2>19. PICK parent : parent = [sys.tables EXCEPT ![p] = left]
    OBVIOUS
  <2>20. after = [sys EXCEPT !.epochs = epochs, !.tables = Extended(parent, m, first),
                             !.next_handle = Extended(@, m, counter),
                             !.held = @ \union HeldBy(m, delivered)]
    <3>1. after = [sys EXCEPT !.epochs = AfterBatch(@, sys.tables[p], all),
                              !.tables = Extended([sys.tables EXCEPT ![p] = Remaining(@, all)], m,
                                                  Granted(Empty, 0, delivered)),
                              !.next_handle = Extended(@, m, NextHandle(0, delivered)),
                              !.held = @ \union HeldBy(m, delivered)]
      BY <1>4, <1>13, <1>14, <1>17, <1>25, <2>5 DEF spawn_child
    <3>2. AfterBatch(sys.epochs, sys.tables[p], all) = epochs
      BY <1>4, <1>13
    <3>3. [sys.tables EXCEPT ![p] = Remaining(@, all)] = parent
      BY <1>4, <1>13, <2>19
    <3> QED BY <2>13, <3>1, <3>2, <3>3
  <2>21. /\ DOMAIN after = SysFields /\ after.failed = FALSE /\ after.epochs = epochs
         /\ after.tables = Extended(parent, m, first) /\ after.next_handle = Extended(sys.next_handle, m, counter)
         /\ after.held = sys.held \union HeldBy(m, delivered)
         /\ after.queues = sys.queues /\ after.regions = sys.regions
    BY <1>16, <2>20 DEF SysFields
  <2>22. after.tables[m] = first
    BY <2>21 DEF Extended
  <2>23. handles = [k \in 1 .. L |-> k - 1]
    BY <1>18, <2>15, <2>22, SortedIs
  <2>24. caps = delivered
    <3>1. DOMAIN delivered = 1 .. L /\ delivered = [k \in 1 .. L |-> delivered[k]]
      BY <2>6, <2>11 DEF Joined, IsFunction
    <3>2. caps = [k \in 1 .. L |-> first[k - 1]]
      BY <1>19, <2>22, <2>23 DEF cap_of
    <3> QED BY <2>15, <3>1, <3>2
  <2>25. mirror = first
    <3>1. DOMAIN handles = 1 .. L /\ \A k \in 1 .. L : handles[k] = k - 1
      BY <2>23
    <3>2. \A h \in 0 .. L - 1 : h + 1 \in 1 .. L /\ (h + 1) - 1 = h
      OBVIOUS
    <3>3. SetOf(handles) = 0 .. L - 1
      <4>1. \A k \in 1 .. L : k - 1 \in 0 .. L - 1
        OBVIOUS
      <4>2. \A h \in 0 .. L - 1 : \E k \in 1 .. L : handles[k] = h
        BY <3>1, <3>2
      <4>3. \A k \in 1 .. L : handles[k] \in 0 .. L - 1
        BY <3>1, <4>1
      <4> QED BY ZenonT(30), <3>1, <4>2, <4>3 DEF SetOf
    <3>4. ASSUME NEW h \in 0 .. L - 1
          PROVE  models[CHOOSE k \in DOMAIN handles : handles[k] = h] = first[h]
      <4>1. h + 1 \in DOMAIN handles /\ handles[h + 1] = h
        BY <3>1, <3>2
      <4>2. PICK at : at = CHOOSE k \in DOMAIN handles : handles[k] = h
        OBVIOUS
      <4>3. at \in 1 .. L /\ at - 1 = h
        BY <3>1, <4>1, <4>2
      <4> QED BY <2>10, <2>15, <4>2, <4>3
    <3>5. mirror = [h \in 0 .. L - 1 |-> first[h]]
      BY <1>21, <3>3, <3>4
    <3> QED BY <2>15, <3>5 DEF IsFunction
  <2>26. PICK kept : kept = stash \union pairs(delivered, delivered)
    OBVIOUS
  <2>27. Step(after, born, kept, TRUE)
    <3>1. settled(after) = after
      BY <2>21 DEF settled
    <3>2. Len(handles) = L
      BY <2>23
    <3>3. Step(after, born, kept, ~after.failed /\ Len(handles) = Len(models))
      BY <2>1, <2>10, <2>24, <2>26, <3>1
    <3> QED BY <2>12, <2>21, <3>2, <3>3 DEF Step
  <2>28. born = [applied_ EXCEPT !.procs = Extended(@, m, first)]
    BY <1>22, <1>25, <2>16, <2>25 DEF after_batch
  <2>29. /\ DOMAIN born = WorldFields /\ born.procs = Extended(parent, m, first)
         /\ born.regions = applied_.regions /\ born.in_flight = model.in_flight /\ DOMAIN born.regions = dom
    BY <1>3, <1>15, <2>17, <2>19, <2>28 DEF Left, WorldFields
  <2>30. TablesOK(dom, after.tables, after.next_handle)
    <3>1. TablesOK(dom, sys.tables, sys.next_handle)
      BY <1>1, <1>3 DEF Exact
    <3>2. PICK next, own : next = sys.next_handle /\ own = sys.next_handle[p]
      OBVIOUS
    <3>3. Replaced(next, next, p, TRUE, own) /\ Replaced(sys.tables, parent, p, TRUE, left)
      BY <1>4, <2>19, <3>2 DEF Replaced
    <3>4. TablesOK(dom, parent, next)
      BY <1>4, <2>18, <3>1, <3>2, <3>3, TablesOne
    <3>5. DOMAIN parent = 0 .. m - 1
      BY <1>14, <2>19
    <3>6. PICK tables2, next2 : tables2 = Extended(parent, m, first) /\ next2 = Extended(next, m, counter)
      OBVIOUS
    <3>7. TablesOK(dom, tables2, next2)
      BY <1>14, <2>15, <3>4, <3>5, <3>6, TablesMore
    <3> QED BY <2>21, <3>2, <3>6, <3>7
  <2>31. StashOK(dom, after.held, kept)
    <3>1. StashOK(dom, sys.held, stash)
      BY <1>1, <1>3 DEF Exact
    <3>2. \A k \in DOMAIN delivered : delivered[k] \in CapsOf(dom)
      BY <2>6, <2>11, <2>15 DEF Joined
    <3>3. PICK held : held = sys.held
      OBVIOUS
    <3>4. StashOK(dom, held \union HeldBy(m, delivered), stash \union pairs(delivered, delivered))
      BY <3>1, <3>2, <3>3, StashGrows
    <3> QED BY <2>21, <2>26, <3>3, <3>4
  <2>32. FlightOK(dom, after.queues, born.in_flight)
    BY <1>1, <1>3, <2>21, <2>29 DEF Exact
  <2>33. Exact(after, born, kept)
    BY <2>17, <2>21, <2>29, <2>30, <2>31, <2>32 DEF Exact
  <2> QED BY <2>27, <2>33, StepKeeps
<1> QED BY <1>24, <1>25

(***************************************************************************)
(* The harness.                                                            *)
(***************************************************************************)

\* `World::new`: process 0 with a capability for every channel and region.
BootCaps(L, n, dom, full) ==
  /\ L = CHANNELS + n /\ n = BootRegions
  /\ dom = CHANNELS .. CHANNELS + BootRegions - 1
  /\ full = [k \in 1 .. L |-> [object |-> k - 1, rights |-> RegionRights, epoch |-> 0]]

LEMMA BootTable ==
  ASSUME NEW L \in Nat, L < HandleSpace, NEW n \in Nat, NEW dom, NEW full, BootCaps(L, n, dom, full),
         NEW table, table = Granted(Empty, 0, full), NEW counter, counter = NextHandle(0, full)
  PROVE  /\ TableOK(dom, table, counter) /\ IsFunction(table) /\ DOMAIN table = 0 .. L - 1
         /\ \A k \in 1 .. L : table[k - 1] = full[k]
         /\ \A k \in 1 .. L : full[k] \in CapsOf(dom)
<1>1. CHANNELS \in Nat \ {0} /\ n = BootRegions /\ L = CHANNELS + n
  BY ChaosAssumption DEF BootCaps
<1>2. dom = CHANNELS .. CHANNELS + n - 1
  BY DEF BootCaps
<1>3. RegionRights \in Rights /\ ChannelView \subseteq RegionRights
  BY DEF RegionRights, Rights, Right, ChannelView
<1>4. full = [k \in 1 .. L |-> [object |-> k - 1, rights |-> RegionRights, epoch |-> 0]]
  BY DEF BootCaps
<1>5. AllChannels(dom, full)
  <2>1. ASSUME NEW k \in 1 .. CHANNELS
        PROVE  full[k] \in CapsOf(dom) /\ full[k].object = k - 1 /\ ChannelView \subseteq full[k].rights
    <3>1. PICK c \in Channel : c = k - 1
      BY <1>1 DEF Channel
    <3>2. k \in 1 .. L
      BY <1>1
    <3>3. full[k] = [object |-> c, rights |-> RegionRights, epoch |-> 0]
      BY <1>4, <3>1, <3>2
    <3> QED BY <1>3, <3>1, <3>3 DEF CapsOf, Capability
  <2> QED BY <2>1 DEF AllChannels
<1>6. PICK caps : caps = [i \in 1 .. n |-> full[CHANNELS + i]]
  OBVIOUS
<1>7. \A i \in 1 .. n : caps[i] \in Capability(dom)
  <2>1. ASSUME NEW i \in 1 .. n
        PROVE  caps[i] \in Capability(dom)
    <3>1. PICK k \in 1 .. L : k = CHANNELS + i /\ k - 1 \in dom
      BY <1>1, <1>2
    <3>2. PICK r \in dom : r = k - 1
      BY <3>1
    <3>3. caps[i] = [object |-> r, rights |-> RegionRights, epoch |-> 0]
      BY <1>4, <1>6, <3>1, <3>2
    <3> QED BY <1>3, <3>3 DEF Capability
  <2> QED BY <2>1
<1>8. caps \in Seq(Capability(dom)) /\ Len(caps) = n
  <2>1. PICK S : S = Capability(dom)
    OBVIOUS
  <2>2. caps \in [1 .. n -> S]
    BY <1>6, <1>7, <2>1
  <2>3. caps \in Seq(S) /\ Len(caps) = n
    BY ONLY <2>2, n \in Nat
  <2> QED BY <2>1, <2>3
<1>9. Joined(full, caps, n, full)
  BY <1>1, <1>4, <1>6 DEF Joined, IsFunction
<1>10. dom \intersect Channel = {}
  BY <1>1, <1>2 DEF Channel
<1> QED BY <1>1, <1>5, <1>8, <1>9, <1>10, FirstTable

LEMMA InitInv == ASSUME HandlesSuffice, Init PROVE ChaosInv
<1>1. PICK dom : dom = CHANNELS .. CHANNELS + BootRegions - 1
  OBVIOUS
<1>2. PICK L \in Nat : L = CHANNELS + BootRegions
  BY ChaosAssumption
<1>3. L < HandleSpace /\ CHANNELS \in Nat \ {0} /\ BootRegions \in Nat
  BY <1>2, ChaosAssumption DEF HandlesSuffice
<1>4. PICK queues, regions : queues = [c \in Channel |-> <<>>] /\ regions = [r \in dom |-> zeroed(BootSize)]
  OBVIOUS
<1>5. PICK full : full = [k \in 1 .. L |-> [object |-> k - 1, rights |-> RegionRights, epoch |-> 0]]
  OBVIOUS
<1>6. PICK table, counter : table = Granted(Empty, 0, full) /\ counter = NextHandle(0, full)
  OBVIOUS
<1>7. /\ TableOK(dom, table, counter) /\ IsFunction(table) /\ DOMAIN table = 0 .. L - 1
      /\ \A k \in 1 .. L : table[k - 1] = full[k]
      /\ \A k \in 1 .. L : full[k] \in CapsOf(dom)
  <2>1. PICK n \in Nat : n = BootRegions
    BY <1>3
  <2>2. BootCaps(L, n, dom, full)
    BY <1>1, <1>2, <1>5, <2>1 DEF BootCaps
  <2> QED BY SMTT(30), <1>3, <1>6, <2>2, BootTable
<1>8. Channel \union dom = 0 .. L - 1 /\ Channel \intersect dom = {}
  BY <1>1, <1>2, <1>3 DEF Channel
<1>9. Cardinality(DOMAIN queues \union DOMAIN regions) = L
  <2>1. 0 \in Int /\ L - 1 \in Int
    OBVIOUS
  <2>2. Cardinality(0 .. L - 1) = IF 0 > L - 1 THEN 0 ELSE (L - 1) - 0 + 1
    BY <2>1, FS_Interval
  <2>3. Cardinality(0 .. L - 1) = L
    BY <2>2
  <2>4. DOMAIN queues \union DOMAIN regions = 0 .. L - 1
    BY <1>4, <1>8
  <2> QED BY <2>3, <2>4
<1>10. booted(queues, regions)
         = [epochs |-> [o \in Channel \union dom |-> 0],
            tables |-> [q \in {0} |-> table],
            next_handle |-> [q \in {0} |-> counter],
            queues |-> queues, regions |-> regions, held |-> HeldBy(0, full), failed |-> FALSE]
  <2>1. [k \in 1 .. Cardinality(DOMAIN queues \union DOMAIN regions) |->
           [object |-> k - 1, rights |-> RegionRights, epoch |-> 0]] = full
    BY <1>5, <1>9
  <2>2. DOMAIN queues \union DOMAIN regions = Channel \union dom
    BY <1>4
  <2> QED BY <1>6, <2>1, <2>2 DEF booted
<1>11. sys = booted(queues, regions)
  BY <1>1, <1>4 DEF Init
<1>12. /\ DOMAIN sys = SysFields /\ sys.failed = FALSE
       /\ sys.epochs = [o \in Channel \union dom |-> 0] /\ sys.tables = [q \in {0} |-> table]
       /\ sys.next_handle = [q \in {0} |-> counter] /\ sys.queues = queues /\ sys.regions = regions
       /\ sys.held = HeldBy(0, full)
  BY <1>10, <1>11 DEF SysFields
<1>13. PICK new : new = [alive |-> TRUE, epoch |-> 0, bytes |-> zeroed(BootSize)]
  OBVIOUS
<1>14. /\ DOMAIN model = WorldFields /\ model.regions = [r \in dom |-> new]
       /\ model.procs = sys.tables /\ model.in_flight = [c \in Channel |-> <<>>]
  <2>1. sys.tables[0] = table
    BY <1>12
  <2>2. model = [regions |-> [r \in dom |-> new], procs |-> [q \in {0} |-> sys.tables[0]],
                 in_flight |-> [c \in Channel |-> <<>>]]
    BY <1>1, <1>13 DEF Init
  <2> QED BY <1>12, <2>1, <2>2 DEF WorldFields
<1>15. new \in RegionModel /\ new.alive
  <2>1. zeroed(BootSize) \in Bytes
    BY ZeroedBytes, ChaosAssumption
  <2> QED BY <1>13, <2>1 DEF RegionModel
<1>16. DOMAIN model.regions = dom /\ Living(model.regions) = dom
  BY <1>14, <1>15 DEF Living
<1>17. ObjectsOK(sys.epochs, sys.regions, model.regions)
  <2>1. \E m \in Nat : DOMAIN model.regions = CHANNELS .. CHANNELS + m - 1
    BY <1>1, <1>3, <1>16
  <2>2. \A r \in DOMAIN model.regions : model.regions[r] \in RegionModel
    BY <1>14, <1>15, <1>16
  <2>3. DOMAIN sys.regions = dom /\ DOMAIN sys.epochs = Channel \union dom /\ \A c \in Channel : sys.epochs[c] = 0
    BY <1>4, <1>12
  <2>4. \A r \in dom : sys.epochs[r] = model.regions[r].epoch /\ sys.regions[r] = model.regions[r].bytes
    BY <1>4, <1>12, <1>13, <1>14
  <2> QED BY <1>16, <2>1, <2>2, <2>3, <2>4 DEF ObjectsOK
<1>18. TablesOK(dom, sys.tables, sys.next_handle)
  <2>1. DOMAIN sys.tables = 0 .. 1 - 1 /\ DOMAIN sys.next_handle = 0 .. 1 - 1
    BY <1>12
  <2>2. \A q \in DOMAIN sys.tables : TableOK(dom, sys.tables[q], sys.next_handle[q])
    BY <1>7, <1>12
  <2>3. 1 \in Nat \ {0}
    OBVIOUS
  <2> QED BY <2>1, <2>2, <2>3 DEF TablesOK
<1>19. FlightOK(dom, sys.queues, model.in_flight)
  <2>1. PICK none \in Seq(MessageModel(dom)) : none = <<>>
    <3>1. <<>> \in Seq(MessageModel(dom))
      OBVIOUS
    <3> QED BY <3>1
  <2>2. Shown(none) = <<>>
    BY <2>1, ShownFacts
  <2>3. \A c \in Channel : sys.queues[c] = Shown(none) /\ model.in_flight[c] = none
    BY <1>4, <1>12, <1>14, <2>1, <2>2
  <2>4. DOMAIN sys.queues = Channel /\ DOMAIN model.in_flight = Channel
    BY <1>4, <1>12, <1>14
  <2> QED BY <2>3, <2>4 DEF FlightOK
<1>20. StashOK(dom, sys.held, stash)
  <2>1. stash = {<<table[h], table[h]>> : h \in DOMAIN table}
    <3>1. sys.tables[0] = table
      BY <1>12
    <3> QED BY <3>1 DEF Init
  <2>2. \A h \in 0 .. L - 1 : h + 1 \in 1 .. L /\ (h + 1) - 1 = h
    OBVIOUS
  <2>3. \A k \in 1 .. L : k - 1 \in 0 .. L - 1
    OBVIOUS
  <2>4. DOMAIN full = 1 .. L
    BY <1>5
  <2>5. \A h \in HeldBy(0, full) : \E k \in 1 .. L : h[2] = full[k]
    BY <2>4 DEF HeldBy, SetOf
  <2>6. \A k \in 1 .. L : <<0, full[k]>> \in HeldBy(0, full)
    BY <2>4 DEF HeldBy, SetOf
  <2>7. \A h \in DOMAIN table : \E k \in 1 .. L : table[h] = full[k]
    BY <1>7, <2>2
  <2>8. \A k \in 1 .. L : \E h \in DOMAIN table : table[h] = full[k]
    BY <1>7, <2>3
  <2>9. {<<table[h], table[h]>> : h \in DOMAIN table} = {<<full[k], full[k]>> : k \in 1 .. L}
    BY <2>7, <2>8
  <2>10. {<<h[2], h[2]>> : h \in HeldBy(0, full)} = {<<full[k], full[k]>> : k \in 1 .. L}
    BY <2>5, <2>6
  <2>11. \A h \in HeldBy(0, full) : h[2] \in CapsOf(dom)
    BY <1>7, <2>5
  <2> QED BY <1>12, <2>1, <2>9, <2>10, <2>11 DEF StashOK
<1>21. Exact(sys, model, stash)
  BY <1>12, <1>14, <1>16, <1>17, <1>18, <1>19, <1>20 DEF Exact
<1>22. fault = "pending" /\ failure = "none"
  BY DEF Init
<1> QED BY <1>21, <1>22 DEF ChaosInv, FailsExactlyOnFault

LEMMA NextInv == ASSUME HandlesSuffice, ChaosInv, [Next]_vars PROVE ChaosInv'
<1>1. ASSUME NEW p \in Process, NEW size \in Sizes, NewRegion(p, size)
      PROVE  ChaosInv'
  BY <1>1, NewRegionStep
<1>2. CASE Local
  BY <1>2, LocalStep
<1>3. ASSUME NEW p \in Process, NEW grants \in Batches(p), Spawn(p, grants)
      PROVE  ChaosInv'
  BY <1>3, SpawnStep
<1>4. ASSUME NEW p \in Process, NEW c \in Channel, NEW grants \in Batches(p), Send(p, c, grants)
      PROVE  ChaosInv'
  BY <1>4, SendStep
<1>5. ASSUME NEW p \in Process, NEW c \in Channel, ReceiveNothing(p, c)
      PROVE  ChaosInv'
  BY <1>5, ReceiveNothingStep
<1>6. ASSUME NEW p \in Process, NEW c \in Channel, Receive(p, c)
      PROVE  ChaosInv'
  BY <1>6, ReceiveStep
<1>7. ASSUME NEW pick \in Picks, NEW span \in Spans, Read(pick, span[1], span[2])
      PROVE  ChaosInv'
  BY <1>7, ReadStep
<1>8. ASSUME NEW pick \in Picks, NEW span \in Spans, NEW byte \in Byte, Write(pick, span[1], span[2], byte)
      PROVE  ChaosInv'
  BY <1>8, WriteStep
<1>9. ASSUME NEW pick \in RegionPicks, Revoke(pick)
      PROVE  ChaosInv'
  BY <1>9, RevokeStep DEF RegionPicks
<1>10. ASSUME NEW pick \in RegionPicks, Destroy(pick)
       PROVE  ChaosInv'
  BY <1>10, DestroyStep DEF RegionPicks
<1>11. CASE UNCHANGED vars
  <2>1. sys' = sys /\ model' = model /\ stash' = stash /\ fault' = fault /\ failure' = failure
    BY <1>11 DEF vars
  <2>2. failure' = "none" => Exact(sys', model', stash')
    BY <2>1 DEF ChaosInv
  <2> QED BY <2>1, <2>2 DEF ChaosInv, FailsExactlyOnFault
<1> QED BY <1>1, <1>2, <1>3, <1>4, <1>5, <1>6, <1>7, <1>8, <1>9, <1>10, <1>11 DEF Next

LEMMA ChaosInvAlways == ASSUME HandlesSuffice PROVE Spec => []ChaosInv
<1>1. Init => ChaosInv
  BY InitInv
<1>2. ChaosInv /\ [Next]_vars => ChaosInv'
  BY NextInv
<1> QED BY <1>1, <1>2, PTL DEF Spec

\* The harness gives up if and only if its model was tampered with, and at the audit of
\* that very step, for any number of processes, channels, regions, grants and messages
\* (chaos.rs:3, "predicts the exact Result and the exact state afterward").
THEOREM HarnessIsRight == ASSUME HandlesSuffice PROVE Spec => []FailsExactlyOnFault
<1>1. ChaosInv => FailsExactlyOnFault
  BY DEF ChaosInv
<1> QED BY <1>1, ChaosInvAlways, PTL

LEMMA InvMeansExact == ASSUME ChaosInv PROVE ModelIsExact
<1> SUFFICES ASSUME failure = "none"
             PROVE  /\ model.procs = sys.tables
                    /\ \A c \in Channel :
                         sys.queues[c] = [k \in DOMAIN model.in_flight[c] |->
                                            [data |-> model.in_flight[c][k].sender, caps |-> model.in_flight[c][k].caps]]
                    /\ alive(model) = DOMAIN sys.regions
                    /\ alive(model) = DOMAIN sys.epochs \ Channel
                    /\ \A r \in alive(model) :
                         /\ model.regions[r].epoch = sys.epochs[r]
                         /\ model.regions[r].bytes = sys.regions[r]
                    /\ stash = {<<h[2], h[2]>> : h \in sys.held}
                    /\ \A p \in Process, c \in Channel :
                         Cardinality({h \in DOMAIN model.procs[p] : model.procs[p][h].object = c}) = 1
  BY Zenon DEF ModelIsExact
<1>1. Exact(sys, model, stash)
  BY DEF ChaosInv
<1>2. /\ model.procs = sys.tables /\ ObjectsOK(sys.epochs, sys.regions, model.regions)
      /\ FlightOK(DOMAIN model.regions, sys.queues, model.in_flight)
      /\ StashOK(DOMAIN model.regions, sys.held, stash)
  BY <1>1 DEF Exact
<1>3. \A c \in Channel :
        sys.queues[c] = [k \in DOMAIN model.in_flight[c] |->
                           [data |-> model.in_flight[c][k].sender, caps |-> model.in_flight[c][k].caps]]
  BY <1>2 DEF FlightOK, Shown
<1>4. alive(model) = Living(model.regions)
  BY DEF alive, Living
<1>5. /\ alive(model) = DOMAIN sys.regions /\ alive(model) = DOMAIN sys.epochs \ Channel
      /\ \A r \in alive(model) : model.regions[r].epoch = sys.epochs[r] /\ model.regions[r].bytes = sys.regions[r]
  <2>1. \A r \in Living(model.regions) : r \notin Channel
    BY <1>2, ChannelsAndRegions
  <2> QED BY <1>2, <1>4, <2>1 DEF ObjectsOK
<1>6. stash = {<<h[2], h[2]>> : h \in sys.held}
  BY <1>2 DEF StashOK
<1>7. ASSUME NEW p \in Process, NEW c \in Channel
      PROVE  Cardinality({h \in DOMAIN model.procs[p] : model.procs[p][h].object = c}) = 1
  <2>1. PICK table : table = model.procs[p] /\ TableOK(DOMAIN model.regions, table, sys.next_handle[p])
    BY <1>1, TableOfProcess
  <2>2. PICK h \in DOMAIN table : table[h].object = c /\ \A g \in DOMAIN table : table[g].object = c => g = h
    BY <2>1 DEF TableOK
  <2>3. {g \in DOMAIN table : table[g].object = c} = {h}
    BY <2>2
  <2> QED BY <2>1, <2>3, FS_Singleton
<1> QED BY <1>2, <1>3, <1>5, <1>6, <1>7

\* While it runs, the model is the system's state, also where no audit looks: what is
\* in flight, the epochs of what is held, the bytes nobody can read.
THEOREM ModelStaysExact == ASSUME HandlesSuffice PROVE Spec => []ModelIsExact
<1>1. ChaosInv => ModelIsExact
  BY InvMeansExact
<1> QED BY <1>1, ChaosInvAlways, PTL
=============================================================================
