------------------------------- MODULE Memory -------------------------------
(* crate `memory`: regions of bytes named by capability, composed with the  *)
(* kernel, the processes, their spawns and the channels of Ipc.tla. A       *)
(* process may present any capability value it ever had, at any time, to    *)
(* the registry as well as to the kernel behind the registry's back.        *)
EXTENDS Ipc, MemoryOps

CONSTANTS
  MaxRegions,    \* bound: regions ever allocated
  RegionSizes,   \* sizes asked of `new_region`
  UsizeValues    \* number of values of a `usize`: 2^64 in the code

ASSUME MemoryAssumption ==
  /\ MaxRegions \in Nat
  /\ UsizeValues \in Nat \ {0}
  /\ RegionSizes \subseteq 0 .. UsizeValues - 1

VARIABLES
  regions,    \* `RegionRegistry.regions`: the bytes of each region
  allocated   \* the regions ever allocated, and their size (history)

memoryVars == <<ipcVars, regions, allocated>>
registryVars == <<regions, allocated>>

Usize == 0 .. UsizeValues - 1
Byte == {0, 1}
Bytes(sizes) == UNION {[0 .. size - 1 -> Byte] : size \in sizes}

MemoryInit == IpcInit /\ regions = Empty /\ allocated = Empty

-----------------------------------------------------------------------------
(* RegionRegistry *)

\* `new_region`, and the creator installs the capability.
NewRegion(p, size) ==
  /\ Cardinality(DOMAIN allocated) < MaxRegions
  /\ NewObject(p, RegionRights)
  /\ regions' = Extended(regions, next_id, zeroed(size))
  /\ allocated' = Extended(allocated, next_id, size)
  /\ UNCHANGED queues

Write(p, cap, offset, data) ==
  /\ checked_range(UsizeValues, epochs, regions, cap, {"WRITE"}, offset, size_of(data))
  /\ regions' = [regions EXCEPT ![cap.object] = overwritten(@, offset, data)]
  /\ UNCHANGED <<ipcVars, allocated>>

\* Mutant: any capability the kernel still has an object for will do.
Update_unchecked(p, cap, bytes) ==
  /\ object_exists(epochs, cap.object)
  /\ cap.object \in DOMAIN regions
  /\ bytes \in [DOMAIN regions[cap.object] -> Byte]
  /\ regions' = [regions EXCEPT ![cap.object] = bytes]
  /\ UNCHANGED <<ipcVars, allocated>>

\* `f` may leave any bytes behind; a region cannot change its size.
Update(p, cap, bytes) ==
  /\ accessible(epochs, regions, cap, {"READ", "WRITE"})
  /\ bytes \in [DOMAIN regions[cap.object] -> Byte]
  /\ regions' = [regions EXCEPT ![cap.object] = bytes]
  /\ UNCHANGED <<ipcVars, allocated>>

DestroyRegion(p, cap) ==
  /\ accessible(epochs, regions, cap, {"DESTROY"})
  /\ DestroyObject(p, cap)
  /\ regions' = removed(regions, cap.object)
  /\ UNCHANGED <<queues, allocated>>

\* Mutant: what is kept is what should be dropped.
Reclaim_inverted ==
  /\ regions' = [o \in {r \in DOMAIN regions : ~object_exists(epochs, r)} |-> regions[o]]
  /\ UNCHANGED <<ipcVars, allocated>>

Reclaim ==
  /\ regions' = [o \in {r \in DOMAIN regions : object_exists(epochs, r)} |-> regions[o]]
  /\ UNCHANGED <<ipcVars, allocated>>

\* `read`, `inspect` and `size` change nothing.
MemoryNext ==
  \/ IpcNext /\ UNCHANGED registryVars
  \/ \E p \in Process, size \in RegionSizes : NewRegion(p, size)
  \/ \E p \in Process, offset \in Usize : \E cap \in known[p], data \in Bytes(Usize) :
       Write(p, cap, offset, data)
  \/ \E p \in Process : \E cap \in known[p], bytes \in Bytes(RegionSizes) : Update(p, cap, bytes)
  \/ \E p \in Process : \E cap \in known[p] : DestroyRegion(p, cap)
  \/ Reclaim

MemorySpec == MemoryInit /\ [][MemoryNext]_memoryVars

-----------------------------------------------------------------------------
(* Properties *)

\* A region never changes its size, the registry keeps nothing it did not
\* allocate, and a range that is let through lies within the region, offsets near
\* the end of `usize` included.
MemoryTypeOK ==
  /\ IpcTypeOK
  /\ DOMAIN regions \subseteq DOMAIN allocated
  /\ DOMAIN allocated \subseteq 0 .. next_id - 1
  /\ \A o \in DOMAIN regions : regions[o] \in [0 .. allocated[o] - 1 -> Byte]
  /\ \A p \in Process : \A cap \in known[p] : \A offset, len \in Usize :
       checked_range(UsizeValues, epochs, regions, cap, NONE, offset, len)
         => offset + len <= allocated[cap.object]

\* Kernel and registry agree: as long as a region's object exists its bytes do,
\* whatever was destroyed through the registry or behind its back, and whenever
\* storage was reclaimed. So nobody with a working capability for a region is
\* ever told `UnknownRegion`.
LiveRegionsKeepTheirBytes == DOMAIN allocated \cap DOMAIN epochs \subseteq DOMAIN regions

\* The moved regions in flight.
MovedRegions ==
  {CapAt(place).object : place \in {q \in InFlight : q[3] \in queues[q[1]][q[2]].moved}}
    \cap DOMAIN allocated

\* Nobody touches a moved region while it is in flight: the bytes the receiver
\* finds are those the sender left, no process can write, free or have reclaimed
\* them in between, through whatever capability it kept.
InFlightIsFrozen ==
  [][\A o \in MovedRegions \cap MovedRegions' : regions'[o] = regions[o]]_memoryVars

\* Once a region's object is gone its bytes never change again, and they never
\* come back after being reclaimed.
DestroyedStaysUntouched ==
  [][\A o \in DOMAIN allocated \ DOMAIN epochs :
       o \in DOMAIN regions' => o \in DOMAIN regions /\ regions'[o] = regions[o]]_memoryVars
=============================================================================
