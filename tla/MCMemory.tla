------------------------------ MODULE MCMemory ------------------------------
EXTENDS Memory

\* A view that may read and write but not free the region.
DerivedRightsDef == {{"READ", "WRITE"}}

\* Copies of a region's first capability, or of a reissued one.
RegrantedDef == {RegionRights}

\* A region shared, or handed over.
ShapesDef == {<<"Derive">>, <<"Move">>}
=============================================================================
