----------------------------- MODULE MCPipeline -----------------------------
EXTENDS PipelineTrace

\* One region, fewer regions than the ring has places, and more; fewer batches than
\* regions, and enough for every region of a pool of up to three to come round twice.
ConfigsDef == [batches : 0 .. 7, pool : 0 .. 4, stages : 0 .. 3]
=============================================================================
