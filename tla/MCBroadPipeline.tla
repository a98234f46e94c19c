--------------------------- MODULE MCBroadPipeline ---------------------------
EXTENDS BroadPipeline
=============================================================================
