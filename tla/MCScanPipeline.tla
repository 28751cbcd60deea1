--------------------------- MODULE MCScanPipeline ---------------------------
EXTENDS ScanPipeline
=============================================================================
