------------------------- MODULE MCNixcacheRequests -------------------------
\* Four tags, two at a time: a fetch can end, fail or wait while others run.
EXTENDS NixcacheRequests
=============================================================================
