----------------------------- MODULE MCRelease -----------------------------
EXTENDS Fetch
=============================================================================
