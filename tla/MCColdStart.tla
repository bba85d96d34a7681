----------------------------- MODULE MCColdStart -----------------------------
EXTENDS ColdStart
=============================================================================
