----------------------------- MODULE MCModeSync -----------------------------
EXTENDS ModeSync
=============================================================================
