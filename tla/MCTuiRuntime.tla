---------------------------- MODULE MCTuiRuntime ----------------------------
EXTENDS TuiRuntime
=============================================================================
