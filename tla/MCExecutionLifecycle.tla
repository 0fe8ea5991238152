------------------------ MODULE MCExecutionLifecycle ------------------------
EXTENDS ExecutionLifecycle, TLC
=============================================================================
