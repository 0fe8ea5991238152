-------------------------- MODULE MCTriggerManager --------------------------
EXTENDS TriggerManager
=============================================================================
