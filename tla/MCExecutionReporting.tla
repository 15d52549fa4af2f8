------------------------ MODULE MCExecutionReporting ------------------------
EXTENDS ExecutionReporting, TLC

CONSTANTS h1, a1, c1, c2

=============================================================================
