--------------------------- MODULE MCNodeSession ---------------------------
EXTENDS NodeSession, TLC

CONSTANTS l1, l2, t1

=============================================================================
