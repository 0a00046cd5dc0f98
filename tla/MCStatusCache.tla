--------------------------- MODULE MCStatusCache ---------------------------
\* StatusCache on small instances.
EXTENDS StatusCache

CONSTANTS l1, l2, f1, f2, f3

=============================================================================
