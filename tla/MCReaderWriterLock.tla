------------------------- MODULE MCReaderWriterLock -------------------------
\* The reader-writer lock on small instances.
EXTENDS ReaderWriterLock, TLC

CONSTANTS t1, t2, t3

BothClasses == {"reentrant", "bare"}

=============================================================================
