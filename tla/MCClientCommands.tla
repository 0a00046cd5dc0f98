-------------------------- MODULE MCClientCommands --------------------------
\* ClientCommands on small instances.
EXTENDS ClientCommands

CONSTANTS t1, t2, q1, q2

=============================================================================
