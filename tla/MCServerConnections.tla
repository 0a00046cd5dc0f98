------------------------ MODULE MCServerConnections ------------------------
\* ServerConnections on small instances.
EXTENDS ServerConnections, TLC

CONSTANTS p1, p2, a1, a2

MCProcesses == {p1, p2}
MCAttempts  == {a1, a2}
Symmetry    == Permutations(MCProcesses) \cup Permutations(MCAttempts)

=============================================================================
