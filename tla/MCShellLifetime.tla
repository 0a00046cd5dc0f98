-------------------------- MODULE MCShellLifetime --------------------------
\* ShellLifetime on a small instance.
EXTENDS ShellLifetime

CONSTANTS c1, c2, c3, x1, x2, x3

=============================================================================
