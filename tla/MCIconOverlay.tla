-------------------------- MODULE MCIconOverlay --------------------------
\* IconOverlay on a small instance.
EXTENDS IconOverlay

CONSTANTS l1, l2, f1

\* A file that is no member becomes one, and is locked.
MCFlagsOf  == [s \in Status |-> IF s = 2 THEN {"Member", "Locked"} ELSE {}]
MCLoadings == {{"Versioned", "Modified"}, {"Versioned", "Modified", "Locked"}}

=============================================================================
