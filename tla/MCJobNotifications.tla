-------------------------- MODULE MCJobNotifications --------------------------
EXTENDS JobNotifications

JobOf(uncertain, delivery, root) ==
    [uncertain |-> uncertain, delivery |-> delivery, root |-> root]

\* A job that failed, a long result found after an uncertain end, a marker for
\* the root agent, a file for it.
MCKinds == {JobOf(FALSE, "none", FALSE), JobOf(TRUE, "markdown", FALSE),
            JobOf(FALSE, "markdown", TRUE), JobOf(FALSE, "file", TRUE)}

StrandedKinds == {JobOf(FALSE, "file", TRUE)}
=============================================================================
