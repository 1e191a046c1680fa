--------------------------- MODULE MCServerAudit ---------------------------
EXTENDS ServerAudit

\* Two actions of one task, then one of another.
ThreePairs == << [task |-> 1, act |-> 1], [task |-> 1, act |-> 2], [task |-> 2, act |-> 3] >>
============================================================================
