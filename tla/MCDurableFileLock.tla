--------------------------- MODULE MCDurableFileLock ---------------------------
EXTENDS DurableFileLock

CONSTANTS p1, p2, p3

MCProcess == {p1, p2, p3}
MCMaxAttempts == [p \in MCProcess |-> IF p = p2 THEN 2 ELSE 1]

===============================================================================
