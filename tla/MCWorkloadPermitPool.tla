------------------------- MODULE MCWorkloadPermitPool -------------------------
EXTENDS WorkloadPermitPool

CONSTANTS l1, l2, h1, h2

MCRequest == {l1, l2, h1, h2}
MCHeavy == {h1, h2}

===============================================================================
