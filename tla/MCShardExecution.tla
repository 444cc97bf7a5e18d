--------------------------- MODULE MCShardExecution ---------------------------
EXTENDS ShardExecution

\* The last shard depends on the first.
MCDependencyIds == [s \in 1..N |-> IF s = N THEN {1} \ {N} ELSE {}]

===============================================================================
