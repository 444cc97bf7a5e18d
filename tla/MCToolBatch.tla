----------------------------- MODULE MCToolBatch -----------------------------
EXTENDS ToolBatch

MCResource == {"x", "y"}
MCOverlap == {<<r, r>> : r \in MCResource}

Writes(r) == [exclusive |-> FALSE, claims |-> {[res |-> r, access |-> "write"]}]

MCPlanned == {Writes("x"), Writes("y")}
MCRewritten(r) == {r, Writes("y")}
MCPlannable == {Call, Call \ {2}}
MCOwnResults == {<<"completed", FALSE>>, <<"failed", TRUE>>}
MCAllOwnResults == {"completed", "failed"} \X BOOLEAN

===============================================================================
