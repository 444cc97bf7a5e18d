---------------------------- MODULE MCAgentHarness ----------------------------
EXTENDS AgentHarness, TLC

CONSTANTS p1, n1, c1, c2

\* A prompt from outside; a command that navigates, and a plain one.
MCKind == (p1 :> "prompt" @@ n1 :> "navigation")

MCStarts == (c1 :> n1 @@ c2 :> NoOperation)

===============================================================================
