------------------------- MODULE MCAutomationTurns -------------------------
EXTENDS AutomationTurns
CONSTANTS d1, d2, d3, c1, u1, u2, s1, s2
MCSessionOf == [m \in Message |-> IF m = u2 THEN s2 ELSE s1]
=============================================================================
