---------------------------- MODULE MCArtixRun ----------------------------
EXTENDS ArtixRun

MCStims == {"dual", "solo1", "solo2"}
MCUnits == [s \in MCStims |-> CASE s = "dual" -> {"A1", "A2"} [] s = "solo1" -> {"A1"}
                                [] s = "solo2" -> {"A2"}]
MCAddr == [s \in MCStims |-> IF s = "dual" THEN [u \in {"A1", "A2"} |-> IF u = "A1" THEN 1 ELSE 2]
                                           ELSE [u \in {"A1", "A2"} |-> IF u = "A1" THEN 2 ELSE 1]]
MCRepeats == [s \in MCStims |-> IF s = "dual" THEN <<2>> ELSE <<1, 2>>]
MCPadding == [s \in MCStims |-> IF s = "dual" THEN 1 ELSE 0]
============================================================================
