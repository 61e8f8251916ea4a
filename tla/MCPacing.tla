------------------------------- MODULE MCPacing -------------------------------
EXTENDS Pacing
MCSines == {-2, 0, 2}
===============================================================================
