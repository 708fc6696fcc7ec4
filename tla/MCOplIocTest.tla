---------------------------- MODULE MCOplIocTest ----------------------------
EXTENDS OplIocTest, TLC
CONSTANTS r1, r2
MCPrioIoc == (r1 :> 1) @@ (r2 :> 1)
=============================================================================
