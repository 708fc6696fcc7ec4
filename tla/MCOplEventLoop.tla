--------------------------- MODULE MCOplEventLoop ---------------------------
EXTENDS OplEventLoop, TLC
CONSTANTS r1, r2
MCPrio == (r1 :> 1) @@ (r2 :> 0)
MCPrio1 == (r1 :> 1)
MCPrio0 == <<>>
=============================================================================
