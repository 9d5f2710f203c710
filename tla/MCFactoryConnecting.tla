------------------------- MODULE MCFactoryConnecting -------------------------
(***************************************************************************)
(* FactoryConnecting for TLC, with three routers, of which callers of      *)
(* init(routers) pass one or none.                                         *)
(***************************************************************************)
EXTENDS FactoryConnecting

MCKinds == {"parsed", "raw", "event"}

MCGiven == {[k \in {} |-> Foreign], [k \in {"raw"} |-> Foreign]}

MCPorts == {"number", "text"}
==============================================================================
