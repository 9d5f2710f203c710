--------------------------- MODULE MCCommonFactory ---------------------------
(***************************************************************************)
(* CommonFactory for TLC, with the factory's four routers.  A caller of    *)
(* init(routers) passes four routers, one and three null pointers, or four *)
(* null pointers.                                                          *)
(***************************************************************************)
EXTENDS CommonFactory

MCKinds == {"parsed", "raw", "event", "group"}

Pointers(kinds) == [k \in kinds |-> Foreign]

MCGiven == {Pointers({}), Pointers({"raw"}), Pointers(MCKinds)}

==============================================================================
