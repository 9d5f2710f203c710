------------------------- MODULE MCConnectionManager -------------------------
(***************************************************************************)
(* Small instances of ConnectionManager for TLC: payloads of no, one and   *)
(* two body frames for a declared exchange, and one publication for an     *)
(* exchange the broker does not know.                                      *)
(***************************************************************************)
EXTENDS ConnectionManager

CONSTANTS x1, x2, m

MCPublication ==
  {[exchange |-> x1, routing_key |-> "k1", payload |-> b] : b \in {<<>>, <<m>>, <<m, m>>}}
    \cup {[exchange |-> x2, routing_key |-> "k2", payload |-> <<m>>]}

MCBodyFrames(p) == Len(p.payload)

MCExchanges == {x1}

==============================================================================
