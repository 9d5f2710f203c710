--------------------------- MODULE OrderedDelivery ---------------------------
(***************************************************************************)
(* What a publishing connection promises, said without frames, sockets or  *)
(* channels: requests are delivered one at a time, in the order they were  *)
(* made, none twice and none skipped, until the connection closes; nothing *)
(* is delivered after that and the connection never opens again.           *)
(*                                                                         *)
(* ConnectionManager.tla implements this specification when a single       *)
(* thread uses the connection.                                             *)
(***************************************************************************)
EXTENDS Naturals, Sequences

CONSTANT Item        \* what can be requested

VARIABLES
  requested,         \* the requests made, oldest first
  delivered,         \* the requests that reached the other side
  open               \* can anything still be delivered?

vars == <<requested, delivered, open>>

Init ==
  /\ requested = <<>>
  /\ delivered = <<>>
  /\ open = TRUE

\* The user of the connection asks for one more item to be delivered.
Request ==
  /\ \E x \in Item : requested' = Append(requested, x)
  /\ UNCHANGED <<delivered, open>>

\* The oldest item not yet delivered arrives.
Deliver ==
  /\ open
  /\ Len(delivered) < Len(requested)
  /\ delivered' = Append(delivered, requested[Len(delivered) + 1])
  /\ UNCHANGED <<requested, open>>

\* The connection is lost for good.
Close ==
  /\ open
  /\ open' = FALSE
  /\ UNCHANGED <<requested, delivered>>

Next == Request \/ Deliver \/ Close

Spec == Init /\ [][Next]_vars

==============================================================================
