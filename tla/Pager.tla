------------------------------- MODULE Pager --------------------------------
(***************************************************************************)
(* The contract between the main thread of fiveman and its pager fork,     *)
(* with no pipe, byte or process in sight: PagerFork implements it with    *)
(* the code of both sides, and Fiveman relies on no more than it.          *)
(*                                                                         *)
(* A client that asks is served by a service that is up, and by nothing    *)
(* else.  Nothing repairs a service that has broken down, and a client     *)
(* that asks it then is lost.  It may never have come up at all.           *)
(***************************************************************************)
VARIABLES
  client,    \* "free", "asking", "answered" or "gone"
  service    \* "up" or "down"

vars == <<client, service>>

Init == client = "free" /\ service \in {"up", "down"}

Ask ==
  /\ client = "free"
  /\ client' = IF service = "up" THEN "asking" ELSE "gone"
  /\ UNCHANGED service

Answer ==
  /\ client = "asking" /\ service = "up"
  /\ client' = "answered"
  /\ UNCHANGED service

Return ==
  /\ client = "answered"
  /\ client' = "free"
  /\ UNCHANGED service

BreakDown ==
  /\ service' = "down"
  /\ UNCHANGED client

(* The client ends, and may take the service with it.                      *)
Leave ==
  /\ client # "gone"
  /\ client' = "gone"
  /\ service' \in {service, "down"}

Next == Ask \/ Answer \/ Return \/ BreakDown \/ Leave

Spec == Init /\ [][Next]_vars
=============================================================================
