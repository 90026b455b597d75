----------------------------- MODULE MCRealtime -----------------------------
(* Realtime on a small instance for TLC: an order with a dish and a service *)
(* and one page open, of each kind.  Pages affect one another only through  *)
(* the server, where others may act at any time.                            *)
EXTENDS Realtime, TLC

CONSTANTS dish, massage, track, kitchen, services, board, own, floor, w1, w2

MCDestinationOf == (dish :> "kitchen") @@ (massage :> "services")
MCKindOf == (track :> "track") @@ (kitchen :> "station") @@ (services :> "station") @@ (board :> "board")
              @@ (own :> "waiter") @@ (floor :> "floor")
MCStationOf == [c \in Page |-> IF c = services THEN "services" ELSE "kitchen"]
MCUserOf == [c \in Page |-> w1]
MCBegin == {(dish :> "none") @@ (massage :> "none"), (dish :> "ready") @@ (massage :> "served")}
MCOpen == {{c} : c \in Page}

(* Requests are only names of slots.                                        *)
Symmetry == Permutations(Request)
=============================================================================
