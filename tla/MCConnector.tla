----------------------------- MODULE MCConnector -----------------------------
(* A small instance of the connector: some clients have the same url. *)
EXTENDS Connector, TLC

CONSTANTS c1, c2, c3, c4, c5, u1, u2, u3, k1, k2, k3

FiveClients == {c1, c2, c3, c4, c5}
ThreeUrls == {u1, u2, u3}
Urls == c1 :> u1 @@ c2 :> u2 @@ c3 :> u3 @@ c4 :> u1 @@ c5 :> u2
Start == <<c1, c2, c3>>
ThreeWorkers == {k1, k2, k3}
=============================================================================
