---------------------------- MODULE MCFillEngine ----------------------------
(***************************************************************************)
(* An instance of FillEngine for TLC: a route of one pool, one that spans  *)
(* two deployments and one through a pool that no deployment has.  One     *)
(* quote measures the first; the other any, as a route or as a deposit.    *)
(***************************************************************************)
EXTENDS FillEngine

CONSTANTS q1, direct, spanning, unlisted, p1, p2, p3, uni, sushi

McAsks == [q \in Quotes |->
    IF q = q1 THEN {<<"route", direct>>}
    ELSE {<<"route", direct>>, <<"deposit", spanning>>, <<"route", unlisted>>,
          <<"deposit", unlisted>>}]
McRouteOf == [o \in Orders |-> direct]
McLegs == [r \in Routes |->
    CASE r = direct -> <<p1>> [] r = spanning -> <<p1, p2>> [] r = unlisted -> <<p3>>]
McOrigin == [p \in {p1, p2, p3} |->
    CASE p = p1 -> [kind |-> "v3", amm |-> uni, router |-> uni]
      [] p = p2 -> [kind |-> "v3", amm |-> sushi, router |-> sushi]
      [] p = p3 -> None]

=============================================================================
