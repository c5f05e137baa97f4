------------------------------- MODULE MCPools -------------------------------
(***************************************************************************)
(* Instances of Pools for TLC.                                             *)
(***************************************************************************)
EXTENDS PoolsClaims

CONSTANTS p1, p2, p3, p4, ab, cd

\* p1 is filled, p2 deployed and not initialised, p3 and p4 not deployed when
\* the process starts; p4's fee tier is not listed.
McPairOf == [p \in Pools |-> IF p = p2 THEN cd ELSE ab]
McKind == [p \in Pools |-> IF p = p3 THEN "v2" ELSE "v3"]
McTicks == 0..2
McRanges == {<<0, 1>>, <<0, 2>>}
Near == [t \in Ticks |-> {i \in Ticks : i - t \in {-1, 0, 1}}]
Blank == [live |-> FALSE, tick |-> None, positions |-> [r \in Ranges |-> 0], reserve |-> 0]
McOpening ==
    [p \in Pools |->
        CASE p = p1 -> [Blank EXCEPT !.live = TRUE, !.tick = 0, !.positions[<<0, 2>>] = 1]
          [] p = p2 -> [Blank EXCEPT !.live = TRUE]
          [] OTHER  -> Blank]

=============================================================================
