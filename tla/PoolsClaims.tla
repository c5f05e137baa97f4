----------------------------- MODULE PoolsClaims -----------------------------
(***************************************************************************)
(* What comments of chain/pool-repository.ts say of it.                    *)
(***************************************************************************)
EXTENDS Pools

\* "the block every loaded pool is current to" (pool-repository.ts:133, of
\* syncedBlock): between two replays a pool held in full is what the chain had
\* there.
CurrentToSyncedBlock ==
    syncing = None => \A q \in Loaded : \A p \in DOMAIN loaded[q].held :
        loaded[q].held[p].liquidity = Liquidity(p, chain[syncedBlock][p])

=============================================================================
