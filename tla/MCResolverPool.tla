--------------------------- MODULE MCResolverPool ---------------------------
(* The instance of ResolverPool that TLC checks: the three pools of the    *)
(* server, of which proposed is a local variable.                          *)
EXTENDS ResolverPool

CONSTANTS r1, r2, r3, h1, h2, pool, cache, proposed

MCResolver == {r1, r2, r3}
MCHost == {h1, h2}
MCPool == {pool, cache, proposed}
MCLocal == {proposed}
=============================================================================
