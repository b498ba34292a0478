------------------------- MODULE MCStoreMiddleware -------------------------
(* Small instances of StoreMiddleware for TLC.                             *)
EXTENDS StoreMiddleware

CONSTANTS k1, k2, c1, c2

TwoKeys == {k1, k2}
TwoCallers == {c1, c2}

\* Stacks in which nothing that may skip a call lies below the cache.
SoundStacks == {<<"breaker">>, <<"logging", "retry", "metrics">>,
                <<"breaker", "cache">>, <<"health", "cache">>}
BreakerAlone == {<<"breaker">>}
=============================================================================
