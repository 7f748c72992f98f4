------------------------- MODULE MCBreakerProtocol --------------------------
(* Two endpoints, threshold 2, timeout of 2 ticks, 2 successes to close,   *)
(* up to 2 overlapping requests per endpoint.                              *)
EXTENDS BreakerProtocol
=============================================================================
