---------------------------- MODULE MCRateLimits ----------------------------
(* Small instances of RateLimits for TLC.                                  *)
EXTENDS RateLimits
=============================================================================
