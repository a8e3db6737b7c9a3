------------------------------ MODULE MCLiveGuard ------------------------------
EXTENDS LiveGuard, TLC

CONSTANTS c1, c2, btc, eth, flat, liquidated, x, none

KindSet == {"preflight", "drift", "activate", "release"}
PreflightOnly == {"preflight"}
CommandSymmetry == Permutations({c1, c2})
=============================================================================
