----------------------------- MODULE MCServers -----------------------------
(* Servers with model values for windows and channels, which the code never *)
(* compares except for identity.                                            *)
EXTENDS Servers, TLC

CONSTANTS w1, w2, c

WindowSymmetry == Permutations(Windows)
=============================================================================
