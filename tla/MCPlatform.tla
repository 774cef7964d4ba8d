----------------------------- MODULE MCPlatform ----------------------------
(* Platform for TLC.                                                      *)
EXTENDS Platform, TLC

\* Requests, tenants and rows are interchangeable names.
PlatformSymmetry == Permutations(Requests) \cup Permutations(Tenants) \cup Permutations(Rows)
=============================================================================
