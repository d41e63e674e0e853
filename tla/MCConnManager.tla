--------------------------- MODULE MCConnManager ---------------------------
(***************************************************************************)
(* Instances of ConnManager for TLC: one or two requests at a time, one or *)
(* two servers, and a store whose server list is fixed or changes.         *)
(***************************************************************************)
EXTENDS ConnManager, TLC

CONSTANTS s1, s2, t1, t2

FixedCatalog     == {Servers}
AnyCatalog       == SUBSET Servers
\* One server at a time: a session's server is lost and comes back, and HotReload
\* moves the session there and back.
SwappingCatalog  == {{s} : s \in Servers}

Symmetry == Permutations(Threads) \cup Permutations(Servers)
=============================================================================
