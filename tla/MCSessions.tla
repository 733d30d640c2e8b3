------------------------------ MODULE MCSessions ------------------------------
(* Bounds of the run of Sessions.                                          *)
EXTENDS Sessions, TLC

CONSTANTS s1, s2

\* Nothing, a site that is not the default one, both
NewUserSites == {{}, {s2}, {s1, s2}}

\* Ids are drawn at random and goroutines are alike.
Alike == Permutations(SessionIds) \cup Permutations(Requests)
=============================================================================
