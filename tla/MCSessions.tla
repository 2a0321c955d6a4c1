----------------------------- MODULE MCSessions -----------------------------
(* Values for the constants of Sessions.                                   *)
EXTENDS Sessions, TLC

\* Requests, users and browsers are interchangeable.
MCSymmetry == Permutations(Requests) \union Permutations(Users) \union Permutations(Browsers)
=============================================================================
