---------------------------- MODULE MCSessionStore ----------------------------
(* A full store of two sessions, of one user each, and room for one more   *)
(* to be created; requests of any kind.                                    *)
EXTENDS SessionStore, TLC

CONSTANTS r1, r2, u1, u2, a, b, c

TwoSessions == <<a, b>>
Owners == a :> u1 @@ b :> u2 @@ c :> Nobody

Interchangeable == Permutations(Requests)
===============================================================================
