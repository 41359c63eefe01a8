----------------------------- MODULE MCAdmission -----------------------------
(* Three questions: the first two share an address, the outer two a user,  *)
(* the last two a session; the middle one comes in through MCP.            *)
EXTENDS Admission, TLC

CONSTANTS q1, q2, q3, a1, a2, u1, u2, s1, s2

AddressOf == q1 :> a1 @@ q2 :> a1 @@ q3 :> a2
OwnerOf == q1 :> u1 @@ q2 :> u2 @@ q3 :> u1
PlaceOf == q1 :> s1 @@ q2 :> s2 @@ q3 :> s2
=============================================================================
