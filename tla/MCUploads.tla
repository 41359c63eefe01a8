------------------------------ MODULE MCUploads ------------------------------
(* Two uploads to one session and the sample in another.                     *)
EXTENDS Uploads, TLC

CONSTANTS u1, u2, u3, s1, s2

MCSessionOf == u1 :> s1 @@ u2 :> s1 @@ u3 :> s2
MCFiles == u1 :> 2 @@ u2 :> 1 @@ u3 :> 0
=============================================================================
