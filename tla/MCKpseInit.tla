----------------------------- MODULE MCKpseInit ------------------------------
(* Paths of two or three elements. *)
EXTENDS KpseInit
CONSTANTS u1, u2, u3, c1, c2, l1, l2
MCUserPath == <<u1, u2, u3>>
MCCnfPath == <<c1, c2>>
MCDbPath == <<l1, l2>>
==============================================================================
