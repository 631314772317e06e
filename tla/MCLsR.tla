------------------------------- MODULE MCLsR -------------------------------
(* Two processes of each kind and one font, which both makers may want.      *)
EXTENDS LsR

CONSTANTS u1, u2, m1, m2, f
=============================================================================
