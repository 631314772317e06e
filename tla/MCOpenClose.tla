---------------------------- MODULE MCOpenClose ----------------------------
(* OpenClose for TLC: foo, foo.tex, foo.dat and foo.dat.tex, a command of  *)
(* one word and one of more, a table of one pipe.                          *)
EXTENDS OpenClose, TLC

CONSTANTS h1, h2, h3, foo, foo_tex, foo_dat, foo_dat_tex, cmd, line

MCHandles == {h1, h2, h3}
MCNames == {foo, foo_tex, foo_dat, foo_dat_tex}
MCBare == {foo}
MCTex == foo :> foo_tex @@ foo_dat :> foo_dat_tex
MCCommands == {cmd, line}
MCWords == {cmd}
MCReads == {0}

Symmetry == Permutations(MCHandles)
=============================================================================
