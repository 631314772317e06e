----------------------------- MODULE MCMakeTex -----------------------------
(* A name of two pieces: a script prints nothing, part of it, all of it with *)
(* and without newlines, or more than it.                                    *)
EXTENDS MakeTex

MCName  == <<"na", "me">>
MCPlans == {<<>>, <<"nl">>, <<"na">>, <<"na", "me">>, <<"na", "me", "nl">>,
            <<"na", "me", "nl", "nl">>, <<"na", "nl", "me">>}
=============================================================================
