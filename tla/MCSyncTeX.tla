----------------------------- MODULE MCSyncTeX -----------------------------
(* Without -synctex, and with -synctex=0, -1, 1, 3 and 5.                    *)
EXTENDS SyncTeX

Said(what, gz, plain, forms) ==
    [said |-> what, gz |-> gz, plainName |-> plain, forms |-> forms]

MCOptions == {Said("nothing", TRUE, FALSE, FALSE), Said("zero", TRUE, FALSE, FALSE),
              Said("number", FALSE, FALSE, FALSE), Said("number", TRUE, FALSE, FALSE),
              Said("number", TRUE, TRUE, FALSE), Said("number", TRUE, FALSE, TRUE)}
=============================================================================
