------------------------------ MODULE MCGlyph ------------------------------
(* A font, a real name for it and a fallback font; sizes around two real    *)
(* resolutions, one of which has a tolerance of 2, and words of 10 bits.     *)
EXTENDS Glyph

MCNames == {"circle", "lcircle", "cmr"}

\* No alias, an alias, an alias that is one itself, and two.
MCMaps == {[n \in MCNames |-> <<>>],
           [n \in MCNames |-> IF n = "circle" THEN <<"lcircle">> ELSE <<>>],
           [n \in MCNames |-> IF n = "circle" THEN <<"lcircle", "cmr">>
                              ELSE IF n = "lcircle" THEN <<"circle">> ELSE <<>>]}

MCSettings == {<<>>, <<300, 300>>, <<300, 200, 500>>, <<1, 300, 300, 501>>, <<200, 310, 450>>,
               <<0, 300>>}

Pk(n, d) == [name |-> n, dpi |-> d, format |-> "pk"]
Gf(n, d) == [name |-> n, dpi |-> d, format |-> "gf"]
MCFiles == {Pk("circle", 300), Gf("circle", 501), Pk("lcircle", 300), Pk("lcircle", 498),
            Pk("cmr", 200), Pk("cmr", 500), Gf("cmr", 0)}

\* At most one file at the start, or a substitute on either side of a size.
MCTrees == {t \in SUBSET MCFiles : Cardinality(t) <= 1} \cup {{Pk("cmr", 200), Pk("cmr", 450)}}
=============================================================================
