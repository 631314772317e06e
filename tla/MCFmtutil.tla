----------------------------- MODULE MCFmtutil -----------------------------
(* tex by tex and lua; cs by tex, by tex-dev, whose formats go to the same    *)
(* directory, and by mf; cs is built on tex, and tex on nothing or on cs.    *)
EXTENDS Fmtutil

TexTex == <<"tex", "tex">>
TexLua == <<"tex", "lua">>
CsTex  == <<"cs", "tex">>
CsDev  == <<"cs", "tex-dev">>
CsMf   == <<"cs", "mf">>

MCEntries == {TexTex, TexLua, CsTex, CsDev, CsMf}
MCDir == "tex" :> "tex" @@ "tex-dev" :> "tex" @@ "lua" :> "lua" @@ "mf" :> "metafont"
MCExt == "tex" :> "fmt" @@ "tex-dev" :> "fmt" @@ "lua" :> "fmt" @@ "mf" :> "base"

\* Nothing, or only those of lua and tex-dev.
MCDests == {[w \in Places |-> None],
            [w \in Places |-> IF w = <<"tex", Name(CsDev)>> THEN CsDev
                              ELSE IF w = <<"lua", Name(TexLua)>> THEN TexLua ELSE None]}

On(p)  == [of |-> p, on |-> TRUE]
Off(p) == [of |-> p, on |-> FALSE]
File(found, lines) == [there |-> TRUE, found |-> found, lines |-> lines]
NoFile == [there |-> FALSE, found |-> FALSE, lines |-> <<>>]
Trees(config, home, other) ==
    "TEXMFCONFIG" :> config @@ "TEXMFHOME" :> home @@
    "TEXMFDIST" :> File(TRUE, <<On(TexTex), On(TexLua), On(CsTex), other, Off(CsTex)>>)

MCConfs == {Trees(NoFile, NoFile, On(CsDev)),
            Trees(File(FALSE, <<Off(Text)>>), NoFile, On(CsMf)),
            Trees(File(TRUE, <<Off(CsTex), Off(Text), On(CsTex)>>), File(TRUE, <<Off(TexLua)>>),
                  On(CsDev))}

Built(tex) == TexTex :> tex @@ TexLua :> "" @@ CsTex :> "tex" @@ CsDev :> "" @@ CsMf :> ""
MCNeeding == {Built(""), Built("cs")}

Cmd(what, arg, strict, flat) == [what |-> what, arg |-> arg, strict |-> strict, flat |-> flat]
MCCommands == {Cmd("all", "", TRUE, FALSE), Cmd("all", "", FALSE, FALSE),
               Cmd("missing", "", TRUE, FALSE), Cmd("refresh", "", FALSE, FALSE),
               Cmd("byfmt", "cs", FALSE, TRUE), Cmd("byengine", "tex", TRUE, TRUE)}
=============================================================================
