------------------------------- MODULE MCCnf -------------------------------
(* One variable, two programs.  A line is one of a few kinds, and is known   *)
(* by its place: line i of file n is 10n + i.                                *)
EXTENDS Cnf, TLC

Kind(v, p, e) == [var |-> v, prog |-> p, end |-> e]

Kinds ==
    {Kind("V", AllProgs, "newline"), Kind("V", "p", "newline"), Kind("V", AllProgs, "spaces"),
     Kind("V", "p", "backslash"), Kind(NoVar, AllProgs, "backslash")}

Plain == {Kind("V", AllProgs, "newline"), Kind("V", "p", "newline")}

FilesOf(n, kinds, len) ==
    {[i \in 1..len |-> t[i] @@ [id |-> 10 * n + i]] : t \in [1..len -> kinds]}

\* Two files of up to two lines, or one of three.
AllContents ==
    {<<a, b>> : a \in UNION {FilesOf(1, Kinds, l) : l \in 0..2},
                b \in UNION {FilesOf(2, Kinds, l) : l \in 0..2}}
      \cup {<<a>> : a \in FilesOf(1, Kinds, 3)}

\* What the lines of the files say does not matter here: one file.
FewContents == {<<>>} \cup {<<a>> : a \in UNION {FilesOf(1, Plain, l) : l \in 1..2}}

NoEnviron   == {[k \in EnvKeys |-> Unset]}
AllEnvirons == [EnvKeys -> {Unset, <<1>>}]

\* What a shell lets a user set: names with a dot are left out.
Environments == {e \in AllEnvirons : \A v \in Vars, p \in Progs : e[<<v, ".", p>>] = Unset}

\* Every content without an environment, few contents with every environment.
Starts(contents, environs) == {[files |-> c, env |-> e] : c \in contents, e \in environs}

MCWorlds  == Starts(AllContents, NoEnviron) \cup Starts(FewContents, AllEnvirons)
FewWorlds == Starts(FewContents, Environments)

\* The definitions for all programs and for p collide.
MCSlots == {0, 1}
MCHash == [k \in Keys |-> IF k[2] = "q" THEN 1 ELSE 0]

Arg(p, n) == [var |-> "V", prog |-> p, value |-> <<n>>]
NoArgs    == {}
MCArgs    == {Arg(AllProgs, 2), Arg("p", 3), Arg("q", 4)}
=============================================================================
