------------------------------- MODULE FmtCnf -------------------------------
(***************************************************************************)
(* The fmtutil.cnf files as fmtutil reads, merges and rewrites them.  A    *)
(* line defines a format for an engine, enabled or disabled, or is text.   *)
(* A file counts when kpsewhich finds it, that is, when ls-R lists it.     *)
(***************************************************************************)
EXTENDS Naturals, Sequences, SequencesExt, FiniteSets

CONSTANTS Entries,  \* pairs <<format, engine>>
          Confs     \* the states the files may start in

Text  == <<>>
Lines == [of : Entries \cup {Text}, on : BOOLEAN]
Paths == <<"TEXMFCONFIG", "TEXMFHOME", "TEXMFDIST">>  \* in precedence order

VARIABLE conf  \* path -> [there, found, lines]

\* A file that is not there has no lines.
ConfOK(c) ==
    /\ c \in [Range(Paths) -> [there : BOOLEAN, found : BOOLEAN, lines : Seq(Lines)]]
    /\ \A f \in Range(Paths) : c[f].there \/ c[f].lines = <<>>

ASSUME FmtCnfAssumption == \A c \in Confs : ConfOK(c)

\* kpsewhich -all fmtutil.cnf
Used(c) == {f \in Range(Paths) : c[f].found}

\* read_fmtutil_file(): a double mention is ignored.
Mention(lines, p) ==
    CHOOSE i \in DOMAIN lines :
        lines[i].of = p /\ \A j \in DOMAIN lines : lines[j].of = p => i <= j

Mentions(lines, p) == \E i \in DOMAIN lines : lines[i].of = p

\* read_fmtutil_files(): the first file that defines a format is its origin.
Defined(c)   == {p \in Entries : \E f \in Used(c) : Mentions(c[f].lines, p)}
Origin(c, p) == Paths[SelectInSeq(Paths, LAMBDA f : c[f].found /\ Mentions(c[f].lines, p))]
Enabled(c, p) == LET lines == c[Origin(c, p)].lines IN lines[Mention(lines, p)].on

Merged(c) == [p \in Defined(c) |-> Enabled(c, p)]

\* determine_config_files(): the file that changes go to.
ChangesConfig(c) ==
    IF Used(c) \cap {"TEXMFCONFIG", "TEXMFHOME"} = {} THEN "TEXMFCONFIG"
    ELSE Paths[SelectInSeq(Paths, LAMBDA f : c[f].found)]

\* Slip: the status is changed where the format is defined, or nowhere.
SavedInPlace(c, p, on) ==
    LET tc    == ChangesConfig(c)
        read  == IF c[tc].found THEN c[tc].lines ELSE <<>>
        lines == [i \in DOMAIN read |-> IF read[i].of = p THEN [read[i] EXCEPT !.on = on]
                                        ELSE read[i]]
    IN [c EXCEPT ![tc] = [there |-> TRUE, found |-> @.found \/ read = <<>>, lines |-> lines]]

\* enable_disable_format_engine() and save_fmtutil(): the line of the format
\* in the file of changes is rewritten, or one is added.  A file kpsewhich did
\* not find was not read, and is created anew.
Saved(c, p, on) ==
    LET tc    == ChangesConfig(c)
        read  == IF c[tc].found THEN c[tc].lines ELSE <<>>
        line  == [of |-> p, on |-> on]
        lines == IF Origin(c, p) = tc THEN [read EXCEPT ![Mention(read, p)] = line]
                 ELSE Append(read, line)
    IN [c EXCEPT ![tc] = [there |-> TRUE, found |-> @.found \/ read = <<>>, lines |-> lines]]
=============================================================================
