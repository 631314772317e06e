-------------------------------- MODULE Cnf --------------------------------
(***************************************************************************)
(* Where the value of a variable comes from: the environment, the lines    *)
(* given with --cnf-line, which go into the environment, and the texmf.cnf *)
(* files, read at the first question that reaches them, with definitions   *)
(* for all programs and for one.  The program may change its name between  *)
(* two questions (a %&format line).  Questions asked while the files are   *)
(* being read are the subject of KpseInit.                                 *)
(***************************************************************************)
EXTENDS Naturals, Sequences, SequencesExt

CONSTANTS Vars,      \* names of variables
          Progs,     \* names of programs
          AllProgs,       \* no program: a definition for all of them
          Unset,     \* no value
          Worlds,    \* what the texmf.cnf files on the path may hold, and with
                     \* which environment the program may start
          Args,      \* the lines that may be given with --cnf-line
          Slots,     \* the buckets of the hash table
          Hash,      \* the bucket of each key
          MaxChanges \* bound: command-line lines and changes of name

\* A line of a file: the variable it defines (none: a comment) for which
\* program, and whether it ends in a backslash, or in one and spaces.  A value
\* is the sequence of the physical lines it is made of.
NoVar  == "comment"
Ends   == {"newline", "backslash", "spaces"}
Keys   == Vars \X (Progs \cup {AllProgs})
EnvKeys == Keys \cup {<<v, ".", p>> : v \in Vars, p \in Progs}

VARIABLES files,        \* the contents of the texmf.cnf files, in path order
          at,           \* the file and the line to be read next
          line,         \* the lines joined so far
          cnf_hash,     \* the hash table of the definitions read
          state,        \* "unread", "reading" or "read"
          env,          \* the environment; <<v, p>> is v_p
          program_name,
          asked,        \* the variable that waits for the files
          answer,       \* the last question since anything changed, and its answer
          given         \* the lines given on the command line, and for whom
vars == <<files, at, line, cnf_hash, state, env, program_name, asked, answer, given>>

Lines == [var : Vars \cup {NoVar}, prog : Progs \cup {AllProgs}, end : Ends, id : Nat]

ASSUME CnfAssumption ==
    /\ Hash \in [Keys -> Slots]
    /\ NoVar \notin Vars /\ AllProgs \notin Progs /\ Unset \notin Seq(Nat)
    /\ \A w \in Worlds : w.files \in Seq(Seq(Lines)) /\ w.env \in [EnvKeys -> Seq(Nat) \cup {Unset}]
    /\ Args \subseteq [var : Vars, prog : Progs \cup {AllProgs}, value : Seq(Nat)]
    /\ MaxChanges \in Nat

INSTANCE HashTable

NoAnswer == [var |-> NoVar, value |-> Unset]
reader == <<at, line, cnf_hash>>

Init ==
    /\ \E w \in Worlds : files = w.files /\ env = w.env
    /\ program_name \in Progs
    /\ at = <<1, 1>> /\ line = <<>> /\ cnf_hash = hash_create /\ state = "unread"
    /\ asked = NoVar
    /\ answer = NoAnswer
    /\ given = <<>>

-----------------------------------------------------------------------------
(* kpathsea_var_value and kpathsea_cnf_get *)

CnfGet(h, v) ==
    LET own == hash_lookup(h, <<v, program_name>>)
        all == hash_lookup(h, <<v, AllProgs>>)
    IN IF own # <<>> THEN Head(own)
       ELSE IF all # <<>> THEN Head(all)
       ELSE Unset

\* The first of VAR.prog, VAR_prog and VAR in the environment.
FromEnv(v) ==
    LET dotted == env[<<v, ".", program_name>>]
        own    == env[<<v, program_name>>]
    IN IF dotted # Unset THEN dotted ELSE IF own # Unset THEN own ELSE env[<<v, AllProgs>>]

Answer(v, value) == answer' = [var |-> v, value |-> value]

Ask(v) ==
    /\ asked = NoVar
    /\ \/ FromEnv(v) # Unset /\ Answer(v, FromEnv(v)) /\ UNCHANGED <<asked, state>>
       \/ /\ FromEnv(v) = Unset /\ state = "read"
          /\ Answer(v, CnfGet(cnf_hash, v))
          /\ UNCHANGED <<asked, state>>
       \/ /\ FromEnv(v) = Unset /\ state = "unread"
          /\ asked' = v /\ state' = "reading"
          /\ UNCHANGED answer
    /\ UNCHANGED <<files, reader, env, program_name, given>>

-----------------------------------------------------------------------------
(* read_all_cnf *)

\* Slip: a definition for one program is entered for all of them.
EnteredForAll(l) ==
    IF Head(l).var = NoVar THEN cnf_hash
    ELSE hash_insert(cnf_hash, <<Head(l).var, AllProgs>>, [i \in DOMAIN l |-> l[i].id])

\* do_line: a comment or blank line defines nothing, whatever was joined to it.
Entered(l) ==
    IF Head(l).var = NoVar THEN cnf_hash
    ELSE hash_insert(cnf_hash, <<Head(l).var, Head(l).prog>>, [i \in DOMAIN l |-> l[i].id])

\* Only the first of several joined lines loses its trailing spaces.
Joins(x) == IF line = <<>> THEN x.end # "newline" ELSE x.end = "backslash"

\* One line of a file.  The last one is taken as it is, with a warning when it
\* ends with a backslash.
ReadLine ==
    /\ state = "reading" /\ at[1] <= Len(files)
    /\ at[2] <= Len(files[at[1]])
    /\ LET x == files[at[1]][at[2]]
           l == Append(line, x)
       IN \/ /\ Joins(x) /\ at[2] < Len(files[at[1]])
             /\ line' = l /\ UNCHANGED cnf_hash
          \/ /\ ~(Joins(x) /\ at[2] < Len(files[at[1]]))
             /\ line' = <<>> /\ cnf_hash' = Entered(l)
    /\ at' = <<at[1], at[2] + 1>>
    /\ UNCHANGED <<files, state, env, program_name, asked, answer, given>>

NextFile ==
    /\ state = "reading" /\ at[1] <= Len(files)
    /\ at[2] > Len(files[at[1]])
    /\ at' = <<at[1] + 1, 1>>
    /\ UNCHANGED <<files, line, cnf_hash, state, env, program_name, asked, answer, given>>

\* The question that started the reading is answered.
Done ==
    /\ state = "reading" /\ at[1] > Len(files)
    /\ state' = "read"
    /\ Answer(asked, CnfGet(cnf_hash, asked)) /\ asked' = NoVar
    /\ UNCHANGED <<files, reader, env, program_name, given>>

-----------------------------------------------------------------------------
(* The command line and the name of the program *)

\* Slip: only the variable as it is written goes into the environment.
CnfLinePlain(a) ==
    /\ asked = NoVar /\ Len(given) < MaxChanges
    /\ env' = [env EXCEPT ![<<a.var, a.prog>>] = a.value]
    /\ given' = Append(given, [line |-> a, for |-> program_name])
    /\ answer' = NoAnswer
    /\ UNCHANGED <<files, reader, state, program_name, asked>>

\* kpathsea_cnf_line_env_progname sets VAR and VAR_prog.
CnfLine(a) ==
    /\ asked = NoVar /\ Len(given) < MaxChanges
    /\ LET p == IF a.prog = AllProgs THEN program_name ELSE a.prog
       IN env' = [env EXCEPT ![<<a.var, AllProgs>>] = a.value, ![<<a.var, p>>] = a.value]
    /\ given' = Append(given, [line |-> a, for |-> program_name])
    /\ answer' = NoAnswer
    /\ UNCHANGED <<files, reader, state, program_name, asked>>

\* The cnf files are not read again: their entries for all programs are kept.
ResetProgramName(p) ==
    /\ asked = NoVar /\ p # program_name
    /\ program_name' = p
    /\ answer' = NoAnswer
    /\ UNCHANGED <<files, reader, state, env, asked, given>>

Next ==
    \/ \E v \in Vars : Ask(v)
    \/ ReadLine \/ NextFile \/ Done
    \/ \E a \in Args : CnfLine(a)
    \/ \E p \in Progs : ResetProgramName(p)

Spec == Init /\ [][Next]_vars /\ WF_vars(ReadLine \/ NextFile \/ Done)

-----------------------------------------------------------------------------
(* What the files say *)

\* The line before this one is joined with it.
JoinedTo(f) ==
    LET j[i \in 0..Len(f)] ==
            i > 0 /\ IF j[i - 1] THEN f[i].end = "backslash" ELSE f[i].end # "newline"
    IN [i \in DOMAIN f |-> j[i - 1]]

\* The definitions of a key in one file: where each starts.
Definitions(f, key) ==
    {i \in DOMAIN f : ~JoinedTo(f)[i] /\ <<f[i].var, f[i].prog>> = key}

Defined(key) == {n \in DOMAIN files : Definitions(files[n], key) # {}}

\* The line that the value of a key starts with: the first definition of the
\* key in the first file that has one.
FirstLine(key) ==
    LET n == CHOOSE m \in Defined(key) : \A k \in Defined(key) : m <= k
        d == Definitions(files[n], key)
    IN files[n][CHOOSE i \in d : \A k \in d : i <= k].id

-----------------------------------------------------------------------------
(* Properties *)

TypeOK ==
    /\ at[1] \in 1..Len(files) + 1
    /\ \A i \in DOMAIN line : line[i].end \in Ends
    /\ \A n \in Slots : cnf_hash.buckets[n] \in 0..Len(cnf_hash.elements)
    /\ \A e \in DOMAIN cnf_hash.elements : cnf_hash.elements[e].key \in Keys
    /\ state \in {"unread", "reading", "read"}
    /\ DOMAIN env = EnvKeys
    /\ program_name \in Progs
    /\ asked \in Vars \cup {NoVar} /\ (asked # NoVar <=> state = "reading")
    /\ Len(given) <= MaxChanges

\* An answer that comes from the files is the definition for this program if
\* there is one, and the first in the first file that has one ("definitions in
\* earlier files override those in later files", kpathsea.texi:687), for the
\* program's present name, whenever the files were read.
FirstDefinition ==
    [][answer' \notin {answer, NoAnswer} /\ FromEnv(answer'.var) = Unset =>
          LET v == answer'.var
              key == IF Defined(<<v, program_name>>) # {} THEN <<v, program_name>> ELSE <<v, AllProgs>>
          IN IF Defined(key) = {} THEN answer'.value = Unset
             ELSE answer'.value # Unset /\ Head(answer'.value) = FirstLine(key)]_vars

held == [k \in Keys |-> hash_lookup(cnf_hash, k)]

\* The hash table keeps every definition, in the order of reading, whatever
\* keys share a bucket (hash.c; the abstract table is MultiMap).
Store == INSTANCE MultiMap WITH Values <- Seq(Nat), store <- held
KeepsAll == Store!Spec

\* A line given for a program of this name wins over the files and over the
\* environment, but for the variable VAR.prog, until the next such line.
CommandLineWins ==
    [][answer' \notin {answer, NoAnswer} /\ given # <<>> =>
          LET a == Last(given).line
          IN answer'.var = a.var /\ a.prog \in {AllProgs, program_name} /\ Last(given).for = program_name
                /\ env[<<a.var, ".", program_name>>] = Unset
             => answer'.value = a.value]_vars

\* "Return the first value in the returned list -- this will be from the
\* last-read cnf file" (cnf.c:302).
LastReadWins ==
    [][answer' \notin {answer, NoAnswer} /\ FromEnv(answer'.var) = Unset /\ Len(files) = 2 =>
          LET key == <<answer'.var, program_name>>
          IN \A i \in Definitions(files[2], key) : \E k \in Definitions(files[2], key) :
                Head(answer'.value) = files[2][k].id]_vars

\* "Strip trailing spaces" and "Concatenate consecutive lines that end with \"
\* (cnf.c:258-263): what follows such a line is not a definition of its own.
Concatenated ==
    \A n \in DOMAIN files : \A i \in DOMAIN files[n] :
        i > 1 /\ files[n][i - 1].end # "newline" =>
            \A e \in DOMAIN cnf_hash.elements : Head(cnf_hash.elements[e].value) # files[n][i].id

\* "the definition only applies if the program that is running is named
\* progname" (kpathsea.texi:745), of a line with .progname, and such a line may
\* be given with --cnf-line.
QualifiedOnly ==
    [][answer' \notin {answer, NoAnswer} /\ given # <<>> /\ Last(given).line.prog \notin {AllProgs, program_name}
          => answer'.value # Last(given).line.value]_vars

\* --cnf-line overrides settings "in the actual configuration files, and also
\* in the environment" (kpathsea.texi:1603).
CommandLineOverrides ==
    [][answer' \notin {answer, NoAnswer} /\ given # <<>> /\ Last(given).line.prog = AllProgs
          /\ answer'.var = Last(given).line.var => answer'.value = Last(given).line.value]_vars
=============================================================================
