------------------------------- MODULE Glyph -------------------------------
(* The search for a bitmap font: the name at its resolution or close to it,  *)
(* its aliases, a script, the fallback resolutions, the fallback font        *)
(* (kpathsea_find_glyph in tex-glyph.c).                                     *)
(*                                                                           *)
(* What is looked for is not passed down: each part sets $KPATHSEA_NAME or   *)
(* $KPATHSEA_DPI before it calls the next, and `env' holds what they left.   *)
(* A file is known by its font name, its resolution and its format.          *)
EXTENDS Integers, Sequences, FiniteSets, SequencesExt

CONSTANTS
  Names,      \* font names
  Absolute,   \* those that are absolute or explicitly relative
  Dpis,       \* resolutions asked for
  Requested,  \* the formats asked for, of "pk", "gf" and "any"
  Trees,      \* the sets of files there may be
  Maps,       \* what texfonts.map may say: for each name its real names
  Settings,   \* values of TEXSIZES: sequences of numbers
  LastFonts,  \* values of kpse->fallback_font
  Word,       \* the number of unsigned values
  Junk,       \* what the words around the list of sizes may hold
  MaxFiles,   \* how many files the trees have room for
  MaxStray,   \* how far outside of the list a walk is followed
  Null, Unset

File == [name : Names, dpi : 0..(Word - 1), format : {"pk", "gf"}]

ASSUME GlyphAssumption ==
  /\ Word \in Nat \ {0, 1} /\ Dpis \subseteq 1..(Word - 1) /\ Junk \subseteq 0..(Word - 1)
  /\ Requested \subseteq {"pk", "gf", "any"}
  /\ Absolute \subseteq Names /\ LastFonts \subseteq Names \cup {Null}
  /\ Trees \subseteq SUBSET File /\ Maps \subseteq [Names -> Seq(Names)]
  /\ Settings \subseteq Seq(0..(Word - 1)) /\ MaxStray \in Nat
  /\ Null \notin Names /\ Null \notin File

VARIABLES
  files, map, sizes, last,    \* the trees, texfonts.map, the fallbacks
  env,                        \* $KPATHSEA_NAME and $KPATHSEA_DPI
  call, fontname,             \* the arguments; `fontname' is replaced by an alias
  pc, todo,                   \* the part under way, the aliases left to try
  loc, lower_loc, upper_loc,  \* places in `sizes', counted from 1
  ret, glyph_file             \* the file found, and what is said of it

world == <<map, sizes, last>>
walk == <<loc, lower_loc, upper_loc>>
vars == <<files, map, sizes, last, env, call, fontname, pc, todo,
          loc, lower_loc, upper_loc, ret, glyph_file>>

-----------------------------------------------------------------------------
(* Unsigned arithmetic, and the resolutions that are close enough. *)

IntMax == Word \div 2 - 1
Minus(a, b) == (a - b) % Word
Plus(a, b) == (a + b) % Word
Distance(a, b) == IF a > b THEN a - b ELSE b - a

KPSE_BITMAP_TOLERANCE(r) == r \div 500 + 1

\* dpi - tolerance is taken for negative when it has wrapped around.
Near(dpi) ==
  LET t == KPSE_BITMAP_TOLERANCE(dpi)
  IN {dpi} \cup (IF Minus(dpi, t) > IntMax THEN 0 ELSE Minus(dpi, t))..Plus(dpi, t)

Tried(format) == IF format = "any" THEN {"pk", "gf"} ELSE {format}

-----------------------------------------------------------------------------
(* try_resolution and try_size: what a search for $KPATHSEA_NAME finds near  *)
(* `dpi', and the resolution left in the environment.                        *)

Close(name, dpi) ==
  {f \in files : f.name = name /\ f.dpi \in Near(dpi) /\ f.format \in Tried(call.format)}

\* The order of the tries: `dpi' itself, then upwards from the lowest; at each
\* the PK file first, since it is more likely to be found.
Rank(f, dpi) == 2 * (IF f.dpi = dpi THEN -1 ELSE f.dpi) + (IF f.format = "pk" THEN 0 ELSE 1)

try_resolution(name, dpi) ==
  LET close == Close(name, dpi)
  IN IF close = {} THEN [file |-> Null, tried |-> Plus(dpi, KPSE_BITMAP_TOLERANCE(dpi))]
     ELSE LET f == CHOOSE f \in close : \A g \in close : Rank(f, dpi) <= Rank(g, dpi)
          IN [file |-> f, tried |-> f.dpi]

\* What try_size tells of a file: the name it was called with, not the one it
\* looked for.
Told(name, file, source) ==
  [name |-> name, dpi |-> file.dpi, format |-> file.format, source |-> source]

kpathsea_fontmap_lookup(name) == map[name]

\* init_fallback_resolutions: a size below the one before it is left out; a
\* zero marks the end of the list.
Ascending(setting) ==
  LET list[i \in 0..Len(setting)] ==
        IF i = 0 THEN <<>>
        ELSE IF list[i - 1] # <<>> /\ setting[i] < Last(list[i - 1]) THEN list[i - 1]
        ELSE Append(list[i - 1], setting[i])
  IN list[Len(setting)]

Listed(setting) == IF 0 \in ToSet(Ascending(setting)) THEN <<>> ELSE Ascending(setting)

\* The first of the sizes that are closest.
Closest(dpi) ==
  CHOOSE i \in DOMAIN sizes :
    \A j \in DOMAIN sizes : /\ Distance(sizes[i], dpi) <= Distance(sizes[j], dpi)
                            /\ j < i => Distance(sizes[i], dpi) < Distance(sizes[j], dpi)

-----------------------------------------------------------------------------

NoCall == [name |-> Null, dpi |-> 0, format |-> "any"]
NothingTold == [name |-> Unset, dpi |-> Unset, format |-> Unset, source |-> Unset]

Init ==
  /\ files \in Trees /\ map \in Maps /\ last \in LastFonts
  /\ sizes \in {Listed(s) : s \in Settings}
  /\ env = [name |-> Null, dpi |-> 0] /\ call = NoCall /\ fontname = Null
  /\ pc = "idle" /\ todo = <<>>
  /\ loc = 0 /\ lower_loc = 0 /\ upper_loc = 0
  /\ ret = Null /\ glyph_file = NothingTold

\* The local variables end with the call.
Return(file, told) ==
  /\ pc' = "idle" /\ ret' = file /\ glyph_file' = told
  /\ fontname' = Null /\ todo' = <<>> /\ loc' = 0 /\ lower_loc' = 0 /\ upper_loc' = 0
Continue(next) == pc' = next /\ UNCHANGED <<ret, glyph_file>>

kpathsea_find_glyph(name, dpi, format) ==
  /\ pc = "idle"
  /\ call' = [name |-> name, dpi |-> dpi, format |-> format]
  /\ fontname' = name /\ env' = [env EXCEPT !.name = name]
  /\ pc' = "name" /\ ret' = Null /\ glyph_file' = NothingTold
  /\ UNCHANGED <<files, world, todo, walk>>

TryName ==
  LET found == try_resolution(env.name, call.dpi)
  IN /\ pc = "name"
     /\ env' = [env EXCEPT !.dpi = found.tried]
     /\ IF found.file # Null
        THEN Return(found.file, Told(fontname, found.file, "normal"))
        ELSE /\ Continue("alias") /\ todo' = kpathsea_fontmap_lookup(fontname)
             /\ UNCHANGED <<fontname, walk>>
     /\ UNCHANGED <<files, world, call>>

\* Slip: the next alias is tried without its name in the environment.
TryAliasUnnamed ==
  LET found == try_resolution(env.name, call.dpi)
  IN /\ pc = "alias" /\ todo # <<>>
     /\ env' = [env EXCEPT !.dpi = found.tried]
     /\ IF found.file # Null
        THEN Return(found.file, [Told(Head(todo), found.file, "alias") EXCEPT !.dpi = call.dpi])
        ELSE Continue("alias") /\ todo' = Tail(todo) /\ UNCHANGED <<fontname, walk>>
     /\ UNCHANGED <<files, world, call>>

\* try_fontmap.  find_glyph overwrites what try_size has told of the size.
TryAlias ==
  /\ pc = "alias" /\ todo # <<>>
  /\ LET alias == Head(todo)
         found == try_resolution(alias, call.dpi)
     IN /\ env' = [name |-> alias, dpi |-> found.tried]
        /\ IF found.file # Null
           THEN Return(found.file, [Told(alias, found.file, "alias") EXCEPT !.dpi = call.dpi])
           ELSE Continue("alias") /\ todo' = Tail(todo) /\ UNCHANGED <<fontname, walk>>
  /\ UNCHANGED <<files, world, call>>

\* No alias has a file: go on with the first of them, unless it is an alias
\* itself.
NoAlias ==
  /\ pc = "alias" /\ todo = <<>>
  /\ LET aliases == kpathsea_fontmap_lookup(fontname)
     IN fontname' = IF aliases # <<>> /\ kpathsea_fontmap_lookup(Head(aliases)) = <<>>
                    THEN Head(aliases) ELSE fontname
  /\ Continue("make")
  /\ UNCHANGED <<files, world, env, call, todo, walk>>

-----------------------------------------------------------------------------
(* mktexpk, the fallback resolutions and the fallback font. *)

\* kpathsea_make_tex passes $KPATHSEA_DPI on; there is no script for GF files.
Make ==
  /\ pc = "make" /\ fontname \notin Absolute /\ call.format # "gf"
  /\ Cardinality(files) < MaxFiles
  /\ env' = [env EXCEPT !.dpi = call.dpi]
  /\ LET made == [name |-> fontname, dpi |-> env'.dpi, format |-> "pk"]
     IN /\ files' = files \cup {made}
        /\ Return(made, [NothingTold EXCEPT !.name = fontname, !.dpi = call.dpi,
                                            !.source = "maketex"])
  /\ UNCHANGED <<world, call>>

\* The script fails, is not allowed to run, or there is none for the format.
MakeFails ==
  /\ pc = "make"
  /\ env' = IF fontname \in Absolute THEN env ELSE [env EXCEPT !.dpi = call.dpi]
  /\ Continue("fallback")
  /\ UNCHANGED <<files, world, call, fontname, todo, walk>>

\* A part has found nothing, or all of its walk has.
Next_part(part) ==
  IF part \in {"fallback", "walk"} /\ last # Null
  THEN Continue("last") /\ UNCHANGED <<fontname, todo, walk>>
  ELSE Return(Null, NothingTold)

\* Before the walk over `sizes', none of which has been tried.
StartWalk(from, to) ==
  /\ pc = from
  /\ IF sizes = <<>>
     THEN Next_part(from)
     ELSE /\ Continue(to) /\ UNCHANGED <<fontname, todo>>
          /\ loc' = Closest(call.dpi)
          /\ lower_loc' = loc' - 1 /\ upper_loc' = loc' + 1

Fallback ==
  /\ StartWalk("fallback", "walk")
  /\ UNCHANGED <<files, world, env, call>>

LastFont ==
  /\ pc = "last"
  /\ LET found == try_resolution(last, call.dpi)
     IN /\ env' = [name |-> last, dpi |-> found.tried]
        /\ IF found.file # Null
           THEN Return(found.file, Told(last, found.file, "fallback"))
           ELSE StartWalk("last", "lastwalk")
  /\ UNCHANGED <<files, world, call>>

\* Slip: the lower sizes are taken for done when the upper ones are.
OnwardHalf(part) ==
  IF upper_loc > Len(sizes)
  THEN Next_part(part)
  ELSE /\ Continue(part) /\ UNCHANGED <<fontname, todo>> /\ loc' = upper_loc
       /\ upper_loc' = upper_loc + 1 /\ UNCHANGED lower_loc

\* Slip: always upwards as long as there is something.
OnwardUp(part) ==
  IF lower_loc < 1 /\ upper_loc > Len(sizes)
  THEN Next_part(part)
  ELSE /\ Continue(part) /\ UNCHANGED <<fontname, todo>>
       /\ IF upper_loc <= Len(sizes)
          THEN loc' = upper_loc /\ upper_loc' = upper_loc + 1 /\ UNCHANGED lower_loc
          ELSE loc' = lower_loc /\ lower_loc' = lower_loc - 1 /\ UNCHANGED upper_loc

\* Slip: a place that has been passed is not moved on from.
OnwardAgain(part) ==
  IF lower_loc < 1 /\ upper_loc > Len(sizes)
  THEN Next_part(part)
  ELSE /\ Continue(part) /\ UNCHANGED <<fontname, todo>>
       /\ loc' = IF lower_loc >= 1 THEN lower_loc ELSE upper_loc
       /\ UNCHANGED <<lower_loc, upper_loc>>

\* Nothing at `loc': in whichever direction is closest.  Above the list and
\* below it the distance is INT_MAX, which a difference that has wrapped
\* around exceeds.
Onward(part) ==
  LET lower_diff == IF lower_loc >= 1 THEN Minus(call.dpi, sizes[lower_loc]) ELSE IntMax
      upper_diff == IF upper_loc <= Len(sizes) THEN Minus(sizes[upper_loc], call.dpi)
                    ELSE IntMax
  IN IF lower_diff = IntMax /\ upper_diff = IntMax
     THEN Next_part(part)
     ELSE /\ Continue(part) /\ UNCHANGED <<fontname, todo>>
          /\ IF lower_diff < upper_diff
             THEN loc' = lower_loc /\ lower_loc' = lower_loc - 1 /\ UNCHANGED upper_loc
             ELSE loc' = upper_loc /\ upper_loc' = upper_loc + 1 /\ UNCHANGED lower_loc

\* try_fallback_resolutions, one size: `dpi' itself is not tried again.
TrySize(part, size) ==
  LET name == IF part = "walk" THEN fontname ELSE last
      found == try_resolution(env.name, size)
  IN /\ pc = part
     /\ IF size = call.dpi THEN Onward(part) /\ UNCHANGED env
        ELSE /\ env' = [env EXCEPT !.dpi = found.tried]
             /\ IF found.file # Null
                THEN Return(found.file, Told(name, found.file,
                              IF part = "walk" THEN "fallback_res" ELSE "fallback"))
                ELSE Onward(part)
     /\ UNCHANGED <<files, world, call>>

Walk(part) == loc \in DOMAIN sizes /\ TrySize(part, sizes[loc])

\* Outside of the list `fallback_resolutions[loc]' is whatever is there.
Stray(part, junk) ==
  /\ loc \notin DOMAIN sizes /\ loc > -MaxStray /\ TrySize(part, junk)

\* No word there to be read; another program is started.
Crash ==
  /\ pc \in {"walk", "lastwalk"} /\ loc = -MaxStray
  /\ call' = NoCall /\ env' = [name |-> Null, dpi |-> 0]
  /\ Return(Null, NothingTold)
  /\ UNCHANGED <<files, world>>

Step ==
  \/ TryName \/ TryAlias \/ NoAlias \/ Make \/ MakeFails \/ Fallback \/ LastFont \/ Crash
  \/ \E part \in {"walk", "lastwalk"} :
        Walk(part) \/ \E junk \in Junk : Stray(part, junk)

Next == Step \/ \E name \in Names, dpi \in Dpis, format \in Requested :
                   kpathsea_find_glyph(name, dpi, format)

\* A program that has called kpathsea runs on.
Spec == Init /\ [][Next]_vars /\ WF_vars(Step)

-----------------------------------------------------------------------------
(* Properties *)

Returned == pc = "idle" /\ call # NoCall

\* Whether a search for `name' close to `dpi' would succeed.
There(name, dpi) == Close(name, dpi) # {}

TypeOK ==
  /\ files \subseteq File /\ map \in Maps /\ last \in LastFonts
  /\ sizes \in Seq(1..(Word - 1))
  /\ env \in [name : Names \cup {Null}, dpi : 0..(Word - 1)]
  /\ call \in [name : Names \cup {Null}, dpi : Dpis \cup {0}, format : {"pk", "gf", "any"}]
  /\ fontname \in Names \cup {Null}
  /\ pc \in {"idle", "name", "alias", "make", "fallback", "walk", "last", "lastwalk"}
  /\ todo \in Seq(Names)
  /\ loc \in Int /\ lower_loc \in Int /\ upper_loc \in Int
  /\ ret \in {Null} \cup File
  /\ glyph_file.source \in {Unset, "normal", "alias", "maketex", "fallback_res", "fallback"}

\* The source that is told is true, and no better one had a file ("Then try
\* ..." in tex-glyph.h): a font that is there is not made or replaced.  What
\* mktexpk makes is of the size asked for, though $KPATHSEA_DPI has been set to
\* every size tried before ("`try_resolution' leaves the envvar set randomly").
BestSource ==
  Returned /\ ret # Null =>
    LET direct == There(call.name, call.dpi)
        aliases == ToSet(map[call.name])
        aliased == \E a \in aliases : There(a, call.dpi)
    IN CASE glyph_file.source = "normal" ->
              ret \in Close(call.name, call.dpi)
         [] glyph_file.source = "alias" ->
              ~direct /\ \E a \in aliases : ret \in Close(a, call.dpi)
         [] glyph_file.source = "maketex" ->
              /\ ret.name \in {call.name} \cup aliases /\ ret.dpi = call.dpi
              /\ \A a \in {call.name} \cup aliases : Close(a, call.dpi) \subseteq {ret}
         [] glyph_file.source = "fallback_res" ->
              ~direct /\ ~aliased /\ ret.name \in {call.name} \cup aliases
         [] glyph_file.source = "fallback" ->
              ~direct /\ ~aliased /\ ret.name = last

\* The list has no size twice, and no size is too large for an int.  (A
\* repeated one is not refused, for it is not out of ascending order.)
Strict ==
  /\ \A i, j \in DOMAIN sizes : i < j => sizes[i] < sizes[j]
  /\ \A i \in DOMAIN sizes : sizes[i] <= IntMax
  /\ call.dpi <= IntMax

\* The file that stands in for a missing one has the listed size that is
\* closest to the one asked for, among those there are ("Go in whichever
\* direction is closest").
ClosestFound ==
  Returned /\ Strict /\ ret # Null /\ glyph_file.source \in {"fallback_res", "fallback"}
    /\ ~There(ret.name, call.dpi) =>
    \E s \in ToSet(sizes) :
       /\ ret \in Close(ret.name, s)
       /\ \A t \in ToSet(sizes) \ {call.dpi} :
            Distance(t, call.dpi) < Distance(s, call.dpi) => ~There(ret.name, t)

\* A search fails only when nothing that could stand in is there: no file of
\* the font or of its aliases close to the size, none of a font without
\* aliases at a fallback size, and no fallback font.
NothingMissed ==
  Returned /\ Strict /\ ret = Null =>
    LET around == {call.dpi} \cup ToSet(sizes)
    IN /\ \A name \in {call.name} \cup ToSet(map[call.name]) : ~There(name, call.dpi)
       /\ map[call.name] = <<>> => \A s \in around : ~There(call.name, s)
       /\ last # Null => \A s \in around : ~There(last, s)

\* Violated: "If a bitmap font cannot be found or created at the requested
\* size, Kpathsea looks for the font at a set of fallback resolutions"
\* (kpathsea.texi).
FallbackTried ==
  Returned /\ Strict /\ ret = Null =>
    \A s \in ToSet(sizes) : ~There(call.name, s)

\* Violated: "Also return information about the file found in *GLYPH_FILE"
\* (tex-glyph.h), which are its name, its size and its format.
TellsTruth ==
  Returned /\ ret # Null =>
    <<glyph_file.name, glyph_file.dpi, glyph_file.format>> = <<ret.name, ret.dpi, ret.format>>

\* Violated: the walk quits "if we're at the end in both directions"
\* (tex-glyph.c), on a list that is in ascending order.
InList == pc \in {"walk", "lastwalk"} => loc \in DOMAIN sizes

\* Every search returns; a walk that leaves the list ends with the program.
SearchReturns == pc # "idle" ~> pc = "idle"
=============================================================================
