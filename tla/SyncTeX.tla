------------------------------ MODULE SyncTeX ------------------------------
(***************************************************************************)
(* The SyncTeX controller of the TeX engines.  TeX sends it a message when *)
(* it opens a file, at both ends of a page, of a form and of a list, and   *)
(* for the nodes between; the controller writes a working file, which the  *)
(* end of the run gives its final name.  Writing, closing and renaming may  *)
(* fail, and the source may change \synctex between two pages.             *)
(***************************************************************************)
EXTENDS Naturals, Integers, Sequences, SequencesExt, FiniteSets

CONSTANTS Options,   \* what -synctex=N may say
          MaxTag,    \* the largest tag (UINT_MAX in the code)
          MaxPages,  \* pages and forms TeX ships out
          MaxNest    \* pages, forms and lists open at once

ASSUME SyncTeXAssumption ==
    /\ Options \subseteq [said : {"nothing", "zero", "number"}, gz : BOOLEAN,
                          plainName : BOOLEAN, forms : BOOLEAN]
    /\ MaxTag \in Nat \ {0} /\ MaxPages \in Nat /\ MaxNest \in Nat

VARIABLES option,  \* the command line
          value,   \* is \synctex nonzero?
          ctxt,    \* synctex_ctxt, and the tag counter
          out,     \* what the working file says
          disk,    \* the files of the run's directory
          outdir,  \* is there an -output-directory?
          log,     \* log_opened
          place,   \* what TeX is shipping out, outermost first
          total,   \* total_pages
          shipped, \* pages and forms begun
          warned,  \* the one-shot warning
          odd,     \* what unusual has happened: see the properties
          blind,   \* tags given when no Input line could be written
          pc       \* "run", "done", or how the program ended: see Exit, OfNode, Close
vars == <<option, value, ctxt, out, disk, outdir, log, place, total, shipped,
          warned, odd, blind, pc>>

\* What the controller itself changes, as one value.
State == [ctxt |-> ctxt, out |-> out, disk |-> disk, pc |-> pc]
Becomes(s) == ctxt' = s.ctxt /\ out' = s.out /\ disk' = s.disk /\ pc' = s.pc

Unwritten == [head |-> "none", inputs |-> {}, unknown |-> {}, open |-> <<>>,
              nested |-> TRUE, stray |-> FALSE, whole |-> "no"]

Init ==
    /\ option \in Options
    /\ value = (option.said = "number")
    /\ ctxt = [off |-> option.said = "zero", file |-> FALSE, busyName |-> FALSE,
               root |-> FALSE, ready |-> FALSE, notVoid |-> FALSE, recorder |-> FALSE,
               depth |-> 0, tag |-> 0]
    /\ out = Unwritten
    /\ disk \in [plain : {"none", "old"}, gz : {"none", "old"}, busy : {"none", "dead"}]
    /\ outdir \in BOOLEAN
    /\ log = FALSE /\ place = <<>> /\ total = 0 /\ shipped = 0
    /\ warned = FALSE /\ odd = {} /\ blind = {} /\ pc = "run"

-----------------------------------------------------------------------------
(* The working file *)

\* synctexabort(): remove() is given busy_name, which may be NULL.
Abort(s) ==
    [s EXCEPT !.ctxt.off = TRUE, !.ctxt.root = FALSE, !.ctxt.file = FALSE,
              !.ctxt.busyName = s.ctxt.busyName /\ ~s.ctxt.file,
              !.disk.busy = IF s.ctxt.file /\ s.ctxt.busyName THEN "none" ELSE @]

\* xfclose() cannot close a plain file and ends the program, which leaves it;
\* the result of gzclose() is not looked at.
Exit(s) == [Abort(s) EXCEPT !.disk = s.disk, !.pc = "exited"]
Unclosed(s) == IF s.ctxt.file /\ ~option.gz THEN {Exit(s)} ELSE {}

Aborts(s) == {Abort(s)} \cup Unclosed(s)

\* A record is written, or SyncTeX is turned off for good.
Writing(before, after) == {after} \cup Aborts(before)

RecordInput(s, t) == Writing(s, [s EXCEPT !.out.inputs = @ \cup {t}])

Bracket(s, b) == [s EXCEPT !.out.open = Append(@, b)]

Unbracket(s, b) ==
    IF s.out.open # <<>> /\ Last(s.out.open) = b
    THEN [s EXCEPT !.out.open = Front(@)]
    ELSE [s EXCEPT !.out.nested = FALSE]

\* A record with a tag in it; tag 0 is for what comes from no file.
Tagged(s, t) ==
    [s EXCEPT !.out.unknown = IF t \in s.out.inputs \cup {0} THEN @ ELSE @ \cup {t}]

\* synctex_dot_open(): there may be no job name, or no file to be had; the
\* preamble is written before busy_name is set.
DotOpen(s, v) ==
    IF s.ctxt.off \/ ~v \/ s.ctxt.file THEN {s}
    ELSE LET opened == [s EXCEPT !.ctxt.file = TRUE, !.disk.busy = "new",
                                 !.out = [Unwritten EXCEPT !.head = "failed"]]
             ready  == [opened EXCEPT !.ctxt.busyName = TRUE, !.out.head = "written"]
             rooted == [ready EXCEPT !.ctxt.root = FALSE]
         IN {Abort(s)} \cup Aborts(opened)
            \cup (IF s.ctxt.root THEN RecordInput(rooted, 1) ELSE {ready})

\* Slip: with \synctex=0 the first page leaves SyncTeX on.
PrepareContentLater(s, v) ==
    IF s.ctxt.ready THEN {s}
    ELSE UNION {IF d.ctxt.file THEN Writing(d, [d EXCEPT !.ctxt.ready = TRUE])
                ELSE {d} : d \in DotOpen(s, v)}

PrepareContent(s, v) ==
    IF s.ctxt.ready THEN {s}
    ELSE UNION {IF d.ctxt.file /\ v THEN Writing(d, [d EXCEPT !.ctxt.ready = TRUE])
                ELSE Aborts(d) : d \in DotOpen(s, v)}

-----------------------------------------------------------------------------
(* TeX opens a file, or changes \synctex *)

\* Slip: no Input line while \synctex is 0.
StartInputZero ==
    /\ pc = "run" /\ place = <<>> /\ ctxt.tag < MaxTag
    /\ log' = TRUE
    /\ LET t == ctxt.tag + 1  s == [State EXCEPT !.ctxt.tag = t]
       IN IF ctxt.off THEN Becomes(State) /\ UNCHANGED blind
          ELSE IF t = 1
          THEN /\ Becomes([s EXCEPT !.ctxt.root = TRUE])
               /\ blind' = IF ctxt.file THEN {1} ELSE blind
          ELSE /\ \E d \in DotOpen(s, value) :
                    IF d.ctxt.file /\ value THEN \E n \in RecordInput(d, t) : Becomes(n)
                    ELSE Becomes(d)
               /\ blind' = IF ~value /\ ~ctxt.file THEN blind \cup {t} ELSE blind
    /\ UNCHANGED <<option, value, outdir, place, total, shipped, warned, odd>>

\* synctexstartinput(): the name of the first file is kept for later.
StartInput ==
    /\ pc = "run" /\ place = <<>> /\ ctxt.tag < MaxTag
    /\ log' = TRUE
    /\ LET t == ctxt.tag + 1  s == [State EXCEPT !.ctxt.tag = t]
       IN IF ctxt.off THEN Becomes(State) /\ UNCHANGED blind
          ELSE IF t = 1
          THEN /\ Becomes([s EXCEPT !.ctxt.root = TRUE])
               /\ blind' = IF ctxt.file THEN {1} ELSE blind
          ELSE /\ \E d \in DotOpen(s, value) :
                    IF d.ctxt.file THEN \E n \in RecordInput(d, t) : Becomes(n)
                    ELSE Becomes(d)
               /\ blind' = IF ~value /\ ~ctxt.file THEN blind \cup {t} ELSE blind
    /\ UNCHANGED <<option, value, outdir, place, total, shipped, warned, odd>>

SetSynctex ==
    /\ pc = "run" /\ place = <<>>
    /\ value' = ~value
    /\ UNCHANGED <<option, ctxt, out, disk, outdir, log, place, total, shipped,
                   warned, odd, blind, pc>>

-----------------------------------------------------------------------------
(* Shipping out.  A page or a form is "empty" until its outer list begins. *)

ShippingOut == pc = "run" /\ place # <<>>
Within(what) == place # <<>> /\ Last(place) = what
Steady == UNCHANGED <<option, value, outdir, log, blind>>

\* The form of a form, without support for forms, hides boxes.
Hidden  == ctxt.depth > 0 /\ ~option.forms
Ignored == ctxt.off \/ ~value \/ ~ctxt.file \/ Hidden

\* The warning of synctexsheet() and synctexpdfxform() when SyncTeX is off.
Warn == warned' = (warned \/ (ctxt.off /\ value))

Sheet ==
    /\ pc = "run" /\ place = <<>> /\ shipped < MaxPages
    /\ place' = <<"empty page">> /\ shipped' = shipped + 1
    /\ Warn
    /\ IF ctxt.off THEN Becomes(State)
       ELSE \E p \in PrepareContent(State, value) :
              IF p.ctxt.file THEN \E n \in Writing(p, Bracket(p, <<"sheet", total + 1>>)) : Becomes(n)
              ELSE Becomes(p)
    /\ Steady /\ UNCHANGED <<total, odd>>

\* A page too large to ship out has no list, and is not counted.
Teehs ==
    /\ ShippingOut /\ Len(place) = 1
    /\ Within("page") \/ Within("empty page")
    /\ place' = <<>>
    /\ total' = IF Within("page") THEN total + 1 ELSE total
    /\ odd' = IF Within("page") THEN odd ELSE odd \cup {"huge page"}
    /\ IF ctxt.off \/ ~ctxt.file THEN Becomes(State)
       ELSE \E n \in Writing(State, Unbracket(State, <<"sheet", total'>>)) : Becomes(n)
    /\ Steady /\ UNCHANGED <<shipped, warned>>

\* synctexhlist() and synctexvlist()
List ==
    /\ ShippingOut /\ Len(place) < MaxNest
    /\ \/ Within("list") /\ place' = Append(place, "list")
       \/ Within("empty page") /\ place' = Front(place) \o <<"page", "list">>
       \/ Within("empty form") /\ place' = Front(place) \o <<"form", "list">>
    /\ IF Ignored THEN Becomes(State)
       ELSE LET s == [State EXCEPT !.ctxt.notVoid = TRUE, !.ctxt.recorder = FALSE]
            IN \E t \in 0..ctxt.tag : \E n \in Writing(s, Bracket(Tagged(s, t), <<"list">>)) : Becomes(n)
    /\ Steady /\ UNCHANGED <<total, shipped, warned, odd>>

\* Slip: the ends of lists are written within a form all the same.
TsilShown ==
    /\ ShippingOut /\ Within("list")
    /\ place' = Front(place)
    /\ IF ctxt.off \/ ~value \/ ~ctxt.file THEN Becomes(State)
       ELSE LET s == [State EXCEPT !.ctxt.recorder = FALSE]
            IN \E n \in Writing(s, Unbracket(s, <<"list">>)) : Becomes(n)
    /\ Steady /\ UNCHANGED <<total, shipped, warned, odd>>

\* synctextsilh() and synctextsilv()
Tsil ==
    /\ ShippingOut /\ Within("list")
    /\ place' = Front(place)
    /\ IF Ignored THEN Becomes(State)
       ELSE LET s == [State EXCEPT !.ctxt.recorder = FALSE]
            IN \E n \in Writing(s, Unbracket(s, <<"list">>)) : Becomes(n)
    /\ Steady /\ UNCHANGED <<total, shipped, warned, odd>>

\* A kern waits, as the recorder, for the next change of tag or line: nothing
\* is written yet.  Neither the file nor the form is looked at.
Defer ==
    /\ ShippingOut /\ Within("list") /\ ~ctxt.off /\ value /\ ctxt.tag > 0
    /\ Becomes([State EXCEPT !.ctxt.recorder = TRUE])
    /\ Steady /\ UNCHANGED <<place, total, shipped, warned, odd>>

\* The record of a node, and of the tag 0 for a character.
NodeRecord(s, t) == [Tagged(s, t) EXCEPT !.out.stray = @ \/ s.out.open = <<>>]

\* The record of the kern that waits, if there is one and it is not dropped.
OfKern(s) ==
    {s} \cup (IF s.ctxt.recorder
              THEN UNION {Writing(s, NodeRecord(s, t)) : t \in 1..s.ctxt.tag} ELSE {})

\* The record of the node itself: the file is not looked at again.  Printing
\* to a null pointer fails for a compressed file and crashes for a plain one.
OfNode(k, t) ==
    LET s == [k EXCEPT !.ctxt.recorder = FALSE]
    IN IF s.pc # "run" THEN {s}
       ELSE IF s.ctxt.file THEN Writing(s, NodeRecord(s, t))
       ELSE IF option.gz THEN {Abort(s)}
       ELSE {[s EXCEPT !.pc = "null record"]}

\* Kerns, glue, rules, math, void boxes and characters.
Node ==
    /\ ShippingOut /\ Within("list") /\ ~ctxt.off /\ value
    /\ \E k \in OfKern(State), t \in 0..ctxt.tag : \E n \in OfNode(k, t) : Becomes(n)
    /\ Steady /\ UNCHANGED <<place, total, shipped, warned, odd>>

\* synctexpdfxform(): a form is shipped out by itself, or at the end of what
\* uses it.  form_depth counts the forms that were not ignored.
Form ==
    /\ pc = "run" /\ shipped < MaxPages /\ Len(place) < MaxNest
    /\ place = <<>> \/ Within("page") \/ Within("form")
    /\ place' = Append(place, "empty form") /\ shipped' = shipped + 1
    /\ Warn
    /\ IF ctxt.off THEN Becomes(State) /\ UNCHANGED odd
       ELSE \E p \in PrepareContent(State, value) :
              LET d == [p EXCEPT !.ctxt.depth = @ + 1]
              IN IF ~p.ctxt.file THEN Becomes(p) /\ UNCHANGED odd
                 ELSE IF Hidden \/ ~value THEN Becomes(p) /\ odd' = odd \cup {"form"}
                 ELSE /\ \E n \in IF option.forms THEN Writing(d, Bracket(d, <<"form">>)) ELSE {d} :
                           Becomes(n)
                      /\ UNCHANGED odd
    /\ Steady /\ UNCHANGED total

\* synctexmrofxfdp(): form_depth goes down, ignored or not.
Mrof ==
    /\ ShippingOut
    /\ Within("form") \/ Within("empty form")
    /\ place' = Front(place)
    /\ IF ~ctxt.file THEN Becomes(State)
       ELSE LET d == [State EXCEPT !.ctxt.depth = @ - 1]
            IN \E n \in Writing(State, IF option.forms THEN Unbracket(d, <<"form">>) ELSE d) : Becomes(n)
    /\ Steady /\ UNCHANGED <<total, shipped, warned, odd>>

-----------------------------------------------------------------------------
(* The end of the run: normal, or in the middle of a page *)

Rid(s, files) == [s EXCEPT !.disk = [f \in DOMAIN s.disk |->
                                       IF f \in files THEN "none" ELSE s.disk[f]]]
Closed(s) == [s EXCEPT !.ctxt.file = FALSE]

\* The final name: without .gz for -synctex=-N, and for N with bit 2.
Plainly == ~option.gz \/ option.plainName
Final   == IF Plainly THEN "plain" ELSE "gz"

Renamed(s, how) ==
    [Rid(Closed(s), {"busy"}) EXCEPT !.disk[Final] = "new", !.out.whole = how]

\* The postamble fails: the file is then closed twice.  fclose() is given a
\* null pointer, and gzclose() and rename() do not mind.
Postambled(r) ==
    Unclosed(r) \cup {IF option.gz THEN Abort(r) ELSE [Abort(r) EXCEPT !.pc = "null close"]}

\* What may happen to the working file: rename() may fail, and a compressed
\* file that could not be closed is renamed all the same.
Close(r) ==
    IF ~r.ctxt.file THEN {r}
    ELSE {Rid(Closed(r), {"busy"})} \cup Unclosed(r)
         \cup (IF ~r.ctxt.notVoid THEN {}
               ELSE Postambled(r) \cup {Renamed(r, "yes")}
                    \cup (IF option.gz THEN {Renamed(r, "short")} ELSE {}))

\* Slip: a compressed file of an earlier run is left.
FinishOnce(s) == Close(Rid(s, {Final} \cup (IF option.gz THEN {"plain"} ELSE {})))

\* With a log: what an earlier run left goes, under either name.
Finish(s) ==
    {IF Plainly /\ x.pc = "run" THEN Rid(x, {"gz"}) ELSE x :
       x \in Close(Rid(s, {Final} \cup (IF option.gz THEN {"plain"} ELSE {})))}

\* Without a log: the files are looked for by the job name alone.
FinishUnlogged(s) ==
    LET r == IF outdir THEN s ELSE Rid(s, {"plain", "gz"})
    IN {IF s.ctxt.file THEN Rid(Closed(r), {"busy"}) ELSE r} \cup Unclosed(r)

\* synctexterminate(), after synctexabort() when pdfTeX gives up.
Terminate ==
    /\ pc = "run"
    /\ odd' = IF place = <<>> THEN odd ELSE odd \cup {"cut short"}
    /\ \E s \in {State} \cup Aborts(State) :
       \E f \in IF s.pc # "run" THEN {s} ELSE IF log THEN Finish(s) ELSE FinishUnlogged(s) :
         Becomes([Abort([f EXCEPT !.ctxt.busyName = FALSE])
                  EXCEPT !.pc = IF f.pc = "run" THEN "done" ELSE f.pc])
    /\ UNCHANGED <<option, value, outdir, log, place, total, shipped, warned, blind>>

Next == StartInput \/ SetSynctex \/ Sheet \/ Teehs \/ List \/ Tsil \/ Defer
        \/ Node \/ Form \/ Mrof \/ Terminate

Spec == Init /\ [][Next]_vars

-----------------------------------------------------------------------------
TypeOK ==
    /\ ctxt \in [off : BOOLEAN, file : BOOLEAN, busyName : BOOLEAN, root : BOOLEAN,
                 ready : BOOLEAN, notVoid : BOOLEAN, recorder : BOOLEAN,
                 depth : Int, tag : 0..MaxTag]
    /\ out.inputs \subseteq 1..ctxt.tag /\ out.unknown \subseteq 1..ctxt.tag
    /\ out.head \in {"none", "failed", "written"}
    /\ disk \in [plain : {"none", "old", "new"}, gz : {"none", "old", "new"},
                 busy : {"none", "dead", "new"}]
    /\ blind \subseteq 1..ctxt.tag
    /\ Len(place) <= MaxNest \/ place = <<"empty page">>
    /\ total \in Nat /\ shipped \in 0..MaxPages
    /\ out.whole \in {"no", "short", "yes"}
    /\ pc \in {"run", "done", "exited", "null record", "null close"}

\* Glue, kerns and rules are written without a look at the file (line 1544):
\* whenever TeX is shipping something out and SyncTeX is on, the file is open,
\* has a name by which it can be removed, and its preamble is complete.  A
\* record is lost to a null pointer in one case only: a plain file was open
\* and a kern waiting, so that it is the second record of its message.
RecordersSafe ==
    /\ [](/\ place # <<>> /\ ~ctxt.off => ctxt.file /\ ctxt.ready
          /\ ctxt.file => ctxt.busyName /\ ~ctxt.off /\ out.head = "written" /\ disk.busy = "new")
    /\ [][pc' = "null record" => ctxt.file /\ ctxt.recorder /\ ~option.gz]_pc

\* "That way we can be sure that any synctex file is in sync with a tex run"
\* (lines 893-897): after a run with a log there is at most one file under the
\* two final names, it is of this run, and it is complete, unless a compressed
\* file could not be closed; a program that ends in between gives no file its
\* final name.  No working file of the run outlives it, or outlives SyncTeX
\* being turned off, unless not even the preamble could be written, or a plain
\* file could not be closed.
InSync ==
    /\ pc = "done" /\ log => {disk.plain, disk.gz} \in {{"none"}, {"none", "new"}}
    /\ "new" \in {disk.plain, disk.gz} =>
          /\ pc = "done" /\ log /\ ctxt.notVoid
          /\ out.whole = "yes" \/ (option.gz /\ out.whole = "short")
    /\ (pc # "run" \/ ctxt.off) /\ disk.busy = "new" => out.head = "failed" \/ pc = "exited"

\* Every tag in the file has its Input line, however often \synctex changed
\* since the file was opened; a file read before, with \synctex=0, has none.
TagsKnown == out.unknown \subseteq blind

\* Sheets, forms and lists nest as synctex(5) says, and form_depth counts the
\* forms TeX is in, unless a page was too large, the run was cut short while
\* shipping out, or a form was ignored (with \synctex=0, or within a form).
WellNested ==
    odd = {} =>
        /\ out.nested
        /\ "new" \in {disk.plain, disk.gz} => out.open = <<>>
        /\ ~ctxt.off => ctxt.depth = Cardinality({i \in DOMAIN place :
                                                    place[i] \in {"form", "empty form"}})

-----------------------------------------------------------------------------
(* What the comments and synctex(5) say, and is not so *)

\* Every tag has its Input line (line 866: "Always record the input, even if
\* SYNCTEX_VALUE is 0").
TagsAlwaysKnown == out.unknown = {}

\* A complete file is what the grammar of synctex(5) describes: its sections
\* nest, and nodes are in lists.
Grammar ==
    "new" \in {disk.plain, disk.gz} => out.nested /\ out.open = <<>> /\ ~out.stray

\* The warning says that SyncTeX was disabled with -synctex=0 (line 1080).
WarnedTruly == warned => option.said = "zero"

\* A run without a log still removes the files of an earlier one (line 984).
Removed == pc = "done" => "old" \notin {disk.plain, disk.gz}

\* What gets its final name is complete.
Whole == "new" \in {disk.plain, disk.gz} => out.whole = "yes"

\* No working file outlives the run, whatever fails.
NeverBusy == pc # "run" => disk.busy # "new"

\* No null pointer is printed to or closed, whatever fails.
NoCrash == pc \notin {"null record", "null close"}
=============================================================================
