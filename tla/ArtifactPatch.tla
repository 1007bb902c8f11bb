---------------------------- MODULE ArtifactPatch ----------------------------
(***************************************************************************)
(* The text of a patch that comes out of a sandbox: read, checked against   *)
(* the write scope and rewritten for git (scripts/artifact-apply.mjs), as    *)
(* validateSandboxPatch() of scripts/wsl-sandbox.mjs does it.               *)
(*                                                                          *)
(* A line is known by how it begins: a removed line of text that begins     *)
(* with "-- " reads like a header, and so does an added one with "++ ".      *)
(* Spelling and quoting of paths are left out.                              *)
(***************************************************************************)
EXTENDS Naturals, Sequences, FiniteSets, SequencesExt

CONSTANTS
    Scope,      \* the paths that may be written
    Patches     \* the differences: sequences of [file, before, after: is it there,
                \* hunks: sequences of the beginnings of their lines]

VARIABLES
    patch,      \* what differs between the two trees
    stated      \* does the sandbox state which files exist? Older ones do not.

patchVars == <<patch, stated>>

PatchInit == patch \in Patches /\ stated \in BOOLEAN

(********************************* the text ********************************)

Line(k) == [k |-> k, file |-> "", side |-> "", epoch |-> FALSE, old |-> 0, new |-> 0]

\* diff prints the epoch as the time of a file that is not there.
Header(k, f, side, there) == [Line(k) EXCEPT !.file = f, !.side = side, !.epoch = ~there]

OfOld == {" ", "-", "---"}
OfNew == {" ", "+", "+++"}
Lines(body, of) == Cardinality({i \in DOMAIN body : body[i] \in of})

Hunk(body) == <<[Line("@@") EXCEPT !.old = Lines(body, OfOld), !.new = Lines(body, OfNew)]>>
              \o [i \in DOMAIN body |-> Line(body[i])]

Hunks(d) == FlattenSeq([i \in DOMAIN d.hunks |-> Hunk(d.hunks[i])])

\* diff -ruN baseline workspace.
Difference(p) == FlattenSeq([i \in DOMAIN p |->
    <<Line("diff"), Header("---", p[i].file, "baseline", p[i].before),
                    Header("+++", p[i].file, "workspace", p[i].after)>> \o Hunks(p[i])])

\* The same for git, where a file that is not there has no name.
Named(k, d, side, there) ==
    IF there THEN [Line(k) EXCEPT !.file = d.file, !.side = side] ELSE [Line(k) EXCEPT !.side = "/dev/null"]
ForGit(p) == FlattenSeq([i \in DOMAIN p |->
    <<Named("---", p[i], "a", p[i].before), Named("+++", p[i], "b", p[i].after)>> \o Hunks(p[i])])

\* describeSandboxFiles(): which files exist in the two trees.
FileStates(p) == [f \in {p[i].file : i \in DOMAIN p} |->
    LET d == p[CHOOSE i \in DOMAIN p : p[i].file = f] IN [before |-> d.before, after |-> d.after]]

(******************************** reading **********************************)

\* One line inside a hunk: its first character says what it is.
InHunk(s, l) ==
    CASE l.k = "no newline" -> s
      [] l.k \in {"+", "+++"} /\ s.new > 0 -> [s EXCEPT !.new = @ - 1]
      [] l.k \in {"-", "---"} /\ s.old > 0 -> [s EXCEPT !.old = @ - 1]
      [] l.k = " " /\ s.old > 0 /\ s.new > 0 -> [s EXCEPT !.old = @ - 1, !.new = @ - 1]
      [] OTHER -> [s EXCEPT !.bad = TRUE]

\* One line between hunks; the line after "---" has been looked at with it.
Between(text, s, i) ==
    CASE text[i].k = "diff" -> [s EXCEPT !.metadata = @ \cup {i}]
      [] text[i].k = "---" ->
           IF i < Len(text) /\ text[i + 1].k = "+++" THEN [s EXCEPT !.pairs = Append(@, i), !.skip = i + 1]
           ELSE [s EXCEPT !.bad = TRUE]
      [] text[i].k = "@@" ->
           IF s.pairs = <<>> THEN [s EXCEPT !.bad = TRUE] ELSE [s EXCEPT !.old = text[i].old, !.new = text[i].new]
      [] text[i].k = "+++" -> [s EXCEPT !.bad = TRUE]
      [] OTHER -> s

\* Mutant: a line that reads like a header is taken for one.
ReadHeadersFirst(text, s, i) ==
    IF s.bad \/ s.skip = i THEN s
    ELSE IF s.old + s.new > 0 /\ text[i].k \notin {"diff", "---", "@@"} THEN InHunk(s, text[i])
    ELSE Between(text, s, i)

ReadLine(text, s, i) ==
    IF s.bad \/ s.skip = i THEN s
    ELSE IF s.old + s.new > 0 THEN InHunk(s, text[i]) ELSE Between(text, s, i)

\* parsePatchHeaders().
ParseHeaders(text) ==
    LET end == FoldLeft(LAMBDA s, i : ReadLine(text, s, i),
                        [old |-> 0, new |-> 0, pairs |-> <<>>, metadata |-> {}, skip |-> 0, bad |-> FALSE],
                        [i \in DOMAIN text |-> i])
    IN  [ok |-> ~end.bad /\ end.old + end.new = 0, pairs |-> end.pairs, metadata |-> end.metadata]

(******************************** checking *********************************)

NoPatch == <<>>

FilesAt(text, pairs) == {text[i].file : i \in Range(pairs)}

\* sandboxPatchFiles(): the files of a patch of the sandbox, all in the scope.
SandboxFiles(text) ==
    LET read == ParseHeaders(text)
        fits == \A i \in Range(read.pairs) :
                    /\ text[i].side = "baseline" /\ text[i + 1].side = "workspace"
                    /\ text[i].file = text[i + 1].file /\ text[i].file \in Scope
    IN  IF read.ok /\ fits /\ Cardinality(FilesAt(text, read.pairs)) = Len(read.pairs)
        THEN FilesAt(text, read.pairs) ELSE {}

\* relativePatchFiles(): the same of a patch for git.
RelativeFiles(text) ==
    LET read  == ParseHeaders(text)
        Of(i) == IF text[i].side = "/dev/null" THEN text[i + 1].file ELSE text[i].file
        files == {Of(i) : i \in Range(read.pairs)}
        fits  == \A i \in Range(read.pairs) :
                    /\ text[i].side \in {"a", "/dev/null"} /\ text[i + 1].side \in {"b", "/dev/null"}
                    /\ {text[i].side, text[i + 1].side} # {"/dev/null"}
                    /\ text[i + 1].side = "b" => text[i + 1].file = Of(i)
    IN  IF read.ok /\ fits /\ Cardinality(files) = Len(read.pairs) THEN files ELSE {}

\* Without a statement of what exists nothing is guessed from an epoch.
Rewritable(text, pairs, states) ==
    \A i \in Range(pairs) : text[i].file \in DOMAIN states \/ ~(text[i].epoch \/ text[i + 1].epoch)

Rewritten(text, pairs, states) ==
    LET There(f, when) == f \in DOMAIN states => states[f][when]
        Name(i, side, there) == IF there THEN [Line(text[i].k) EXCEPT !.file = text[i].file, !.side = side]
                                ELSE [Line(text[i].k) EXCEPT !.side = "/dev/null"]
    IN  [i \in DOMAIN text |->
            IF i \in Range(pairs) THEN Name(i, "a", There(text[i].file, "before"))
            ELSE IF i - 1 \in Range(pairs) THEN Name(i, "b", There(text[i].file, "after"))
            ELSE text[i]]

\* normalizeSandboxPatch().
Normalized(text, changed, states) ==
    LET read  == ParseHeaders(text)
        lines == Rewritten(text, read.pairs, states)
        rest  == SelectSeq([i \in DOMAIN text |-> i], LAMBDA i : i \notin read.metadata)
        clean == [n \in DOMAIN rest |-> lines[rest[n]]]
    IN  IF /\ states # <<>> => DOMAIN states = changed
           /\ read.ok /\ Rewritable(text, read.pairs, states) /\ RelativeFiles(clean) = changed
        THEN clean ELSE NoPatch

\* validateSandboxPatch().
Delivered(text, states) ==
    IF SandboxFiles(text) = {} THEN NoPatch ELSE Normalized(text, SandboxFiles(text), states)

(******************************** properties *******************************)

\* What is delivered is the difference of the two trees, line by line, whatever
\* the files contain: a file that was emptied is not removed, one that was removed
\* is not left empty; and nothing is refused that lies in the scope and is stated.
PatchTold ==
    LET given == Delivered(Difference(patch), IF stated THEN FileStates(patch) ELSE <<>>)
    IN  IF /\ \A i \in DOMAIN patch : patch[i].file \in Scope
           /\ stated \/ \A i \in DOMAIN patch : patch[i].before /\ patch[i].after
        THEN given = ForGit(patch) ELSE given = NoPatch
==============================================================================
