--------------------------- MODULE MCHostProcesses ---------------------------
(* HostProcesses for TLC. *)
EXTENDS HostProcesses

const_Calls == 1..3

\* Hunks of up to two lines of any kind; patches of one file with up to two
\* hunks, or of two files with one each.  The file x is outside the scope.
Kinds == {" ", "-", "+", "---", "+++"}
Bodies == {<<a>> : a \in Kinds} \cup {<<a, b>> : a \in Kinds, b \in Kinds \cup {"no newline"}}
Fits(h, before, after) == \A i \in DOMAIN h : (h[i] \in OfOld => before) /\ (h[i] \in OfNew => after)
Differences(f, hunks) ==
    {[file |-> f, before |-> b, after |-> a, hunks |-> h] :
        b \in BOOLEAN, a \in BOOLEAN, h \in hunks}
Sound(d) == (d.before \/ d.after) /\ \A i \in DOMAIN d.hunks : Fits(d.hunks[i], d.before, d.after)
OneHunk == {<<h>> : h \in Bodies}
TwoHunks == {<<g, h>> : g, h \in Bodies}
One(f, hunks) == {d \in Differences(f, hunks) : Sound(d)}
const_Patches ==
    {<<d>> : d \in One("f", OneHunk \cup TwoHunks)}
    \cup {<<d, e>> : d \in One("f", OneHunk), e \in One("g", OneHunk) \cup One("x", {<< <<"+">> >>})}
==============================================================================
