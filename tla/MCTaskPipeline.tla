--------------------------- MODULE MCTaskPipeline ---------------------------
(* TaskPipeline for TLC: a T2 run of two phases with a task of another run, *)
(* a T1 and a T0 change on their own, each with its verifier.               *)
EXTENDS HostHandoff, TLC

Blank == [stage |-> "planned", version |-> 2, run |-> "r1", phase |-> 1, inputs |-> {}, known |-> FALSE,
          of |-> "none", tier |-> "T2", risky |-> FALSE, profile |-> "standard", binds |-> {}]

In(r, s) == [request |-> r, stage |-> s]

\* pre1 -> impl1 -> post1 -> pre2 -> impl2 -> post2; skip2 and stray2 would skip a phase.
const_Task ==
    "pre1"  :> [Blank EXCEPT !.stage = "pre-review", !.known = TRUE, !.binds = {"impl1", "skip2"}] @@
    "impl1" :> [Blank EXCEPT !.stage = "implementing", !.risky = TRUE, !.inputs = {In("pre1", "pre-review")}] @@
    "ver1"  :> [Blank EXCEPT !.stage = "verifying", !.inputs = {In("impl1", "implementing")}] @@
    "post1" :> [Blank EXCEPT !.stage = "post-review",
                             !.inputs = {In("impl1", "implementing"), In("pre1", "pre-review")}] @@
    "post1n" :> [Blank EXCEPT !.stage = "post-review",
                             !.inputs = {In("impl1", "implementing"), In("ver1", "verifying")}] @@
    "pre2"  :> [Blank EXCEPT !.stage = "pre-review", !.phase = 2, !.binds = {"impl2"},
                             !.inputs = {In("post1", "post-review")}] @@
    "stray2" :> [Blank EXCEPT !.stage = "pre-review", !.phase = 2, !.binds = {"impl2"}, !.known = TRUE] @@
    "impl2" :> [Blank EXCEPT !.stage = "implementing", !.phase = 2, !.risky = TRUE,
                             !.inputs = {In("pre2", "pre-review")}] @@
    "post2" :> [Blank EXCEPT !.stage = "post-review", !.phase = 2,
                             !.inputs = {In("impl2", "implementing"), In("pre2", "pre-review")}] @@
    "skip2" :> [Blank EXCEPT !.stage = "implementing", !.phase = 2, !.risky = TRUE,
                             !.inputs = {In("pre1", "pre-review")}] @@
    "preX"  :> [Blank EXCEPT !.stage = "pre-review", !.run = "r2", !.known = TRUE, !.binds = {"implX"}] @@
    "implX" :> [Blank EXCEPT !.stage = "implementing", !.risky = TRUE, !.inputs = {In("preX", "pre-review")}] @@
    "loose1" :> [Blank EXCEPT !.stage = "implementing", !.risky = TRUE, !.inputs = {In("pre1", "pre-review")}] @@
    "one"   :> [Blank EXCEPT !.stage = "implementing", !.version = 0, !.tier = "T1"] @@
    "oneN"  :> [Blank EXCEPT !.stage = "verifying", !.version = 0, !.of = "one"] @@
    "oneR"  :> [Blank EXCEPT !.stage = "post-review", !.version = 0, !.of = "one", !.tier = "T1"] @@
    "oneS"  :> [Blank EXCEPT !.stage = "post-review", !.version = 0, !.of = "one", !.tier = "T1"] @@
    "soft"  :> [Blank EXCEPT !.stage = "implementing", !.version = 0, !.risky = TRUE, !.profile = "personal"] @@
    "softR" :> [Blank EXCEPT !.stage = "post-review", !.version = 0, !.of = "soft", !.tier = "T1"] @@
    "zero"  :> [Blank EXCEPT !.stage = "implementing", !.version = 0, !.tier = "T0"] @@
    "zeroN" :> [Blank EXCEPT !.stage = "verifying", !.version = 0, !.of = "zero"]

Ask(S, after, sleeps, exec, two, most) ==
    [asked |-> S, host |-> after, waits |-> sleeps, execution |-> exec, shared |-> two, deaths |-> most]

const_Plans == {
    Ask({"pre1", "impl1", "post1", "pre2", "impl2", "post2"}, "none", FALSE, TRUE, FALSE, 1),
    Ask({"pre1", "impl1", "post1", "skip2", "stray2"}, "none", FALSE, TRUE, FALSE, 0),
    Ask({"pre1", "impl1", "post1"}, "impl1", TRUE, TRUE, FALSE, 1),
    Ask({"pre1", "impl1", "ver1", "post1n"}, "none", FALSE, TRUE, FALSE, 1),
    Ask({"preX", "implX", "pre1", "loose1"}, "none", FALSE, TRUE, FALSE, 0),
    Ask({"one", "oneN", "oneR"}, "one", TRUE, FALSE, FALSE, 1),
    Ask({"one", "oneN", "oneR"}, "one", FALSE, FALSE, TRUE, 0),
    Ask({"one", "oneN", "oneR", "soft", "softR"}, "none", FALSE, TRUE, FALSE, 0),
    Ask({"one", "oneR", "oneS"}, "one", FALSE, TRUE, FALSE, 1),
    Ask({"zero", "zeroN"}, "zero", TRUE, TRUE, FALSE, 1),
    Ask({"zero", "zeroN"}, "zero", TRUE, FALSE, TRUE, 1),
    Ask({"zero", "zeroN"}, "zero", FALSE, FALSE, TRUE, 1)}

const_Patches == {
    [files |-> 1, lines |-> 10, shared |-> FALSE, docs |-> FALSE],
    [files |-> 4, lines |-> 10, shared |-> FALSE, docs |-> FALSE]}

==============================================================================
