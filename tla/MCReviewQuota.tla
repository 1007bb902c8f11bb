---------------------------- MODULE MCReviewQuota ----------------------------
(* ReviewQuota for TLC: one run with both stages, up to six attempts.      *)
EXTENDS ReviewQuota

CONSTANTS c1, c2

\* Both stages of one phase, up to the caps; both with a spoilt attempt over two phases; one stage over
\* two phases, with executions that overrun the time left; one stage beside an older runtime.
const_Plans == {
    [kinds |-> {<<"pre-review", 2>>, <<"post-review", 2>>},
     timeouts |-> {3}, closes |-> {TRUE}, elapsed |-> {}, spoilt |-> 0, live |-> 1, max |-> 5, old |-> 0],
    [kinds |-> {<<"pre-review", 1>>, <<"post-review", 2>>},
     timeouts |-> {3}, closes |-> BOOLEAN, elapsed |-> {}, spoilt |-> 1, live |-> 2, max |-> 3, old |-> 0],
    [kinds |-> {<<"post-review", 1>>, <<"post-review", 2>>},
     timeouts |-> {6}, closes |-> BOOLEAN, elapsed |-> {7}, spoilt |-> 1, live |-> 2, max |-> 3, old |-> 0],
    [kinds |-> {<<"post-review", 1>>},
     timeouts |-> {3}, closes |-> BOOLEAN, elapsed |-> {}, spoilt |-> 1, live |-> 2, max |-> 3, old |-> 1]}

const_Decisions == {
    [verdict |-> "approve", blockers |-> {},    cited |-> TRUE],
    [verdict |-> "changes", blockers |-> {"k"}, cited |-> TRUE]}

=============================================================================
