--------------------------- MODULE MCPluginUpgrade ---------------------------
(* PluginUpgrade over GatewayLifecycle for TLC. *)
EXTENDS PluginUpgrade

Bound(e, k, o, a, c, m) == [edits |-> e, kills |-> k, outside |-> o, again |-> a, calls |-> c, made |-> m]

const_Plans == {Bound(1, 1, 0, 0, 2, 2), Bound(0, 0, 1, 0, 1, 1), Bound(0, 0, 0, 1, 2, 2),
                Bound(2, 0, 0, 1, 0, 1)}
==============================================================================
