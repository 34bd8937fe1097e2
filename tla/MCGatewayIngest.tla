--------------------------- MODULE MCGatewayIngest ---------------------------
(* Two agents of one tenant, up to two requests in flight.                    *)
EXTENDS GatewayIngest, TLC

CONSTANTS a1, a2, r1, r2, org

Signal(a, n) == [src |-> a, id |-> n, kind |-> "signal", size |-> 1]
Telemetry(a, n) == [src |-> a, id |-> n, kind |-> "telemetry", size |-> 1]
Malformed(a, n) == [src |-> a, id |-> n, kind |-> "malformed", size |-> 2]
Broken(a, n) == [src |-> a, id |-> n, kind |-> "broken", size |-> 2]

MCAgent == {a1, a2}
MCSlot == {r1, r2}
MCTenant == (a1 :> org) @@ (a2 :> org)
\* Shedding, the limits on lines and on bytes, eviction, a line that breaks the parser.
MixedOutbox == (a1 :> <<Signal(a1, 1), Signal(a1, 2), Telemetry(a1, 3), Broken(a1, 4)>>)
            @@ (a2 :> << >>)
\* At most one signal per agent: a refused batch has charged no signal before it.
PacedOutbox == (a1 :> <<Telemetry(a1, 1), Signal(a1, 2)>>) @@ (a2 :> <<Signal(a2, 3), Malformed(a2, 4)>>)
SignalOutbox == (a1 :> <<Signal(a1, 1), Signal(a1, 2)>>) @@ (a2 :> <<Signal(a2, 3)>>)

\* Requests are served alike.
SlotSymmetry == Permutations(MCSlot)
==============================================================================
