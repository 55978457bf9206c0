------------------------- MODULE MCRouteResolution -------------------------
(* Route tables and requests for TLC: every kind of route the CLI can add. *)
EXTENDS RouteResolution, TLC

Route(a, t, p, b, n, c) ==
  [app |-> a, type |-> t, pattern |-> p, both |-> b, prio |-> n, created |-> c]

MCRoutes ==
  { Route("a1", "hostname", None, FALSE, 0, 1),   \* app only
    Route("a1", "hostname", None, TRUE, 1, 1),    \* app only, require_both or not
    Route("a1", "ip", "x", TRUE, 1, 2),           \* app and host
    Route("a1", "ip", "y", FALSE, 1, 2),          \* app or host
    Route(None, "ip", "y", TRUE, 0, 1),           \* host only
    Route(None, "ip", "x", FALSE, 0, 0),          \* host only, matching any
    Route(None, "hostname", "x", TRUE, 1, 3) }    \* host name: never matched

MCAppRows == { [id |-> "a1", exe |-> "e1"],
               [id |-> "a2", exe |-> "e1"],
               [id |-> "a2", exe |-> "e2"] }

MCKnown == "cone" :> "h1"
=============================================================================
