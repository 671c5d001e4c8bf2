----------------------------- MODULE MCQueries -----------------------------
(* Instances of Queries for TLC. *)
EXTENDS Queries

CONSTANTS s1, s2

TwoSensors == {s1, s2}
ThreeTimes == 1 .. 3
TwoValues == 1 .. 2

Plain(kind) ==
  [kind |-> kind, ids |-> <<>>, filtered |-> FALSE, exact |-> FALSE, stamps |-> <<>>,
   low |-> Null, high |-> Null, active |-> Null, size |-> Null]
Stamped(kind, exact, stamps) ==
  [Plain(kind) EXCEPT !.filtered = TRUE, !.exact = exact, !.stamps = stamps]

\* One request for each way through the handlers, and some that are refused.
Paged ==
  {[Plain("ranges") EXCEPT !.low = 2], [Plain("ranges") EXCEPT !.low = 2, !.high = 1],
   Stamped("timestamps", FALSE, <<3, 2>>), Stamped("timestamps", FALSE, <<1>>),
   Stamped("timestamps", TRUE, <<3>>),
   [Plain("sensor") EXCEPT !.ids = <<s1>>],
   [Plain("graphql") EXCEPT !.active = "active", !.size = 1],
   [Plain("graphql") EXCEPT !.size = -1],
   [Stamped("graphql", TRUE, <<1, 3>>) EXCEPT !.high = 1, !.size = 3],
   [Stamped("graphql", TRUE, <<>>) EXCEPT !.size = 0],
   [Plain("meta") EXCEPT !.active = "active"],
   Plain("latest"), [Plain("latest") EXCEPT !.ids = <<s1, s1>>]}
=============================================================================
