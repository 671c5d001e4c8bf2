----------------------------- MODULE MCDashboard -----------------------------
(* Two rooms, one of which has its first reading in the second of three    *)
(* versions, and two requests in flight.                                   *)
EXTENDS Dashboard

CONSTANTS r1, r2, f1, f2

MCRooms == {r1, r2}
MCFeed == <<{r1}, {r1, r2}, {r1, r2}>>
MCFetches == {f1, f2}
=============================================================================
