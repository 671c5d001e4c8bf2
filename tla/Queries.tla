------------------------------- MODULE Queries -------------------------------
(***************************************************************************)
(* The queries of the REST and GraphQL endpoints.  A query is a pure       *)
(* SELECT, but answering one takes several statements, and the two tables  *)
(* change between them: a page is a count and then a slice, a walk through *)
(* the pages is one such pair per request, and the latest readings are     *)
(* collected one transaction per sensor.                                   *)
(*                                                                         *)
(* One client, with one request in flight: queries do not affect each      *)
(* other.  The writers are those of module SensorIngest, each here one     *)
(* step, its commit.                                                       *)
(***************************************************************************)
EXTENDS Integers, SequencesExt, FiniteSetsExt

CONSTANTS
  Sensors,         \* sensor ids
  Times,           \* timestamps of readings
  Values,          \* values of a measured field
  Requests,        \* the queries the client asks
  Null,            \* a field that is null
  DefaultPageSize, \* settings.DEFAULT_PAGE_SIZE
  MaxPageSize,     \* settings.MAX_PAGE_SIZE
  GraphQLSize,     \* the page size of a GraphQL query that names none
  SchemaMax,       \* the largest page size SensorDataAdvancedQuery admits
  MaxReadings,     \* bound: readings stored
  MaxChanges       \* bound: changes of sensor rows

ASSUME ParametersAssumption ==
  /\ Times \subseteq Nat /\ Values \subseteq Int /\ Null \notin Int
  /\ {DefaultPageSize, MaxPageSize, GraphQLSize, SchemaMax} \subseteq Nat \ {0}
  /\ {MaxReadings, MaxChanges} \subseteq Nat
  /\ IsFiniteSet(Sensors) /\ \A times \in SUBSET Times : times # Null

VARIABLES
  readings, \* table sensor_data
  status,   \* table sensors: is_active, or no row
  query,    \* the request in flight
  walk,     \* the query whose pages the client is reading
  answer,   \* the response just sent
  changes   \* changes of sensor rows so far

vars == <<readings, status, query, walk, answer, changes>>

\* copy tells apart rows that differ in nothing but their primary key.
Reading == [device : Sensors, time : Times, value : Values, copy : 1 .. MaxReadings]
Rows == {"active", "inactive", "none"}

-----------------------------------------------------------------------------
(* What a request selects.  *)

Kinds == {"ranges", "timestamps", "sensor", "graphql", "meta", "latest"}

\* filtered: a timestamp_filter was given.  size: page_size of the GraphQL body.
\* A field that a kind's schema lacks has its default.
Request ==
  {r \in [kind : Kinds, ids : Seq(Sensors), filtered : BOOLEAN, exact : BOOLEAN,
          stamps : Seq(Times), low : Int \cup {Null}, high : Int \cup {Null},
          active : {"active", "inactive", Null}, size : Int \cup {Null}] :
     /\ r.kind = "sensor" => Len(r.ids) = 1
     /\ r.kind \in {"ranges", "timestamps"} => r.ids = <<>>
     /\ r.kind \notin {"ranges", "graphql"} => r.low = Null /\ r.high = Null
     /\ r.kind \notin {"graphql", "meta"} => r.active = Null}

ASSUME RequestsAssumption == Requests \subseteq Request

Everything(table) ==
  [table |-> table, ids |-> {}, stamps |-> Null, from |-> Null, to |-> Null,
   low |-> Null, high |-> Null, active |-> Null]

\* search_by_timestamps: listed times, or the range between two.
ByTimestamps(r) ==
  LET times == ToSet(r.stamps)
  IN  IF r.exact THEN [Everything("data") EXCEPT !.stamps = times]
      ELSE [Everything("data") EXCEPT !.from = Min(times), !.to = Max(times)]

\* Mutant of ByGraphQL: exact times taken for a range.
ByGraphQLRange(r) ==
  [Everything("data") EXCEPT
     !.ids = ToSet(r.ids), !.low = r.low, !.high = r.high, !.active = r.active,
     !.from = IF r.filtered /\ r.stamps # <<>> THEN Min(ToSet(r.stamps)) ELSE Null,
     !.to = IF r.filtered /\ r.stamps # <<>> THEN Max(ToSet(r.stamps)) ELSE Null]

\* map_graphql_to_pydantic_sensor_data_query, then build_sensor_data_query: an
\* empty list filters nothing, a list of exact times included.
ByGraphQL(r) ==
  LET times == ToSet(r.stamps)
      base == [Everything("data") EXCEPT !.ids = ToSet(r.ids), !.low = r.low,
                                         !.high = r.high, !.active = r.active]
  IN  CASE ~r.filtered \/ times = {} -> base
        [] r.exact -> [base EXCEPT !.stamps = times]
        [] OTHER -> [base EXCEPT !.from = Min(times), !.to = Max(times)]

Select(r) ==
  CASE r.kind = "ranges" -> [Everything("data") EXCEPT !.low = r.low, !.high = r.high]
    [] r.kind = "timestamps" -> ByTimestamps(r)
    [] r.kind = "sensor" -> [Everything("data") EXCEPT !.ids = ToSet(r.ids)]
    [] r.kind = "graphql" -> ByGraphQL(r)
    [] r.kind = "meta" -> [Everything("sensors") EXCEPT !.ids = ToSet(r.ids),
                                                       !.active = r.active]

\* map_graphql_to_pydantic_metadata_query passes on neither page nor page_size.
PageSize(r) ==
  IF r.kind = "graphql"
    THEN Min({IF r.size \in {Null, 0} THEN GraphQLSize ELSE r.size, MaxPageSize})
    ELSE DefaultPageSize
PageAsked(r, n) == IF r.kind = "meta" THEN 1 ELSE n

Below(low, high) == low # Null /\ high # Null => low <= high

\* What the schemas and search_by_timestamps refuse.
Accepted(r) ==
  CASE r.kind = "ranges" ->
         /\ Below(r.low, r.high)
         /\ \A b \in {r.low, r.high} \ {Null} : b >= 0
    [] r.kind = "timestamps" -> r.exact \/ Len(r.stamps) = 2
    [] r.kind = "graphql" -> Below(r.low, r.high) /\ PageSize(r) \in 1 .. SchemaMax
    [] OTHER -> TRUE

-----------------------------------------------------------------------------
(* What a SELECT returns.  *)

Within(v, low, high) == (low = Null \/ v >= low) /\ (high = Null \/ v <= high)

\* A filter on metadata joins the sensors table: readings of no row drop out.
MatchesSensor(q, s) ==
  /\ q.ids = {} \/ s \in q.ids
  /\ q.active = Null \/ status[s] = q.active
MatchesReading(q, r) ==
  /\ MatchesSensor(q, r.device)
  /\ IF q.stamps # Null THEN r.time \in q.stamps ELSE Within(r.time, q.from, q.to)
  /\ Within(r.value, q.low, q.high)

Matching(q) ==
  IF q.table = "data" THEN {r \in readings : MatchesReading(q, r)}
  ELSE {s \in Sensors : status[s] # "none" /\ MatchesSensor(q, s)}

\* Mutant of MayPrecede: the ORDER BY is forgotten.
MayPrecedeAny(q, a, b) == TRUE

\* ORDER BY timestamp DESC; nothing orders readings of one time, or sensors.
MayPrecede(q, a, b) == q.table = "data" => a.time >= b.time

\* The sets LIMIT n may leave of rows: each row left out may follow each kept.
Firsts(q, rows, n) ==
  {s \in kSubset(Min({n, Cardinality(rows)}), rows) :
     \A a \in s, b \in rows \ s : MayPrecede(q, a, b)}

\* The sets OFFSET n LIMIT size may return of rows.
Slices(q, rows, n, size) ==
  UNION {Firsts(q, rows \ skipped, size) : skipped \in Firsts(q, rows, n)}

-----------------------------------------------------------------------------
(* Requests in flight, walks and answers.  *)

NoQuery == [pc |-> "none"]
NoWalk == [page |-> 0]
NoAnswer == [kind |-> "none"]
Refused == [kind |-> "refused"]

\* counted: the rows of the count statement.  todo, valid, found: the sensor
\* ids and entries of get_latest_entries_for_sensors.
Query == [pc : {"list", "known", "exists", "count", "page", "fetch"}, request : Requests,
          page : Nat, counted : SUBSET (readings \cup Sensors), todo : Seq(Sensors),
          valid : Seq(Sensors), found : Seq(Reading)]
\* History.  start: what matched when the walk began; got: what its pages
\* held; steady: the sensors whose rows have not changed since.
Walk == [page : Nat, request : Requests, start : SUBSET (readings \cup Sensors),
         got : SUBSET (readings \cup Sensors), ended : BOOLEAN, steady : SUBSET Sensors]

Starts(r) ==
  CASE r.kind = "latest" -> IF r.ids = <<>> THEN "list" ELSE "known"
    [] r.kind = "sensor" -> "exists"
    [] OTHER -> "count"

\* A request for page n of r enters its handler.
Enter(r, n) ==
  query' = [pc |-> Starts(r), request |-> r, page |-> n, counted |-> {},
            todo |-> IF r.kind = "latest" THEN r.ids ELSE <<>>,
            valid |-> <<>>, found |-> <<>>]

\* For the latest readings, start holds all there are at the call.
Ask(r) ==
  /\ query = NoQuery /\ walk = NoWalk
  /\ IF Accepted(r)
       THEN /\ Enter(r, 1)
            /\ walk' = [page |-> 1, request |-> r, got |-> {}, ended |-> FALSE,
                        start |-> IF r.kind = "latest" THEN readings
                                  ELSE Matching(Select(r)),
                        steady |-> Sensors]
            /\ answer' = NoAnswer
       ELSE walk' = NoWalk /\ answer' = Refused /\ UNCHANGED query
  /\ UNCHANGED <<readings, status, changes>>

\* The client asks for the next page, until one comes short.
AskNext ==
  /\ query = NoQuery /\ walk # NoWalk /\ ~walk.ended
  /\ Enter(walk.request, walk.page + 1)
  /\ walk' = [walk EXCEPT !.page = @ + 1]
  /\ answer' = NoAnswer
  /\ UNCHANGED <<readings, status, changes>>

\* The client has read all it wants.
Leave ==
  /\ query = NoQuery /\ walk # NoWalk
  /\ walk' = NoWalk /\ answer' = NoAnswer
  /\ UNCHANGED <<readings, status, query, changes>>

Answer(a) == query' = NoQuery /\ answer' = a

\* get_all_data_by_sensor looks the sensor up, in a transaction of its own.
Exists ==
  /\ query.pc = "exists"
  /\ IF status[query.request.ids[1]] # "none"
       THEN query' = [query EXCEPT !.pc = "count"] /\ UNCHANGED <<walk, answer>>
       ELSE Answer([kind |-> "not found"]) /\ walk' = NoWalk
  /\ UNCHANGED <<readings, status, changes>>

\* Mutant of Count: all rows are counted, the filter is forgotten.
CountAll ==
  /\ query.pc = "count"
  /\ query' = [query EXCEPT !.pc = "page",
                            !.counted = Matching(Everything(Select(query.request).table))]
  /\ UNCHANGED <<readings, status, walk, answer, changes>>

\* The first statement of paginate_query.
Count ==
  /\ query.pc = "count"
  /\ query' = [query EXCEPT !.pc = "page", !.counted = Matching(Select(query.request))]
  /\ UNCHANGED <<readings, status, walk, answer, changes>>

\* The second statement, which sees what was committed since the first.
Page ==
  LET r == query.request
      q == Select(r)
      size == PageSize(r)
      offset == (PageAsked(r, query.page) - 1) * size
      rows == Matching(q)
  IN  /\ query.pc = "page"
      /\ \E items \in Slices(q, rows, offset, size) :
           /\ Answer([kind |-> "page", items |-> items, offset |-> offset,
                      size |-> size, total |-> Cardinality(query.counted),
                      fresh |-> rows \ query.counted, asOf |-> status])
           /\ walk' = [walk EXCEPT !.got = @ \cup items,
                                   !.ended = Cardinality(items) < size \/ r.kind = "meta"]
      /\ UNCHANGED <<readings, status, changes>>

\* get_latest_entries_for_sensors: no ids stands for every sensor's, one
\* transaction each tells which exist, one each fetches the last entry.
ListSensors ==
  /\ query.pc = "list"
  /\ \E all \in SetToSeqs({s \in Sensors : status[s] # "none"}) :
       query' = [query EXCEPT !.pc = "known", !.todo = all]
  /\ UNCHANGED <<readings, status, walk, answer, changes>>

Known ==
  /\ query.pc = "known"
  /\ query' =
       IF query.todo = <<>> THEN [query EXCEPT !.pc = "fetch"]
       ELSE [query EXCEPT !.todo = Tail(@),
                          !.valid = IF status[Head(query.todo)] # "none"
                                      THEN Append(@, Head(query.todo)) ELSE @]
  /\ UNCHANGED <<readings, status, walk, answer, changes>>

\* Mutant of LatestOf: the oldest entry.
LatestOfOldest(s) ==
  {{e} : e \in {r \in readings : r.device = s /\ \A b \in readings : b.device = s => b.time >= r.time}}

\* ORDER BY timestamp DESC LIMIT 1 of one sensor.
LatestOf(s) ==
  Firsts(Everything("data"), {r \in readings : r.device = s}, 1)

FetchLatest ==
  /\ query.pc = "fetch"
  /\ IF query.valid = <<>>
       THEN Answer([kind |-> "latest", found |-> query.found])
            /\ walk' = [walk EXCEPT !.ended = TRUE]
       ELSE /\ \E entry \in LatestOf(Head(query.valid)) :
                 query' = [query EXCEPT !.valid = Tail(@), !.found = @ \o SetToSeq(entry)]
            /\ UNCHANGED <<walk, answer>>
  /\ UNCHANGED <<readings, status, changes>>

\* A statement raises: the endpoint answers an internal error.
Raise ==
  /\ query # NoQuery
  /\ Answer([kind |-> "error"]) /\ walk' = NoWalk
  /\ UNCHANGED <<readings, status, changes>>

-----------------------------------------------------------------------------
(* The writers.  *)

\* History: a response counts until the next write, and so does a walk at its end.
Past(w) == IF query = NoQuery /\ w # NoWalk /\ w.ended THEN NoWalk ELSE w

\* insert_sensor_data.  The time is the device's: readings arrive in any order.
Store(s, t, v) ==
  LET same == {r \in readings : r.device = s /\ r.time = t /\ r.value = v}
  IN  /\ Cardinality(readings) < MaxReadings
      /\ readings' = readings \cup
           {[device |-> s, time |-> t, value |-> v, copy |-> Cardinality(same) + 1]}
      /\ walk' = Past(walk) /\ answer' = NoAnswer
      /\ UNCHANGED <<status, query, changes>>

\* insert_sensor, modify_sensor, remove_sensor: the row comes, changes or goes.
\* Removing it keeps the readings.
Change(s, new) ==
  /\ new # status[s] /\ changes < MaxChanges
  /\ changes' = changes + 1
  /\ status' = [status EXCEPT ![s] = new]
  /\ walk' = IF Past(walk) = NoWalk THEN NoWalk ELSE [walk EXCEPT !.steady = @ \ {s}]
  /\ answer' = NoAnswer
  /\ UNCHANGED <<readings, query>>

Init ==
  /\ readings = {}
  /\ status = [s \in Sensors |-> "active"]
  /\ query = NoQuery
  /\ walk = NoWalk
  /\ answer = NoAnswer
  /\ changes = 0

Next ==
  \/ \E r \in Requests : Ask(r)
  \/ AskNext \/ Leave \/ Exists \/ Count \/ Page
  \/ ListSensors \/ Known \/ FetchLatest \/ Raise
  \/ \E s \in Sensors, t \in Times, v \in Values : Store(s, t, v)
  \/ \E s \in Sensors, new \in Rows : Change(s, new)

Spec == Init /\ [][Next]_vars

-----------------------------------------------------------------------------
(* Properties.  *)

\* The tables hold rows, and a request in flight and the walk it belongs to
\* speak of readings and sensors that have been stored.
TypeOK ==
  /\ readings \subseteq Reading
  /\ status \in [Sensors -> Rows]
  /\ query \in Query \cup {NoQuery}
  /\ walk \in Walk \cup {NoWalk}
  /\ query # NoQuery => (walk # NoWalk /\ walk.page = query.page)
  /\ changes \in 0 .. MaxChanges

Undisturbed(w) == w.request.active = Null \/ w.steady = Sensors

\* Reading all pages of a query misses no reading that was there at the start,
\* however many are stored meanwhile, unless it shares its time with another
\* that matches, which nothing orders, or the sensors a filter on is_active
\* speaks of change: new readings move old ones to later pages, never to
\* earlier ones.
WalkMissesOnlyTies ==
  (query = NoQuery /\ walk # NoWalk) =>
    (Undisturbed(walk) /\ walk.request.kind \notin {"meta", "latest"} =>
      LET rows == Matching(Select(walk.request))
          Passed(r) == walk.ended \/ \E g \in walk.got : g.time < r.time
          Tied(r) == \E b \in rows \ {r} : b.time = r.time
      IN  \A r \in walk.start : Passed(r) => Tied(r) \/ r \in walk.got)

\* A page and the total it comes with are of two statements: the page may
\* reach beyond the total by no more than what was stored between them, and
\* is full as far as the total reaches.
PageAgreesWithTotal ==
  answer.kind = "page" =>
    LET n == Cardinality(answer.items)
    IN  /\ n > 0 => answer.offset + n <= answer.total + Cardinality(answer.fresh)
        /\ (Undisturbed(walk) /\ walk.request.kind # "meta") =>
             n >= Min({answer.size, answer.total - answer.offset})

\* A page holds what the endpoint's documentation promises and nothing else:
\* the listed sensors' readings, of the listed times if exact, else between
\* the first and the last, with the field within its bounds and the sensor as
\* is_active says.  The exception is an exact list of no times, which GraphQL
\* takes for no filter.
OnlyWanted ==
  (answer.kind = "page" /\ walk.request.kind # "meta") =>
    LET r == walk.request
        timed == r.kind = "timestamps" \/ (r.kind = "graphql" /\ r.filtered)
        Listed(t) == \E i \in DOMAIN r.stamps : r.stamps[i] = t
        Between(t) == \E i, j \in DOMAIN r.stamps : r.stamps[i] <= t /\ t <= r.stamps[j]
    IN  \A e \in answer.items :
          /\ r.ids # <<>> => e.device \in ToSet(r.ids)
          /\ timed => \/ IF r.exact THEN Listed(e.time) ELSE Between(e.time)
                      \/ r.kind = "graphql" /\ r.stamps = <<>>
          /\ ~(r.low # Null /\ e.value < r.low) /\ ~(r.high # Null /\ e.value > r.high)
          /\ r.active # Null => answer.asOf[e.device] = r.active

\* The latest entries: for each time a sensor is listed that was registered
\* throughout the call, one entry, and none older than the sensor's readings
\* of when the call began.
LatestIsFresh ==
  answer.kind = "latest" =>
    LET ids == walk.request.ids
        Entries(s) == {i \in DOMAIN answer.found : answer.found[i].device = s}
        Before(s) == {r \in walk.start : r.device = s}
        Listed(s) == IF ids = <<>> THEN 1 ELSE Cardinality({i \in DOMAIN ids : ids[i] = s})
    IN  \A s \in walk.steady :
          (status[s] # "none" /\ Before(s) # {}) =>
            /\ Cardinality(Entries(s)) = Listed(s)
            /\ \A i \in Entries(s), r \in Before(s) : answer.found[i].time >= r.time
=============================================================================
