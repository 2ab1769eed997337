------------------------------ MODULE KrWarehouse ------------------------------
(***************************************************************************)
(* The KR valuation warehouse: load-kr-valuation-warehouse promotes cache  *)
(* files to two Parquet files read through DuckDB views, and the API       *)
(* answers the valuation map and the financials of a KR priority ticker    *)
(* from them, from the cache file, or not at all.  Builder, loader and API *)
(* are processes that share the files and no lock but DuckDB's.            *)
(*                                                                         *)
(* One fiscal year is kept of every payload: a figure is the grade of its  *)
(* source trace, or "none" where the payload has no such row.              *)
(***************************************************************************)
EXTENDS Integers, Sequences, FiniteSets, SequencesExt, KrCache

CONSTANTS
    PriorityTickers,      \* KR priority tickers
    Owner,        \* cache file -> its ticker
    Payloads,     \* what a build can put in a cache file: figure -> grade
    Requests,     \* API requests in flight
    InPostgres,   \* tickers the database answers for
    SourceRequired, \* _kr_priority_requires_source_backed
    MaxBuilds, MaxLoads, MaxAsked   \* bounds

ASSUME KrWarehouseAssumption ==
    /\ PriorityTickers # {}
    /\ Owner \in [CacheFiles -> PriorityTickers]
    /\ InPostgres \subseteq PriorityTickers /\ SourceRequired \in BOOLEAN
    /\ MaxBuilds \in Nat /\ MaxLoads \in Nat /\ MaxAsked \in Nat

Grades == {"none", "passed", "marked", "failed"}

\* A valuation point, and the normalized facts next to it.
Figures == {"point", "eps", "dividend"}

ASSUME PayloadsAssumption == Payloads \subseteq [Figures -> Grades]

VARIABLES
    order,    \* cache files, newest modification time first
    loader,   \* [pc, load, rows, crashed]: crashed is whether its last load was cut short
    facts,    \* normalized_facts.parquet: [state, load, rows]
    points,   \* valuation_points.parquet: the same
    views,    \* the DuckDB file has the two views
    request,  \* request -> [pc, kind, ticker, point, dividend, answer, ...]
    builds, asked

warehouse == <<facts, points, views>>
warehouseVars == <<cacheFile, order, loader, warehouse, request, builds, asked>>

-------------------------------------------------------------------------------
NoRows    == [t \in PriorityTickers |-> [figure \in Figures |-> "none"]]
NoParquet == [state |-> "none", load |-> 0, rows |-> NoRows]
NoFigure  == [load |-> 0, grade |-> "none"]

\* began: the loads begun before the request, or NotQuiet if one was under way or
\* the last was cut short; quiet: the request met no load (history).
NotQuiet == -1
Resting  == [pc |-> "idle", kind |-> "valuation", ticker |-> CHOOSE t \in PriorityTickers : TRUE,
             read |-> [figure \in Figures |-> NoFigure], answer |-> "none",
             began |-> NotQuiet, quiet |-> FALSE]

\* What the readers of the warehouse check again: the trace, not the markers.
Validated(grade) == grade \in {"passed", "marked"}

\* Mutant: the markers are not looked at.
EligibleTrace(grade) == Validated(grade)

\* The grades that pass: a valid source trace without a non-production marker.
\* _is_warehouse_eligible_trace, and _record_has_source_backed_trace of the cache.
Eligible(grade) == grade = "passed"

\* _latest_cache_payload: the newest file of the ticker that parses.
Readable(t) ==
    SelectSeq(order, LAMBDA k : Owner[k] = t /\ cacheFile[k].state = "whole")

CachedGrade(t, figure) ==
    IF Readable(t) = << >> THEN "none"
    ELSE LET grade == cacheFile[Head(Readable(t))].payload[figure]
         IN  IF Eligible(grade) THEN grade ELSE "none"

\* The rows a load of the requested tickers writes.
LoadedRows(requested) ==
    [t \in PriorityTickers |-> [figure \in Figures |->
        IF t \in requested THEN CachedGrade(t, figure) ELSE "none"]]

Connected == {r \in Requests : request[r].pc \in {"points", "prices", "dividends", "facts"}}

\* No load is under way, and the last one was not cut short.
OneLoad == loader.pc = "idle" /\ ~loader.crashed

WarehouseInit ==
    /\ CacheInit
    /\ order = << >>
    /\ loader = [pc |-> "idle", load |-> 0, rows |-> NoRows, crashed |-> FALSE]
    /\ facts = NoParquet /\ points = NoParquet
    /\ views = FALSE
    /\ request = [r \in Requests |-> Resting]
    /\ builds = 0 /\ asked = 0

-------------------------------------------------------------------------------
(* build-kr-valuation-inputs, as KrCache promises it.                      *)

\* A file that is written is the newest.
Newest(k) == <<k>> \o RemoveFirst(order, k)

BuildOpen(k) ==
    /\ builds < MaxBuilds
    /\ builds' = builds + 1
    /\ CacheOpen(k)
    /\ order' = Newest(k)
    /\ UNCHANGED <<loader, warehouse, request, asked>>

BuildFill(k) ==
    /\ \E p \in Payloads : cacheFile' = [cacheFile EXCEPT ![k] = Whole(p)]
    /\ CacheFill(k)
    /\ order' = Newest(k)
    /\ UNCHANGED <<loader, warehouse, request, builds, asked>>

-------------------------------------------------------------------------------
(* load_kr_valuation_cache_to_warehouse.                                   *)

Load(pc) == /\ loader.pc = pc
            /\ UNCHANGED <<cacheFile, order, builds, asked>>

ReadCaches(requested) ==
    /\ Load("idle")
    /\ loader.load < MaxLoads
    /\ loader' = [pc |-> "facts", load |-> loader.load + 1, rows |-> LoadedRows(requested),
                  crashed |-> FALSE]
    /\ UNCHANGED <<warehouse, request>>

\* _write_parquet truncates the file, then writes the table.
OpenParquet(pc, next) == Load(pc) /\ loader' = [loader EXCEPT !.pc = next]

OpenFacts ==
    /\ OpenParquet("facts", "fill facts")
    /\ facts' = [facts EXCEPT !.state = "partial"]
    /\ UNCHANGED <<points, views, request>>

FillFacts ==
    /\ OpenParquet("fill facts", "points")
    /\ facts' = [state |-> "whole", load |-> loader.load, rows |-> loader.rows]
    /\ UNCHANGED <<points, views, request>>

OpenPoints ==
    /\ OpenParquet("points", "fill points")
    /\ points' = [points EXCEPT !.state = "partial"]
    /\ UNCHANGED <<facts, views, request>>

FillPoints ==
    /\ OpenParquet("fill points", "connect")
    /\ points' = [state |-> "whole", load |-> loader.load, rows |-> loader.rows]
    /\ UNCHANGED <<facts, views, request>>

\* A read-write connection excludes every other: with a reader connected the
\* command fails here, its Parquet files already in place.
Connect ==
    /\ Load("connect")
    /\ loader' = [loader EXCEPT !.pc = IF Connected = {} THEN "views" ELSE "idle"]
    /\ UNCHANGED <<warehouse, request>>

CreateViews ==
    /\ Load("views")
    /\ views' = TRUE
    /\ loader' = [loader EXCEPT !.pc = "idle"]
    /\ UNCHANGED <<facts, points, request>>

LoaderCrash ==
    /\ loader.pc # "idle"
    /\ loader' = [loader EXCEPT !.pc = "idle", !.crashed = TRUE]
    /\ UNCHANGED <<cacheFile, order, warehouse, request, builds, asked>>

-------------------------------------------------------------------------------
(* GET valuation and financials of a ticker (main.py).                     *)

Ask(r, kind, t) ==
    /\ request[r].pc \in {"idle", "done"}
    /\ asked < MaxAsked
    /\ asked' = asked + 1
    /\ request' = [request EXCEPT ![r] =
            [Resting EXCEPT !.pc = "postgres", !.kind = kind, !.ticker = t,
                            !.began = IF OneLoad THEN loader.load ELSE NotQuiet]]
    /\ UNCHANGED <<cacheFile, order, loader, warehouse, builds>>

RequestStep(r, pc) ==
    /\ request[r].pc = pc
    /\ UNCHANGED <<cacheFile, order, loader, warehouse, builds, asked>>

Goto(r, pc) == request' = [request EXCEPT ![r].pc = pc]

AnswerFrom(r, answer) ==
    request' = [request EXCEPT ![r].pc = "done", ![r].answer = answer,
                               ![r].quiet = request[r].began = loader.load]

AskPostgres(r) ==
    /\ RequestStep(r, "postgres")
    /\ IF request[r].ticker \in InPostgres THEN AnswerFrom(r, "postgres") ELSE Goto(r, "connect")

\* No payload of the warehouse: the valuation map looks at the cache file, the
\* financials have nothing else.
AfterWarehouse(r) == IF request[r].kind = "valuation" THEN "cache" ELSE "sources"

OpenWarehouse(r) ==
    /\ RequestStep(r, "connect")
    /\ Goto(r, IF ~views \/ loader.pc = "views" THEN AfterWarehouse(r)
               ELSE IF request[r].kind = "valuation" THEN "points" ELSE "facts")

\* One SELECT over a view scans its Parquet file as it is at that moment; one
\* that cannot be read is a duckdb.Error, and no payload.
Select(r, pc, file, figure, next) ==
    /\ RequestStep(r, pc)
    /\ request' = [request EXCEPT ![r] =
            IF file.state # "whole" THEN [@ EXCEPT !.pc = AfterWarehouse(r)]
            ELSE [@ EXCEPT !.pc = next, !.read[figure] =
                    [load |-> file.load, grade |-> file.rows[request[r].ticker][figure]]]]

ReadPoints(r)    == Select(r, "points", points, "point", "prices")
ReadPrices(r)    == Select(r, "prices", facts, "eps", "dividends")
ReadDividends(r) == Select(r, "dividends", facts, "dividend", "join")
ReadFacts(r)     == Select(r, "facts", facts, "eps", "join")

\* No connection is held any more.  A dividend is joined to the points by year;
\* without points, or without facts, there is no payload.
Join(r) ==
    /\ RequestStep(r, "join")
    /\ LET figure == IF request[r].kind = "valuation" THEN "point" ELSE "eps"
       IN  IF Validated(request[r].read[figure].grade) THEN AnswerFrom(r, "warehouse")
           ELSE Goto(r, AfterWarehouse(r))

\* The points of the newest readable cache file, with that file's dividends.
ReadCache(r) ==
    /\ RequestStep(r, "cache")
    /\ LET t == request[r].ticker
       IN  IF CachedGrade(t, "point") = "none" THEN Goto(r, "sources")
           ELSE request' = [request EXCEPT ![r] = [@ EXCEPT !.pc = "done", !.answer = "cache",
                    !.read = [figure \in Figures |->
                                [load |-> 0, grade |-> CachedGrade(t, figure)]],
                    !.quiet = request[r].began = loader.load]]

\* _kr_priority_source_required_payload, or the fixture outside production.
NoSource(r) ==
    /\ RequestStep(r, "sources")
    /\ AnswerFrom(r, IF SourceRequired THEN "required" ELSE "fixture")

WarehouseNext ==
    \/ \E k \in CacheFiles : BuildOpen(k) \/ BuildFill(k)
    \/ \E requested \in SUBSET PriorityTickers : ReadCaches(requested)
    \/ OpenFacts \/ FillFacts \/ OpenPoints \/ FillPoints
    \/ Connect \/ CreateViews \/ LoaderCrash
    \/ \E r \in Requests :
        \/ \E kind \in {"valuation", "financials"} : \E t \in PriorityTickers : Ask(r, kind, t)
        \/ AskPostgres(r) \/ OpenWarehouse(r)
        \/ ReadPoints(r) \/ ReadPrices(r) \/ ReadDividends(r) \/ ReadFacts(r)
        \/ Join(r) \/ ReadCache(r) \/ NoSource(r)

WarehouseSpec == WarehouseInit /\ [][WarehouseNext]_warehouseVars

-------------------------------------------------------------------------------
(* Properties.                                                             *)

PCs == {"idle", "postgres", "connect", "points", "prices", "dividends", "facts",
        "join", "cache", "sources", "done"}

RowsOK(rows) == rows \in [PriorityTickers -> [Figures -> Grades]]

ParquetOK(file) == /\ file.state \in {"none", "partial", "whole"}
                   /\ file.load \in 0 .. MaxLoads /\ RowsOK(file.rows)

WarehouseTypeOK ==
    /\ cacheFile \in [CacheFiles -> {NoCache, Torn} \cup {Whole(p) : p \in Payloads}]
    /\ order \in Seq(CacheFiles)
    /\ \A i, j \in DOMAIN order : order[i] = order[j] => i = j
    /\ loader.pc \in {"idle", "facts", "fill facts", "points", "fill points", "connect", "views"}
    /\ loader.load \in 0 .. MaxLoads /\ RowsOK(loader.rows) /\ loader.crashed \in BOOLEAN
    /\ ParquetOK(facts) /\ ParquetOK(points) /\ views \in BOOLEAN
    /\ request \in [Requests ->
            [pc : PCs, kind : {"valuation", "financials"}, ticker : PriorityTickers,
             read : [Figures -> [load : 0 .. MaxLoads, grade : Grades]],
             answer : {"none", "postgres", "warehouse", "cache", "required", "fixture"},
             began : NotQuiet .. MaxLoads, quiet : BOOLEAN]]
    /\ builds \in 0 .. MaxBuilds /\ asked \in 0 .. MaxAsked

\* Whatever a build left in a cache file, and wherever the request got it from,
\* a figure the API serves for a priority ticker is production evidence.  The
\* readers of the warehouse check the trace only: that its markers have been
\* looked at is the loader's doing.
ServedIsEligible ==
    \A r \in Requests : request[r].answer \in {"warehouse", "cache"} =>
        \A figure \in Figures : request[r].read[figure].grade \in {"none", "passed"}

\* The points, the prices and the dividends of one answer come from three scans
\* of two files, yet they are of one load, unless a load was under way or had
\* been cut short while the request ran.
AnswerIsOfOneLoad ==
    \A r \in Requests :
        request[r].answer = "warehouse" /\ request[r].kind = "valuation" /\ request[r].quiet =>
            \A figure \in Figures : request[r].read[figure].load = request[r].read["point"].load

\* A request that met no load and that the warehouse could have answered is not
\* refused, whatever became of the cache files: a load that failed on the
\* DuckDB lock, a missing dividend or a newer cache file without points is no
\* reason to say that the evidence is missing.
NothingIsMissing ==
    \A r \in Requests :
        request[r].answer = "required" /\ request[r].quiet /\ views
        /\ OneLoad /\ request[r].began = loader.load =>
            LET row == points.rows[request[r].ticker]
            IN  IF request[r].kind = "valuation" THEN row["point"] # "passed"
                ELSE facts.rows[request[r].ticker]["eps"] # "passed"

\* What is served is the evidence there is, no less and no more, and of one load.
ServedIsTheEvidence == ServedIsEligible /\ AnswerIsOfOneLoad /\ NothingIsMissing
===============================================================================
