------------------------------ MODULE ApiSources ------------------------------
(***************************************************************************)
(* services/api/main.py decides, at every request, which store answers for *)
(* a company: Postgres, the local KR warehouse, the KR cache files, the    *)
(* consensus CSV, the fixtures of the demonstration, or none of them.      *)
(*                                                                         *)
(* A request is a sequence of reads, each of its own connection: between   *)
(* two of them the worker may commit a load.  An answer is kept as what    *)
(* the reader of the panel is told (status, data mode) and what the        *)
(* figures really come from.  One company and one environment at a time.   *)
(***************************************************************************)
EXTENDS Integers, Sequences

CONSTANTS
    Years,          \* fiscal years
    Companies,      \* [sample, priority: BOOLEAN]: in SAMPLE_SECURITY_META, in the KR list
    Environments,   \* [postgres, production, disable, required: BOOLEAN, allow: Settings]
    InitialStores,  \* what may be loaded when the API starts
    Loads,          \* [tables, years]: what a pipeline commits at once
    Metrics,        \* the metrics asked for
    MaxLoads        \* bound: loads in a behaviour

Settings == {"unset", "true", "false"}

\* The tables a reader asks for years, and the local files.
Postgres == {"adjusted", "metrics", "prices", "facts", "estimates"}
Local    == {"warehouseFacts", "warehousePoints", "cachePoints", "cacheGaps"}
Tables   == Postgres \cup Local \cup {"csv"}

ASSUME ApiAssumption ==
    /\ InitialStores \subseteq [Tables -> SUBSET Years]
    /\ \A l \in Loads : l.tables \subseteq Tables /\ l.years \subseteq Years
    /\ MaxLoads \in Nat

VARIABLES
    company, env,   \* constant in a behaviour
    store,          \* table -> the years it has of the company
    loads,          \* how many loads were committed
    request         \* panel, metric, what was read, the report of an export, what was told

apiVars == <<company, env, store, loads, request>>

-----------------------------------------------------------------------------
\* fixture_fallback_allowed.
FixturesAllowed ==
    /\ ~env.disable
    /\ env.allow = "true" \/ (env.allow = "unset" /\ ~env.production)

\* _kr_priority_requires_source_backed.
KrRequired == company.priority /\ (env.required \/ env.production)

\* The years whose metric the valuation can use: a GAAP metric is looked up in
\* metric_values only if no adjusted row has one.
MetricYears(s, metric) ==
    CASE metric = "adjusted_operating" -> s.adjusted
      [] metric = "gaap_diluted_eps"   -> IF s.adjusted # {} THEN s.adjusted ELSE s.metrics
      [] OTHER                         -> s.metrics

\* Every Postgres reader first needs DATA_BACKEND=postgres and the row of the security,
\* which every load writes first; {} is the None of a reader.
Db(years) == IF env.postgres THEN years ELSE {}
Kr(years) == IF company.priority THEN years ELSE {}

\* company_snapshot_from_postgres and the screener: a price and an adjusted row.
SnapshotRows(s) == IF s.prices = {} THEN {} ELSE Db(s.adjusted)

\* financials_from_postgres: a row of each year that has either metric.
FinancialRows(s) == Db(s.adjusted \cup s.metrics)

\* valuation_points_from_postgres: a year has a point if it has the metric and a price.
PointRows(s, metric) == Db(MetricYears(s, metric) \cap s.prices)

\* Mutant: the cache is looked at only if the warehouse has nothing at all.
CacheRowsOfEmptyWarehouse(s) == IF s.warehouseFacts = {} THEN Kr(s.cachePoints) ELSE {}

\* valuation_points_from_kr_cache.
CacheRows(s) == Kr(s.cachePoints)

\* The other readers: the operator is named for what the reader returns.
EvidenceRows(s)    == Db(s.estimates)
FactRows(s)        == Db(s.facts)
PriceRows(s)       == Db(s.prices)
WhFactRows(s)      == s.warehouseFacts
WhFinancialRows(s) == Kr(s.warehouseFacts)
WhPointRows(s)     == Kr(s.warehousePoints)
GapRows(s)         == Kr(s.cacheGaps)
CsvRows(s)         == s.csv

Found(s, metric) ==
    [adjusted |-> Db(s.adjusted), facts |-> FactRows(s), evidence |-> EvidenceRows(s),
     financials |-> FinancialRows(s), prices |-> PriceRows(s), snapshot |-> SnapshotRows(s),
     points |-> PointRows(s, metric),
     whFacts |-> WhFactRows(s), whFinancials |-> WhFinancialRows(s),
     whPoints |-> WhPointRows(s), cachePoints |-> CacheRows(s),
     cacheGaps |-> GapRows(s), csv |-> CsvRows(s)]

Readers == {"adjusted", "facts", "evidence", "financials", "prices", "snapshot", "points",
            "whFacts", "whFinancials", "whPoints", "cachePoints", "cacheGaps", "csv"}

-----------------------------------------------------------------------------
\* Answers: what is told (status, mode), what the figures come from, which groups of
\* figures are shown, and for a valuation the years of its points and of its prices.
Refused(status) ==
    [status |-> status, mode |-> "none", from |-> {}, rows |-> {}, years |-> {}, priced |-> {}]
NoAnswer == Refused(0)
Sourced(from, rows) ==
    [status |-> 200, mode |-> "source_backed", from |-> from, rows |-> rows,
     years |-> {}, priced |-> {}]

\* _kr_priority_source_required_payload: an answer without a financial number.
SourceRequired == [Sourced({}, {}) EXCEPT !.mode = "source_backed_required"]

Fixtures(rows) ==
    [Sourced(IF rows = {} THEN {} ELSE {"fixture"}, rows) EXCEPT !.mode = "fixture_non_production"]

\* _require_fixture_fallback, and with a company the 404 that comes before it.
IfAllowed(rows) == IF FixturesAllowed THEN Fixtures(rows) ELSE Refused(503)
\* Mutant: a sample company is served without _require_fixture_fallback.
OfSampleUnguarded(rows) == IF company.sample THEN Fixtures(rows) ELSE Refused(404)

OfSample(rows)  == IF company.sample THEN IfAllowed(rows) ELSE Refused(404)

\* Mutant: the warehouse's year-end prices are shown under the points of Postgres.
PricedAsLocal(seen) ==
    IF seen.whPoints # {} THEN seen.whPoints
    ELSE IF seen.points # {} THEN seen.prices ELSE seen.cachePoints

\* The price points come from the store that gave the points.
Priced(seen) ==
    IF seen.points # {} THEN seen.prices
    ELSE IF seen.whPoints # {} THEN seen.whPoints ELSE seen.cachePoints

\* valuation_map: Postgres, warehouse, cache, gate, fixture, in this order.
Valuation(seen) ==
    LET points  == IF seen.points # {} THEN seen.points
                   ELSE IF seen.whPoints # {} THEN seen.whPoints ELSE seen.cachePoints
        backend == IF seen.points # {} THEN "postgres"
                   ELSE IF seen.whPoints # {} THEN "warehouse" ELSE "cache"
        shown   == [Sourced({backend}, {"valuation_map", "price_points"})
                        EXCEPT !.years = points, !.priced = Priced(seen)]
    IN  IF points # {}
        THEN IF backend = "cache" THEN [shown EXCEPT !.mode = "source_backed_cache"] ELSE shown
        ELSE IF KrRequired THEN SourceRequired
        ELSE IF ~FixturesAllowed THEN Refused(503)
        ELSE OfSample({"valuation_map", "price_points"})

SourceModes == {"source_backed", "source_backed_cache", "source_backed_required"}

\* _source_backed_valuation_payload: None unless the mode is one of a source.
SourceValuation(seen) ==
    LET v == Valuation(seen) IN IF v.mode \in SourceModes THEN v ELSE NoAnswer

-----------------------------------------------------------------------------
\* The panels of a company, each by the readers it calls, in the order of the calls.
ValuationReads == <<"points", "whPoints", "cachePoints", "cacheGaps", "prices">>
Reads ==
    [snapshot          |-> <<"snapshot">>,
     financials        |-> <<"financials", "whFinancials">>,
     fun_graphs        |-> <<"financials">>,
     fiscal_fitness    |-> <<"financials">>,
     health_check      |-> <<"financials", "evidence">>,
     use_of_cash       |-> <<"financials">>,
     forecast_snapshot |-> <<"evidence", "csv">>,
     analyst_scorecard |-> <<"evidence">>,
     screener          |-> <<"snapshot">>,
     valuation_map     |-> ValuationReads,
     performance       |-> ValuationReads,
     research_report   |-> <<"financials", "evidence">> \o ValuationReads \o <<"snapshot">>,
     data_audit        |-> <<"adjusted", "facts", "whFacts">> \o ValuationReads
                            \o <<"evidence", "csv", "snapshot", "financials", "whFinancials">>,
     adjusted          |-> <<"adjusted">>,
     waterfall         |-> <<"adjusted">>]

\* The pages that are of no company, with what the tables hold of none.
Lists   == {"search", "portfolio", "watchlist"}
Imports == {"portfolio_import", "watchlist_add", "import_preview"}
Series  == {"macro", "industry", "research_metadata"}

\* The two exports: the bundle is a report and then an audit, the CSV is an audit.
Panels == DOMAIN Reads \cup Lists \cup Imports \cup Series \cup {"export", "audit_csv"}

\* The figures the audit makes from the financials of Postgres or, without, the warehouse.
FromFinancials == {"financials", "fun_graphs", "fiscal_fitness", "health_check",
                   "research_report"}
If(found, rows) == IF found THEN rows ELSE {}

\* Mutant: the audit forgets that the financials may be the warehouse's.
FinancialAuditRowsOfPostgres(seen) ==
    If(seen.financials # {}, FromFinancials \cup {"use_of_cash"})

FinancialAuditRows(seen) ==
    If(seen.financials # {} \/ seen.whFinancials # {}, FromFinancials)
        \cup If(seen.financials # {}, {"use_of_cash"})

ValuationAuditRows(seen) ==
    LET v == SourceValuation(seen)
    IN  v.rows \cup If(v.years # {}, {"performance"})
        \cup If(v.mode \in {"source_backed_cache", "source_backed_required"}
                    /\ seen.cacheGaps # {}, {"data_quality"})

EvidenceAuditRows(seen) ==
    If(seen.evidence # {} \/ seen.csv # {}, {"forecast_snapshot", "analyst_scorecard"})

\* The groups of rows of _source_backed_data_audit, each with what it is made from.
AuditRows(seen) ==
    If(seen.adjusted # {}, {"adjusted_earnings"})
        \cup If(seen.facts # {}, {"financial_facts"})
        \cup If(seen.whFacts # {}, {"kr_warehouse"})
        \cup ValuationAuditRows(seen)
        \cup EvidenceAuditRows(seen)
        \cup If(seen.snapshot # {}, {"snapshot", "screener"})
        \cup FinancialAuditRows(seen)

AuditSources(seen) ==
    SourceValuation(seen).from
        \cup (IF \E r \in {"adjusted", "facts", "evidence", "financials"} : seen[r] # {}
              THEN {"postgres"} ELSE {})
        \cup (IF seen.whFacts # {} THEN {"warehouse"} ELSE {})
        \cup (IF seen.evidence = {} /\ seen.csv # {} THEN {"csv"} ELSE {})

AllRows == {"adjusted_earnings", "valuation_map", "price_points", "performance", "snapshot",
            "screener", "forecast_snapshot", "analyst_scorecard", "financials", "fun_graphs",
            "fiscal_fitness", "health_check", "research_report", "use_of_cash", "portfolio"}

\* The answer of each panel to what it has read.  A fixture answer may hold source figures
\* too: some paths resolve the valuation again; it is labelled fixture all the same.
OfPostgres(rows) == Sourced({"postgres"}, rows)

SnapshotAnswer(seen) ==
    IF seen.snapshot # {} THEN OfPostgres({"snapshot"})
    ELSE IF KrRequired THEN SourceRequired ELSE OfSample({"snapshot"})

FinancialsAnswer(seen) ==
    IF seen.financials # {} THEN OfPostgres({"financials"})
    ELSE IF seen.whFinancials # {} THEN Sourced({"warehouse"}, {"financials"})
    ELSE IF KrRequired THEN SourceRequired ELSE OfSample({"financials"})

\* The panels derived from a reader of Postgres: without its rows, the fixtures.
FunGraphsAnswer(seen) ==
    IF seen.financials # {} THEN OfPostgres({"fun_graphs"}) ELSE OfSample({"fun_graphs"})
FitnessAnswer(seen) ==
    IF seen.financials # {} THEN OfPostgres({"fiscal_fitness"}) ELSE OfSample({"fiscal_fitness"})
HealthAnswer(seen) ==
    IF seen.financials # {} THEN OfPostgres({"health_check"}) ELSE OfSample({"health_check"})
CashAnswer(seen) ==
    IF seen.financials # {} THEN OfPostgres({"use_of_cash"}) ELSE OfSample({"use_of_cash"})
ScorecardAnswer(seen) ==
    IF seen.evidence # {} THEN OfPostgres({"analyst_scorecard"})
    ELSE OfSample({"analyst_scorecard"})

ForecastAnswer(seen) ==
    IF seen.evidence # {} THEN OfPostgres({"forecast_snapshot"})
    ELSE IF seen.csv # {} THEN Sourced({"csv"}, {"forecast_snapshot"})
    ELSE OfSample({"forecast_snapshot"})

PerformanceAnswer(seen) ==
    LET v == SourceValuation(seen)
    IN  IF v = NoAnswer THEN OfSample({"performance"})
        ELSE Sourced(v.from, If(v.years # {}, {"performance"}))

ReportAnswer(seen) ==
    IF seen.financials # {}
    THEN Sourced({"postgres"} \cup SourceValuation(seen).from, {"research_report"})
    ELSE OfSample({"research_report"})

AuditAnswer(seen) ==
    IF AuditRows(seen) # {} THEN Sourced(AuditSources(seen), AuditRows(seen))
    ELSE OfSample(AllRows)

ScreenerAnswer(seen) ==
    IF seen.snapshot # {} THEN OfPostgres({"screener"}) ELSE IfAllowed({"screener"})

\* The router of backend/normalize/api.py is mounted beside: Postgres, then the fixtures.
AdjustedAnswer(seen) ==
    IF seen.adjusted # {} THEN OfPostgres({"adjusted_earnings"})
    ELSE IF company.sample THEN Fixtures({"adjusted_earnings"}) ELSE Fixtures({})
WaterfallAnswer(seen) ==
    IF seen.adjusted # {} THEN OfPostgres({"adjusted_earnings"})
    ELSE IF company.sample THEN Fixtures({"adjusted_earnings"}) ELSE Refused(404)

\* What has no fixture: without a database, the empty answer.
OrEmpty(rows)   == IF env.postgres THEN OfPostgres(rows) ELSE SourceRequired
MacroAnswer     == OrEmpty({"macro"})
IndustryAnswer  == OrEmpty({"industry"})
MetadataAnswer  == OrEmpty({"research_metadata"})

\* The pages of the owner; persisting an import or an item asks for no permission.
OrFixture(rows) == IF env.postgres THEN OfPostgres(rows) ELSE IfAllowed(rows)
SearchAnswer    == OrFixture({"search"})
PortfolioAnswer == OrFixture({"portfolio"})
WatchlistAnswer == OrFixture({"watchlist"})

\* The holdings of a CSV that is not persisted, at the prices of the fixtures.
PreviewAnswer         == [Fixtures({"portfolio"}) EXCEPT !.mode = "user_csv"]
PortfolioImportAnswer == IF env.postgres THEN OfPostgres({"portfolio"}) ELSE PreviewAnswer
WatchlistAddAnswer    == IF env.postgres THEN OfPostgres({"watchlist"})
                         ELSE Fixtures({"watchlist"})

Answer(panel, seen) ==
    CASE panel = "snapshot"          -> SnapshotAnswer(seen)
      [] panel = "financials"        -> FinancialsAnswer(seen)
      [] panel = "fun_graphs"        -> FunGraphsAnswer(seen)
      [] panel = "fiscal_fitness"    -> FitnessAnswer(seen)
      [] panel = "health_check"      -> HealthAnswer(seen)
      [] panel = "use_of_cash"       -> CashAnswer(seen)
      [] panel = "analyst_scorecard" -> ScorecardAnswer(seen)
      [] panel = "forecast_snapshot" -> ForecastAnswer(seen)
      [] panel = "screener"          -> ScreenerAnswer(seen)
      [] panel = "valuation_map"     -> Valuation(seen)
      [] panel = "performance"       -> PerformanceAnswer(seen)
      [] panel = "research_report"   -> ReportAnswer(seen)
      [] panel = "data_audit"        -> AuditAnswer(seen)
      [] panel = "adjusted"          -> AdjustedAnswer(seen)
      [] panel = "waterfall"         -> WaterfallAnswer(seen)
      [] panel = "search"            -> SearchAnswer
      [] panel = "portfolio"         -> PortfolioAnswer
      [] panel = "watchlist"         -> WatchlistAnswer
      [] panel = "portfolio_import"  -> PortfolioImportAnswer
      [] panel = "watchlist_add"     -> WatchlistAddAnswer
      [] panel = "import_preview"    -> PreviewAnswer
      [] panel = "macro"             -> MacroAnswer
      [] panel = "industry"          -> IndustryAnswer
      [] panel = "research_metadata" -> MetadataAnswer

\* The exports put the data mode in a header: the report's, and whether there is a database.
ExportAnswer(report, audit) ==
    IF audit.status # 200 THEN audit
    ELSE [report EXCEPT !.from = @ \cup audit.from, !.rows = @ \cup audit.rows]
CsvAnswer(audit) ==
    IF audit.status # 200 THEN audit
    ELSE [audit EXCEPT !.mode = IF env.postgres THEN "source_backed" ELSE "fixture_non_production"]

-----------------------------------------------------------------------------
Default == "adjusted_operating"

NoRequest == [panel |-> "none", metric |-> "none", seen |-> <<>>,
              report |-> NoAnswer, told |-> NoAnswer]

ApiInit ==
    /\ company \in Companies
    /\ env \in Environments
    /\ store \in InitialStores
    /\ company.priority \/ \A t \in Local : store[t] = {}
    /\ loads = 0
    /\ request = NoRequest

\* A pipeline of the worker commits; a local file is replaced.
Load ==
    /\ loads < MaxLoads
    /\ \E l \in Loads :
        /\ company.priority \/ l.tables \cap Local = {}
        /\ store' = [t \in Tables |-> IF t \in l.tables THEN store[t] \cup l.years ELSE store[t]]
        /\ store' # store
    /\ loads' = loads + 1
    /\ UNCHANGED <<company, env, request>>

\* The panels with a metric parameter; the others resolve the default one.
TakesMetric == {"valuation_map", "research_report", "data_audit", "export", "audit_csv"}

\* A request changes no store: one in a behaviour, at any moment of it.
Ask ==
    /\ request = NoRequest
    /\ \E p \in Panels : \E m \in IF p \in TakesMetric THEN Metrics ELSE {Default} :
          request' = [NoRequest EXCEPT !.panel = p, !.metric = m]
    /\ UNCHANGED <<company, env, store, loads>>

\* The call the handler is in: an export is a report, then an audit.
Call ==
    CASE request.panel = "export" ->
            IF request.report = NoAnswer THEN "research_report" ELSE "data_audit"
      [] request.panel = "audit_csv" -> "data_audit"
      [] OTHER -> request.panel

InHandler == request.panel # "none" /\ request.told = NoAnswer
ToRead    == IF Call \in DOMAIN Reads THEN Reads[Call] ELSE <<>>
Unread    == {i \in DOMAIN ToRead : ToRead[i] \notin DOMAIN request.seen}

\* request.seen with what reader r finds now.
SeenWith(r) ==
    [x \in DOMAIN request.seen \cup {r} |->
        IF x = r THEN Found(store, request.metric)[r] ELSE request.seen[x]]

ReadNext ==
    /\ InHandler
    /\ \E i \in Unread :
        /\ \A j \in Unread : i <= j
        /\ request' = [request EXCEPT !.seen = SeenWith(ToRead[i])]
    /\ UNCHANGED <<company, env, store, loads>>

\* The first half of _company_research_export_bundle; an error of it ends the request.
ReportOfExport ==
    /\ InHandler
    /\ Unread = {}
    /\ request.panel = "export" /\ request.report = NoAnswer
    /\ LET a == Answer("research_report", request.seen)
       IN  request' = IF a.status = 200 THEN [request EXCEPT !.report = a, !.seen = <<>>]
                      ELSE [request EXCEPT !.told = a]
    /\ UNCHANGED <<company, env, store, loads>>

Reply ==
    /\ InHandler
    /\ Unread = {}
    /\ request.panel # "export" \/ request.report # NoAnswer
    /\ LET a == Answer(Call, request.seen)
       IN  request' = [request EXCEPT !.told =
               CASE request.panel = "export"    -> ExportAnswer(request.report, a)
                 [] request.panel = "audit_csv" -> CsvAnswer(a)
                 [] OTHER                       -> a]
    /\ UNCHANGED <<company, env, store, loads>>

ApiNext == Load \/ Ask \/ ReadNext \/ ReportOfExport \/ Reply

ApiSpec == ApiInit /\ [][ApiNext]_apiVars

-----------------------------------------------------------------------------
ApiTypeOK ==
    /\ company \in Companies /\ env \in Environments
    /\ store \in [Tables -> SUBSET Years]
    /\ loads \in 0..MaxLoads
    /\ request.panel \in Panels \cup {"none"}
    /\ DOMAIN request.seen \subseteq Readers
    /\ \A r \in DOMAIN request.seen : request.seen[r] \subseteq Years
    /\ request.told.status \in {0, 200, 404, 503}

Told == request.told
FromSources(a) == a.mode \in SourceModes \ {"source_backed_required"} /\ a.rows # {}

\* The pages that never ask whether fixtures are allowed.
Ungated == Imports \cup {"adjusted", "waterfall"}

\* Where the fallback is off no gated page shows a figure of the fixtures, and none that is
\* labelled as a source's does anywhere, however the handlers chain and whatever is loaded
\* between two reads: an export is labelled by its report, and its audit is resolved again
\* (database.py:15, main.py:577, main.py:1187).
FixturesStayApart ==
    "fixture" \in Told.from =>
        /\ FixturesAllowed \/ request.panel \in Ungated
        /\ Told.mode \in SourceModes => request.panel = "audit_csv"

\* Under every point of a valuation there is a price point of the same store, although
\* the prices are read by a later query (main.py:1625).
PricesCoverThePoints ==
    Told.mode \in SourceModes => Told.years \subseteq Told.priced

\* What the other panels show of a source can be looked up in the audit of the same
\* moment: _source_backed_data_audit resolves every store by itself (main.py:2856).
AuditCoversPanels ==
    LET now == Found(store, request.metric)
    IN  /\ request.panel = "data_audit" /\ Told.status = 200
        /\ \A r \in DOMAIN request.seen : request.seen[r] = now[r]
        => \A p \in DOMAIN Reads :
            LET a == Answer(p, IF p \in TakesMetric THEN now ELSE Found(store, Default))
            IN  FromSources(a) => a.rows \subseteq Told.rows

\* A load never takes a source-backed panel away: the store that answers may change,
\* what is shown does not shrink to nothing, to a fixture or to an error.
LoadsNeverBlind ==
    [][store' # store =>
        \A p \in DOMAIN Reads \ {"data_audit"} :
            LET a == Answer(p, Found(store, Default))
                b == Answer(p, Found(store', Default))
            IN  FromSources(a) => FromSources(b) /\ a.rows \subseteq b.rows]_apiVars

\* README.md:20, of every page of the API.
FixturesAreBlocked == "fixture" \in Told.from => FixturesAllowed

===============================================================================
