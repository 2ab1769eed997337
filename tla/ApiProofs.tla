-------------------------------- MODULE ApiProofs --------------------------------
(***************************************************************************)
(* The sources the API answers from and what it keeps between requests.    *)
(*                                                                         *)
(* Of the sources, for any years, companies, stores, loads and             *)
(* environments: fixtures stay apart, the points of a valuation have their *)
(* prices, the audit covers the panels, and no load blinds one.  A request *)
(* reads store by store while loads are committed.  What makes its answer  *)
(* consistent all the same is that a store only grows: what a request read *)
(* earlier is still there (Reading), so that the audit of an export finds  *)
(* the financials its report was made from (Reported).                     *)
(*                                                                         *)
(* Of the rate limiter, for every configuration: WindowBound speaks of the *)
(* whole history of accepted requests, of which the bucket keeps only a    *)
(* suffix.  It is inductive once BucketIsSuffix is added: the bucket is    *)
(* the newest part of the history, holds no more than Requests times, and  *)
(* what was popped is a window old.                                        *)
(*                                                                         *)
(* Of charts, for any number of threads, payloads, names and restarts: no  *)
(* chart file is left torn by threads alone, a run that was answered stays *)
(* loadable, the id of a layout stays its name's.  ChartsAreWhole is not   *)
(* inductive: that a chart is served under its data rests on what the      *)
(* files hold (ChartsShowTheirKey), and that a thread is the writer of a   *)
(* torn file on what it is writing (ThreadsHold).                          *)
(***************************************************************************)
EXTENDS MCApi, TLAPS

-----------------------------------------------------------------------------
(* The answers.                                                            *)

\* The parts of the audit and of the research report never take a fixture for a
\* source: the valuation is a source's or none.
LEMMA ValuationOfSource ==
    ASSUME NEW seen
    PROVE  /\ "fixture" \notin SourceValuation(seen).from
           /\ SourceValuation(seen) = NoAnswer \/ SourceValuation(seen) = Valuation(seen)
  BY DEF SourceValuation, Valuation, Sourced, SourceRequired, Fixtures, OfSample, IfAllowed, Refused,
         NoAnswer, SourceModes

\* A fixture is labelled as one, and shown only where fixtures are allowed.
Labelled(a) == "fixture" \in a.from => a.mode \notin SourceModes
Gated(a)    == "fixture" \in a.from => FixturesAllowed

LEMMA SampleAnswers ==
    ASSUME NEW rows
    PROVE  /\ Labelled(OfSample(rows)) /\ Gated(OfSample(rows))
           /\ Labelled(IfAllowed(rows)) /\ Gated(IfAllowed(rows))
           /\ Labelled(Fixtures(rows))
           /\ OfSample(rows).mode \notin SourceModes /\ IfAllowed(rows).mode \notin SourceModes
           /\ Fixtures(rows).mode \notin SourceModes
           /\ OfSample(rows).years = {} /\ IfAllowed(rows).years = {} /\ Fixtures(rows).years = {}
           /\ OfSample(rows).status \in {200, 404, 503}
  BY DEF OfSample, IfAllowed, Fixtures, Refused, Sourced, Labelled, Gated, SourceModes

LEMMA SourcedAnswers ==
    /\ \A rows : /\ Labelled(OfPostgres(rows)) /\ Gated(OfPostgres(rows))
                 /\ OfPostgres(rows).years = {}
    /\ \A from, rows : /\ "fixture" \notin from => /\ Labelled(Sourced(from, rows))
                                                   /\ Gated(Sourced(from, rows))
                       /\ Sourced(from, rows).years = {}
    /\ Labelled(SourceRequired) /\ Gated(SourceRequired) /\ SourceRequired.years = {}
    /\ \A status : /\ Labelled(Refused(status)) /\ Gated(Refused(status))
                   /\ Refused(status).years = {} /\ Refused(status).mode \notin SourceModes
  BY DEF OfPostgres, Sourced, SourceRequired, Refused, Labelled, Gated, SourceModes

\* Of every panel but the valuation map: labelled, gated, and without points.
Plain(a) == Labelled(a) /\ Gated(a) /\ a.years = {}

LEMMA CompanyAnswers ==
    ASSUME NEW seen
    PROVE  /\ Plain(SnapshotAnswer(seen)) /\ Plain(FinancialsAnswer(seen))
           /\ Plain(FunGraphsAnswer(seen)) /\ Plain(FitnessAnswer(seen))
           /\ Plain(HealthAnswer(seen)) /\ Plain(CashAnswer(seen))
           /\ Plain(ScorecardAnswer(seen)) /\ Plain(ForecastAnswer(seen))
           /\ Plain(ScreenerAnswer(seen)) /\ Plain(PerformanceAnswer(seen))
           /\ Plain(ReportAnswer(seen)) /\ Plain(AuditAnswer(seen))
  <1> USE SampleAnswers, SourcedAnswers DEF Plain
  <1>1. Plain(SnapshotAnswer(seen)) /\ Plain(FinancialsAnswer(seen))
    BY DEF SnapshotAnswer, FinancialsAnswer
  <1>2. /\ Plain(FunGraphsAnswer(seen)) /\ Plain(FitnessAnswer(seen))
        /\ Plain(HealthAnswer(seen)) /\ Plain(CashAnswer(seen)) /\ Plain(ScorecardAnswer(seen))
    BY DEF FunGraphsAnswer, FitnessAnswer, HealthAnswer, CashAnswer, ScorecardAnswer
  <1>3. Plain(ForecastAnswer(seen)) /\ Plain(ScreenerAnswer(seen))
    BY DEF ForecastAnswer, ScreenerAnswer
  <1>4. Plain(PerformanceAnswer(seen))
    BY ValuationOfSource DEF PerformanceAnswer
  <1>5. Plain(ReportAnswer(seen))
    BY ValuationOfSource DEF ReportAnswer
  <1>6. Plain(AuditAnswer(seen))
    <2>1. "fixture" \notin AuditSources(seen)
      BY ValuationOfSource DEF AuditSources
    <2> QED
      BY <2>1 DEF AuditAnswer
  <1> QED
    BY <1>1, <1>2, <1>3, <1>4, <1>5, <1>6

LEMMA MapAnswers ==
    ASSUME NEW seen PROVE Labelled(Valuation(seen)) /\ Gated(Valuation(seen))
  BY DEF Valuation, Sourced, SourceRequired, Fixtures, OfSample, IfAllowed, Refused, SourceModes,
         Labelled, Gated

\* The pages of no company; those of the owner that persist ask for no permission.
LEMMA PageAnswers ==
    ASSUME NEW seen
    PROVE  /\ Plain(SearchAnswer) /\ Plain(PortfolioAnswer) /\ Plain(WatchlistAnswer)
           /\ Plain(MacroAnswer) /\ Plain(IndustryAnswer) /\ Plain(MetadataAnswer)
           /\ \A a \in {PreviewAnswer, PortfolioImportAnswer, WatchlistAddAnswer,
                        AdjustedAnswer(seen), WaterfallAnswer(seen)} :
                    Labelled(a) /\ a.years = {}
  <1> USE SampleAnswers, SourcedAnswers DEF Plain
  <1>1. Plain(SearchAnswer) /\ Plain(PortfolioAnswer) /\ Plain(WatchlistAnswer)
    BY DEF SearchAnswer, PortfolioAnswer, WatchlistAnswer, OrFixture
  <1>2. Plain(MacroAnswer) /\ Plain(IndustryAnswer) /\ Plain(MetadataAnswer)
    BY DEF MacroAnswer, IndustryAnswer, MetadataAnswer, OrEmpty
  <1>3. Labelled(PreviewAnswer) /\ PreviewAnswer.years = {}
    BY DEF PreviewAnswer, Fixtures, Sourced, Labelled, SourceModes
  <1>4. /\ Labelled(PortfolioImportAnswer) /\ PortfolioImportAnswer.years = {}
        /\ Labelled(WatchlistAddAnswer) /\ WatchlistAddAnswer.years = {}
    BY <1>3 DEF PortfolioImportAnswer, WatchlistAddAnswer
  <1>5. /\ Labelled(AdjustedAnswer(seen)) /\ AdjustedAnswer(seen).years = {}
        /\ Labelled(WaterfallAnswer(seen)) /\ WaterfallAnswer(seen).years = {}
    BY DEF AdjustedAnswer, WaterfallAnswer
  <1> QED
    BY <1>1, <1>2, <1>3, <1>4, <1>5

Calls == Panels \ {"export", "audit_csv"}

LEMMA AnswersAreHonest ==
    ASSUME NEW p \in Calls, NEW seen
    PROVE  /\ Labelled(Answer(p, seen))
           /\ p \notin Ungated => Gated(Answer(p, seen))
           /\ p # "valuation_map" => Answer(p, seen).years = {}
  <1> DEFINE honest == /\ Labelled(Answer(p, seen))
                       /\ p \notin Ungated => Gated(Answer(p, seen))
                       /\ p # "valuation_map" => Answer(p, seen).years = {}
  <1>1. CASE p = "valuation_map"
    <2>1. Answer(p, seen) = Valuation(seen)
      BY <1>1 DEF Answer
    <2> QED
      BY <1>1, <2>1, MapAnswers
  <1>2. ASSUME Plain(Answer(p, seen)) PROVE honest
    BY <1>2 DEF Plain
  <1> HIDE DEF honest
  <1>3. CASE p \in {"snapshot", "financials", "fun_graphs", "fiscal_fitness", "health_check",
                    "use_of_cash"}
    <2>1. \/ Answer(p, seen) = SnapshotAnswer(seen) \/ Answer(p, seen) = FinancialsAnswer(seen)
          \/ Answer(p, seen) = FunGraphsAnswer(seen) \/ Answer(p, seen) = FitnessAnswer(seen)
          \/ Answer(p, seen) = HealthAnswer(seen) \/ Answer(p, seen) = CashAnswer(seen)
      BY <1>3 DEF Answer
    <2>2. Plain(Answer(p, seen))
      BY <2>1, CompanyAnswers
    <2> QED
      BY <1>2, <2>2 DEF honest
  <1>4. CASE p \in {"analyst_scorecard", "forecast_snapshot", "screener", "performance",
                    "research_report", "data_audit"}
    <2>1. \/ Answer(p, seen) = ScorecardAnswer(seen) \/ Answer(p, seen) = ForecastAnswer(seen)
          \/ Answer(p, seen) = ScreenerAnswer(seen) \/ Answer(p, seen) = PerformanceAnswer(seen)
          \/ Answer(p, seen) = ReportAnswer(seen) \/ Answer(p, seen) = AuditAnswer(seen)
      BY <1>4 DEF Answer
    <2>2. Plain(Answer(p, seen))
      BY <2>1, CompanyAnswers
    <2> QED
      BY <1>2, <2>2 DEF honest
  <1>5. CASE p \in Lists \cup Series
    <2>1. \/ Answer(p, seen) = SearchAnswer \/ Answer(p, seen) = PortfolioAnswer
          \/ Answer(p, seen) = WatchlistAnswer \/ Answer(p, seen) = MacroAnswer
          \/ Answer(p, seen) = IndustryAnswer \/ Answer(p, seen) = MetadataAnswer
      BY <1>5 DEF Answer, Lists, Series
    <2>2. Plain(Answer(p, seen))
      BY <2>1, PageAnswers
    <2> QED
      BY <1>2, <2>2 DEF honest
  <1>6. CASE p \in Ungated
    <2>1. \/ Answer(p, seen) = PreviewAnswer \/ Answer(p, seen) = PortfolioImportAnswer
          \/ Answer(p, seen) = WatchlistAddAnswer \/ Answer(p, seen) = AdjustedAnswer(seen)
          \/ Answer(p, seen) = WaterfallAnswer(seen)
      BY <1>6 DEF Answer, Ungated, Imports
    <2> QED
      BY <1>6, <2>1, PageAnswers DEF Ungated, Imports, honest
  <1> QED
    BY <1>1, <1>3, <1>4, <1>5, <1>6 DEF Calls, Panels, Reads, Ungated, Imports, Lists, Series, honest

\* The report of a source has been made from its financials; with them an audit
\* has rows, and so no fixture.
LEMMA ReportHasFinancials ==
    ASSUME NEW seen, ReportAnswer(seen).mode \in SourceModes PROVE seen.financials # {}
  BY SampleAnswers DEF ReportAnswer

LEMMA AuditOfFinancials ==
    ASSUME NEW seen, seen.financials # {} PROVE "fixture" \notin AuditAnswer(seen).from
  <1>1. "use_of_cash" \in AuditRows(seen)
    BY DEF AuditRows, FinancialAuditRows, If
  <1>2. "fixture" \notin AuditSources(seen)
    BY ValuationOfSource DEF AuditSources
  <1> QED
    BY <1>1, <1>2 DEF AuditAnswer, Sourced

-----------------------------------------------------------------------------
(* The stores.  What a pipeline commits is added to what is there.         *)

LEMMA StoresGrow ==
    ASSUME [ApiNext]_apiVars
    PROVE  /\ UNCHANGED <<company, env>>
           /\ store' = store \/ \A t \in Tables : store[t] \subseteq store'[t]
  BY DEF ApiNext, apiVars, Load, Ask, ReadNext, ReportOfExport, Reply

\* A row read of a store is in the store it grew to.
LEMMA RowsGrow ==
    ASSUME NEW s, NEW u, \A t \in Tables : s[t] \subseteq u[t]
    PROVE  /\ FinancialRows(s) \subseteq FinancialRows(u)
           /\ PriceRows(s) \subseteq PriceRows(u)
           /\ SnapshotRows(s) \subseteq SnapshotRows(u)
           /\ PointRows(s, Default) \subseteq PointRows(u, Default)
           /\ EvidenceRows(s) \subseteq EvidenceRows(u)
           /\ WhFinancialRows(s) \subseteq WhFinancialRows(u)
           /\ WhPointRows(s) \subseteq WhPointRows(u)
           /\ CacheRows(s) \subseteq CacheRows(u)
           /\ CsvRows(s) \subseteq CsvRows(u)
           /\ Db(s.adjusted) \subseteq Db(u.adjusted)
  <1>1. /\ s.adjusted \subseteq u.adjusted /\ s.metrics \subseteq u.metrics
        /\ s.prices \subseteq u.prices /\ s.estimates \subseteq u.estimates
        /\ s.warehouseFacts \subseteq u.warehouseFacts
        /\ s.warehousePoints \subseteq u.warehousePoints
        /\ s.cachePoints \subseteq u.cachePoints /\ s.csv \subseteq u.csv
    BY DEF Tables, Postgres, Local
  <1>2. /\ Db(s.adjusted) \subseteq Db(u.adjusted) /\ Db(s.estimates) \subseteq Db(u.estimates)
        /\ Db(s.prices) \subseteq Db(u.prices)
        /\ Db(s.adjusted \cup s.metrics) \subseteq Db(u.adjusted \cup u.metrics)
        /\ Db(s.adjusted \cap s.prices) \subseteq Db(u.adjusted \cap u.prices)
    BY <1>1 DEF Db
  <1>3. /\ MetricYears(s, Default) = s.adjusted /\ MetricYears(u, Default) = u.adjusted
    BY DEF MetricYears, Default
  <1> QED
    BY <1>1, <1>2, <1>3
    DEF FinancialRows, PriceRows, SnapshotRows, PointRows, EvidenceRows, WhFinancialRows,
        WhPointRows, CacheRows, CsvRows, Kr

-----------------------------------------------------------------------------
(* A load never takes a panel away.                                        *)

\* What the panels read before and after a load.
Grown(x, y) ==
    /\ x.snapshot \subseteq y.snapshot /\ x.financials \subseteq y.financials
    /\ x.whFinancials \subseteq y.whFinancials /\ x.evidence \subseteq y.evidence
    /\ x.csv \subseteq y.csv /\ x.adjusted \subseteq y.adjusted
    /\ x.points \subseteq y.points /\ x.whPoints \subseteq y.whPoints
    /\ x.cachePoints \subseteq y.cachePoints

LEMMA FoundGrows ==
    ASSUME NEW s, NEW u, \A t \in Tables : s[t] \subseteq u[t]
    PROVE  Grown(Found(s, Default), Found(u, Default))
  BY RowsGrow DEF Found, Grown

Stays(a, b) == FromSources(a) => FromSources(b) /\ a.rows \subseteq b.rows

LEMMA NoSourceStays ==
    ASSUME NEW rows, NEW b
    PROVE  /\ Stays(OfSample(rows), b) /\ Stays(IfAllowed(rows), b) /\ Stays(Fixtures(rows), b)
           /\ Stays(SourceRequired, b)
           /\ \A status : Stays(Refused(status), b)
  BY SampleAnswers, SourcedAnswers DEF Stays, FromSources, SourceRequired, Sourced

LEMMA SourceStays ==
    /\ \A rows : Stays(OfPostgres(rows), OfPostgres(rows))
    /\ \A from, to, rows : Stays(Sourced(from, rows), Sourced(to, rows))
    /\ \A from, rows : /\ Stays(Sourced(from, rows), OfPostgres(rows))
                       /\ Stays(OfPostgres(rows), Sourced(from, rows))
  BY DEF Stays, FromSources, OfPostgres, Sourced, SourceModes

LEMMA MapStays == ASSUME NEW x, NEW y, Grown(x, y) PROVE Stays(Valuation(x), Valuation(y))
  <1> DEFINE shown == {"valuation_map", "price_points"}
             has(z) == z.points # {} \/ z.whPoints # {} \/ z.cachePoints # {}
  <1>1. \A z : has(z) => /\ Valuation(z).mode \in SourceModes \ {"source_backed_required"}
                         /\ Valuation(z).rows = shown
    BY DEF Valuation, Sourced, SourceModes
  <1>2. \A z : ~has(z) => ~FromSources(Valuation(z))
    BY SampleAnswers, SourcedAnswers DEF Valuation, FromSources, SourceRequired
  <1>3. has(x) => has(y)
    BY DEF Grown
  <1> QED
    BY <1>1, <1>2, <1>3 DEF Stays, FromSources

\* The performance panel shows years of the points of the valuation.
LEMMA PerformanceStays ==
    ASSUME NEW x, NEW y, Grown(x, y) PROVE Stays(PerformanceAnswer(x), PerformanceAnswer(y))
  <1> DEFINE has(z) == z.points # {} \/ z.whPoints # {} \/ z.cachePoints # {}
             of(z) == SourceValuation(z)
  <1>1. \A z : has(z) => of(z) # NoAnswer /\ of(z).years # {}
    <2>1. \A z : has(z) => Valuation(z).mode \in SourceModes /\ Valuation(z).years # {}
      BY DEF Valuation, Sourced, SourceModes
    <2>2. NoAnswer.mode \notin SourceModes
      BY DEF NoAnswer, Refused, SourceModes
    <2> QED
      BY <2>1, <2>2 DEF SourceValuation
  <1>2. \A z : ~has(z) => of(z).years = {}
    BY SampleAnswers, SourcedAnswers DEF SourceValuation, Valuation, NoAnswer
  <1>3. \A z : has(z) => PerformanceAnswer(z) = Sourced(of(z).from, {"performance"})
    BY <1>1 DEF PerformanceAnswer, If
  <1>4. \A z : ~has(z) => ~FromSources(PerformanceAnswer(z))
    BY <1>2, SampleAnswers DEF PerformanceAnswer, If, FromSources, Sourced
  <1>5. has(x) => has(y)
    BY DEF Grown
  <1> QED
    BY <1>3, <1>4, <1>5, SourceStays DEF Stays

LEMMA CompanyPanelsStay ==
    ASSUME NEW x, NEW y, Grown(x, y)
    PROVE  /\ Stays(SnapshotAnswer(x), SnapshotAnswer(y))
           /\ Stays(FinancialsAnswer(x), FinancialsAnswer(y))
           /\ Stays(FunGraphsAnswer(x), FunGraphsAnswer(y))
           /\ Stays(FitnessAnswer(x), FitnessAnswer(y))
           /\ Stays(HealthAnswer(x), HealthAnswer(y)) /\ Stays(CashAnswer(x), CashAnswer(y))
           /\ Stays(ScorecardAnswer(x), ScorecardAnswer(y))
           /\ Stays(ForecastAnswer(x), ForecastAnswer(y))
           /\ Stays(ScreenerAnswer(x), ScreenerAnswer(y))
           /\ Stays(ReportAnswer(x), ReportAnswer(y))
           /\ Stays(AdjustedAnswer(x), AdjustedAnswer(y))
           /\ Stays(WaterfallAnswer(x), WaterfallAnswer(y))
  <1> USE NoSourceStays, SourceStays
  <1>1. /\ x.snapshot # {} => y.snapshot # {}
        /\ x.financials # {} => y.financials # {}
        /\ x.whFinancials # {} => y.whFinancials # {}
        /\ x.evidence # {} => y.evidence # {}
        /\ x.csv # {} => y.csv # {}
        /\ x.adjusted # {} => y.adjusted # {}
    BY DEF Grown
  <1>2. /\ Stays(SnapshotAnswer(x), SnapshotAnswer(y))
        /\ Stays(ScreenerAnswer(x), ScreenerAnswer(y))
    BY <1>1 DEF SnapshotAnswer, ScreenerAnswer
  <1>3. Stays(FinancialsAnswer(x), FinancialsAnswer(y))
    BY <1>1 DEF FinancialsAnswer
  <1>4. /\ Stays(FunGraphsAnswer(x), FunGraphsAnswer(y))
        /\ Stays(FitnessAnswer(x), FitnessAnswer(y))
        /\ Stays(HealthAnswer(x), HealthAnswer(y)) /\ Stays(CashAnswer(x), CashAnswer(y))
    BY <1>1 DEF FunGraphsAnswer, FitnessAnswer, HealthAnswer, CashAnswer
  <1>5. /\ Stays(ScorecardAnswer(x), ScorecardAnswer(y))
        /\ Stays(ForecastAnswer(x), ForecastAnswer(y))
    BY <1>1 DEF ScorecardAnswer, ForecastAnswer
  <1>6. Stays(ReportAnswer(x), ReportAnswer(y))
    BY <1>1 DEF ReportAnswer
  <1>7. /\ Stays(AdjustedAnswer(x), AdjustedAnswer(y))
        /\ Stays(WaterfallAnswer(x), WaterfallAnswer(y))
    BY <1>1 DEF AdjustedAnswer, WaterfallAnswer
  <1> QED
    BY <1>2, <1>3, <1>4, <1>5, <1>6, <1>7

LEMMA PanelsStay ==
    ASSUME NEW x, NEW y, Grown(x, y), NEW p \in DOMAIN Reads \ {"data_audit"}
    PROVE  Stays(Answer(p, x), Answer(p, y))
  <1>1. CASE p \in {"snapshot", "financials", "fun_graphs", "fiscal_fitness", "health_check"}
    BY <1>1, CompanyPanelsStay DEF Answer
  <1>2. CASE p \in {"use_of_cash", "analyst_scorecard", "forecast_snapshot", "screener"}
    BY <1>2, CompanyPanelsStay DEF Answer
  <1>3. CASE p \in {"research_report", "adjusted", "waterfall"}
    BY <1>3, CompanyPanelsStay DEF Answer
  <1>4. CASE p \in {"valuation_map", "performance"}
    BY <1>4, MapStays, PerformanceStays DEF Answer
  <1> QED
    BY <1>1, <1>2, <1>3, <1>4 DEF Reads

\* For any company, stores and loads: whatever a pipeline commits, no panel that
\* was served from a source turns to a fixture, to an error or to less.
THEOREM NoLoadBlinds == ApiSpec => LoadsNeverBlind
  <1>1. ASSUME [ApiNext]_apiVars, store' # store,
               NEW p \in DOMAIN Reads \ {"data_audit"}
        PROVE  Stays(Answer(p, Found(store, Default)), Answer(p, Found(store', Default)))
    <2>1. \A t \in Tables : store[t] \subseteq store'[t]
      BY <1>1, StoresGrow
    <2> QED
      BY <1>1, <2>1, FoundGrows, PanelsStay
  <1>2. [ApiNext]_apiVars =>
            [store' # store =>
                \A p \in DOMAIN Reads \ {"data_audit"} :
                    LET a == Answer(p, Found(store, Default))
                        b == Answer(p, Found(store', Default))
                    IN  FromSources(a) => FromSources(b) /\ a.rows \subseteq b.rows]_apiVars
    BY <1>1 DEF Stays
  <1> QED
    BY <1>2, PTL DEF ApiSpec, LoadsNeverBlind

-----------------------------------------------------------------------------
(* What is told, of a request that reads while loads are committed.        *)

\* A request is the record it is declared as.
RequestIsRecord ==
    request = [panel |-> request.panel, metric |-> request.metric, seen |-> request.seen,
               report |-> request.report, told |-> request.told]

\* What was read earlier is still in the store, and in what is read later of it.
Reading ==
    LET seen == request.seen
    IN  /\ "financials" \in DOMAIN seen => seen["financials"] \subseteq FinancialRows(store)
        /\ request.panel = "valuation_map" =>
            /\ "points" \in DOMAIN seen => seen["points"] \subseteq PriceRows(store)
            /\ "prices" \in DOMAIN seen =>
                    "points" \in DOMAIN seen /\ seen["points"] \subseteq seen["prices"]

\* An answer is the record it is declared as.
IsAnswer(a) == a = [status |-> a.status, mode |-> a.mode, from |-> a.from,
                    rows |-> a.rows, years |-> a.years, priced |-> a.priced]

\* An export has a report, and the financials of a source's are there for its audit.
Reported ==
    request.report # NoAnswer =>
        /\ request.panel = "export"
        /\ Plain(request.report) /\ IsAnswer(request.report)
        /\ request.report.mode \in SourceModes =>
            /\ FinancialRows(store) # {}
            /\ "financials" \in DOMAIN request.seen => request.seen["financials"] # {}

\* An audit tells of every reader.
Audited ==
    request.panel = "data_audit" /\ Told # NoAnswer =>
        Told = AuditAnswer(request.seen) /\ Readers \subseteq DOMAIN request.seen

ApiInv ==
    /\ RequestIsRecord
    /\ request.panel \in Panels \cup {"none"}
    /\ request.panel # "none" => request.metric \in Metrics \cup {Default}
    /\ Reading /\ Reported /\ Audited
    /\ FixturesStayApart /\ PricesCoverThePoints

LEMMA ApiInitSound == ApiInit => ApiInv
  <1> SUFFICES ASSUME ApiInit PROVE ApiInv
    OBVIOUS
  <1>1. /\ request = NoRequest /\ Told = NoAnswer /\ DOMAIN request.seen = {}
        /\ request.panel = "none" /\ request.report = NoAnswer /\ request.metric = "none"
    BY DEF ApiInit, NoRequest, Told
  <1>2. NoAnswer.from = {} /\ NoAnswer.years = {}
    BY DEF NoAnswer, Refused
  <1> QED
    BY <1>1, <1>2
    DEF ApiInv, RequestIsRecord, NoRequest, Reading, Reported, Audited, FixturesStayApart,
        PricesCoverThePoints

\* What the invariant says of a request that stays, while the store grows.
LEMMA RequestStays ==
    ASSUME ApiInv, UNCHANGED <<company, env, request>>,
           store' = store \/ \A t \in Tables : store[t] \subseteq store'[t]
    PROVE  ApiInv'
  <1> USE DEF ApiInv
  <1>1. /\ FinancialRows(store) \subseteq FinancialRows(store)'
        /\ PriceRows(store) \subseteq PriceRows(store)'
    <2>1. CASE store' = store
      BY <2>1 DEF FinancialRows, PriceRows, Db
    <2>2. CASE \A t \in Tables : store[t] \subseteq store'[t]
      <3>1. /\ FinancialRows(store) \subseteq FinancialRows(store')
            /\ PriceRows(store) \subseteq PriceRows(store')
        BY <2>2, RowsGrow
      <3> QED
        BY <3>1 DEF FinancialRows, PriceRows, Db
    <2> QED
      BY <2>1, <2>2
  <1>2. /\ RequestIsRecord' /\ request'.panel \in Panels \cup {"none"}
        /\ request'.panel # "none" => request'.metric \in Metrics \cup {Default}
    BY DEF RequestIsRecord
  <1>3. Reading'
    BY <1>1 DEF Reading
  <1>4. \A seen : AuditAnswer(seen) = AuditAnswer(seen)'
    BY DEF AuditAnswer, OfPostgres, OfSample, IfAllowed, Fixtures, Sourced, Refused,
           FixturesAllowed, SourceValuation, Valuation, NoAnswer, SourceRequired, Priced, KrRequired,
           AuditSources, AuditRows, ValuationAuditRows, EvidenceAuditRows, FinancialAuditRows, If
  <1>5. Reported'
    BY <1>1 DEF Reported, Plain, Gated, Labelled, FixturesAllowed, IsAnswer
  <1>6. Audited'
    BY <1>4 DEF Audited, Told
  <1>7. FixturesStayApart' /\ PricesCoverThePoints'
    BY DEF FixturesStayApart, PricesCoverThePoints, Told, FixturesAllowed
  <1> QED
    BY <1>2, <1>3, <1>5, <1>6, <1>7

LEMMA AskSound == ASSUME ApiInv, Ask PROVE ApiInv'
  <1>1. PICK p \in Panels, m \in Metrics \cup {Default} :
            request' = [NoRequest EXCEPT !.panel = p, !.metric = m]
    BY DEF Ask
  <1>2. request' = [panel |-> p, metric |-> m, seen |-> << >>, report |-> NoAnswer, told |-> NoAnswer]
    BY <1>1 DEF NoRequest
  <1>3. /\ Told' = NoAnswer /\ DOMAIN request'.seen = {} /\ request'.report = NoAnswer
        /\ request'.panel = p /\ request'.metric = m
    BY <1>2 DEF Told
  <1>4. NoAnswer.from = {} /\ NoAnswer.years = {}
    BY DEF NoAnswer, Refused
  <1>5. Reading' /\ Reported' /\ Audited'
    BY <1>3 DEF Reading, Reported, Audited
  <1>6. FixturesStayApart' /\ PricesCoverThePoints'
    BY <1>3, <1>4 DEF FixturesStayApart, PricesCoverThePoints
  <1> QED
    BY <1>2, <1>3, <1>5, <1>6 DEF ApiInv, RequestIsRecord

\* What a call has to read, when it has read it all.
LEMMA AllIsRead ==
    ASSUME Unread = {}, NEW p \in DOMAIN Reads, Call = p
    PROVE  \A i \in DOMAIN Reads[p] : Reads[p][i] \in DOMAIN request.seen
  BY DEF Unread, ToRead

LEMMA ReadersOfCalls ==
    /\ "financials" \in {Reads["research_report"][i] : i \in DOMAIN Reads["research_report"]}
    /\ \A r \in Readers : \E i \in DOMAIN Reads["data_audit"] : Reads["data_audit"][i] = r
    /\ Reads["valuation_map"] = <<"points", "whPoints", "cachePoints", "cacheGaps", "prices">>
    /\ "research_report" \in DOMAIN Reads /\ "data_audit" \in DOMAIN Reads
    /\ "valuation_map" \in DOMAIN Reads
  <1>1. "financials" \in {Reads["research_report"][i] : i \in DOMAIN Reads["research_report"]}
    BY DEF Reads, ValuationReads
  <1>2. \A r \in Readers : \E i \in DOMAIN Reads["data_audit"] : Reads["data_audit"][i] = r
    <2> DEFINE d == Reads["data_audit"]
    <2>1. /\ DOMAIN d = 1 .. 13
          /\ d[1] = "adjusted" /\ d[2] = "facts" /\ d[3] = "whFacts"
          /\ d[4] = "points" /\ d[5] = "whPoints" /\ d[6] = "cachePoints"
          /\ d[7] = "cacheGaps" /\ d[8] = "prices" /\ d[9] = "evidence"
          /\ d[10] = "csv" /\ d[11] = "snapshot" /\ d[12] = "financials"
          /\ d[13] = "whFinancials"
      BY DEF Reads, ValuationReads
    <2> HIDE DEF d
    <2>2. \A n \in 1 .. 13 : n \in DOMAIN d
      BY <2>1
    <2>3. \A r \in Readers : \E i \in DOMAIN d : d[i] = r
      BY <2>1, <2>2 DEF Readers
    <2> QED
      BY <2>3 DEF d
  <1> QED
    BY <1>1, <1>2 DEF Reads, ValuationReads

LEMMA ReadNextSound == ASSUME ApiInv, ReadNext PROVE ApiInv'
  <1> USE DEF ApiInv
  <1>1. PICK i \in Unread :
            /\ \A j \in Unread : i <= j
            /\ request' = [request EXCEPT !.seen = SeenWith(ToRead[i])]
    BY DEF ReadNext
  <1> DEFINE r == ToRead[i]
             seen == request.seen
  <1>2. /\ request' = [panel |-> request.panel, metric |-> request.metric, seen |-> SeenWith(r),
                       report |-> request.report, told |-> request.told]
    BY <1>1 DEF RequestIsRecord
  <1>3. /\ request'.seen = SeenWith(r) /\ request'.panel = request.panel
        /\ request'.metric = request.metric /\ request'.report = request.report
        /\ request'.told = request.told /\ Told' = Told
        /\ UNCHANGED <<company, env, store>>
    BY <1>2 DEF Told, ReadNext
  <1>4. Told = NoAnswer
    BY DEF ReadNext, InHandler, Told
  <1>5. /\ DOMAIN request'.seen = DOMAIN seen \cup {r} /\ r \notin DOMAIN seen
        /\ request'.seen[r] = Found(store, request.metric)[r]
        /\ \A x \in DOMAIN seen : request'.seen[x] = seen[x]
    BY <1>1, <1>3 DEF SeenWith, Unread
  <1>6. /\ Found(store, request.metric)["financials"] = FinancialRows(store)
        /\ Found(store, request.metric)["prices"] = PriceRows(store)
        /\ Found(store, request.metric)["points"] \subseteq PriceRows(store)
    BY DEF Found, PointRows, PriceRows, Db
  <1>7. Reading'
    <2>1. FinancialRows(store)' = FinancialRows(store) /\ PriceRows(store)' = PriceRows(store)
      BY <1>3 DEF FinancialRows, PriceRows, Db
    <2>2. "financials" \in DOMAIN request'.seen =>
                request'.seen["financials"] \subseteq FinancialRows(store)
      BY <1>5, <1>6 DEF Reading
    <2>3. ASSUME request.panel = "valuation_map"
          PROVE  /\ "points" \in DOMAIN request'.seen =>
                        request'.seen["points"] \subseteq PriceRows(store)
                 /\ "prices" \in DOMAIN request'.seen =>
                        /\ "points" \in DOMAIN request'.seen
                        /\ request'.seen["points"] \subseteq request'.seen["prices"]
      <3>1. ToRead = <<"points", "whPoints", "cachePoints", "cacheGaps", "prices">>
        BY <2>3, ReadersOfCalls DEF ToRead, Call
      <3>2. r # "points" => "points" \in DOMAIN seen
        <4>1. 1 \in DOMAIN ToRead /\ ToRead[1] = "points"
          BY <3>1
        <4>2. i \in 1 .. 5
          BY <1>1, <3>1 DEF Unread
        <4>3. 1 \in Unread => i = 1
          BY <1>1, <4>2
        <4> QED
          BY <4>1, <4>3 DEF Unread
      <3> QED
        BY <1>5, <1>6, <2>3, <3>2 DEF Reading
    <2> QED
      BY <1>3, <2>1, <2>2, <2>3 DEF Reading
  <1>8. Reported'
    BY <1>3, <1>5, <1>6
    DEF Reported, FinancialRows, Db, Plain, Gated, Labelled, FixturesAllowed, IsAnswer
  <1>9. Audited' /\ FixturesStayApart' /\ PricesCoverThePoints'
    BY <1>3, <1>4 DEF Audited, FixturesStayApart, PricesCoverThePoints, NoAnswer, Refused
  <1> QED
    BY <1>2, <1>3, <1>7, <1>8, <1>9 DEF RequestIsRecord

LEMMA AnswersAreRecords ==
    ASSUME NEW seen PROVE IsAnswer(ReportAnswer(seen)) /\ IsAnswer(AuditAnswer(seen))
  BY DEF IsAnswer, ReportAnswer, AuditAnswer, OfSample, IfAllowed, Fixtures, Sourced, Refused

LEMMA ReportOfExportSound == ASSUME ApiInv, ReportOfExport PROVE ApiInv'
  <1> USE DEF ApiInv
  <1> DEFINE a == ReportAnswer(request.seen)
  <1>1. /\ request.panel = "export" /\ request.report = NoAnswer /\ Told = NoAnswer
        /\ UNCHANGED <<company, env, store>>
    BY DEF ReportOfExport, InHandler, Told
  <1>2. Answer("research_report", request.seen) = a
    BY DEF Answer
  <1>3. Plain(a)
    BY CompanyAnswers
  <1>4. \/ request' = [request EXCEPT !.report = a, !.seen = << >>]
        \/ request' = [request EXCEPT !.told = a]
    BY <1>2 DEF ReportOfExport
  <1> HIDE DEF a
  <1>5. CASE request' = [request EXCEPT !.report = a, !.seen = << >>]
    <2>1. request' = [panel |-> "export", metric |-> request.metric, seen |-> << >>, report |-> a,
                      told |-> NoAnswer]
      BY <1>1, <1>5 DEF RequestIsRecord, Told
    <2>2. /\ request'.panel = "export" /\ request'.report = a /\ DOMAIN request'.seen = {}
          /\ Told' = NoAnswer /\ request'.metric = request.metric
      BY <2>1 DEF Told
    <2>3. a.mode \in SourceModes => FinancialRows(store) # {}
      <3>1. a.mode \in SourceModes => request.seen["financials"] # {}
        BY ReportHasFinancials DEF a
      <3>2. "financials" \in DOMAIN request.seen
        <4>1. Call = "research_report" /\ Unread = {}
          BY <1>1 DEF Call, ReportOfExport
        <4> QED
          BY <4>1, AllIsRead, ReadersOfCalls
      <3> QED
        BY <3>1, <3>2 DEF Reading
    <2>4. Reported'
      BY <1>1, <1>3, <2>2, <2>3, AnswersAreRecords
      DEF Reported, FinancialRows, Db, Plain, Gated, Labelled, FixturesAllowed, IsAnswer, a
    <2>5. Reading' /\ Audited' /\ FixturesStayApart' /\ PricesCoverThePoints'
      BY <1>1, <2>2 DEF Reading, Audited, FixturesStayApart, PricesCoverThePoints, NoAnswer, Refused
    <2> QED
      BY <1>1, <2>1, <2>2, <2>4, <2>5 DEF RequestIsRecord, Panels
  <1>6. CASE request' = [request EXCEPT !.told = a]
    <2>1. request' = [panel |-> "export", metric |-> request.metric, seen |-> request.seen,
                      report |-> NoAnswer, told |-> a]
      BY <1>1, <1>6 DEF RequestIsRecord
    <2>2. /\ request'.panel = "export" /\ request'.report = NoAnswer
          /\ request'.seen = request.seen /\ Told' = a /\ request'.metric = request.metric
      BY <2>1 DEF Told
    <2>3. Reading'
      BY <1>1, <2>2 DEF Reading, FinancialRows, PriceRows, Db
    <2>4. Reported' /\ Audited'
      BY <2>2 DEF Reported, Audited
    <2>5. FixturesStayApart' /\ PricesCoverThePoints'
      BY <1>1, <1>3, <2>2
      DEF FixturesStayApart, PricesCoverThePoints, Plain, Gated, Labelled, FixturesAllowed
    <2> QED
      BY <1>1, <2>1, <2>2, <2>3, <2>4, <2>5 DEF RequestIsRecord, Panels
  <1> QED
    BY <1>4, <1>5, <1>6

\* The prices under the points are of the store the points are of.
LEMMA MapIsPriced ==
    ASSUME NEW seen, seen.points \subseteq seen.prices, Valuation(seen).mode \in SourceModes
    PROVE  Valuation(seen).years \subseteq Valuation(seen).priced
  BY SampleAnswers, SourcedAnswers DEF Valuation, Priced, Sourced

\* A request that answers: what is left to show of the new answer.
LEMMA TellSound ==
    ASSUME ApiInv, NEW a, request' = [request EXCEPT !.told = a], UNCHANGED <<company, env, store>>,
           "fixture" \in a.from => /\ FixturesAllowed \/ request.panel \in Ungated
                                   /\ a.mode \in SourceModes => request.panel = "audit_csv",
           a.mode \in SourceModes => a.years \subseteq a.priced,
           request.panel = "data_audit" =>
                a = AuditAnswer(request.seen) /\ Readers \subseteq DOMAIN request.seen
    PROVE  ApiInv'
  <1> USE DEF ApiInv
  <1>1. request' = [panel |-> request.panel, metric |-> request.metric, seen |-> request.seen,
                    report |-> request.report, told |-> a]
    BY DEF RequestIsRecord
  <1>2. /\ request'.panel = request.panel /\ request'.metric = request.metric
        /\ request'.seen = request.seen /\ request'.report = request.report /\ Told' = a
    BY <1>1 DEF Told
  <1>3. Reading'
    BY <1>2 DEF Reading, FinancialRows, PriceRows, Db
  <1>4. Reported'
    BY <1>2 DEF Reported, FinancialRows, Db, Plain, Gated, Labelled, FixturesAllowed, IsAnswer
  <1>5. \A seen : AuditAnswer(seen) = AuditAnswer(seen)'
    BY SMTT(40) DEF AuditAnswer, OfPostgres, OfSample, IfAllowed, Fixtures, Sourced, Refused,
           FixturesAllowed, SourceValuation, Valuation, NoAnswer, SourceRequired, Priced, KrRequired,
           AuditSources, AuditRows, ValuationAuditRows, EvidenceAuditRows, FinancialAuditRows, If
  <1>6. Audited'
    BY <1>2, <1>5 DEF Audited
  <1>7. FixturesStayApart' /\ PricesCoverThePoints'
    BY <1>2 DEF FixturesStayApart, PricesCoverThePoints, FixturesAllowed
  <1> QED
    BY <1>1, <1>2, <1>3, <1>4, <1>6, <1>7 DEF RequestIsRecord

LEMMA ReplySound == ASSUME ApiInv, Reply PROVE ApiInv'
  <1> USE DEF ApiInv
  <1> DEFINE seen == request.seen
             a == Answer(Call, seen)
  <1>1. /\ request.panel \in Panels /\ Unread = {} /\ UNCHANGED <<company, env, store>>
        /\ request.panel = "export" => request.report # NoAnswer
    BY DEF Reply, InHandler
  <1>2. CASE request.panel = "export"
    <2> DEFINE audit == AuditAnswer(seen)
    <2>1. Call = "data_audit" /\ a = audit
      BY <1>1, <1>2 DEF Call, Answer
    <2>2. request' = [request EXCEPT !.told = ExportAnswer(request.report, audit)]
      BY <1>2, <2>1 DEF Reply
    <2>3. /\ Plain(audit) /\ Plain(request.report) /\ IsAnswer(request.report)
      <3>1. Plain(audit)
        BY CompanyAnswers
      <3> QED
        BY <1>1, <1>2, <3>1 DEF Reported
    <2>4. request.report.mode \in SourceModes => "fixture" \notin audit.from
      <3>1. "financials" \in DOMAIN seen
        BY <1>1, <2>1, AllIsRead, ReadersOfCalls DEF Readers
      <3> QED
        BY <1>1, <1>2, <3>1, AuditOfFinancials DEF Reported
    <2> HIDE DEF audit
    <2>5. ASSUME audit.status = 200
          PROVE  LET told == ExportAnswer(request.report, audit)
                 IN  /\ told.from = request.report.from \cup audit.from
                     /\ told.mode = request.report.mode /\ told.years = {}
      <3>1. ExportAnswer(request.report, audit) =
                [request.report EXCEPT !.from = @ \cup audit.from, !.rows = @ \cup audit.rows]
        BY <2>5 DEF ExportAnswer
      <3> QED
        BY <2>3, <3>1 DEF IsAnswer, Plain
    <2>6. audit.status # 200 => ExportAnswer(request.report, audit) = audit
      BY DEF ExportAnswer
    <2>7. LET told == ExportAnswer(request.report, audit)
          IN  /\ "fixture" \in told.from => FixturesAllowed /\ told.mode \notin SourceModes
              /\ told.years = {}
      BY <2>3, <2>4, <2>5, <2>6 DEF Plain, Gated, Labelled
    <2> QED
      BY <1>1, <1>2, <2>2, <2>7, TellSound
  <1>3. CASE request.panel = "audit_csv"
    <2> DEFINE audit == AuditAnswer(seen)
    <2>1. Call = "data_audit" /\ a = audit
      BY <1>3 DEF Call, Answer
    <2>2. request' = [request EXCEPT !.told = CsvAnswer(audit)]
      BY <1>3, <2>1 DEF Reply
    <2>3. Plain(audit) /\ IsAnswer(audit)
      BY CompanyAnswers, AnswersAreRecords
    <2> HIDE DEF audit
    <2>4. CsvAnswer(audit).from = audit.from /\ CsvAnswer(audit).years = {}
      BY <2>3 DEF CsvAnswer, IsAnswer, Plain
    <2> QED
      BY <1>1, <1>3, <2>2, <2>3, <2>4, TellSound DEF Plain, Gated
  <1>4. CASE request.panel \in Calls
    <2>1. Call = request.panel /\ request' = [request EXCEPT !.told = Answer(request.panel, seen)]
      <3>1. Call = request.panel
        BY <1>4 DEF Call, Calls
      <3> QED
        BY <1>4, <3>1 DEF Reply, Calls
    <2>2. /\ Labelled(Answer(request.panel, seen))
          /\ request.panel \notin Ungated => Gated(Answer(request.panel, seen))
          /\ request.panel # "valuation_map" => Answer(request.panel, seen).years = {}
      BY <1>4, AnswersAreHonest
    <2>3. ASSUME request.panel = "valuation_map", Answer(request.panel, seen).mode \in SourceModes
          PROVE  Answer(request.panel, seen).years \subseteq Answer(request.panel, seen).priced
      <3>1. Answer(request.panel, seen) = Valuation(seen)
        BY <2>3 DEF Answer
      <3>2. Reads["valuation_map"][5] = "prices" /\ 5 \in DOMAIN Reads["valuation_map"]
        BY ReadersOfCalls
      <3>3. "prices" \in DOMAIN seen
        BY <1>1, <2>1, <2>3, <3>2, AllIsRead, ReadersOfCalls
      <3>4. seen.points \subseteq seen.prices
        BY <2>3, <3>3 DEF Reading
      <3> QED
        BY <2>3, <3>1, <3>4, MapIsPriced
    <2>4. request.panel = "data_audit" =>
                /\ Answer(request.panel, seen) = AuditAnswer(seen)
                /\ Readers \subseteq DOMAIN seen
      BY <1>1, <2>1, AllIsRead, ReadersOfCalls DEF Answer
    <2> QED
      BY <1>1, <2>1, <2>2, <2>3, <2>4, TellSound DEF Labelled, Gated
  <1> QED
    BY <1>1, <1>2, <1>3, <1>4 DEF Calls

LEMMA ApiStepSound == ApiInv /\ [ApiNext]_apiVars => ApiInv'
  <1> SUFFICES ASSUME ApiInv, [ApiNext]_apiVars PROVE ApiInv'
    OBVIOUS
  <1>1. CASE Load \/ UNCHANGED apiVars
    BY <1>1, StoresGrow, RequestStays DEF Load, apiVars
  <1>2. CASE Ask
    <2>1. UNCHANGED <<company, env, store>>
      BY <1>2 DEF Ask
    <2> QED
      BY <1>2, AskSound
  <1> QED
    BY <1>1, <1>2, ReadNextSound, ReportOfExportSound, ReplySound DEF ApiNext

LEMMA ApiInvHolds == ApiSpec => []ApiInv
  BY ApiInitSound, ApiStepSound, PTL DEF ApiSpec

\* For any company, environment, stores and loads between two reads: no gated page
\* shows a figure of the fixtures where they are off, and none is labelled a source's.
THEOREM FixturesApart == ApiSpec => []FixturesStayApart
  <1>1. ApiInv => FixturesStayApart
    BY DEF ApiInv
  <1> QED
    BY <1>1, ApiInvHolds, PTL

\* Whatever is loaded between the read of the points and that of the prices, every
\* point of a valuation has a price of its store.
THEOREM PointsArePriced == ApiSpec => []PricesCoverThePoints
  <1>1. ApiInv => PricesCoverThePoints
    BY DEF ApiInv
  <1> QED
    BY <1>1, ApiInvHolds, PTL

-----------------------------------------------------------------------------
(* The audit and the panels.                                               *)

\* x finds what seen has found, but for the points, of which seen has some if x has.
AsAudited(x, seen) ==
    /\ x.adjusted = seen.adjusted /\ x.facts = seen.facts /\ x.whFacts = seen.whFacts
    /\ x.evidence = seen.evidence /\ x.csv = seen.csv /\ x.snapshot = seen.snapshot
    /\ x.financials = seen.financials /\ x.whFinancials = seen.whFinancials
    /\ x.whPoints = seen.whPoints /\ x.cachePoints = seen.cachePoints
    /\ x.cacheGaps = seen.cacheGaps
    /\ x.points # {} => seen.points # {}

LEMMA AuditShowsRows ==
    ASSUME NEW seen, NEW row \in AuditRows(seen) PROVE row \in AuditAnswer(seen).rows
  BY DEF AuditAnswer, Sourced

LEMMA NotOfSources ==
    /\ \A rows : /\ ~FromSources(OfSample(rows)) /\ ~FromSources(IfAllowed(rows))
                 /\ ~FromSources(Fixtures(rows))
    /\ ~FromSources(SourceRequired)
    /\ \A status : ~FromSources(Refused(status))
  BY SampleAnswers, SourcedAnswers DEF FromSources, SourceRequired, Sourced

\* The valuation map and the performance of it.
LEMMA AuditCoversMap ==
    ASSUME NEW seen, NEW x, AsAudited(x, seen), NEW a \in {Valuation(x), PerformanceAnswer(x)},
           FromSources(a)
    PROVE  a.rows \subseteq AuditAnswer(seen).rows
  <1> DEFINE has(z) == z.points # {} \/ z.whPoints # {} \/ z.cachePoints # {}
  <1>1. has(x)
    <2>1. CASE a = Valuation(x)
      BY <2>1, NotOfSources DEF Valuation
    <2>2. CASE a = PerformanceAnswer(x)
      <3>1. SourceValuation(x).years # {}
        BY <2>2, NotOfSources DEF PerformanceAnswer, If, FromSources, Sourced
      <3>2. Valuation(x).years # {}
        <4>1. NoAnswer.years = {}
          BY DEF NoAnswer, Refused
        <4> QED
          BY <3>1, <4>1 DEF SourceValuation
      <3> DEFINE sample == OfSample({"valuation_map", "price_points"})
      <3>3. SourceRequired.years = {} /\ Refused(503).years = {} /\ sample.years = {}
        BY SampleAnswers, SourcedAnswers
      <3> HIDE DEF sample
      <3>4. ~has(x) => Valuation(x) \in {SourceRequired, Refused(503), sample}
        BY DEF Valuation, sample
      <3> QED
        BY <3>2, <3>3, <3>4
    <2> QED
      BY <2>1, <2>2
  <1>2. has(seen)
    BY <1>1 DEF AsAudited
  <1>3. \A z : has(z) => /\ Valuation(z).mode \in SourceModes /\ Valuation(z).years # {}
                         /\ Valuation(z).rows = {"valuation_map", "price_points"}
    BY DEF Valuation, Sourced, SourceModes
  <1>4. {"valuation_map", "price_points", "performance"} \subseteq AuditRows(seen)
    BY <1>2, <1>3 DEF AuditRows, ValuationAuditRows, SourceValuation, If
  <1>5. a.rows \subseteq {"valuation_map", "price_points", "performance"}
    <2>1. CASE a = Valuation(x)
      BY <1>1, <1>3, <2>1
    <2>2. CASE a = PerformanceAnswer(x)
      <3>1. a # OfSample({"performance"})
        BY NotOfSources
      <3> QED
        BY <2>2, <3>1 DEF PerformanceAnswer, If, Sourced
    <2> QED
      BY <2>1, <2>2
  <1> QED
    BY <1>4, <1>5, AuditShowsRows

LEMMA AuditCoversOthers ==
    ASSUME NEW seen, NEW x, AsAudited(x, seen),
           NEW a \in {SnapshotAnswer(x), FinancialsAnswer(x), FunGraphsAnswer(x), FitnessAnswer(x),
                      HealthAnswer(x), CashAnswer(x), ScorecardAnswer(x), ForecastAnswer(x),
                      ScreenerAnswer(x), ReportAnswer(x), AdjustedAnswer(x), WaterfallAnswer(x)},
           FromSources(a)
    PROVE  a.rows \subseteq AuditAnswer(seen).rows
  <1> USE NotOfSources DEF AsAudited
  <1> SUFFICES a.rows \subseteq AuditRows(seen)
    BY AuditShowsRows
  <1>1. CASE a = SnapshotAnswer(x) \/ a = ScreenerAnswer(x)
    BY <1>1 DEF SnapshotAnswer, ScreenerAnswer, OfPostgres, Sourced, AuditRows, If
  <1>2. CASE a = FinancialsAnswer(x)
    BY <1>2 DEF FinancialsAnswer, OfPostgres, Sourced, AuditRows, FinancialAuditRows,
                FromFinancials, If
  <1>3. CASE a \in {FunGraphsAnswer(x), FitnessAnswer(x), HealthAnswer(x), CashAnswer(x),
                    ReportAnswer(x)}
    <2>1. seen.financials # {} =>
                FromFinancials \cup {"use_of_cash"} \subseteq AuditRows(seen)
      BY DEF AuditRows, FinancialAuditRows, If
    <2>2. /\ x.financials # {}
          /\ a.rows \subseteq FromFinancials \cup {"use_of_cash"}
      BY <1>3 DEF FunGraphsAnswer, FitnessAnswer, HealthAnswer, CashAnswer, ReportAnswer,
                  OfPostgres, Sourced, FromFinancials
    <2> QED
      BY <2>1, <2>2
  <1>4. CASE a = ScorecardAnswer(x) \/ a = ForecastAnswer(x)
    BY <1>4 DEF ScorecardAnswer, ForecastAnswer, OfPostgres, Sourced, AuditRows,
                EvidenceAuditRows, If
  <1>5. CASE a = AdjustedAnswer(x) \/ a = WaterfallAnswer(x)
    BY <1>5 DEF AdjustedAnswer, WaterfallAnswer, OfPostgres, Sourced, AuditRows, If
  <1> QED
    BY <1>1, <1>2, <1>3, <1>4, <1>5

\* Of the two metrics an adjusted row answers for, the one asked has points if the
\* default one has.
LEMMA MetricHasDefault ==
    ASSUME NEW s, NEW metric \in {Default, "gaap_diluted_eps"}, PointRows(s, Default) # {}
    PROVE  PointRows(s, metric) # {}
  BY DEF PointRows, MetricYears, Default, Db

LEMMA AuditCovers ==
    ASSUME NEW s, NEW metric \in {Default, "gaap_diluted_eps"}, NEW seen,
           \A r \in Readers : seen[r] = Found(s, metric)[r], NEW p \in DOMAIN Reads,
           NEW x, x = IF p \in TakesMetric THEN Found(s, metric) ELSE Found(s, Default),
           FromSources(Answer(p, x))
    PROVE  Answer(p, x).rows \subseteq AuditAnswer(seen).rows
  <1> DEFINE held == Found(s, metric)
  <1>1. /\ seen.adjusted = held.adjusted /\ seen.facts = held.facts /\ seen.whFacts = held.whFacts
        /\ seen.evidence = held.evidence /\ seen.csv = held.csv /\ seen.snapshot = held.snapshot
        /\ seen.financials = held.financials /\ seen.whFinancials = held.whFinancials
        /\ seen.whPoints = held.whPoints /\ seen.cachePoints = held.cachePoints
        /\ seen.cacheGaps = held.cacheGaps /\ seen.points = held.points /\ seen.prices = held.prices
    BY DEF Readers
  <1>2. AsAudited(held, seen)
    BY <1>1 DEF AsAudited
  <1>3. AsAudited(Found(s, Default), seen)
    BY <1>1, MetricHasDefault DEF AsAudited, Found
  <1>4. AsAudited(x, seen)
    BY <1>2, <1>3
  <1>5. CASE p \in {"valuation_map", "performance"}
    BY <1>4, <1>5, AuditCoversMap DEF Answer
  <1>6. CASE p = "data_audit"
    <2>1. x = held /\ Answer(p, x) = AuditAnswer(held)
      BY <1>6 DEF TakesMetric, Answer
    <2>2. AuditAnswer(held) = AuditAnswer(seen)
      <3> HIDE DEF held
      <3>1. Valuation(held) = Valuation(seen)
        BY <1>1 DEF Valuation, Priced
      <3>2. SourceValuation(held) = SourceValuation(seen)
        BY <3>1 DEF SourceValuation
      <3>3. AuditRows(held) = AuditRows(seen)
        BY <1>1, <3>2 DEF AuditRows, ValuationAuditRows, EvidenceAuditRows, FinancialAuditRows
      <3>4. AuditSources(held) = AuditSources(seen)
        <4>1. \A r \in {"adjusted", "facts", "evidence", "financials"} : held[r] = seen[r]
          BY <1>1
        <4> QED
          BY <1>1, <3>2, <4>1 DEF AuditSources
      <3> QED
        BY <3>3, <3>4 DEF AuditAnswer
    <2> QED
      BY <2>1, <2>2
  <1>7. CASE p \notin {"valuation_map", "performance", "data_audit"}
    <2>1. Answer(p, x) \in
               {SnapshotAnswer(x), FinancialsAnswer(x), FunGraphsAnswer(x), FitnessAnswer(x),
                HealthAnswer(x), CashAnswer(x), ScorecardAnswer(x), ForecastAnswer(x),
                ScreenerAnswer(x), ReportAnswer(x), AdjustedAnswer(x), WaterfallAnswer(x)}
      BY <1>7 DEF Reads, Answer
    <2> QED
      BY <1>4, <2>1, AuditCoversOthers
  <1> QED
    BY <1>5, <1>6, <1>7

\* For any company, stores and loads, and the two metrics an adjusted row answers
\* for: what a panel shows of a source the audit of the same moment shows too.  Of
\* another metric the audit has no performance, which is of the default one.
THEOREM AuditIsComplete ==
    ASSUME Metrics \subseteq {"adjusted_operating", "gaap_diluted_eps"}
    PROVE  ApiSpec => []AuditCoversPanels
  <1>1. ApiInv => AuditCoversPanels
    <2> SUFFICES ASSUME ApiInv, request.panel = "data_audit", Told.status = 200,
                        \A r \in DOMAIN request.seen :
                            request.seen[r] = Found(store, request.metric)[r],
                        NEW p \in DOMAIN Reads, NEW x,
                        x = IF p \in TakesMetric THEN Found(store, request.metric)
                            ELSE Found(store, Default),
                        FromSources(Answer(p, x))
                 PROVE  Answer(p, x).rows \subseteq Told.rows
      BY DEF AuditCoversPanels
    <2>1. Told # NoAnswer
      BY DEF NoAnswer, Refused
    <2>2. Told = AuditAnswer(request.seen) /\ Readers \subseteq DOMAIN request.seen
      BY <2>1 DEF ApiInv, Audited
    <2>3. request.metric \in {Default, "gaap_diluted_eps"}
      BY DEF ApiInv, Default
    <2> QED
      BY <2>2, <2>3, AuditCovers
  <1> QED
    BY <1>1, ApiInvHolds, PTL

-----------------------------------------------------------------------------
(* The states of a request.                                                *)

IsStatus(n) == n \in {0, 200, 404, 503}

LEMMA StatusesOfParts ==
    ASSUME NEW rows, NEW from
    PROVE  /\ IsStatus(Sourced(from, rows).status) /\ IsStatus(SourceRequired.status)
           /\ IsStatus(Fixtures(rows).status) /\ IsStatus(IfAllowed(rows).status)
           /\ IsStatus(OfSample(rows).status) /\ IsStatus(OfPostgres(rows).status)
           /\ IsStatus(OrEmpty(rows).status) /\ IsStatus(OrFixture(rows).status)
           /\ IsStatus(NoAnswer.status) /\ \A n : Refused(n).status = n
  <1>1. /\ Sourced(from, rows).status = 200 /\ SourceRequired.status = 200
        /\ Fixtures(rows).status = 200 /\ OfPostgres(rows).status = 200
        /\ NoAnswer.status = 0 /\ \A n : Refused(n).status = n
    BY DEF Sourced, SourceRequired, Fixtures, OfPostgres, Refused, NoAnswer
  <1>2. IsStatus(IfAllowed(rows).status)
    BY <1>1 DEF IfAllowed, IsStatus
  <1>3. IsStatus(OfSample(rows).status)
    BY <1>1, <1>2 DEF OfSample, IsStatus
  <1>4. IsStatus(OrEmpty(rows).status) /\ IsStatus(OrFixture(rows).status)
    BY <1>1, <1>2 DEF OrEmpty, OrFixture, IsStatus
  <1> QED
    BY <1>1, <1>2, <1>3, <1>4 DEF IsStatus

LEMMA StatusOfMap == ASSUME NEW seen PROVE IsStatus(Valuation(seen).status)
  BY DEF Valuation, Sourced, SourceRequired, Fixtures, OfSample, IfAllowed, Refused, IsStatus

\* Every answer is an answer, a gap of sources, an unknown company or a refusal.
LEMMA StatusOfAnswer == ASSUME NEW p \in Calls, NEW seen PROVE IsStatus(Answer(p, seen).status)
  <1> USE StatusesOfParts
  <1>1. CASE p = "valuation_map"
    <2>1. Answer(p, seen) = Valuation(seen)
      BY <1>1 DEF Answer
    <2> QED
      BY <2>1, StatusOfMap
  <1>2. CASE p \in {"snapshot", "financials", "fun_graphs", "fiscal_fitness", "health_check",
                    "use_of_cash"}
    <2>1. \/ Answer(p, seen) = SnapshotAnswer(seen) \/ Answer(p, seen) = FinancialsAnswer(seen)
          \/ Answer(p, seen) = FunGraphsAnswer(seen) \/ Answer(p, seen) = FitnessAnswer(seen)
          \/ Answer(p, seen) = HealthAnswer(seen) \/ Answer(p, seen) = CashAnswer(seen)
      BY <1>2 DEF Answer
    <2> QED
      BY <2>1 DEF SnapshotAnswer, FinancialsAnswer, FunGraphsAnswer, FitnessAnswer, HealthAnswer,
                  CashAnswer
  <1>3. CASE p \in {"analyst_scorecard", "forecast_snapshot", "screener", "performance",
                    "research_report", "data_audit"}
    <2>1. \/ Answer(p, seen) = ScorecardAnswer(seen) \/ Answer(p, seen) = ForecastAnswer(seen)
          \/ Answer(p, seen) = ScreenerAnswer(seen) \/ Answer(p, seen) = PerformanceAnswer(seen)
          \/ Answer(p, seen) = ReportAnswer(seen) \/ Answer(p, seen) = AuditAnswer(seen)
      BY <1>3 DEF Answer
    <2> QED
      BY <2>1 DEF ScorecardAnswer, ForecastAnswer, ScreenerAnswer, PerformanceAnswer, ReportAnswer,
                  AuditAnswer
  <1>4. CASE p \in Lists \cup Series
    <2>1. \/ Answer(p, seen) = SearchAnswer \/ Answer(p, seen) = PortfolioAnswer
          \/ Answer(p, seen) = WatchlistAnswer \/ Answer(p, seen) = MacroAnswer
          \/ Answer(p, seen) = IndustryAnswer \/ Answer(p, seen) = MetadataAnswer
      BY <1>4 DEF Answer, Lists, Series
    <2> QED
      BY <2>1 DEF SearchAnswer, PortfolioAnswer, WatchlistAnswer, MacroAnswer, IndustryAnswer,
                  MetadataAnswer
  <1>5. CASE p \in Ungated
    <2>1. \/ Answer(p, seen) = PreviewAnswer \/ Answer(p, seen) = PortfolioImportAnswer
          \/ Answer(p, seen) = WatchlistAddAnswer \/ Answer(p, seen) = AdjustedAnswer(seen)
          \/ Answer(p, seen) = WaterfallAnswer(seen)
      BY <1>5 DEF Answer, Ungated, Imports
    <2>2. IsStatus(PreviewAnswer.status)
      BY DEF PreviewAnswer, Fixtures, Sourced, IsStatus
    <2>3. IsStatus(PortfolioImportAnswer.status) /\ IsStatus(WatchlistAddAnswer.status)
      BY <2>2 DEF PortfolioImportAnswer, WatchlistAddAnswer
    <2>4. IsStatus(AdjustedAnswer(seen).status) /\ IsStatus(WaterfallAnswer(seen).status)
      BY DEF AdjustedAnswer, WaterfallAnswer, OfPostgres, Sourced, Fixtures, Refused, If, AuditRows, IsStatus
    <2> QED
      BY <2>1, <2>2, <2>3, <2>4
  <1> QED
    BY <1>1, <1>2, <1>3, <1>4, <1>5 DEF Calls, Panels, Reads, Ungated, Imports, Lists, Series

\* What a reader finds are years of the store.
LEMMA FoundAreYears ==
    ASSUME store \in [Tables -> SUBSET Years], NEW metric, NEW r \in Readers
    PROVE  Found(store, metric)[r] \subseteq Years
  <1>1. \A t \in Tables : store[t] \subseteq Years
    OBVIOUS
  <1>2. /\ store.adjusted \subseteq Years /\ store.metrics \subseteq Years
        /\ store.prices \subseteq Years /\ store.facts \subseteq Years
        /\ store.estimates \subseteq Years /\ store.csv \subseteq Years
        /\ store.warehouseFacts \subseteq Years /\ store.warehousePoints \subseteq Years
        /\ store.cachePoints \subseteq Years /\ store.cacheGaps \subseteq Years
    BY <1>1 DEF Tables, Postgres, Local
  <1>3. \A years \in SUBSET Years : Db(years) \subseteq Years /\ Kr(years) \subseteq Years
    BY DEF Db, Kr
  <1>4. MetricYears(store, metric) \subseteq Years
    BY <1>2 DEF MetricYears
  <1>5. /\ FactRows(store) \subseteq Years /\ EvidenceRows(store) \subseteq Years
        /\ PriceRows(store) \subseteq Years /\ SnapshotRows(store) \subseteq Years
        /\ Db(store.adjusted) \subseteq Years /\ CsvRows(store) \subseteq Years
    BY <1>2, <1>3 DEF FactRows, EvidenceRows, PriceRows, SnapshotRows, CsvRows
  <1>6. FinancialRows(store) \subseteq Years /\ PointRows(store, metric) \subseteq Years
    BY <1>2, <1>3, <1>4 DEF FinancialRows, PointRows
  <1>7. /\ WhFactRows(store) \subseteq Years /\ WhFinancialRows(store) \subseteq Years
        /\ WhPointRows(store) \subseteq Years /\ CacheRows(store) \subseteq Years
        /\ GapRows(store) \subseteq Years
    BY <1>2, <1>3 DEF WhFactRows, WhFinancialRows, WhPointRows, CacheRows, GapRows
  <1> QED
    BY <1>5, <1>6, <1>7 DEF Found, Readers

LEMMA ReadersAreReaders ==
    ASSUME NEW i \in DOMAIN ToRead PROVE ToRead[i] \in Readers
  <1>1. \A p \in DOMAIN Reads : \A k \in DOMAIN Reads[p] : Reads[p][k] \in Readers
    BY DEF Reads, ValuationReads, Readers
  <1> QED
    BY <1>1 DEF ToRead

ApiTyped ==
    /\ ApiTypeOK /\ RequestIsRecord
    /\ request.report # NoAnswer => IsAnswer(request.report) /\ request.report.status = 200

LEMMA ApiTypedInit == ApiInit => ApiTyped
  BY ApiAssumption
  DEF ApiInit, ApiTyped, ApiTypeOK, RequestIsRecord, NoRequest, NoAnswer, Refused

LEMMA LoadStaysTyped == ASSUME ApiTyped, Load PROVE ApiTyped'
  <1>1. store' \in [Tables -> SUBSET Years]
    BY ApiAssumption DEF Load, ApiTyped, ApiTypeOK
  <1>2. loads' \in 0 .. MaxLoads
    BY ApiAssumption DEF Load, ApiTyped, ApiTypeOK
  <1>3. UNCHANGED <<company, env, request>>
    BY DEF Load
  <1> QED
    BY <1>1, <1>2, <1>3 DEF ApiTyped, ApiTypeOK, RequestIsRecord, IsAnswer

LEMMA AskStaysTyped == ASSUME ApiTyped, Ask PROVE ApiTyped'
  <1>1. PICK p \in Panels, m \in Metrics \cup {Default} :
            request' = [NoRequest EXCEPT !.panel = p, !.metric = m]
    BY DEF Ask
  <1>2. request' = [panel |-> p, metric |-> m, seen |-> << >>, report |-> NoAnswer, told |-> NoAnswer]
    BY <1>1 DEF NoRequest
  <1>3. UNCHANGED <<company, env, store, loads>>
    BY DEF Ask
  <1>4. NoAnswer.status = 0
    BY DEF NoAnswer, Refused
  <1> QED
    BY <1>2, <1>3, <1>4 DEF ApiTyped, ApiTypeOK, RequestIsRecord

LEMMA ReadStaysTyped == ASSUME ApiTyped, ReadNext PROVE ApiTyped'
  <1>1. PICK i \in Unread : request' = [request EXCEPT !.seen = SeenWith(ToRead[i])]
    BY DEF ReadNext
  <1> DEFINE r == ToRead[i]
  <1>2. r \in Readers
    BY <1>1, ReadersAreReaders DEF Unread
  <1> HIDE DEF r
  <1>3. request' = [panel |-> request.panel, metric |-> request.metric, seen |-> SeenWith(r),
                    report |-> request.report, told |-> request.told]
    BY <1>1 DEF ApiTyped, RequestIsRecord, r
  <1>4. /\ DOMAIN SeenWith(r) = DOMAIN request.seen \cup {r}
        /\ \A x \in DOMAIN SeenWith(r) :
              SeenWith(r)[x] = IF x = r THEN Found(store, request.metric)[r] ELSE request.seen[x]
    BY DEF SeenWith
  <1>5. store \in [Tables -> SUBSET Years] /\ DOMAIN request.seen \subseteq Readers
        /\ \A x \in DOMAIN request.seen : request.seen[x] \subseteq Years
    BY DEF ApiTyped, ApiTypeOK
  <1>6. Found(store, request.metric)[r] \subseteq Years
    BY <1>2, <1>5, FoundAreYears
  <1>7. /\ DOMAIN SeenWith(r) \subseteq Readers
        /\ \A x \in DOMAIN SeenWith(r) : SeenWith(r)[x] \subseteq Years
    BY <1>2, <1>4, <1>5, <1>6
  <1> HIDE DEF r
  <1>8. /\ request'.panel = request.panel /\ request'.seen = SeenWith(r)
        /\ request'.report = request.report /\ request'.told = request.told
        /\ RequestIsRecord'
    BY <1>3 DEF RequestIsRecord
  <1>9. UNCHANGED <<company, env, store, loads>>
    BY DEF ReadNext
  <1> QED
    BY <1>7, <1>8, <1>9 DEF ApiTyped, ApiTypeOK, IsAnswer

\* The answer of a call has a status, and so has what an export makes of two.
LEMMA ToldStaysTyped ==
    ASSUME ApiTyped, NEW a, IsStatus(a.status), request' = [request EXCEPT !.told = a],
           UNCHANGED <<company, env, store, loads>>
    PROVE  ApiTyped'
  <1>1. request' = [panel |-> request.panel, metric |-> request.metric, seen |-> request.seen,
                    report |-> request.report, told |-> a]
    BY DEF ApiTyped, RequestIsRecord
  <1>2. /\ request'.panel = request.panel /\ request'.seen = request.seen
        /\ request'.report = request.report /\ request'.told = a
        /\ RequestIsRecord'
    BY <1>1 DEF RequestIsRecord
  <1> QED
    BY <1>2 DEF ApiTyped, ApiTypeOK, IsAnswer, IsStatus

LEMMA CallsOfExports == {"research_report", "data_audit"} \subseteq Calls
  BY DEF Calls, Panels, Reads

LEMMA ReportStaysTyped == ASSUME ApiTyped, ReportOfExport PROVE ApiTyped'
  <1> DEFINE a == Answer("research_report", request.seen)
  <1>1. \/ a.status = 200 /\ request' = [request EXCEPT !.report = a, !.seen = << >>]
        \/ request' = [request EXCEPT !.told = a]
    BY DEF ReportOfExport
  <1>2. UNCHANGED <<company, env, store, loads>>
    BY DEF ReportOfExport
  <1>3. IsStatus(a.status)
    BY StatusOfAnswer, CallsOfExports
  <1>4. IsAnswer(a)
    <2>1. a = ReportAnswer(request.seen)
      BY DEF Answer
    <2> QED
      BY <2>1, AnswersAreRecords
  <1> HIDE DEF a
  <1>5. CASE a.status = 200 /\ request' = [request EXCEPT !.report = a, !.seen = << >>]
    <2>1. request' = [panel |-> request.panel, metric |-> request.metric, seen |-> << >>,
                      report |-> a, told |-> request.told]
      BY <1>5 DEF ApiTyped, RequestIsRecord
    <2>2. /\ request'.panel = request.panel /\ DOMAIN request'.seen = {} /\ request'.report = a
          /\ request'.told = request.told /\ RequestIsRecord'
      BY <2>1 DEF RequestIsRecord
    <2> QED
      BY <1>2, <1>4, <1>5, <2>2 DEF ApiTyped, ApiTypeOK, IsAnswer
  <1> QED
    BY <1>1, <1>2, <1>3, <1>5, ToldStaysTyped

LEMMA ReplyStaysTyped == ASSUME ApiTyped, Reply PROVE ApiTyped'
  <1> DEFINE seen == request.seen
             audit == AuditAnswer(seen)
  <1>1. /\ request.panel \in Panels /\ UNCHANGED <<company, env, store, loads>>
        /\ request.panel = "export" => request.report # NoAnswer
    BY DEF Reply, InHandler, ApiTyped, ApiTypeOK
  <1>2. Answer("data_audit", seen) = audit
    BY DEF Answer
  <1>3. IsStatus(audit.status) /\ IsAnswer(audit)
    BY <1>2, StatusOfAnswer, CallsOfExports, AnswersAreRecords
  <1>4. CASE request.panel = "export"
    <2>1. Call = "data_audit"
      BY <1>1, <1>4 DEF Call
    <2>2. request' = [request EXCEPT !.told = ExportAnswer(request.report, audit)]
      BY <1>2, <1>4, <2>1 DEF Reply
    <2>3. IsAnswer(request.report) /\ request.report.status = 200
      BY <1>1, <1>4 DEF ApiTyped
    <2> HIDE DEF audit
    <2>4. IsStatus(ExportAnswer(request.report, audit).status)
      <3>1. CASE audit.status # 200
        BY <1>3, <3>1 DEF ExportAnswer
      <3>2. CASE audit.status = 200
        <4>1. ExportAnswer(request.report, audit) =
                [request.report EXCEPT !.from = @ \cup audit.from, !.rows = @ \cup audit.rows]
          BY <3>2 DEF ExportAnswer
        <4>2. ExportAnswer(request.report, audit).status = 200
          BY <2>3, <4>1 DEF IsAnswer
        <4> QED
          BY <4>2 DEF IsStatus
      <3> QED
        BY <3>1, <3>2
    <2> QED
      BY <1>1, <2>2, <2>4, ToldStaysTyped
  <1>5. CASE request.panel = "audit_csv"
    <2>1. Call = "data_audit"
      BY <1>5 DEF Call
    <2>2. request' = [request EXCEPT !.told = CsvAnswer(audit)]
      BY <1>2, <1>5, <2>1 DEF Reply
    <2> HIDE DEF audit
    <2>3. CsvAnswer(audit).status = audit.status
      BY <1>3 DEF CsvAnswer, IsAnswer
    <2> QED
      BY <1>1, <1>3, <2>2, <2>3, ToldStaysTyped
  <1>6. CASE request.panel \in Calls
    <2>1. Call = request.panel
      BY <1>6 DEF Call, Calls
    <2>2. request' = [request EXCEPT !.told = Answer(request.panel, seen)]
      BY <1>6, <2>1 DEF Reply, Calls
    <2>3. IsStatus(Answer(request.panel, seen).status)
      BY <1>6, StatusOfAnswer
    <2> QED
      BY <1>1, <2>2, <2>3, ToldStaysTyped
  <1> QED
    BY <1>1, <1>4, <1>5, <1>6 DEF Calls

LEMMA ApiStaysTyped == ApiTyped /\ [ApiNext]_apiVars => ApiTyped'
  <1> SUFFICES ASSUME ApiTyped, [ApiNext]_apiVars PROVE ApiTyped'
    OBVIOUS
  <1>1. CASE UNCHANGED apiVars
    BY <1>1 DEF apiVars, ApiTyped, ApiTypeOK, RequestIsRecord, IsAnswer
  <1> QED
    BY <1>1, LoadStaysTyped, AskStaysTyped, ReadStaysTyped, ReportStaysTyped, ReplyStaysTyped
    DEF ApiNext

\* A request reads years of the readers there are, and is told a status that the
\* handlers give.
THEOREM ApiTypeCorrect == ApiSpec => []ApiTypeOK
  <1>1. ApiTyped => ApiTypeOK
    BY DEF ApiTyped
  <1> QED
    BY <1>1, ApiTypedInit, ApiStaysTyped, PTL DEF ApiSpec

-----------------------------------------------------------------------------
(* The rate limiter.                                                       *)

HoldsNewest(acc, b, t) ==
    LET n == Len(acc)
        m == Len(b)
    IN  /\ m <= n
        /\ m <= Requests
        /\ \A i \in 1..m : b[i] = acc[n - m + i]
        /\ \A i \in 1..n : acc[i] <= t
        /\ \A i \in 1..(n - m) : t - acc[i] >= Window

BucketIsSuffix == \A k \in Keys : HoldsNewest(accepted[k], bucket[k], now)

\* After a 429 the bucket stays full until a request is let through, and
\* Retry-After was computed from the oldest time it still holds.
DenialMatchesBucket ==
    \A k \in Keys :
        denied[k] # NoDenial =>
            /\ Len(bucket[k]) = Requests
            /\ denied[k].at <= now
            /\ denied[k].retryAfter >= 1
            /\ denied[k].retryAfter
                 >= (Window - (denied[k].at - bucket[k][1])) \div TicksPerSecond

LimiterInv == TypeOK /\ BucketIsSuffix /\ DenialMatchesBucket /\ WindowBound


-----------------------------------------------------------------------------
LEMMA WindowIsPositive == Window \in Nat \ {0}
  BY ConfigAssumption DEF Window

\* What the popping loop leaves is a sequence of the times after the d popped.
LEMMA LiveFacts ==
  ASSUME NEW b \in Seq(Nat), NEW d \in 0..Len(b)
  PROVE  /\ Live(b, d) \in Seq(Nat)
         /\ Len(Live(b, d)) = Len(b) - d
         /\ \A i \in 1..(Len(b) - d) : Live(b, d)[i] = b[d + i]
  BY DEF Live

\* int() of the remaining seconds, and what its rounding loses.
LEMMA DivisionBound ==
  ASSUME NEW a \in Int, NEW c \in Nat \ {0}
  PROVE  /\ a \div c \in Int
         /\ a < ((a \div c) + 1) * c
  OBVIOUS

LEMMA ProductMonotonic ==
  ASSUME NEW a \in Int, NEW b \in Int, NEW c \in Nat, a <= b
  PROVE  a * c <= b * c
  OBVIOUS

LEMMA InitLimiterInv == Init => LimiterInv
  BY ConfigAssumption
     DEF Init, LimiterInv, TypeOK, BucketIsSuffix, HoldsNewest, DenialMatchesBucket, WindowBound, NoDenial

LEMMA TickLimiterInv ==
  ASSUME LimiterInv, Tick
  PROVE  LimiterInv'
  <1> USE DEF LimiterInv, Tick
  <1>1. TypeOK'
    BY DEF TypeOK
  <1>2. BucketIsSuffix'
    BY SMTT(40), WindowIsPositive DEF TypeOK, BucketIsSuffix, HoldsNewest
  <1>3. DenialMatchesBucket'
    BY DEF TypeOK, DenialMatchesBucket
  <1>4. WindowBound'
    BY DEF WindowBound
  <1>5. QED
    BY <1>1, <1>2, <1>3, <1>4

LEMMA AllowLimiterInv ==
  ASSUME LimiterInv, NEW k \in Keys, Allow(k)
  PROVE  LimiterInv'
  <1> DEFINE n == Len(accepted[k])
             m == Len(bucket[k])
  <1>1. PICK d \in 0..m :
          /\ HasRoom(bucket[k], d)
          /\ bucket' = [bucket EXCEPT ![k] = Append(Live(bucket[k], d), now)]
          /\ accepted' = [accepted EXCEPT ![k] = Append(accepted[k], now)]
          /\ denied' = [denied EXCEPT ![k] = NoDenial]
          /\ UNCHANGED now
    BY DEF Allow
  <1>2. /\ now \in Nat
        /\ bucket \in [Keys -> Seq(Nat)]
        /\ accepted \in [Keys -> Seq(Nat)]
        /\ denied \in [Keys -> [at: Nat, retryAfter: Nat]]
        /\ bucket[k] \in Seq(Nat)
        /\ accepted[k] \in Seq(Nat)
    BY DEF LimiterInv, TypeOK
  <1>a. n \in Nat /\ m \in Nat /\ d \in 0..m /\ Requests \in Nat \ {0}
    BY <1>2, ConfigAssumption
  <1>3. /\ Live(bucket[k], d) \in Seq(Nat)
        /\ Len(Live(bucket[k], d)) = m - d
        /\ \A i \in 1..(m - d) : Live(bucket[k], d)[i] = bucket[k][d + i]
    BY <1>2, LiveFacts
  <1>4. /\ bucket'[k] = Append(Live(bucket[k], d), now)
        /\ accepted'[k] = Append(accepted[k], now)
        /\ \A j \in Keys \ {k} : /\ bucket'[j] = bucket[j]
                                 /\ accepted'[j] = accepted[j]
                                 /\ denied'[j] = denied[j]
        /\ denied'[k] = NoDenial
    BY <1>1, <1>2
  <1>5. /\ Len(bucket'[k]) = m - d + 1
        /\ Len(accepted'[k]) = n + 1
        /\ bucket'[k][m - d + 1] = now
        /\ accepted'[k][n + 1] = now
        /\ \A i \in 1..(m - d) : bucket'[k][i] = bucket[k][d + i]
        /\ \A i \in 1..n : accepted'[k][i] = accepted[k][i]
    BY <1>2, <1>3, <1>4
  <1>6. /\ m - d < Requests
        /\ \A i \in 1..d : now - bucket[k][i] >= Window
    BY <1>1 DEF HasRoom, PopsStopAt
  <1>7. /\ m <= n
        /\ \A i \in 1..m : bucket[k][i] = accepted[k][n - m + i]
        /\ \A i \in 1..n : accepted[k][i] <= now
        /\ \A i \in 1..(n - m) : now - accepted[k][i] >= Window
    BY DEF LimiterInv, BucketIsSuffix, HoldsNewest
  <1> HIDE DEF n, m
  <1>8. \A i \in 1..(n - m + d) : now - accepted[k][i] >= Window
    <2>1. SUFFICES ASSUME NEW i \in 1..(n - m + d), ~(i \in 1..(n - m))
                   PROVE  now - accepted[k][i] >= Window
      BY <1>a, <1>7
    <2>2. i - (n - m) \in 1..d /\ i - (n - m) \in 1..m
      BY <1>2, <1>a, <1>7, <2>1
    <2>3. bucket[k][i - (n - m)] = accepted[k][n - m + (i - (n - m))]
      BY <1>7, <2>2
    <2>4. n - m + (i - (n - m)) = i
      BY <1>2, <1>a, <2>1
    <2>5. QED
      BY <1>a, <1>6, <2>2, <2>3, <2>4
  <1>9. TypeOK'
    <2>1. Append(Live(bucket[k], d), now) \in Seq(Nat)
      BY <1>2, <1>a, <1>3
    <2>2. Append(accepted[k], now) \in Seq(Nat)
      BY <1>2, <1>a
    <2>3. NoDenial \in [at: Nat, retryAfter: Nat]
      BY DEF NoDenial
    <2>4. QED
      BY <1>1, <1>2, <1>a, <2>1, <2>2, <2>3 DEF TypeOK
  <1>10. BucketIsSuffix'
    <2>1. SUFFICES ASSUME NEW j \in Keys
                   PROVE  HoldsNewest(accepted'[j], bucket'[j], now')
      BY DEF BucketIsSuffix
    <2>2. CASE j # k
      <3>1. HoldsNewest(accepted[j], bucket[j], now)
        BY DEF LimiterInv, BucketIsSuffix
      <3>2. QED
        BY <1>1, <1>4, <2>2, <3>1
    <2>3. CASE j = k
      <3>1. m - d + 1 <= n + 1 /\ m - d + 1 <= Requests
        BY <1>2, <1>a, <1>6, <1>7, ConfigAssumption
      <3>2. \A i \in 1..(m - d + 1) :
              bucket'[k][i] = accepted'[k][(n + 1) - (m - d + 1) + i]
        <4>1. TAKE i \in 1..(m - d + 1)
        <4>2. CASE i = m - d + 1
          <5>1. (n + 1) - (m - d + 1) + i = n + 1
            BY <1>a, <4>2
          <5>2. QED
            BY <1>5, <4>2, <5>1
        <4>3. CASE i \in 1..(m - d)
          <5>1. d + i \in 1..m /\ n - m + (d + i) \in 1..n
            BY <1>2, <1>a, <1>7, <4>3
          <5>2. (n + 1) - (m - d + 1) + i = n - m + (d + i)
            BY <1>2, <1>a
          <5>3. QED
            BY <1>a, <1>5, <1>7, <4>3, <5>1, <5>2
        <4>4. QED
          BY <1>2, <1>a, <4>2, <4>3
      <3>3. \A i \in 1..(n + 1) : accepted'[k][i] <= now
        <4>1. TAKE i \in 1..(n + 1)
        <4>2. CASE i = n + 1
          <5>1. accepted'[k][i] = now
            BY <1>5, <4>2
          <5>2. QED
            BY <1>2, <5>1
        <4>3. CASE i \in 1..n
          BY <1>5, <1>7, <4>3
        <4>4. QED
          BY <1>a, <4>2, <4>3
      <3>4. \A i \in 1..((n + 1) - (m - d + 1)) : now - accepted'[k][i] >= Window
        <4>1. TAKE i \in 1..((n + 1) - (m - d + 1))
        <4>2. i \in 1..(n - m + d) /\ i \in 1..n
          BY <1>a, <1>7
        <4>3. QED
          BY <1>5, <1>8, <4>2
      <3>5. QED
        BY <1>1, <1>5, <2>3, <3>1, <3>2, <3>3, <3>4 DEF HoldsNewest
    <2>4. QED
      BY <2>2, <2>3
  <1>11. DenialMatchesBucket'
    BY <1>1, <1>4 DEF LimiterInv, DenialMatchesBucket
  <1>12. WindowBound'
    <2>1. SUFFICES ASSUME NEW j \in Keys, NEW i \in 1..Len(accepted'[j]),
                          i + Requests <= Len(accepted'[j])
                   PROVE  accepted'[j][i + Requests] - accepted'[j][i] >= Window
      BY DEF WindowBound
    <2>2. CASE j # k
      BY <1>4, <2>1, <2>2 DEF LimiterInv, WindowBound
    <2>3. CASE j = k /\ i + Requests <= n
      <3>1. i \in 1..n /\ i + Requests \in 1..n
        BY <1>2, <1>a, <1>5, <2>1, <2>3, ConfigAssumption
      <3>2. accepted[k][i + Requests] - accepted[k][i] >= Window
        BY <2>3, <3>1 DEF LimiterInv, WindowBound, n
      <3>3. QED
        BY <1>a, <1>5, <2>3, <3>1, <3>2
    <2>4. CASE j = k /\ i + Requests = n + 1
      <3>1. i \in 1..(n - m + d) /\ i \in 1..n
        <4>1. i \in 1..(n + 1)
          BY <1>5, <2>1, <2>4
        <4>2. m - d < Requests /\ m <= n
          BY <1>6, <1>7
        <4>3. QED
          BY <1>a, <2>4, <4>1, <4>2
      <3>2. accepted'[k][i] = accepted[k][i] /\ accepted'[k][i + Requests] = now
        BY <1>a, <1>5, <2>4, <3>1
      <3>3. QED
        BY <1>a, <1>8, <2>4, <3>1, <3>2
    <2>5. ASSUME j = k
          PROVE  i + Requests <= n \/ i + Requests = n + 1
      <3>1. i \in 1..(n + 1) /\ i + Requests <= n + 1
        BY <1>5, <2>1, <2>5
      <3>2. QED
        BY <1>a, <3>1
    <2>6. QED
      BY <2>2, <2>3, <2>4, <2>5
  <1>13. QED
    BY <1>9, <1>10, <1>11, <1>12 DEF LimiterInv

\* A 429 never changes the bucket: it holds at most Requests times, so it can
\* only be full when nothing was popped.
LEMMA DenyLimiterInv ==
  ASSUME LimiterInv, NEW k \in Keys, Deny(k)
  PROVE  LimiterInv'
  <1>1. PICK d \in 0..Len(bucket[k]) :
          /\ IsFull(bucket[k], d)
          /\ bucket' = [bucket EXCEPT ![k] = Live(bucket[k], d)]
          /\ denied' = [denied EXCEPT ![k] =
               [at |-> now, retryAfter |-> RetryAfter(bucket[k][d + 1])]]
          /\ UNCHANGED <<now, accepted>>
    BY DEF Deny
  <1>2. /\ now \in Nat
        /\ bucket \in [Keys -> Seq(Nat)]
        /\ accepted \in [Keys -> Seq(Nat)]
        /\ denied \in [Keys -> [at: Nat, retryAfter: Nat]]
        /\ bucket[k] \in Seq(Nat)
    BY DEF LimiterInv, TypeOK
  <1>3. d = 0 /\ Len(bucket[k]) = Requests
    BY <1>1, <1>2, ConfigAssumption DEF LimiterInv, BucketIsSuffix, HoldsNewest, IsFull
  <1>4. Live(bucket[k], d) = bucket[k]
    BY <1>2, <1>3 DEF Live
  <1>5. bucket' = bucket
    BY <1>1, <1>2, <1>4
  <1>6. bucket[k][1] \in Nat /\ bucket[k][d + 1] = bucket[k][1]
    BY <1>2, <1>3, ConfigAssumption
  <1>7. /\ RetryAfter(bucket[k][d + 1]) \in Nat
        /\ RetryAfter(bucket[k][d + 1]) >= 1
        /\ RetryAfter(bucket[k][d + 1])
             >= (Window - (now - bucket[k][1])) \div TicksPerSecond
    <2> DEFINE remaining == (Window - (now - bucket[k][1])) \div TicksPerSecond
    <2>1. remaining \in Int
      BY SMTT(40), <1>2, <1>6, WindowIsPositive, ConfigAssumption, DivisionBound
    <2>2. RetryAfter(bucket[k][d + 1]) = IF remaining < 1 THEN 1 ELSE remaining
      BY <1>6 DEF RetryAfter
    <2>3. QED
      BY <2>1, <2>2
  <1>8. TypeOK'
    BY <1>1, <1>2, <1>5, <1>7 DEF TypeOK
  <1>9. BucketIsSuffix' /\ WindowBound'
    BY <1>1, <1>5 DEF LimiterInv, BucketIsSuffix, WindowBound
  <1>10. DenialMatchesBucket'
    BY <1>1, <1>2, <1>3, <1>5, <1>7 DEF LimiterInv, DenialMatchesBucket
  <1>11. QED
    BY <1>8, <1>9, <1>10 DEF LimiterInv

LEMMA StutterLimiterInv ==
  ASSUME LimiterInv, UNCHANGED vars
  PROVE  LimiterInv'
  BY DEF vars, LimiterInv, TypeOK, BucketIsSuffix, DenialMatchesBucket, WindowBound

\* The invariant on which the properties of the limiter rest.
THEOREM LimiterInvariance == Spec => []LimiterInv
  <1>1. LimiterInv /\ [Next]_vars => LimiterInv'
    BY TickLimiterInv, AllowLimiterInv, DenyLimiterInv, StutterLimiterInv DEF Next, Decide
  <1>2. QED
    BY InitLimiterInv, <1>1, PTL DEF Spec

\* Type correctness of the limiter (services/api/security.py).
THEOREM LimiterIsTyped == Spec => []TypeOK
  <1>1. LimiterInv => TypeOK
    BY DEF LimiterInv
  <1>2. QED
    BY LimiterInvariance, <1>1, PTL

\* For every limit, window, clock resolution and number of keys: no window of the
\* configured length, wherever it starts, holds more accepted requests of a key than the
\* configured number; and a client that waits for Retry-After and one second more is not
\* denied again (services/api/security.py).
THEOREM LimiterKeepsPromise == Spec => []LimiterPromise
  <1>1. LimiterInv => RetryHonoured
    <2>1. SUFFICES ASSUME LimiterInv, NEW k \in Keys, denied[k] # NoDenial,
                          now >= denied[k].at + (denied[k].retryAfter + 1) * TicksPerSecond,
                          NEW d \in 0..Len(bucket[k]), IsFull(bucket[k], d)
                   PROVE  FALSE
      BY DEF RetryHonoured
    <2>1a. PICK at \in Nat, r \in Nat : denied[k].at = at /\ denied[k].retryAfter = r
      <3>1. denied[k] \in [at: Nat, retryAfter: Nat]
        BY <2>1 DEF LimiterInv, TypeOK
      <3>2. QED
        BY <3>1
    <2>2. now \in Nat /\ bucket[k] \in Seq(Nat)
      BY <2>1 DEF LimiterInv, TypeOK
    <2>3. Len(bucket[k]) = Requests
      BY <2>1 DEF LimiterInv, DenialMatchesBucket
    <2>4. d = 0
      BY <2>1, <2>2, <2>3, ConfigAssumption DEF IsFull
    <2>5. PICK oldest \in Nat : bucket[k][1] = oldest
      BY <2>2, <2>3, ConfigAssumption
    <2>6. now - oldest < Window
      BY <2>1, <2>3, <2>4, <2>5, ConfigAssumption DEF IsFull, PopsStopAt
    <2> DEFINE left == Window - (at - oldest)
    <2>7. r >= left \div TicksPerSecond
      BY <2>1, <2>1a, <2>5 DEF LimiterInv, DenialMatchesBucket
    <2>8. left \in Int
      BY WindowIsPositive
    <2>9. left < (r + 1) * TicksPerSecond
      <3>1. /\ left \div TicksPerSecond \in Int
            /\ left < ((left \div TicksPerSecond) + 1) * TicksPerSecond
        BY <2>8, ConfigAssumption, DivisionBound
      <3>2. ((left \div TicksPerSecond) + 1) * TicksPerSecond <= (r + 1) * TicksPerSecond
        BY <2>7, <3>1, ConfigAssumption, ProductMonotonic
      <3>3. (r + 1) * TicksPerSecond \in Int /\ ((left \div TicksPerSecond) + 1) * TicksPerSecond \in Int
        BY <3>1, ConfigAssumption
      <3>4. QED
        BY <2>8, <3>1, <3>2, <3>3
    <2>10. (r + 1) * TicksPerSecond \in Int
      BY ConfigAssumption
    <2>11. now >= at + (r + 1) * TicksPerSecond
      BY <2>1, <2>1a
    <2>12. QED
      BY <2>2, <2>6, <2>9, <2>10, <2>11, WindowIsPositive
  <1>2. LimiterInv => LimiterPromise
    BY <1>1 DEF LimiterInv, LimiterPromise
  <1>3. QED
    BY LimiterInvariance, <1>2, PTL

-----------------------------------------------------------------------------
\* What each thread is doing, typed.
Places == {"idle", "render", "read", "draw", "queue", "run", "upsert", "layout", "fill"}
Doing  == [at : Places, payload : Payloads \cup {Nobody}, id : Typed \cup {NoId},
           name : Names \cup {NoId}, shown : Files]

\* A thread that handles a chart or a run has its payload.
ThreadsHold ==
    \A t \in Threads :
        thread[t].at \in {"render", "read", "draw", "queue", "run"} => thread[t].payload \in Payloads

\* A whole chart file shows the data of its key.
ChartsShowTheirKey ==
    /\ charts \in [ChartKeys -> Files]
    /\ \A k \in ChartKeys : charts[k].state = "whole" => charts[k].shows.data = k

ChartInv == ChartTypeOK /\ ThreadsHold /\ ChartsShowTheirKey /\ ChartsAreWhole /\ RunIsKept

LEMMA FilesAreFiles ==
    /\ Absent \in Files /\ Torn \in Files
    /\ \A p \in Payloads : /\ Whole(p) \in Files
                           /\ Whole(p).state = "whole" /\ Whole(p).shows = p
    /\ Absent.state = "absent" /\ Torn.state = "torn"
  BY DEF Files, Absent, Torn, Whole

LEMMA KeysAreKeys == \A p \in Payloads : Key(p) \in ChartKeys
  BY DEF ChartKeys

LEMMA IdleIsTyped ==
    /\ Idle \in Doing
    /\ Idle.at = "idle" /\ Idle.payload = Nobody /\ Idle.shown = Absent
  BY FilesAreFiles DEF Idle, Doing, Places

LEMMA InitSound == ChartInit => ChartInv
  <1> SUFFICES ASSUME ChartInit PROVE ChartInv
    OBVIOUS
  <1>1. ChartTypeOK
    BY ChartStoreAssumption, FilesAreFiles, IdleIsTyped
    DEF ChartInit, ChartTypeOK, NoLayout, NoId, Doing, Places
  <1>2. ThreadsHold
    BY IdleIsTyped DEF ChartInit, ThreadsHold
  <1>3. ChartsShowTheirKey
    BY FilesAreFiles DEF ChartInit, ChartsShowTheirKey
  <1>4. ChartsAreWhole
    BY FilesAreFiles, IdleIsTyped DEF ChartInit, ChartsAreWhole
  <1>5. RunIsKept
    BY DEF ChartInit, RunIsKept
  <1> QED
    BY <1>1, <1>2, <1>3, <1>4, <1>5 DEF ChartInv
-----------------------------------------------------------------------------
\* The frame of a step: of the parts of the state that only some actions touch,
\* what the invariant says goes over unchanged.
LEMMA TypeUnfolds ==
    ChartTypeOK <=>
        /\ database \in BOOLEAN /\ queueing \in BOOLEAN
        /\ \A k \in DOMAIN charts : charts[k] \in Files
        /\ blobs \subseteq DOMAIN charts
        /\ manifests \in [Payloads -> {"absent", "torn", "whole"}]
        /\ runRows \subseteq Payloads /\ made \subseteq Payloads
        /\ layoutRows \in [Names -> Typed \cup {NoId}]
        /\ layouts \in [Typed -> [state: {"absent", "torn", "whole"}, name: Names \cup {NoId}]]
        /\ thread \in [Threads -> Doing]
        /\ restarts \in 0..MaxRestarts
  BY DEF ChartTypeOK, Doing, Places

\* A step of the charts leaves the runs as they are, and one of the runs the charts.
LEMMA RunsRest == ASSUME RunIsKept, UNCHANGED <<database, Runs>> PROVE RunIsKept'
  BY DEF RunIsKept, Loadable, Runs

\* A thread that is no writer before and after its step, and shows nothing new.
LEMMA ChartsRest ==
    ASSUME ChartsAreWhole, NEW t \in Threads, UNCHANGED <<charts, restarts>>,
           \A u \in Threads : u # t => thread'[u] = thread[u],
           thread[t].at # "draw",
           \/ thread'[t].shown.state # "whole"
           \/ thread'[t].shown = thread[t].shown /\ thread'[t].payload = thread[t].payload
    PROVE  ChartsAreWhole'
  BY DEF ChartsAreWhole, Writes

\* A thread that only goes on to another place.
LEMMA GoesOn ==
    ASSUME ChartTypeOK, NEW t \in Threads, NEW at \in Places, Goes(t, at)
    PROVE  /\ thread' \in [Threads -> Doing]
           /\ thread'[t].at = at /\ thread'[t].payload = thread[t].payload
           /\ thread'[t].shown = thread[t].shown
           /\ \A u \in Threads : u # t => thread'[u] = thread[u]
  <1>1. thread \in [Threads -> Doing] /\ thread[t] \in Doing
    BY TypeUnfolds
  <1>2. [thread[t] EXCEPT !.at = at] \in Doing
    BY <1>1 DEF Doing
  <1>3. thread' = [thread EXCEPT ![t] = [thread[t] EXCEPT !.at = at]]
    BY <1>1 DEF Goes
  <1> QED
    BY <1>1, <1>2, <1>3 DEF Doing

\* A thread that begins something new at another place.
LEMMA GoesNew ==
    ASSUME ChartTypeOK, NEW t \in Threads, NEW new \in Doing, new.shown = Absent,
           thread' = [thread EXCEPT ![t] = new]
    PROVE  /\ thread' \in [Threads -> Doing]
           /\ thread'[t] = new /\ thread'[t].shown.state # "whole"
           /\ \A u \in Threads : u # t => thread'[u] = thread[u]
  BY TypeUnfolds, FilesAreFiles

-----------------------------------------------------------------------------
LEMMA WantChartSound == ASSUME ChartInv, NEW t \in Threads, WantChart(t) PROVE ChartInv'
  <1> USE DEF ChartInv
  <1>1. PICK p \in Payloads :
            thread' = [thread EXCEPT ![t] =
                [Idle EXCEPT !.payload = p,
                             !.at = IF charts[Key(p)] = Absent THEN "render" ELSE "read"]]
    BY DEF WantChart
  <1>2. /\ thread[t].at = "idle"
        /\ UNCHANGED <<database, queueing, charts, blobs, manifests, runRows, layoutRows,
                       layouts, restarts, made>>
    BY DEF WantChart, IsAt, Charts, Runs, Layouts, Config
  <1>3. /\ thread' \in [Threads -> Doing]
        /\ thread'[t].payload = p /\ thread'[t].shown = Absent
        /\ \A u \in Threads : u # t => thread'[u] = thread[u]
    BY <1>1, IdleIsTyped, TypeUnfolds DEF Doing, Places
  <1>4. ChartTypeOK'
    BY <1>2, <1>3, TypeUnfolds DEF ChartTypeOK, Doing, Places
  <1>5. ThreadsHold'
    BY <1>3 DEF ThreadsHold
  <1>6. ChartsShowTheirKey'
    BY <1>2 DEF ChartsShowTheirKey
  <1>7. ChartsAreWhole'
    BY <1>2, <1>3, ChartsRest, FilesAreFiles
  <1>8. RunIsKept'
    BY <1>2, RunsRest DEF Runs
  <1> QED
    BY <1>4, <1>5, <1>6, <1>7, <1>8

LEMMA ReadChartSound == ASSUME ChartInv, NEW t \in Threads, ReadChart(t) PROVE ChartInv'
  <1> USE DEF ChartInv
  <1>1. /\ thread[t].at = "read"
        /\ thread' = [thread EXCEPT ![t].at = "idle", ![t].shown = charts[Key(thread[t].payload)]]
        /\ UNCHANGED <<database, queueing, charts, blobs, manifests, runRows, layoutRows,
                       layouts, restarts, made>>
    BY DEF ReadChart, IsAt, Charts, Runs, Layouts, Config
  <1>2. thread[t].payload \in Payloads /\ Key(thread[t].payload) \in ChartKeys
    BY <1>1, KeysAreKeys DEF ThreadsHold
  <1>3. charts[Key(thread[t].payload)] \in Files
    BY <1>2 DEF ChartsShowTheirKey
  <1>4. /\ thread' \in [Threads -> Doing]
        /\ thread'[t] = [thread[t] EXCEPT !.at = "idle", !.shown = charts[Key(thread[t].payload)]]
        /\ \A u \in Threads : u # t => thread'[u] = thread[u]
    <2> DEFINE goes == [thread[t] EXCEPT !.at = "idle", !.shown = charts[Key(thread[t].payload)]]
    <2>1. thread \in [Threads -> Doing] /\ thread[t] \in Doing
      BY TypeUnfolds
    <2>2. goes \in Doing
      BY <2>1, <1>3 DEF Doing, Places
    <2>3. thread' = [thread EXCEPT ![t] = goes]
      BY <2>1, <1>1
    <2> QED
      BY <2>1, <2>2, <2>3
  <1>5. /\ thread'[t].at = "idle" /\ thread'[t].payload = thread[t].payload
        /\ thread'[t].shown = charts[Key(thread[t].payload)]
    BY <1>4, TypeUnfolds DEF Doing
  <1>6. ChartTypeOK'
    BY <1>1, <1>4, TypeUnfolds DEF ChartTypeOK, Doing, Places
  <1>7. ThreadsHold'
    BY <1>4, <1>5 DEF ThreadsHold
  <1>8. ChartsShowTheirKey'
    BY <1>1 DEF ChartsShowTheirKey
  <1>9. ChartsAreWhole'
    BY <1>1, <1>2, <1>4, <1>5 DEF ChartsAreWhole, ChartsShowTheirKey, Writes, Key
  <1>10. RunIsKept'
    BY <1>1, RunsRest DEF Runs
  <1> QED
    BY <1>6, <1>7, <1>8, <1>9, <1>10

LEMMA OpenChartSound == ASSUME ChartInv, NEW t \in Threads, OpenChart(t) PROVE ChartInv'
  <1> USE DEF ChartInv
  <1> DEFINE k == Key(thread[t].payload)
  <1>1. /\ thread[t].at = "render"
        /\ thread' = [thread EXCEPT ![t].at = "draw"]
        /\ charts' = [charts EXCEPT ![k] = Torn]
        /\ UNCHANGED <<database, queueing, blobs, manifests, runRows, layoutRows,
                       layouts, restarts, made>>
    BY DEF OpenChart, IsAt, Goes, Runs, Layouts, Config
  <1>2. thread[t].payload \in Payloads /\ k \in ChartKeys
    BY <1>1, KeysAreKeys DEF ThreadsHold
  <1>3. Goes(t, "draw") /\ "draw" \in Places
    BY DEF OpenChart, Places
  <1>4. /\ thread' \in [Threads -> Doing]
        /\ thread'[t].at = "draw" /\ thread'[t].payload = thread[t].payload
        /\ thread'[t].shown = thread[t].shown
        /\ \A u \in Threads : u # t => thread'[u] = thread[u]
    BY <1>3, GoesOn
  <1>5. ChartsShowTheirKey'
    BY <1>1, FilesAreFiles DEF ChartsShowTheirKey
  <1>6. DOMAIN charts = ChartKeys /\ DOMAIN charts' = ChartKeys
    BY <1>1 DEF ChartsShowTheirKey
  <1>7. ChartTypeOK'
    BY <1>1, <1>4, <1>5, <1>6, TypeUnfolds DEF ChartTypeOK, Doing, Places, ChartsShowTheirKey
  <1>8. ThreadsHold'
    BY <1>2, <1>4 DEF ThreadsHold
  <1>9. ChartsAreWhole'
    <2>1. ASSUME restarts' = 0, NEW j \in ChartKeys, charts'[j].state = "torn"
          PROVE  \E u \in Threads : Writes(u, j)'
      <3>1. CASE j = k
        BY <3>1, <1>4 DEF Writes, Key
      <3>2. CASE j # k
        <4>1. PICK u \in Threads : Writes(u, j)
          BY <3>2, <2>1, <1>1, <1>6 DEF ChartsAreWhole
        <4> QED
          BY <4>1, <1>1, <1>4 DEF Writes
      <3> QED
        BY <3>1, <3>2
    <2>2. ASSUME NEW u \in Threads, thread'[u].shown.state = "whole"
          PROVE  thread'[u].shown.shows.data = thread'[u].payload.data
      <3>1. thread'[u].shown = thread[u].shown /\ thread'[u].payload = thread[u].payload
        BY <1>4
      <3> QED
        BY <2>2, <3>1 DEF ChartsAreWhole
    <2> QED
      BY <2>1, <2>2, <1>6 DEF ChartsAreWhole
  <1>10. RunIsKept'
    BY <1>1, RunsRest DEF Runs
  <1> QED
    BY <1>5, <1>7, <1>8, <1>9, <1>10

LEMMA FillChartSound == ASSUME ChartInv, NEW t \in Threads, FillChart(t) PROVE ChartInv'
  <1> USE DEF ChartInv
  <1> DEFINE k == Key(thread[t].payload)
  <1>1. /\ thread[t].at = "draw"
        /\ charts' = [charts EXCEPT ![k] = Whole(thread[t].payload)]
        /\ thread' = [thread EXCEPT ![t].at = IF queueing THEN "queue" ELSE "idle",
                                    ![t].shown = Whole(thread[t].payload)]
        /\ UNCHANGED <<database, queueing, blobs, manifests, runRows, layoutRows,
                       layouts, restarts, made>>
    BY DEF FillChart, IsAt, Runs, Layouts, Config
  <1>2. thread[t].payload \in Payloads /\ k \in ChartKeys
    BY <1>1, KeysAreKeys DEF ThreadsHold
  <1>3. /\ thread' \in [Threads -> Doing]
        /\ thread'[t] = [thread[t] EXCEPT !.at = IF queueing THEN "queue" ELSE "idle",
                                          !.shown = Whole(thread[t].payload)]
        /\ \A u \in Threads : u # t => thread'[u] = thread[u]
    <2> DEFINE goes == [thread[t] EXCEPT !.at = IF queueing THEN "queue" ELSE "idle",
                                         !.shown = Whole(thread[t].payload)]
    <2>1. thread \in [Threads -> Doing] /\ thread[t] \in Doing
      BY TypeUnfolds
    <2>2. goes \in Doing
      BY <2>1, <1>2, FilesAreFiles DEF Doing, Places
    <2>3. thread' = [thread EXCEPT ![t] = goes]
      BY <2>1, <1>1
    <2> QED
      BY <2>1, <2>2, <2>3
  <1>4. /\ thread'[t].at \in {"queue", "idle"} /\ thread'[t].payload = thread[t].payload
        /\ thread'[t].shown = Whole(thread[t].payload)
    BY <1>3, TypeUnfolds DEF Doing
  <1>5. ChartsShowTheirKey'
    BY <1>1, <1>2, FilesAreFiles DEF ChartsShowTheirKey, Key
  <1>6. DOMAIN charts = ChartKeys /\ DOMAIN charts' = ChartKeys
    BY <1>1 DEF ChartsShowTheirKey
  <1>7. ChartTypeOK'
    BY <1>1, <1>3, <1>5, <1>6, TypeUnfolds DEF ChartTypeOK, Doing, Places, ChartsShowTheirKey
  <1>8. ThreadsHold'
    BY <1>2, <1>3, <1>4 DEF ThreadsHold
  <1>9. ChartsAreWhole'
    <2>1. ASSUME restarts' = 0, NEW j \in ChartKeys, charts'[j].state = "torn"
          PROVE  \E u \in Threads : Writes(u, j)'
      <3>1. j # k
        BY <2>1, <1>1, <1>2, FilesAreFiles DEF ChartsShowTheirKey
      <3>2. PICK u \in Threads : Writes(u, j)
        BY <3>1, <2>1, <1>1, <1>6 DEF ChartsAreWhole
      <3>3. u # t
        BY <3>1, <3>2 DEF Writes
      <3> QED
        BY <3>2, <3>3, <1>3 DEF Writes
    <2>2. ASSUME NEW u \in Threads, thread'[u].shown.state = "whole"
          PROVE  thread'[u].shown.shows.data = thread'[u].payload.data
      <3>1. CASE u = t
        BY <3>1, <1>2, <1>4, FilesAreFiles
      <3>2. CASE u # t
        BY <3>2, <2>2, <1>3 DEF ChartsAreWhole
      <3> QED
        BY <3>1, <3>2
    <2> QED
      BY <2>1, <2>2, <1>6 DEF ChartsAreWhole
  <1>10. RunIsKept'
    BY <1>1, RunsRest DEF Runs
  <1> QED
    BY <1>5, <1>7, <1>8, <1>9, <1>10

LEMMA QueueChartSound == ASSUME ChartInv, NEW t \in Threads, QueueChart(t) PROVE ChartInv'
  <1> USE DEF ChartInv
  <1>1. /\ thread[t].at = "queue"
        /\ thread' = [thread EXCEPT ![t].at = "idle"]
        /\ blobs' = blobs \cup {Key(thread[t].payload)}
        /\ UNCHANGED <<database, queueing, charts, manifests, runRows, layoutRows,
                       layouts, restarts, made>>
    BY DEF QueueChart, IsAt, Goes, Runs, Layouts, Config
  <1>2. Key(thread[t].payload) \in DOMAIN charts
    BY <1>1, KeysAreKeys DEF ThreadsHold, ChartsShowTheirKey
  <1>3. Goes(t, "idle") /\ "idle" \in Places
    BY DEF QueueChart, Places
  <1>4. /\ thread' \in [Threads -> Doing]
        /\ thread'[t].at = "idle" /\ thread'[t].payload = thread[t].payload
        /\ thread'[t].shown = thread[t].shown
        /\ \A u \in Threads : u # t => thread'[u] = thread[u]
    BY <1>3, GoesOn
  <1>5. ChartTypeOK'
    BY <1>1, <1>2, <1>4, TypeUnfolds DEF ChartTypeOK, Doing, Places
  <1>6. ThreadsHold' /\ ChartsShowTheirKey'
    BY <1>1, <1>4 DEF ThreadsHold, ChartsShowTheirKey
  <1>7. ChartsAreWhole'
    BY <1>1, <1>4, ChartsRest
  <1>8. RunIsKept'
    BY <1>1, RunsRest DEF Runs
  <1> QED
    BY <1>5, <1>6, <1>7, <1>8

-----------------------------------------------------------------------------
\* A step of the runs or of the layouts, in which a thread that writes no chart goes on.
LEMMA OffTheCharts ==
    ASSUME ChartInv, NEW t \in Threads, UNCHANGED <<database, queueing, restarts, charts, blobs>>,
           thread' \in [Threads -> Doing],
           \A u \in Threads : u # t => thread'[u] = thread[u],
           thread[t].at # "draw",
           \/ thread'[t].shown.state # "whole"
           \/ thread'[t].shown = thread[t].shown /\ thread'[t].payload = thread[t].payload,
           thread'[t].at \notin {"render", "read", "draw", "queue", "run"}
                \/ thread'[t].payload \in Payloads,
           manifests' \in [Payloads -> {"absent", "torn", "whole"}],
           runRows' \subseteq Payloads, made' \subseteq Payloads, RunIsKept',
           layoutRows' \in [Names -> Typed \cup {NoId}],
           layouts' \in [Typed -> [state: {"absent", "torn", "whole"}, name: Names \cup {NoId}]]
    PROVE  ChartInv'
  <1> USE DEF ChartInv
  <1>1. ChartTypeOK'
    BY TypeUnfolds DEF ChartTypeOK, Doing, Places
  <1>2. ThreadsHold' /\ ChartsShowTheirKey'
    BY DEF ThreadsHold, ChartsShowTheirKey
  <1>3. ChartsAreWhole'
    BY ChartsRest
  <1> QED
    BY <1>1, <1>2, <1>3

LEMMA StoreRunSound == ASSUME ChartInv, NEW t \in Threads, StoreRun(t) PROVE ChartInv'
  <1> USE DEF ChartInv
  <1>1. PICK p \in Payloads : runRows' = runRows \cup {p} /\ made' = made \cup {p}
    BY DEF StoreRun
  <1>2. /\ thread[t].at = "idle" /\ database
        /\ UNCHANGED <<database, queueing, charts, blobs, manifests, layoutRows,
                       layouts, restarts, thread>>
    BY DEF StoreRun, IsAt, Charts, Layouts, Config
  <1>3. RunIsKept'
    BY <1>1, <1>2 DEF RunIsKept, Loadable
  <1> QED
    BY <1>1, <1>2, <1>3, TypeUnfolds, OffTheCharts

LEMMA OpenRunSound == ASSUME ChartInv, NEW t \in Threads, OpenRun(t) PROVE ChartInv'
  <1> USE DEF ChartInv
  <1>1. PICK p \in Payloads :
            /\ manifests' = [manifests EXCEPT ![p] = "torn"]
            /\ thread' = [thread EXCEPT ![t] = [Idle EXCEPT !.at = "run", !.payload = p]]
    BY DEF OpenRun
  <1>2. /\ thread[t].at = "idle"
        /\ UNCHANGED <<database, queueing, charts, blobs, runRows, made, layoutRows,
                       layouts, restarts>>
    BY DEF OpenRun, IsAt, Charts, Layouts, Config
  <1> DEFINE new == [Idle EXCEPT !.at = "run", !.payload = p]
  <1>3. new \in Doing /\ new.shown = Absent /\ new.payload = p
    BY IdleIsTyped DEF Doing, Places
  <1>4. /\ thread' \in [Threads -> Doing]
        /\ thread'[t] = new /\ thread'[t].shown.state # "whole"
        /\ \A u \in Threads : u # t => thread'[u] = thread[u]
    BY <1>1, <1>3, GoesNew
  <1>5. manifests' \in [Payloads -> {"absent", "torn", "whole"}]
    BY <1>1, TypeUnfolds
  <1>6. RunIsKept'
    BY <1>1, <1>2, TypeUnfolds DEF RunIsKept, Loadable
  <1> QED
    BY ZenonT(60), <1>2, <1>3, <1>4, <1>5, <1>6, TypeUnfolds, OffTheCharts

LEMMA FillRunSound == ASSUME ChartInv, NEW t \in Threads, FillRun(t) PROVE ChartInv'
  <1> USE DEF ChartInv
  <1> DEFINE p == thread[t].payload
  <1>1. /\ thread[t].at = "run" /\ Goes(t, "idle") /\ "idle" \in Places
        /\ manifests' = [manifests EXCEPT ![p] = "whole"]
        /\ made' = made \cup {p}
        /\ UNCHANGED <<database, queueing, charts, blobs, runRows, layoutRows,
                       layouts, restarts>>
    BY DEF FillRun, IsAt, Charts, Layouts, Config, Places
  <1>2. p \in Payloads
    BY <1>1 DEF ThreadsHold
  <1>3. /\ thread' \in [Threads -> Doing]
        /\ thread'[t].at = "idle" /\ thread'[t].payload = thread[t].payload
        /\ thread'[t].shown = thread[t].shown
        /\ \A u \in Threads : u # t => thread'[u] = thread[u]
    BY <1>1, GoesOn
  <1>4. /\ manifests' \in [Payloads -> {"absent", "torn", "whole"}]
        /\ made' \subseteq Payloads
    BY <1>1, <1>2, TypeUnfolds
  <1>5. RunIsKept'
    BY <1>1, <1>2, TypeUnfolds DEF RunIsKept, Loadable
  <1> QED
    BY <1>1, <1>2, <1>3, <1>4, <1>5, TypeUnfolds, OffTheCharts

-----------------------------------------------------------------------------
\* The layouts.
LEMMA StripsToNames == \A typed \in Typed : Strip(typed) \in Names
  BY DEF Names

\* What a save does before it writes: a name and an id are remembered.
LEMMA RemembersSound ==
    ASSUME ChartInv, NEW t \in Threads, NEW at \in {"upsert", "layout"},
           NEW n \in Names, NEW i \in Typed \cup {NoId},
           thread[t].at = "idle",
           thread' = [thread EXCEPT ![t] = [Idle EXCEPT !.at = at, !.name = n, !.id = i]],
           UNCHANGED <<Charts, Runs, Layouts, Config>>
    PROVE  ChartInv'
  <1> USE DEF ChartInv
  <1> DEFINE new == [Idle EXCEPT !.at = at, !.name = n, !.id = i]
  <1>1. new \in Doing /\ new.shown = Absent /\ new.at = at
    BY IdleIsTyped DEF Doing, Places
  <1>2. /\ thread' \in [Threads -> Doing]
        /\ thread'[t] = new /\ thread'[t].shown.state # "whole"
        /\ \A u \in Threads : u # t => thread'[u] = thread[u]
    BY <1>1, GoesNew
  <1>3. UNCHANGED <<database, queueing, restarts, charts, blobs, manifests, runRows, made,
                    layoutRows, layouts>>
    BY DEF Charts, Runs, Layouts, Config
  <1>4. RunIsKept'
    BY <1>3, RunsRest DEF Runs
  <1> QED
    BY <1>1, <1>2, <1>3, <1>4, TypeUnfolds, OffTheCharts

LEMMA SelectLayoutSound == ASSUME ChartInv, NEW t \in Threads, SelectLayout(t) PROVE ChartInv'
  <1>1. PICK typed \in Typed :
            thread' = [thread EXCEPT ![t] = [Idle EXCEPT !.at = "upsert", !.name = Strip(typed),
                !.id = IF layoutRows[Strip(typed)] # NoId THEN layoutRows[Strip(typed)] ELSE typed]]
    BY DEF SelectLayout
  <1> DEFINE i == IF layoutRows[Strip(typed)] # NoId THEN layoutRows[Strip(typed)] ELSE typed
  <1>2. i \in Typed \cup {NoId}
    BY StripsToNames, TypeUnfolds DEF ChartInv
  <1>3. thread[t].at = "idle" /\ UNCHANGED <<Charts, Runs, Layouts, Config>>
    BY DEF SelectLayout, IsAt
  <1> QED
    BY <1>1, <1>2, <1>3, StripsToNames, RemembersSound

LEMMA FindLayoutSound == ASSUME ChartInv, NEW t \in Threads, FindLayout(t) PROVE ChartInv'
  <1>1. PICK typed \in Typed :
          \E i \in IF OfName(Strip(typed)) # {} THEN OfName(Strip(typed)) ELSE {typed} :
            thread' = [thread EXCEPT ![t] =
                          [Idle EXCEPT !.at = "layout", !.name = Strip(typed), !.id = i]]
    BY DEF FindLayout
  <1>2. PICK i \in Typed :
            thread' = [thread EXCEPT ![t] =
                          [Idle EXCEPT !.at = "layout", !.name = Strip(typed), !.id = i]]
    BY <1>1 DEF OfName
  <1>3. thread[t].at = "idle" /\ UNCHANGED <<Charts, Runs, Layouts, Config>>
    BY DEF FindLayout, IsAt
  <1> QED
    BY <1>2, <1>3, StripsToNames, RemembersSound

\* A write of the layouts: a thread at a place of the layouts goes on.
LEMMA WritesLayoutSound ==
    ASSUME ChartInv, NEW t \in Threads, thread[t].at \in {"upsert", "layout", "fill"},
           NEW at \in {"idle", "fill"}, Goes(t, at), UNCHANGED <<Charts, Runs, Config>>,
           layoutRows' \in [Names -> Typed \cup {NoId}],
           layouts' \in [Typed -> [state: {"absent", "torn", "whole"}, name: Names \cup {NoId}]]
    PROVE  ChartInv'
  <1> USE DEF ChartInv
  <1>1. at \in Places
    BY DEF Places
  <1>2. /\ thread' \in [Threads -> Doing]
        /\ thread'[t].at = at /\ thread'[t].payload = thread[t].payload
        /\ thread'[t].shown = thread[t].shown
        /\ \A u \in Threads : u # t => thread'[u] = thread[u]
    BY <1>1, GoesOn
  <1>3. UNCHANGED <<database, queueing, restarts, charts, blobs, manifests, runRows, made>>
    BY DEF Charts, Runs, Config
  <1>4. RunIsKept'
    BY <1>3, RunsRest DEF Runs
  <1> QED
    BY <1>2, <1>3, <1>4, TypeUnfolds, OffTheCharts

LEMMA UpsertLayoutSound == ASSUME ChartInv, NEW t \in Threads, UpsertLayout(t) PROVE ChartInv'
  <1>1. thread[t].id \in Typed \cup {NoId}
    BY TypeUnfolds DEF ChartInv, Doing
  <1>2. layoutRows' \in [Names -> Typed \cup {NoId}]
    BY <1>1, TypeUnfolds DEF UpsertLayout, ChartInv
  <1> QED
    BY <1>2, TypeUnfolds, WritesLayoutSound DEF UpsertLayout, IsAt, ChartInv

LEMMA OpenLayoutSound == ASSUME ChartInv, NEW t \in Threads, OpenLayout(t) PROVE ChartInv'
  <1>1. layouts' \in [Typed -> [state: {"absent", "torn", "whole"}, name: Names \cup {NoId}]]
    BY TypeUnfolds DEF OpenLayout, ChartInv
  <1>2. layoutRows' \in [Names -> Typed \cup {NoId}]
    BY TypeUnfolds DEF OpenLayout, ChartInv
  <1> QED
    BY <1>1, <1>2, WritesLayoutSound DEF OpenLayout, IsAt

LEMMA FillLayoutSound == ASSUME ChartInv, NEW t \in Threads, FillLayout(t) PROVE ChartInv'
  <1>1. thread[t].name \in Names \cup {NoId}
    BY TypeUnfolds DEF ChartInv, Doing
  <1>2. layouts' \in [Typed -> [state: {"absent", "torn", "whole"}, name: Names \cup {NoId}]]
    BY <1>1, TypeUnfolds DEF FillLayout, ChartInv
  <1>3. layoutRows' \in [Names -> Typed \cup {NoId}]
    BY TypeUnfolds DEF FillLayout, ChartInv
  <1> QED
    BY <1>2, <1>3, WritesLayoutSound DEF FillLayout, IsAt

LEMMA DeleteLayoutSound == ASSUME ChartInv, NEW t \in Threads, DeleteLayout(t) PROVE ChartInv'
  <1> USE DEF ChartInv
  <1>1. layoutRows' \in [Names -> Typed \cup {NoId}]
    BY TypeUnfolds DEF DeleteLayout
  <1>2. layouts' \in [Typed -> [state: {"absent", "torn", "whole"}, name: Names \cup {NoId}]]
    BY TypeUnfolds DEF DeleteLayout, NoLayout
  <1>3. /\ thread[t].at = "idle"
        /\ UNCHANGED <<database, queueing, restarts, charts, blobs, manifests, runRows, made,
                       thread>>
    BY DEF DeleteLayout, IsAt, Charts, Runs, Config
  <1>4. RunIsKept'
    BY <1>3, RunsRest DEF Runs
  <1> QED
    BY <1>1, <1>2, <1>3, <1>4, TypeUnfolds, OffTheCharts

-----------------------------------------------------------------------------
\* The process dies and starts again: a database that is switched on stays on.
LEMMA RestartSound == ASSUME ChartInv, Restart PROVE ChartInv'
  <1> USE DEF ChartInv
  <1>1. /\ restarts < MaxRestarts /\ restarts' = restarts + 1
        /\ thread' = [t \in Threads |-> Idle]
        /\ database' \in BOOLEAN /\ (database => database')
        /\ queueing' \in BOOLEAN
        /\ UNCHANGED <<charts, blobs, manifests, runRows, made, layoutRows, layouts>>
    BY TypeUnfolds DEF Restart, Charts, Runs, Layouts
  <1>2. restarts' \in 0..MaxRestarts /\ restarts' # 0
    BY <1>1, ChartStoreAssumption, TypeUnfolds
  <1>3. ChartTypeOK'
    BY <1>1, <1>2, IdleIsTyped, TypeUnfolds DEF ChartTypeOK, Doing, Places
  <1>4. ThreadsHold' /\ ChartsShowTheirKey'
    BY <1>1, IdleIsTyped DEF ThreadsHold, ChartsShowTheirKey
  <1>5. ChartsAreWhole'
    BY <1>1, <1>2, IdleIsTyped, FilesAreFiles DEF ChartsAreWhole
  <1>6. RunIsKept'
    BY <1>1 DEF RunIsKept, Loadable
  <1> QED
    BY <1>3, <1>4, <1>5, <1>6

LEMMA StutterSound == ASSUME ChartInv, UNCHANGED chartVars PROVE ChartInv'
  BY DEF ChartInv, chartVars, ChartTypeOK, ThreadsHold, ChartsShowTheirKey, ChartsAreWhole, Writes,
         RunIsKept, Loadable

LEMMA StepSound == ASSUME ChartInv, [ChartNext]_chartVars PROVE ChartInv'
  <1>1. CASE ChartStep
    BY <1>1, WantChartSound, ReadChartSound, OpenChartSound, FillChartSound, QueueChartSound
    DEF ChartStep
  <1>2. CASE RunStep
    BY <1>2, StoreRunSound, OpenRunSound, FillRunSound DEF RunStep
  <1>3. CASE LayoutStep
    BY <1>3, SelectLayoutSound, UpsertLayoutSound, DeleteLayoutSound, FindLayoutSound,
       OpenLayoutSound, FillLayoutSound DEF LayoutStep
  <1>4. CASE Restart
    BY <1>4, RestartSound
  <1>5. CASE UNCHANGED chartVars
    BY <1>5, StutterSound
  <1> QED
    BY <1>1, <1>2, <1>3, <1>4, <1>5 DEF ChartNext

LEMMA ChartInvariance == ChartSpec => []ChartInv
  BY InitSound, StepSound, PTL DEF ChartSpec

-----------------------------------------------------------------------------
\* The three stores and the threads have the states they declare.
THEOREM ChartsAreTyped == ChartSpec => []ChartTypeOK
  <1>1. ChartInv => ChartTypeOK
    BY DEF ChartInv
  <1> QED
    BY <1>1, ChartInvariance, PTL

\* However many threads render the same chart at once (chart_cache.py:43): as long as the
\* process has not died, a torn chart file has a thread that is still writing it, and a
\* chart that is served whole shows the data that was asked for.
THEOREM ChartsStayWhole == ChartSpec => []ChartsAreWhole
  <1>1. ChartInv => ChartsAreWhole
    BY DEF ChartInv
  <1> QED
    BY <1>1, ChartInvariance, PTL

\* An upsert changes the id of no name that has one, and nothing else but a deletion
\* touches the ids (chart_layouts.py:93).
LEMMA IdsAreStable == ASSUME ChartInv, [ChartNext]_chartVars PROVE [LayoutIdIsStable]_chartVars
  <1> USE DEF ChartInv
  <1>1. layoutRows \in [Names -> Typed \cup {NoId}]
    BY TypeUnfolds
  <1>2. ASSUME NEW t \in Threads, UpsertLayout(t) PROVE LayoutIdIsStable
    BY <1>1, <1>2 DEF UpsertLayout, LayoutIdIsStable
  <1>3. ASSUME NEW t \in Threads, DeleteLayout(t) PROVE LayoutIdIsStable
    BY <1>1, <1>3 DEF DeleteLayout, LayoutIdIsStable
  <1>4. CASE ChartStep
    <2>1. layoutRows' = layoutRows
      BY <1>4 DEF ChartStep, WantChart, ReadChart, OpenChart, FillChart, QueueChart, Layouts
    <2> QED
      BY <2>1 DEF LayoutIdIsStable
  <1>5. CASE RunStep
    <2>1. layoutRows' = layoutRows
      BY <1>5 DEF RunStep, StoreRun, OpenRun, FillRun, Layouts
    <2> QED
      BY <2>1 DEF LayoutIdIsStable
  <1>6. CASE LayoutStep
    <2>1. ASSUME NEW t \in Threads,
                 SelectLayout(t) \/ FindLayout(t) \/ OpenLayout(t) \/ FillLayout(t)
          PROVE  LayoutIdIsStable
      BY <2>1 DEF SelectLayout, FindLayout, OpenLayout, FillLayout, Layouts, LayoutIdIsStable
    <2> QED
      BY <1>2, <1>3, <1>6, <2>1 DEF LayoutStep
  <1>7. CASE Restart
    BY <1>7 DEF Restart, Layouts, LayoutIdIsStable
  <1> QED
    BY <1>4, <1>5, <1>6, <1>7 DEF ChartNext

\* A run that was answered can be replayed, before and after restarts and with a database
\* switched on in between (chart_runs.py:50); a saved layout keeps the id it was listed
\* with, however many threads save its name at once.
THEOREM StoresAreTrue == ChartSpec => StoresKeepTheirWord
  <1>1. ChartInv => RunIsKept
    BY DEF ChartInv
  <1>2. ChartInv /\ [ChartNext]_chartVars => [LayoutIdIsStable]_chartVars
    BY IdsAreStable
  <1> QED
    BY <1>1, <1>2, ChartInvariance, PTL DEF ChartSpec, StoresKeepTheirWord

-----------------------------------------------------------------------------
(* The parts together.  A step of one leaves the others as they are, so    *)
(* that what is proved of each is true of the whole that is model-checked. *)

LEMMA PartsStep ==
    ASSUME [MCNext]_<<part, vars, apiVars, chartVars>>
    PROVE  [Next]_vars /\ [ApiNext]_apiVars /\ [ChartNext]_chartVars
  BY DEF MCNext, ChartNext

LEMMA PartsAreTheirSpecifications == MCSpec => Spec /\ ApiSpec /\ ChartSpec
  <1>1. MCInit => Init /\ ApiInit /\ ChartInit
    BY DEF MCInit
  <1>2. [MCNext]_<<part, vars, apiVars, chartVars>> =>
            [Next]_vars /\ [ApiNext]_apiVars /\ [ChartNext]_chartVars
    BY PartsStep
  <1> QED
    BY <1>1, <1>2, PTL DEF MCSpec, Spec, ApiSpec, ChartSpec

\* The three parts have the states they declare.
THEOREM PartsTypeCorrect == MCSpec => []PartsTypeOK
  <1>1. TypeOK /\ ApiTypeOK /\ ChartTypeOK => PartsTypeOK
    BY DEF PartsTypeOK
  <1> QED
    BY <1>1, PartsAreTheirSpecifications, LimiterIsTyped, ApiTypeCorrect, ChartsAreTyped, PTL

=================================================================================
