---------------------------- MODULE SourceCoverage ----------------------------
(***************************************************************************)
(* Source coverage: which evidence every ticker must have, the report over *)
(* a list of tickers, and the remediation plan of the report: actions with *)
(* a priority, run in that order, and the prerequisites to satisfy first.  *)
(*                                                                         *)
(* Evidence is what a ticker has enough of to pass a check of the report;  *)
(* `have' maps a ticker to the checks it passes.                           *)
(***************************************************************************)
EXTENDS Naturals, Sequences, FiniteSets, SequencesExt

CONSTANTS KR, US, JP,   \* the tickers of the markets, in the order of the lists
          TopCap        \* the top-market-cap priority tickers

Markets == {"KR", "US", "JP"}
TickersOf(m) == CASE m = "KR" -> KR [] m = "US" -> US [] m = "JP" -> JP
Universe == Range(KR) \union Range(US) \union Range(JP)
MarketOf(t) == CHOOSE m \in Markets : t \in Range(TickersOf(m))

ASSUME CoverageAssumption ==
    /\ \A m \in Markets : TickersOf(m) \in Seq(Range(TickersOf(m))) /\ IsInjective(TickersOf(m))
    /\ \A m, n \in Markets : m # n => Range(TickersOf(m)) \cap Range(TickersOf(n)) = {}
    /\ TopCap \subseteq Universe

-------------------------------------------------------------------------------
(* The report. *)

Core == {"security", "adjusted_earnings", "price_bars", "financial_metrics",
         "source_evidence"}
Evidence == Core \union {"market_cap_evidence", "listed_shares_evidence", "consensus_forecast"}

Required(t, consensus) ==
    Core \union {e \in Evidence :
                    \/ e = "market_cap_evidence" /\ t \in TopCap
                    \/ e = "listed_shares_evidence" /\ t \in TopCap \cap Range(KR)
                    \/ e = "consensus_forecast" /\ consensus}

\* missing_by_requirement: the tickers a requirement is missing for.
MissingFor(have, T, consensus, e) == {t \in T : e \in Required(t, consensus) \ have[t]}

Covered(have, T, consensus) == \A t \in T : Required(t, consensus) \subseteq have[t]

Report(have, T, consensus) ==
    IF Covered(have, T, consensus) THEN "ready"
    ELSE IF \E t \in T : have[t] # {} THEN "partial" ELSE "missing"

-------------------------------------------------------------------------------
(* The commands of the worker that a plan or a run is made of. *)

Gives ==
    [collect_sec_bulk        |-> {},
     load_sec_bulk_warehouse |-> {"security", "financial_metrics", "source_evidence"},
     normalize_us_batch      |-> {"security", "adjusted_earnings", "source_evidence"},
     collect_opendart        |-> Core \ {"price_bars"},
     import_fnguide_export   |-> {"security", "financial_metrics", "source_evidence"},
     collect_jquants         |-> Core,
     collect_edinet          |-> {"security", "source_evidence"},
     collect_pykrx_prices    |-> {"security", "price_bars", "source_evidence"},
     collect_stooq_prices    |-> {"security", "price_bars", "source_evidence"},
     collect_marcap          |-> {"security", "price_bars", "market_cap_evidence",
                                  "listed_shares_evidence"},
     import_market_csv       |-> {"security", "price_bars", "market_cap_evidence",
                                  "source_evidence"},
     load_kr_valuation_postgres |-> Evidence \ {"consensus_forecast"},
     import_consensus_csv    |-> {"security", "consensus_forecast"}]

Credential ==
    [collect_sec_bulk |-> "SEC_USER_AGENT",     normalize_us_batch |-> "SEC_USER_AGENT",
     collect_opendart |-> "OPENDART_API_KEY",   collect_jquants |-> "JQUANTS credentials",
     collect_edinet |-> "EDINET_API_KEY",       import_consensus_csv |-> "forecast CSV"]

Needs(id) == IF id \in DOMAIN Credential THEN {Credential[id]} ELSE {}

-------------------------------------------------------------------------------
(* The remediation plan. *)

\* Mutant: the archives are loaded before they are downloaded.
PriorityOfLoadFirst ==
    [run_priority_e2e |-> 1, collect_sec_bulk |-> 11, load_sec_bulk_warehouse |-> 10,
     collect_opendart |-> 12, collect_jquants |-> 12, import_fnguide_export |-> 13,
     collect_edinet |-> 13, normalize_us_batch |-> 20, collect_pykrx_prices |-> 30,
     collect_stooq_prices |-> 30, collect_marcap |-> 31, import_market_csv |-> 31,
     import_consensus_csv |-> 41]

Priority ==
    [run_priority_e2e |-> 1, collect_sec_bulk |-> 10, load_sec_bulk_warehouse |-> 11,
     collect_opendart |-> 12, collect_jquants |-> 12, import_fnguide_export |-> 13,
     collect_edinet |-> 13, normalize_us_batch |-> 20, collect_pykrx_prices |-> 30,
     collect_stooq_prices |-> 30, collect_marcap |-> 31, import_market_csv |-> 31,
     import_consensus_csv |-> 41]

SourceMetricActions(m) ==
    CASE m = "US" -> {"collect_sec_bulk", "load_sec_bulk_warehouse"}
      [] m = "KR" -> {"collect_opendart", "import_fnguide_export"}
      [] m = "JP" -> {"collect_jquants", "collect_edinet"}
AdjustedEarningsActions(m) ==
    IF m = "US" THEN {"normalize_us_batch"} ELSE SourceMetricActions(m)
PriceActions(m) == IF m = "KR" THEN {"collect_pykrx_prices"} ELSE {"collect_stooq_prices"}
MarketStructureActions(m) == IF m = "KR" THEN {"collect_marcap"} ELSE {"import_market_csv"}

MarketsOf(T) == {MarketOf(t) : t \in T}

Action(id, T) == [id |-> id, tickers |-> T, priority |-> Priority[id]]

\* The actions for the tickers that miss one of the requirements, market by market.
ByMarket(missing, Actions(_)) ==
    UNION {{Action(id, {t \in missing : MarketOf(t) = m}) : id \in Actions(m)} :
              m \in MarketsOf(missing)}

PriorityBootstrap(T, missing) ==
    IF missing = {} \/ Cardinality(MarketsOf(T)) < 2 THEN {}
    ELSE {Action("run_priority_e2e", missing)}

Plan(have, T, consensus) ==
    LET Missing(requirements) ==
            UNION {MissingFor(have, T, consensus, e) : e \in requirements}
        forecast == Missing({"consensus_forecast"})
    IN  PriorityBootstrap(T, Missing(Evidence \ {"consensus_forecast"}))
        \union ByMarket(Missing({"security", "source_evidence", "financial_metrics"}),
                        SourceMetricActions)
        \union ByMarket(Missing({"adjusted_earnings"}), AdjustedEarningsActions)
        \union ByMarket(Missing({"price_bars"}), PriceActions)
        \union ByMarket(Missing({"market_cap_evidence", "listed_shares_evidence"}),
                        MarketStructureActions)
        \union (IF forecast = {} THEN {} ELSE {Action("import_consensus_csv", forecast)})

\* _remediation_prerequisites, of a database that answers.
Prerequisites(T, ids) ==
    LET asked(m, some) == m \in MarketsOf(T) /\ ids \cap (some \union {"run_priority_e2e"}) # {}
    IN  {c \in {"SEC_USER_AGENT"} : asked("US", {"collect_sec_bulk", "normalize_us_batch"})}
        \union {c \in {"OPENDART_API_KEY"} : asked("KR", {"collect_opendart"})}
        \union {c \in {"JQUANTS credentials"} : asked("JP", {"collect_jquants"})}
        \union {c \in {"EDINET_API_KEY"} : asked("JP", {"collect_edinet"})}
        \union {c \in {"forecast CSV"} : "import_consensus_csv" \in ids}

\* "satisfy prerequisites before running --persist commands": the targeted actions of
\* the plan whose prerequisites the report names.
Configured(plan, T) ==
    LET held == Prerequisites(T, {a.id : a \in plan})
    IN  {a \in plan : a.id # "run_priority_e2e" /\ Needs(a.id) \subseteq held}

\* "run actions in priority order": the archives are files of the machine, which
\* collect_sec_bulk leaves and load_sec_bulk_warehouse needs.
RunInOrder(actions, archives) ==
    {a \in actions : a.id = "load_sec_bulk_warehouse" =>
                        \/ archives
                        \/ \E b \in actions : b.id = "collect_sec_bulk" /\ b.priority < a.priority}

\* The evidence after one pass over the targeted actions, each of which finds its data.
AfterPlan(have, archives, T, consensus) ==
    LET ran == RunInOrder(Configured(Plan(have, T, consensus), T), archives)
    IN  [t \in Universe |->
            have[t] \union UNION {Gives[a.id] : a \in {b \in ran : t \in b.tickers}}]
===============================================================================
