----------------------------- MODULE MCIngestion -----------------------------
(***************************************************************************)
(* Instances of Ingestion: the jobs a run may invoke, on documents of one  *)
(* or two rows, each with the program that Pipelines gives it.             *)
(***************************************************************************)
EXTENDS Ingestion, TLC

CONSTANTS a1, a2, a3

P == INSTANCE Pipelines

Row(table, key, ticker) ==
    [table |-> table, key |-> key, ticker |-> ticker,
     trace |-> P!RequiredFields \ {"filing_id"}]

\* A row whose trace has "N/A" for its currency.
NoCurrency(row) == [row EXCEPT !.trace = @ \ {"currency"}]

Doc(name, ticker, yields) ==
    [name |-> name, ticker |-> ticker, yields |-> yields, endpoint |-> "", local |-> TRUE]

\* The filing of a year and its restatement: the same metric, another accession.
Original == Doc("original", "005930.KS",
    <<Row("store_adjusted_earnings", "EPS 2024, accession 1", "005930.KS"),
      Row("store_metric_value", "revenue_share FY2024", "005930.KS")>>)
Restated == Doc("restated", "005930.KS",
    <<Row("store_adjusted_earnings", "EPS 2024, accession 2", "005930.KS"),
      Row("store_metric_value", "revenue_share FY2024", "005930.KS")>>)

Quotes == [Doc("quotes", "7203.T", <<Row("store_price_bar", "7203.T 2024-12-30", "7203.T")>>)
              EXCEPT !.endpoint = "/prices/daily_quotes"]
Dividends == [Doc("dividends", "7203.T", <<Row("store_dividend", "7203.T 2024-09-27", "7203.T")>>)
                 EXCEPT !.endpoint = "/fins/dividend"]
Statements == [Doc("statements", "7203.T",
                   <<Row("store_adjusted_earnings", "7203.T EPS 2024", "7203.T"),
                     Row("store_metric_value", "reported_eps FY2024", "7203.T")>>)
                  EXCEPT !.endpoint = "/fins/statements"]

Fred == Doc("USREC", "USREC",
    <<NoCurrency(Row("store_macro_observation", "USREC 2020-03", "USREC")),
      NoCurrency(Row("store_recession_period", "2020-03", "USREC"))>>)
Kosis == Doc("KOSIS", "KOSIS",
    <<NoCurrency(Row("store_macro_observation", "KOSIS 2024", "KOSIS")),
      NoCurrency(Row("store_industry_observation", "IND:KOSIS 2024", "KOSIS"))>>)

CompanyFacts == Doc("companyfacts", "BULK",
    <<Row("store_financial_fact", "NetIncomeLoss 2024 USD", "AAPL"),
      Row("store_metric_value", "net_income FY2024", "AAPL")>>)
ForeignFacts == Doc("companyfacts", "BULK",
    <<NoCurrency(Row("store_financial_fact", "Revenues 2024 EUR", "AAPL"))>>)
Submissions == Doc("submissions", "BULK", <<>>)

Marcap == Doc("marcap", "KR_MARKET",
    <<Row("store_price_bar", "005930 12-30", "005930.KS"),
      Row("store_price_bar", "000660 12-30", "000660.KS")>>)
Estimates == Doc("estimates", "BATCH",
    <<Row("store_consensus_snapshot", "2026 median", "005930.KS"),
      Row("store_consensus_snapshot", "2026 low", "005930.KS")>>)
Fnguide == Doc("fnguide", "BATCH",
    <<Row("store_metric_value", "005930.KS fnguide revenue FY2024", "005930.KS"),
      Row("store_metric_value", "000660.KS fnguide revenue FY2024", "000660.KS")>>)
MarketRows ==
    <<Row("store_price_bar", "005930.KS csv 2024-12-30", "005930.KS"),
      Row("store_dividend", "005930.KS csv 2024-12-30", "005930.KS")>>

Exhibit  == Doc("exhibit", "AAPL", <<>>)
Bridge(n) == [key |-> "AAPL EPS 2024", source |-> "exhibit", lines |-> n]
\* A record whose trace names no filing of the run: the first one stands in.
Unnamed == [key |-> "AAPL EPS 2023", source |-> "companyfacts", lines |-> 1]

KrCache == [name |-> "cache", ticker |-> "005930.KS",
            facts |-> <<[metric |-> "adjusted_operating_eps", key |-> "005930.KS EPS 2024"],
                        [metric |-> "price_close", key |-> "005930.KS krx 2024-12-30"],
                        [metric |-> "dividend_per_share", key |-> "005930.KS krx 2024-12-30"]>>]

Programs ==
    [collect_original |-> P!ConnectorDocuments("005930.KS", <<Original>>),
     collect_restated |-> P!ConnectorDocuments("005930.KS", <<Restated>>),
     collect_jquants  |-> P!JQuantsDocuments(<<Quotes, Dividends>>),
     collect_jquants_statements |-> P!JQuantsDocuments(<<Statements>>),
     collect_stooq    |-> P!StooqDocuments(<<Quotes>>),
     collect_fdr      |-> P!FdrDocuments(<<Quotes>>),
     collect_pykrx    |-> P!PykrxDocuments(<<Quotes>>),
     collect_edinet   |-> P!EdinetDocuments(<<Statements>>),
     collect_research |-> P!ResearchMetadataDocuments(<<Statements>>),
     collect_marcap   |-> P!MarcapDocuments(<<Marcap>>),
     collect_fred     |-> P!FredDocuments(<<Fred>>),
     collect_kosis    |-> P!RawStatDocuments(<<Kosis>>, TRUE),
     collect_sec_bulk |-> P!SecBulkDocuments(<<CompanyFacts, Submissions>>),
     load_sec_bulk    |-> P!SecBulkWarehouse(CompanyFacts, <<Submissions>>, <<"AAPL">>),
     load_sec_bulk_foreign |-> P!SecBulkWarehouse(ForeignFacts, <<>>, <<"AAPL">>),
     import_consensus |-> P!ConsensusCsv(Estimates),
     import_fnguide   |-> P!FnguideExport(Fnguide),
     import_market    |-> P!MarketCsv(MarketRows),
     normalize_long   |-> P!Normalization("AAPL", <<Exhibit>>, <<Bridge(2)>>),
     normalize_short  |-> P!Normalization("AAPL", <<Exhibit>>, <<Bridge(1), Unnamed>>),
     load_kr_cache    |-> P!KrValuationCache(KrCache)]

MCProgram == [j \in Jobs |-> Programs[j]]

CallsOf(p) == {p[i] : i \in DOMAIN p}
AllCalls   == UNION {CallsOf(MCProgram[j]) : j \in Jobs}
MCNoDoc    == P!NoDocument
MCDocs     == {c.doc : c \in AllCalls} \ {P!NoDocument}
MCKeys     == {c.key : c \in AllCalls}

\* The programs are as the theorems on single attempts ask; of all jobs, only the
\* collections of macro series store macro rows.
ASSUME MCPrograms ==
    /\ BridgesAreRewritten
    /\ Jobs \intersect {"collect_fred", "collect_kosis"} = {} => NoMacroRows

\* On disk before: the EDGAR cache, the bulk archives, the valuation cache.
MCLocalFiles == MCDocs \intersect {"exhibit", "cache"}

Symmetry == Permutations(Attempts)

=============================================================================
