------------------------------ MODULE Pipelines ------------------------------
(***************************************************************************)
(* The persist functions of services/ingestion_worker, each as the         *)
(* sequence of calls it makes that change state, in the order it makes     *)
(* them.  Ingestion executes such a sequence one call at a time.           *)
(*                                                                         *)
(* A document is a record of its name (what raw_objects keys on: content   *)
(* hash, source and identifier), the ticker it is about, and the rows its  *)
(* normaliser yields, in their order: each row with its table (the         *)
(* repository call that stores it), its natural key in that table, the     *)
(* ticker it belongs to and the fields its own source trace fills.         *)
(***************************************************************************)
EXTENDS Integers, Sequences, SequencesExt, TraceContract

NoDocument == "no document"
NoKey == <<"no table", "no key">>

\* A call: the repository function, the document and the natural key it is
\* about (a pair: table and key), the number of an adjustment line, whether its source trace passes the
\* contract, and whether it is made inside the `try` whose `except` records the
\* run as failed.
Call(op, doc, key) ==
    [op |-> op, doc |-> doc, key |-> key, line |-> 0, ready |-> TRUE, guarded |-> TRUE]

\* The call that stores a row: the repository completes its trace and checks it.
StoreRow(row, doc) ==
    [Call(row.table, doc, <<row.table, row.key>>)
        EXCEPT !.ready = StorageReady(row.trace, DefaultFields(row.table))]

\* The same calls, made before the `try`.
BeforeTry(calls) == [i \in DOMAIN calls |-> [calls[i] EXCEPT !.guarded = FALSE]]

StartRun  == BeforeTry(<<Call("start_run", NoDocument, NoKey)>>)
FinishRun == <<Call("finish_run", NoDocument, NoKey)>>

EnsureSecurity(ticker) == <<Call("ensure_security", NoDocument, <<"securities", ticker>>)>>

ForEach(seq, Body(_)) == FlattenSeq([i \in DOMAIN seq |-> Body(seq[i])])

-----------------------------------------------------------------------------
\* Storing a document: the part the persist functions share.

\* _write_raw_document, then the calls of the loop body up to store_raw_object.
StoreDocument(d) ==
    <<Call("write_raw_document", d.name, NoKey),
      Call("store_source_document", d.name, NoKey),
      Call("enqueue", d.name, NoKey),
      Call("store_raw_object", d.name, NoKey)>>

RowsOf(d, tables) == SelectSeq(d.yields, LAMBDA row : row.table \in tables)

StoreRows(d, tables) ==
    ForEach(RowsOf(d, tables), LAMBDA row : <<StoreRow(row, d.name)>>)

\* The adjusted record of a document, if there is one, and then its metrics.
MarketStandardDocument(d) ==
    StoreRows(d, {"store_adjusted_earnings"}) \o StoreRows(d, {"store_metric_value"})

\* One observation after the other, each with its industry row right after it.
OfficialStatDocument(d) ==
    StoreRows(d, {"store_macro_observation", "store_industry_observation"})

\* All observations, then the recession periods derived from USREC.
FredMacroDocument(d) ==
    StoreRows(d, {"store_macro_observation"}) \o StoreRows(d, {"store_recession_period"})

-----------------------------------------------------------------------------
\* _persist_connector_documents: one ticker, its security ensured once.
ConnectorDocuments(ticker, docs) ==
    StartRun \o EnsureSecurity(ticker)
    \o ForEach(docs, LAMBDA d : StoreDocument(d) \o MarketStandardDocument(d))
    \o FinishRun

\* _persist_sec_bulk_documents: archives, about no security.
SecBulkDocuments(docs) ==
    StartRun \o ForEach(docs, StoreDocument) \o FinishRun

\* The archive of the warehouse load: registered under its Blob key, not queued.
SecBulkArchive(d) ==
    <<Call("store_source_document", d.name, NoKey),
      Call("store_raw_object", d.name, NoKey)>>

\* _ensure_sec_bulk_securities: each ticker of the fact rows, once.
SecBulkSecurities(tickers) == ForEach(tickers, EnsureSecurity)

\* _persist_sec_bulk_warehouse: the facts and the metrics are all attributed to
\* the companyfacts archive.
SecBulkWarehouse(companyfacts, submissions, tickers) ==
    StartRun \o SecBulkArchive(companyfacts) \o ForEach(submissions, SecBulkArchive)
    \o SecBulkSecurities(tickers)
    \o StoreRows(companyfacts, {"store_financial_fact"})
    \o StoreRows(companyfacts, {"store_metric_value"})
    \o FinishRun

\* _persist_raw_stat_documents: ECOS, KOSIS, e-Stat.
RawStatDocuments(docs, normalizeMacro) ==
    StartRun
    \o ForEach(docs, LAMBDA d :
           StoreDocument(d) \o (IF normalizeMacro THEN OfficialStatDocument(d) ELSE <<>>))
    \o FinishRun

\* The loop of the collectors whose documents are each about one security.
DocumentsOfSecurities(docs, Rows(_)) ==
    StartRun
    \o ForEach(docs, LAMBDA d : EnsureSecurity(d.ticker) \o StoreDocument(d) \o Rows(d))
    \o FinishRun

NoRows(d)    == <<>>
PriceBars(d) == StoreRows(d, {"store_price_bar"})

\* A PyKRX document holds prices or fundamentals; fundamentals stay raw.
PykrxRows(d) == IF d.endpoint = "fundamental" THEN NoRows(d) ELSE PriceBars(d)

JQuantsRows(d) ==
    CASE d.endpoint = "/prices/daily_quotes" -> PriceBars(d)
      [] d.endpoint = "/fins/dividend"       -> StoreRows(d, {"store_dividend"})
      [] d.endpoint = "/fins/statements"     -> MarketStandardDocument(d)
      [] OTHER                               -> NoRows(d)

ResearchMetadataDocuments(docs) == DocumentsOfSecurities(docs, NoRows)
EdinetDocuments(docs)           == DocumentsOfSecurities(docs, NoRows)
StooqDocuments(docs)            == DocumentsOfSecurities(docs, PriceBars)
FdrDocuments(docs)              == DocumentsOfSecurities(docs, PriceBars)
PykrxDocuments(docs)            == DocumentsOfSecurities(docs, PykrxRows)
JQuantsDocuments(docs)          == DocumentsOfSecurities(docs, JQuantsRows)

\* _persist_fred_documents.
FredDocuments(docs) ==
    StartRun
    \o ForEach(docs, LAMBDA d : StoreDocument(d) \o FredMacroDocument(d))
    \o FinishRun

\* _persist_marcap_price_bars: a ticker the cache lacks is ensured, then cached.
MarcapPriceBars(d, cached) ==
    LET rows == RowsOf(d, {"store_price_bar"})
        Seen(i) == cached \union {rows[k].ticker : k \in 1..(i - 1)}
    IN  FlattenSeq([i \in DOMAIN rows |->
            (IF rows[i].ticker \in Seen(i) THEN <<>> ELSE EnsureSecurity(rows[i].ticker))
            \o <<StoreRow(rows[i], d.name)>>])

\* _persist_marcap_documents: one cache of securities for all documents.
MarcapDocuments(docs) ==
    LET Cached(i) == UNION {{row.ticker : row \in ToSet(docs[k].yields)} : k \in 1..(i - 1)}
    IN  StartRun
        \o FlattenSeq([i \in DOMAIN docs |->
               StoreDocument(docs[i]) \o MarcapPriceBars(docs[i], Cached(i))])
        \o FinishRun

-----------------------------------------------------------------------------
\* User imports: one document, then its rows, each after its own security.
SecurityThenRow(d) ==
    ForEach(d.yields, LAMBDA row :
        EnsureSecurity(row.ticker) \o <<StoreRow(row, d.name)>>)

\* import_consensus_csv and import_fnguide_export, with persist=True.
ConsensusCsv(d)   == StartRun \o StoreDocument(d) \o SecurityThenRow(d) \o FinishRun
FnguideExport(d)  == StartRun \o StoreDocument(d) \o SecurityThenRow(d) \o FinishRun

\* import_market_csv: no ingestion run, no document, nothing guarded; a dividend
\* is a row of the same line of the file, so its security was ensured before.
MarketCsv(rows) ==
    BeforeTry(ForEach(rows, LAMBDA row :
        (IF row.table = "store_price_bar" THEN EnsureSecurity(row.ticker) ELSE <<>>)
        \o <<StoreRow(row, NoDocument)>>))

-----------------------------------------------------------------------------
\* _persist_normalization: the SEC filings read by the normaliser, then its
\* records.  A filing that is only in memory (local = FALSE) is not queued.
NormalizationDocument(d) ==
    <<Call("store_source_document", d.name, NoKey)>>
    \o (IF d.local THEN <<Call("enqueue", d.name, NoKey)>> ELSE <<>>)
    \o <<Call("store_raw_object", d.name, NoKey)>>

\* source_ids.get(key) or the first filing of the run, or None.
Attribution(record, docs) ==
    IF \E i \in DOMAIN docs : docs[i].name = record.source THEN record.source
    ELSE IF docs # <<>> THEN docs[1].name
    ELSE NoDocument

\* The record, then its adjustment lines rewritten: one transaction each.
NormalizationRecord(record, docs) ==
    LET About(op) == Call(op, Attribution(record, docs),
                          <<"store_adjusted_earnings", record.key>>)
    IN  <<About("store_adjusted_earnings"), About("delete_adjustments_for")>>
        \o [n \in 1..record.lines |-> [About("store_adjustment") EXCEPT !.line = n]]

Normalization(ticker, docs, records) ==
    StartRun \o BeforeTry(EnsureSecurity(ticker))
    \o ForEach(docs, NormalizationDocument)
    \o ForEach(records, LAMBDA record : NormalizationRecord(record, docs))
    \o FinishRun

-----------------------------------------------------------------------------
\* kr_valuation_postgres._persist_facts: the calls for one fact of the cache.
MarketMetrics == {"price_close", "market_cap", "listed_shares"}

KrCacheFact(d, fact) ==
    LET Store(op) == <<Call(op, d.name, <<op, fact.key>>)>>
    IN  Store("store_metric_value")
        \o (CASE fact.metric = "adjusted_operating_eps" -> Store("store_adjusted_earnings")
              [] fact.metric = "price_close"            -> Store("store_price_bar")
              [] fact.metric = "dividend_per_share"     -> Store("store_dividend")
              [] OTHER                                  -> <<>>)
        \o (IF fact.metric \in MarketMetrics THEN <<>> ELSE Store("store_financial_fact"))

\* load_kr_valuation_cache_to_postgres, for one ticker of its loop: the security
\* is ensured before the run is started, and the raw object has no Blob key.
KrValuationCache(d) ==
    BeforeTry(EnsureSecurity(d.ticker)) \o StartRun
    \o <<Call("store_source_document", d.name, NoKey),
         Call("store_raw_object_without_blob", d.name, NoKey)>>
    \o ForEach(d.facts, LAMBDA fact : KrCacheFact(d, fact))
    \o FinishRun

=============================================================================
