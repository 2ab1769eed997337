-------------------------------- MODULE MCFiles --------------------------------
(***************************************************************************)
(* Four parts of the data directory that share no file: the raw files and  *)
(* their upload queue (BlobSync), the KR raw files and the cache that is   *)
(* built from them (KrEvidence), the cached pages of the SEC and what      *)
(* normalize-us makes of them (EdgarNormalization), and the SEC's bulk     *)
(* archives (SecBulk).  A behaviour is one of a part, and the fairness is  *)
(* each part's.                                                            *)
(***************************************************************************)
EXTENDS BlobSync, KrEvidence, EdgarNormalization, SecBulk

MCTickers == <<"a", "b">>

Doc(kind, tickers, year, day, status, gives) ==
    [kind |-> kind, tickers |-> tickers, year |-> year, day |-> day,
     status |-> status, gives |-> gives]

MarcapNext    == Doc("marcap", {"a", "b"}, 2, 3, "000", {"close", "cap", "shares"})
StatementNext == Doc("statement", {"a"}, 2, 0, "000", {"rows", "eps"})
Statement     == Doc("statement", {"a"}, 1, 0, "000", {"rows", "eps"})

\* The statements of ticker a and the market of the second year are there.  To
\* collect are the first year's market-wide files, with a row of one ticker
\* each, its closes, and for ticker b a refused request and a statement without
\* the figure.
MCStored == {<< >>, <<Statement, StatementNext, MarcapNext>>}

MCDocuments ==
    {Statement, StatementNext, MarcapNext,
     Doc("marcap", {"a"}, 1, 3, "000", {"close", "cap", "shares"}),
     Doc("marcap", {"b"}, 1, 3, "000", {"close", "zero_cap", "shares"}),
     Doc("ohlcv", {"a"}, 1, 1, "000", {"close"}),
     Doc("ohlcv", {"a"}, 1, 2, "000", {"close"}),
     Doc("ohlcv", {"a"}, 1, 3, "000", {}),
     Doc("statement", {"b"}, 1, 0, "020", {}),
     Doc("statement", {"b"}, 1, 0, "000", {"rows"}),
     Doc("dividend", {"a"}, 1, 0, "000", {"dps"})}

Row(type, category, value, gain) ==
    [type |-> type, category |-> category, value |-> value, gain |-> gain]
Line(type, n)        == Row(type, "restructuring", {n}, FALSE)
Taken(category, n)   == Row("adjustment_line", category, {n}, FALSE)
Page(score, rows)    == <<[score |-> score, rows |-> rows]>>

\* 1000.00 of GAAP income, 260.00 of adjustments less 50.01 of tax and 500 shares: the
\* company's 2.42 a share are what is rebuilt of them.
Reconciled ==
    <<Line("gaap_ni", 100000), Taken("restructuring", 20000),
      Taken("stock_based_compensation", 5000), Taken("goodwill_impairment", 1000),
      Line("tax_effect", 5001), Line("adjusted_eps", 242), Line("diluted_shares", 500)>>

\* No tax line, a gain, discontinued operations, a figure that is not a number.
Inferred ==
    <<Line("gaap_ni", 50000), Taken("restructuring", 1000),
      Row("adjustment_line", "restructuring", {2000}, TRUE),
      Line("discontinued_ops", 300), Row("adjusted_eps", "restructuring", {}, FALSE),
      Line("diluted_shares", 500)>>

\* The first filing has two exhibits, of which a cut one has lost the tax line and a
\* digit; the second filing's is cut before its table.
MCExhibits ==
    [f1 |-> <<[whole |-> Page(9, Reconciled) \o Page(9, Inferred),
               cuts |-> {<< >>, Page(8, SubSeq(Reconciled, 1, 4)),
                         Page(9, SubSeq(Reconciled, 1, 5) \o <<Line("adjusted_eps", 24)>>)}],
              [whole |-> << >>, cuts |-> {<< >>}]>>,
     f2 |-> <<[whole |-> Page(3, << >>) \o Page(5, Inferred), cuts |-> {<< >>}]>>]

MCFilingYear == [f1 |-> 1, f2 |-> 2]
MCRanges     == {<<1, 1>>, <<1, 2>>}

\* A 10-K of each of two years with its comparatives, and an amendment of the
\* second year that restates the shares, under a tag that says nothing of the year.
State(tag, filing, end) == [tag |-> tag, filing |-> filing, end |-> end, positive |-> TRUE]
Annual(y, day, form)    == [year |-> y, filed |-> day, form |-> form]

MCBulkFilings ==
    [k1 |-> Annual(1, 1, "10-K"), k2 |-> Annual(2, 3, "10-K"), a2 |-> Annual(2, 4, "10-K/A")]

MCStatements ==
    <<State("Revenues", "k1", 0), State("Revenues", "k1", 1), State("Revenues", "k2", 1),
      State("Revenues", "k2", 2), State("ContractRevenue", "k2", 2), State("EpsDiluted", "k2", 2),
      State("DilutedShares", "k1", 0), State("DilutedShares", "k1", 1),
      State("DilutedShares", "k2", 1), State("DilutedShares", "a2", 1),
      State("DilutedShares", "k2", 2), State("DilutedShares", "a2", 2)>>

MCTags ==
    [Revenues        |-> [metric |-> "revenue", priority |-> 2],
     ContractRevenue |-> [metric |-> "revenue", priority |-> 1],
     EpsDiluted      |-> [metric |-> "reported_eps_diluted", priority |-> 1],
     DilutedShares   |-> [metric |-> "diluted_shares", priority |-> 1]]

VARIABLE part   \* constant in a behaviour
mcVars == <<part, vars, evidenceVars, edgarVars, bulkVars>>

\* The values a part leaves open at the start are those of its own behaviours.
MCInit ==
    /\ part \in {"upload", "evidence", "edgar", "bulk"}
    /\ Init /\ EvidenceInit /\ EdgarInit /\ BulkInit
    /\ part # "evidence" => raw = << >>
    /\ part = "evidence" => raw # << >>
    /\ part # "edgar" => published = {}

Upload(A)   == part = "upload" /\ A /\ UNCHANGED <<part, evidenceVars, edgarVars, bulkVars>>
Evidence(A) == part = "evidence" /\ A /\ UNCHANGED <<part, vars, edgarVars, bulkVars>>
Edgar(A)    == part = "edgar" /\ A /\ UNCHANGED <<part, vars, evidenceVars, bulkVars>>
Bulk(A)     == part = "bulk" /\ A /\ UNCHANGED <<part, vars, evidenceVars, edgarVars>>

MCNext ==
    \/ Upload(Next)
    \/ Evidence(EvidenceNext)
    \/ Edgar(EdgarNext)
    \/ Bulk(BulkNext)

\* The fairness of BlobSync and of KrEvidence.
MCSpec ==
    /\ MCInit /\ [][MCNext]_mcVars
    /\ \A w \in Writers : WF_mcVars(Upload(Write(w)))
    /\ \A s \in Syncs : WF_mcVars(Upload(StartSync(s) \/ Pass(s)))
    /\ WF_mcVars(Evidence(FillRaw))
    /\ WF_mcVars(Evidence(RunBuild))

\* The four parts have the states they declare.
PartsTypeOK == TypeOK /\ EvidenceTypeOK /\ EdgarTypeOK /\ BulkTypeOK

\* EventuallyCurrent of KrEvidence, with nothing to ask of the other parts.
BuildsBecomeCurrent ==
    (<>[](part = "evidence" => \A i \in DOMAIN raw : raw[i].whole)) =>
        \A t \in Ticker : []<>(part = "evidence" => CacheIsCurrent(t))
===============================================================================
