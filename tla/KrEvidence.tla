------------------------------ MODULE KrEvidence ------------------------------
(***************************************************************************)
(* KR valuation inputs: from the raw files of storage/raw to the payload   *)
(* build-kr-valuation-inputs caches for a ticker, and the report           *)
(* inspect-raw-kr gives of the same files.  The two read the files         *)
(* separately and must agree: the report is the gate an operator passes    *)
(* before building, and its next actions are what he does about a gap.     *)
(*                                                                         *)
(* A raw file is one collected document of a year, by what its parser gets *)
(* out of it: gives.  Files are kept newest modification time first (the   *)
(* order of _raw_files); collecting the same bytes again rewrites the same *)
(* path, and moves it to the front.  A file cut short gives nothing, and   *)
(* stops the program where the code lets the parser's exception through.   *)
(***************************************************************************)
EXTENDS Integers, Sequences, FiniteSets, SequencesExt

CONSTANTS
    Tickers,       \* the tickers of the command line, a sequence
    FirstYear, LastYear,
    Documents,     \* the documents the sources can return
    Stored,        \* what is collected before a behaviour starts: sequences, newest first
    MaxCollected,  \* bound: documents collected
    MaxCrashes     \* bound: crashes of the two programs

VARIABLES
    raw,        \* storage/raw: files [doc, whole], newest first
    collector,  \* the document being written, or Nothing
    cache,      \* ticker -> the state of its cache file
    todo,       \* tickers the running build still has to write; << >> at rest
    payload,    \* what the running build has computed for Head(todo), or Nothing
    collected, crashes

evidenceVars == <<raw, collector, cache, todo, payload, collected, crashes>>

Nothing == [nothing |-> TRUE]
Years   == FirstYear .. LastYear
Ticker  == {Tickers[i] : i \in DOMAIN Tickers}

ASSUME KrEvidenceAssumption ==
    /\ FirstYear \in Int /\ LastYear \in Int /\ FirstYear <= LastYear
    /\ Tickers \in Seq(Ticker)
    /\ MaxCollected \in Nat /\ MaxCrashes \in Nat
    /\ Stored \subseteq Seq(Documents)
    /\ \A d \in Documents :
        /\ d.kind \in {"ohlcv", "fundamental", "marcap", "statement", "dividend"}
        /\ d.tickers \subseteq Ticker
        /\ d.year \in Int /\ d.day \in Nat
        /\ d.status \in {"000", "013", "020"}
        /\ d.gives \subseteq {"close", "dps", "cap", "zero_cap", "shares", "rows", "eps"}

-------------------------------------------------------------------------------
(* Reading the raw files.  files is a sequence like raw.                   *)

IsOf(f, kind, t, y) == f.doc.kind = kind /\ t \in f.doc.tickers /\ f.doc.year = y

\* Where the files of a kind and year about a ticker are: the newest is the first.
Of(files, kind, t, y) == {i \in DOMAIN files : IsOf(files[i], kind, t, y)}

\* What a parser finds: nothing in a file cut short.
Gives(f) == IF f.whole THEN f.doc.gives ELSE {}

\* The market-wide files: only the newest of a year is read, whoever is in it.
MarcapFile(files, y) ==
    LET ofYear == {i \in DOMAIN files : files[i].doc.kind = "marcap" /\ files[i].doc.year = y}
    IN  IF ofYear = {} THEN {} ELSE {files[Min(ofYear)]}

\* A row without a close is dropped when it is parsed.
MarcapRow(files, t, y) ==
    {f \in MarcapFile(files, y) : t \in f.doc.tickers /\ "close" \in Gives(f)}

\* Mutant: the newest file is taken for the latest day.
NewestRow(files, kind, metric, t, y) ==
    LET rows == SelectSeq(files, LAMBDA f : IsOf(f, kind, t, y) /\ metric \in Gives(f))
    IN  IF rows = << >> THEN {} ELSE {Head(rows)}

\* The row of the latest trading day, the first one read among equals.
LatestRow(files, kind, metric, t, y) ==
    LET rows == {i \in Of(files, kind, t, y) : metric \in Gives(files[i])}
        Day(i) == files[i].doc.day
    IN  {files[i] : i \in {k \in rows :
                            \A j \in rows : Day(j) < Day(k) \/ (Day(j) = Day(k) /\ k <= j)}}

PykrxRow(files, t, y) == LatestRow(files, "ohlcv", "close", t, y)

\* Mutant: the market-wide close is used only where there is no pykrx file.
PriceWithoutFile(files, t, y) ==
    IF Of(files, "ohlcv", t, y) # {} THEN PykrxRow(files, t, y) ELSE MarcapRow(files, t, y)

Price(files, t, y) ==
    IF PykrxRow(files, t, y) # {} THEN PykrxRow(files, t, y) ELSE MarcapRow(files, t, y)

\* eps_facts_by_year and opendart_dividend_rows_by_year are assigned file by
\* file, newest first, so the oldest file that gives the figure is the one kept.
OldestGiving(files, kind, metric, t, y) ==
    LET giving == {i \in Of(files, kind, t, y) : metric \in Gives(files[i])}
    IN  IF giving = {} THEN {} ELSE {files[Max(giving)]}

Eps(files, t, y) == OldestGiving(files, "statement", "eps", t, y)

Dividend(files, t, y) ==
    LET pykrx == LatestRow(files, "fundamental", "dps", t, y)
    IN  IF pykrx # {} THEN pykrx ELSE OldestGiving(files, "dividend", "dps", t, y)

Structure(files, t, y) ==
    {f \in MarcapRow(files, t, y) :
        Gives(f) \cap {"cap", "zero_cap"} # {} /\ "shares" \in Gives(f)}

-------------------------------------------------------------------------------
(* Why a year has no input: shared by the report and the build.            *)

MarketGap(files, t, y, noPrice, noStructure) ==
    LET pykrx  == PykrxRow(files, t, y)
        marcap == MarcapRow(files, t, y)
        traded == {z \in Years : PykrxRow(files, t, z) \cup MarcapRow(files, t, z) # {}}
        beforeFirst == traded # {} /\ \A z \in traded : y < z
    IN  IF pykrx = {} /\ marcap = {} /\ noPrice /\ noStructure /\ beforeFirst
             THEN "source_no_rows_before_first_trade"
             ELSE IF pykrx = {} /\ marcap = {} THEN "missing_raw"
             ELSE IF noStructure /\ marcap = {} THEN "missing_market_structure_raw"
             ELSE IF noStructure THEN "market_structure_value_gap"
             ELSE "missing_price_raw"

FinancialGap(files, t, y) ==
    LET statements == Of(files, "statement", t, y)
        kept == files[Max(statements)]   \* documents_by_year: the oldest again
    IN  IF statements = {} THEN "missing_raw"
        ELSE IF ~kept.whole \/ kept.doc.status # "000" \/ "rows" \notin kept.doc.gives
        THEN "source_no_data"
        ELSE "parser_metric_gap"

MarketGaps(files, t, price, structure) ==
    {[year |-> y, status |-> MarketGap(files, t, y, y \notin price, y \notin structure)] :
        y \in Years \ (price \cap structure)}

FinancialGaps(files, t, eps) ==
    {[year |-> y, status |-> FinancialGap(files, t, y)] : y \in Years \ eps}

Statuses(gaps) == {g.status : g \in gaps}

-------------------------------------------------------------------------------
(* The report of inspect-raw-kr (_inspect_raw_kr_ticker).                  *)

InspectRaises(files) == \E y \in Years : \E f \in MarcapFile(files, y) : ~f.whole

\* The years the files of a ticker cover, by what is looked for.
EvidenceYears(files, t) ==
    LET marcap == {y \in Years : MarcapRow(files, t, y) # {}}
        Having(m) == {y \in marcap : \E f \in MarcapRow(files, t, y) : m \in Gives(f)}
    IN  [pykrx |-> {y \in Years : PykrxRow(files, t, y) # {}},
         marcap |-> marcap,
         structure |-> Having("cap") \cap Having("shares"),
         eps |-> {y \in Years : \E i \in Of(files, "statement", t, y) : "eps" \in Gives(files[i])}]

\* The checks that count without --require-opendart.
RequiredChecksOk(years) == years.pykrx = Years /\ years.marcap = Years /\ years.structure = Years

\* Some years can be used, and the source itself is the reason for the others.
AcceptablePartial(points, market, financial) ==
    /\ points # {}
    /\ Statuses(market) \subseteq {"source_no_rows_before_first_trade"}
    /\ Statuses(financial) \subseteq {"source_no_data"}

Inspect(files, t) ==
    LET years == EvidenceYears(files, t)
        price == years.pykrx \cup years.marcap
        points == price \cap years.structure \cap years.eps
        market == MarketGaps(files, t, price, years.structure)
        financial == FinancialGaps(files, t, years.eps)
        ready == points = Years \/ AcceptablePartial(points, market, financial)
    IN  [ready |-> ready, full |-> points = Years, points |-> points,
         status |-> IF ready \/ RequiredChecksOk(years) THEN "ok" ELSE "missing",
         market |-> market, financial |-> financial]

(* The payload of build-kr-valuation-inputs.                               *)

\* Decoding a cut Parquet file or a cut statement is not guarded.
BuildRaises(files, t) ==
    \/ InspectRaises(files)
    \/ \E y \in Years : \E i \in Of(files, "statement", t, y) : ~files[i].whole

\* A point joins a price and an EPS of its year; the dividend may be missing, and
\* market structure is not asked for.
Points(files, t) ==
    {[year |-> y, price |-> Price(files, t, y), eps |-> Eps(files, t, y),
      dividend |-> Dividend(files, t, y)] :
        y \in {z \in Years : Price(files, t, z) # {} /\ Eps(files, t, z) # {}}}

Graded(have, need) ==
    IF have = {} THEN "blocked" ELSE IF need \subseteq have THEN "ok" ELSE "partial"

Build(files, t) ==
    LET price == {y \in Years : Price(files, t, y) # {}}
        structure == {y \in Years : Structure(files, t, y) # {}}
        eps == {y \in Years : Eps(files, t, y) # {}}
        dividend == {y \in Years : Dividend(files, t, y) # {}}
        points == price \cap eps
        required == IF points # {} THEN points ELSE Years
    IN  [ticker |-> t,
         points |-> Points(files, t),
         coverage |-> IF points = {} THEN "blocked"
                      ELSE IF price \cap structure \cap eps = Years THEN "complete"
                      ELSE "partial_source_backed",
         metric |-> Graded(eps, Years), dividend |-> Graded(dividend, required),
         marketMissing |-> Years \ (price \cap structure),
         market |-> MarketGaps(files, t, price, structure),
         financial |-> FinancialGaps(files, t, eps)]

\* _kr_valuation_input_next_actions, for one built ticker.
NextActions(p) ==
    LET financial == Statuses(p.financial)
        When(condition, actions) == IF condition THEN actions ELSE {}
    IN  When(p.metric # "ok" /\ (financial = {} \/ "missing_raw" \in financial),
             {"collect_opendart_kr"})
        \cup When(p.metric # "ok" /\ "parser_metric_gap" \in financial,
             {"inspect_opendart_metric_mapping"})
        \cup When(p.metric # "ok" /\ "source_no_data" \in financial,
             {"document_opendart_no_data_years"})
        \cup When(p.marketMissing # {},
             IF Statuses(p.market) \subseteq {"source_no_rows_before_first_trade"}
             THEN {"document_market_history_start"}
             ELSE {"collect_kr_market_raw", "collect_kr_market_structure_raw"})
        \cup When(p.dividend # "ok", {"collect_kr_dividend_raw"})
        \cup {"build_kr_valuation_inputs"}

-------------------------------------------------------------------------------
(* The programs: a collector that writes raw files, and the build.         *)

Cache == INSTANCE KrCache WITH
            CacheFiles <- Ticker,
            cacheFile <- cache

EvidenceInit ==
    /\ \E s \in Stored : raw = [i \in DOMAIN s |-> [doc |-> s[i], whole |-> TRUE]]
    /\ collector = Nothing
    /\ cache = [t \in Ticker |-> Cache!NoCache]
    /\ todo = << >>
    /\ payload = Nothing
    /\ collected = 0 /\ crashes = 0

\* The other files: a document has one path.
Without(files, d) ==
    IF \E i \in DOMAIN files : files[i].doc = d
    THEN RemoveAt(files, CHOOSE i \in DOMAIN files : files[i].doc = d)
    ELSE files

\* _write_raw_document: open and truncate the path, then write the bytes.
OpenRaw(d) ==
    /\ collector = Nothing
    /\ collected < MaxCollected
    /\ collector' = d
    /\ collected' = collected + 1
    /\ raw' = <<[doc |-> d, whole |-> FALSE]>> \o Without(raw, d)
    /\ UNCHANGED <<cache, todo, payload, crashes>>

FillRaw ==
    /\ collector # Nothing
    /\ raw' = [raw EXCEPT ![1].whole = TRUE]
    /\ collector' = Nothing
    /\ UNCHANGED <<cache, todo, payload, collected, crashes>>

CollectorCrash ==
    /\ collector # Nothing
    /\ crashes < MaxCrashes
    /\ collector' = Nothing
    /\ crashes' = crashes + 1
    /\ UNCHANGED <<raw, cache, todo, payload, collected>>

StartBuild ==
    /\ todo = << >>
    /\ todo' = Tickers
    /\ UNCHANGED <<raw, collector, cache, payload, collected, crashes>>

\* A file that does not parse stops the command, whatever tickers are left.
BuildStops ==
    /\ todo # << >> /\ payload = Nothing
    /\ BuildRaises(raw, Head(todo))
    /\ todo' = << >>
    /\ UNCHANGED <<raw, collector, cache, payload, collected, crashes>>

\* Mutant: a ticker that has a cache file is not built again.
OpenMissingCache ==
    /\ todo # << >> /\ payload = Nothing
    /\ ~BuildRaises(raw, Head(todo))
    /\ IF cache[Head(todo)].state = "whole"
       THEN todo' = Tail(todo) /\ UNCHANGED <<payload, cache>>
       ELSE /\ payload' = Build(raw, Head(todo))
            /\ cache' = [cache EXCEPT ![Head(todo)] = Cache!Torn]
            /\ todo' = todo
    /\ UNCHANGED <<raw, collector, collected, crashes>>

OpenCache ==
    /\ todo # << >> /\ payload = Nothing
    /\ ~BuildRaises(raw, Head(todo))
    /\ payload' = Build(raw, Head(todo))
    /\ cache' = [cache EXCEPT ![Head(todo)] = Cache!Torn]
    /\ UNCHANGED <<raw, collector, todo, collected, crashes>>

\* Mutant: the output path does not have the ticker.
FillEveryCache ==
    /\ payload # Nothing
    /\ cache' = [t \in Ticker |-> Cache!Whole(payload)]
    /\ payload' = Nothing
    /\ todo' = Tail(todo)
    /\ UNCHANGED <<raw, collector, collected, crashes>>

FillCache ==
    /\ payload # Nothing
    /\ cache' = [cache EXCEPT ![Head(todo)] = Cache!Whole(payload)]
    /\ payload' = Nothing
    /\ todo' = Tail(todo)
    /\ UNCHANGED <<raw, collector, collected, crashes>>

BuilderCrash ==
    /\ todo # << >>
    /\ crashes < MaxCrashes
    /\ todo' = << >> /\ payload' = Nothing
    /\ crashes' = crashes + 1
    /\ UNCHANGED <<raw, collector, cache, collected>>

EvidenceNext ==
    \/ \E d \in Documents : OpenRaw(d)
    \/ FillRaw
    \/ CollectorCrash
    \/ StartBuild
    \/ BuildStops
    \/ OpenCache
    \/ FillCache
    \/ BuilderCrash

EvidenceSpec == EvidenceInit /\ [][EvidenceNext]_evidenceVars

\* An operator who runs the build again whenever it has ended.
RunBuild == StartBuild \/ BuildStops \/ OpenCache \/ FillCache

EvidenceFairSpec == EvidenceSpec /\ WF_evidenceVars(FillRaw) /\ WF_evidenceVars(RunBuild)

-------------------------------------------------------------------------------
(* Properties.                                                             *)

EvidenceTypeOK ==
    /\ raw \in Seq([doc : Documents, whole : BOOLEAN])
    /\ (\E s \in Stored : Len(raw) <= Len(s) + collected) /\ collected \in 0 .. MaxCollected
    /\ collector \in Documents \cup {Nothing}
    /\ \A t \in Ticker : cache[t] \in {Cache!NoCache, Cache!Torn} \/ cache[t].payload.ticker = t
    /\ \E i \in 0 .. Len(Tickers) : todo = SubSeq(Tickers, i + 1, Len(Tickers))
    /\ payload = Nothing \/ (todo # << >> /\ payload.ticker = Head(todo))
    /\ crashes \in 0 .. MaxCrashes

PointYears(files, t) == {p.year : p \in Build(files, t).points}

\* inspect-raw-kr is the gate before build-kr-valuation-inputs, and computes
\* the usable years on its own: what it reports ready, the build turns into
\* points, and what it reports complete, the build caches as complete.
ReadyEvidenceBuilds ==
    \A t \in Ticker : ~BuildRaises(raw, t) =>
        LET report == Inspect(raw, t)
        IN  /\ report.points \subseteq PointYears(raw, t)
            /\ report.ready => PointYears(raw, t) # {}
            /\ report.full => Build(raw, t).coverage = "complete"

\* The price a point is built from is the year end's: no file of the year that
\* the build can read has a later trading day, in whatever order they came.
PriceIsYearEnd(t) ==
    \A y \in Years : \A f \in Price(raw, t, y) :
        f.doc.kind = "ohlcv" =>
            \A i \in DOMAIN raw :
                raw[i].doc.kind = "ohlcv" /\ t \in raw[i].doc.tickers /\ raw[i].doc.year = y
                /\ "close" \in Gives(raw[i]) => raw[i].doc.day <= f.doc.day

\* No report of a build is a dead end: as long as the range is not complete
\* there is something to do besides building again, and a gap that a collection
\* can close (missing_raw) is answered by that collection.
EveryGapHasAnAction ==
    \A t \in Ticker : cache[t].state = "whole" =>
        LET p == cache[t].payload
        IN  /\ p.coverage # "complete" => NextActions(p) # {"build_kr_valuation_inputs"}
            /\ "missing_raw" \in Statuses(p.financial) => "collect_opendart_kr" \in NextActions(p)
            /\ "missing_raw" \in Statuses(p.market) => "collect_kr_market_raw" \in NextActions(p)

\* Collecting more never takes a year away from the build, except while a file
\* it is built from is being rewritten, or when a newer market-wide file of the
\* year (only the newest is read) has no row of the ticker.
NoYearIsLost ==
    \A t \in Ticker : \A y \in PointYears(raw, t) \ PointYears(raw', t) :
        \/ \E f \in Price(raw, t, y) \cup Eps(raw, t, y) :
                [doc |-> f.doc, whole |-> FALSE] \in {raw'[i] : i \in DOMAIN raw'}
        \/ MarcapFile(raw', y) # MarcapFile(raw, y)

\* The report is true and useful: it agrees with the build, and leaves no dead end.
ReportsAreTrue == ReadyEvidenceBuilds /\ EveryGapHasAnAction

\* The points follow the files: the year-end price of those there are, and no year lost.
PointsFollowTheFiles ==
    /\ [](\A t \in Ticker : PriceIsYearEnd(t))
    /\ [][NoYearIsLost]_evidenceVars

\* The cache files are what KrCache promises their readers.
CacheIsImplemented == Cache!CacheSpec

\* The cache file is the payload of the files there are.
CacheIsCurrent(t) == cache[t] = Cache!Whole(Build(raw, t))

\* Once collection rests with no file cut short, every ticker's cache file is
\* again and again the payload of the files there are: a crash, or an earlier
\* build of fewer files, leaves nothing behind.
EventuallyCurrent ==
    (<>[](\A i \in DOMAIN raw : raw[i].whole)) =>
        \A t \in Ticker : []<>CacheIsCurrent(t)
===============================================================================
