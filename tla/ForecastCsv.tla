------------------------------ MODULE ForecastCsv ------------------------------
(***************************************************************************)
(* Forecast CSV files: the templates and the deterministic forecasts the   *)
(* worker writes, the rows the operator fills in, and the four readers of  *)
(* such a file, each with rules of its own: the preflight of the coverage  *)
(* plan, the strict validator, the importer (file to Postgres, row by row) *)
(* and the local provider, which answers from the files before an import.  *)
(*                                                                         *)
(* A row is a record of what the readers tell apart.  Several files may    *)
(* hold rows of a ticker: its own one and the aggregate of all tickers.    *)
(***************************************************************************)
EXTENDS SourceCoverage

CONSTANTS
    Tickers,      \* the tickers forecasts are made for
    Years,        \* the fiscal years of a forecast, as many as coverage needs
    Fills,        \* what the operator may put in a row
    MaxEdits      \* bound on the writes of files, and on imports

Cases     == {"median", "current", "low", "point", "consensus"}   \* as spelt in a file
Qualities == {"", "template", "production", "manual", "other"}
Filled == [case : Cases, eps : {"", "positive", "negative"}, source : {"", "external", "manual"},
           anchor : BOOLEAN, wellFormed : BOOLEAN, notes : BOOLEAN, blocked : BOOLEAN,
           quality : Qualities, metric : {"default", "other"}]

ASSUME ForecastAssumption ==
    /\ Tickers \subseteq Universe
    /\ Years \subseteq Nat /\ IsFiniteSet(Years) /\ Years # {}
    /\ Fills \subseteq Filled
    /\ MaxEdits \in Nat

Aggregate == "aggregate"
Paths == Tickers \union {Aggregate}
Asking == (SUBSET Tickers) \ {{}}
NoFile == <<>>
NoImport == [path |-> Aggregate, rows |-> <<>>, left |-> <<>>]

VARIABLES
    files,      \* path -> its rows, NoFile when it is not there
    marked,     \* the files that were saved with a byte order mark
    importing,  \* the import that runs: [path, rows, left], or NoImport
    imported,   \* path -> the rows its last complete import stored
    snapshots,  \* Postgres: consensus_estimate_snapshots, key -> row
    cached,     \* the KR tickers with a cache a forecast can be extrapolated from
    edits
forecastVars == <<files, marked, importing, imported, snapshots, cached, edits>>

-------------------------------------------------------------------------------
(* The rules of the readers. *)

\* wellFormed: its dates, numbers and the scheme of its URL can be read.
Blank == [case |-> "median", eps |-> "", source |-> "", anchor |-> FALSE, wellFormed |-> TRUE,
          notes |-> TRUE, blocked |-> FALSE, quality |-> "template", metric |-> "default"]
Deterministic == [Blank EXCEPT !.eps = "positive", !.source = "manual", !.anchor = TRUE,
                               !.quality = "manual"]

RowOf(t, y, fill) == [ticker |-> t, year |-> y, fill |-> fill]
FillOf(row) == row.fill

\* _normalize_consensus_import_case, and _normalize_case of the local provider, which
\* takes a case it does not know for the median.
ImportCase(case) == CASE case \in {"median", "low", "current"} -> case
                      [] case = "point" -> "current" [] OTHER -> "unknown"
LocalCase(case) == IF case \in {"low", "current"} THEN case ELSE "median"
\* _normalize_consensus_case of the provider that reads what was imported.
ProviderCase(case) == IF case = "low" THEN "low" ELSE "median"
Base == {"median", "current"}

Manual(fill) == fill.source = "manual" \/ fill.quality = "manual"

\* The rules every reader but the preflight shares: _validated_consensus_row and the
\* local provider's _validated_row.
Accepts(fill) ==
    /\ fill.eps = "positive" /\ fill.source # "" /\ fill.anchor /\ fill.wellFormed
    /\ fill.quality # "template" /\ ~ fill.blocked
    /\ Manual(fill) => fill.notes

Valid(row) == Accepts(FillOf(row)) /\ ImportCase(row.fill.case) # "unknown"

\* _forecast_preflight_row_ready, of the rows whose case is spelt median or current:
\* dates and URLs are left to the validator.
PreflightReady(row) ==
    LET fill == FillOf(row) IN
    /\ fill.eps = "positive" /\ fill.source # "" /\ fill.anchor
    /\ Manual(fill) => fill.notes
    /\ fill.quality # "template" /\ ~ fill.blocked

Rows(p) == Range(files[p])
CsvPath(T) == IF Cardinality(T) = 1 THEN CHOOSE t \in T : TRUE ELSE Aggregate

\* The preflight reads plain UTF-8: after a mark the column of the tickers is another.
Candidates(p, T) ==
    {r \in Rows(p) : r.ticker \in T /\ r.fill.case \in Base /\ p \notin marked}
Periods(rows) == {<<r.ticker, r.year>> : r \in rows}

\* _forecast_csv_preflight counts the periods that are ready.
Preflight(p, T) ==
    LET candidates == Candidates(p, T)
        ready == {r \in candidates : PreflightReady(r)}
    IN  CASE files[p] = NoFile -> "missing_csv"
          [] files[p] # NoFile /\ candidates = {} -> "no_matching_rows"
          [] candidates # {} /\ ready = {} -> "template_pending"
          [] ready # {} /\ Cardinality(Periods(ready)) < Cardinality(T) * Cardinality(Years) ->
                "not_import_ready"
          [] OTHER -> "candidate_ready"

\* The key of duplicates: one row of a ticker, a year and a case.
Key(row) == <<row.ticker, row.year, ImportCase(row.fill.case)>>
Duplicates(rows) ==
    \E i, j \in DOMAIN rows : i < j /\ Key(rows[i]) = Key(rows[j])

\* Mutant: a period with a row of any case is there.
ValidationOfAnyCase(rows, T) ==
    IF \E r \in Range(rows) : ~ Valid(r) THEN "invalid_input"
    ELSE IF ~ T \X Years \subseteq Periods(Range(rows)) THEN "missing_required_rows"
    ELSE IF Duplicates(rows) THEN "duplicate_rows" ELSE "ready"

\* validate_consensus_csv for the median and current cases, either of which will do.
Validation(rows, T) ==
    LET present == {r \in Range(rows) : ImportCase(r.fill.case) \in Base} IN
    IF \E r \in Range(rows) : ~ Valid(r) THEN "invalid_input"
    ELSE IF ~ T \X Years \subseteq Periods(present) THEN "missing_required_rows"
    ELSE IF Duplicates(rows) THEN "duplicate_rows" ELSE "ready"

\* quality_status of a stored row: that of the file, or the importer's default.
Quality(fill) ==
    IF fill.quality # "" THEN fill.quality
    ELSE IF fill.source = "manual" THEN "manual" ELSE "production"

\* The forecast years source_coverage_from_postgres counts for the valuation.
StoredYears(t) ==
    {k.year : k \in {k \in DOMAIN snapshots : /\ k.ticker = t /\ k.metric = "default"
                                               /\ k.case \in Base
                                               /\ snapshots[k].quality = "production"}}
Stored(t) == Cardinality(StoredYears(t)) >= Cardinality(Years)

\* The local provider: the file of the ticker hides the aggregate, rows it does not
\* accept are passed over.
LocalPath(t) == IF files[t] # NoFile THEN t ELSE Aggregate
\* Mutant: the aggregate is read besides the file of the ticker.
LocalRowsOfBothFiles(t) ==
    {r \in Rows(t) \union Rows(Aggregate) : r.ticker = t /\ Accepts(FillOf(r))}

LocalRows(t) == {r \in Rows(LocalPath(t)) : r.ticker = t /\ Accepts(FillOf(r))}
LocalYears(t) ==
    {r.year : r \in {r \in LocalRows(t) : r.fill.metric = "default"
                                            /\ LocalCase(r.fill.case) \in Base}}
Local(t) == Cardinality(LocalYears(t)) >= Cardinality(Years)

\* _select_projection_row and its twin of Postgres, over the estimates of one year: of
\* the case asked for, else of the base cases, else whatever there is; the newest of them.
Selected(rows, case) ==
    LET of(cases) == {r \in rows : LocalCase(r.fill.case) \in cases}
    IN  IF case \notin Base /\ of({case}) # {} THEN of({case})
        ELSE IF of(Base) # {} THEN of(Base) ELSE rows

Projection(rows, case) == [y \in {r.year : r \in rows} |-> Selected({r \in rows : r.year = y}, case)]

LocalProjection(t, case) == Projection({r \in LocalRows(t) : r.fill.metric = "default"}, case)
StoredRows(t) ==
    {[snapshots[k].row EXCEPT !.fill.case = ProviderCase(k.case)] :
        k \in {k \in DOMAIN snapshots : k.ticker = t /\ k.metric = "default"}}
StoredProjection(t, case) == Projection(StoredRows(t), case)

-------------------------------------------------------------------------------
(* The commands. *)

ForecastInit ==
    /\ files = [p \in Paths |-> NoFile]
    /\ marked = {}
    /\ importing = NoImport
    /\ imported = [p \in Paths |-> NoFile]
    /\ snapshots = <<>>
    /\ cached \in SUBSET Range(KR)
    /\ edits = 0

Editing == edits < MaxEdits /\ edits' = edits + 1

\* The elements of S in the order of their keys.
Sorted(S, key) ==
    [i \in 1 .. Cardinality(S) |->
        CHOOSE x \in S : Cardinality({y \in S : key[y] < key[x]}) = i - 1]

\* Where a ticker is in the lists of the markets.
Listed(t) == CHOOSE i \in DOMAIN (KR \o US \o JP) : (KR \o US \o JP)[i] = t

\* The rows of a file the worker writes: ticker by ticker, year by year, case by case.
Written(T, cases, fill) ==
    LET tickers == Sorted(T, [t \in T |-> Listed(t)])
        years == Sorted(Years, [y \in Years |-> y])
        perYear == Len(cases)
        perTicker == Cardinality(Years) * perYear
    IN  [i \in 1..(Cardinality(T) * perTicker) |->
            RowOf(tickers[((i - 1) \div perTicker) + 1],
                  years[(((i - 1) % perTicker) \div perYear) + 1],
                  [fill EXCEPT !.case = cases[((i - 1) % perYear) + 1]])]

\* Both exports replace what the file held.
ExportConsensusTemplate(p, T, cases) ==
    /\ Editing
    /\ files' = [files EXCEPT ![p] = Written(T, cases, Blank)]
    /\ marked' = marked \ {p}
    /\ UNCHANGED <<importing, imported, snapshots, cached>>

ExportDeterministicForecastCsv(p, T) ==
    /\ Editing
    /\ T \subseteq cached
    /\ files' = [files EXCEPT ![p] = Written(T, <<"median">>, Deterministic)]
    /\ marked' = marked \ {p}
    /\ UNCHANGED <<importing, imported, snapshots, cached>>

\* The operator fills in the rows of a ticker, one row, or adds one.
FillTicker(p, t, fill) ==
    /\ Editing /\ \E r \in Rows(p) : r.ticker = t
    /\ files' = [files EXCEPT ![p] =
                    [i \in DOMAIN @ |-> IF @[i].ticker = t /\ @[i].fill.case = "median"
                                        THEN [@[i] EXCEPT !.fill = fill] ELSE @[i]]]
    /\ UNCHANGED <<marked, importing, imported, snapshots, cached>>
EditRow(p, i, fill) ==
    /\ Editing
    /\ files' = [files EXCEPT ![p][i].fill = fill]
    /\ UNCHANGED <<marked, importing, imported, snapshots, cached>>
AddRow(p, row) ==
    /\ Editing /\ files[p] # NoFile
    /\ files' = [files EXCEPT ![p] = Append(@, row)]
    /\ UNCHANGED <<marked, importing, imported, snapshots, cached>>
\* A spreadsheet saves the file with a byte order mark.
SaveMarked(p) ==
    /\ Editing /\ files[p] # NoFile /\ p \notin marked
    /\ marked' = marked \union {p}
    /\ UNCHANGED <<files, importing, imported, snapshots, cached>>

\* import_consensus_csv reads the file and refuses it whole for one invalid row; it
\* does not ask what the validator said of it.
BeginImport(p) ==
    /\ importing = NoImport /\ files[p] # NoFile /\ imported[p] # files[p]
    /\ \A r \in Rows(p) : Valid(r)
    /\ importing' = [path |-> p, rows |-> files[p], left |-> files[p]]
    /\ UNCHANGED <<files, marked, imported, snapshots, cached, edits>>

\* uq_consensus_snapshot_version, the snapshot date being that of the file.
VersionKey(row) ==
    [ticker |-> row.ticker, year |-> row.year, metric |-> row.fill.metric,
     case |-> ImportCase(row.fill.case), source |-> row.fill.source]

StoreRow ==
    /\ importing # NoImport /\ importing.left # <<>>
    /\ LET row == Head(importing.left) IN
       snapshots' = [k \in DOMAIN snapshots \union {VersionKey(row)} |->
                        IF k = VersionKey(row) THEN [quality |-> Quality(row.fill), row |-> row]
                                               ELSE snapshots[k]]
    /\ importing' = [importing EXCEPT !.left = Tail(@)]
    /\ UNCHANGED <<files, marked, imported, cached, edits>>
FinishImport ==
    /\ importing # NoImport /\ importing.left = <<>>
    /\ imported' = [imported EXCEPT ![importing.path] = importing.rows]
    /\ importing' = NoImport
    /\ UNCHANGED <<files, marked, snapshots, cached, edits>>

\* A row could not be stored, or the process died: what is stored stays.
FailImport ==
    /\ importing # NoImport
    /\ importing' = NoImport
    /\ UNCHANGED <<files, marked, imported, snapshots, cached, edits>>

ForecastNext ==
    \/ \E p \in Paths, T \in Asking :
          \/ \E cases \in {<<"median">>, <<"low", "median">>} :
                p = CsvPath(T) /\ ExportConsensusTemplate(p, T, cases)
          \/ p = CsvPath(T) /\ ExportDeterministicForecastCsv(p, T)
    \/ \E p \in Paths, fill \in Fills :
          \/ \E t \in Tickers : FillTicker(p, t, fill)
          \/ \E i \in DOMAIN files[p] : EditRow(p, i, fill)
          \/ \E t \in Tickers, y \in Years : AddRow(p, RowOf(t, y, fill))
    \/ \E p \in Paths : BeginImport(p) \/ SaveMarked(p)
    \/ StoreRow \/ FinishImport \/ FailImport

ForecastSpec == ForecastInit /\ [][ForecastNext]_forecastVars

-------------------------------------------------------------------------------
(* Properties. *)

ForecastTypeOK ==
    /\ \A p \in Paths : \A r \in Rows(p) \union Range(imported[p]) :
          r.ticker \in Tickers /\ r.year \in Years /\ r.fill \in Filled
    /\ importing # NoImport => IsSuffix(importing.left, importing.rows)
    /\ cached \subseteq Range(KR) /\ edits \in 0 .. MaxEdits

\* What is stored, also by an import that failed halfway or of a file edited since it
\* was validated, has a positive estimate, a source and a trace anchor, notes when it
\* is an assumption, and no blocked evidence.
StoredIsAccepted ==
    \A k \in DOMAIN snapshots :
        LET row == snapshots[k].row
        IN  Accepts(row.fill) /\ k = VersionKey(row) /\ k.case # "unknown"
            /\ (Manual(row.fill) => row.fill.notes)

\* The preflight of the plan has rules of its own.  Where a plain file spells its cases
\* median or current, a row the validator accepts is ready, and a file the validator
\* calls ready for the tickers the plan asks for is a candidate: the plan asks to import
\* it, and does not report a template nobody has filled in.
PreflightAgrees ==
    \A T \in Asking :
        LET p == CsvPath(T) IN
        p \notin marked /\ (\A r \in Rows(p) : r.fill.case \in Base) =>
            /\ \A r \in Rows(p) : Valid(r) => PreflightReady(r)
            /\ Validation(files[p], T) = "ready" => Preflight(p, T) = "candidate_ready"

\* While what the database holds are external estimates of the valuation metric, an
\* import of a file that was ready for some tickers covers them in the database; and so
\* it does whatever the terminal showed as covered from that file before the import.
ReadyFileCovers ==
    (\A k \in DOMAIN snapshots : k.metric = "default" /\ snapshots[k].quality = "production")
        => \A p \in Paths : imported[p] # NoFile =>
              /\ \A T \in Asking : Validation(imported[p], T) = "ready" => \A t \in T : Stored(t)
              /\ files[p] = imported[p]
                    => \A t \in Tickers : LocalPath(t) = p /\ Local(t) => Stored(t)

\* The validator, the preflight, the importer and the readers of the database and of the
\* file agree on which rows count.
ForecastReadersAgree == StoredIsAccepted /\ PreflightAgrees /\ ReadyFileCovers

\* Once a file is promoted and not edited since, the projection the terminal is served
\* from the database has every year of the one it was served from the file, and has the
\* case that was asked for in every year the file had it.
PromotionKeepsProjections ==
    \A t \in Tickers, case \in {"median", "low"} :
        LET p == LocalPath(t)
            local == LocalProjection(t, case)
            stored == StoredProjection(t, case)
            asked(projection) == {y \in DOMAIN projection :
                                     \E r \in projection[y] : LocalCase(r.fill.case) = case}
        IN  imported[p] # NoFile /\ files[p] = imported[p] =>
              DOMAIN local \subseteq DOMAIN stored /\ asked(local) \subseteq asked(stored)
===============================================================================
