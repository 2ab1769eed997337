--------------------------------- MODULE SecBulk ---------------------------------
(***************************************************************************)
(* The SEC bulk warehouse of one company: collect-sec-bulk downloads the   *)
(* cumulative companyfacts archive, load-sec-bulk-warehouse picks for each *)
(* metric and fiscal year one fact of the newest archive and derives the   *)
(* per-share metrics, row by row in the database.                          *)
(*                                                                         *)
(* A fact [tag, filing, end, positive] carries the fiscal year of the      *)
(* filing that states it, for the comparative periods of the filing too:   *)
(* end is the only thing that tells them apart.  An archive is read tag by *)
(* tag, in an order that does not change as filings are added.  Left out   *)
(* are the filings of a quarter, which no metric is taken from, and the    *)
(* submissions archive, which gives the company its ticker.                *)
(***************************************************************************)
EXTENDS Integers, Sequences, FiniteSets, SequencesExt

CONSTANTS
    BulkFilings,  \* filing -> [year, filed, form]
    Statements,   \* the facts of all filings, in the order of the archive
    Tags,         \* tag -> [metric, priority], SEC_COMPANYFACTS_TAGS
    MaxLoads,     \* bound: loads
    MaxStops      \* bound: loads and downloads that die

VARIABLES
    filed,     \* the filings in the SEC's archive
    download,  \* the newest download, the only one a load opens: [whole, filings]
    loader,    \* [pc, rows, metrics]: what the running load still has to write
    facts,     \* financial_facts: [tag, filing, fact]
    metrics,   \* metric_values: [metric, year, derived, inputs]
    loads, stops

bulkVars == <<filed, download, loader, facts, metrics, loads, stops>>

ASSUME SecBulkAssumption ==
    /\ MaxLoads \in Nat /\ MaxStops \in Nat
    /\ \A f \in DOMAIN BulkFilings :
        BulkFilings[f].year \in Int /\ BulkFilings[f].filed \in Int
    /\ \A t \in DOMAIN Tags : Tags[t].priority \in Int
    /\ Statements \in Seq([tag : DOMAIN Tags, filing : DOMAIN BulkFilings,
                           end : Int, positive : BOOLEAN])

IdleLoader == [pc |-> "idle", rows |-> {}, metrics |-> {}]

\* No download yet: a load raises as it does on one that is cut short.
NoDownload == [whole |-> FALSE, filings |-> {}]

BulkInit ==
    /\ filed = {} /\ download = NoDownload
    /\ loader = IdleLoader
    /\ facts = {} /\ metrics = {}
    /\ loads = 0 /\ stops = 0

FileWithSec(f) ==
    /\ f \notin filed
    /\ \A g \in filed : BulkFilings[g].filed <= BulkFilings[f].filed
    /\ filed' = filed \cup {f}
    /\ UNCHANGED <<download, loader, facts, metrics, loads, stops>>

\* The path holds the digest: an archive that was downloaded before is written over,
\* and is the newest again.
Written(whole) == [whole |-> whole, filings |-> filed]

CollectBulk ==
    /\ loader.pc = "idle"
    /\ download' = Written(TRUE)
    /\ UNCHANGED <<filed, loader, facts, metrics, loads, stops>>

CollectDies ==
    /\ loader.pc = "idle" /\ stops < MaxStops
    /\ download' = Written(FALSE)
    /\ stops' = stops + 1
    /\ UNCHANGED <<filed, loader, facts, metrics, loads>>

-------------------------------------------------------------------------------
(* The rows of an archive.                                                 *)

\* parse_companyfacts_zip: the places in Statements of what the filings state.
FactRows(filings) == {i \in DOMAIN Statements : Statements[i].filing \in filings}

MetricOf(fact) == Tags[fact.tag].metric
YearOf(fact)   == BulkFilings[fact.filing].year

\* _metric_sort_key: the filing date, then the tag's priority, then the period end,
\* then the form.
FormRank(fact) == IF BulkFilings[fact.filing].form \in {"10-K", "10-K/A"} THEN 2 ELSE 1

\* Mutant: the period end is left out, and the first fact of a filing wins.
SortKeyWithoutEnd(fact) ==
    <<BulkFilings[fact.filing].filed, -Tags[fact.tag].priority, FormRank(fact)>>
SortKey(fact) ==
    <<BulkFilings[fact.filing].filed, -Tags[fact.tag].priority, fact.end, FormRank(fact)>>

After(a, b) ==
    \E i \in DOMAIN a : a[i] > b[i] /\ \A j \in 1 .. (i - 1) : a[j] = b[j]

\* primary_metric_rows: row k is kept over row j.
KeptOver(k, j) ==
    LET key(i) == SortKey(Statements[i])
    IN  After(key(k), key(j)) \/ (key(k) = key(j) /\ k <= j)

\* The greatest row of a metric and year, the first one among equals.
Kept(rows, k) ==
    \A j \in rows : /\ MetricOf(Statements[j]) = MetricOf(Statements[k])
                   /\ YearOf(Statements[j]) = YearOf(Statements[k]) => KeptOver(k, j)

PrimaryRow(fact) ==
    [metric |-> MetricOf(fact), year |-> YearOf(fact), derived |-> FALSE, inputs |-> {fact}]

Primary(rows) == {PrimaryRow(Statements[i]) : i \in {k \in rows : Kept(rows, k)}}

\* derived_metric_rows: what each per-share metric is computed from.
DerivedFrom ==
    [basic_eps       |-> {"reported_eps_basic"},
     diluted_eps     |-> {"reported_eps_diluted"},
     sales_share     |-> {"revenue", "diluted_shares"},
     revenue_share   |-> {"revenue", "diluted_shares"},
     operating_cash_flow_share |-> {"operating_cash_flow", "diluted_shares"},
     ebit_share      |-> {"operating_income", "diluted_shares"},
     ebitda_share    |-> {"operating_income", "depreciation_depletion_amortization",
                          "diluted_shares"},
     fcf_share       |-> {"operating_cash_flow", "capex", "diluted_shares"}]

\* No metric is derived in a year without a positive number of shares.
HasShares(primary, y) ==
    \E p \in primary : p.metric = "diluted_shares" /\ p.year = y /\ \A x \in p.inputs : x.positive

Inputs(primary, m, y) == {p \in primary : p.year = y /\ p.metric \in DerivedFrom[m]}

DerivedRow(primary, m, y) ==
    [metric |-> m, year |-> y, derived |-> TRUE,
     inputs |-> UNION {p.inputs : p \in Inputs(primary, m, y)}]

Derivable(primary, m, y) ==
    /\ HasShares(primary, y)
    /\ \A input \in DerivedFrom[m] : \E p \in primary : p.metric = input /\ p.year = y

DerivedRows(primary) ==
    UNION {{DerivedRow(primary, m, p.year) : p \in {q \in primary : Derivable(primary, m, q.year)}} :
              m \in DOMAIN DerivedFrom}

\* The metric rows of an archive.
MetricRows(filings) ==
    LET primary == Primary(FactRows(filings)) IN primary \cup DerivedRows(primary)

-------------------------------------------------------------------------------
(* The load.                                                               *)

\* A missing archive or one that is cut short raises before anything is written.
StartLoad ==
    /\ loader.pc = "idle" /\ loads < MaxLoads
    /\ download.whole
    /\ loads' = loads + 1
    /\ loader' = [pc |-> "load", rows |-> FactRows(download.filings),
                  metrics |-> MetricRows(download.filings)]
    /\ UNCHANGED <<filed, download, facts, metrics, stops>>

\* store_financial_fact: the key has no period, a filing keeps its last fact of a tag.
PersistFact ==
    /\ loader.pc = "load" /\ loader.rows # {}
    /\ LET row == Statements[Min(loader.rows)]
       IN  facts' = {x \in facts : x.tag # row.tag \/ x.filing # row.filing} \cup {row}
    /\ loader' = [loader EXCEPT !.rows = @ \ {Min(@)}]
    /\ UNCHANGED <<filed, download, metrics, loads, stops>>

\* store_metric_value: the primary metrics, then the derived ones.
PersistMetric ==
    /\ loader.pc = "load" /\ loader.rows = {} /\ loader.metrics # {}
    /\ LET row == CHOOSE m \in loader.metrics :
                      m.derived => \A n \in loader.metrics : n.derived
           same == {m \in metrics : /\ m.metric = row.metric /\ m.year = row.year
                                    /\ m.derived = row.derived}
       IN  /\ metrics' = (metrics \ same) \cup {row}
           /\ loader' = [loader EXCEPT !.metrics = @ \ {row}]
    /\ UNCHANGED <<filed, download, facts, loads, stops>>

FinishLoad ==
    /\ loader.pc = "load" /\ loader.rows = {} /\ loader.metrics = {}
    /\ loader' = IdleLoader
    /\ UNCHANGED <<filed, download, facts, metrics, loads, stops>>

LoadDies ==
    /\ loader.pc = "load" /\ stops < MaxStops
    /\ loader' = IdleLoader
    /\ stops' = stops + 1
    /\ UNCHANGED <<filed, download, facts, metrics, loads>>

BulkNext ==
    \/ \E f \in DOMAIN BulkFilings : FileWithSec(f)
    \/ CollectBulk \/ CollectDies
    \/ StartLoad \/ PersistFact \/ PersistMetric \/ FinishLoad \/ LoadDies

BulkSpec == BulkInit /\ [][BulkNext]_bulkVars

-------------------------------------------------------------------------------
(* Properties.                                                             *)

OfAFiling(fact) == fact.filing \in DOMAIN BulkFilings /\ fact.tag \in DOMAIN Tags

BulkTypeOK ==
    /\ filed \subseteq DOMAIN BulkFilings
    /\ download.filings \subseteq filed /\ download.whole \in BOOLEAN
    /\ loader.pc \in {"idle", "load"} /\ loader.rows \subseteq DOMAIN Statements
    /\ \A x \in facts : OfAFiling(x)
    /\ \A m \in metrics : m.derived \in BOOLEAN /\ \A x \in m.inputs : OfAFiling(x)
    /\ loads \in 0 .. MaxLoads /\ stops \in 0 .. MaxStops

\* A filing that reports its year under each tag it reports a past year under, and
\* none that is still to come.
ReportsItsYear(f) ==
    LET stated == FactRows({f})
    IN  \A i \in stated :
            /\ Statements[i].end <= BulkFilings[f].year
            /\ \E j \in stated : /\ Statements[j].tag = Statements[i].tag
                                 /\ Statements[j].end = BulkFilings[f].year

\* No comparative period is stored as a fiscal year's, in a metric or a derived one.
MetricsAreOfTheirYear ==
    \A m \in metrics : \A x \in m.inputs : ReportsItsYear(x.filing) => x.end = m.year

\* When a load ends, the derived metrics of a year are those of the stored primary
\* ones, whatever the loads that died before left behind.
DerivedFollowsPrimary ==
    LET primary == {m \in metrics : ~m.derived}
    IN  \A m \in metrics :
            m.derived /\ HasShares(primary, m.year) => m = DerivedRow(primary, m.metric, m.year)

\* A stored metric gives way only to one that was filed as late.
NeverAnOlderFiling ==
    \A m \in metrics, n \in metrics' :
        m.metric = n.metric /\ m.year = n.year /\ ~m.derived /\ ~n.derived =>
            \A x \in m.inputs, y \in n.inputs :
                BulkFilings[y.filing].filed >= BulkFilings[x.filing].filed

\* The metrics of a fiscal year are those of the newest filing that states them, and
\* what is derived from them goes with them (sec_bulk_warehouse.py:392, cli.py:8002).
BulkMetricsFollowTheFilings ==
    /\ [][MetricsAreOfTheirYear' /\ NeverAnOlderFiling]_bulkVars
    /\ [][FinishLoad => DerivedFollowsPrimary]_bulkVars
===============================================================================
