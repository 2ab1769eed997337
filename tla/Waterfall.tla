------------------------------- MODULE Waterfall -------------------------------
(***************************************************************************)
(* The adjusted figure of one earnings exhibit: the first strategy of the  *)
(* normalisation, S1, which reads the reconciliation table of a company.   *)
(* S2 and S4 need facts that normalize-us does not give them, S3 is a      *)
(* stub, so that S1's answer is the answer.                                *)
(*                                                                         *)
(* A table is [score, rows], a row [type, category, value, gain]: the      *)
(* outcome of classify_row, match_category and parse_decimal.  A value is  *)
(* a set, empty where no cell of the row is a number.  Amounts are in      *)
(* cents, net income in cents too, and confidence in hundredths.           *)
(***************************************************************************)
EXTENDS Integers, Sequences, FiniteSets, SequencesExt

\* TAXONOMY: a category of each tax rule and of each policy.
TaxRules ==
    [restructuring           |-> "after_tax",
     stock_based_compensation |-> "after_tax",
     fx_one_off              |-> "after_tax",
     goodwill_impairment     |-> "no_tax_benefit",
     one_time_tax            |-> "direct",
     discontinued_operations |-> "net_of_tax"]

Policies == {"street_comparable", "core"}

\* should_include_adjustment, for the sector policy of the command line.
Included(category, policy) ==
    /\ category # "fx_one_off"
    /\ policy = "core" => category # "stock_based_compensation"

Magnitude(n) == IF n < 0 THEN -n ELSE n
The(value)   == CHOOSE n \in value : TRUE

\* _row_map and _value: the first row of a type that has a number.
Figure(rows, type) ==
    LET have == SelectSeq(rows, LAMBDA r : r.type = type /\ r.value # {})
    IN  IF have = << >> THEN {} ELSE Head(have).value

AdjustmentRows(rows) ==
    SelectSeq(rows, LAMBDA r : r.type \in {"adjustment_line", "discontinued_ops"} /\ r.value # {})

\* A gain is taken out, and so are discontinued operations.
Sign(row) == IF row.gain \/ row.type = "discontinued_ops" THEN -1 ELSE 1

-------------------------------------------------------------------------------
(* Tax.                                                                    *)

\* Mutant: the last row is rounded down as the others are.
RoundedDown(tax, shared, own) == own
Remainder(tax, shared, own)   == tax - shared

\* _tax_effect_allocations: the tax line is shared out among the taxable rows by
\* size, the last one takes what rounding left.  The shares are kept by row hash,
\* so that equal rows have the share of the last of them.
TaxShares(rows) ==
    LET lines == SelectSeq(rows, LAMBDA r : r.type = "tax_effect")
        taxable == SelectSeq(AdjustmentRows(rows), LAMBDA r : TaxRules[r.category] = "after_tax")
        Size(r) == Magnitude(The(r.value))
        total == FoldLeft(LAMBDA sum, r : sum + Size(r), 0, taxable)
        tax == Magnitude(The(Head(lines).value))
        Share(i) == (tax * Size(taxable[i])) \div total
        shared == FoldLeft(LAMBDA sum, i : sum + Share(i), 0,
                           [i \in 1 .. (Len(taxable) - 1) |-> i])
    IN  IF lines = << >> \/ taxable = << >> THEN {}
        ELSE IF Head(lines).value = {} \/ total = 0 THEN {}
        ELSE {[row |-> taxable[i], tax |-> IF i = Len(taxable) THEN Remainder(tax, shared, Share(i))
                                           ELSE Share(i)] :
                i \in {j \in DOMAIN taxable : \A k \in DOMAIN taxable :
                            taxable[k] = taxable[j] => k <= j}}

TaxOf(rows, row) == {s.tax : s \in {share \in TaxShares(rows) : share.row = row}}

\* after_tax_impact with the statutory rate.  The net-of-tax rule has no branch of
\* its own for an amount that is given as pre-tax: it is taxed like the others.
Impact(rows, row) ==
    LET size == Magnitude(The(row.value))
        tax == TaxOf(rows, row)
    IN  CASE TaxRules[row.category] \in {"direct", "no_tax_benefit"} ->
                [amount |-> Sign(row) * size, flag |-> "none"]
          [] TaxRules[row.category] \in {"after_tax", "net_of_tax"} /\ tax # {} ->
                [amount |-> Sign(row) * (size - The(tax)), flag |-> "explicit_tax_effect"]
          [] TaxRules[row.category] \in {"after_tax", "net_of_tax"} /\ tax = {} ->
                [amount |-> Sign(row) * (size - (size * 21) \div 100),
                 flag |-> "inferred_tax_effect"]

-------------------------------------------------------------------------------
(* The bridge, its confidence and its quality.                             *)

\* reconstructed_adjusted_ni: from the GAAP figure if there is one.
Reconstructed(rows, policy) ==
    LET gaap == Figure(rows, "gaap_ni")
        Add(sum, row) == sum + IF Included(row.category, policy) THEN Impact(rows, row).amount ELSE 0
    IN  IF gaap = {} THEN Figure(rows, "adjusted_ni")
        ELSE {FoldLeft(Add, The(gaap), AdjustmentRows(rows))}

\* The two EPS differ by more than a cent and half a percent.
OutsideTolerance(stated, ni, shares) ==
    LET cents == IF Magnitude(stated) > 200 THEN Magnitude(stated) ELSE 200   \* 200ths of one
    IN  200 * Magnitude(stated * shares - ni) > cents * shares

\* The EPS the company states is compared where one can be rebuilt.
Reconciles(rows, policy) ==
    LET stated == Figure(rows, "adjusted_eps")
        ni == Reconstructed(rows, policy)
        shares == Figure(rows, "diluted_shares")
    IN  stated # {} /\ ni # {} /\ shares \notin {{}, {0}} =>
            ~OutsideTolerance(The(stated), The(ni), The(shares))

\* base_confidence for S1, with a period that is always clear.
BaseConfidence(direct, bridge, explicit) ==
    IF direct /\ bridge /\ explicit THEN 95
    ELSE IF direct /\ bridge THEN 90
    ELSE IF direct THEN 85
    ELSE 75

Confidence(rows, policy) ==
    LET lines == AdjustmentRows(rows)
        flags == {Impact(rows, lines[i]).flag : i \in DOMAIN lines}
        Penalty(condition, points) == IF condition THEN points ELSE 0
    IN  BaseConfidence(Figure(rows, "adjusted_eps") # {}, lines # << >>,
                       "explicit_tax_effect" \in flags)
            - Penalty(~Reconciles(rows, policy), 10)
            - Penalty("inferred_tax_effect" \in flags, 5)

Quality(rows, policy) ==
    IF Reconciles(rows, policy) /\ Confidence(rows, policy) >= 80 THEN "passed" ELSE "warning"

\* The EPS of the record, as a fraction: the company's own if it states one.
AdjustedEps(rows, policy) ==
    LET stated == Figure(rows, "adjusted_eps")
        ni == Reconstructed(rows, policy)
        shares == Figure(rows, "diluted_shares")
    IN  IF stated # {} THEN {<<The(stated), 1>>}
        ELSE IF ni # {} /\ shares \notin {{}, {0}} THEN {<<The(ni), The(shares)>>}
        ELSE {}

Record(rows, policy) ==
    [eps |-> AdjustedEps(rows, policy), ni |-> Reconstructed(rows, policy),
     quality |-> Quality(rows, policy), stated |-> Figure(rows, "adjusted_eps"),
     shares |-> Figure(rows, "diluted_shares"), gaap |-> Figure(rows, "gaap_ni")]

\* find_reconciliation_tables sorts by score, and the sort is stable: S1 reads the
\* first of the best.
BestTable(tables) ==
    tables[CHOOSE i \in DOMAIN tables : \A j \in DOMAIN tables :
        tables[j].score < tables[i].score \/ (tables[j].score = tables[i].score /\ i <= j)]

\* No record of an exhibit without a table.
RecordsOf(tables, policy) ==
    IF tables = << >> THEN {} ELSE {Record(BestTable(tables).rows, policy)}
===============================================================================
