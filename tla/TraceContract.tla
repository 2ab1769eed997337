---------------------------- MODULE TraceContract ----------------------------
(***************************************************************************)
(* The provenance contract of packages/core/source_trace.py, as the        *)
(* repository applies it to every row before it opens a transaction.       *)
(*                                                                         *)
(* A trace is abstracted to the set of required fields that hold a value.  *)
(* A field whose text is empty, "unknown", "n/a", "na" or "none" holds no  *)
(* value (_missing_trace_value and _is_missing), so the placeholder "N/A"  *)
(* that some callers pass is no value either.                              *)
(***************************************************************************)
EXTENDS FiniteSets

\* STORAGE_REQUIRED_FIELDS.
RequiredFields ==
    {"source", "source_document_id", "filing_id", "period",
     "unit", "currency", "method", "formula"}

\* _storage_ready_trace: the fields of the row's own trace come first, then the
\* defaults of the repository call; a document id is derived when none is given.
CompletedTrace(own, defaults) == own \union defaults \union {"source_document_id"}

\* SourceTrace.missing_storage_fields, and assert_storage_ready on the result.
MissingFields(trace)      == RequiredFields \ trace
StorageReady(own, defaults) == MissingFields(CompletedTrace(own, defaults)) = {}

\* The defaults that a repository call passes and that are values.  The macro,
\* industry and recession calls pass currency="N/A"; store_financial_fact passes
\* the currency of the row, which is "N/A" for a unit such as EUR
\* (_currency_for_unit), so it gives no more than the row's own trace does.
MacroCalls ==
    {"store_macro_observation", "store_industry_observation", "store_recession_period"}

DefaultFields(call) ==
    IF call \in MacroCalls \union {"store_financial_fact"}
    THEN RequiredFields \ {"currency"}
    ELSE RequiredFields

=============================================================================
