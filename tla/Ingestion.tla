------------------------------ MODULE Ingestion ------------------------------
(***************************************************************************)
(* The ingestion worker against Postgres and the local disk.               *)
(*                                                                         *)
(* An attempt is one invocation of a worker command.  It executes the      *)
(* calls of its job's program (module Pipelines) one after the other; each *)
(* repository call is a transaction of its own (IngestionRepository,       *)
(* engine.begin()), so between two calls other attempts run, and the       *)
(* process may die.  A call may raise, with or without its transaction     *)
(* having been committed: inside the `try` of the persist function the run *)
(* is then recorded as failed, before it the exception leaves the run as   *)
(* it is.  A retry is another attempt at the same job, with a run of its   *)
(* own.  The upload of queued files goes on concurrently.                  *)
(***************************************************************************)
EXTENDS Integers, Sequences, FiniteSets

CONSTANTS
    Attempts,     \* invocations of the worker; an attempt names its ingestion run
    Jobs,         \* what can be invoked
    Program,      \* job -> the calls it makes (a sequence; see Pipelines)
    Docs,         \* payloads, by content hash, source and identifier
    Keys,         \* natural keys: of securities, and of rows in the fact tables
    LocalFiles,   \* the documents whose file is on disk before any attempt
    NoJob, NoDoc, NoAttempt,
    Faults,       \* which of "raise", "lost_ack", "finish", "crash" may happen
    MaxFaults,    \* bound: how many faults happen in a behaviour
    MaxParallel   \* how many attempts are under way at the same time

FactTables ==
    {"store_adjusted_earnings", "store_metric_value", "store_financial_fact",
     "store_price_bar", "store_dividend", "store_consensus_snapshot"}

\* The rows of these tables never pass assert_storage_ready (TraceContract).
MacroTables ==
    {"store_macro_observation", "store_industry_observation", "store_recession_period"}

Ops == FactTables \union MacroTables \union
    {"start_run", "finish_run", "ensure_security", "write_raw_document",
     "store_source_document", "enqueue", "store_raw_object",
     "store_raw_object_without_blob", "delete_adjustments_for", "store_adjustment"}

CallType ==
    [op: Ops, doc: Docs \union {NoDoc}, key: Keys, line: Nat,
     ready: BOOLEAN, guarded: BOOLEAN]

RawObjectOps == {"store_raw_object", "store_raw_object_without_blob"}

\* Program p makes a call `op` about document d before its call i.
Earlier(p, i, op, d) == \E k \in 1..(i - 1) : p[k].op = op /\ p[k].doc = d

AdjustmentOps == {"delete_adjustments_for", "store_adjustment"}

\* What every program of Pipelines satisfies: a run is finished, last, if it is
\* started, and is started before any guarded call; a raw object, and a row about a
\* document, is stored after the document's own row, and the row after its raw
\* object; the adjustments of an earnings row are touched after the row is stored.
WellOrdered(p) ==
    \A i \in 1..Len(p) :
        /\ p[i].op = "finish_run" => i = Len(p) /\ p[i].guarded
        /\ p[i].op = "start_run" => p[Len(p)].op = "finish_run"
        /\ p[i].guarded => Earlier(p, i, "start_run", NoDoc)
        /\ p[i].op \in MacroTables => ~p[i].ready
        /\ p[i].op \in RawObjectOps =>
              p[i].doc # NoDoc /\ Earlier(p, i, "store_source_document", p[i].doc)
        /\ p[i].op \in {"store_source_document", "enqueue", "write_raw_document"} =>
              p[i].doc # NoDoc
        /\ p[i].op = "enqueue" =>
              p[i].doc \in LocalFiles \/ Earlier(p, i, "write_raw_document", p[i].doc)
        /\ p[i].op \in FactTables /\ p[i].doc # NoDoc =>
              /\ Earlier(p, i, "store_source_document", p[i].doc)
              /\ \E op \in RawObjectOps : Earlier(p, i, op, p[i].doc)
        /\ p[i].op \in AdjustmentOps =>
              \E k \in 1..(i - 1) : p[k].op \in FactTables /\ p[k].key = p[i].key

ASSUME ProgramAssumption ==
    /\ Program \in [Jobs -> Seq(CallType)]
    /\ \A j \in Jobs : Program[j] # <<>> /\ WellOrdered(Program[j])
    /\ LocalFiles \subseteq Docs
    /\ NoJob \notin Jobs /\ NoDoc \notin Docs /\ NoAttempt \notin Attempts
    /\ MaxFaults \in Nat /\ MaxParallel \in Nat

\* Two conditions that some of the theorems ask for.  No program stores a macro row,
\* which is refused always.
NoMacroRows ==
    \A j \in Jobs : \A i \in 1..Len(Program[j]) : Program[j][i].op \notin MacroTables

\* Where some program stores adjustments for a key, each that stores the row of it
\* deletes the adjustments that are there.
CallsFor(p, i, op, k) == p[i].op = op /\ p[i].key = k

StoresRow(p, i, k) == p[i].op \in FactTables /\ p[i].key = k

BridgedKeys ==
    {k \in Keys : \E j \in Jobs : \E i \in 1..Len(Program[j]) :
        CallsFor(Program[j], i, "store_adjustment", k)}

BridgesAreRewritten ==
    \A j \in Jobs : \A i \in 1..Len(Program[j]) : \A k \in BridgedKeys :
        StoresRow(Program[j], i, k) =>
            \E m \in 1..Len(Program[j]) : CallsFor(Program[j], m, "delete_adjustments_for", k)

VARIABLES
    job,         \* attempt -> its job, or NoJob
    phase,       \* attempt -> "idle", "working", "failing" (in the except), "ended", "crashed"
    at,          \* attempt -> the index of its next call
    looked,      \* attempts inside ensure_security that saw no row for the ticker
    faults,      \* how many faults have happened
    run,         \* ingestion_runs.status of the attempt's run, "none" without a row
    securities,  \* securities: keys
    files,       \* storage/raw: documents
    sourceDocs,  \* source_documents: [attempt, doc], a new row each time
    rawObjects,  \* raw_objects: doc -> the source document of its row and its blob_key
    queue,       \* storage/blob_queue: documents with a manifest
    uploaded,    \* storage/blob_queue/uploaded: documents whose upload is done
    facts,       \* fact tables: key -> cell
    lines        \* adjustments: [key, attempt, line]

control == <<job, phase, at, looked, faults>>
stores  == <<run, securities, files, sourceDocs, rawObjects, queue, uploaded, facts, lines>>
vars    == <<control, stores>>

-----------------------------------------------------------------------------
DocId == [attempt: Attempts, doc: Docs \union {NoDoc}]
NoId  == [attempt |-> NoAttempt, doc |-> NoDoc]

\* A row of a fact table: `value` is the document its value and its trace are
\* taken from; `column` the one that its source_document_id names, with the other
\* columns that ON CONFLICT DO UPDATE leaves alone (NoId: the table has none).
NoCell == [column |-> NoId, value |-> NoId]
NoRaw  == [source |-> NoId, blob |-> FALSE]

Call(a) == Program[job[a]][at[a]]
Last(a) == Len(Program[job[a]])
Id(a)   == [attempt |-> a, doc |-> Call(a).doc]

Doing(a, op) == phase[a] = "working" /\ Call(a).op = op

Active == {a \in Attempts : phase[a] \in {"working", "failing"}}

Init ==
    /\ job = [a \in Attempts |-> NoJob]
    /\ phase = [a \in Attempts |-> "idle"]
    /\ at = [a \in Attempts |-> 1]
    /\ looked = {}
    /\ faults = 0
    /\ run = [a \in Attempts |-> "none"]
    /\ securities = {}
    /\ files = LocalFiles
    /\ sourceDocs = {}
    /\ rawObjects = [d \in Docs |-> NoRaw]
    /\ queue = {}
    /\ uploaded = {}
    /\ facts = [k \in Keys |-> NoCell]
    /\ lines = {}

-----------------------------------------------------------------------------
\* How a call comes back.

\* The call returns: the attempt goes on to the next one, or is done.
Return(a) ==
    /\ at' = [at EXCEPT ![a] = @ + 1]
    /\ phase' = [phase EXCEPT ![a] = IF at[a] = Last(a) THEN "ended" ELSE "working"]
    /\ UNCHANGED faults

\* Mutant: the exception is swallowed, the attempt goes on.
ThrowSwallowed(a) ==
    /\ at' = [at EXCEPT ![a] = @ + 1]
    /\ phase' = [phase EXCEPT ![a] = IF at[a] = Last(a) THEN "ended" ELSE "working"]

\* The call raises: inside the `try` the except clause is next, before it the
\* exception leaves the command.
Throw(a) ==
    /\ phase' = [phase EXCEPT ![a] = IF Call(a).guarded THEN "failing" ELSE "ended"]
    /\ UNCHANGED at

Fault(kind) ==
    /\ kind \in Faults
    /\ faults < MaxFaults
    /\ faults' = faults + 1

\* A call that has taken effect returns, or its acknowledgement is lost.
Acknowledge(a) == Return(a) \/ (Fault("lost_ack") /\ Throw(a))

\* A job is invoked, for the first time or as a retry.
Begin(a, j) ==
    /\ phase[a] = "idle"
    /\ Cardinality(Active) < MaxParallel
    /\ job' = [job EXCEPT ![a] = j]
    /\ phase' = [phase EXCEPT ![a] = "working"]
    /\ UNCHANGED <<at, looked, faults, stores>>

-----------------------------------------------------------------------------
\* ingestion_runs.

StartRun(a) ==
    /\ Doing(a, "start_run")
    /\ run' = [run EXCEPT ![a] = "running"]
    /\ Acknowledge(a)
    /\ UNCHANGED <<job, looked, securities, files, sourceDocs, rawObjects,
                   queue, uploaded, facts, lines>>

\* finish_run(run_id) at the end of the `try`; the UPDATE has no guard.
FinishRun(a) ==
    /\ Doing(a, "finish_run")
    /\ run' = [run EXCEPT ![a] = "succeeded"]
    /\ Acknowledge(a)
    /\ UNCHANGED <<job, looked, securities, files, sourceDocs, rawObjects,
                   queue, uploaded, facts, lines>>

\* Mutants: the default status of finish_run is left in place; a status that is
\* none of ingestion_runs; the exception passes without a record.
RecordFailureWithDefaultStatus(a) ==
    /\ phase[a] = "failing"
    /\ run' = [run EXCEPT ![a] = "succeeded"]
    /\ phase' = [phase EXCEPT ![a] = "ended"]
    /\ UNCHANGED <<job, at, looked, faults, securities, files, sourceDocs, rawObjects,
                   queue, uploaded, facts, lines>>

RecordFailureAsError(a) ==
    /\ phase[a] = "failing"
    /\ run' = [run EXCEPT ![a] = "error"]
    /\ phase' = [phase EXCEPT ![a] = "ended"]
    /\ UNCHANGED <<job, at, looked, faults, securities, files, sourceDocs, rawObjects,
                   queue, uploaded, facts, lines>>

RecordFailureForgotten(a) ==
    /\ phase[a] = "failing"
    /\ phase' = [phase EXCEPT ![a] = "ended"]
    /\ UNCHANGED <<job, at, looked, faults, stores>>

\* The except clause: finish_run(run_id, status="failed"), then `raise`.
RecordFailure(a) ==
    /\ phase[a] = "failing"
    /\ run' = [run EXCEPT ![a] = "failed"]
    /\ phase' = [phase EXCEPT ![a] = "ended"]
    /\ UNCHANGED <<job, at, looked, faults, securities, files, sourceDocs, rawObjects,
                   queue, uploaded, facts, lines>>

\* finish_run itself raises in the except clause: the run keeps its status.
FailToRecord(a) ==
    /\ phase[a] = "failing"
    /\ Fault("finish")
    /\ phase' = [phase EXCEPT ![a] = "ended"]
    /\ UNCHANGED <<job, at, looked, stores>>

-----------------------------------------------------------------------------
\* ensure_security: SELECT, and when there is no row INSERT in the same
\* transaction.  securities.ticker is unique, and READ COMMITTED does not see the
\* other transaction's row, so of two inserts the second raises.

FindSecurity(a) ==
    /\ Doing(a, "ensure_security")
    /\ a \notin looked
    /\ Call(a).key \in securities
    /\ Return(a)
    /\ UNCHANGED <<job, looked, stores>>

\* Mutant: the ticker is compared before it is put in upper case, and not found.
MissSecurityUnnormalised(a) ==
    /\ Doing(a, "ensure_security")
    /\ a \notin looked
    /\ looked' = looked \union {a}
    /\ UNCHANGED <<job, phase, at, faults, stores>>

MissSecurity(a) ==
    /\ Doing(a, "ensure_security")
    /\ a \notin looked
    /\ Call(a).key \notin securities
    /\ looked' = looked \union {a}
    /\ UNCHANGED <<job, phase, at, faults, stores>>

InsertSecurity(a) ==
    /\ a \in looked
    /\ Doing(a, "ensure_security")
    /\ Call(a).key \notin securities
    /\ securities' = securities \union {Call(a).key}
    /\ looked' = looked \ {a}
    /\ Acknowledge(a)
    /\ UNCHANGED <<job, run, files, sourceDocs, rawObjects, queue, uploaded, facts, lines>>

\* IntegrityError; the transaction, with the companies row, is rolled back.
LoseInsertRace(a) ==
    /\ a \in looked
    /\ Doing(a, "ensure_security")
    /\ Call(a).key \in securities
    /\ looked' = looked \ {a}
    /\ Throw(a)
    /\ UNCHANGED <<job, faults, stores>>

-----------------------------------------------------------------------------
\* The document: its file, its rows, its upload.

WriteRawDocument(a) ==
    /\ Doing(a, "write_raw_document")
    /\ files' = files \union {Call(a).doc}
    /\ Acknowledge(a)
    /\ UNCHANGED <<job, looked, run, securities, sourceDocs, rawObjects,
                   queue, uploaded, facts, lines>>

\* Always a new row, with a fresh id.
StoreSourceDocument(a) ==
    /\ Doing(a, "store_source_document")
    /\ sourceDocs' = sourceDocs \union {Id(a)}
    /\ Acknowledge(a)
    /\ UNCHANGED <<job, looked, run, securities, files, rawObjects,
                   queue, uploaded, facts, lines>>

\* One manifest per Blob key: a manifest already there is overwritten.
Enqueue(a) ==
    /\ Doing(a, "enqueue")
    /\ queue' = queue \union {Call(a).doc}
    /\ Acknowledge(a)
    /\ UNCHANGED <<job, looked, run, securities, files, sourceDocs, rawObjects,
                   uploaded, facts, lines>>

\* On conflict the row keeps the run and the source document it was first stored
\* with, and takes the new blob_key.
StoreRawObject(a) ==
    /\ \E op \in RawObjectOps : Doing(a, op)
    /\ rawObjects' = [rawObjects EXCEPT ![Call(a).doc] =
           [source |-> IF @ = NoRaw THEN Id(a) ELSE @.source,
            blob   |-> Call(a).op = "store_raw_object"]]
    /\ Acknowledge(a)
    /\ UNCHANGED <<job, looked, run, securities, files, sourceDocs,
                   queue, uploaded, facts, lines>>

\* Mutant: a file that is missing or fails to upload loses its manifest.
UploadDropped(d) ==
    /\ d \in queue
    /\ queue' = queue \ {d}
    /\ UNCHANGED <<control, run, securities, files, sourceDocs, rawObjects,
                   uploaded, facts, lines>>

\* scripts/blob-sync.mjs uploads a queued file and moves its manifest away.
Upload(d) ==
    /\ d \in queue
    /\ d \in files
    /\ queue' = queue \ {d}
    /\ uploaded' = uploaded \union {d}
    /\ UNCHANGED <<control, run, securities, files, sourceDocs, rawObjects, facts, lines>>

-----------------------------------------------------------------------------
\* Fact rows: INSERT ... ON CONFLICT DO UPDATE on the natural key.

\* source_document_id is not among the updated columns.
KeepColumn(old, id) == [column |-> IF old = NoCell THEN id ELSE old.column, value |-> id]

\* The table has no source_document_id.
NoColumn(old, id) == [column |-> NoId, value |-> id]

Upsert(a, op, Cell(_, _)) ==
    /\ Doing(a, op)
    /\ Call(a).ready
    /\ facts' = [facts EXCEPT ![Call(a).key] = Cell(@, Id(a))]
    /\ Acknowledge(a)
    /\ UNCHANGED <<job, looked, run, securities, files, sourceDocs, rawObjects,
                   queue, uploaded, lines>>

StoreAdjustedEarnings(a)  == Upsert(a, "store_adjusted_earnings", KeepColumn)
StoreMetricValue(a)       == Upsert(a, "store_metric_value", KeepColumn)
StoreFinancialFact(a)     == Upsert(a, "store_financial_fact", KeepColumn)
StoreConsensusSnapshot(a) == Upsert(a, "store_consensus_snapshot", KeepColumn)
StorePriceBar(a)          == Upsert(a, "store_price_bar", NoColumn)
StoreDividend(a)          == Upsert(a, "store_dividend", NoColumn)

\* _storage_ready_trace raises ValueError before the transaction is opened.  For a
\* macro, industry or recession row this is the only outcome.
RejectTrace(a) ==
    /\ phase[a] = "working"
    /\ Call(a).op \in FactTables \union MacroTables
    /\ ~Call(a).ready
    /\ Throw(a)
    /\ UNCHANGED <<job, looked, faults, stores>>

\* Mutant: the lines of the earlier run stay.
DeleteAdjustmentsForNothing(a) ==
    /\ Doing(a, "delete_adjustments_for")
    /\ Acknowledge(a)
    /\ UNCHANGED <<job, looked, stores>>

DeleteAdjustmentsFor(a) ==
    /\ Doing(a, "delete_adjustments_for")
    /\ lines' = {line \in lines : line.key # Call(a).key}
    /\ Acknowledge(a)
    /\ UNCHANGED <<job, looked, run, securities, files, sourceDocs, rawObjects,
                   queue, uploaded, facts>>

\* A plain INSERT with a fresh id.
StoreAdjustment(a) ==
    /\ Doing(a, "store_adjustment")
    /\ lines' = lines \union {[key |-> Call(a).key, attempt |-> a, line |-> Call(a).line]}
    /\ Acknowledge(a)
    /\ UNCHANGED <<job, looked, run, securities, files, sourceDocs, rawObjects,
                   queue, uploaded, facts>>

-----------------------------------------------------------------------------
\* Faults.

\* A call raises without effect: the connection, the disk, a parse error.
Raise(a) ==
    /\ phase[a] = "working"
    /\ Fault("raise")
    /\ Throw(a)
    /\ looked' = looked \ {a}
    /\ UNCHANGED <<job, stores>>

\* The process dies, for instance at the time limit of the workflow.
Crash(a) ==
    /\ a \in Active
    /\ Fault("crash")
    /\ phase' = [phase EXCEPT ![a] = "crashed"]
    /\ looked' = looked \ {a}
    /\ UNCHANGED <<job, at, stores>>

-----------------------------------------------------------------------------
StoreRow(a) ==
    \/ StoreAdjustedEarnings(a) \/ StoreMetricValue(a) \/ StoreFinancialFact(a)
    \/ StoreConsensusSnapshot(a) \/ StorePriceBar(a) \/ StoreDividend(a)
    \/ RejectTrace(a)

\* What an attempt does of itself.
Step(a) ==
    \/ StartRun(a) \/ FinishRun(a) \/ RecordFailure(a)
    \/ FindSecurity(a) \/ MissSecurity(a) \/ InsertSecurity(a) \/ LoseInsertRace(a)
    \/ WriteRawDocument(a) \/ StoreSourceDocument(a) \/ Enqueue(a) \/ StoreRawObject(a)
    \/ StoreRow(a)
    \/ DeleteAdjustmentsFor(a) \/ StoreAdjustment(a)

\* What happens to it.
Accident(a) == Raise(a) \/ Crash(a) \/ FailToRecord(a)

Next ==
    \/ \E a \in Attempts : (\E j \in Jobs : Begin(a, j)) \/ Step(a) \/ Accident(a)
    \/ \E d \in Docs : Upload(d)

Spec == Init /\ [][Next]_vars

\* A process that is alive goes on; nothing obliges anyone to start one, to upload
\* or to fail.
FairSpec == Spec /\ \A a \in Attempts : WF_vars(Step(a))

-----------------------------------------------------------------------------
Cell == [column: DocId \union {NoId}, value: DocId \union {NoId}]

TypeOK ==
    /\ job \in [Attempts -> Jobs \union {NoJob}]
    /\ phase \in [Attempts -> {"idle", "working", "failing", "ended", "crashed"}]
    /\ at \in [Attempts -> Nat \ {0}]
    /\ looked \in SUBSET Attempts
    /\ faults \in 0..MaxFaults
    /\ run \in [Attempts -> {"none", "running", "succeeded", "failed"}]
    /\ securities \in SUBSET Keys
    /\ files \in SUBSET Docs
    /\ sourceDocs \in SUBSET DocId
    /\ rawObjects \in [Docs -> [source: DocId \union {NoId}, blob: BOOLEAN]]
    /\ queue \in SUBSET Docs
    /\ uploaded \in SUBSET Docs
    /\ facts \in [Keys -> Cell]
    /\ lines \in SUBSET [key: Keys, attempt: Attempts, line: Nat]

\* Provenance is closed, in every state, whatever failed and whoever interleaved:
\* the documents that a fact row names are in source_documents, their payloads
\* are registered in raw_objects, and a raw object names a stored document.
ProvenanceClosed ==
    /\ \A k \in Keys : \A id \in {facts[k].column, facts[k].value} :
          id.doc # NoDoc => id \in sourceDocs /\ rawObjects[id.doc] # NoRaw
    /\ \A d \in Docs : rawObjects[d] # NoRaw => rawObjects[d].source \in sourceDocs

\* A raw object that is registered under a Blob key is uploaded, or is in the
\* upload queue with its file on disk: the key never dangles.
RegisteredBlobIsUploadable ==
    \A d \in Docs :
        rawObjects[d].blob => d \in uploaded \/ (d \in queue /\ d \in files)

\* What call c of attempt a leaves behind for good.  A row may since have been
\* given the value of another attempt, but it is there.
Effect(a, c) ==
    /\ c.op = "ensure_security" => c.key \in securities
    /\ c.op = "write_raw_document" => c.doc \in files
    /\ c.op = "store_source_document" => [attempt |-> a, doc |-> c.doc] \in sourceDocs
    /\ c.op = "enqueue" => c.doc \in queue \union uploaded
    /\ c.op \in RawObjectOps => rawObjects[c.doc] # NoRaw
    /\ c.op \in FactTables => facts[c.key] # NoCell
    /\ c.op \notin MacroTables

\* A run recorded as succeeded has left the effect of every call of its program:
\* no call was skipped, none was only reported.
SucceededRunIsComplete ==
    \A a \in Attempts : run[a] = "succeeded" =>
        \A i \in 1..(Last(a) - 1) : Effect(a, Program[job[a]][i])

\* The bookkeeping that makes SucceededRunIsComplete inductive: an attempt under
\* way is at one of its calls, and every call behind it has left its effect.
AttemptsOnCourse ==
    \A a \in Attempts :
        /\ phase[a] = "idle" => at[a] = 1 /\ run[a] = "none"
        /\ phase[a] # "idle" => job[a] \in Jobs /\ at[a] <= Last(a) + 1
        /\ phase[a] \in {"working", "failing"} => at[a] <= Last(a)
        /\ run[a] = "succeeded" => at[a] >= Last(a)

CallsBehindAreDone ==
    \A a \in Attempts : phase[a] # "idle" =>
        \A i \in 1..(at[a] - 1) : Effect(a, Program[job[a]][i])

\* The adjustment lines of an earnings row that a program ends up with.
LinesOf(a, k) ==
    LET p == Program[job[a]]
        About(i, op) == p[i].op = op /\ p[i].key = k
    IN  {[key |-> k, attempt |-> a, line |-> p[i].line] :
            i \in {n \in 1..Len(p) :
                     /\ About(n, "store_adjustment")
                     /\ \A m \in n..Len(p) : ~About(m, "delete_adjustments_for")}}

\* When no attempt is under way, the bridge of an earnings row last stored by a
\* succeeded run is the bridge of that run, line for line, after any number of
\* failed and crashed attempts.  Only one attempt at a time is assumed.
AdjustmentsMatchEarnings ==
    \A k \in Keys :
        LET a == facts[k].value.attempt
        IN  a \in Attempts /\ Active = {} =>
                (run[a] = "succeeded" => {line \in lines : line.key = k} = LinesOf(a, k))

\* A run is left `running` by an attempt that has not crashed only if what ended it
\* was raised outside of the `try`.  (Assumes that finish_run, called in the except
\* clause, does not fail.)
EndedRunIsSettled ==
    \A a \in Attempts :
        phase[a] = "ended" /\ run[a] = "running" => ~Call(a).guarded

\* An attempt that nothing disturbs, neither a fault nor another attempt, does not
\* fail, whatever earlier ones left in the tables: but for a row whose trace is refused
\* (assert_storage_ready), which is what the contract is for.
UndisturbedAttemptSucceeds ==
    \A a \in Attempts : phase[a] = "ended" /\ faults = 0 =>
        at[a] > Last(a) \/ (Call(a).op \in FactTables /\ ~Call(a).ready)

MetricKeys ==
    {k \in Keys : \E j \in Jobs : \E i \in 1..Len(Program[j]) :
        Program[j][i].op = "store_metric_value" /\ Program[j][i].key = k}

\* README.md:608: a restatement does not overwrite.  The metric value that a
\* succeeded run stored from a document is still there, in metric_values.
RestatementIsVersioned ==
    \A a \in Attempts : run[a] = "succeeded" =>
        \A i \in 1..Last(a) :
            Program[job[a]][i].op = "store_metric_value" =>
                \E k \in MetricKeys : facts[k].value.doc = Program[job[a]][i].doc

\* The attempt has crashed, or was ended by an exception raised outside of the `try`.
EscapedTry(a) ==
    \/ phase[a] = "crashed"
    \/ phase[a] = "ended" /\ at[a] <= Last(a) /\ ~Call(a).guarded

\* Every run that was started is eventually recorded as succeeded or failed, as
\* long as the process lives, finish_run answers in the except clause, and
\* nothing is raised between start_run and the `try`.
RunSettles ==
    \A a \in Attempts :
        run[a] = "running" ~> (run[a] \in {"succeeded", "failed"} \/ EscapedTry(a))

=============================================================================
