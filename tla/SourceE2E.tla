------------------------------- MODULE SourceE2E -------------------------------
(***************************************************************************)
(* The orchestrators of the worker: run-source-e2e for one market,         *)
(* run-p1-e2e and run-priority-e2e, which call it, their dry runs, the     *)
(* remediation actions of the coverage report and the deploy gate.  A run  *)
(* is a stack of frames; a step calls one collector or loader, which may   *)
(* raise after any prefix of its tickers.                                  *)
(***************************************************************************)
EXTENDS SourceCoverage

CONSTANTS
    Environments, \* what the process can be configured with
    P1Ticker,     \* market -> the ticker run-p1-e2e takes for it
    Asked,        \* the flags and markets commands are given
    MaxRuns, MaxHitches   \* bounds on commands, and on steps that do not go well

Flags == [persist : BOOLEAN, cont : BOOLEAN, consensus : BOOLEAN]
Credentials == {"SEC_USER_AGENT", "OPENDART_API_KEY", "JQUANTS credentials", "EDINET_API_KEY"}

ASSUME E2EAssumption ==
    /\ Environments \subseteq [postgres : BOOLEAN, keys : SUBSET Credentials, deploy : BOOLEAN]
    /\ \A m \in Markets : P1Ticker[m] \in Range(TickersOf(m))
    /\ Asked.flags \subseteq Flags /\ Asked.markets \subseteq SUBSET Markets
    /\ MaxRuns \in Nat /\ MaxHitches \in Nat

VARIABLES
    env,      \* DATA_BACKEND and DATABASE_URL, credentials, the static and private checks
    stored,   \* Postgres: ticker -> evidence
    disk,     \* the files of the machine: [archives, raw, cache, warehouse, csv]
    stack,    \* frames of the running command, innermost last
    answer,   \* what the last command printed
    runs, hitches
vars == <<env, stored, disk, stack, answer, runs, hitches>>

-------------------------------------------------------------------------------
(* What a run consists of. *)

\* The run of one market, as a step of the run over several.
RunId == [KR |-> "run KR", US |-> "run US", JP |-> "run JP"]

\* _source_e2e_steps, _p1_e2e_steps, planned_steps: the plan a run prints.
PlannedSteps(kind, markets) ==
    CASE kind = "source" /\ markets = <<"US">> ->
            <<"collect_sec_bulk", "load_sec_bulk_warehouse", "normalize_us_batch",
              "collect_stooq_prices", "source_coverage">>
      [] kind = "source" /\ markets = <<"KR">> ->
            <<"collect_opendart", "collect_pykrx_prices", "collect_marcap",
              "build_kr_valuation_inputs", "load_kr_valuation_postgres", "source_coverage">>
      [] kind = "source" /\ markets = <<"JP">> ->
            <<"collect_jquants", "collect_edinet", "collect_stooq_prices", "source_coverage">>
      [] kind = "p1" ->
            <<"run US", "collect_opendart", "collect_pykrx_prices", "collect_marcap",
              "collect_jquants", "collect_edinet", "collect_stooq_prices", "source_coverage">>
      [] kind = "priority" ->
            [i \in 1 .. Len(markets) |-> RunId[markets[i]]] \o <<"source_coverage">>

\* Mutant: the prices are planned and never collected.
SourceStepsWithoutPrices(m) ==
    CASE m = "US" -> <<"collect_sec_bulk", "load_sec_bulk_warehouse", "normalize_us_batch">>
      [] m = "KR" -> <<"collect_opendart", "collect_marcap", "build_kr_valuation_inputs",
                       "load_kr_valuation_postgres">>
      [] m = "JP" -> <<"collect_jquants", "collect_edinet">>

\* The steps of the market branch of run_source_e2e, as it calls them.
SourceSteps(m) ==
    CASE m = "US" -> <<"collect_sec_bulk", "load_sec_bulk_warehouse", "normalize_us_batch",
                       "collect_stooq_prices">>
      [] m = "KR" -> <<"collect_opendart", "collect_pykrx_prices", "collect_marcap",
                       "build_kr_valuation_inputs", "load_kr_valuation_postgres">>
      [] m = "JP" -> <<"collect_jquants", "collect_edinet", "collect_stooq_prices">>

P1Steps == <<"run US", "collect_opendart", "collect_pykrx_prices", "collect_marcap",
             "collect_jquants", "collect_edinet", "collect_stooq_prices">>

Steps(f) ==
    CASE f.kind = "source" -> Append(SourceSteps(f.markets[1]), "source_coverage")
      [] f.kind = "p1" -> Append(P1Steps, "source_coverage")
      [] f.kind = "priority" -> [i \in 1 .. Len(f.markets) |-> RunId[f.markets[i]]]
                                \o <<"source_coverage">>

\* The tickers a step works on, in order.
StepTickers(f, id) ==
    IF f.kind = "source" THEN f.tickers
    ELSE CASE id \in {"collect_opendart", "collect_pykrx_prices", "collect_marcap"} ->
                    <<P1Ticker["KR"]>>
           [] id \in {"collect_jquants", "collect_edinet", "collect_stooq_prices"} ->
                    <<P1Ticker["JP"]>>
           [] OTHER -> f.tickers

MarketKeys(m) == CASE m = "US" -> {"SEC_USER_AGENT"}
                   [] m = "KR" -> {"OPENDART_API_KEY"}
                   [] m = "JP" -> {"JQUANTS credentials", "EDINET_API_KEY"}

\* _source_e2e_prerequisites, _p1_e2e_prerequisites; the priority run has none of its own.
MissingPrerequisites(f) ==
    IF f.kind = "priority" THEN {}
    ELSE {e \in {"DATABASE_URL"} : f.flags.persist /\ ~ env.postgres}
         \union ((UNION {MarketKeys(m) : m \in Range(f.markets)}) \ env.keys)

-------------------------------------------------------------------------------
(* What the steps do. *)

FirstOf(T) == {Range(SubSeq(T, 1, n)) : n \in 0 .. Len(T)}

Store(some, id) ==
    [t \in Universe |-> stored[t] \union IF t \in some THEN Gives[id] ELSE {}]

RawKr == {"collect_opendart", "collect_pykrx_prices", "collect_marcap"}
\* Mutant: every document is taken for evidence of a KR valuation.
KeepRawOfAnySource(some, id) ==
    [t \in Range(KR) |-> disk.raw[t] \union IF t \in some THEN {id} ELSE {}]

KeepRaw(some, id) ==
    [t \in Range(KR) |-> disk.raw[t] \union IF t \in some /\ id \in RawKr THEN {id} ELSE {}]

\* The evidence a valuation of the ticker is built from.
Buildable(t) == disk.raw[t] = RawKr

WarehouseReport(T, consensus) ==
    LET have == [t \in Universe |->
                    (IF t \in disk.warehouse THEN Evidence \ {"consensus_forecast"} ELSE {})
                    \union {e \in {"consensus_forecast"} :
                               t \in disk.csv /\ disk.warehouse # {}}]
    IN  Report(have, T, consensus)

\* source_coverage_report: of Postgres where it is configured, of the local
\* warehouse for the KR market, else of no rows at all.
CoverageReport(T, market, consensus) ==
    IF env.postgres THEN {Report(stored, T, consensus), "missing"}
    ELSE IF market = "KR" /\ disk.warehouse \cap T # {} THEN {WarehouseReport(T, consensus)}
    ELSE {"missing"}

\* hitch: the step raised, or its source had nothing for a ticker (bounded).
Bounded(o) == hitches' = hitches + (IF o.hitch THEN 1 ELSE 0) /\ hitches' <= MaxHitches
Outcome(status, s, d, hitch) == [status |-> status, stored |-> s, disk |-> d, hitch |-> hitch]

\* A collector fetches the documents of all its tickers, then persists them one
\* after the other: it may raise before, between, or find nothing for a ticker.
Collected(f, id) ==
    LET T == StepTickers(f, id) IN
    {Outcome(status, IF f.flags.persist THEN Store(some, id) ELSE stored,
             [disk EXCEPT !.raw = KeepRaw(some, id)], status # "ok" \/ some # Range(T)) :
        some \in FirstOf(T),
        status \in {"ok", "failed"} \union
            {s \in {"partial"} : f.flags.cont /\ f.kind = "source"
                                 /\ id \in {"collect_opendart", "normalize_us_batch"}}}

CollectedArchives(f) ==
    {Outcome("failed", stored, disk, TRUE),
     Outcome("ok", stored, [disk EXCEPT !.archives = @ \/ f.flags.persist], FALSE)}

LoadedArchives(f) ==
    IF disk.archives THEN Collected(f, "load_sec_bulk_warehouse")
    ELSE {Outcome("failed", stored, disk, FALSE)}

Built(f) ==
    LET T == Range(f.tickers)
        ready == {t \in T : Buildable(t)}
    IN  {Outcome("failed", stored, disk, TRUE),
         Outcome(IF ready = T THEN "ok" ELSE IF ready = {} THEN "missing" ELSE "partial",
                 stored, [disk EXCEPT !.cache = @ \union ready], FALSE)}

\* load_kr_valuation_cache_to_postgres with strict: every ticker has a cache.
Loaded(f) ==
    LET cached == SelectSeq(f.tickers, LAMBDA t : t \in disk.cache)
        load(some) == IF f.flags.persist THEN Store(some, "load_kr_valuation_postgres") ELSE stored
    IN  {Outcome("failed", load(some), disk, cached = f.tickers) : some \in FirstOf(cached)}
        \union {o \in {Outcome("ok", load(Range(cached)), disk, FALSE)} : cached = f.tickers}

StepOutcomes(f, id) ==
    CASE id = "collect_sec_bulk" -> CollectedArchives(f)
      [] id = "load_sec_bulk_warehouse" -> LoadedArchives(f)
      [] id = "build_kr_valuation_inputs" -> Built(f)
      [] id = "load_kr_valuation_postgres" -> Loaded(f)
      [] id = "source_coverage" ->
            {Outcome(r, stored, disk, env.postgres /\ r = "missing") :
                r \in CoverageReport(Range(f.tickers),
                                     CASE f.kind = "source" -> f.markets[1]
                                       [] f.kind = "p1" -> "KR"
                                       [] f.kind = "priority" -> "ALL",
                                     f.flags.consensus)}
      [] OTHER -> Collected(f, id)

-------------------------------------------------------------------------------
(* The commands. *)

Frame(kind, markets, tickers, flags) ==
    [kind |-> kind, markets |-> markets, tickers |-> tickers, flags |-> flags, at |-> 1,
     executed |-> <<>>, failed |-> {}, unconfigured |-> FALSE, coverage |-> "none"]

SourceRun(m, flags) == Frame("source", <<m>>, TickersOf(m), flags)

\* PRIORITY_E2E_MARKET_ORDER, of the markets asked for.
MarketOrder(markets) ==
    LET asked(m) == IF m \in markets THEN <<m>> ELSE <<>>
    IN  asked("KR") \o asked("US") \o asked("JP")

NoDisk == [archives |-> FALSE, raw |-> [t \in Range(KR) |-> {}], cache |-> {},
           warehouse |-> {}, csv |-> {}]

Init ==
    /\ env \in Environments
    /\ stored = [t \in Universe |-> {}]
    /\ disk = NoDisk
    /\ stack = <<>>
    /\ answer = [kind |-> "none"]
    /\ runs = 0
    /\ hitches = 0

Top == stack[Len(stack)]
Below == SubSeq(stack, 1, Len(stack) - 1)
Idle == stack = <<>>

Starting == Idle /\ runs < MaxRuns /\ runs' = runs + 1

P1Run(flags) ==
    Frame("p1", <<"US", "KR", "JP">>, <<P1Ticker["US"], P1Ticker["KR"], P1Ticker["JP"]>>, flags)
PriorityRun(markets, flags) == Frame("priority", MarketOrder(markets), <<>>, flags)

RunSourceE2E(m, flags) ==
    /\ Starting
    /\ stack' = <<SourceRun(m, flags)>>
    /\ UNCHANGED <<env, stored, disk, answer, hitches>>
RunP1E2E(flags) ==
    /\ Starting
    /\ stack' = <<P1Run(flags)>>
    /\ UNCHANGED <<env, stored, disk, answer, hitches>>
RunPriorityE2E(markets, flags) ==
    /\ Starting
    /\ stack' = <<PriorityRun(markets, flags)>>
    /\ UNCHANGED <<env, stored, disk, answer, hitches>>

-------------------------------------------------------------------------------
(* A run. *)

\* Mutant: only the steps of a market stop the run.
HaltedInMarket(f) == f.failed # {} /\ ~ f.flags.cont /\ f.kind = "source"

Halted(f) == f.failed # {} /\ ~ f.flags.cont
Done(f) == f.at > Len(Steps(f)) \/ (f.kind # "priority" /\ Halted(f))

\* Mutant: what failed on the way is forgotten once the report is ready.
StatusOfReport(f) ==
    IF MissingPrerequisites(f) # {} THEN "needs_configuration"
    ELSE IF Halted(f) THEN "failed"
    ELSE IF f.coverage = "ready" THEN "ok" ELSE "needs_source_data"

\* The status a run ends with.
Status(f) ==
    IF f.kind = "priority"
    THEN IF f.failed # {} THEN "failed"
         ELSE IF f.unconfigured THEN "needs_configuration"
         ELSE IF f.coverage = "ready" THEN "ok" ELSE "needs_source_data"
    ELSE IF MissingPrerequisites(f) # {} THEN "needs_configuration"
         ELSE IF Halted(f) THEN "failed"
         ELSE IF f.coverage = "ready" /\ f.failed = {} THEN "ok" ELSE "needs_source_data"

\* run_step, and the loop of the priority run over the summaries of its markets.
After(f, id, status) ==
    LET nested == f.kind = "priority" /\ id # "source_coverage"
        bad == IF f.kind = "priority" THEN status = "failed" ELSE status \in {"failed", "partial"}
        stops == nested /\ ~ f.flags.cont /\ status \in {"failed", "needs_configuration"}
    IN  [f EXCEPT !.executed = Append(@, id),
                  !.failed = IF bad THEN @ \union {id} ELSE @,
                  !.unconfigured = @ \/ (nested /\ status = "needs_configuration"),
                  !.coverage = IF id = "source_coverage" THEN status ELSE @,
                  !.tickers = IF nested THEN @ \o TickersOf(f.markets[f.at]) ELSE @,
                  !.at = IF stops THEN Len(f.markets) + 1 ELSE @ + 1]

\* Prerequisites are looked at before the first step.
CanStep(f) == ~ Done(f) /\ (f.at > 1 \/ MissingPrerequisites(f) = {})

Nested(f) ==
    CASE f.kind = "priority" -> SourceRun(f.markets[f.at], f.flags)
      [] f.kind = "p1" -> Frame("source", <<"US">>, <<P1Ticker["US"]>>, f.flags)

CallsRun(f) ==
    \/ f.kind = "p1" /\ f.at = 1
    \/ f.kind = "priority" /\ f.at <= Len(f.markets)

CallNestedRun ==
    /\ ~ Idle /\ CanStep(Top) /\ CallsRun(Top)
    /\ stack' = Append(stack, Nested(Top))
    /\ UNCHANGED <<env, stored, disk, answer, runs, hitches>>

\* The priority run reports no coverage once a market was not configured.
Step ==
    /\ ~ Idle /\ CanStep(Top) /\ ~ CallsRun(Top)
    /\ LET id == Steps(Top)[Top.at] IN
       \E o \in IF Top.unconfigured THEN {Outcome("none", stored, disk, FALSE)}
                ELSE StepOutcomes(Top, id) :
          /\ stack' = Append(Below, After(Top, id, o.status))
          /\ Bounded(o)
          /\ stored' = o.stored
          /\ disk' = o.disk
    /\ UNCHANGED <<env, answer, runs>>

\* The completion gate of a run that reached its coverage report.
Completion(f) == IF f.coverage = "ready" THEN "complete" ELSE "needs_source_data"

Answer(f) ==
    [kind |-> f.kind, markets |-> f.markets, tickers |-> f.tickers, flags |-> f.flags,
     executed |-> f.executed, failed |-> f.failed, coverage |-> f.coverage,
     status |-> Status(f), gate |-> Completion(f)]

Return ==
    /\ ~ Idle /\ ~ CanStep(Top)
    /\ IF Len(stack) = 1
       THEN /\ answer' = Answer(Top)
            /\ stack' = <<>>
       ELSE LET caller == stack[Len(stack) - 1] IN
            /\ stack' = Append(SubSeq(stack, 1, Len(stack) - 2),
                               After(caller, Steps(caller)[caller.at], Status(Top)))
            /\ UNCHANGED answer
    /\ UNCHANGED <<env, stored, disk, runs, hitches>>

\* The process is killed, or the job of the workflow is cancelled.
Crash ==
    /\ ~ Idle
    /\ stack' = <<>>
    /\ UNCHANGED <<env, stored, disk, answer, runs, hitches>>

\* A workflow job starts on a machine without files.
NewMachine ==
    /\ Idle /\ disk # NoDisk
    /\ disk' = NoDisk
    /\ UNCHANGED <<env, stored, stack, answer, runs, hitches>>

-------------------------------------------------------------------------------
(* A dry run writes nothing and answers from the files of the machine. *)

LocalRawOk(T) == \A t \in Range(T) : Buildable(t)

DryStatus(f) ==
    LET missing == MissingPrerequisites(f)
        T == Range(f.tickers)
        local == f.kind = "source" /\ f.markets[1] = "KR" /\ ~ f.flags.persist
    IN  IF local /\ missing = {} /\ ~ env.postgres
           /\ WarehouseReport(T, f.flags.consensus) = "ready"
        THEN "local_warehouse_ready"
        ELSE IF local /\ LocalRawOk(f.tickers) THEN "local_raw_ready"
        ELSE IF missing # {} THEN "needs_configuration"
        ELSE IF local THEN "needs_source_data" ELSE "planned"

DryRun(m, flags) ==
    /\ Starting
    /\ answer' = [kind |-> "dry", tickers |-> TickersOf(m), flags |-> flags,
                  status |-> DryStatus(SourceRun(m, flags))]
    /\ UNCHANGED <<env, stored, disk, stack, hitches>>

\* load-kr-valuation-warehouse; the operator fills the forecast CSV.
LoadWarehouse ==
    /\ Idle
    /\ ~ disk.cache \subseteq disk.warehouse
    /\ disk' = [disk EXCEPT !.warehouse = @ \union disk.cache]
    /\ UNCHANGED <<env, stored, stack, answer, runs, hitches>>
FillForecast(m) ==
    /\ Starting
    /\ disk' = [disk EXCEPT !.csv = @ \union Range(TickersOf(m))]
    /\ UNCHANGED <<env, stored, stack, answer, hitches>>

\* One targeted action of the plan for a market, run with --persist.
Repair(m, consensus) ==
    /\ Starting /\ env.postgres
    /\ \E a \in Plan(stored, Range(TickersOf(m)), consensus) :
       LET f == [SourceRun(m, [persist |-> TRUE, cont |-> FALSE, consensus |-> consensus])
                 EXCEPT !.tickers = SelectSeq(@, LAMBDA t : t \in a.tickers)]
       IN  /\ Needs(a.id) \subseteq env.keys \union {"forecast CSV"}
           /\ a.id = "import_consensus_csv" => a.tickers \subseteq disk.csv
           /\ \E o \in StepOutcomes(f, a.id) :
                 Bounded(o) /\ stored' = o.stored /\ disk' = o.disk
    /\ UNCHANGED <<env, stack, answer>>

\* deploy-gate for the KR tickers.
DeployGate(strict, consensus) ==
    /\ Starting
    /\ \E coverage \in CoverageReport(Range(KR), "KR", consensus) :
       answer' = [kind |-> "gate", strict |-> strict, consensus |-> consensus,
                  status |-> IF strict /\ ~ (env.postgres /\ MarketKeys("KR") \subseteq env.keys
                                             /\ env.deploy)
                             THEN "needs_configuration"
                             ELSE IF coverage = "ready" THEN "ok" ELSE "needs_source_data"]
    /\ UNCHANGED <<env, stored, disk, stack, hitches>>

Next ==
    \/ \E m \in Markets, flags \in Asked.flags :
          RunSourceE2E(m, flags) \/ DryRun(m, flags)
    \/ \E flags \in Asked.flags : RunP1E2E(flags)
    \/ \E markets \in Asked.markets, flags \in Asked.flags : RunPriorityE2E(markets, flags)
    \/ CallNestedRun \/ Step \/ Return \/ Crash \/ NewMachine
    \/ LoadWarehouse
    \/ \E m \in Markets : FillForecast(m)
    \/ \E m \in Markets, consensus \in BOOLEAN : Repair(m, consensus)
    \/ \E strict, consensus \in BOOLEAN : DeployGate(strict, consensus)

Spec == Init /\ [][Next]_vars

-------------------------------------------------------------------------------
(* Properties. *)

TypeOK ==
    /\ env \in Environments
    /\ stored \in [Universe -> SUBSET Evidence]
    /\ disk \in [archives : BOOLEAN, raw : [Range(KR) -> SUBSET RawKr],
                 cache : SUBSET Range(KR), warehouse : SUBSET Range(KR), csv : SUBSET Universe]
    /\ runs \in 0 .. MaxRuns /\ hitches \in 0 .. MaxHitches
    /\ Len(stack) <= 2
    /\ \A i \in DOMAIN stack :
          /\ stack[i].kind \in IF i = 1 THEN {"source", "p1", "priority"} ELSE {"source"}
          /\ stack[i].flags \in Flags
          /\ stack[i].failed \subseteq Range(Steps(stack[i]))

IsRun == answer.kind \in {"source", "p1", "priority"}

\* A run that answers "ok" (and with it the exit code the workflows act on) has every
\* required evidence of every ticker it names in the database, or, where there is no
\* database, in the local KR warehouse; it passed over no failed step and reached the
\* end of its plan.
RunOkIsCovered ==
    IsRun /\ answer.status = "ok" =>
        /\ \/ env.postgres /\ Covered(stored, Range(answer.tickers), answer.flags.consensus)
           \/ ~ env.postgres /\ ~ answer.flags.persist /\ answer.markets = <<"KR">>
        /\ answer.failed = {}
        /\ answer.gate = "complete"
        /\ answer.executed = PlannedSteps(answer.kind, answer.markets)

\* The deploy gate in strict mode answers of the database: a local warehouse, which
\* answers the report of a machine without a database, never opens it.
GateIsTheDatabases ==
    answer.kind = "gate" /\ answer.status = "ok" /\ answer.strict =>
        env.deploy /\ Covered(stored, Range(KR), answer.consensus)

\* Neither "ok" says more than the evidence.
OkIsCovered == RunOkIsCovered /\ GateIsTheDatabases

\* What a run has executed is always a prefix of the plan it printed: the plan and the
\* calls are two lists in the code.  A priority run that stops skips to its report.
PlanIsExecuted ==
    \A i \in DOMAIN stack :
        LET f == stack[i]
            plan == PlannedSteps(f.kind, f.markets)
        IN  \/ IsPrefix(f.executed, plan)
            \/ /\ f.kind = "priority" /\ f.executed # <<>>
               /\ Last(f.executed) = "source_coverage" /\ IsPrefix(Front(f.executed), plan)

\* Without --continue-on-error nothing is collected, built or stored once a step of
\* the run, or of a run it called, has failed; without --persist nothing reaches the
\* database; and a dry run, a gate or a killed process leaves every store alone.
NothingAfterFailure ==
    [][(stored' # stored \/ disk' # disk) /\ ~ Idle =>
          \A i \in DOMAIN stack :
              /\ stack[i].flags.cont \/ stack[i].failed = {}
              /\ stack[i].flags.persist \/ stored' = stored]_vars

\* Whatever a command leaves missing, the remediation plan repairs: with the plan's
\* prerequisites satisfied, one pass over its targeted actions in priority order, each
\* of which finds its data, makes the report ready, for each market and for all of them.
PlanRepairs ==
    Idle /\ runs > 0 => \A m \in Markets \union {"ALL"}, consensus \in BOOLEAN :
        LET T == IF m = "ALL" THEN Universe ELSE Range(TickersOf(m))
        IN  Covered(AfterPlan(stored, disk.archives, T, consensus), T, consensus)
===============================================================================
