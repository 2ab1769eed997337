--------------------------------- MODULE MCApi ---------------------------------
(***************************************************************************)
(* Three parts of the API that share no state: the rate limiter, the       *)
(* resolution of sources, and what is kept of charts.  A behaviour is one  *)
(* of a part; the three stores of charts are taken one at a time.          *)
(***************************************************************************)
EXTENDS RateLimiter, ApiSources, ChartStore

\* A sample company, one that is also a Korean priority, and one that is only that.
Ticker(s, p) == [sample |-> s, priority |-> p]
MCCompanies == {Ticker(TRUE, FALSE), Ticker(TRUE, TRUE), Ticker(FALSE, TRUE)}

\* Production, a preview with a database, a laptop, a preview that requires Korean sources.
Environment(pg, prod, required, allow) ==
    [postgres |-> pg, production |-> prod, disable |-> FALSE, required |-> required,
     allow |-> allow]
MCEnvironments ==
    {Environment(TRUE, TRUE, FALSE, "unset"), Environment(TRUE, FALSE, FALSE, "unset"),
     Environment(FALSE, FALSE, FALSE, "unset"), Environment(TRUE, FALSE, TRUE, "true")}

MCLoads ==
    {[tables |-> {"prices"}, years |-> {2}],
     [tables |-> {"facts", "metrics"}, years |-> {1, 2}],
     [tables |-> {"adjusted"}, years |-> {1}],
     [tables |-> {"estimates", "csv"}, years |-> {2}],
     [tables |-> {"warehouseFacts"}, years |-> {1}],
     [tables |-> {"warehouseFacts", "warehousePoints"}, years |-> {2}],
     [tables |-> {"cachePoints", "cacheGaps"}, years |-> {1}]}
With(ts, years) == [t \in Tables |-> IF t \in ts THEN years ELSE {}]
MCStores ==
    {With({}, {}), With({"adjusted", "prices"}, {1}),
     With({"facts", "metrics", "prices", "warehouseFacts", "warehousePoints"}, {1})}

\* Two names that strip() makes the same; a payload that differs in its bands only.
MCStrip(typed) == "a"
MCPayloads == {[data |-> 1, bands |-> 1], [data |-> 1, bands |-> 2], [data |-> 2, bands |-> 1]}

VARIABLE part
MCInit ==
    /\ part \in {"limiter", "sources", "charts", "runs", "layouts"}
    /\ Init
    /\ ApiInit
    /\ part # "sources" => /\ company = Ticker(TRUE, FALSE) /\ store = With({}, {})
                           /\ env = Environment(TRUE, TRUE, FALSE, "unset")
    /\ ChartInit
    /\ part \notin {"charts", "runs", "layouts"} => database /\ queueing
MCNext ==
    /\ UNCHANGED part
    /\ \/ part = "limiter" /\ Next /\ UNCHANGED <<apiVars, chartVars>>
       \/ part = "sources" /\ ApiNext /\ UNCHANGED <<vars, chartVars>>
       \/ part = "charts" /\ (ChartStep \/ Restart) /\ UNCHANGED <<vars, apiVars>>
       \/ part = "runs" /\ (RunStep \/ Restart) /\ UNCHANGED <<vars, apiVars>>
       \/ part = "layouts" /\ (LayoutStep \/ Restart) /\ UNCHANGED <<vars, apiVars>>
MCSpec == MCInit /\ [][MCNext]_<<part, vars, apiVars, chartVars>>

\* The three parts have the states they declare.
PartsTypeOK == TypeOK /\ ApiTypeOK /\ ChartTypeOK
===============================================================================
