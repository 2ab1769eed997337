-------------------------------- MODULE MCWorker --------------------------------
(***************************************************************************)
(* The orchestrators, the forecast files and the KR warehouse share no     *)
(* state: a behaviour is one of a part.                                    *)
(***************************************************************************)
EXTENDS SourceE2E, ForecastCsv, KrWarehouse

MCKR == <<"k1", "k2">>
MCUS == <<"u1">>
MCJP == <<"j1">>
MCP1 == [m \in {"KR", "US", "JP"} |-> TickersOf(m)[1]]

\* The workflows' flags, a run by hand that stops at the first failure, a laptop.
MCFlags == {[persist |-> TRUE, cont |-> TRUE, consensus |-> FALSE],
            [persist |-> TRUE, cont |-> FALSE, consensus |-> FALSE],
            [persist |-> FALSE, cont |-> FALSE, consensus |-> TRUE]}
MCAsked == [flags |-> MCFlags, markets |-> {{"KR", "JP"}, {"KR", "US", "JP"}}]

\* A production job, one without J-Quants, a laptop without a database.
MCEnvironments ==
    {[postgres |-> TRUE, keys |-> Credentials, deploy |-> TRUE],
     [postgres |-> TRUE, keys |-> Credentials \ {"JQUANTS credentials"}, deploy |-> FALSE],
     [postgres |-> FALSE, keys |-> Credentials, deploy |-> TRUE]}

\* A row that is import-ready, and what is wrong or special with another.
Good == [case |-> "median", eps |-> "positive", source |-> "external", anchor |-> TRUE,
         wellFormed |-> TRUE, notes |-> FALSE, blocked |-> FALSE, quality |-> "",
         metric |-> "default"]
MCFills ==
    {Good, [Good EXCEPT !.case = "point"], [Good EXCEPT !.case = "current"],
     [Good EXCEPT !.case = "low"],
     [Good EXCEPT !.case = "consensus"], [Good EXCEPT !.wellFormed = FALSE],
     [Good EXCEPT !.source = "manual"], [Good EXCEPT !.quality = "manual", !.notes = TRUE],
     [Good EXCEPT !.blocked = TRUE], [Good EXCEPT !.eps = "negative"],
     [Good EXCEPT !.metric = "other"]}

\* Two ranges of years are built for ticker a, none for b, which is in Postgres.
MCOwner == [k \in {"a short", "a long"} |-> "a"]

Payload(point, eps, dividend) ==
    [figure \in {"point", "eps", "dividend"} |->
        IF figure = "point" THEN point ELSE IF figure = "eps" THEN eps ELSE dividend]

\* Evidence without a dividend; evidence without a price, and so without a
\* point; a build of files that say they are a fixture.
MCPayloads ==
    {Payload("passed", "passed", "none"), Payload("none", "passed", "passed"),
     Payload("marked", "marked", "passed")}

VARIABLE part   \* constant in a behaviour

SomeEnvironment == CHOOSE e \in Environments : TRUE
MCInit ==
    /\ part \in {"orchestrators", "forecasts", "warehouse"}
    /\ Init /\ ForecastInit /\ WarehouseInit
    /\ part # "orchestrators" => env = SomeEnvironment
    /\ part # "forecasts" => cached = {}
    /\ cached \subseteq Tickers

MCNext ==
    /\ UNCHANGED part
    /\ \/ part = "orchestrators" /\ Next /\ UNCHANGED <<forecastVars, warehouseVars>>
       \/ part = "forecasts" /\ ForecastNext /\ UNCHANGED <<vars, warehouseVars>>
       \/ part = "warehouse" /\ WarehouseNext /\ UNCHANGED <<vars, forecastVars>>

MCSpec == MCInit /\ [][MCNext]_<<part, vars, forecastVars, warehouseVars>>

\* The parts have the states their declarations say.
PartsTypeOK == TypeOK /\ ForecastTypeOK /\ WarehouseTypeOK
===============================================================================
