------------------------------ MODULE WorkerProofs ------------------------------
(***************************************************************************)
(* The parts of the worker together: a step of the orchestrators, of the   *)
(* forecast files or of the KR warehouse leaves the other two as they are, *)
(* so that what is proved of each is true of the whole that is             *)
(* model-checked.                                                          *)
(***************************************************************************)
EXTENDS MCWorker, SourceE2EProofs, ForecastProofs, WarehouseProofs

workerVars == <<part, vars, forecastVars, warehouseVars>>

LEMMA PartsStart == ASSUME MCInit PROVE Init /\ ForecastInit /\ WarehouseInit
BY DEF MCInit

LEMMA PartsStep ==
    ASSUME [MCNext]_workerVars
    PROVE  [Next]_vars /\ [ForecastNext]_forecastVars /\ [WarehouseNext]_warehouseVars
BY DEF MCNext, workerVars

\* A behaviour of the whole is a behaviour of each part.
LEMMA PartsAreTheirSpecifications == MCSpec => Spec /\ ForecastSpec /\ WarehouseSpec
<1>1. MCInit => Init /\ ForecastInit /\ WarehouseInit
  BY PartsStart
<1>2. [MCNext]_workerVars =>
         [Next]_vars /\ [ForecastNext]_forecastVars /\ [WarehouseNext]_warehouseVars
  BY PartsStep
<1>3. MCSpec => MCInit /\ [][MCNext]_workerVars
  BY DEF MCSpec, workerVars
<1> QED
  BY <1>1, <1>2, <1>3, PTL DEF Spec, ForecastSpec, WarehouseSpec

\* The three parts have the states they declare, whatever order their commands, loads
\* and requests come in.
THEOREM PartsTypeCorrect == MCSpec => []PartsTypeOK
<1>1. TypeOK /\ ForecastTypeOK /\ WarehouseTypeOK => PartsTypeOK
  BY DEF PartsTypeOK
<1> QED
  BY <1>1, PartsAreTheirSpecifications, E2ETypeCorrect, ForecastTypeCorrect,
     WarehouseTypeCorrect, PTL

=================================================================================
