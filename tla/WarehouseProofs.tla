------------------------------ MODULE WarehouseProofs ------------------------------
(***************************************************************************)
(* The KR valuation data, for any tickers, files, payloads and requests:   *)
(* what the API serves from the warehouse is the evidence the loader       *)
(* found, of one load.                                                     *)
(*                                                                         *)
(* ServedIsTheEvidence is not inductive.  A request reads two files in up  *)
(* to three steps, and answers after it: that its reads are of one load    *)
(* rests on how far it has got (Course), and on the files being the last   *)
(* load's whenever no load is under way (FilesFollowTheLoad).  A request   *)
(* that began at this very load has met none, so the files have stood      *)
(* still since.                                                            *)
(***************************************************************************)
EXTENDS KrWarehouse, SequenceTheorems, TLAPS

Passing == {"none", "passed"}
TableRows == [PriorityTickers -> [Figures -> Passing]]
Parquet == [state : {"none", "partial", "whole"}, load : 0 .. MaxLoads, rows : TableRows]
Loader  == [pc : {"idle", "facts", "fill facts", "points", "fill points", "connect", "views"},
            load : 0 .. MaxLoads, rows : TableRows, crashed : BOOLEAN]
Read    == [load : 0 .. MaxLoads, grade : Passing]
Request == [pc : PCs, kind : {"valuation", "financials"}, ticker : PriorityTickers,
            read : [Figures -> Read],
            answer : {"none", "postgres", "warehouse", "cache", "required", "fixture"},
            began : NotQuiet .. MaxLoads, quiet : BOOLEAN]

\* A figure of the warehouse or of a request is no other grade than passed: the
\* loader has looked at the markers.
WarehouseIsTyped ==
    /\ loader \in Loader
    /\ facts \in Parquet /\ points \in Parquet
    /\ views \in BOOLEAN
    /\ request \in [Requests -> Request]

OfTheLoad(file) == file.state = "whole" /\ file.load = loader.load

FilesFollowTheLoad ==
    /\ loader.pc # "idle" => ~loader.crashed /\ loader.load > 0
    /\ views => loader.load > 0
    /\ OneLoad => facts.load = loader.load /\ points.load = loader.load
    /\ OneLoad /\ loader.load > 0 => OfTheLoad(facts) /\ OfTheLoad(points)
    /\ loader.pc \in {"points", "fill points", "connect", "views"} => OfTheLoad(facts)
    /\ loader.pc \in {"connect", "views"} => OfTheLoad(points)

InPlace(file, t, figure) == [load |-> file.load, grade |-> file.rows[t][figure]]

NotInWarehouse(q) ==
    IF q.kind = "valuation" THEN points.rows[q.ticker]["point"] # "passed"
    ELSE facts.rows[q.ticker]["eps"] # "passed"

\* What request q has read so far is what the files hold now, and it has not
\* gone past the warehouse unless the warehouse has nothing for it.
AsTheFilesAre(q) ==
    /\ q.pc \in {"prices", "dividends", "join"} /\ q.kind = "valuation" =>
            q.read["point"] = InPlace(points, q.ticker, "point")
    /\ q.pc \in {"dividends", "join"} =>
            q.read["eps"] = InPlace(facts, q.ticker, "eps")
    /\ q.pc = "join" /\ q.kind = "valuation" =>
            q.read["dividend"] = InPlace(facts, q.ticker, "dividend")
    /\ views /\ (q.pc \in {"cache", "sources"} \/ q.answer = "required") => NotInWarehouse(q)

OneLoadServed(q) ==
    q.answer = "warehouse" /\ q.kind = "valuation" /\ q.quiet =>
        \A figure \in Figures : q.read[figure].load = q.read["point"].load

Course(q) ==
    /\ q.began \in NotQuiet .. loader.load
    /\ q.pc # "done" => q.answer = "none"
    /\ q.pc \in {"points", "prices", "dividends"} => q.kind = "valuation"
    /\ q.pc = "facts" => q.kind = "financials"
    /\ q.began = loader.load => OneLoad /\ AsTheFilesAre(q)
    /\ OneLoadServed(q)

WarehouseInv ==
    /\ WarehouseIsTyped
    /\ FilesFollowTheLoad
    /\ \A r \in Requests : Course(request[r])

LEMMA InvIsEnough == WarehouseInv => ServedIsTheEvidence
  <1> SUFFICES ASSUME WarehouseInv PROVE ServedIsTheEvidence
    OBVIOUS
  <1> USE DEF WarehouseInv
  <1>1. ServedIsEligible
    BY DEF ServedIsEligible, WarehouseIsTyped, Request, Read, Passing
  <1>2. AnswerIsOfOneLoad
    BY DEF AnswerIsOfOneLoad, Course, OneLoadServed
  <1>3. NothingIsMissing
    BY DEF NothingIsMissing, Course, AsTheFilesAre, NotInWarehouse
  <1> QED
    BY <1>1, <1>2, <1>3 DEF ServedIsTheEvidence

LEMMA NothingReadIsTyped ==
    /\ NoRows \in TableRows
    /\ NoParquet \in Parquet
    /\ Resting \in Request
    /\ [figure \in Figures |-> NoFigure] \in [Figures -> Read]
  <1>1. PriorityTickers # {} /\ MaxLoads \in Nat
    BY KrWarehouseAssumption
  <1>2. NoRows \in TableRows
    BY DEF NoRows, TableRows, Passing
  <1>3. NoParquet \in Parquet
    BY <1>1, <1>2 DEF NoParquet, Parquet
  <1>4. NoFigure \in Read
    BY <1>1 DEF NoFigure, Read, Passing
  <1>5. NotQuiet \in NotQuiet .. MaxLoads
    BY <1>1 DEF NotQuiet
  <1>6. (CHOOSE t \in PriorityTickers : TRUE) \in PriorityTickers
    BY <1>1
  <1>7. Resting \in Request
    BY <1>4, <1>5, <1>6 DEF Resting, Request, PCs
  <1> QED
    BY <1>2, <1>3, <1>4, <1>7

\* The loader writes rows that pass, whatever the cache files hold.
LEMMA LoadedRowsPass == \A requested : LoadedRows(requested) \in TableRows
  <1>1. \A t, figure : CachedGrade(t, figure) \in Passing
    BY DEF CachedGrade, Eligible, Passing
  <1> QED
    BY <1>1 DEF LoadedRows, TableRows, Passing

LEMMA WarehouseInitSound == WarehouseInit => WarehouseInv
  <1> SUFFICES ASSUME WarehouseInit PROVE WarehouseInv
    OBVIOUS
  <1>1. MaxLoads \in Nat
    BY KrWarehouseAssumption
  <1>2. WarehouseIsTyped
    <2>1. loader \in Loader
      BY <1>1, NothingReadIsTyped DEF WarehouseInit, Loader
    <2>2. facts \in Parquet /\ points \in Parquet
      BY NothingReadIsTyped DEF WarehouseInit
    <2>3. request \in [Requests -> Request]
      BY NothingReadIsTyped DEF WarehouseInit
    <2> QED
      BY <2>1, <2>2, <2>3 DEF WarehouseInit, WarehouseIsTyped
  <1>3. FilesFollowTheLoad
    BY DEF WarehouseInit, FilesFollowTheLoad, OneLoad, OfTheLoad, NoParquet
  <1>4. \A r \in Requests : Course(request[r])
    BY DEF WarehouseInit, Course, OneLoadServed, Resting, NotQuiet
  <1> QED
    BY <1>2, <1>3, <1>4 DEF WarehouseInv

-----------------------------------------------------------------------------
(* The builder, which the invariant has nothing to ask of, and the loader. *)

LEMMA BuilderMoves ==
    ASSUME WarehouseInv, UNCHANGED <<loader, warehouse, request>>
    PROVE  WarehouseInv'
  BY ZenonT(60) DEF WarehouseInv, WarehouseIsTyped, FilesFollowTheLoad, OfTheLoad, Course, OneLoadServed,
         AsTheFilesAre, NotInWarehouse, OneLoad, warehouse

\* While the loader is at work no request is one that has met no load.
LEMMA LoaderMoves ==
    ASSUME WarehouseInv, loader.pc # "idle", loader'.load = loader.load, UNCHANGED request
    PROVE  \A r \in Requests : Course(request[r])'
  BY DEF WarehouseInv, Course, OneLoadServed, OneLoad

LEMMA ReadCachesSound ==
    ASSUME WarehouseInv, NEW requested \in SUBSET PriorityTickers, ReadCaches(requested)
    PROVE  WarehouseInv'
  <1> USE DEF WarehouseInv
  <1>1. /\ loader.load < MaxLoads
        /\ loader' = [pc |-> "facts", load |-> loader.load + 1, rows |-> LoadedRows(requested),
                      crashed |-> FALSE]
        /\ UNCHANGED <<facts, points, views, request>>
    BY DEF ReadCaches, warehouse
  <1>2. loader.load \in 0 .. MaxLoads /\ MaxLoads \in Nat
    BY KrWarehouseAssumption DEF WarehouseIsTyped, Loader
  <1>3. loader' \in Loader
    BY <1>1, <1>2, LoadedRowsPass DEF Loader
  <1>4. WarehouseIsTyped'
    BY <1>1, <1>3 DEF WarehouseIsTyped
  <1>5. FilesFollowTheLoad'
    <2>1. loader'.pc = "facts" /\ loader'.crashed = FALSE /\ loader'.load > 0
      BY <1>1, <1>2
    <2> QED
      BY <2>1 DEF FilesFollowTheLoad, OneLoad
  <1>6. ASSUME NEW r \in Requests PROVE Course(request[r])'
    <2>1. request[r].began \in NotQuiet .. loader.load
      BY DEF Course
    <2>2. request[r].began \in NotQuiet .. (loader.load + 1) /\ request[r].began # loader.load + 1
      BY <1>2, <2>1 DEF NotQuiet
    <2> QED
      BY <1>1, <2>2 DEF Course, OneLoadServed
  <1> QED
    BY <1>4, <1>5, <1>6

\* A step of the loader that writes no file, or one that writes one.
LEMMA LoaderStepSound ==
    ASSUME WarehouseInv,
           OpenFacts \/ FillFacts \/ OpenPoints \/ FillPoints \/ Connect \/ CreateViews
           \/ LoaderCrash
    PROVE  WarehouseInv'
  <1> USE DEF WarehouseInv, WarehouseIsTyped
  <1>0. /\ loader \in Loader /\ loader.load \in 0 .. MaxLoads /\ loader.rows \in TableRows
        /\ facts \in Parquet /\ points \in Parquet
    BY DEF Loader
  <1>1. CASE OpenFacts
    <2>1. /\ loader.pc = "facts" /\ loader' = [loader EXCEPT !.pc = "fill facts"]
          /\ facts' = [facts EXCEPT !.state = "partial"]
          /\ UNCHANGED <<points, views, request>>
      BY <1>1 DEF OpenFacts, OpenParquet, Load
    <2>2. loader' \in Loader /\ facts' \in Parquet
      BY <1>0, <2>1 DEF Loader, Parquet
    <2>3. loader'.pc = "fill facts" /\ loader'.load = loader.load /\ loader'.crashed = loader.crashed
      BY <1>0, <2>1 DEF Loader
    <2>4. FilesFollowTheLoad'
      BY <2>1, <2>3 DEF FilesFollowTheLoad, OneLoad, OfTheLoad
    <2> QED
      BY <2>1, <2>2, <2>3, <2>4, LoaderMoves
  <1>2. CASE FillFacts
    <2>1. /\ loader.pc = "fill facts" /\ loader' = [loader EXCEPT !.pc = "points"]
          /\ facts' = [state |-> "whole", load |-> loader.load, rows |-> loader.rows]
          /\ UNCHANGED <<points, views, request>>
      BY <1>2 DEF FillFacts, OpenParquet, Load
    <2>2. loader' \in Loader /\ facts' \in Parquet
      BY <1>0, <2>1 DEF Loader, Parquet
    <2>3. loader'.pc = "points" /\ loader'.load = loader.load /\ loader'.crashed = loader.crashed
      BY <1>0, <2>1 DEF Loader
    <2>4. FilesFollowTheLoad'
      BY <2>1, <2>3 DEF FilesFollowTheLoad, OneLoad, OfTheLoad
    <2> QED
      BY <2>1, <2>2, <2>3, <2>4, LoaderMoves
  <1>3. CASE OpenPoints
    <2>1. /\ loader.pc = "points" /\ loader' = [loader EXCEPT !.pc = "fill points"]
          /\ points' = [points EXCEPT !.state = "partial"]
          /\ UNCHANGED <<facts, views, request>>
      BY <1>3 DEF OpenPoints, OpenParquet, Load
    <2>2. loader' \in Loader /\ points' \in Parquet
      BY <1>0, <2>1 DEF Loader, Parquet
    <2>3. loader'.pc = "fill points" /\ loader'.load = loader.load /\ loader'.crashed = loader.crashed
      BY <1>0, <2>1 DEF Loader
    <2>4. FilesFollowTheLoad'
      BY <2>1, <2>3 DEF FilesFollowTheLoad, OneLoad, OfTheLoad
    <2> QED
      BY <2>1, <2>2, <2>3, <2>4, LoaderMoves
  <1>4. CASE FillPoints
    <2>1. /\ loader.pc = "fill points" /\ loader' = [loader EXCEPT !.pc = "connect"]
          /\ points' = [state |-> "whole", load |-> loader.load, rows |-> loader.rows]
          /\ UNCHANGED <<facts, views, request>>
      BY <1>4 DEF FillPoints, OpenParquet, Load
    <2>2. loader' \in Loader /\ points' \in Parquet
      BY <1>0, <2>1 DEF Loader, Parquet
    <2>3. loader'.pc = "connect" /\ loader'.load = loader.load /\ loader'.crashed = loader.crashed
      BY <1>0, <2>1 DEF Loader
    <2>4. FilesFollowTheLoad'
      BY <2>1, <2>3 DEF FilesFollowTheLoad, OneLoad, OfTheLoad
    <2> QED
      BY <2>1, <2>2, <2>3, <2>4, LoaderMoves
  <1>5. CASE Connect
    <2>1. /\ loader.pc = "connect"
          /\ \E pc \in {"idle", "views"} : loader' = [loader EXCEPT !.pc = pc]
          /\ UNCHANGED <<facts, points, views, request>>
      BY <1>5 DEF Connect, Load, warehouse
    <2>2. loader' \in Loader
      BY <1>0, <2>1 DEF Loader
    <2>3. /\ loader'.pc \in {"idle", "views"} /\ loader'.load = loader.load
          /\ loader'.crashed = loader.crashed
      BY <1>0, <2>1 DEF Loader
    <2>4. FilesFollowTheLoad'
      BY <2>1, <2>3 DEF FilesFollowTheLoad, OneLoad, OfTheLoad
    <2> QED
      BY <2>1, <2>2, <2>3, <2>4, LoaderMoves
  <1>6. CASE CreateViews
    <2>1. /\ loader.pc = "views" /\ loader' = [loader EXCEPT !.pc = "idle"]
          /\ views' = TRUE
          /\ UNCHANGED <<facts, points, request>>
      BY <1>6 DEF CreateViews, Load
    <2>2. loader' \in Loader
      BY <1>0, <2>1 DEF Loader
    <2>3. loader'.pc = "idle" /\ loader'.load = loader.load /\ loader'.crashed = loader.crashed
      BY <1>0, <2>1 DEF Loader
    <2>4. FilesFollowTheLoad'
      BY <2>1, <2>3 DEF FilesFollowTheLoad, OneLoad, OfTheLoad
    <2> QED
      BY <2>1, <2>2, <2>3, <2>4, LoaderMoves
  <1>7. CASE LoaderCrash
    <2>1. /\ loader.pc # "idle" /\ loader' = [loader EXCEPT !.pc = "idle", !.crashed = TRUE]
          /\ UNCHANGED <<facts, points, views, request>>
      BY <1>7 DEF LoaderCrash, warehouse
    <2>2. loader' \in Loader
      BY <1>0, <2>1 DEF Loader
    <2>3. loader'.pc = "idle" /\ loader'.load = loader.load /\ loader'.crashed = TRUE
      BY <1>0, <2>1 DEF Loader
    <2>4. FilesFollowTheLoad'
      BY <2>1, <2>3 DEF FilesFollowTheLoad, OneLoad, OfTheLoad
    <2> QED
      BY <2>1, <2>2, <2>3, <2>4, LoaderMoves
  <1> QED
    BY <1>1, <1>2, <1>3, <1>4, <1>5, <1>6, <1>7

-----------------------------------------------------------------------------
(* The requests.                                                           *)

\* A step of request r alone, that leaves r itself on course.
LEMMA RequestMoves ==
    ASSUME WarehouseInv, NEW r \in Requests, NEW new,
           request' = [request EXCEPT ![r] = new], new \in Request, Course(new),
           UNCHANGED <<loader, warehouse>>
    PROVE  WarehouseInv'
  <1> USE DEF WarehouseInv
  <1>1. UNCHANGED <<loader, facts, points, views>>
    BY DEF warehouse
  <1>2. request' \in [Requests -> Request] /\ request'[r] = new
    BY DEF WarehouseIsTyped
  <1>3. WarehouseIsTyped' /\ FilesFollowTheLoad'
    BY <1>1, <1>2 DEF WarehouseIsTyped, FilesFollowTheLoad, OneLoad, OfTheLoad
  <1>4. ASSUME NEW s \in Requests PROVE Course(request'[s])
    BY <1>2 DEF WarehouseIsTyped
  <1>5. ASSUME NEW s \in Requests PROVE Course(request[s])'
    BY <1>1, <1>4 DEF Course, OneLoadServed, AsTheFilesAre, NotInWarehouse, OneLoad
  <1> QED
    BY <1>3, <1>5

LEMMA RequestIsTyped ==
    ASSUME WarehouseInv, NEW r \in Requests
    PROVE  /\ request[r] \in Request /\ Course(request[r])
           /\ loader.load \in 0 .. MaxLoads /\ MaxLoads \in Nat
           /\ facts \in Parquet /\ points \in Parquet
  BY KrWarehouseAssumption DEF WarehouseInv, WarehouseIsTyped, Loader

LEMMA AskSound ==
    ASSUME WarehouseInv, NEW r \in Requests, NEW kind \in {"valuation", "financials"},
           NEW t \in PriorityTickers, Ask(r, kind, t)
    PROVE  WarehouseInv'
  <1> DEFINE began == IF OneLoad THEN loader.load ELSE NotQuiet
             new == [Resting EXCEPT !.pc = "postgres", !.kind = kind, !.ticker = t, !.began = began]
  <1>1. request' = [request EXCEPT ![r] = new] /\ UNCHANGED <<loader, warehouse>>
    BY DEF Ask
  <1>2. loader.load \in 0 .. MaxLoads /\ MaxLoads \in Nat
    BY RequestIsTyped
  <1>3. /\ began \in NotQuiet .. MaxLoads /\ began \in NotQuiet .. loader.load
        /\ began = loader.load => OneLoad
    BY <1>2 DEF NotQuiet
  <1>4. new \in Request
    BY <1>3, NothingReadIsTyped DEF Request, PCs
  <1>5. new.pc = "postgres" /\ new.answer = "none" /\ new.began = began
    BY DEF Resting
  <1>6. Course(new)
    BY <1>3, <1>5 DEF Course, AsTheFilesAre, OneLoadServed
  <1> QED
    BY <1>1, <1>4, <1>6, RequestMoves

\* Going on to pc, of a request that has answered nothing yet.
LEMMA GotoSound ==
    ASSUME WarehouseInv, NEW r \in Requests, NEW pc \in PCs \ {"done"}, Goto(r, pc),
           request[r].pc # "done",
           pc \in {"points", "prices", "dividends"} => request[r].kind = "valuation",
           pc = "facts" => request[r].kind = "financials",
           request[r].began = loader.load =>
                /\ pc \notin {"prices", "dividends", "join"}
                /\ views /\ pc \in {"cache", "sources"} => NotInWarehouse(request[r]),
           UNCHANGED <<loader, warehouse>>
    PROVE  WarehouseInv'
  <1> DEFINE q == request[r]
             new == [q EXCEPT !.pc = pc]
  <1>1. q \in Request /\ Course(q)
    BY RequestIsTyped
  <1>2. new \in Request
    BY <1>1 DEF Request
  <1>3. request' = [request EXCEPT ![r] = new]
    BY DEF Goto
  <1>4. /\ new.pc = pc /\ new.kind = q.kind /\ new.ticker = q.ticker /\ new.answer = q.answer
        /\ new.began = q.began /\ new.read = q.read /\ new.quiet = q.quiet
    BY <1>1 DEF Request
  <1>5. Course(new)
    BY <1>1, <1>4 DEF Course, AsTheFilesAre, OneLoadServed, NotInWarehouse
  <1> QED
    BY <1>2, <1>3, <1>5, RequestMoves

\* Answering, of a request that has answered nothing yet.
LEMMA AnswerSound ==
    ASSUME WarehouseInv, NEW r \in Requests,
           NEW answer \in {"postgres", "warehouse", "required", "fixture"}, AnswerFrom(r, answer),
           request[r].pc # "done",
           request[r].began = loader.load =>
                /\ views /\ answer = "required" => NotInWarehouse(request[r])
                /\ answer = "warehouse" /\ request[r].kind = "valuation" =>
                        \A figure \in Figures :
                            request[r].read[figure].load = request[r].read["point"].load,
           UNCHANGED <<loader, warehouse>>
    PROVE  WarehouseInv'
  <1> DEFINE q == request[r]
             quiet == q.began = loader.load
             new == [q EXCEPT !.pc = "done", !.answer = answer, !.quiet = quiet]
  <1>1. q \in Request /\ Course(q)
    BY RequestIsTyped
  <1>2. quiet \in BOOLEAN
    OBVIOUS
  <1> HIDE DEF quiet
  <1>3. new \in Request
    BY <1>1, <1>2 DEF Request, PCs
  <1>4. request' = [request EXCEPT ![r] = new]
    BY <1>1 DEF AnswerFrom, quiet, WarehouseInv, WarehouseIsTyped
  <1>5. /\ new.pc = "done" /\ new.kind = q.kind /\ new.ticker = q.ticker /\ new.answer = answer
        /\ new.began = q.began /\ new.read = q.read /\ new.quiet = quiet
    BY <1>1 DEF Request
  <1>6. Course(new)
    <2>1. q.began = loader.load => OneLoad /\ AsTheFilesAre(new)
      BY <1>1, <1>5 DEF Course, AsTheFilesAre, NotInWarehouse
    <2>2. OneLoadServed(new)
      BY <1>1, <1>5 DEF OneLoadServed, quiet
    <2> QED
      BY <1>1, <1>5, <2>1, <2>2 DEF Course
  <1> QED
    BY <1>3, <1>4, <1>6, RequestMoves

LEMMA AskPostgresSound ==
    ASSUME WarehouseInv, NEW r \in Requests, AskPostgres(r) PROVE WarehouseInv'
  <1>1. request[r].pc = "postgres" /\ UNCHANGED <<loader, warehouse>>
    BY DEF AskPostgres, RequestStep
  <1>2. CASE request[r].ticker \in InPostgres
    BY <1>1, <1>2, AnswerSound DEF AskPostgres
  <1>3. CASE request[r].ticker \notin InPostgres
    BY <1>1, <1>3, GotoSound DEF AskPostgres, PCs
  <1> QED
    BY <1>2, <1>3

LEMMA OpenWarehouseSound ==
    ASSUME WarehouseInv, NEW r \in Requests, OpenWarehouse(r) PROVE WarehouseInv'
  <1>1. request[r].pc = "connect" /\ UNCHANGED <<loader, warehouse>>
    BY DEF OpenWarehouse, RequestStep
  <1>2. request[r].kind \in {"valuation", "financials"} /\ Course(request[r])
    BY RequestIsTyped DEF Request
  <1>3. CASE ~views \/ loader.pc = "views"
    <2>1. Goto(r, AfterWarehouse(r)) /\ AfterWarehouse(r) \in {"cache", "sources"}
      BY <1>3 DEF OpenWarehouse, AfterWarehouse
    <2>2. request[r].began = loader.load => ~views
      BY <1>2, <1>3 DEF Course, OneLoad
    <2> QED
      BY <1>1, <2>1, <2>2, GotoSound DEF PCs
  <1>4. CASE ~(~views \/ loader.pc = "views")
    <2>1. Goto(r, IF request[r].kind = "valuation" THEN "points" ELSE "facts")
      BY <1>4 DEF OpenWarehouse
    <2> QED
      BY <1>1, <1>2, <2>1, GotoSound DEF PCs
  <1> QED
    BY <1>3, <1>4

\* What request q is after a scan of a whole file for a figure.
Scanned(q, file, figure, next) ==
    [q EXCEPT !.pc = next, !.read = [q.read EXCEPT ![figure] = InPlace(file, q.ticker, figure)]]

LEMMA ScannedIsTyped ==
    ASSUME NEW q \in Request, NEW file \in Parquet, NEW figure \in Figures,
           NEW next \in PCs
    PROVE  /\ Scanned(q, file, figure, next) \in Request
           /\ Scanned(q, file, figure, next).pc = next
           /\ Scanned(q, file, figure, next).kind = q.kind
           /\ Scanned(q, file, figure, next).ticker = q.ticker
           /\ Scanned(q, file, figure, next).answer = q.answer
           /\ Scanned(q, file, figure, next).began = q.began
           /\ Scanned(q, file, figure, next).quiet = q.quiet
           /\ Scanned(q, file, figure, next).read[figure] = InPlace(file, q.ticker, figure)
           /\ \A other \in Figures \ {figure} :
                Scanned(q, file, figure, next).read[other] = q.read[other]
  <1>1. q.read \in [Figures -> Read] /\ q.ticker \in PriorityTickers
    BY DEF Request
  <1>2. InPlace(file, q.ticker, figure) \in Read
    BY <1>1 DEF InPlace, Parquet, TableRows, Read
  <1>3. [q.read EXCEPT ![figure] = InPlace(file, q.ticker, figure)] \in [Figures -> Read]
    BY <1>1, <1>2
  <1> QED
    BY <1>1, <1>3 DEF Scanned, Request

\* A request that has read what the files hold is on course if the reads that
\* count at next are those of its scans so far.
LEMMA ScannedIsOnCourse ==
    ASSUME NEW q \in Request, NEW file \in Parquet, NEW figure \in Figures,
           NEW next \in {"prices", "dividends", "join"}, Course(q), q.pc # "done",
           next # "join" => q.kind = "valuation",
           \/ /\ q.pc = "points" /\ next = "prices" /\ file = points /\ figure = "point"
           \/ /\ q.pc = "prices" /\ next = "dividends" /\ file = facts /\ figure = "eps"
           \/ /\ q.pc = "dividends" /\ next = "join" /\ file = facts /\ figure = "dividend"
           \/ /\ q.pc = "facts" /\ next = "join" /\ file = facts /\ figure = "eps"
    PROVE  Course(Scanned(q, file, figure, next))
  <1> DEFINE new == Scanned(q, file, figure, next)
  <1>0. next \in PCs
    BY DEF PCs
  <1>1. /\ new.pc = next /\ new.kind = q.kind /\ new.ticker = q.ticker /\ new.answer = q.answer
        /\ new.began = q.began /\ new.quiet = q.quiet
        /\ new.read[figure] = InPlace(file, q.ticker, figure)
        /\ \A other \in Figures \ {figure} : new.read[other] = q.read[other]
    BY <1>0, ScannedIsTyped
  <1> HIDE DEF new
  <1>2. q.answer = "none"
    BY DEF Course
  <1>3. q.began = loader.load => AsTheFilesAre(new)
    <2> SUFFICES ASSUME q.began = loader.load PROVE AsTheFilesAre(new)
      OBVIOUS
    <2>1. AsTheFilesAre(q)
      BY DEF Course
    <2>2. CASE q.pc = "points"
      BY <1>1, <1>2, <2>1, <2>2 DEF AsTheFilesAre
    <2>3. CASE q.pc = "prices"
      BY <1>1, <1>2, <2>1, <2>3 DEF AsTheFilesAre, Figures
    <2>4. CASE q.pc = "dividends"
      BY <1>1, <1>2, <2>1, <2>4 DEF AsTheFilesAre, Figures
    <2>5. CASE q.pc = "facts"
      BY <1>1, <1>2, <2>1, <2>5 DEF AsTheFilesAre, Course
    <2> QED
      BY <2>2, <2>3, <2>4, <2>5
  <1> QED
    BY <1>1, <1>2, <1>3 DEF Course, OneLoadServed, new

\* One scan.  A request that has met no load finds both files whole once there
\* are views, so that a file it cannot read is none of its warehouse.
LEMMA SelectSound ==
    ASSUME WarehouseInv, NEW r \in Requests, NEW pc \in {"points", "prices", "dividends", "facts"},
           NEW file, file = facts \/ file = points, NEW figure \in Figures, NEW next \in PCs,
           Course(Scanned(request[r], file, figure, next)),
           Select(r, pc, file, figure, next)
    PROVE  WarehouseInv'
  <1> DEFINE q == request[r]
  <1>1. q.pc = pc /\ UNCHANGED <<loader, warehouse>>
    BY DEF Select, RequestStep
  <1>2. q \in Request /\ Course(q) /\ file \in Parquet
    BY RequestIsTyped
  <1>3. CASE file.state # "whole"
    <2>1. q.kind \in {"valuation", "financials"}
      BY <1>2 DEF Request
    <2>2. Goto(r, AfterWarehouse(r)) /\ AfterWarehouse(r) \in {"cache", "sources"}
      BY <1>3 DEF Select, AfterWarehouse, Goto, WarehouseInv, WarehouseIsTyped
    <2>3. q.began = loader.load => ~views
      BY <1>2, <1>3 DEF Course, WarehouseInv, FilesFollowTheLoad, OfTheLoad
    <2> QED
      BY <1>1, <2>2, <2>3, GotoSound DEF PCs
  <1>4. CASE file.state = "whole"
    <2>1. q.read \in [Figures -> Read]
      BY <1>2 DEF Request
    <2>2. request' = [request EXCEPT ![r] = Scanned(q, file, figure, next)]
      BY <1>2, <1>4, <2>1 DEF Select, Scanned, InPlace, WarehouseInv, WarehouseIsTyped, Request
    <2> QED
      BY <1>1, <1>2, <2>2, ScannedIsTyped, RequestMoves
  <1> QED
    BY <1>3, <1>4

LEMMA FiguresAreFigures == {"point", "eps", "dividend"} = Figures
  BY DEF Figures

LEMMA ScansSound ==
    ASSUME WarehouseInv, NEW r \in Requests,
           ReadPoints(r) \/ ReadPrices(r) \/ ReadDividends(r) \/ ReadFacts(r)
    PROVE  WarehouseInv'
  <1> DEFINE q == request[r]
  <1>0. q \in Request /\ Course(q) /\ facts \in Parquet /\ points \in Parquet
    BY RequestIsTyped
  <1>1. CASE ReadPoints(r)
    <2>1. q.pc = "points" /\ q.kind = "valuation"
      BY <1>0, <1>1 DEF ReadPoints, Select, RequestStep, Course
    <2>2. Course(Scanned(q, points, "point", "prices"))
      BY <1>0, <2>1, ScannedIsOnCourse, FiguresAreFigures DEF PCs
    <2> QED
      BY <1>1, <2>2, SelectSound, FiguresAreFigures DEF ReadPoints, PCs
  <1>2. CASE ReadPrices(r)
    <2>1. q.pc = "prices" /\ q.kind = "valuation"
      BY <1>0, <1>2 DEF ReadPrices, Select, RequestStep, Course
    <2>2. Course(Scanned(q, facts, "eps", "dividends"))
      BY <1>0, <2>1, ScannedIsOnCourse, FiguresAreFigures DEF PCs
    <2> QED
      BY <1>2, <2>2, SelectSound, FiguresAreFigures DEF ReadPrices, PCs
  <1>3. CASE ReadDividends(r)
    <2>1. q.pc = "dividends"
      BY <1>3 DEF ReadDividends, Select, RequestStep
    <2>2. Course(Scanned(q, facts, "dividend", "join"))
      BY <1>0, <2>1, ScannedIsOnCourse, FiguresAreFigures DEF PCs
    <2> QED
      BY <1>3, <2>2, SelectSound, FiguresAreFigures DEF ReadDividends, PCs
  <1>4. CASE ReadFacts(r)
    <2>1. q.pc = "facts"
      BY <1>4 DEF ReadFacts, Select, RequestStep
    <2>2. Course(Scanned(q, facts, "eps", "join"))
      BY <1>0, <2>1, ScannedIsOnCourse, FiguresAreFigures DEF PCs
    <2> QED
      BY <1>4, <2>2, SelectSound, FiguresAreFigures DEF ReadFacts, PCs
  <1> QED
    BY <1>1, <1>2, <1>3, <1>4

LEMMA JoinSound == ASSUME WarehouseInv, NEW r \in Requests, Join(r) PROVE WarehouseInv'
  <1> DEFINE q == request[r]
             figure == IF q.kind = "valuation" THEN "point" ELSE "eps"
  <1>1. q.pc = "join" /\ UNCHANGED <<loader, warehouse>>
    BY DEF Join, RequestStep
  <1>2. q \in Request /\ Course(q) /\ facts \in Parquet /\ points \in Parquet
    BY RequestIsTyped
  <1>3. q.kind \in {"valuation", "financials"}
    BY <1>2 DEF Request
  <1>4. CASE Validated(q.read[figure].grade)
    <2>1. AnswerFrom(r, "warehouse")
      BY <1>4 DEF Join
    <2>2. ASSUME q.began = loader.load, q.kind = "valuation"
          PROVE  \A other \in Figures : q.read[other].load = q.read["point"].load
      <3>1. facts.load = loader.load /\ points.load = loader.load
        BY <1>2, <2>2 DEF Course, WarehouseInv, FilesFollowTheLoad
      <3>2. /\ q.read["point"].load = points.load
            /\ q.read["eps"].load = facts.load
            /\ q.read["dividend"].load = facts.load
        BY <1>1, <1>2, <2>2 DEF Course, AsTheFilesAre, InPlace
      <3> QED
        BY <3>1, <3>2 DEF Figures
    <2> QED
      BY <1>1, <2>1, <2>2, AnswerSound
  <1>5. CASE ~Validated(q.read[figure].grade)
    <2>1. Goto(r, AfterWarehouse(r)) /\ AfterWarehouse(r) \in {"cache", "sources"}
      BY <1>5 DEF Join, AfterWarehouse
    <2>2. q.began = loader.load => NotInWarehouse(q)
      BY <1>1, <1>2, <1>3, <1>5
      DEF Course, AsTheFilesAre, InPlace, NotInWarehouse, Validated
    <2> QED
      BY <1>1, <2>1, <2>2, GotoSound DEF PCs
  <1> QED
    BY <1>4, <1>5

LEMMA ReadCacheSound == ASSUME WarehouseInv, NEW r \in Requests, ReadCache(r) PROVE WarehouseInv'
  <1> DEFINE q == request[r]
             t == q.ticker
             read == [figure \in Figures |-> [load |-> 0, grade |-> CachedGrade(t, figure)]]
             quiet == q.began = loader.load
             new == [q EXCEPT !.pc = "done", !.answer = "cache", !.read = read, !.quiet = quiet]
  <1>1. q.pc = "cache" /\ UNCHANGED <<loader, warehouse>>
    BY DEF ReadCache, RequestStep
  <1>2. q \in Request /\ Course(q) /\ MaxLoads \in Nat
    BY RequestIsTyped
  <1>3. CASE CachedGrade(t, "point") = "none"
    <2>1. Goto(r, "sources")
      BY <1>3 DEF ReadCache
    <2>2. q.began = loader.load => (views => NotInWarehouse(q))
      BY <1>1, <1>2 DEF Course, AsTheFilesAre
    <2> QED
      BY <1>1, <2>1, <2>2, GotoSound DEF PCs
  <1>4. CASE CachedGrade(t, "point") # "none"
    <2>1. \A figure \in Figures : CachedGrade(t, figure) \in Passing
      BY DEF CachedGrade, Eligible, Passing
    <2>2. read \in [Figures -> Read]
      BY <1>2, <2>1 DEF Read
    <2>3. quiet \in BOOLEAN
      OBVIOUS
    <2>4. request' = [request EXCEPT ![r] = new]
      BY <1>4 DEF ReadCache, WarehouseInv, WarehouseIsTyped
    <2> HIDE DEF quiet, read
    <2>5. new \in Request
      BY <1>2, <2>2, <2>3 DEF Request, PCs
    <2>6. new.pc = "done" /\ new.answer = "cache" /\ new.began = q.began
      BY <1>2 DEF Request
    <2>7. Course(new)
      BY <1>2, <2>6 DEF Course, AsTheFilesAre, OneLoadServed
    <2> QED
      BY <1>1, <2>4, <2>5, <2>7, RequestMoves
  <1> QED
    BY <1>3, <1>4

LEMMA NoSourceSound == ASSUME WarehouseInv, NEW r \in Requests, NoSource(r) PROVE WarehouseInv'
  <1>1. request[r].pc = "sources" /\ UNCHANGED <<loader, warehouse>>
    BY DEF NoSource, RequestStep
  <1>2. request[r].began = loader.load => (views => NotInWarehouse(request[r]))
    BY <1>1, RequestIsTyped DEF Course, AsTheFilesAre
  <1>3. AnswerFrom(r, "required") \/ AnswerFrom(r, "fixture")
    BY DEF NoSource
  <1> QED
    BY <1>1, <1>2, <1>3, AnswerSound

LEMMA WarehouseStepSound == WarehouseInv /\ [WarehouseNext]_warehouseVars => WarehouseInv'
  <1> SUFFICES ASSUME WarehouseInv, [WarehouseNext]_warehouseVars PROVE WarehouseInv'
    OBVIOUS
  <1>1. ASSUME NEW k \in CacheFiles, BuildOpen(k) \/ BuildFill(k) PROVE WarehouseInv'
    BY <1>1, BuilderMoves DEF BuildOpen, BuildFill
  <1>2. ASSUME NEW requested \in SUBSET PriorityTickers, ReadCaches(requested) PROVE WarehouseInv'
    BY <1>2, ReadCachesSound
  <1>3. CASE OpenFacts \/ FillFacts \/ OpenPoints \/ FillPoints \/ Connect \/ CreateViews
             \/ LoaderCrash
    BY <1>3, LoaderStepSound
  <1>4. ASSUME NEW r \in Requests, NEW kind \in {"valuation", "financials"},
               NEW t \in PriorityTickers, Ask(r, kind, t)
        PROVE  WarehouseInv'
    BY <1>4, AskSound
  <1>5. ASSUME NEW r \in Requests, AskPostgres(r) \/ OpenWarehouse(r) PROVE WarehouseInv'
    BY <1>5, AskPostgresSound, OpenWarehouseSound
  <1>6. ASSUME NEW r \in Requests,
               ReadPoints(r) \/ ReadPrices(r) \/ ReadDividends(r) \/ ReadFacts(r)
        PROVE  WarehouseInv'
    BY <1>6, ScansSound
  <1>7. ASSUME NEW r \in Requests, Join(r) \/ ReadCache(r) \/ NoSource(r) PROVE WarehouseInv'
    BY <1>7, JoinSound, ReadCacheSound, NoSourceSound
  <1>8. CASE UNCHANGED warehouseVars
    BY <1>8, BuilderMoves DEF warehouseVars
  <1> QED
    BY <1>1, <1>2, <1>3, <1>4, <1>5, <1>6, <1>7, <1>8 DEF WarehouseNext

\* For any tickers, cache files, payloads and requests, whatever the loader, the
\* builder and the requests do in between: no answer of the warehouse or the
\* cache holds a figure that is no production evidence, mixes two loads, or
\* refuses what the warehouse has.
THEOREM ServedEvidence == WarehouseSpec => []ServedIsTheEvidence
  <1>1. WarehouseInv => ServedIsTheEvidence
    BY InvIsEnough
  <1> QED
    BY <1>1, WarehouseInitSound, WarehouseStepSound, PTL DEF WarehouseSpec

-----------------------------------------------------------------------------
(* The cache files, the newest first, and the counts of what has happened. *)

LEMMA NewestIsListed ==
    ASSUME NEW k \in CacheFiles, order \in Seq(CacheFiles),
           \A i, j \in DOMAIN order : order[i] = order[j] => i = j
    PROVE  /\ Newest(k) \in Seq(CacheFiles)
           /\ \A i, j \in DOMAIN Newest(k) : Newest(k)[i] = Newest(k)[j] => i = j
  <1> DEFINE rest == RemoveFirst(order, k)
  <1>1. /\ rest \in Seq(CacheFiles)
        /\ \A i \in DOMAIN rest : rest[i] # k
        /\ \A i, j \in DOMAIN rest : rest[i] = rest[j] => i = j
    <2>1. CASE \A i \in 1 .. Len(order) : order[i] # k
      <3>1. rest = order
        BY <2>1 DEF RemoveFirst
      <3> HIDE DEF rest
      <3> QED
        BY <2>1, <3>1
    <2>2. ASSUME NEW i \in 1 .. Len(order), order[i] = k
          PROVE  rest = SubSeq(order, 1, i - 1) \o SubSeq(order, i + 1, Len(order))
      <3>1. {j \in 1 .. Len(order) : order[j] = k} = {i}
        BY <2>2
      <3>2. Min({i}) = i
        BY DEF Min
      <3>3. SelectInSeq(order, LAMBDA v : v = k) = i
        BY <3>1, <3>2 DEF SelectInSeq
      <3> QED
        BY <2>2, <3>3 DEF RemoveFirst, RemoveAt
    <2> HIDE DEF rest
    <2>3. ASSUME NEW i \in 1 .. Len(order), order[i] = k
          PROVE  /\ rest \in Seq(CacheFiles)
                 /\ Len(rest) = Len(order) - 1
                 /\ \A j \in 1 .. (Len(order) - 1) :
                        rest[j] = IF j < i THEN order[j] ELSE order[j + 1]
      <3> DEFINE front == SubSeq(order, 1, i - 1)
                 back == SubSeq(order, i + 1, Len(order))
      <3>1. /\ front \in Seq(CacheFiles) /\ Len(front) = i - 1
            /\ \A j \in 1 .. (i - 1) : front[j] = order[j]
        OBVIOUS
      <3>2. /\ back \in Seq(CacheFiles) /\ Len(back) = Len(order) - i
            /\ \A j \in 1 .. (Len(order) - i) : back[j] = order[j + i]
        OBVIOUS
      <3>3. rest = front \o back
        BY <2>2, <2>3
      <3> HIDE DEF front, back
      <3>4. rest \in Seq(CacheFiles) /\ Len(rest) = Len(order) - 1
        <4>1. Len(front \o back) = Len(front) + Len(back) /\ front \o back \in Seq(CacheFiles)
          BY <3>1, <3>2, ConcatProperties
        <4> QED
          BY <3>1, <3>2, <3>3, <4>1
      <3>5. ASSUME NEW j \in 1 .. (Len(order) - 1)
            PROVE  rest[j] = IF j < i THEN order[j] ELSE order[j + 1]
        <4>1. CASE j < i
          BY <3>1, <3>2, <3>3, <4>1
        <4>2. CASE j >= i
          <5>1. rest[j] = back[j - (i - 1)]
            BY <3>1, <3>2, <3>3, <4>2
          <5>2. j - (i - 1) \in 1 .. (Len(order) - i)
            BY <4>2
          <5> QED
            BY <3>2, <4>2, <5>1, <5>2
        <4> QED
          BY <4>1, <4>2
      <3> QED
        BY <3>4, <3>5
    <2>4. ASSUME NEW i \in 1 .. Len(order), order[i] = k
          PROVE  /\ \A j \in DOMAIN rest : rest[j] # k
                 /\ \A j, l \in DOMAIN rest : rest[j] = rest[l] => j = l
      <3>1. DOMAIN rest = 1 .. (Len(order) - 1) /\ DOMAIN order = 1 .. Len(order)
        BY <2>3, <2>4
      <3>2. ASSUME NEW j \in DOMAIN rest
            PROVE  \E n \in DOMAIN order \ {i} :
                      rest[j] = order[n] /\ n = (IF j < i THEN j ELSE j + 1)
        <4> DEFINE n == IF j < i THEN j ELSE j + 1
        <4>1. rest[j] = IF j < i THEN order[j] ELSE order[j + 1]
          BY <2>3, <2>4, <3>1
        <4>2. n \in DOMAIN order \ {i}
          BY <3>1
        <4>3. rest[j] = order[n]
          BY <4>1
        <4> QED
          BY <4>2, <4>3
      <3>3. ASSUME NEW j \in DOMAIN rest PROVE rest[j] # k
        BY <2>4, <3>1, <3>2
      <3>4. ASSUME NEW j \in DOMAIN rest, NEW l \in DOMAIN rest, rest[j] = rest[l] PROVE j = l
        <4>1. PICK n \in DOMAIN order : rest[j] = order[n] /\ n = (IF j < i THEN j ELSE j + 1)
          BY <3>2
        <4>2. PICK m \in DOMAIN order : rest[l] = order[m] /\ m = (IF l < i THEN l ELSE l + 1)
          BY <3>2
        <4>3. n = m
          BY <3>4, <4>1, <4>2
        <4> QED
          BY <3>1, <4>1, <4>2, <4>3
      <3> QED
        BY <3>3, <3>4
    <2> QED
      BY <2>1, <2>3, <2>4
  <1> HIDE DEF rest
  <1>2. Newest(k) = <<k>> \o rest
    BY DEF Newest, rest
  <1>3. Newest(k) \in Seq(CacheFiles) /\ Len(Newest(k)) = Len(rest) + 1
    BY <1>1, <1>2
  <1>4. /\ DOMAIN Newest(k) = 1 .. (Len(rest) + 1) /\ DOMAIN rest = 1 .. Len(rest)
        /\ Len(rest) \in Nat
    BY <1>1, <1>3
  <1>5. \A i \in DOMAIN Newest(k) : Newest(k)[i] = IF i = 1 THEN k ELSE rest[i - 1]
    BY <1>1, <1>2, <1>4
  <1>6. ASSUME NEW i \in DOMAIN Newest(k), NEW j \in DOMAIN Newest(k), Newest(k)[i] = Newest(k)[j]
        PROVE  i = j
    <2>1. i # 1 => i - 1 \in DOMAIN rest
      BY <1>4
    <2>2. j # 1 => j - 1 \in DOMAIN rest
      BY <1>4
    <2>3. i = 1 \/ j = 1 => i = j
      BY <1>1, <1>5, <1>6, <2>1, <2>2
    <2>4. i # 1 /\ j # 1 => i - 1 = j - 1
      BY <1>1, <1>5, <1>6, <2>1, <2>2
    <2> QED
      BY <1>4, <2>3, <2>4
  <1> QED
    BY <1>3, <1>6

FilesAreListed ==
    /\ cacheFile \in [CacheFiles -> {NoCache, Torn} \cup {Whole(p) : p \in Payloads}]
    /\ order \in Seq(CacheFiles)
    /\ \A i, j \in DOMAIN order : order[i] = order[j] => i = j
    /\ builds \in 0 .. MaxBuilds /\ asked \in 0 .. MaxAsked

LEMMA FilesAreListedInit == WarehouseInit => FilesAreListed
  <1> SUFFICES ASSUME WarehouseInit PROVE FilesAreListed
    OBVIOUS
  <1>1. order \in Seq(CacheFiles) /\ DOMAIN order = {}
    BY DEF WarehouseInit
  <1> QED
    BY <1>1, KrWarehouseAssumption DEF WarehouseInit, CacheInit, FilesAreListed

LEMMA FilesStayListed == FilesAreListed /\ [WarehouseNext]_warehouseVars => FilesAreListed'
  <1> SUFFICES ASSUME FilesAreListed, [WarehouseNext]_warehouseVars PROVE FilesAreListed'
    OBVIOUS
  <1>1. ASSUME NEW k \in CacheFiles, BuildOpen(k) PROVE FilesAreListed'
    <2>1. cacheFile' = [cacheFile EXCEPT ![k] = Torn] /\ order' = Newest(k)
          /\ builds < MaxBuilds /\ builds' = builds + 1 /\ asked' = asked
      BY <1>1 DEF BuildOpen, CacheOpen
    <2> QED
      BY <2>1, NewestIsListed, KrWarehouseAssumption DEF FilesAreListed
  <1>2. ASSUME NEW k \in CacheFiles, BuildFill(k) PROVE FilesAreListed'
    <2>1. PICK p \in Payloads : cacheFile' = [cacheFile EXCEPT ![k] = Whole(p)]
      BY <1>2 DEF BuildFill
    <2>2. order' = Newest(k) /\ UNCHANGED <<builds, asked>>
      BY <1>2 DEF BuildFill
    <2> QED
      BY <2>1, <2>2, NewestIsListed DEF FilesAreListed
  <1>3. ASSUME NEW r \in Requests, NEW kind, NEW t, Ask(r, kind, t) PROVE FilesAreListed'
    BY <1>3, KrWarehouseAssumption DEF Ask, FilesAreListed
  <1>4. CASE UNCHANGED <<cacheFile, order, builds, asked>>
    BY <1>4 DEF FilesAreListed
  <1>5. ASSUME NEW r \in Requests,
               \/ AskPostgres(r) \/ OpenWarehouse(r) \/ ReadPoints(r) \/ ReadPrices(r)
               \/ ReadDividends(r) \/ ReadFacts(r) \/ Join(r) \/ ReadCache(r) \/ NoSource(r)
        PROVE  UNCHANGED <<cacheFile, order, builds, asked>>
    BY <1>5 DEF AskPostgres, OpenWarehouse, ReadPoints, ReadPrices, ReadDividends, ReadFacts,
                Select, Join, ReadCache, NoSource, RequestStep
  <1>6. ASSUME \/ \E requested \in SUBSET PriorityTickers : ReadCaches(requested)
               \/ OpenFacts \/ FillFacts \/ OpenPoints \/ FillPoints
               \/ Connect \/ CreateViews \/ LoaderCrash
        PROVE  UNCHANGED <<cacheFile, order, builds, asked>>
    BY <1>6 DEF ReadCaches, OpenFacts, FillFacts, OpenPoints, FillPoints, OpenParquet, Load,
                Connect, CreateViews, LoaderCrash
  <1> QED
    BY <1>1, <1>2, <1>3, <1>4, <1>5, <1>6 DEF WarehouseNext, warehouseVars

\* For any tickers, cache files, payloads and requests: the builder's list holds every file
\* once, and the rows, the reads and the answers are of the grades and loads there are.
THEOREM WarehouseTypeCorrect == WarehouseSpec => []WarehouseTypeOK
  <1>1. WarehouseInv /\ FilesAreListed => WarehouseTypeOK
    <2> SUFFICES ASSUME WarehouseInv, FilesAreListed PROVE WarehouseTypeOK
      OBVIOUS
    <2>1. Passing \subseteq Grades
      BY DEF Passing, Grades
    <2>2. \A rows \in TableRows : RowsOK(rows)
      BY <2>1 DEF TableRows, RowsOK
    <2>3. ParquetOK(facts) /\ ParquetOK(points)
      BY <2>2 DEF WarehouseInv, WarehouseIsTyped, Parquet, ParquetOK
    <2>4. Read \subseteq [load : 0 .. MaxLoads, grade : Grades]
      BY <2>1 DEF Read
    <2>5. Request \subseteq
            [pc : PCs, kind : {"valuation", "financials"}, ticker : PriorityTickers,
             read : [Figures -> [load : 0 .. MaxLoads, grade : Grades]],
             answer : {"none", "postgres", "warehouse", "cache", "required", "fixture"},
             began : NotQuiet .. MaxLoads, quiet : BOOLEAN]
      BY <2>4 DEF Request
    <2> QED
      BY <2>2, <2>3, <2>5 DEF WarehouseInv, WarehouseIsTyped, Loader, FilesAreListed, WarehouseTypeOK
  <1> QED
    BY <1>1, WarehouseInitSound, WarehouseStepSound, FilesAreListedInit, FilesStayListed, PTL
    DEF WarehouseSpec
===============================================================================
