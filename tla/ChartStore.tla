------------------------------ MODULE ChartStore ------------------------------
(***************************************************************************)
(* What the API keeps of charts: the rendered files of chart_cache.py,     *)
(* the replayable runs of chart_runs.py and the layouts a user saves       *)
(* (chart_layouts.py).  Requests are served by a pool of threads, so two   *)
(* of them interleave at every file operation and every transaction; a     *)
(* file is written in place, and the process may die in the middle of it.  *)
(*                                                                         *)
(* A payload is what its cache key is made of (data) and the recession     *)
(* bands, which are drawn too.  The id of a run is a hash of the whole     *)
(* payload, the id of a layout a hash of the name as it was typed.         *)
(***************************************************************************)
EXTENDS Naturals, FiniteSets

CONSTANTS
    Threads,      \* the threads of the pool
    Payloads,     \* [data, bands]
    Typed,        \* names of layouts as typed
    Strip(_),     \* name.strip() or "Default layout"
    MaxRestarts   \* bound: deaths of the process

ASSUME ChartStoreAssumption == MaxRestarts \in Nat

Names  == {Strip(t) : t \in Typed}
Nobody == [data |-> 0, bands |-> 0]
Absent == [state |-> "absent", shows |-> Nobody]
Torn   == [state |-> "torn", shows |-> Nobody]
Whole(p) == [state |-> "whole", shows |-> p]
Files == {Absent, Torn} \cup {Whole(p) : p \in Payloads}

VARIABLES
    database,   \* DATA_BACKEND=postgres
    queueing,   \* CHART_BLOB_QUEUE_ENABLED
    charts,     \* the rendered file of each key
    blobs,      \* the keys queued for upload
    manifests,  \* the run files: payload -> "absent", "torn", "whole"
    runRows,    \* chart_runs
    layoutRows, \* chart_layouts: name -> id, or NoId; (owner, name) is unique
    layouts,    \* the layout files: id -> [state, name]
    thread,     \* what each thread is doing, on what, and what it answered last
    restarts,
    made        \* history: the runs whose id was answered

chartVars == <<database, queueing, charts, blobs, manifests, runRows, layoutRows, layouts,
               thread, restarts, made>>

NoId == "none"
NoLayout == [state |-> "absent", name |-> NoId]
Idle == [at |-> "idle", payload |-> Nobody, id |-> NoId, name |-> NoId, shown |-> Absent]

\* valuation_chart_cache_key: everything that is drawn but the recession bands.
Key(p) == p.data
ChartKeys == {Key(p) : p \in Payloads}

ChartInit ==
    /\ database \in BOOLEAN /\ queueing \in BOOLEAN
    /\ charts = [k \in ChartKeys |-> Absent]
    /\ blobs = {} /\ runRows = {} /\ made = {}
    /\ manifests = [p \in Payloads |-> "absent"]
    /\ layoutRows = [n \in Names |-> NoId]
    /\ layouts = [t \in Typed |-> NoLayout]
    /\ thread = [t \in Threads |-> Idle]
    /\ restarts = 0

Goes(t, at) == thread' = [thread EXCEPT ![t].at = at]
IsAt(t, at) == thread[t].at = at
Charts  == <<charts, blobs>>
Runs    == <<manifests, runRows, made>>
Layouts == <<layoutRows, layouts>>
Config  == <<database, queueing, restarts>>

-----------------------------------------------------------------------------
\* render_cached_valuation_chart: the file is looked for, then read or rendered.
WantChart(t) ==
    /\ IsAt(t, "idle")
    /\ \E p \in Payloads :
        thread' = [thread EXCEPT ![t] =
            [Idle EXCEPT !.payload = p,
                         !.at = IF charts[Key(p)] = Absent THEN "render" ELSE "read"]]
    /\ UNCHANGED <<Charts, Runs, Layouts, Config>>

ReadChart(t) ==
    /\ IsAt(t, "read")
    /\ thread' = [thread EXCEPT ![t].at = "idle", ![t].shown = charts[Key(thread[t].payload)]]
    /\ UNCHANGED <<Charts, Runs, Layouts, Config>>

\* Mutant: a thread that finds the file of another one has truncated it already.
OpenChartThenLook(t) ==
    /\ IsAt(t, "render")
    /\ Goes(t, IF charts[Key(thread[t].payload)].state = "whole" THEN "read" ELSE "draw")
    /\ charts' = [charts EXCEPT ![Key(thread[t].payload)] = Torn]
    /\ UNCHANGED <<blobs, Runs, Layouts, Config>>

\* cache_path.write_bytes truncates, then writes.
OpenChart(t) ==
    /\ IsAt(t, "render") /\ Goes(t, "draw")
    /\ charts' = [charts EXCEPT ![Key(thread[t].payload)] = Torn]
    /\ UNCHANGED <<blobs, Runs, Layouts, Config>>

FillChart(t) ==
    /\ IsAt(t, "draw")
    /\ charts' = [charts EXCEPT ![Key(thread[t].payload)] = Whole(thread[t].payload)]
    /\ thread' = [thread EXCEPT ![t].at = IF queueing THEN "queue" ELSE "idle",
                                ![t].shown = Whole(thread[t].payload)]
    /\ UNCHANGED <<blobs, Runs, Layouts, Config>>

QueueChart(t) ==
    /\ IsAt(t, "queue") /\ Goes(t, "idle")
    /\ blobs' = blobs \cup {Key(thread[t].payload)}
    /\ UNCHANGED <<charts, Runs, Layouts, Config>>

-----------------------------------------------------------------------------
\* create_chart_run, in Postgres or in a manifest; the row is replaced by its equal.
StoreRun(t) ==
    /\ IsAt(t, "idle") /\ database
    /\ \E p \in Payloads :
        /\ runRows' = runRows \cup {p}
        /\ made' = made \cup {p}
    /\ UNCHANGED <<manifests, thread, Charts, Layouts, Config>>

OpenRun(t) ==
    /\ IsAt(t, "idle") /\ ~database
    /\ \E p \in Payloads :
        /\ manifests' = [manifests EXCEPT ![p] = "torn"]
        /\ thread' = [thread EXCEPT ![t] = [Idle EXCEPT !.at = "run", !.payload = p]]
    /\ UNCHANGED <<runRows, made, Charts, Layouts, Config>>

FillRun(t) ==
    /\ IsAt(t, "run") /\ Goes(t, "idle")
    /\ manifests' = [manifests EXCEPT ![thread[t].payload] = "whole"]
    /\ made' = made \cup {thread[t].payload}
    /\ UNCHANGED <<runRows, Charts, Layouts, Config>>

\* load_chart_run: the row, and without one the manifest, also when there is a database.
Loadable(p) == (database /\ p \in runRows) \/ manifests[p] = "whole"

-----------------------------------------------------------------------------
\* save_chart_layout with Postgres: the id of the row of this name, or one's own.
SelectLayout(t) ==
    /\ IsAt(t, "idle") /\ database
    /\ \E typed \in Typed :
        LET n == Strip(typed)
        IN  thread' = [thread EXCEPT ![t] = [Idle EXCEPT !.at = "upsert", !.name = n,
                          !.id = IF layoutRows[n] # NoId THEN layoutRows[n] ELSE typed]]
    /\ UNCHANGED <<Charts, Runs, Layouts, Config>>

\* Mutant: the conflict also takes the new id.
UpsertLayoutWithId(t) ==
    /\ IsAt(t, "upsert") /\ Goes(t, "idle")
    /\ layoutRows' = [layoutRows EXCEPT ![thread[t].name] = thread[t].id]
    /\ UNCHANGED <<layouts, Charts, Runs, Config>>

\* ON CONFLICT (owner, name) DO UPDATE changes all but the id of the row.
UpsertLayout(t) ==
    /\ IsAt(t, "upsert") /\ Goes(t, "idle")
    /\ layoutRows' = [layoutRows EXCEPT ![thread[t].name] = IF @ = NoId THEN thread[t].id ELSE @]
    /\ UNCHANGED <<layouts, Charts, Runs, Config>>

\* Every layout file of the owner is parsed, to find the name: one that is cut short
\* is a ValueError, and the request a 400.
Readable == \A i \in Typed : layouts[i].state # "torn"
OfName(n) == {i \in Typed : layouts[i].state = "whole" /\ layouts[i].name = n}

FindLayout(t) ==
    /\ IsAt(t, "idle") /\ ~database
    /\ Readable
    /\ \E typed \in Typed :
        LET n == Strip(typed)
        IN  \E i \in IF OfName(n) # {} THEN OfName(n) ELSE {typed} :
              thread' = [thread EXCEPT ![t] =
                            [Idle EXCEPT !.at = "layout", !.name = n, !.id = i]]
    /\ UNCHANGED <<Charts, Runs, Layouts, Config>>

OpenLayout(t) ==
    /\ IsAt(t, "layout") /\ Goes(t, "fill")
    /\ layouts' = [layouts EXCEPT ![thread[t].id] = [state |-> "torn", name |-> @.name]]
    /\ UNCHANGED <<layoutRows, Charts, Runs, Config>>

\* Mutant: the name is stored as it was typed.
FillLayoutAsTyped(t) ==
    /\ IsAt(t, "fill") /\ Goes(t, "idle")
    /\ layouts' = [layouts EXCEPT ![thread[t].id] = [state |-> "whole", name |-> thread[t].id]]
    /\ UNCHANGED <<layoutRows, Charts, Runs, Config>>

FillLayout(t) ==
    /\ IsAt(t, "fill") /\ Goes(t, "idle")
    /\ layouts' = [layouts EXCEPT ![thread[t].id] = [state |-> "whole", name |-> thread[t].name]]
    /\ UNCHANGED <<layoutRows, Charts, Runs, Config>>

\* delete_chart_layout, of an id that was listed; of another it is a 404.
DeleteLayout(t) ==
    /\ IsAt(t, "idle")
    /\ \/ /\ database
          /\ \E n \in Names : layoutRows[n] # NoId
                                /\ layoutRows' = [layoutRows EXCEPT ![n] = NoId]
          /\ UNCHANGED layouts
       \/ /\ ~database
          /\ \E i \in Typed : layouts[i] # NoLayout
                                /\ layouts' = [layouts EXCEPT ![i] = NoLayout]
          /\ UNCHANGED layoutRows
    /\ UNCHANGED <<thread, Charts, Runs, Config>>

-----------------------------------------------------------------------------
\* The process dies and starts again, with a database or the queue switched on.
Restart ==
    /\ restarts < MaxRestarts /\ restarts' = restarts + 1
    /\ thread' = [t \in Threads |-> Idle]
    /\ database' \in {d \in BOOLEAN : database => d}
    /\ queueing' \in {q \in BOOLEAN : queueing => q}
    /\ UNCHANGED <<Charts, Runs, Layouts>>

ChartStep ==
    \E t \in Threads :
        WantChart(t) \/ ReadChart(t) \/ OpenChart(t) \/ FillChart(t) \/ QueueChart(t)

RunStep == \E t \in Threads : StoreRun(t) \/ OpenRun(t) \/ FillRun(t)

LayoutStep ==
    \E t \in Threads :
        \/ SelectLayout(t) \/ UpsertLayout(t) \/ DeleteLayout(t)
        \/ FindLayout(t) \/ OpenLayout(t) \/ FillLayout(t)

ChartNext == ChartStep \/ RunStep \/ LayoutStep \/ Restart

ChartSpec == ChartInit /\ [][ChartNext]_chartVars

-----------------------------------------------------------------------------
ChartTypeOK ==
    /\ database \in BOOLEAN /\ queueing \in BOOLEAN
    /\ \A k \in DOMAIN charts : charts[k] \in Files
    /\ blobs \subseteq DOMAIN charts
    /\ manifests \in [Payloads -> {"absent", "torn", "whole"}]
    /\ runRows \subseteq Payloads /\ made \subseteq Payloads
    /\ layoutRows \in [Names -> Typed \cup {NoId}]
    /\ layouts \in [Typed -> [state: {"absent", "torn", "whole"}, name: Names \cup {NoId}]]
    /\ thread \in [Threads -> [at: {"idle", "render", "read", "draw", "queue", "run", "upsert",
                                    "layout", "fill"},
                               payload: Payloads \cup {Nobody}, id: Typed \cup {NoId},
                               name: Names \cup {NoId}, shown: Files]]
    /\ restarts \in 0..MaxRestarts

Writes(t, k) == thread[t].at = "draw" /\ Key(thread[t].payload) = k

\* A chart file that no thread is writing is whole, as long as the process has not died,
\* although threads that miss the same key at once write one over the other; and a chart
\* served whole has the data asked for, whoever wrote it (chart_cache.py:43).
ChartsAreWhole ==
    /\ restarts = 0 =>
        \A k \in DOMAIN charts :
            charts[k].state = "torn" => \E t \in Threads : Writes(t, k)
    /\ \A t \in Threads :
        thread[t].shown.state = "whole" => thread[t].shown.shows.data = thread[t].payload.data

\* A run whose id was answered can be replayed after a restart, and after a database
\* took the place of the manifests; a process that died while storing the same run
\* again is the only one to take it away (chart_runs.py:50).
RunIsKept == \A p \in made : Loadable(p) \/ manifests[p] = "torn"

\* The id of a saved layout stays that of its name, so that a listed layout can be deleted,
\* also when two threads save the name at once and both find no row (chart_layouts.py:93).
LayoutIdIsStable ==
    \A n \in Names : layoutRows[n] # NoId => layoutRows'[n] \in {layoutRows[n], NoId}

\* What a store has answered it goes on answering.
StoresKeepTheirWord == []RunIsKept /\ [][LayoutIdIsStable]_chartVars
===============================================================================
