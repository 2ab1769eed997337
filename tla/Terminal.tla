------------------------------ MODULE Terminal ------------------------------
(***************************************************************************)
(* The terminal page (apps/web/app/page.tsx) against the API and the       *)
(* owner's rows in Postgres.                                               *)
(*                                                                         *)
(* A change of the view, the selected ticker with the settings that the    *)
(* queries are built from, re-runs the load effect: it unmounts the load   *)
(* before it and starts one of its own, two dozen requests in one          *)
(* Promise.all.  Every request is answered from what the server holds at   *)
(* that moment and the page goes on when the last one has come, or at the  *)
(* first one that is rejected.  Meanwhile the owner edits the watchlist    *)
(* and imports a portfolio; these requests, too, are answered, late or     *)
(* never, and the server may do what the page has given up on.             *)
(*                                                                         *)
(* An event handler, an effect and what follows an `await` run to their    *)
(* end: each is one action, with all the setState calls it makes.          *)
(***************************************************************************)
EXTENDS Naturals, FiniteSets

CONSTANTS
    Tickers,
    KrTickers,      \* krTopMarketCapPriorityTickers
    SampleTicker,   \* the ticker of fallbackSnapshot and fallbackValuation
    DefaultTicker,  \* the ticker of the page before any selection
    Queries,        \* metric, forecast, range and screener settings (debounced)
    NoQuery,
    Deployments,    \* what the API may answer for tickers without source rows
    Items,          \* tickers of watchlists
    SampleItems,    \* those of fallbackWatchlist
    Sample, Empty,  \* fallbackPortfolio, emptyPortfolio
    NoAnswer,
    MaxRequests,    \* bound: runs of the load effect that send requests
    MaxEdits        \* bound: edits of the owner

View      == [ticker: Tickers, query: Queries]
\* Edits are numbered as they begin; the holdings that an import stores have its
\* number, those stored before have none.
Edits     == 1..MaxEdits
Before    == 0
Held      == Edits \union {Before}
Portfolio == Held \union {Sample, Empty}
NoItems   == {NoAnswer}     \* a watchlist that has not been answered

\* A deployment answers for a ticker of the KR universe, and for another one,
\* with fixtures, with the source_backed_required payload, or with an error.
Deployment == [kr: {"fixture", "required", "error"}, other: {"fixture", "error"}]

ASSUME TerminalAssumption ==
    /\ KrTickers \subseteq Tickers
    /\ SampleTicker \in Tickers \ KrTickers
    /\ DefaultTicker \in KrTickers
    /\ NoQuery \notin Queries /\ Queries # {}
    /\ Deployments \subseteq Deployment /\ Deployments # {}
    /\ SampleItems \subseteq Items
    /\ NoAnswer \notin Portfolio /\ NoAnswer \notin Items
    /\ Sample \notin Held /\ Empty \notin Held
    /\ MaxRequests \in Nat /\ MaxEdits \in Nat

VARIABLES
    api,        \* the deployment
    session,    \* ownerSession: "loading", "in" (authenticated) or "out"
    view,       \* the selected ticker and settings
    screen,     \* the figures on display: valuation, snapshot, and whether
                \* sourceReadiness.data_mode is a source satisfied one
    status,     \* the status pill
    watchlist,  \* the tickers on the watchlist on display
    touched,    \* watchlistTouched
    portfolio,  \* the holdings on display
    requestId,  \* valuationLoadRequestId
    loads,      \* runs of the load effect, by request id
    edits,      \* requests of the owner's edits
    watchRows,  \* watchlist_items of the owner
    holdings,   \* portfolio_transactions of the owner
    disturbed   \* history: watchlist edits have overlapped, or one has failed

page   == <<session, view, screen, status, watchlist, touched, portfolio, requestId>>
server == <<watchRows, holdings>>
vars   == <<api, page, loads, edits, server, disturbed>>

-----------------------------------------------------------------------------
\* A figure is of a view, and from source rows, from the KR cache or warehouse,
\* from fixtures, or absent.
Figure(v, kind) == [view |-> v, kind |-> kind]

Missing(v) ==
    [valuation |-> Figure(v, "none"), snapshot |-> Figure(v, "none"), satisfied |-> FALSE]

SampleFigure == Figure([ticker |-> SampleTicker, query |-> NoQuery], "fixture")
SampleScreen ==
    [valuation |-> SampleFigure, snapshot |-> SampleFigure, satisfied |-> FALSE]

Loads == 1..MaxRequests

NoLoad ==
    [phase |-> "none", mounted |-> FALSE,
     view |-> [ticker |-> DefaultTicker, query |-> NoQuery], portfolio |-> NoAnswer,
     watchlist |-> NoItems]

NoEdit ==
    [kind |-> "none", item |-> NoAnswer, server |-> "waiting", page |-> "saving",
     portfolio |-> NoAnswer, watchlist |-> NoItems]

Init ==
    /\ api \in Deployments
    /\ session = "loading"
    /\ view \in {[ticker |-> DefaultTicker, query |-> q] : q \in Queries}
    /\ screen = Missing(view)
    /\ status = "missing_source"
    /\ watchlist = SampleItems
    /\ touched = FALSE
    /\ portfolio = Sample
    /\ requestId = 0
    /\ loads = [l \in Loads |-> NoLoad]
    /\ edits = [e \in Edits |-> NoEdit]
    /\ watchRows \in {{}, Items \ SampleItems}
    /\ holdings = Before
    /\ disturbed = FALSE

-----------------------------------------------------------------------------
\* The load effect.

Unmounted == [l \in Loads |-> [loads[l] EXCEPT !.mounted = FALSE]]

\* The cleanup of the run before, then load(), which sends nothing without a
\* session.
LoadEffect(v, s) ==
    IF s = "in"
    THEN /\ requestId < MaxRequests
         /\ requestId' = requestId + 1
         /\ loads' = [Unmounted EXCEPT ![requestId + 1] =
                         [NoLoad EXCEPT !.phase = "waiting", !.mounted = TRUE, !.view = v]]
         /\ status' = "loading"
    ELSE /\ loads' = Unmounted
         /\ UNCHANGED <<requestId, status>>

\* /api/pf/session has answered, or timed out: the second counts as signed out.
BridgeSession ==
    /\ session = "loading"
    /\ session' \in {"in", "out"}
    /\ LoadEffect(view, session')
    /\ UNCHANGED <<api, view, screen, watchlist, touched, portfolio, edits, server, disturbed>>

SelectView(v) ==
    /\ v # view
    /\ view' = v
    /\ LoadEffect(v, session)
    /\ UNCHANGED <<api, session, screen, watchlist, touched, portfolio, edits, server,
                   disturbed>>

\* The server answers the portfolio or the watchlist request of a load, from
\* its rows or with an error status, for which the page has a substitute.
ServePortfolio(l) ==
    /\ loads[l].phase = "waiting" /\ loads[l].portfolio = NoAnswer
    /\ \E answer \in {holdings, Empty} :
          loads' = [loads EXCEPT ![l].portfolio = answer]
    /\ UNCHANGED <<api, page, edits, server, disturbed>>

ServeWatchlist(l) ==
    /\ loads[l].phase = "waiting" /\ loads[l].watchlist = NoItems
    /\ \E answer \in {watchRows, SampleItems} :
          loads' = [loads EXCEPT ![l].watchlist = answer]
    /\ UNCHANGED <<api, page, edits, server, disturbed>>

Answered(l) ==
    loads[l].phase = "waiting" /\ loads[l].portfolio # NoAnswer /\ loads[l].watchlist # NoItems

\* Mutant: nothing tells a load that another one has overtaken.
IsCurrentRequestAlways(l) == TRUE

IsCurrentRequest(l) == loads[l].mounted /\ l = requestId

\* What the API has for the valuation map, and for the snapshot and financials.
Unsourced(t) == {IF t \in KrTickers THEN api.kr ELSE api.other} \ {"error"}
ValuationKinds(t) ==
    {"source"} \union Unsourced(t) \union (IF t \in KrTickers THEN {"cache"} ELSE {})
FactKinds(t) == {"source"} \union Unsourced(t)

\* Mutant: the gate looks for the source_backed_required payload only.
UnsafeRequiredOnly(t, valuation, facts) ==
    t \in KrTickers /\ valuation # "cache" /\ "required" \in {valuation, facts}

\* The gate for KR tickers: a valuation from the cache or the warehouse passes it,
\* otherwise no payload may be of fixtures or say that source rows are required.
Unsafe(t, valuation, facts) ==
    /\ t \in KrTickers
    /\ valuation # "cache"
    /\ {valuation, facts} \intersect {"required", "fixture"} # {}

\* Mutant: a payload that says that rows are required is put on display.
DisplayedAsIs(kind) == kind

Displayed(kind) == IF kind = "required" THEN "none" ELSE kind

SettleUnsafe(l, t) ==
    /\ screen' = Missing(loads[l].view)
    /\ portfolio' = Empty
    /\ watchlist' = IF touched THEN watchlist ELSE loads[l].watchlist
    /\ status' = "missing_source"

\* Mutant: the watchlist is set whether or not the owner has edited it.
SettleLiveUntouched(l, valuation, facts, ready) ==
    /\ screen' = [valuation |-> Figure(loads[l].view, Displayed(valuation)),
                  snapshot |-> Figure(loads[l].view, Displayed(facts)),
                  satisfied |-> valuation = "cache" \/ ready]
    /\ portfolio' = loads[l].portfolio
    /\ watchlist' = loads[l].watchlist
    /\ status' = "live"

SettleLive(l, valuation, facts, ready) ==
    /\ screen' = [valuation |-> Figure(loads[l].view, Displayed(valuation)),
                  snapshot |-> Figure(loads[l].view, Displayed(facts)),
                  satisfied |-> valuation = "cache" \/ ready]
    /\ portfolio' = loads[l].portfolio
    /\ watchlist' = IF touched THEN watchlist ELSE loads[l].watchlist
    /\ status' = "live"

\* Every request has been answered.
SettleAnswered(l) ==
    LET t == loads[l].view.ticker IN
    /\ Answered(l)
    /\ \E valuation \in ValuationKinds(t), facts \in FactKinds(t), ready \in BOOLEAN :
          IF ~IsCurrentRequest(l) THEN UNCHANGED <<screen, portfolio, watchlist, status>>
          ELSE IF Unsafe(t, valuation, facts) THEN SettleUnsafe(l, t)
          ELSE SettleLive(l, valuation, facts, ready)
    /\ loads' = [loads EXCEPT ![l] = NoLoad]
    /\ UNCHANGED <<api, session, view, touched, requestId, edits, server, disturbed>>

\* Mutant: a load that fails leaves the status pill as it is.
SettleRejectedSilently(l) ==
    /\ loads[l].phase = "waiting"
    /\ loads' = [loads EXCEPT ![l] = NoLoad]
    /\ UNCHANGED <<api, session, view, screen, portfolio, watchlist, status, touched, requestId,
                   edits, server, disturbed>>

\* A request was rejected or timed out, or one of the company's has failed.
SettleRejected(l) ==
    LET t == loads[l].view.ticker IN
    /\ loads[l].phase = "waiting"
    /\ IF ~IsCurrentRequest(l) THEN UNCHANGED <<screen, portfolio, watchlist, status>>
       ELSE /\ screen' = IF t \in KrTickers THEN Missing(loads[l].view) ELSE SampleScreen
            /\ portfolio' = Empty
            /\ watchlist' = IF t \in KrTickers /\ touched THEN watchlist ELSE SampleItems
            /\ status' = IF t \in KrTickers THEN "missing_source" ELSE "fallback"
    /\ loads' = [loads EXCEPT ![l] = NoLoad]
    /\ UNCHANGED <<api, session, view, touched, requestId, edits, server, disturbed>>

\* One of the company's requests was answered with 401 or 403: the owner is
\* signed out, which re-runs the effect.
SettleDenied(l) ==
    /\ Answered(l)
    /\ IF loads[l].mounted
       THEN session' = "out" /\ loads' = [Unmounted EXCEPT ![l] = NoLoad]
       ELSE UNCHANGED session /\ loads' = [loads EXCEPT ![l] = NoLoad]
    /\ UNCHANGED <<api, view, screen, status, watchlist, touched, portfolio, requestId,
                   edits, server, disturbed>>

-----------------------------------------------------------------------------
\* The owner's edits.

WatchKinds == {"add", "remove"}

Saving(e)   == edits[e].kind # "none" /\ edits[e].page = "saving"
WatchSaving == \E e \in Edits : Saving(e) /\ edits[e].kind \in WatchKinds

NextEdit(e) == edits[e].kind = "none" /\ \A f \in 1..(e - 1) : edits[f].kind # "none"

BeginWatchlistEdit(e, kind, item) ==
    /\ session = "in"
    /\ NextEdit(e)
    /\ kind = "remove" => item \in watchlist
    /\ touched' = TRUE
    /\ edits' = [edits EXCEPT ![e].kind = kind, ![e].item = item]
    /\ disturbed' = (disturbed \/ WatchSaving)
    /\ UNCHANGED <<api, session, view, screen, status, watchlist, portfolio, requestId,
                   loads, server>>

BeginImport(e) ==
    /\ session = "in"
    /\ NextEdit(e)
    /\ edits' = [edits EXCEPT ![e].kind = "import"]
    /\ UNCHANGED <<api, page, loads, server, disturbed>>

\* The transaction of the edit, then the read that answers it.
CommitEdit(e) ==
    /\ edits[e].kind # "none" /\ edits[e].server = "waiting"
    /\ watchRows' = CASE edits[e].kind = "add"    -> watchRows \union {edits[e].item}
                      [] edits[e].kind = "remove" -> watchRows \ {edits[e].item}
                      [] OTHER                    -> watchRows
    /\ holdings' = IF edits[e].kind = "import" THEN e ELSE holdings
    /\ edits' = [edits EXCEPT ![e].server = "committed"]
    /\ UNCHANGED <<api, page, loads, disturbed>>

AnswerEdit(e) ==
    /\ Saving(e) /\ edits[e].server = "committed"
    /\ edits' = [edits EXCEPT ![e].server = "answered",
          ![e].portfolio = IF edits[e].kind = "import" THEN holdings ELSE NoAnswer,
          ![e].watchlist = IF edits[e].kind = "import" THEN NoItems ELSE watchRows]
    /\ UNCHANGED <<api, page, loads, server, disturbed>>

\* ensureWatchlistItem and removeWatchlistItemLocal on the answer.
EditSaved(e) ==
    /\ Saving(e) /\ edits[e].server = "answered"
    /\ watchlist' = CASE edits[e].kind = "add"    -> edits[e].watchlist \union {edits[e].item}
                      [] edits[e].kind = "remove" -> edits[e].watchlist \ {edits[e].item}
                      [] OTHER                    -> watchlist
    /\ portfolio' = IF edits[e].kind = "import" THEN edits[e].portfolio ELSE portfolio
    /\ edits' = [edits EXCEPT ![e].page = "saved", ![e].item = NoAnswer,
                              ![e].portfolio = NoAnswer, ![e].watchlist = NoItems]
    /\ UNCHANGED <<api, session, view, screen, status, touched, requestId, loads, server,
                   disturbed>>

\* The answer is an error or is not there in time; the server may still commit.
EditFailed(e) ==
    /\ Saving(e)
    /\ edits' = [edits EXCEPT ![e].page = "failed",
                              ![e].portfolio = NoAnswer, ![e].watchlist = NoItems]
    /\ disturbed' = (disturbed \/ edits[e].kind \in WatchKinds)
    /\ UNCHANGED <<api, page, loads, server>>

-----------------------------------------------------------------------------
Settle(l) == SettleAnswered(l) \/ SettleRejected(l) \/ SettleDenied(l)

Next ==
    \/ BridgeSession
    \/ \E v \in View : SelectView(v)
    \/ \E l \in Loads : ServePortfolio(l) \/ ServeWatchlist(l) \/ Settle(l)
    \/ \E e \in Edits :
          \/ \E kind \in WatchKinds, item \in Items : BeginWatchlistEdit(e, kind, item)
          \/ BeginImport(e) \/ CommitEdit(e) \/ AnswerEdit(e) \/ EditSaved(e) \/ EditFailed(e)

Spec == Init /\ [][Next]_vars

\* withTimeout rejects what is not answered in time, and the body of an answer comes
\* to its end or breaks off: so every load settles.
FairSpec == Spec /\ \A l \in Loads : WF_vars(Settle(l))

-----------------------------------------------------------------------------
\* What the page renders of the figures: those of the selected ticker, and for a
\* KR ticker only when its source readiness says that source rows were loaded.
DataMatchesTicker ==
    /\ screen.snapshot.view.ticker = view.ticker
    /\ view.ticker \in KrTickers => screen.satisfied

Kinds   == {"source", "cache", "fixture", "none"}
Figures == [view: [ticker: Tickers, query: Queries \union {NoQuery}], kind: Kinds]

Load ==
    [phase: {"none", "waiting"}, mounted: BOOLEAN,
     view: [ticker: Tickers, query: Queries \union {NoQuery}],
     portfolio: Portfolio \union {NoAnswer}, watchlist: (SUBSET Items) \union {NoItems}]

Edit ==
    [kind: WatchKinds \union {"none", "import"}, item: Items \union {NoAnswer},
     server: {"waiting", "committed", "answered"}, page: {"saving", "saved", "failed"},
     portfolio: Held \union {NoAnswer}, watchlist: (SUBSET Items) \union {NoItems}]

\* The types of the page's state, of its requests and of the owner's rows.
TypeOK ==
    /\ api \in Deployments
    /\ session \in {"loading", "in", "out"}
    /\ view \in View
    /\ screen \in [valuation: Figures, snapshot: Figures, satisfied: BOOLEAN]
    /\ status \in {"missing_source", "loading", "live", "fallback"}
    /\ watchlist \subseteq Items
    /\ touched \in BOOLEAN
    /\ portfolio \in Portfolio
    /\ requestId \in 0..MaxRequests
    /\ loads \in [Loads -> Load]
    /\ edits \in [Edits -> Edit]
    /\ watchRows \subseteq Items
    /\ holdings \in Held
    /\ disturbed \in BOOLEAN

\* Whatever the order in which loads finish, the figures under a "live" pill are
\* those of the ticker and the settings now selected, never of a load that a later
\* selection has overtaken (isCurrentRequest in the load effect).
LiveIsCurrent ==
    session = "in" /\ status = "live" =>
        screen.valuation.view = view /\ screen.snapshot.view = view

\* The valuation rendered for a KR priority ticker comes from source rows or from
\* the source-backed cache, in every deployment, also while another load is under
\* way or after one has failed (the source gate and dataMatchesTicker).
KrShowsNoFixture ==
    view.ticker \in KrTickers /\ DataMatchesTicker =>
        screen.valuation.kind \in {"source", "cache"}

\* Edits that follow one another and all succeed leave on display the watchlist
\* that the server holds, or the samples a failed load has put there: no load that
\* was answered before an edit brings the old list back (watchlistTouched).
EditedWatchlistIsOwners ==
    ~disturbed /\ ~WatchSaving => watchlist \in {watchRows, SampleItems}

\* A load that has put "loading" in the status pill does not leave it there.
LoadingEnds == status = "loading" ~> status # "loading" \/ session # "in"

\* DECISIONS.md: "Unavailable states must not expose stale fixture numbers behind
\* a positive badge."  The pill says "live" for a valuation from the KR cache even
\* when the snapshot that came with it is a fixture.
NoFixtureBehindLiveBadge ==
    session = "in" /\ status = "live" /\ view.ticker \in KrTickers /\ DataMatchesTicker =>
        screen.snapshot.kind # "fixture"

\* README.md: "The Portfolio tab includes a CSV import form that updates holdings".
\* A load whose portfolio was read before the import, and that ends after it, puts
\* the holdings from before the import back.
ImportedHoldingsStay ==
    (\E e \in Edits : edits[e].kind = "import" /\ edits[e].page = "saved")
        => portfolio # Before

=============================================================================
