--------------------------- MODULE TerminalProofs ---------------------------
(***************************************************************************)
(* Proofs about Terminal, for any number of tickers, settings, loads and   *)
(* edits.  What a load may do to the page rests on LoadsOfView: a load     *)
(* that is still mounted is one of the view now selected.  What the page   *)
(* shows of the watchlist rests on WatchEdits, which follows each edit     *)
(* from the click to the answer.                                           *)
(***************************************************************************)
EXTENDS Terminal, TLAPS

LoadStatus == {"missing_source", "loading", "live", "fallback"}

\* A load that has ended is none, which is a load.
LEMMA NoLoadTyped == NoLoad \in Load
<1>1. DefaultTicker \in Tickers
    BY TerminalAssumption
<1>2. [ticker |-> DefaultTicker, query |-> NoQuery]
            \in [ticker: Tickers, query: Queries \union {NoQuery}]
    BY <1>1
<1>3. NoItems \in (SUBSET Items) \union {NoItems}
    OBVIOUS
<1>. QED BY <1>2, <1>3 DEF NoLoad, Load

\* Running the load effect keeps the types of what it sets.
LEMMA LoadEffectTyped ==
    ASSUME TypeOK, NEW v \in View, NEW s, LoadEffect(v, s)
    PROVE  /\ requestId' \in 0..MaxRequests
           /\ status' \in LoadStatus
           /\ loads' \in [Loads -> Load]
<1>. USE DEF TypeOK, LoadStatus
<1>1. Unmounted \in [Loads -> Load]
    <2>1. ASSUME NEW l \in Loads
          PROVE  [loads[l] EXCEPT !.mounted = FALSE] \in Load
        BY ZenonT(60) DEF Load
    <2>. QED BY <2>1 DEF Unmounted
<1>2. CASE s = "in"
    <2>1. requestId' = requestId + 1 /\ requestId < MaxRequests /\ status' = "loading"
        BY <1>2 DEF LoadEffect
    <2>2. requestId + 1 \in Loads /\ requestId' \in 0..MaxRequests
        BY <2>1, TerminalAssumption DEF Loads
    <2>3. [NoLoad EXCEPT !.phase = "waiting", !.mounted = TRUE, !.view = v] \in Load
        BY NoLoadTyped DEF Load, View
    <2>4. loads' \in [Loads -> Load]
        BY <1>1, <1>2, <2>2, <2>3 DEF LoadEffect
    <2>. QED BY <2>1, <2>2, <2>4
<1>3. CASE s # "in"
    BY <1>1, <1>3 DEF LoadEffect
<1>. QED BY <1>2, <1>3

\* What the API answers is of a kind that the page knows.
LEMMA AnsweredKinds ==
    ASSUME TypeOK, NEW t
    PROVE  /\ ValuationKinds(t) \subseteq Kinds \union {"required"}
           /\ FactKinds(t) \subseteq Kinds \union {"required"}
           /\ t \in KrTickers => "none" \notin ValuationKinds(t)
BY TerminalAssumption DEF TypeOK, ValuationKinds, FactKinds, Unsourced, Kinds, Deployment

\* A load that settles leaves figures, holdings, a watchlist and a status.
LEMMA SettledTyped ==
    ASSUME TypeOK, NEW l \in Loads, SettleAnswered(l) \/ SettleRejected(l)
    PROVE  /\ screen' \in [valuation: Figures, snapshot: Figures, satisfied: BOOLEAN]
           /\ portfolio' \in Portfolio
           /\ watchlist' \subseteq Items
           /\ status' \in LoadStatus
<1>. DEFINE t == loads[l].view.ticker
            Screens == [valuation: Figures, snapshot: Figures, satisfied: BOOLEAN]
<1>1. /\ screen \in Screens /\ portfolio \in Portfolio /\ watchlist \subseteq Items
      /\ status \in LoadStatus /\ SampleItems \subseteq Items
      /\ loads[l] \in Load
    BY TerminalAssumption DEF TypeOK, LoadStatus
<1>2. Empty \in Portfolio
    BY DEF Portfolio
<1>3. \A kind \in Kinds \union {"required"} : Figure(loads[l].view, Displayed(kind)) \in Figures
    BY <1>1 DEF Figure, Figures, Displayed, Kinds, Load
<1>4. Missing(loads[l].view) \in Screens
    BY <1>1 DEF Missing, Figure, Figures, Kinds, Load
<1>5. SampleScreen \in Screens
    BY TerminalAssumption DEF SampleScreen, SampleFigure, Figure, Figures, Kinds
<1>6. CASE SettleRejected(l)
    BY <1>1, <1>2, <1>4, <1>5, <1>6 DEF SettleRejected, LoadStatus
<1>7. CASE SettleAnswered(l)
    <2>1. /\ loads[l].portfolio \in Portfolio
          /\ loads[l].watchlist \subseteq Items
        BY <1>1, <1>7 DEF SettleAnswered, Answered, Load
    <2>2. PICK valuation \in ValuationKinds(t), facts \in FactKinds(t), ready \in BOOLEAN :
             IF ~IsCurrentRequest(l) THEN UNCHANGED <<screen, portfolio, watchlist, status>>
             ELSE IF Unsafe(t, valuation, facts) THEN SettleUnsafe(l, t)
             ELSE SettleLive(l, valuation, facts, ready)
        BY <1>7 DEF SettleAnswered
    <2>3. CASE ~IsCurrentRequest(l)
        BY <1>1, <2>2, <2>3
    <2>4. CASE IsCurrentRequest(l) /\ Unsafe(t, valuation, facts)
        <3>1. SettleUnsafe(l, t)
            BY <2>2, <2>4
        <3>. QED BY <1>1, <1>2, <1>4, <2>1, <3>1 DEF SettleUnsafe, LoadStatus
    <2>5. CASE IsCurrentRequest(l) /\ ~Unsafe(t, valuation, facts)
        <3>1. SettleLive(l, valuation, facts, ready)
            BY <2>2, <2>5
        <3>2. /\ Figure(loads[l].view, Displayed(valuation)) \in Figures
              /\ Figure(loads[l].view, Displayed(facts)) \in Figures
            BY <1>3, AnsweredKinds
        <3>3. screen' \in Screens
            BY <3>1, <3>2 DEF SettleLive
        <3>. QED BY <1>1, <2>1, <3>1, <3>3 DEF SettleLive, LoadStatus
    <2>. QED BY <2>3, <2>4, <2>5
<1>. QED BY <1>6, <1>7

\* An edit has what its next step reads: the item until it is saved, and the answer
\* for its kind once the server has given it.
EditsCarry ==
    \A e \in Edits :
        /\ edits[e].kind = "none" => edits[e].server = "waiting" /\ edits[e].page = "saving"
        /\ edits[e].page = "saved" => edits[e].server = "answered"
        /\ edits[e].kind \in WatchKinds /\ edits[e].page # "saved" => edits[e].item \in Items
        /\ Saving(e) /\ edits[e].server = "answered" =>
              IF edits[e].kind = "import" THEN edits[e].portfolio \in Held
                                          ELSE edits[e].watchlist \subseteq Items

Typed == TypeOK /\ EditsCarry

\* The records of the edits keep their type in each of their steps.
LEMMA EditStepTyped ==
    ASSUME TypeOK, NEW e \in Edits,
           \/ \E kind \in WatchKinds, item \in Items : BeginWatchlistEdit(e, kind, item)
           \/ BeginImport(e) \/ CommitEdit(e) \/ AnswerEdit(e) \/ EditSaved(e) \/ EditFailed(e)
    PROVE  edits' \in [Edits -> Edit]
<1>1. edits \in [Edits -> Edit] /\ edits[e] \in Edit
    BY DEF TypeOK
<1>2. ASSUME NEW r \in Edit, edits' = [edits EXCEPT ![e] = r] PROVE edits' \in [Edits -> Edit]
    BY <1>1, <1>2
<1>3. ASSUME NEW kind \in WatchKinds, NEW item \in Items, BeginWatchlistEdit(e, kind, item)
      PROVE  edits' \in [Edits -> Edit]
    <2>1. [edits[e] EXCEPT !.kind = kind, !.item = item] \in Edit
        BY <1>1 DEF Edit
    <2>. QED BY <1>2, <1>3, <2>1 DEF BeginWatchlistEdit
<1>4. CASE BeginImport(e)
    <2>1. [edits[e] EXCEPT !.kind = "import"] \in Edit
        BY <1>1 DEF Edit
    <2>. QED BY <1>2, <1>4, <2>1 DEF BeginImport
<1>5. CASE CommitEdit(e)
    <2>1. [edits[e] EXCEPT !.server = "committed"] \in Edit
        BY <1>1 DEF Edit
    <2>. QED BY <1>2, <1>5, <2>1 DEF CommitEdit
<1>6. CASE AnswerEdit(e)
    <2>1. PICK p \in Held \union {NoAnswer}, w \in (SUBSET Items) \union {NoItems} :
             edits' = [edits EXCEPT ![e].server = "answered", ![e].portfolio = p,
                                    ![e].watchlist = w]
        BY <1>6 DEF AnswerEdit, TypeOK
    <2>2. [edits[e] EXCEPT !.server = "answered", !.portfolio = p, !.watchlist = w] \in Edit
        BY <1>1 DEF Edit
    <2>. QED BY <1>2, <2>1, <2>2
<1>7. CASE EditSaved(e)
    <2>1. [edits[e] EXCEPT !.page = "saved", !.item = NoAnswer, !.portfolio = NoAnswer,
                           !.watchlist = NoItems] \in Edit
        <3>1. NoItems \in (SUBSET Items) \union {NoItems}
            OBVIOUS
        <3>. QED BY <1>1, <3>1 DEF Edit
    <2>. QED BY <1>2, <1>7, <2>1 DEF EditSaved
<1>8. CASE EditFailed(e)
    <2>1. [edits[e] EXCEPT !.page = "failed", !.portfolio = NoAnswer, !.watchlist = NoItems]
             \in Edit
        <3>1. NoItems \in (SUBSET Items) \union {NoItems}
            OBVIOUS
        <3>. QED BY <1>1, <3>1 DEF Edit
    <2>. QED BY <1>2, <1>8, <2>1 DEF EditFailed
<1>. QED BY <1>3, <1>4, <1>5, <1>6, <1>7, <1>8

\* They also keep what the next step reads.
LEMMA EditsCarryStep == TypeOK /\ EditsCarry /\ [Next]_vars => EditsCarry'
<1>. SUFFICES ASSUME TypeOK, EditsCarry, [Next]_vars PROVE EditsCarry'
    OBVIOUS
<1>. USE DEF WatchKinds
<1>1. CASE UNCHANGED edits
    BY <1>1 DEF EditsCarry, Saving
<1>2. ASSUME NEW e \in Edits, edits' \in [Edits -> Edit],
             \A f \in Edits \ {e} : edits'[f] = edits[f],
             /\ edits'[e].kind = "none" =>
                    edits'[e].server = "waiting" /\ edits'[e].page = "saving"
             /\ edits'[e].page = "saved" => edits'[e].server = "answered"
             /\ edits'[e].kind \in WatchKinds /\ edits'[e].page # "saved" =>
                    edits'[e].item \in Items
             /\ edits'[e].kind # "none" /\ edits'[e].page = "saving"
                    /\ edits'[e].server = "answered" =>
                    IF edits'[e].kind = "import" THEN edits'[e].portfolio \in Held
                                                 ELSE edits'[e].watchlist \subseteq Items
      PROVE  EditsCarry'
    BY <1>2 DEF EditsCarry, Saving
<1>3. ASSUME NEW e \in Edits, NEW kind \in WatchKinds, NEW item \in Items,
             BeginWatchlistEdit(e, kind, item)
      PROVE  EditsCarry'
    <2>1. edits' \in [Edits -> Edit]
        BY <1>3, EditStepTyped
    <2>2. /\ \A f \in Edits \ {e} : edits'[f] = edits[f]
          /\ edits'[e] = [edits[e] EXCEPT !.kind = kind, !.item = item]
          /\ edits[e].kind = "none"
        BY <1>3 DEF BeginWatchlistEdit, NextEdit, TypeOK
    <2>3. edits[e] \in Edit
        BY DEF TypeOK
    <2>4. /\ edits[e].server = "waiting" /\ edits[e].page = "saving"
        BY <2>2 DEF EditsCarry
    <2>5. /\ edits'[e].kind = kind /\ edits'[e].item = item
          /\ edits'[e].server = "waiting" /\ edits'[e].page = "saving"
        BY <2>2, <2>3, <2>4 DEF Edit
    <2>. QED BY <1>2, <2>1, <2>2, <2>5
<1>4. ASSUME NEW e \in Edits, BeginImport(e) PROVE EditsCarry'
    <2>1. edits' \in [Edits -> Edit]
        BY <1>4, EditStepTyped
    <2>2. /\ \A f \in Edits \ {e} : edits'[f] = edits[f]
          /\ edits'[e] = [edits[e] EXCEPT !.kind = "import"]
          /\ edits[e].kind = "none"
        BY <1>4 DEF BeginImport, NextEdit, TypeOK
    <2>3. edits[e] \in Edit
        BY DEF TypeOK
    <2>. QED BY <1>2, <2>1, <2>2, <2>3 DEF EditsCarry, Edit
<1>5. ASSUME NEW e \in Edits, CommitEdit(e) PROVE EditsCarry'
    <2>1. edits' \in [Edits -> Edit]
        BY <1>5, EditStepTyped
    <2>2. /\ \A f \in Edits \ {e} : edits'[f] = edits[f]
          /\ edits'[e] = [edits[e] EXCEPT !.server = "committed"]
          /\ edits[e].kind # "none" /\ edits[e].server = "waiting"
        BY <1>5 DEF CommitEdit, TypeOK
    <2>3. edits[e] \in Edit
        BY DEF TypeOK
    <2>. QED BY <1>2, <2>1, <2>2, <2>3 DEF EditsCarry, Edit
<1>6. ASSUME NEW e \in Edits, AnswerEdit(e) PROVE EditsCarry'
    <2>1. edits' \in [Edits -> Edit]
        BY <1>6, EditStepTyped
    <2>2. /\ \A f \in Edits \ {e} : edits'[f] = edits[f]
          /\ edits'[e] = [edits[e] EXCEPT !.server = "answered",
                !.portfolio = IF edits[e].kind = "import" THEN holdings ELSE NoAnswer,
                !.watchlist = IF edits[e].kind = "import" THEN NoItems ELSE watchRows]
          /\ edits[e].kind # "none" /\ edits[e].page = "saving"
        BY <1>6 DEF AnswerEdit, Saving, TypeOK
    <2>3. edits[e] \in Edit /\ holdings \in Held /\ watchRows \subseteq Items
        BY DEF TypeOK
    <2>4. /\ edits'[e].kind = edits[e].kind /\ edits'[e].item = edits[e].item
          /\ edits'[e].server = "answered" /\ edits'[e].page = "saving"
          /\ edits[e].kind = "import" => edits'[e].portfolio = holdings
          /\ edits[e].kind # "import" => edits'[e].watchlist = watchRows
        BY <2>2, <2>3 DEF Edit
    <2>5. edits[e].kind \in WatchKinds => edits[e].item \in Items
        BY <2>2 DEF EditsCarry
    <2>. QED BY <1>2, <2>1, <2>2, <2>3, <2>4, <2>5
<1>7. ASSUME NEW e \in Edits, EditSaved(e) PROVE EditsCarry'
    <2>1. edits' \in [Edits -> Edit]
        BY <1>7, EditStepTyped
    <2>2. /\ \A f \in Edits \ {e} : edits'[f] = edits[f]
          /\ edits'[e] = [edits[e] EXCEPT !.page = "saved", !.item = NoAnswer,
                                          !.portfolio = NoAnswer, !.watchlist = NoItems]
          /\ edits[e].kind # "none" /\ edits[e].server = "answered"
        BY <1>7 DEF EditSaved, Saving, TypeOK
    <2>3. edits[e] \in Edit
        BY DEF TypeOK
    <2>. QED BY <1>2, <2>1, <2>2, <2>3 DEF EditsCarry, Edit
<1>8. ASSUME NEW e \in Edits, EditFailed(e) PROVE EditsCarry'
    <2>1. edits' \in [Edits -> Edit]
        BY <1>8, EditStepTyped
    <2>2. /\ \A f \in Edits \ {e} : edits'[f] = edits[f]
          /\ edits'[e] = [edits[e] EXCEPT !.page = "failed", !.portfolio = NoAnswer,
                                          !.watchlist = NoItems]
          /\ edits[e].kind # "none" /\ edits[e].page = "saving"
        BY <1>8 DEF EditFailed, Saving, TypeOK
    <2>3. edits[e] \in Edit
        BY DEF TypeOK
    <2>. QED BY <1>2, <2>1, <2>2, <2>3 DEF EditsCarry, Edit
<1>9. CASE BridgeSession \/ (\E v \in View : SelectView(v))
    BY <1>1, <1>9 DEF BridgeSession, SelectView
<1>10. CASE \E l \in Loads : ServePortfolio(l) \/ ServeWatchlist(l) \/ Settle(l)
    BY <1>1, <1>10 DEF ServePortfolio, ServeWatchlist, Settle, SettleAnswered, SettleRejected,
                       SettleDenied
<1>11. CASE UNCHANGED vars
    BY <1>1, <1>11 DEF vars
<1>. QED BY <1>3, <1>4, <1>5, <1>6, <1>7, <1>8, <1>9, <1>10, <1>11 DEF Next

LEMMA TypeInit == Init => Typed
<1>. SUFFICES ASSUME Init PROVE Typed
    OBVIOUS
<1>1. view \in View
    BY TerminalAssumption DEF Init, View
<1>2. screen \in [valuation: Figures, snapshot: Figures, satisfied: BOOLEAN]
    BY <1>1 DEF Init, Missing, Figure, Figures, Kinds, View
<1>3. loads \in [Loads -> Load]
    BY NoLoadTyped DEF Init
<1>4. NoEdit \in Edit
    BY DEF NoEdit, Edit, Held
<1>5. /\ requestId \in 0..MaxRequests
      /\ watchlist \subseteq Items /\ watchRows \subseteq Items
      /\ holdings \in Held /\ portfolio \in Portfolio
    BY TerminalAssumption DEF Init, Held, Portfolio
<1>6. TypeOK
    BY <1>1, <1>2, <1>3, <1>4, <1>5 DEF Init, TypeOK
<1>7. EditsCarry
    BY DEF Init, EditsCarry, NoEdit, Saving, WatchKinds
<1>. QED BY <1>6, <1>7 DEF Typed

LEMMA TypeStep == Typed /\ [Next]_vars => Typed'
<1>. SUFFICES ASSUME TypeOK, EditsCarry, [Next]_vars PROVE TypeOK'
    BY EditsCarryStep DEF Typed
<1>1. CASE BridgeSession
    <2>1. PICK s \in {"in", "out"}, v \in View : session' = s /\ LoadEffect(v, s)
        BY <1>1 DEF BridgeSession, TypeOK
    <2>2. /\ requestId' \in 0..MaxRequests /\ status' \in LoadStatus
          /\ loads' \in [Loads -> Load]
        BY <2>1, LoadEffectTyped
    <2>. QED BY <1>1, <2>1, <2>2 DEF BridgeSession, TypeOK, LoadStatus, server
<1>2. ASSUME NEW v \in View, SelectView(v) PROVE TypeOK'
    <2>1. PICK s : s = session /\ LoadEffect(v, s)
        BY <1>2 DEF SelectView
    <2>2. /\ requestId' \in 0..MaxRequests /\ status' \in LoadStatus
          /\ loads' \in [Loads -> Load]
        BY <2>1, LoadEffectTyped
    <2>. QED BY <1>2, <2>2 DEF SelectView, TypeOK, LoadStatus, server
<1>3. ASSUME NEW l \in Loads, ServePortfolio(l) \/ ServeWatchlist(l) PROVE TypeOK'
    <2>1. SampleItems \subseteq Items /\ Empty \in Portfolio /\ Held \subseteq Portfolio
        BY TerminalAssumption DEF Portfolio
    <2>2. loads' \in [Loads -> Load]
        BY <1>3, <2>1 DEF ServePortfolio, ServeWatchlist, TypeOK, Load
    <2>. QED BY <1>3, <2>2 DEF ServePortfolio, ServeWatchlist, TypeOK, page, server
<1>4. ASSUME NEW l \in Loads, SettleAnswered(l) \/ SettleRejected(l) PROVE TypeOK'
    <2>1. loads' \in [Loads -> Load]
        BY <1>4, NoLoadTyped DEF SettleAnswered, SettleRejected, TypeOK
    <2>2. UNCHANGED <<api, session, view, touched, requestId, edits, server, disturbed>>
        BY <1>4 DEF SettleAnswered, SettleRejected
    <2>. QED BY <1>4, <2>1, <2>2, SettledTyped DEF TypeOK, LoadStatus, server
<1>5. ASSUME NEW l \in Loads, SettleDenied(l) PROVE TypeOK'
    <2>1. Unmounted \in [Loads -> Load]
        <3>1. ASSUME NEW k \in Loads
              PROVE  [loads[k] EXCEPT !.mounted = FALSE] \in Load
            BY ZenonT(60) DEF TypeOK, Load
        <3>. QED BY <3>1 DEF Unmounted
    <2>2. loads' \in [Loads -> Load]
        BY <1>5, <2>1, NoLoadTyped DEF SettleDenied, TypeOK
    <2>. QED BY <1>5, <2>2 DEF SettleDenied, TypeOK, server
<1>6. ASSUME NEW e \in Edits, NEW kind \in WatchKinds, NEW item \in Items,
             BeginWatchlistEdit(e, kind, item)
      PROVE  TypeOK'
    <2>1. edits' \in [Edits -> Edit]
        BY <1>6, EditStepTyped
    <2>2. disturbed' \in BOOLEAN
        BY <1>6 DEF BeginWatchlistEdit
    <2>. QED BY <1>6, <2>1, <2>2 DEF BeginWatchlistEdit, TypeOK, server
<1>7. ASSUME NEW e \in Edits, BeginImport(e) PROVE TypeOK'
    <2>1. edits' \in [Edits -> Edit]
        BY <1>7, EditStepTyped
    <2>. QED BY <1>7, <2>1 DEF BeginImport, TypeOK, page, server
<1>8. ASSUME NEW e \in Edits, CommitEdit(e) PROVE TypeOK'
    <2>1. edits' \in [Edits -> Edit]
        BY <1>8, EditStepTyped
    <2>2. holdings' \in Held
        BY <1>8 DEF CommitEdit, TypeOK, Held
    <2>3. edits[e].kind \in WatchKinds => edits[e].item \in Items
        BY <1>8 DEF CommitEdit, EditsCarry
    <2>4. watchRows' \subseteq Items
        <3>1. \/ edits[e].kind = "add" /\ watchRows' = watchRows \union {edits[e].item}
              \/ edits[e].kind = "remove" /\ watchRows' = watchRows \ {edits[e].item}
              \/ watchRows' = watchRows
            BY <1>8 DEF CommitEdit
        <3>. QED BY <2>3, <3>1 DEF TypeOK, WatchKinds
    <2>. QED BY <1>8, <2>1, <2>2, <2>4 DEF CommitEdit, TypeOK, page
<1>9. ASSUME NEW e \in Edits, AnswerEdit(e) PROVE TypeOK'
    <2>1. edits' \in [Edits -> Edit]
        BY <1>9, EditStepTyped
    <2>. QED BY <1>9, <2>1 DEF AnswerEdit, TypeOK, page, server
<1>10. ASSUME NEW e \in Edits, EditSaved(e) PROVE TypeOK'
    <2>1. edits' \in [Edits -> Edit]
        BY <1>10, EditStepTyped
    <2>2. /\ edits[e].kind = "import" => edits[e].portfolio \in Held
          /\ edits[e].kind \in WatchKinds =>
                edits[e].watchlist \subseteq Items /\ edits[e].item \in Items
        BY <1>10 DEF EditSaved, Saving, EditsCarry, WatchKinds
    <2>3. portfolio' \in Portfolio
        BY <1>10, <2>2 DEF EditSaved, Portfolio, TypeOK
    <2>4. watchlist' \subseteq Items
        <3>1. \/ edits[e].kind = "add" /\ watchlist' = edits[e].watchlist \union {edits[e].item}
              \/ edits[e].kind = "remove" /\ watchlist' = edits[e].watchlist \ {edits[e].item}
              \/ watchlist' = watchlist
            BY <1>10 DEF EditSaved
        <3>. QED BY <2>2, <3>1 DEF TypeOK, WatchKinds
    <2>. QED BY <1>10, <2>1, <2>3, <2>4 DEF EditSaved, TypeOK, server
<1>11. ASSUME NEW e \in Edits, EditFailed(e) PROVE TypeOK'
    <2>1. edits' \in [Edits -> Edit]
        BY <1>11, EditStepTyped
    <2>2. disturbed' \in BOOLEAN
        BY <1>11 DEF EditFailed, TypeOK
    <2>. QED BY <1>11, <2>1, <2>2 DEF EditFailed, TypeOK, page, server
<1>12. CASE UNCHANGED vars
    BY <1>12 DEF vars, page, server, TypeOK
<1>. QED BY <1>1, <1>2, <1>3, <1>4, <1>5, <1>6, <1>7, <1>8, <1>9, <1>10, <1>11, <1>12
         DEF Next, Settle

\* The page's variables, the requests and the owner's rows keep their types.
THEOREM TypeCorrect == Spec => []TypeOK
<1>1. Init => Typed
    BY TypeInit
<1>2. Typed /\ [Next]_vars => Typed'
    BY TypeStep
<1>3. Typed => TypeOK
    BY DEF Typed
<1>. QED BY <1>1, <1>2, <1>3, PTL DEF Spec

-----------------------------------------------------------------------------
\* A load that has not been unmounted is a load of the view now selected.
LoadsOfView ==
    \A l \in Loads : loads[l].mounted => loads[l].view = view

CurrentInv == Typed /\ LoadsOfView /\ LiveIsCurrent

\* The effect unmounts all loads but the one it starts for the view.
LEMMA LoadEffectOfView ==
    ASSUME TypeOK, NEW v \in View, NEW s, LoadEffect(v, s), view' = v
    PROVE  /\ LoadsOfView'
           /\ s = "in" => status' = "loading"
<1>1. \A l \in Loads : ~Unmounted[l].mounted
    BY DEF Unmounted, TypeOK, Load
<1>2. Unmounted = [l \in Loads |-> Unmounted[l]]
    BY DEF Unmounted
<1>3. CASE s = "in"
    <2>1. [NoLoad EXCEPT !.phase = "waiting", !.mounted = TRUE, !.view = v].view = v
        BY DEF NoLoad
    <2>. QED BY <1>1, <1>2, <1>3, <2>1 DEF LoadEffect, LoadsOfView
<1>4. CASE s # "in"
    BY <1>1, <1>4 DEF LoadEffect, LoadsOfView
<1>. QED BY <1>3, <1>4

LEMMA CurrentStep == CurrentInv /\ [Next]_vars => CurrentInv'
<1>. SUFFICES ASSUME Typed, TypeOK, LoadsOfView, LiveIsCurrent, [Next]_vars
              PROVE  LoadsOfView' /\ LiveIsCurrent'
    BY TypeStep DEF CurrentInv, Typed
<1>1. CASE BridgeSession
    <2>1. PICK s \in {"in", "out"}, v \in View :
             session' = s /\ v = view /\ view' = v /\ LoadEffect(v, s)
        BY <1>1 DEF BridgeSession, TypeOK
    <2>2. LoadsOfView' /\ (s = "in" => status' = "loading")
        BY <2>1, LoadEffectOfView
    <2>. QED BY <2>1, <2>2 DEF LiveIsCurrent
<1>2. ASSUME NEW v \in View, SelectView(v) PROVE LoadsOfView' /\ LiveIsCurrent'
    <2>1. PICK s : s = session /\ LoadEffect(v, s)
        BY <1>2 DEF SelectView
    <2>2. view' = v /\ session' = session
        BY <1>2 DEF SelectView
    <2>3. LoadsOfView' /\ (s = "in" => status' = "loading")
        BY <2>1, <2>2, LoadEffectOfView
    <2>. QED BY <2>1, <2>2, <2>3 DEF LiveIsCurrent
<1>3. ASSUME NEW l \in Loads, ServePortfolio(l) \/ ServeWatchlist(l)
      PROVE  LoadsOfView' /\ LiveIsCurrent'
    <2>1. UNCHANGED <<view, session, status, screen>>
        BY <1>3 DEF ServePortfolio, ServeWatchlist, page
    <2>2. ASSUME NEW k \in Loads
          PROVE  loads'[k].mounted = loads[k].mounted /\ loads'[k].view = loads[k].view
        BY <1>3 DEF ServePortfolio, ServeWatchlist, TypeOK, Load
    <2>. QED BY <2>1, <2>2 DEF LoadsOfView, LiveIsCurrent
<1>4. ASSUME NEW l \in Loads, SettleAnswered(l) \/ SettleRejected(l)
      PROVE  LoadsOfView' /\ LiveIsCurrent'
    <2>1. /\ UNCHANGED <<view, session>>
          /\ loads' = [loads EXCEPT ![l] = NoLoad]
        BY <1>4 DEF SettleAnswered, SettleRejected
    <2>2. LoadsOfView'
        BY <2>1 DEF LoadsOfView, NoLoad, TypeOK
    <2>3. CASE UNCHANGED <<screen, status>>
        BY <2>1, <2>2, <2>3 DEF LiveIsCurrent
    <2>4. CASE status' # "live"
        BY <2>2, <2>4 DEF LiveIsCurrent
    <2>5. CASE ~UNCHANGED <<screen, status>> /\ status' = "live"
        <3>1. PICK valuation, facts, ready :
                 IsCurrentRequest(l) /\ SettleLive(l, valuation, facts, ready)
            BY <1>4, <2>5 DEF SettleAnswered, SettleRejected, SettleUnsafe
        <3>2. loads[l].view = view
            BY <3>1 DEF IsCurrentRequest, LoadsOfView
        <3>. QED BY <2>1, <2>2, <3>1, <3>2 DEF SettleLive, Figure, LiveIsCurrent
    <2>. QED BY <2>2, <2>3, <2>4, <2>5
<1>5. ASSUME NEW l \in Loads, SettleDenied(l) PROVE LoadsOfView' /\ LiveIsCurrent'
    <2>1. UNCHANGED <<view, screen, status>> /\ (session' = "out" \/ session' = session)
        BY <1>5 DEF SettleDenied
    <2>2. ASSUME NEW k \in Loads
          PROVE  loads'[k].mounted => loads[k].mounted /\ loads'[k].view = loads[k].view
        <3>1. ~NoLoad.mounted /\ \A j \in Loads : ~Unmounted[j].mounted
            BY DEF NoLoad, Unmounted, TypeOK, Load
        <3>2. \/ loads' = [Unmounted EXCEPT ![l] = NoLoad]
              \/ loads' = [loads EXCEPT ![l] = NoLoad]
            BY <1>5 DEF SettleDenied
        <3>3. Unmounted = [j \in Loads |-> Unmounted[j]]
            BY DEF Unmounted
        <3>. QED BY <3>1, <3>2, <3>3 DEF TypeOK
    <2>. QED BY <2>1, <2>2 DEF LoadsOfView, LiveIsCurrent
<1>6. ASSUME NEW e \in Edits,
             \/ \E kind \in WatchKinds, item \in Items : BeginWatchlistEdit(e, kind, item)
             \/ BeginImport(e) \/ CommitEdit(e) \/ AnswerEdit(e)
             \/ EditSaved(e) \/ EditFailed(e)
      PROVE  LoadsOfView' /\ LiveIsCurrent'
    <2>1. UNCHANGED <<view, session, status, screen, loads>>
        BY <1>6 DEF BeginWatchlistEdit, BeginImport, CommitEdit, AnswerEdit, EditSaved,
                    EditFailed, page
    <2>. QED BY <2>1 DEF LoadsOfView, LiveIsCurrent
<1>7. CASE UNCHANGED vars
    BY <1>7 DEF vars, page, LoadsOfView, LiveIsCurrent
<1>. QED BY <1>1, <1>2, <1>3, <1>4, <1>5, <1>6, <1>7 DEF Next, Settle

\* In whatever order the loads finish, and however many there are, the figures under
\* a "live" pill are those of the view now selected.
THEOREM LiveFiguresAreCurrent == Spec => []LiveIsCurrent
<1>1. Init => CurrentInv
    <2>1. Init => LoadsOfView
        BY DEF Init, LoadsOfView, NoLoad
    <2>2. Init => LiveIsCurrent
        BY DEF Init, LiveIsCurrent
    <2>. QED BY <2>1, <2>2, TypeInit DEF CurrentInv
<1>2. CurrentInv /\ [Next]_vars => CurrentInv'
    BY CurrentStep
<1>3. CurrentInv => LiveIsCurrent
    BY DEF CurrentInv
<1>. QED BY <1>1, <1>2, <1>3, PTL DEF Spec

-----------------------------------------------------------------------------
\* Figures of a KR ticker with a satisfied readiness come from source rows or from
\* the cache, whichever ticker is selected.
KrFiguresSourced ==
    screen.snapshot.view.ticker \in KrTickers /\ screen.satisfied =>
        screen.valuation.kind \in {"source", "cache"}

LEMMA KrStep == Typed /\ KrFiguresSourced /\ [Next]_vars => KrFiguresSourced'
<1>. SUFFICES ASSUME TypeOK, KrFiguresSourced, [Next]_vars PROVE KrFiguresSourced'
    BY DEF Typed
<1>1. CASE UNCHANGED screen
    BY <1>1 DEF KrFiguresSourced
<1>2. CASE ~screen'.satisfied
    BY <1>2 DEF KrFiguresSourced
<1>3. ASSUME NEW l \in Loads, NEW valuation \in ValuationKinds(loads[l].view.ticker), NEW facts,
             NEW ready, ~Unsafe(loads[l].view.ticker, valuation, facts),
             SettleLive(l, valuation, facts, ready)
      PROVE  KrFiguresSourced'
    <2>1. /\ screen'.snapshot.view = loads[l].view
          /\ screen'.valuation.kind = Displayed(valuation)
        BY <1>3 DEF SettleLive, Figure
    <2>2. loads[l].view.ticker \in KrTickers => valuation \in {"source", "cache"}
        BY <1>3, AnsweredKinds DEF Unsafe, Kinds
    <2>. QED BY <2>1, <2>2 DEF KrFiguresSourced, Displayed
<1>4. ASSUME NEW l \in Loads, SettleAnswered(l) PROVE KrFiguresSourced'
    BY <1>1, <1>2, <1>3, <1>4 DEF SettleAnswered, SettleUnsafe, Missing
<1>5. ASSUME NEW l \in Loads, SettleRejected(l) PROVE KrFiguresSourced'
    BY <1>1, <1>2, <1>5 DEF SettleRejected, Missing, SampleScreen
<1>. QED
    BY <1>1, <1>4, <1>5
    DEF Next, Settle, BridgeSession, SelectView, ServePortfolio, ServeWatchlist, SettleDenied,
        BeginWatchlistEdit, BeginImport, CommitEdit, AnswerEdit, EditSaved, EditFailed, page, vars

\* In every deployment, the valuation rendered for a KR priority ticker is sourced.
THEOREM KrIsSourced == Spec => []KrShowsNoFixture
<1>1. Init => Typed /\ KrFiguresSourced
    BY TypeInit DEF Init, KrFiguresSourced, Missing
<1>2. Typed /\ KrFiguresSourced /\ [Next]_vars => (Typed /\ KrFiguresSourced)'
    BY TypeStep, KrStep
<1>3. KrFiguresSourced => KrShowsNoFixture
    BY DEF KrFiguresSourced, KrShowsNoFixture, DataMatchesTicker
<1>. QED BY <1>1, <1>2, <1>3, PTL DEF Spec

-----------------------------------------------------------------------------
\* The server has, for the watchlist edit under way, the item added or removed once
\* it has committed, and has answered with the rows it still holds.
Applied(e) ==
    /\ edits[e].server # "waiting" => (edits[e].item \in watchRows <=> edits[e].kind = "add")
    /\ edits[e].server = "answered" => edits[e].watchlist = watchRows

WatchEdit(e) == edits[e].kind \in WatchKinds

\* As long as watchlist edits follow one another and succeed, one at most is under
\* way, and the server has no other to apply.
EditsFollow ==
    ~disturbed =>
        /\ \A e \in Edits : WatchEdit(e) => edits[e].page # "failed"
        /\ \A e, f \in Edits :
              WatchEdit(e) /\ Saving(e) /\ WatchEdit(f) /\ Saving(f) => e = f
        /\ \A e \in Edits : WatchEdit(e) /\ Saving(e) => Applied(e)

\* Before the first watchlist edit the rows are what every load has been answered.
LoadsUntouched ==
    ~touched =>
        /\ \A e \in Edits : ~WatchEdit(e)
        /\ \A l \in Loads : loads[l].watchlist \in {NoItems, watchRows, SampleItems}

WatchInv == Typed /\ EditsFollow /\ LoadsUntouched /\ EditedWatchlistIsOwners

\* A step that does not touch the edits and the rows keeps what is said of them.
LEMMA EditsFrame ==
    ASSUME WatchInv, UNCHANGED <<edits, watchRows, touched, disturbed>>
    PROVE  /\ EditsFollow'
           /\ (\A l \in Loads :
                  loads'[l].watchlist \in {loads[l].watchlist, NoItems, watchRows, SampleItems})
                 => LoadsUntouched'
           /\ (~disturbed /\ ~WatchSaving => watchlist' \in {watchlist, watchRows, SampleItems})
                 => EditedWatchlistIsOwners'
<1>1. EditsFollow'
    BY DEF WatchInv, EditsFollow, WatchEdit, Saving, Applied
<1>2. ASSUME \A l \in Loads :
                loads'[l].watchlist \in {loads[l].watchlist, NoItems, watchRows, SampleItems}
      PROVE  LoadsUntouched'
    BY <1>2 DEF WatchInv, LoadsUntouched, WatchEdit
<1>3. ASSUME ~disturbed /\ ~WatchSaving => watchlist' \in {watchlist, watchRows, SampleItems}
      PROVE  EditedWatchlistIsOwners'
    BY <1>3 DEF WatchInv, EditedWatchlistIsOwners, WatchSaving, Saving
<1>. QED BY <1>1, <1>2, <1>3

\* So does a step of an edit of the portfolio.
LEMMA ImportFrame ==
    ASSUME WatchInv, NEW e \in Edits, ~WatchEdit(e), ~WatchEdit(e)',
           \A f \in Edits \ {e} : edits'[f] = edits[f],
           UNCHANGED <<loads, watchRows, touched, watchlist>>, disturbed' = disturbed
    PROVE  WatchInv' \/ ~Typed'
<1>1. ASSUME NEW f \in Edits
      PROVE  /\ WatchEdit(f)' <=> WatchEdit(f)
             /\ WatchEdit(f) => edits'[f] = edits[f]
    BY DEF WatchEdit
<1>2. EditsFollow'
    BY <1>1 DEF WatchInv, EditsFollow, Saving, Applied
<1>3. LoadsUntouched'
    BY <1>1 DEF WatchInv, LoadsUntouched
<1>4. WatchSaving' <=> WatchSaving
    BY <1>1 DEF WatchSaving, WatchEdit, Saving
<1>. QED BY <1>2, <1>3, <1>4 DEF WatchInv, EditedWatchlistIsOwners

\* The watchlists that the loads hold after the load effect has run.
LEMMA LoadEffectWatchlists ==
    ASSUME TypeOK, NEW v, NEW s, LoadEffect(v, s), NEW l \in Loads
    PROVE  loads'[l].watchlist \in {loads[l].watchlist, NoItems}
<1>1. \A k \in Loads : Unmounted[k].watchlist = loads[k].watchlist
    BY DEF Unmounted, TypeOK, Load
<1>2. Unmounted = [k \in Loads |-> Unmounted[k]]
    BY DEF Unmounted
<1>3. [NoLoad EXCEPT !.phase = "waiting", !.mounted = TRUE, !.view = v].watchlist = NoItems
    BY DEF NoLoad
<1>4. CASE s = "in"
    BY <1>1, <1>2, <1>3, <1>4 DEF LoadEffect
<1>5. CASE s # "in"
    BY <1>1, <1>5 DEF LoadEffect
<1>. QED BY <1>4, <1>5

LEMMA WatchStep == WatchInv /\ [Next]_vars => WatchInv'
<1>. SUFFICES ASSUME WatchInv, [Next]_vars
              PROVE  EditsFollow' /\ LoadsUntouched' /\ EditedWatchlistIsOwners'
    BY TypeStep DEF WatchInv
<1>. TypeOK /\ EditsCarry /\ Typed'
    BY TypeStep DEF WatchInv, Typed
<1>. DEFINE Goal == EditsFollow' /\ LoadsUntouched' /\ EditedWatchlistIsOwners'
<1>1. CASE BridgeSession
    <2>1. PICK s, v : session' = s /\ v = view /\ LoadEffect(v, s)
        BY <1>1 DEF BridgeSession
    <2>2. UNCHANGED <<edits, watchRows, touched, disturbed, watchlist>>
        BY <1>1 DEF BridgeSession, server
    <2>. QED BY <2>1, <2>2, LoadEffectWatchlists, EditsFrame
<1>2. ASSUME NEW v \in View, SelectView(v) PROVE Goal
    <2>1. PICK s : s = session /\ LoadEffect(v, s)
        BY <1>2 DEF SelectView
    <2>2. UNCHANGED <<edits, watchRows, touched, disturbed, watchlist>>
        BY <1>2 DEF SelectView, server
    <2>. QED BY <2>1, <2>2, LoadEffectWatchlists, EditsFrame
<1>3. ASSUME NEW l \in Loads, ServePortfolio(l) \/ ServeWatchlist(l) PROVE Goal
    <2>1. UNCHANGED <<edits, watchRows, touched, disturbed, watchlist>>
        BY <1>3 DEF ServePortfolio, ServeWatchlist, page, server
    <2>2. ASSUME NEW k \in Loads
          PROVE  loads'[k].watchlist \in {loads[k].watchlist, watchRows, SampleItems}
        BY SMTT(40), <1>3 DEF ServePortfolio, ServeWatchlist, TypeOK, Load
    <2>. QED BY <2>1, <2>2, EditsFrame
<1>4. ASSUME NEW l \in Loads, Settle(l) PROVE Goal
    <2>1. UNCHANGED <<edits, watchRows, touched, disturbed>>
        BY <1>4 DEF Settle, SettleAnswered, SettleRejected, SettleDenied, server
    <2>2. ASSUME NEW k \in Loads
          PROVE  loads'[k].watchlist \in {loads[k].watchlist, NoItems}
        <3>1. /\ NoLoad.watchlist = NoItems
              /\ \A j \in Loads : Unmounted[j].watchlist = loads[j].watchlist
            BY DEF NoLoad, Unmounted, TypeOK, Load
        <3>2. \/ loads' = [Unmounted EXCEPT ![l] = NoLoad]
              \/ loads' = [loads EXCEPT ![l] = NoLoad]
            BY <1>4 DEF Settle, SettleAnswered, SettleRejected, SettleDenied
        <3>3. Unmounted = [j \in Loads |-> Unmounted[j]]
            BY DEF Unmounted
        <3>. QED BY <3>1, <3>2, <3>3 DEF TypeOK
    <2>3. watchlist' \in {watchlist, watchRows, SampleItems}
        <3>1. CASE SettleRejected(l) \/ SettleDenied(l)
            BY <3>1 DEF SettleRejected, SettleDenied
        <3>2. CASE SettleAnswered(l)
            <4>1. \/ watchlist' = watchlist
                  \/ watchlist' = IF touched THEN watchlist ELSE loads[l].watchlist
                BY <3>2 DEF SettleAnswered, SettleUnsafe, SettleLive
            <4>2. ~touched => loads[l].watchlist \in {watchRows, SampleItems}
                BY <3>2 DEF SettleAnswered, Answered, WatchInv, LoadsUntouched
            <4>. QED BY <4>1, <4>2
        <3>. QED BY <1>4, <3>1, <3>2 DEF Settle
    <2>. QED BY <2>1, <2>2, <2>3, EditsFrame
<1>5. ASSUME NEW e \in Edits, NEW kind \in WatchKinds, NEW item \in Items,
             BeginWatchlistEdit(e, kind, item)
      PROVE  Goal
    <2>1. /\ \A f \in Edits \ {e} : edits'[f] = edits[f]
          /\ edits'[e].kind = kind
          /\ edits'[e].server = "waiting" /\ edits'[e].page = "saving"
        BY <1>5 DEF BeginWatchlistEdit, NextEdit, TypeOK, EditsCarry, Edit
    <2>2. touched' /\ disturbed' = (disturbed \/ WatchSaving) /\ watchRows' = watchRows
        BY <1>5 DEF BeginWatchlistEdit, server
    <2>3. Saving(e)' /\ WatchEdit(e)' /\ Applied(e)'
        BY <2>1 DEF Saving, WatchEdit, WatchKinds, Applied
    <2>4. WatchSaving'
        BY <2>3 DEF WatchSaving, WatchEdit
    <2>5. ASSUME ~disturbed', NEW f \in Edits, WatchEdit(f)', Saving(f)' PROVE f = e
        BY <2>1, <2>2, <2>5 DEF WatchSaving, Saving, WatchEdit
    <2>6. ASSUME ~disturbed', NEW f \in Edits, WatchEdit(f)' PROVE edits'[f].page # "failed"
        BY <2>1, <2>2, <2>6 DEF WatchInv, EditsFollow, WatchEdit
    <2>. QED BY <2>2, <2>3, <2>4, <2>5, <2>6 DEF EditsFollow, LoadsUntouched,
             EditedWatchlistIsOwners
<1>6. ASSUME NEW e \in Edits, BeginImport(e) PROVE Goal
    <2>1. /\ \A f \in Edits \ {e} : edits'[f] = edits[f]
          /\ ~WatchEdit(e) /\ ~WatchEdit(e)'
          /\ UNCHANGED <<loads, watchRows, touched, watchlist, disturbed>>
        BY <1>6 DEF BeginImport, NextEdit, WatchEdit, WatchKinds, TypeOK, Edit, page, server
    <2>. QED BY <2>1, ImportFrame DEF WatchInv
<1>7. ASSUME NEW e \in Edits, CommitEdit(e) PROVE Goal
    <2>1. /\ \A f \in Edits \ {e} : edits'[f] = edits[f]
          /\ edits'[e] = [edits[e] EXCEPT !.server = "committed"]
          /\ edits[e] \in Edit /\ edits[e].kind # "none" /\ edits[e].server = "waiting"
          /\ UNCHANGED <<loads, touched, watchlist, disturbed>>
        BY <1>7 DEF CommitEdit, TypeOK, page
    <2>2. /\ edits'[e].kind = edits[e].kind /\ edits'[e].page = edits[e].page
          /\ edits'[e].item = edits[e].item /\ edits'[e].server = "committed"
        BY <2>1 DEF Edit
    <2>3. CASE ~WatchEdit(e)
        <3>1. watchRows' = watchRows /\ ~WatchEdit(e)'
            BY <1>7, <2>2, <2>3 DEF CommitEdit, WatchEdit, WatchKinds
        <3>. QED BY <2>1, <2>3, <3>1, ImportFrame DEF WatchInv
    <2>4. CASE WatchEdit(e)
        <3>1. touched /\ touched'
            BY <2>1, <2>4 DEF WatchInv, LoadsUntouched
        <3>2. LoadsUntouched'
            BY <3>1 DEF LoadsUntouched
        <3>3. CASE disturbed
            BY <2>1, <3>2, <3>3 DEF EditsFollow, EditedWatchlistIsOwners
        <3>4. CASE ~disturbed
            <4>1. Saving(e)
                BY <2>1, <2>4, <3>4 DEF WatchInv, EditsFollow, EditsCarry, Saving, Edit
            <4>2. WatchEdit(e)' /\ Saving(e)'
                BY <2>2, <2>4, <4>1 DEF WatchEdit, Saving
            <4>3. Applied(e)'
                <5>1. (edits[e].item \in watchRows') <=> (edits[e].kind = "add")
                    BY <1>7, <2>4 DEF CommitEdit, WatchEdit, WatchKinds
                <5>. QED BY <2>2, <5>1 DEF Applied
            <4>4. ASSUME NEW f \in Edits, WatchEdit(f)', Saving(f)' PROVE f = e
                BY <2>1, <2>4, <3>4, <4>1, <4>4 DEF WatchInv, EditsFollow, WatchEdit, Saving
            <4>5. ASSUME NEW f \in Edits, WatchEdit(f)' PROVE edits'[f].page # "failed"
                <5>1. CASE f = e
                    BY <2>2, <4>1, <5>1 DEF Saving
                <5>2. CASE f # e
                    BY <2>1, <3>4, <4>5, <5>2 DEF WatchInv, EditsFollow, WatchEdit
                <5>. QED BY <5>1, <5>2
            <4>6. WatchSaving'
                BY <4>2 DEF WatchSaving, WatchEdit
            <4>. QED BY <3>2, <4>2, <4>3, <4>4, <4>5, <4>6 DEF EditsFollow,
                     EditedWatchlistIsOwners
        <3>. QED BY <3>3, <3>4
    <2>. QED BY <2>3, <2>4
<1>8. ASSUME NEW e \in Edits, AnswerEdit(e) PROVE Goal
    <2>1. /\ \A f \in Edits \ {e} : edits'[f] = edits[f]
          /\ edits[e] \in Edit /\ Saving(e) /\ edits[e].server = "committed"
          /\ UNCHANGED <<loads, watchRows, touched, watchlist, disturbed>>
        BY <1>8 DEF AnswerEdit, TypeOK, page, server
    <2>2. /\ edits'[e].kind = edits[e].kind /\ edits'[e].page = edits[e].page
          /\ edits'[e].item = edits[e].item /\ edits'[e].server = "answered"
          /\ edits[e].kind # "import" => edits'[e].watchlist = watchRows
        BY <1>8, <2>1 DEF AnswerEdit, TypeOK, Edit
    <2>3. CASE ~WatchEdit(e)
        BY <2>1, <2>2, <2>3, ImportFrame DEF WatchInv, WatchEdit
    <2>4. CASE WatchEdit(e)
        <3>1. touched /\ touched'
            BY <2>1, <2>4 DEF WatchInv, LoadsUntouched
        <3>2. WatchEdit(e)' /\ Saving(e)'
            BY <2>1, <2>2, <2>4 DEF WatchEdit, Saving
        <3>3. ~disturbed => Applied(e)'
            BY <2>1, <2>2, <2>4 DEF WatchInv, EditsFollow, Applied, WatchEdit, WatchKinds
        <3>4. ASSUME ~disturbed, NEW f \in Edits, WatchEdit(f)', Saving(f)' PROVE f = e
            BY <2>1, <2>4, <3>4 DEF WatchInv, EditsFollow, WatchEdit, Saving
        <3>5. ASSUME ~disturbed, NEW f \in Edits, WatchEdit(f)' PROVE edits'[f].page # "failed"
            BY <2>1, <2>2, <3>5 DEF WatchInv, EditsFollow, WatchEdit
        <3>6. WatchSaving'
            BY <3>2 DEF WatchSaving, WatchEdit
        <3>. QED BY <2>1, <3>1, <3>2, <3>3, <3>4, <3>5, <3>6 DEF EditsFollow, LoadsUntouched,
                 EditedWatchlistIsOwners
    <2>. QED BY <2>3, <2>4
<1>9. ASSUME NEW e \in Edits, EditSaved(e) PROVE Goal
    <2>1. /\ \A f \in Edits \ {e} : edits'[f] = edits[f]
          /\ edits[e] \in Edit /\ Saving(e) /\ edits[e].server = "answered"
          /\ UNCHANGED <<loads, watchRows, touched, disturbed>>
        BY <1>9 DEF EditSaved, TypeOK, server
    <2>2. edits'[e].kind = edits[e].kind /\ edits'[e].page = "saved"
        BY <1>9, <2>1 DEF EditSaved, TypeOK, Edit
    <2>3. CASE ~WatchEdit(e)
        <3>1. watchlist' = watchlist /\ ~WatchEdit(e)'
            BY <1>9, <2>2, <2>3 DEF EditSaved, WatchEdit, WatchKinds
        <3>. QED BY <2>1, <2>3, <3>1, ImportFrame DEF WatchInv
    <2>4. CASE WatchEdit(e)
        <3>1. touched /\ touched'
            BY <2>1, <2>4 DEF WatchInv, LoadsUntouched
        <3>2. ~Saving(e)'
            BY <2>2 DEF Saving
        <3>3. ASSUME ~disturbed, NEW f \in Edits, WatchEdit(f)' PROVE ~Saving(f)'
            BY <2>1, <2>4, <3>2, <3>3 DEF WatchInv, EditsFollow, WatchEdit, Saving
        <3>4. ASSUME ~disturbed, NEW f \in Edits, WatchEdit(f)' PROVE edits'[f].page # "failed"
            BY <2>1, <2>2, <3>4 DEF WatchInv, EditsFollow, WatchEdit
        <3>5. ~disturbed => watchlist' = watchRows
            <4>1. ~disturbed => Applied(e)
                BY <2>1, <2>4 DEF WatchInv, EditsFollow
            <4>2. CASE edits[e].kind = "add"
                <5>1. watchlist' = edits[e].watchlist \union {edits[e].item}
                    BY <1>9, <4>2 DEF EditSaved
                <5>. QED BY <2>1, <4>1, <4>2, <5>1 DEF Applied
            <4>3. CASE edits[e].kind = "remove"
                <5>1. watchlist' = edits[e].watchlist \ {edits[e].item}
                    BY <1>9, <4>3 DEF EditSaved
                <5>. QED BY <2>1, <4>1, <4>3, <5>1 DEF Applied
            <4>. QED BY <2>4, <4>2, <4>3 DEF WatchEdit, WatchKinds
        <3>. QED BY <2>1, <3>1, <3>3, <3>4, <3>5 DEF EditsFollow, LoadsUntouched,
                 EditedWatchlistIsOwners
    <2>. QED BY <2>3, <2>4
<1>10. ASSUME NEW e \in Edits, EditFailed(e) PROVE Goal
    <2>1. /\ \A f \in Edits \ {e} : edits'[f] = edits[f]
          /\ edits[e] \in Edit /\ edits'[e].kind = edits[e].kind
          /\ disturbed' = (disturbed \/ WatchEdit(e))
          /\ UNCHANGED <<loads, watchRows, touched, watchlist>>
        BY <1>10 DEF EditFailed, WatchEdit, TypeOK, Edit, page, server
    <2>2. CASE ~WatchEdit(e)
        BY <2>1, <2>2, ImportFrame DEF WatchInv, WatchEdit, TypeOK
    <2>3. CASE WatchEdit(e)
        <3>1. touched /\ touched'
            BY <2>1, <2>3 DEF WatchInv, LoadsUntouched
        <3>. QED BY <2>1, <2>3, <3>1 DEF EditsFollow, LoadsUntouched, EditedWatchlistIsOwners
    <2>. QED BY <2>2, <2>3
<1>11. CASE UNCHANGED vars
    <2>1. UNCHANGED <<edits, watchRows, touched, disturbed, watchlist, loads>>
        BY <1>11 DEF vars, page, server
    <2>. QED BY <2>1, EditsFrame
<1>. QED BY <1>1, <1>2, <1>3, <1>4, <1>5, <1>6, <1>7, <1>8, <1>9, <1>10, <1>11 DEF Next

\* For any number of loads and edits: watchlist edits that follow one another and
\* succeed leave on display the rows of the server, or the samples of a failed load.
THEOREM EditedWatchlistStays == Spec => []EditedWatchlistIsOwners
<1>1. Init => WatchInv
    <2>1. Init => EditsFollow
        BY DEF Init, EditsFollow, WatchEdit, NoEdit, WatchKinds
    <2>2. Init => LoadsUntouched
        BY DEF Init, LoadsUntouched, NoEdit, NoLoad, WatchEdit, WatchKinds
    <2>3. Init => EditedWatchlistIsOwners
        BY DEF Init, EditedWatchlistIsOwners
    <2>. QED BY <2>1, <2>2, <2>3, TypeInit DEF WatchInv
<1>2. WatchInv /\ [Next]_vars => WatchInv'
    BY WatchStep
<1>3. WatchInv => EditedWatchlistIsOwners
    BY DEF WatchInv
<1>. QED BY <1>1, <1>2, <1>3, PTL DEF Spec

=============================================================================
