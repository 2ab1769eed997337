--------------------------- MODULE EdgarNormalization ---------------------------
(***************************************************************************)
(* normalize-us of one ticker: the submissions and the earnings exhibits   *)
(* of its 8-K filings are fetched through a cache of files, the exhibits   *)
(* are normalised (Waterfall), and the records are written row by row.     *)
(*                                                                         *)
(* A response is cached under its URL for ever.  A command that dies while *)
(* it writes one leaves a prefix, which the next commands take for the     *)
(* response; force_refresh passes over the cached text of an index or of   *)
(* an exhibit, and reaches neither the submissions nor the ticker map (not *)
(* modelled apart: the submissions stand for both).                        *)
(***************************************************************************)
EXTENDS Waterfall

CONSTANTS
    Exhibits,        \* filing -> its exhibits, each [whole, cuts]: tables, and what a prefix gives
    FilingYear,      \* filing -> the calendar year it is filed in
    Ranges,          \* the ranges of years of the command line, <<first, last>>
    MaxCommands,     \* bound: commands
    MaxInterruptions \* bound: commands that die and requests that fail

VARIABLES
    published,    \* the filings that the SEC lists
    submissions,  \* the cached submissions: text and parsed, each [state, filings]
    index,        \* filing -> {} or {the exhibits its cached index lists}
    exhibit,      \* <<filing, i>> -> {} or {the tables of its cached text}
    command,      \* the running command
    earnings,     \* adjusted_earnings: [year, policy, filing, once, latest]
    commands, interruptions

edgarFiles == <<submissions, index, exhibit>>
edgarVars  == <<published, edgarFiles, command, earnings, commands, interruptions>>

Filings == DOMAIN Exhibits
Urls    == UNION {{<<f, i>> : i \in DOMAIN Exhibits[f]} : f \in Filings}

ASSUME EdgarAssumption ==
    /\ IsFiniteSet(Filings)
    /\ \A f \in Filings : /\ FilingYear[f] \in Int
                          /\ Exhibits[f] \in Seq({Exhibits[f][i] : i \in DOMAIN Exhibits[f]})
    /\ MaxCommands \in Nat /\ MaxInterruptions \in Nat

NoFile    == [state |-> "none", filings |-> {}]
CutFile   == [state |-> "cut", filings |-> {}]
NoCommand == [pc |-> "idle"]

EdgarInit ==
    /\ published \in SUBSET Filings
    /\ submissions = [text |-> NoFile, parsed |-> NoFile]
    /\ index = [f \in Filings |-> {}]
    /\ exhibit = [u \in Urls |-> {}]
    /\ command = NoCommand
    /\ earnings = {}
    /\ commands = 0 /\ interruptions = 0

Publish(f) ==
    /\ f \notin published
    /\ published' = published \cup {f}
    /\ UNCHANGED <<edgarFiles, command, earnings, commands, interruptions>>

-------------------------------------------------------------------------------
(* The filings and their documents, get_json and get_text.                 *)

StartNormalize(range, policy, force, persist) ==
    /\ command.pc = "idle" /\ commands < MaxCommands
    /\ commands' = commands + 1
    /\ command' = [pc |-> "list", range |-> range, policy |-> policy, force |-> force,
                   persist |-> persist, todo |-> << >>, found |-> << >>]
    /\ UNCHANGED <<published, edgarFiles, earnings, interruptions>>

InRange(filings) ==
    {f \in filings : FilingYear[f] >= command.range[1] /\ FilingYear[f] <= command.range[2]}

\* The indexes come first: an index puts its exhibits in front of the rest.
Listed(filings) ==
    command' = [command EXCEPT !.pc = "read", !.todo = SetToSeq({<<f, 0>> : f \in filings})]

Raise == command' = NoCommand

\* Parsed before: the submissions as they were then.
ListCached ==
    /\ command.pc = "list" /\ submissions.parsed.state # "none"
    /\ IF submissions.parsed.state = "cut" THEN Raise ELSE Listed(InRange(submissions.parsed.filings))
    /\ UNCHANGED <<published, edgarFiles, earnings, commands, interruptions>>

\* Otherwise the text is parsed: the cached one, or the one of a request.
ListFetched ==
    /\ command.pc = "list" /\ submissions.parsed.state = "none"
    /\ LET text == IF submissions.text.state = "none"
                   THEN [state |-> "whole", filings |-> published] ELSE submissions.text
       IN  IF text.state = "cut"
           THEN Raise /\ UNCHANGED submissions
           ELSE /\ submissions' = [text |-> text, parsed |-> text]
                /\ Listed(InRange(text.filings))
    /\ UNCHANGED <<published, index, exhibit, earnings, commands, interruptions>>

Interruption ==
    /\ interruptions < MaxInterruptions
    /\ interruptions' = interruptions + 1
    /\ command' = NoCommand
    /\ UNCHANGED <<published, earnings, commands>>

\* Death in one of the two writes.
DieListing ==
    /\ command.pc = "list" /\ submissions.parsed.state = "none"
    /\ \/ /\ submissions.text.state = "none"
          /\ submissions' = [submissions EXCEPT !.text = CutFile]
       \/ /\ submissions.text.state # "cut"
          /\ submissions' = [text |-> IF submissions.text.state = "whole" THEN submissions.text
                                      ELSE [state |-> "whole", filings |-> published],
                             parsed |-> CutFile]
    /\ Interruption
    /\ UNCHANGED <<index, exhibit>>

\* The next URL is an index, the index 0 of its filing.
NextIndex(f) ==
    command.pc = "read" /\ command.todo # << >> /\ Head(command.todo) = <<f, 0>>

\* What a read of the index finds: the cached one, or all the exhibits.
IndexText(f) ==
    IF index[f] # {} /\ ~command.force THEN The(index[f]) ELSE Len(Exhibits[f])

ReadIndex(f) ==
    /\ NextIndex(f)
    /\ LET n == IndexText(f)
       IN  /\ index' = [index EXCEPT ![f] = {n}]
           /\ command' = [command EXCEPT !.todo = [i \in 1 .. n |-> <<f, i>>] \o Tail(@)]
    /\ UNCHANGED <<published, submissions, exhibit, earnings, commands, interruptions>>

NextExhibit(u) ==
    command.pc = "read" /\ command.todo # << >> /\ Head(command.todo) = u

Fetches(cached) == cached = {} \/ command.force

\* Mutant: force_refresh stops at the index.
ExhibitTextUnforced(u) ==
    IF exhibit[u] = {} THEN Exhibits[u[1]][u[2]].whole ELSE The(exhibit[u])
ExhibitText(u) ==
    IF Fetches(exhibit[u]) THEN Exhibits[u[1]][u[2]].whole ELSE The(exhibit[u])

\* A document without a table goes to the normalisation too, which makes no record of
\* it: found has the others.
ReadExhibit(u) ==
    /\ NextExhibit(u)
    /\ LET tables == ExhibitText(u)
       IN  /\ exhibit' = [exhibit EXCEPT ![u] = {tables}]
           /\ command' = [command EXCEPT
                             !.todo = Tail(@),
                             !.found = IF tables = << >> THEN @
                                       ELSE Append(@, [filing |-> u[1], tables |-> tables])]
    /\ UNCHANGED <<published, submissions, index, earnings, commands, interruptions>>

\* A request that fails raises.  Death in a write leaves a prefix of the page: the
\* first rows of an index, some tables, rows or digits of an exhibit.
FailRequest ==
    /\ \/ \E f \in Filings : NextIndex(f) /\ Fetches(index[f])
       \/ \E u \in Urls : NextExhibit(u) /\ Fetches(exhibit[u])
       \/ command.pc = "list" /\ submissions.text.state = "none"
                              /\ submissions.parsed.state = "none"
    /\ Interruption
    /\ UNCHANGED edgarFiles

DieReading ==
    /\ \/ \E f \in Filings : \E n \in 0 .. Len(Exhibits[f]) :
            /\ NextIndex(f) /\ Fetches(index[f])
            /\ index' = [index EXCEPT ![f] = {n}]
            /\ UNCHANGED exhibit
       \/ \E u \in Urls : \E tables \in Exhibits[u[1]][u[2]].cuts :
            /\ NextExhibit(u) /\ Fetches(exhibit[u])
            /\ exhibit' = [exhibit EXCEPT ![u] = {tables}]
            /\ UNCHANGED index
    /\ Interruption
    /\ UNCHANGED submissions

-------------------------------------------------------------------------------
(* The records, _persist_normalization.                                    *)

\* A collected document says nothing of its fiscal year: it takes the last year.
RecordYear == command.range[2]

\* The records of the documents, in their order.
Normalized(found, policy) ==
    [i \in DOMAIN found |->
        [filing |-> found[i].filing, record |-> The(RecordsOf(found[i].tables, policy))]]

Normalize ==
    /\ command.pc = "read" /\ command.todo = << >>
    /\ command' = IF command.persist
                  THEN [command EXCEPT !.pc = "persist",
                                       !.todo = Normalized(command.found, command.policy)]
                  ELSE NoCommand
    /\ UNCHANGED <<published, edgarFiles, earnings, commands, interruptions>>

\* store_adjusted_earnings: a conflict updates the columns of the result, and keeps
\* the GAAP figures, the shares and the company's EPS of the first insert.
Latest(record) == [eps |-> record.eps, ni |-> record.ni, quality |-> record.quality]
Once(record)   == [stated |-> record.stated, gaap |-> record.gaap, shares |-> record.shares]

IsRowOf(row, item) ==
    row.year = RecordYear /\ row.policy = command.policy /\ row.filing = item.filing

PersistRecord ==
    /\ command.pc = "persist" /\ command.todo # << >>
    /\ LET item == Head(command.todo)
           same == {row \in earnings : IsRowOf(row, item)}
           once == IF same = {} THEN Once(item.record) ELSE The(same).once
       IN  earnings' = (earnings \ same) \cup
                         {[year |-> RecordYear, policy |-> command.policy, filing |-> item.filing,
                           once |-> once, latest |-> Latest(item.record)]}
    /\ command' = [command EXCEPT !.todo = Tail(@)]
    /\ UNCHANGED <<published, edgarFiles, commands, interruptions>>

FinishNormalize ==
    /\ command.pc = "persist" /\ command.todo = << >>
    /\ command' = NoCommand
    /\ UNCHANGED <<published, edgarFiles, earnings, commands, interruptions>>

DiePersisting ==
    /\ command.pc = "persist"
    /\ Interruption
    /\ UNCHANGED edgarFiles

EdgarNext ==
    \/ \E f \in Filings : Publish(f)
    \/ \E range \in Ranges, policy \in Policies, force, persist \in BOOLEAN :
            StartNormalize(range, policy, force, persist)
    \/ ListCached \/ ListFetched \/ DieListing
    \/ \E f \in Filings : ReadIndex(f)
    \/ \E u \in Urls : ReadExhibit(u)
    \/ FailRequest \/ DieReading
    \/ Normalize \/ PersistRecord \/ FinishNormalize \/ DiePersisting

EdgarSpec == EdgarInit /\ [][EdgarNext]_edgarVars

-------------------------------------------------------------------------------
(* Properties.                                                             *)

FileType == [state : {"none", "cut", "whole"}, filings : SUBSET Filings]

EdgarTypeOK ==
    /\ published \subseteq Filings
    /\ submissions \in [text : FileType, parsed : FileType]
    /\ \A f \in Filings : index[f] \subseteq 0 .. Len(Exhibits[f]) /\ Cardinality(index[f]) <= 1
    /\ \A u \in Urls : /\ Cardinality(exhibit[u]) <= 1
                       /\ exhibit[u] \subseteq Exhibits[u[1]][u[2]].cuts
                                               \cup {Exhibits[u[1]][u[2]].whole}
    /\ command.pc \in {"idle", "list", "read", "persist"}
    /\ \A row \in earnings : row.filing \in Filings /\ row.policy \in Policies
    /\ commands \in 0 .. MaxCommands /\ interruptions \in 0 .. MaxInterruptions

\* The rows of the tables that are being normalised.
TablesRead ==
    IF command.pc # "read" THEN {}
    ELSE UNION {{t.rows : t \in Range(d.tables)} : d \in Range(command.found)}

\* The tax line of a table is shared out to the cent among its taxable rows, in
\* a page that was cut too, unless two of them are equal.
TaxIsSharedOut ==
    \A rows \in TablesRead :
        LET shares == TaxShares(rows)
            total == FoldLeft(LAMBDA sum, s : sum + s.tax, 0, SetToSeq(shares))
            line == Figure(rows, "tax_effect")
        IN  shares # {} /\ IsInjective(AdjustmentRows(rows)) => line # {} /\ total = Magnitude(The(line))

\* What a filing says: the record of its last exhibit that has a table, read whole.
Said(f, policy) ==
    LET tables == {i \in DOMAIN Exhibits[f] : Exhibits[f][i].whole # << >>}
        last == CHOOSE i \in tables : \A j \in tables : j <= i
    IN  IF tables = {} THEN {} ELSE {Latest(r) : r \in RecordsOf(Exhibits[f][last].whole, policy)}

\* A command with force_refresh that ends has repaired what commands that died left
\* behind: each filing it lists has the result of its whole exhibits.
ForcedRunRepairs ==
    \A f \in InRange(submissions.parsed.filings) : \A said \in Said(f, command.policy) :
        \E row \in earnings : IsRowOf(row, [filing |-> f]) /\ row.latest = said

\* force_refresh undoes whatever a torn cache has done to earlier commands (client.py:65).
ForcedRunsRepair == [][FinishNormalize /\ command.force => ForcedRunRepairs]_edgarVars
===============================================================================
