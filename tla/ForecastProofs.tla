----------------------------- MODULE ForecastProofs -----------------------------
(***************************************************************************)
(* The readers of a forecast file agree, and an import keeps what the      *)
(* terminal was served: for every list of tickers, every horizon of years, *)
(* every set of rows the operator may fill in and any number of edits and  *)
(* imports, whole, interrupted or of a file edited meanwhile.              *)
(***************************************************************************)
EXTENDS ForecastCsv, FiniteSetTheorems, SequenceTheorems, TLAPS

-------------------------------------------------------------------------------
(* Rows, and sequences of them. *)

\* A row has the fields the readers ask for.
IsRow(r) ==
    /\ DOMAIN r = {"ticker", "year", "fill"} /\ r = [x \in DOMAIN r |-> r[x]]
    /\ DOMAIN r.fill = {"case", "eps", "source", "anchor", "wellFormed", "notes", "blocked",
                        "quality", "metric"}
    /\ r.fill = [x \in DOMAIN r.fill |-> r.fill[x]]

IsRows(s) == s \in Seq(Range(s)) /\ \A r \in Range(s) : IsRow(r)

\* What is stored of a valid row.
IsStored(r) == IsRow(r) /\ Valid(r) /\ VersionKey(r) \in DOMAIN snapshots

-------------------------------------------------------------------------------
(* The inductive invariant. *)

FilesHold == files = [p \in Paths |-> files[p]] /\ \A p \in Paths : IsRows(files[p])

SnapshotsHold ==
    /\ IsFiniteSet(DOMAIN snapshots)
    /\ StoredIsAccepted
    /\ \A k \in DOMAIN snapshots : IsRow(snapshots[k].row)

\* Every row of an import that runs is valid, and is stored or still to be stored.
ImportHolds ==
    importing # NoImport =>
        /\ importing = [path |-> importing.path, rows |-> importing.rows, left |-> importing.left]
        /\ importing.path \in Paths
        /\ IsRows(importing.rows) /\ IsRows(importing.left)
        /\ \A r \in Range(importing.rows) : Valid(r)
        /\ Range(importing.left) \subseteq Range(importing.rows)
        /\ \A r \in Range(importing.rows) : r \in Range(importing.left) \/ IsStored(r)

\* Every row of a complete import is stored, or a newer row of its key is.
ImportsHold ==
    /\ imported = [p \in Paths |-> imported[p]]
    /\ \A p \in Paths : \A r \in Range(imported[p]) : IsStored(r)

ForecastInv == FilesHold /\ SnapshotsHold /\ ImportHolds /\ ImportsHold

-------------------------------------------------------------------------------
(* Lemmas about rows. *)

\* A row made by RowOf from a row's fill is a row, whatever its case is set to.
LEMMA RowsAreMade ==
    ASSUME NEW t, NEW y, NEW fill,
           DOMAIN fill = {"case", "eps", "source", "anchor", "wellFormed", "notes", "blocked",
                          "quality", "metric"},
           fill = [x \in DOMAIN fill |-> fill[x]]
    PROVE  /\ IsRow(RowOf(t, y, fill))
           /\ \A case : IsRow(RowOf(t, y, [fill EXCEPT !.case = case]))
<1> DEFINE r == RowOf(t, y, fill)
<1>1. DOMAIN r = {"ticker", "year", "fill"} /\ r.fill = fill /\ r = [x \in DOMAIN r |-> r[x]]
  BY DEF RowOf
<1>2. IsRow(r)
  BY <1>1 DEF IsRow
<1>3. ASSUME NEW case PROVE IsRow(RowOf(t, y, [fill EXCEPT !.case = case]))
  <2> DEFINE g == [fill EXCEPT !.case = case]
             q == RowOf(t, y, g)
  <2>1. DOMAIN g = DOMAIN fill /\ g = [x \in DOMAIN g |-> g[x]]
    OBVIOUS
  <2>2. DOMAIN q = {"ticker", "year", "fill"} /\ q.fill = g /\ q = [x \in DOMAIN q |-> q[x]]
    BY DEF RowOf
  <2> HIDE DEF g, q
  <2>3. IsRow(q)
    BY <2>1, <2>2 DEF IsRow
  <2> QED BY <2>3 DEF q, g
<1> QED BY <1>2, <1>3

\* So are the rows the operator writes, and a row whose fill is replaced.
LEMMA FillsMakeRows ==
    ASSUME NEW fill \in Fills
    PROVE  /\ \A t, y : IsRow(RowOf(t, y, fill))
           /\ \A r : IsRow(r) => IsRow([r EXCEPT !.fill = fill])
<1>1. fill \in Filled
  BY ForecastAssumption DEF ForecastAssumption
<1>2. DOMAIN fill = {"case", "eps", "source", "anchor", "wellFormed", "notes", "blocked",
                     "quality", "metric"} /\ fill = [x \in DOMAIN fill |-> fill[x]]
  BY <1>1 DEF Filled
<1>3. ASSUME NEW r, IsRow(r) PROVE IsRow([r EXCEPT !.fill = fill])
  <2> DEFINE q == [r EXCEPT !.fill = fill]
  <2>1. DOMAIN q = {"ticker", "year", "fill"} /\ q.fill = fill /\ q = [x \in DOMAIN q |-> q[x]]
    BY <1>3 DEF IsRow
  <2> HIDE DEF q
  <2>2. IsRow(q)
    BY <1>2, <2>1 DEF IsRow
  <2> QED BY <2>2 DEF q
<1>4. \A t, y : IsRow(RowOf(t, y, fill))
  BY <1>2, RowsAreMade
<1> QED BY <1>3, <1>4

\* A sequence of n rows.
LEMMA IndexedRows ==
    ASSUME NEW n \in Nat, NEW s, s = [i \in 1 .. n |-> s[i]],
           \A i \in 1 .. n : IsRow(s[i])
    PROVE  IsRows(s)
<1>1. DOMAIN s = 1 .. n
  OBVIOUS
<1>2. Range(s) = {s[i] : i \in 1 .. n}
  BY <1>1 DEF Range
<1>3. \A i \in 1 .. n : s[i] \in Range(s)
  BY <1>2
<1>4. s \in [1 .. n -> Range(s)]
  BY <1>3
<1>5. s \in Seq(Range(s))
  BY <1>4
<1> QED BY <1>2, <1>5 DEF IsRows

LEMMA RowsHaveIndices ==
    ASSUME NEW s, IsRows(s)
    PROVE  /\ Len(s) \in Nat /\ DOMAIN s = 1 .. Len(s) /\ s = [i \in 1 .. Len(s) |-> s[i]]
           /\ Range(s) = {s[i] : i \in 1 .. Len(s)}
           /\ \A i \in 1 .. Len(s) : IsRow(s[i])
           /\ IsFiniteSet(Range(s))
<1>1. /\ Len(s) \in Nat /\ DOMAIN s = 1 .. Len(s) /\ s = [i \in 1 .. Len(s) |-> s[i]]
  BY DEF IsRows
<1>2. Range(s) = {s[i] : i \in 1 .. Len(s)}
  BY <1>1 DEF Range
<1>3. \A i \in 1 .. Len(s) : IsRow(s[i])
  BY <1>2 DEF IsRows
<1>4. s \in Surjection(1 .. Len(s), Range(s))
  BY <1>1, <1>2 DEF Surjection
<1>5. IsFiniteSet(1 .. Len(s))
  BY <1>1, FS_Interval
<1>6. IsFiniteSet(Range(s))
  BY <1>4, <1>5, FS_Surjection
<1> QED BY <1>1, <1>2, <1>3, <1>6

LEMMA NoRowsAreRows == IsRows(<<>>) /\ Range(<<>>) = {}
<1> DEFINE s == <<>>
<1>1. DOMAIN s = {}
  OBVIOUS
<1>2. Range(s) = {}
  BY <1>1 DEF Range
<1>3. s \in Seq(Range(s))
  OBVIOUS
<1> HIDE DEF s
<1>4. IsRows(s)
  BY <1>2, <1>3 DEF IsRows
<1> QED BY <1>2, <1>4 DEF s

\* What is done with a sequence of rows: a row is added, the first is taken, one or
\* several are replaced.
LEMMA AppendKeepsRows ==
    ASSUME NEW s, IsRows(s), NEW r, IsRow(r)
    PROVE  IsRows(Append(s, r))
<1> DEFINE n == Len(s)
           a == Append(s, r)
<1>1. n \in Nat /\ DOMAIN s = 1 .. n /\ \A i \in 1 .. n : IsRow(s[i])
  BY RowsHaveIndices
<1>2. s \in Seq(Range(s) \union {r})
  BY <1>1, RowsHaveIndices DEF IsRows
<1>3. /\ a \in Seq(Range(s) \union {r}) /\ Len(a) = n + 1
      /\ (\A i \in 1 .. n : a[i] = s[i]) /\ a[n + 1] = r
  <2> r \in Range(s) \union {r}
    OBVIOUS
  <2> QED BY <1>2, AppendProperties
<1> HIDE DEF a, n
<1>4. \A i \in 1 .. n + 1 : i \in 1 .. n \/ i = n + 1
  BY <1>1
<1>5. \A i \in 1 .. n + 1 : IsRow(a[i])
  BY <1>1, <1>3, <1>4
<1>6. a = [i \in 1 .. n + 1 |-> a[i]]
  BY <1>3
<1>7. IsRows(a)
  BY <1>1, <1>5, <1>6, IndexedRows
<1> QED BY <1>7 DEF a

LEMMA TailKeepsRows ==
    ASSUME NEW s, IsRows(s), s # <<>>
    PROVE  /\ IsRows(Tail(s))
           /\ Head(s) \in Range(s)
           /\ Range(Tail(s)) \subseteq Range(s)
           /\ \A r \in Range(s) : r = Head(s) \/ r \in Range(Tail(s))
<1> DEFINE n == Len(s)
           t == Tail(s)
<1>1. n \in Nat /\ DOMAIN s = 1 .. n /\ \A i \in 1 .. n : IsRow(s[i])
  BY RowsHaveIndices
<1>2. s \in Seq(Range(s))
  BY DEF IsRows
<1>3. n # 0
  BY <1>2
<1>4. n - 1 \in Nat
  BY <1>1, <1>3
<1>5. /\ t \in Seq(Range(s)) /\ Len(t) = n - 1 /\ Head(s) = s[1]
      /\ \A i \in 1 .. Len(t) : t[i] = s[i + 1]
  BY <1>2, HeadTailProperties
<1>6. /\ t = [i \in 1 .. n - 1 |-> t[i]] /\ DOMAIN t = 1 .. n - 1
      /\ \A i \in 1 .. n - 1 : t[i] = s[i + 1]
  <2> HIDE DEF t, n
  <2> QED BY <1>5
<1> HIDE DEF t, n
<1>7. \A i \in 1 .. n - 1 : i + 1 \in 1 .. n
  BY <1>1
<1>8. \A i \in 1 .. n - 1 : IsRow(t[i])
  BY <1>1, <1>6, <1>7
<1>9. IsRows(t)
  BY <1>4, <1>6, <1>8, IndexedRows
<1>10. Range(s) = {s[i] : i \in 1 .. n} /\ Range(t) = {t[i] : i \in 1 .. n - 1}
  BY <1>1, <1>6 DEF Range
<1>11. Head(s) \in Range(s)
  BY <1>1, <1>3, <1>5, <1>10
<1>12. Range(t) \subseteq Range(s)
  BY <1>6, <1>7, <1>10
<1>13. ASSUME NEW r \in Range(s), r # Head(s) PROVE r \in Range(t)
  <2>1. PICK i \in 1 .. n : r = s[i]
    BY <1>10
  <2>2. i # 1
    BY <1>5, <1>13, <2>1
  <2>3. i - 1 \in 1 .. n - 1 /\ (i - 1) + 1 = i
    BY <1>1, <2>1, <2>2
  <2>4. t[i - 1] = s[i]
    BY <1>6, <2>3
  <2> QED BY <1>10, <2>1, <2>3, <2>4
<1> QED BY <1>9, <1>11, <1>12, <1>13 DEF t


\* What an element of a file is set to is a row.
LEMMA ChangesKeepRows ==
    ASSUME NEW s, IsRows(s), NEW g, DOMAIN g = DOMAIN s, g = [i \in DOMAIN g |-> g[i]],
           \A i \in DOMAIN s : g[i] = s[i] \/ IsRow(g[i])
    PROVE  IsRows(g)
<1>1. Len(s) \in Nat /\ DOMAIN s = 1 .. Len(s) /\ \A i \in 1 .. Len(s) : IsRow(s[i])
  BY RowsHaveIndices
<1>2. g = [i \in 1 .. Len(s) |-> g[i]]
  BY <1>1
<1>3. \A i \in 1 .. Len(s) : IsRow(g[i])
  BY <1>1
<1> QED BY <1>1, <1>2, <1>3, IndexedRows

LEMMA TickersAreFinite == IsFiniteSet(Tickers)
<1>1. ASSUME NEW m \in Markets PROVE IsFiniteSet(Range(TickersOf(m)))
  <2> DEFINE s == TickersOf(m)
  <2>1. s \in Seq(Range(s))
    BY CoverageAssumption DEF CoverageAssumption
  <2> HIDE DEF s
  <2>2. Len(s) \in Nat /\ DOMAIN s = 1 .. Len(s) /\ s = [i \in 1 .. Len(s) |-> s[i]]
    BY <2>1
  <2>3. s \in Surjection(1 .. Len(s), Range(s))
    BY <2>2 DEF Surjection, Range
  <2>4. IsFiniteSet(1 .. Len(s))
    <3>1. 1 \in Int /\ Len(s) \in Int
      BY <2>2
    <3> QED BY ONLY <3>1, FS_Interval
  <2>5. IsFiniteSet(Range(s))
    BY <2>3, <2>4, FS_Surjection
  <2> QED BY <2>5 DEF s
<1>2. IsFiniteSet(Range(KR)) /\ IsFiniteSet(Range(US)) /\ IsFiniteSet(Range(JP))
  BY <1>1 DEF Markets, TickersOf
<1>3. IsFiniteSet(Universe)
  BY <1>2, FS_Union DEF Universe
<1>4. Tickers \in SUBSET Universe
  BY ForecastAssumption DEF ForecastAssumption
<1> QED BY <1>3, <1>4, FS_Subset

\* The worker writes rows.
LEMMA ExportsAreRows ==
    ASSUME NEW T \in Asking, NEW cases \in {<<"median">>, <<"low", "median">>},
           NEW fill \in {Blank, Deterministic}
    PROVE  IsRows(Written(T, cases, fill))
<1> DEFINE n == Cardinality(T) * (Cardinality(Years) * Len(cases))
           w == Written(T, cases, fill)
<1>1. Len(cases) \in Nat
  OBVIOUS
<1>2. Cardinality(T) \in Nat /\ Cardinality(Years) \in Nat
  <2>1. IsFiniteSet(T)
    BY TickersAreFinite, FS_Subset DEF Asking
  <2>2. IsFiniteSet(Years)
    BY ForecastAssumption DEF ForecastAssumption
  <2> QED BY <2>1, <2>2, FS_CardinalityType
<1>3. n \in Nat
  <2>1. Cardinality(Years) * Len(cases) \in Nat
    BY <1>1, <1>2
  <2> QED BY <1>2, <2>1
<1>4. DOMAIN fill = {"case", "eps", "source", "anchor", "wellFormed", "notes", "blocked",
                     "quality", "metric"} /\ fill = [x \in DOMAIN fill |-> fill[x]]
  BY DEF Blank, Deterministic
<1>5. \A t, y, case : IsRow(RowOf(t, y, [fill EXCEPT !.case = case]))
  BY <1>4, RowsAreMade
<1>6. w = [i \in 1 .. n |-> w[i]] /\ DOMAIN w = 1 .. n
  BY DEF Written
<1>7. \A i \in 1 .. n : IsRow(w[i])
  BY <1>5 DEF Written
<1> HIDE DEF w, n
<1>8. IsRows(w)
  BY <1>3, <1>6, <1>7, IndexedRows
<1> QED BY <1>8 DEF w

\* What is stored stays so while no key leaves the database.
LEMMA StoredStays ==
    ASSUME DOMAIN snapshots \subseteq DOMAIN snapshots', NEW r, IsStored(r)
    PROVE  IsStored(r)'
BY DEF IsStored, VersionKey, Valid, Accepts, FillOf, Manual, ImportCase, IsRow

-------------------------------------------------------------------------------
(* The invariant holds. *)

LEMMA InitHolds == ForecastInit => ForecastInv
<1> SUFFICES ASSUME ForecastInit PROVE ForecastInv
  OBVIOUS
<1>1. FilesHold
  BY NoRowsAreRows DEF ForecastInit, FilesHold, NoFile
<1>2. SnapshotsHold
  <2>1. snapshots = <<>> /\ DOMAIN snapshots = {}
    BY DEF ForecastInit
  <2> QED BY <2>1, FS_EmptySet DEF SnapshotsHold, StoredIsAccepted
<1>3. ImportHolds
  BY DEF ForecastInit, ImportHolds
<1>4. ImportsHold
  BY NoRowsAreRows DEF ForecastInit, ImportsHold, NoFile
<1> QED BY <1>1, <1>2, <1>3, <1>4 DEF ForecastInv

\* A write of a file disturbs nothing but the file.
LEMMA WritesKeepInv ==
    ASSUME ForecastInv, UNCHANGED <<importing, imported, snapshots>>,
           FilesHold'
    PROVE  ForecastInv'
<1>1. SnapshotsHold'
  BY ZenonT(60) DEF ForecastInv, SnapshotsHold, StoredIsAccepted, IsRow, Accepts, VersionKey, Manual, ImportCase
<1>2. ImportHolds'
  <2>1. ASSUME NEW r, IsStored(r) PROVE IsStored(r)'
    BY <2>1, StoredStays
  <2>2. ASSUME NEW s, IsRows(s) PROVE IsRows(s)'
    BY <2>2 DEF IsRows, IsRow
  <2> QED BY <2>1, <2>2 DEF ForecastInv, ImportHolds, Valid, Accepts, FillOf, Manual, ImportCase
<1>3. ImportsHold'
  <2>1. ASSUME NEW r, IsStored(r) PROVE IsStored(r)'
    BY <2>1, StoredStays
  <2> QED BY <2>1 DEF ForecastInv, ImportsHold
<1> QED BY <1>1, <1>2, <1>3 DEF ForecastInv


\* Every write of a file leaves rows in it.
LEMMA FilesStayRows ==
    ASSUME FilesHold, NEW p \in Paths, NEW s, IsRows(s),
           files' = [files EXCEPT ![p] = s]
    PROVE  FilesHold'
<1>1. files' = [q \in Paths |-> IF q = p THEN s ELSE files[q]]
  BY DEF FilesHold
<1>2. ASSUME NEW q \in Paths PROVE IsRows(files'[q])
  BY <1>1 DEF FilesHold
<1>3. \A q \in Paths : IsRows(files[q])'
  BY <1>2 DEF IsRows, IsRow
<1> QED BY <1>1, <1>3 DEF FilesHold

LEMMA ExportsKeepInv ==
    ASSUME ForecastInv, NEW p \in Paths, NEW T \in Asking,
           NEW cases \in {<<"median">>, <<"low", "median">>},
           ExportConsensusTemplate(p, T, cases) \/ ExportDeterministicForecastCsv(p, T)
    PROVE  ForecastInv'
<1>1. CASE ExportConsensusTemplate(p, T, cases)
  <2>1. IsRows(Written(T, cases, Blank))
    BY ExportsAreRows
  <2>2. FilesHold'
    BY <1>1, <2>1, FilesStayRows DEF ForecastInv, ExportConsensusTemplate
  <2> QED BY <1>1, <2>2, WritesKeepInv DEF ExportConsensusTemplate
<1>2. CASE ExportDeterministicForecastCsv(p, T)
  <2>1. IsRows(Written(T, <<"median">>, Deterministic))
    BY ExportsAreRows
  <2>2. FilesHold'
    BY <1>2, <2>1, FilesStayRows DEF ForecastInv, ExportDeterministicForecastCsv
  <2> QED BY <1>2, <2>2, WritesKeepInv DEF ExportDeterministicForecastCsv
<1> QED BY <1>1, <1>2

LEMMA EditsKeepInv ==
    ASSUME ForecastInv, NEW p \in Paths, NEW fill \in Fills,
           \/ \E t \in Tickers : FillTicker(p, t, fill)
           \/ \E i \in DOMAIN files[p] : EditRow(p, i, fill)
           \/ \E t \in Tickers, y \in Years : AddRow(p, RowOf(t, y, fill))
    PROVE  ForecastInv'
<1> DEFINE s == files[p]
<1>0. IsRows(s)
  BY DEF ForecastInv, FilesHold
<1>1. \A i \in DOMAIN s : IsRow(s[i]) /\ IsRow([s[i] EXCEPT !.fill = fill])
  <2>1. \A i \in DOMAIN s : IsRow(s[i])
    BY <1>0, RowsHaveIndices
  <2> QED BY <2>1, FillsMakeRows
<1>2. CASE \E t \in Tickers : FillTicker(p, t, fill)
  <2>1. PICK t \in Tickers : FillTicker(p, t, fill)
    BY <1>2
  <2> DEFINE g == [i \in DOMAIN s |-> IF s[i].ticker = t /\ s[i].fill.case = "median"
                                     THEN [s[i] EXCEPT !.fill = fill] ELSE s[i]]
  <2>2. files' = [files EXCEPT ![p] = g]
    BY <2>1 DEF FillTicker
  <2>3. DOMAIN g = DOMAIN s /\ g = [i \in DOMAIN g |-> g[i]]
    OBVIOUS
  <2>4. \A i \in DOMAIN s : g[i] = s[i] \/ IsRow(g[i])
    BY <1>1
  <2> HIDE DEF g
  <2>5. IsRows(g)
    BY <1>0, <2>3, <2>4, ChangesKeepRows
  <2>6. FilesHold'
    BY <2>2, <2>5, FilesStayRows DEF ForecastInv
  <2> QED BY <2>1, <2>6, WritesKeepInv DEF FillTicker
<1>3. CASE \E i \in DOMAIN files[p] : EditRow(p, i, fill)
  <2>1. PICK j \in DOMAIN files[p] : EditRow(p, j, fill)
    BY <1>3
  <2> DEFINE g == [s EXCEPT ![j].fill = fill]
  <2>2. files' = [files EXCEPT ![p] = g]
    BY <2>1 DEF EditRow
  <2>3. DOMAIN g = DOMAIN s /\ g = [i \in DOMAIN g |-> g[i]]
    OBVIOUS
  <2>4. \A i \in DOMAIN s : g[i] = s[i] \/ IsRow(g[i])
    BY <1>1
  <2> HIDE DEF g
  <2>5. IsRows(g)
    BY <1>0, <2>3, <2>4, ChangesKeepRows
  <2>6. FilesHold'
    BY <2>2, <2>5, FilesStayRows DEF ForecastInv
  <2> QED BY <2>1, <2>6, WritesKeepInv DEF EditRow
<1>4. CASE \E t \in Tickers, y \in Years : AddRow(p, RowOf(t, y, fill))
  <2>1. PICK t \in Tickers, y \in Years : AddRow(p, RowOf(t, y, fill))
    BY <1>4
  <2>2. IsRow(RowOf(t, y, fill))
    BY FillsMakeRows
  <2> DEFINE g == Append(s, RowOf(t, y, fill))
  <2>3. IsRows(g)
    BY <1>0, <2>2, AppendKeepsRows
  <2>4. files' = [files EXCEPT ![p] = g]
    BY <2>1 DEF AddRow
  <2> HIDE DEF g
  <2>5. FilesHold'
    BY <2>3, <2>4, FilesStayRows DEF ForecastInv
  <2> QED BY <2>1, <2>5, WritesKeepInv DEF AddRow
<1> QED BY <1>2, <1>3, <1>4

\* An import begins with rows that are valid and all still to be stored.
LEMMA BeginKeepsInv ==
    ASSUME ForecastInv, NEW p \in Paths, BeginImport(p)
    PROVE  ForecastInv'
<1>1. FilesHold' /\ SnapshotsHold' /\ ImportsHold'
  <2>1. \A r : IsStored(r) => IsStored(r)'
    BY StoredStays DEF BeginImport
  <2>2. ImportsHold'
    BY <2>1 DEF ForecastInv, ImportsHold, BeginImport
  <2>3. FilesHold'
    BY DEF ForecastInv, FilesHold, BeginImport, IsRows, IsRow
  <2>4. SnapshotsHold'
    BY ZenonT(60) DEF ForecastInv, SnapshotsHold, StoredIsAccepted, IsRow, Accepts, VersionKey, Manual,
           ImportCase, BeginImport
  <2> QED BY <2>2, <2>3, <2>4
<1>2. IsRows(files[p]) /\ \A r \in Range(files[p]) : Valid(r)
  BY DEF ForecastInv, FilesHold, BeginImport, Rows
<1>3. importing' = [path |-> p, rows |-> files[p], left |-> files[p]]
  BY DEF BeginImport
<1>4. ImportHolds'
  BY <1>2, <1>3 DEF ImportHolds, IsRows, IsRow, Valid, Accepts, FillOf, Manual, ImportCase
<1> QED BY <1>1, <1>4 DEF ForecastInv

LEMMA FinishKeepsInv ==
    ASSUME ForecastInv, FinishImport \/ FailImport
    PROVE  ForecastInv'
<1>0. \A r : IsStored(r) => IsStored(r)'
  BY StoredStays DEF FinishImport, FailImport
<1>1. FilesHold' /\ SnapshotsHold' /\ ImportHolds'
  <2>1. FilesHold'
    BY DEF ForecastInv, FilesHold, FinishImport, FailImport, IsRows, IsRow
  <2>2. SnapshotsHold'
    BY ZenonT(60) DEF ForecastInv, SnapshotsHold, StoredIsAccepted, IsRow, Accepts, VersionKey, Manual,
           ImportCase, FinishImport, FailImport
  <2>3. ImportHolds'
    BY DEF ImportHolds, FinishImport, FailImport
  <2> QED BY <2>1, <2>2, <2>3
<1>2. CASE FailImport
  <2>1. ImportsHold'
    BY <1>0, <1>2 DEF ForecastInv, ImportsHold, FailImport
  <2> QED BY <1>1, <2>1 DEF ForecastInv
<1>3. CASE FinishImport
  <2>1. /\ importing.path \in Paths /\ Range(importing.left) = {}
        /\ \A r \in Range(importing.rows) : r \in Range(importing.left) \/ IsStored(r)
    BY <1>3, NoRowsAreRows DEF ForecastInv, ImportHolds, FinishImport
  <2>2. \A r \in Range(importing.rows) : IsStored(r)
    BY <2>1
  <2>3. imported' = [q \in Paths |-> IF q = importing.path THEN importing.rows ELSE imported[q]]
    BY <1>3 DEF ForecastInv, ImportsHold, FinishImport
  <2>4. ASSUME NEW q \in Paths, NEW r \in Range(imported'[q]) PROVE IsStored(r)
    BY <2>2, <2>3, <2>4 DEF ForecastInv, ImportsHold
  <2>5. ImportsHold'
    BY <1>0, <2>3, <2>4 DEF ImportsHold
  <2> QED BY <1>1, <2>5 DEF ForecastInv
<1> QED BY <1>2, <1>3

LEMMA StoreKeepsInv ==
    ASSUME ForecastInv, StoreRow
    PROVE  ForecastInv'
<1> DEFINE row == Head(importing.left)
           key == VersionKey(row)
           entry == [quality |-> Quality(row.fill), row |-> row]
<1>1. /\ importing.path \in Paths
      /\ IsRows(importing.rows) /\ IsRows(importing.left) /\ importing.left # <<>>
      /\ \A r \in Range(importing.rows) : Valid(r)
      /\ Range(importing.left) \subseteq Range(importing.rows)
      /\ \A r \in Range(importing.rows) : r \in Range(importing.left) \/ IsStored(r)
      /\ importing = [path |-> importing.path, rows |-> importing.rows, left |-> importing.left]
  BY DEF ForecastInv, ImportHolds, StoreRow
<1>2. snapshots' = [k \in DOMAIN snapshots \union {key} |->
                       IF k = key THEN entry ELSE snapshots[k]]
  BY DEF StoreRow
<1>3. /\ IsRows(Tail(importing.left)) /\ row \in Range(importing.left)
      /\ Range(Tail(importing.left)) \subseteq Range(importing.left)
      /\ \A r \in Range(importing.left) : r = row \/ r \in Range(Tail(importing.left))
  BY <1>1, TailKeepsRows
<1>4. IsRow(row) /\ Valid(row)
  BY <1>1, <1>3 DEF IsRows
<1>5. /\ entry.row = row
      /\ Accepts(row.fill) /\ key.case # "unknown" /\ (Manual(row.fill) => row.fill.notes)
  BY <1>4 DEF Valid, Accepts, FillOf, VersionKey
<1>6. key = VersionKey(row)
  OBVIOUS
<1> HIDE DEF key, entry, row
<1>7. /\ DOMAIN snapshots' = DOMAIN snapshots \union {key}
      /\ snapshots'[key] = entry
      /\ \A l \in DOMAIN snapshots : l # key => snapshots'[l] = snapshots[l]
  BY <1>2
<1>8. \A r : IsStored(r) => IsStored(r)'
  BY <1>7, StoredStays
<1>9. \A r : r = row => IsStored(r)'
  BY ZenonT(60), <1>4, <1>6, <1>7 DEF IsStored, VersionKey, Valid, Accepts, FillOf, Manual, ImportCase, IsRow
<1>10. FilesHold' /\ ImportsHold'
  <2>1. FilesHold'
    BY DEF ForecastInv, FilesHold, StoreRow, IsRows, IsRow
  <2>2. ImportsHold'
    BY <1>8 DEF ForecastInv, ImportsHold, StoreRow
  <2> QED BY <2>1, <2>2
<1>11. SnapshotsHold'
  <2>1. IsFiniteSet(DOMAIN snapshots')
    BY <1>7, FS_AddElement DEF ForecastInv, SnapshotsHold
  <2>2. ASSUME NEW k \in DOMAIN snapshots' PROVE
            LET r == snapshots'[k].row
            IN  /\ IsRow(r) /\ Accepts(r.fill) /\ k = VersionKey(r) /\ k.case # "unknown"
                /\ (Manual(r.fill) => r.fill.notes)
    <3>1. CASE k = key
      BY <1>4, <1>5, <1>6, <1>7, <3>1
    <3>2. CASE k # key
      BY <1>7, <3>2 DEF ForecastInv, SnapshotsHold, StoredIsAccepted
    <3> QED BY <3>1, <3>2
  <2>3. StoredIsAccepted'
    BY <2>2 DEF StoredIsAccepted, Accepts, VersionKey, Manual, ImportCase
  <2>4. \A k \in DOMAIN snapshots' : IsRow(snapshots'[k].row)
    BY <2>2
  <2> QED BY <2>1, <2>3, <2>4 DEF SnapshotsHold, IsRow
<1>12. ImportHolds'
  <2>1. importing' = [path |-> importing.path, rows |-> importing.rows,
                      left |-> Tail(importing.left)]
    BY <1>1 DEF StoreRow
  <2>2. ASSUME NEW r \in Range(importing.rows)
        PROVE  r \in Range(Tail(importing.left)) \/ IsStored(r)'
    BY <1>1, <1>3, <1>8, <1>9
  <2>3. /\ importing'.path = importing.path /\ importing'.rows = importing.rows
        /\ importing'.left = Tail(importing.left)
    BY <2>1
  <2>4. IsRows(importing.rows)' /\ IsRows(importing.left)'
    BY <1>1, <1>3, <2>3 DEF IsRows, IsRow
  <2>5. \A r \in Range(importing'.rows) : Valid(r)'
    BY <1>1, <2>3 DEF Valid, Accepts, FillOf, Manual, ImportCase
  <2>6. Range(importing'.left) \subseteq Range(importing'.rows)
    BY <1>1, <1>3, <2>3
  <2>7. importing'.path \in Paths
    BY <1>1, <2>3
  <2>8. importing' = [path |-> importing'.path, rows |-> importing'.rows, left |-> importing'.left]
    BY <2>1
  <2> QED BY <2>2, <2>3, <2>4, <2>5, <2>6, <2>7, <2>8 DEF ImportHolds
<1> QED BY <1>10, <1>11, <1>12 DEF ForecastInv

LEMMA StutterKeepsInv ==
    ASSUME ForecastInv, UNCHANGED forecastVars
    PROVE  ForecastInv'
<1>1. FilesHold'
  BY DEF ForecastInv, FilesHold, forecastVars, IsRows, IsRow
<1> QED BY <1>1, WritesKeepInv DEF forecastVars

\* What is imported is stored: whatever is written, imported or interrupted, every row
\* of a complete import has its key in the database (import_consensus_csv stores row by
\* row and keeps what it stored).
THEOREM ForecastInvariance == ForecastSpec => []ForecastInv
<1>1. ForecastInit => ForecastInv
  BY InitHolds
<1>2. ForecastInv /\ [ForecastNext]_forecastVars => ForecastInv'
  <2> SUFFICES ASSUME ForecastInv, [ForecastNext]_forecastVars PROVE ForecastInv'
    OBVIOUS
  <2>1. CASE \E p \in Paths, T \in Asking :
                \/ \E cases \in {<<"median">>, <<"low", "median">>} :
                      p = CsvPath(T) /\ ExportConsensusTemplate(p, T, cases)
                \/ p = CsvPath(T) /\ ExportDeterministicForecastCsv(p, T)
    <3>1. PICK p \in Paths, T \in Asking, cases \in {<<"median">>, <<"low", "median">>} :
              ExportConsensusTemplate(p, T, cases) \/ ExportDeterministicForecastCsv(p, T)
      BY <2>1
    <3> QED BY <3>1, ExportsKeepInv
  <2>2. CASE \E p \in Paths, fill \in Fills :
                \/ \E t \in Tickers : FillTicker(p, t, fill)
                \/ \E i \in DOMAIN files[p] : EditRow(p, i, fill)
                \/ \E t \in Tickers, y \in Years : AddRow(p, RowOf(t, y, fill))
    BY <2>2, EditsKeepInv
  <2>3. CASE \E p \in Paths : BeginImport(p)
    BY <2>3, BeginKeepsInv
  <2>4. CASE \E p \in Paths : SaveMarked(p)
    <3>1. UNCHANGED <<files, importing, imported, snapshots>>
      BY <2>4 DEF SaveMarked
    <3>2. FilesHold'
      BY <3>1 DEF ForecastInv, FilesHold, IsRows, IsRow
    <3> QED BY <3>1, <3>2, WritesKeepInv
  <2>5. CASE StoreRow
    BY <2>5, StoreKeepsInv
  <2>6. CASE FinishImport \/ FailImport
    BY <2>6, FinishKeepsInv
  <2>7. CASE UNCHANGED forecastVars
    BY <2>7, StutterKeepsInv
  <2> QED BY <2>1, <2>2, <2>3, <2>4, <2>5, <2>6, <2>7 DEF ForecastNext
<1> QED BY <1>1, <1>2, PTL DEF ForecastSpec


-------------------------------------------------------------------------------
(* The readers agree. *)

\* A row the validator takes, of a case spelt as the preflight reads it, is ready.
LEMMA ValidRowsAreReady ==
    ASSUME NEW r, Valid(r)
    PROVE  PreflightReady(r)
BY DEF Valid, Accepts, FillOf, Manual, PreflightReady

\* The periods of some rows of a file are finitely many.
LEMMA PeriodsAreFinite ==
    ASSUME NEW s, IsRows(s), NEW rows \in SUBSET Range(s)
    PROVE  IsFiniteSet(Periods(rows))
<1> DEFINE f == [r \in rows |-> <<r.ticker, r.year>>]
<1>1. IsFiniteSet(rows)
  BY RowsHaveIndices, FS_Subset
<1>2. f \in Surjection(rows, Periods(rows))
  BY DEF Surjection, Periods
<1> QED BY <1>1, <1>2, FS_Surjection

\* The preflight of a plain file agrees with the validator.
LEMMA PreflightIsRight == FilesHold => PreflightAgrees
<1> SUFFICES ASSUME FilesHold, NEW T \in Asking,
                    CsvPath(T) \notin marked,
                    \A r \in Rows(CsvPath(T)) : r.fill.case \in Base
             PROVE  /\ \A r \in Rows(CsvPath(T)) : Valid(r) => PreflightReady(r)
                    /\ Validation(files[CsvPath(T)], T) = "ready"
                          => Preflight(CsvPath(T), T) = "candidate_ready"
  BY DEF PreflightAgrees
<1> DEFINE p == CsvPath(T)
           candidates == Candidates(p, T)
           ready == {r \in candidates : PreflightReady(r)}
<1>1. \A r \in Rows(p) : Valid(r) => PreflightReady(r)
  BY ValidRowsAreReady
<1>2. ASSUME Validation(files[p], T) = "ready"
      PROVE  Preflight(p, T) = "candidate_ready"
  <2> DEFINE present == {r \in Range(files[p]) : ImportCase(r.fill.case) \in Base}
  <2>1. /\ \A r \in Range(files[p]) : Valid(r)
        /\ T \X Years \subseteq Periods(present)
    BY <1>2 DEF Validation
  <2>2. p \in Paths
    <3>1. CASE Cardinality(T) = 1
      <4>1. T # {} /\ T \subseteq Tickers
        BY DEF Asking
      <4>2. (CHOOSE t \in T : TRUE) \in T
        BY <4>1
      <4> QED BY <3>1, <4>1, <4>2 DEF CsvPath, Paths
    <3>2. CASE Cardinality(T) # 1
      BY <3>2 DEF CsvPath, Paths
    <3> QED BY <3>1, <3>2
  <2>3. IsRows(files[p])
    BY <2>2 DEF FilesHold
  <2> HIDE DEF p
  <2>4. ASSUME NEW t \in T, NEW y \in Years PROVE <<t, y>> \in Periods(ready)
    <3>1. <<t, y>> \in Periods(present)
      BY <2>1
    <3>2. PICK r \in present : <<t, y>> = <<r.ticker, r.year>>
      BY <3>1 DEF Periods
    <3>3. r \in Rows(p) /\ r.ticker = t /\ r.year = y
      BY <3>2 DEF Rows
    <3>4. r \in ready
      BY <1>1, <2>1, <3>3 DEF Candidates, Rows, p
    <3> QED BY <3>3, <3>4 DEF Periods
  <2>5. T \X Years \subseteq Periods(ready)
    BY <2>4
  <2>6. T # {} /\ Years # {}
    BY ForecastAssumption DEF ForecastAssumption, Asking
  <2>7. ready # {} /\ candidates # {} /\ Rows(p) # {}
    <3>1. PICK t \in T, y \in Years : <<t, y>> \in Periods(ready)
      BY <2>4, <2>6
    <3>2. ready # {}
      BY <3>1 DEF Periods
    <3> QED BY <3>2 DEF Candidates
  <2>8. files[p] # NoFile
    BY <2>7, NoRowsAreRows DEF Rows, NoFile
  <2>9. IsFiniteSet(Periods(ready))
    <3>1. ready \in SUBSET Range(files[p])
      BY DEF Candidates, Rows
    <3> QED BY <2>3, <3>1, PeriodsAreFinite
  <2>10. ~ Cardinality(Periods(ready)) < Cardinality(T) * Cardinality(Years)
    <3>1. IsFiniteSet(T) /\ IsFiniteSet(Years)
      BY TickersAreFinite, FS_Subset, ForecastAssumption DEF Asking, ForecastAssumption
    <3>2. Cardinality(T \X Years) = Cardinality(T) * Cardinality(Years)
      BY <3>1, FS_Product
    <3> DEFINE a == Cardinality(T \X Years)
               b == Cardinality(Periods(ready))
    <3>3. a <= b
      BY <2>5, <2>9, FS_Subset
    <3>4. a \in Nat /\ b \in Nat
      BY <2>5, <2>9, FS_Subset, FS_CardinalityType
    <3> HIDE DEF a, b
    <3>5. ~ b < a
      BY <3>3, <3>4
    <3> QED BY <3>2, <3>5 DEF a, b
  <2> HIDE DEF ready, candidates
  <2>11. /\ ready = {r \in candidates : PreflightReady(r)} /\ candidates = Candidates(p, T)
    BY DEF ready, candidates
  <2> QED BY <2>7, <2>8, <2>10, <2>11 DEF Preflight
<1> QED BY <1>1, <1>2

\* The fiscal years stored for a ticker are finitely many.
LEMMA StoredYearsAreFinite ==
    ASSUME SnapshotsHold, NEW t
    PROVE  IsFiniteSet(StoredYears(t))
<1> DEFINE keys == {k \in DOMAIN snapshots : /\ k.ticker = t /\ k.metric = "default"
                                              /\ k.case \in Base
                                              /\ snapshots[k].quality = "production"}
           f == [k \in keys |-> k.year]
<1>1. IsFiniteSet(keys)
  BY FS_Subset DEF SnapshotsHold
<1>2. f \in Surjection(keys, StoredYears(t))
  BY DEF Surjection, StoredYears
<1> QED BY <1>1, <1>2, FS_Surjection

\* A stored row of the valuation counts for its year.
LEMMA StoredRowsCount ==
    ASSUME NEW r, IsStored(r), ImportCase(r.fill.case) \in Base,
           \A k \in DOMAIN snapshots : k.metric = "default" /\ snapshots[k].quality = "production"
    PROVE  r.year \in StoredYears(r.ticker)
<1> DEFINE k == VersionKey(r)
<1>1. /\ k \in DOMAIN snapshots /\ k.ticker = r.ticker /\ k.year = r.year
      /\ k.case = ImportCase(r.fill.case)
  BY DEF IsStored, VersionKey
<1> HIDE DEF k
<1> QED BY <1>1 DEF StoredYears

\* A file that was ready, or that the local provider answered from, covers its tickers
\* in the database once it is imported.
LEMMA ImportsCover == SnapshotsHold /\ ImportsHold => ReadyFileCovers
<1> SUFFICES ASSUME SnapshotsHold, ImportsHold,
                    \A k \in DOMAIN snapshots :
                        k.metric = "default" /\ snapshots[k].quality = "production",
                    NEW p \in Paths, imported[p] # NoFile
             PROVE  /\ \A T \in Asking : Validation(imported[p], T) = "ready" => \A t \in T : Stored(t)
                    /\ files[p] = imported[p]
                          => \A t \in Tickers : LocalPath(t) = p /\ Local(t) => Stored(t)
  BY DEF ReadyFileCovers
<1>0. \A r \in Range(imported[p]) : IsStored(r)
  BY DEF ImportsHold
<1>1. IsFiniteSet(Years) /\ Cardinality(Years) \in Nat
  BY ForecastAssumption, FS_CardinalityType DEF ForecastAssumption
<1>2. ASSUME NEW t, NEW years, years \subseteq StoredYears(t),
             Cardinality(years) >= Cardinality(Years)
      PROVE  Stored(t)
  <2> DEFINE a == Cardinality(years)
             b == Cardinality(StoredYears(t))
             c == Cardinality(Years)
  <2>1. a <= b /\ a \in Nat /\ b \in Nat
    BY <1>2, StoredYearsAreFinite, FS_Subset, FS_CardinalityType
  <2>2. a >= c /\ c \in Nat
    BY <1>1, <1>2
  <2> HIDE DEF a, b, c
  <2>3. b >= c
    BY <2>1, <2>2
  <2> QED BY <2>3 DEF Stored, b, c
<1>3. ASSUME NEW T \in Asking, Validation(imported[p], T) = "ready", NEW t \in T
      PROVE  Stored(t)
  <2> DEFINE present == {r \in Range(imported[p]) : ImportCase(r.fill.case) \in Base}
  <2>1. T \X Years \subseteq Periods(present)
    BY <1>3 DEF Validation
  <2>2. ASSUME NEW y \in Years PROVE y \in StoredYears(t)
    <3>1. <<t, y>> \in Periods(present)
      BY <2>1
    <3>2. PICK r \in present : <<t, y>> = <<r.ticker, r.year>>
      BY <3>1 DEF Periods
    <3>3. IsStored(r) /\ r.ticker = t /\ r.year = y
      BY <1>0, <3>2
    <3> QED BY <3>2, <3>3, StoredRowsCount
  <2>3. Years \subseteq StoredYears(t)
    BY <2>2
  <2>4. Cardinality(Years) >= Cardinality(Years)
    BY <1>1
  <2> QED BY <1>2, <2>3, <2>4
<1>4. ASSUME files[p] = imported[p], NEW t \in Tickers, LocalPath(t) = p, Local(t)
      PROVE  Stored(t)
  <2>1. ASSUME NEW r \in LocalRows(t), LocalCase(r.fill.case) \in Base
        PROVE  r.year \in StoredYears(t)
    <3>1. r \in Range(imported[p]) /\ r.ticker = t
      BY <1>4 DEF LocalRows, Rows
    <3>2. IsStored(r)
      BY <1>0, <3>1
    <3>3. ImportCase(r.fill.case) \in Base
      BY <2>1, <3>2 DEF IsStored, Valid, ImportCase, LocalCase, Base
    <3> QED BY <3>1, <3>2, <3>3, StoredRowsCount
  <2>2. LocalYears(t) \subseteq StoredYears(t)
    BY <2>1 DEF LocalYears
  <2>3. Cardinality(LocalYears(t)) >= Cardinality(Years)
    BY <1>4 DEF Local
  <2> QED BY <1>2, <2>2, <2>3
<1> QED BY <1>3, <1>4

\* What an operator is told about a forecast file holds to the end of it: an estimate in
\* the database passed the rules whatever became of its import; a file the validator
\* calls ready is one the plan asks to import; and once imported it covers its tickers,
\* as the terminal showed from the file (validate_consensus_csv, _forecast_csv_preflight,
\* import_consensus_csv, source_coverage_from_postgres and the local provider).
THEOREM ReadersAgree == ForecastSpec => []ForecastReadersAgree
<1>1. ForecastInv => ForecastReadersAgree
  BY PreflightIsRight, ImportsCover DEF ForecastInv, SnapshotsHold, ForecastReadersAgree
<1> QED BY <1>1, ForecastInvariance, PTL

-------------------------------------------------------------------------------
(* The projections. *)

\* The rows a selection is of.
LEMMA SelectedAreRows ==
    ASSUME NEW rows, NEW case
    PROVE  Selected(rows, case) \subseteq rows
BY DEF Selected

\* A row of the case asked for is selected.
LEMMA AskedIsSelected ==
    ASSUME NEW case \in {"median", "low"}, NEW rows, NEW s \in rows,
           LocalCase(s.fill.case) = case
    PROVE  s \in Selected(rows, case)
<1>1. CASE case = "median"
  <2>1. case \in Base /\ LocalCase(s.fill.case) \in Base
    BY <1>1 DEF Base
  <2> QED BY <2>1 DEF Selected
<1>2. CASE case = "low"
  <2>1. case \notin Base /\ LocalCase(s.fill.case) \in {case}
    BY <1>2 DEF Base
  <2> QED BY <2>1 DEF Selected
<1> QED BY <1>1, <1>2

\* A row of the file the local provider answers from has a stored row of its year, and
\* one of the case asked for when it is of that case.
LEMMA LocalRowsAreStored ==
    ASSUME SnapshotsHold, NEW r, IsStored(r), r.fill.metric = "default"
    PROVE  \E s \in StoredRows(r.ticker) :
               /\ s.year = r.year
               /\ \A case \in {"median", "low"} :
                     LocalCase(r.fill.case) = case => LocalCase(s.fill.case) = case
<1> DEFINE k == VersionKey(r)
           row == snapshots[k].row
           s == [row EXCEPT !.fill.case = ProviderCase(k.case)]
<1>1. /\ k \in DOMAIN snapshots /\ k.ticker = r.ticker /\ k.year = r.year
      /\ k.metric = "default" /\ k.case = ImportCase(r.fill.case)
  BY DEF IsStored, VersionKey
<1>2. IsRow(row) /\ k = VersionKey(row)
  BY <1>1 DEF SnapshotsHold, StoredIsAccepted
<1>3. row.year = k.year
  BY <1>2 DEF VersionKey
<1>4. s.year = row.year /\ s.fill.case = ProviderCase(k.case)
  BY <1>2 DEF IsRow
<1> HIDE DEF k
<1>5. s \in StoredRows(r.ticker)
  BY <1>1 DEF StoredRows
<1> HIDE DEF s
<1>6. ASSUME NEW case \in {"median", "low"}, LocalCase(r.fill.case) = case
      PROVE  LocalCase(s.fill.case) = case
  <2>1. ImportCase(r.fill.case) # "unknown"
    BY DEF IsStored, Valid
  <2>2. CASE case = "low"
    BY <1>1, <1>4, <1>6, <2>1, <2>2 DEF LocalCase, ImportCase, ProviderCase
  <2>3. CASE case = "median"
    BY <1>1, <1>4, <1>6, <2>1, <2>3 DEF LocalCase, ImportCase, ProviderCase
  <2> QED BY <2>2, <2>3
<1> QED BY <1>1, <1>3, <1>4, <1>5, <1>6

LEMMA PromotionIsSafe == SnapshotsHold /\ ImportsHold => PromotionKeepsProjections
<1> SUFFICES ASSUME SnapshotsHold, ImportsHold,
                    NEW t \in Tickers, NEW case \in {"median", "low"},
                    imported[LocalPath(t)] # NoFile,
                    files[LocalPath(t)] = imported[LocalPath(t)]
             PROVE  LET local == LocalProjection(t, case)
                        stored == StoredProjection(t, case)
                        asked(projection) == {y \in DOMAIN projection :
                                   \E r \in projection[y] : LocalCase(r.fill.case) = case}
                    IN  DOMAIN local \subseteq DOMAIN stored /\ asked(local) \subseteq asked(stored)
  BY DEF PromotionKeepsProjections
<1> DEFINE rows == {r \in LocalRows(t) : r.fill.metric = "default"}
           local == LocalProjection(t, case)
           stored == StoredProjection(t, case)
           At(y) == {r \in StoredRows(t) : r.year = y}
<1>1. /\ DOMAIN local = {r.year : r \in rows}
      /\ \A y \in DOMAIN local : local[y] = Selected({r \in rows : r.year = y}, case)
  BY DEF LocalProjection, Projection
<1>2. /\ DOMAIN stored = {r.year : r \in StoredRows(t)}
      /\ \A y \in DOMAIN stored : stored[y] = Selected(At(y), case)
  BY DEF StoredProjection, Projection
<1>3. ASSUME NEW r \in rows
      PROVE  \E s \in StoredRows(t) :
                 /\ s.year = r.year
                 /\ LocalCase(r.fill.case) = case => LocalCase(s.fill.case) = case
  <2>1. LocalPath(t) \in Paths
    BY DEF LocalPath, Paths
  <2>2. r \in Range(imported[LocalPath(t)]) /\ r.ticker = t /\ r.fill.metric = "default"
    BY DEF LocalRows, Rows
  <2>3. IsStored(r)
    BY <2>1, <2>2 DEF ImportsHold
  <2> QED BY <2>2, <2>3, LocalRowsAreStored
<1> HIDE DEF local, stored, rows
<1>4. DOMAIN local \subseteq DOMAIN stored
  BY <1>1, <1>2, <1>3
<1>5. ASSUME NEW y \in DOMAIN local, NEW r \in local[y], LocalCase(r.fill.case) = case
      PROVE  \E s \in stored[y] : LocalCase(s.fill.case) = case
  <2> DEFINE here == {q \in rows : q.year = y}
  <2>0. local[y] = Selected(here, case)
    BY <1>1
  <2>1. r \in here
    <3> HIDE DEF here
    <3> QED BY <1>5, <2>0, SelectedAreRows
  <2>2. PICK s \in StoredRows(t) : s.year = y /\ LocalCase(s.fill.case) = case
    BY <1>3, <1>5, <2>1
  <2>3. s \in At(y)
    BY <2>2
  <2> HIDE DEF At
  <2>4. s \in Selected(At(y), case)
    BY <2>2, <2>3, AskedIsSelected
  <2>5. stored[y] = Selected(At(y), case)
    BY <1>2, <1>4
  <2> QED BY <2>2, <2>4, <2>5
<1> QED BY <1>4, <1>5 DEF local, stored

\* The import of a forecast file takes nothing from what the terminal showed: of a file
\* that is as it was imported, every projected year is served from the database too, and
\* in the case asked for where the file had it (consensus_projection_from_postgres after
\* the local provider's projection).
THEOREM PromotionIsKept == ForecastSpec => []PromotionKeepsProjections
<1>1. ForecastInv => PromotionKeepsProjections
  BY PromotionIsSafe DEF ForecastInv
<1> QED BY <1>1, ForecastInvariance, PTL

-------------------------------------------------------------------------------
(* The rows are of the tickers, the years and the fills there are. *)

\* Every place of a sorted list holds an element: distinct keys have distinct ranks, and
\* as many ranks as there are elements fill the list.
LEMMA SortedAreElements ==
    ASSUME NEW S, IsFiniteSet(S), NEW key \in [S -> Nat],
           \A x, y \in S : key[x] = key[y] => x = y,
           NEW i \in 1 .. Cardinality(S)
    PROVE  Sorted(S, key)[i] \in S
<1> DEFINE below(x) == {y \in S : key[y] < key[x]}
           n == Cardinality(S)
           rank == [x \in S |-> Cardinality(below(x))]
<1>1. n \in Nat
  BY FS_CardinalityType
<1>2. ASSUME NEW x \in S PROVE rank[x] \in 0 .. n - 1
  <2> DEFINE c == Cardinality(below(x))
  <2>1. below(x) \in SUBSET S /\ x \notin below(x)
    OBVIOUS
  <2>2. IsFiniteSet(below(x)) /\ c <= n /\ c # n
    BY <2>1, FS_Subset
  <2>3. c \in Nat
    BY <2>2, FS_CardinalityType
  <2>4. rank[x] = c
    OBVIOUS
  <2> HIDE DEF c, rank, n
  <2> QED BY <1>1, <2>2, <2>3, <2>4
<1>3. ASSUME NEW x \in S, NEW z \in S, key[x] < key[z] PROVE rank[x] # rank[z]
  <2>1. below(x) \in SUBSET below(z) /\ x \in below(z) /\ x \notin below(x)
    BY <1>3
  <2>2. IsFiniteSet(below(z))
    BY FS_Subset
  <2> HIDE DEF below
  <2>3. Cardinality(below(z)) # Cardinality(below(x))
    BY <2>1, <2>2, FS_Subset
  <2> QED BY <2>3
<1>4. ASSUME NEW x \in S, NEW z \in S, rank[x] = rank[z] PROVE x = z
  <2>1. ~ key[x] < key[z] /\ ~ key[z] < key[x]
    BY <1>3, <1>4
  <2>2. key[x] = key[z]
    BY <2>1
  <2> QED BY <2>2
<1>5. rank \in Injection(S, 0 .. n - 1)
  <2>1. rank \in [S -> 0 .. n - 1]
    BY <1>2
  <2> HIDE DEF rank, n
  <2> QED BY <1>4, <2>1 DEF Injection, IsInjective
<1>6. IsFiniteSet(0 .. n - 1) /\ Cardinality(0 .. n - 1) = n
  <2> HIDE DEF n
  <2>1. 0 \in Int /\ n - 1 \in Int
    BY <1>1
  <2> QED BY <1>1, <2>1, FS_Interval
<1>7. rank \in Surjection(S, 0 .. n - 1)
  BY <1>5, <1>6, FS_Injection
<1>8. i - 1 \in 0 .. n - 1
  BY <1>1
<1>9. \E x \in S : rank[x] = i - 1
  <2> HIDE DEF rank, n
  <2> QED BY <1>7, <1>8 DEF Surjection
<1>10. \E x \in S : Cardinality({y \in S : key[y] < key[x]}) = i - 1
  BY <1>9
<1> QED BY <1>10 DEF Sorted

LEMMA ListedTickers ==
    /\ \A t \in Tickers : Listed(t) \in Nat
    /\ \A t, u \in Tickers : Listed(t) = Listed(u) => t = u
<1> DEFINE all == KR \o US \o JP
<1>1. ASSUME NEW m \in Markets PROVE TickersOf(m) \in Seq(Universe)
  <2>1. TickersOf(m) \in Seq(Range(TickersOf(m)))
    BY CoverageAssumption
  <2>2. Range(TickersOf(m)) \subseteq Universe
    BY DEF Markets, TickersOf, Universe
  <2> QED BY <2>1, <2>2
<1>2. KR \in Seq(Universe) /\ US \in Seq(Universe) /\ JP \in Seq(Universe)
  BY <1>1 DEF Markets, TickersOf
<1>3. /\ all \in Seq(Universe)
      /\ Len(all) = Len(KR) + Len(US) + Len(JP)
      /\ \A i \in 1 .. Len(KR) : all[i] = KR[i]
      /\ \A i \in 1 .. Len(US) : all[Len(KR) + i] = US[i]
      /\ \A i \in 1 .. Len(JP) : all[Len(KR) + Len(US) + i] = JP[i]
  <2> DEFINE two == KR \o US
  <2>1. /\ two \in Seq(Universe) /\ Len(two) = Len(KR) + Len(US)
        /\ \A i \in 1 .. Len(two) :
              two[i] = IF i <= Len(KR) THEN KR[i] ELSE US[i - Len(KR)]
    BY <1>2, ConcatProperties
  <2>2. /\ two \o JP \in Seq(Universe) /\ Len(two \o JP) = Len(two) + Len(JP)
        /\ \A i \in 1 .. Len(two \o JP) :
              (two \o JP)[i] = IF i <= Len(two) THEN two[i] ELSE JP[i - Len(two)]
    <3> HIDE DEF two
    <3>1. two \in Seq(Universe) /\ JP \in Seq(Universe)
      BY <1>2, <2>1
    <3> QED BY <3>1, ConcatProperties
  <2>3. Len(KR) \in Nat /\ Len(US) \in Nat /\ Len(JP) \in Nat
    BY <1>2
  <2>4. all = two \o JP
    OBVIOUS
  <2> HIDE DEF two, all
  <2> QED BY <2>1, <2>2, <2>3, <2>4
<1>4. ASSUME NEW t \in Tickers PROVE Listed(t) \in DOMAIN all /\ all[Listed(t)] = t
  <2>1. t \in Range(KR) \/ t \in Range(US) \/ t \in Range(JP)
    BY ForecastAssumption DEF Universe
  <2>2. DOMAIN all = 1 .. Len(all) /\ Len(KR) \in Nat /\ Len(US) \in Nat /\ Len(JP) \in Nat
    BY <1>2, <1>3
  <2>3. DOMAIN KR = 1 .. Len(KR) /\ DOMAIN US = 1 .. Len(US) /\ DOMAIN JP = 1 .. Len(JP)
    BY <1>2
  <2> HIDE DEF all
  <2>4. ASSUME NEW i \in 1 .. Len(KR) PROVE i \in DOMAIN all
    BY <1>3, <2>2
  <2>5. ASSUME NEW i \in 1 .. Len(US) PROVE Len(KR) + i \in DOMAIN all
    BY <1>3, <2>2
  <2>6. ASSUME NEW i \in 1 .. Len(JP) PROVE Len(KR) + Len(US) + i \in DOMAIN all
    BY <1>3, <2>2
  <2>7. \E i \in DOMAIN all : all[i] = t
    <3>1. CASE t \in Range(KR)
      <4>1. PICK i \in 1 .. Len(KR) : KR[i] = t
        BY <2>3, <3>1 DEF Range
      <4> QED BY <1>3, <2>4, <4>1
    <3>2. CASE t \in Range(US)
      <4>1. PICK i \in 1 .. Len(US) : US[i] = t
        BY <2>3, <3>2 DEF Range
      <4> QED BY <1>3, <2>5, <4>1
    <3>3. CASE t \in Range(JP)
      <4>1. PICK i \in 1 .. Len(JP) : JP[i] = t
        BY <2>3, <3>3 DEF Range
      <4> QED BY <1>3, <2>6, <4>1
    <3> QED BY <2>1, <3>1, <3>2, <3>3
  <2> QED BY <2>7 DEF Listed, all
<1>5. DOMAIN all \subseteq Nat
  BY <1>3
<1> QED BY <1>4, <1>5

\* A row at the fields of which the readers' records are declared.
IsTyped(r) == r.ticker \in Tickers /\ r.year \in Years /\ r.fill \in Filled

LEMMA Quotients ==
    ASSUME NEW c \in Nat, NEW q \in Nat, q > 0, NEW k \in Nat, k < c * q
    PROVE  k \div q \in 0 .. c - 1
<1> DEFINE d == k \div q
<1>1. d \in Nat /\ q * d <= k
  BY Z3
<1> HIDE DEF d
<1>2. ~ c <= d
  <2>1. ASSUME c <= d PROVE FALSE
    <3>1. PICK e \in Nat : d = c + e
      <4>1. d - c \in Nat /\ d = c + (d - c)
        BY <1>1, <2>1
      <4> QED BY <4>1
    <3>2. q * d = q * c + q * e /\ q * e \in Nat /\ c * q = q * c /\ q * c \in Nat
      BY <3>1
    <3> DEFINE a == q * c
               b == q * e
               qd == q * d
               cq == c * q
    <3>3. qd = a + b /\ a \in Nat /\ b \in Nat /\ cq = a /\ qd <= k /\ k < cq
      BY <1>1, <3>2
    <3> HIDE DEF a, b, qd, cq
    <3> QED BY <3>3
  <2> QED BY <2>1
<1> QED BY <1>1, <1>2 DEF d

LEMMA ExportsAreTyped ==
    ASSUME NEW T \in Asking, NEW cases \in {<<"median">>, <<"low", "median">>},
           NEW fill \in {Blank, Deterministic}
    PROVE  \A r \in Range(Written(T, cases, fill)) : IsTyped(r)
<1> DEFINE perYear == Len(cases)
           perTicker == Cardinality(Years) * perYear
           n == Cardinality(T) * perTicker
           tickers == Sorted(T, [t \in T |-> Listed(t)])
           years == Sorted(Years, [y \in Years |-> y])
           w == Written(T, cases, fill)
<1>1. IsFiniteSet(T) /\ IsFiniteSet(Years) /\ T \subseteq Tickers /\ Years # {} /\ Years \subseteq Nat
  BY TickersAreFinite, ForecastAssumption, FS_Subset DEF Asking, ForecastAssumption
<1>2. Cardinality(T) \in Nat /\ Cardinality(Years) \in Nat /\ Cardinality(Years) # 0
  BY <1>1, FS_CardinalityType, FS_EmptySet
<1>3. perYear \in {1, 2}
  OBVIOUS
<1>4. \A i \in 1 .. Cardinality(T) : tickers[i] \in Tickers
  <2> DEFINE key == [t \in T |-> Listed(t)]
  <2>1. key \in [T -> Nat] /\ \A x, y \in T : key[x] = key[y] => x = y
    BY <1>1, ListedTickers
  <2> HIDE DEF key
  <2>2. \A i \in 1 .. Cardinality(T) : Sorted(T, key)[i] \in T
    BY <1>1, <2>1, SortedAreElements
  <2> QED BY <1>1, <2>2 DEF key
<1>5. \A i \in 1 .. Cardinality(Years) : years[i] \in Years
  <2> DEFINE key == [y \in Years |-> y]
  <2>1. key \in [Years -> Nat] /\ \A x, y \in Years : key[x] = key[y] => x = y
    BY <1>1
  <2> HIDE DEF key
  <2>2. \A i \in 1 .. Cardinality(Years) : Sorted(Years, key)[i] \in Years
    BY <1>1, <2>1, SortedAreElements
  <2> QED BY <2>2 DEF key
<1>6. \A j \in 1 .. perYear : cases[j] \in Cases
  BY DEF Cases
<1>7. \A c \in Cases : [fill EXCEPT !.case = c] \in Filled
  <2>1. Blank \in Filled
    BY DEF Blank, Filled, Cases, Qualities
  <2>2. Deterministic \in Filled
    BY <2>1 DEF Deterministic, Filled, Qualities
  <2> QED BY <2>1, <2>2 DEF Filled
<1>8. /\ DOMAIN w = 1 .. n
      /\ \A i \in 1 .. n :
            w[i] = RowOf(tickers[((i - 1) \div perTicker) + 1],
                         years[(((i - 1) % perTicker) \div perYear) + 1],
                         [fill EXCEPT !.case = cases[((i - 1) % perYear) + 1]])
  BY DEF Written
<1> HIDE DEF w, tickers, years, perYear
<1>9. perTicker \in Nat /\ perTicker > 0 /\ n \in Nat
  <2> DEFINE c == Cardinality(Years)
  <2>1. c \in Nat /\ c > 0
    BY <1>2
  <2> HIDE DEF c
  <2>2. c * perYear \in Nat /\ c * perYear > 0
    BY <1>3, <2>1
  <2> QED BY <1>2, <2>2 DEF c
<1> HIDE DEF perTicker, n
<1>10. ASSUME NEW i \in 1 .. n PROVE IsTyped(w[i])
  <2> DEFINE k == i - 1
             rest == k % perTicker
  <2>1. k \in Nat /\ k < Cardinality(T) * perTicker
    BY <1>9 DEF n
  <2>2. rest \in Nat /\ rest < Cardinality(Years) * perYear
    BY <1>9, <2>1 DEF perTicker
  <2>3. (k \div perTicker) + 1 \in 1 .. Cardinality(T)
    <3>1. k \div perTicker \in 0 .. Cardinality(T) - 1
      BY <1>2, <1>9, <2>1, Quotients
    <3> QED BY <1>2, <3>1
  <2>4. (rest \div perYear) + 1 \in 1 .. Cardinality(Years)
    <3>0. perYear \in Nat /\ perYear > 0
      BY <1>3
    <3> HIDE DEF rest
    <3>1. rest \div perYear \in 0 .. Cardinality(Years) - 1
      BY <1>2, <2>2, <3>0, Quotients
    <3> QED BY <1>2, <3>1
  <2>5. (k % perYear) + 1 \in 1 .. perYear
    BY <1>3, <2>1
  <2> DEFINE t == tickers[((i - 1) \div perTicker) + 1]
             y == years[(((i - 1) % perTicker) \div perYear) + 1]
             f == [fill EXCEPT !.case = cases[((i - 1) % perYear) + 1]]
  <2>6. t \in Tickers /\ y \in Years /\ f \in Filled
    BY <1>4, <1>5, <1>6, <1>7, <2>3, <2>4, <2>5
  <2>7. w[i] = RowOf(t, y, f)
    BY <1>8
  <2> HIDE DEF t, y, f
  <2> QED BY <2>6, <2>7 DEF RowOf, IsTyped
<1>11. \A r \in Range(w) : IsTyped(r)
  BY <1>8, <1>10 DEF Range
<1> QED BY <1>11 DEF w


\* A suffix is the end of a sequence; so is its tail.
LEMMA SuffixIsEnd ==
    ASSUME NEW S, NEW s \in Seq(S), NEW t \in Seq(S)
    PROVE  IsSuffix(s, t) <=>
              /\ Len(s) <= Len(t)
              /\ \A i \in 1 .. Len(s) : s[i] = t[Len(t) - Len(s) + i]
<1> DEFINE m == Len(s)
           n == Len(t)
           u == Reverse(s)
           v == Reverse(t)
<1>0. m \in Nat /\ n \in Nat
  OBVIOUS
<1>1. /\ u \in Seq(S) /\ Len(u) = m /\ \A i \in 1 .. m : u[i] = s[m - i + 1]
  <2>1. u = [i \in 1 .. m |-> s[(m - i) + 1]]
    BY DEF Reverse
  <2>2. \A i \in 1 .. m : (m - i) + 1 \in 1 .. m
    BY <1>0
  <2>3. \A i \in 1 .. m : s[(m - i) + 1] \in S
    BY <2>2
  <2> HIDE DEF u, m
  <2> QED BY <1>0, <2>1, <2>3
<1>2. /\ v \in Seq(S) /\ Len(v) = n /\ \A i \in 1 .. n : v[i] = t[n - i + 1]
  <2>1. v = [i \in 1 .. n |-> t[(n - i) + 1]]
    BY DEF Reverse
  <2>2. \A i \in 1 .. n : (n - i) + 1 \in 1 .. n
    BY <1>0
  <2>3. \A i \in 1 .. n : t[(n - i) + 1] \in S
    BY <2>2
  <2> HIDE DEF v, n
  <2> QED BY <1>0, <2>1, <2>3
<1>3. IsSuffix(s, t) <=> m <= n /\ SubSeq(u, 1, m) = SubSeq(v, 1, m)
  <2> HIDE DEF u, v
  <2> QED BY <1>1, <1>2 DEF IsSuffix, IsPrefix, u, v
<1> HIDE DEF u, v, m, n
<1>4. ASSUME m <= n
      PROVE  SubSeq(u, 1, m) = SubSeq(v, 1, m) <=> \A i \in 1 .. m : u[i] = v[i]
  <2>1. SubSeq(u, 1, m) = [i \in 1 .. m |-> u[i]] /\ SubSeq(v, 1, m) = [i \in 1 .. m |-> v[i]]
    BY <1>0, <1>1, <1>2, <1>4
  <2> QED BY <2>1
<1>5. ASSUME m <= n
      PROVE  (\A i \in 1 .. m : u[i] = v[i]) <=> \A i \in 1 .. m : s[i] = t[n - m + i]
  <2>1. ASSUME \A i \in 1 .. m : u[i] = v[i], NEW i \in 1 .. m PROVE s[i] = t[n - m + i]
    <3> DEFINE j == m - i + 1
    <3>1. j \in 1 .. m /\ j \in 1 .. n /\ m - j + 1 = i /\ n - j + 1 = n - m + i
      BY <1>0, <1>5
    <3> HIDE DEF j
    <3> QED BY <1>1, <1>2, <2>1, <3>1
  <2>2. ASSUME \A i \in 1 .. m : s[i] = t[n - m + i], NEW i \in 1 .. m PROVE u[i] = v[i]
    <3> DEFINE j == m - i + 1
    <3>1. j \in 1 .. m /\ i \in 1 .. n /\ n - i + 1 = n - m + j
      BY <1>0, <1>5
    <3>2. u[i] = s[j] /\ v[i] = t[n - i + 1]
      BY <1>1, <1>2, <3>1
    <3> HIDE DEF j
    <3> QED BY <2>2, <3>1, <3>2
  <2> QED BY <2>1, <2>2
<1> QED BY <1>3, <1>4, <1>5 DEF m, n

LEMMA TailStaysSuffix ==
    ASSUME NEW S, NEW s \in Seq(S), NEW t \in Seq(S), s # <<>>, IsSuffix(s, t)
    PROVE  IsSuffix(Tail(s), t)
<1> DEFINE u == Tail(s)
<1>1. u \in Seq(S) /\ Len(u) = Len(s) - 1 /\ \A i \in 1 .. Len(u) : u[i] = s[i + 1]
  BY HeadTailProperties
<1>2. /\ Len(s) <= Len(t) /\ Len(s) \in Nat /\ Len(t) \in Nat
      /\ \A i \in 1 .. Len(s) : s[i] = t[Len(t) - Len(s) + i]
  BY SuffixIsEnd
<1> HIDE DEF u
<1>3. ASSUME NEW i \in 1 .. Len(u) PROVE u[i] = t[Len(t) - Len(u) + i]
  <2>1. i + 1 \in 1 .. Len(s) /\ Len(t) - Len(s) + (i + 1) = Len(t) - Len(u) + i
    BY <1>1, <1>2
  <2> QED BY <1>1, <1>2, <2>1
<1>4. Len(u) <= Len(t)
  BY <1>1, <1>2
<1>5. IsSuffix(u, t)
  BY <1>1, <1>3, <1>4, SuffixIsEnd
<1> QED BY <1>5 DEF u

LEMMA SuffixOfItself == ASSUME NEW S, NEW s \in Seq(S) PROVE IsSuffix(s, s)
<1>1. Len(s) \in Nat /\ \A i \in 1 .. Len(s) : Len(s) - Len(s) + i = i
  OBVIOUS
<1> QED BY <1>1, SuffixIsEnd

RowsTyped(s) == \A r \in Range(s) : IsTyped(r)

ForecastTyped ==
    /\ \A p \in Paths : RowsTyped(files[p]) /\ RowsTyped(imported[p])
    /\ importing # NoImport =>
          RowsTyped(importing.rows) /\ IsSuffix(importing.left, importing.rows)
    /\ cached \subseteq Range(KR) /\ edits \in 0 .. MaxEdits

LEMMA TypedInit == ForecastInit => ForecastTyped
<1> SUFFICES ASSUME ForecastInit PROVE ForecastTyped
  OBVIOUS
<1>1. \A p \in Paths : files[p] = <<>> /\ imported[p] = <<>>
  BY DEF ForecastInit, NoFile
<1>2. RowsTyped(<<>>)
  BY NoRowsAreRows DEF RowsTyped
<1> QED BY <1>1, <1>2, ForecastAssumption DEF ForecastInit, ForecastTyped

\* A write of one file.
LEMMA WritesAreTyped ==
    ASSUME ForecastInv, ForecastTyped, Editing, NEW p \in Paths, NEW s, RowsTyped(s),
           files' = [files EXCEPT ![p] = s] \/ UNCHANGED files,
           UNCHANGED <<importing, imported, cached>>
    PROVE  ForecastTyped'
<1>1. edits' \in 0 .. MaxEdits
  BY ForecastAssumption DEF Editing, ForecastTyped
<1>2. ASSUME NEW q \in Paths PROVE RowsTyped(files'[q])
  <2>1. files'[q] = s \/ files'[q] = files[q]
    BY DEF ForecastInv, FilesHold
  <2> QED BY <2>1 DEF ForecastTyped
<1> QED BY <1>1, <1>2 DEF ForecastTyped

LEMMA EditsAreTyped ==
    ASSUME ForecastInv, ForecastTyped, NEW p \in Paths, NEW fill \in Fills,
           \/ \E t \in Tickers : FillTicker(p, t, fill)
           \/ \E i \in DOMAIN files[p] : EditRow(p, i, fill)
           \/ \E t \in Tickers, y \in Years : AddRow(p, RowOf(t, y, fill))
    PROVE  ForecastTyped'
<1> DEFINE s == files[p]
<1>0. IsRows(s) /\ RowsTyped(s) /\ fill \in Filled
  BY ForecastAssumption DEF ForecastInv, FilesHold, ForecastTyped
<1>1. \A i \in DOMAIN s : IsTyped(s[i]) /\ IsTyped([s[i] EXCEPT !.fill = fill])
  <2>1. \A i \in DOMAIN s : IsTyped(s[i]) /\ IsRow(s[i])
    BY <1>0, RowsHaveIndices DEF RowsTyped
  <2>2. ASSUME NEW r, IsTyped(r), IsRow(r) PROVE IsTyped([r EXCEPT !.fill = fill])
    BY <1>0, <2>2 DEF IsTyped, IsRow
  <2> QED BY <2>1, <2>2
<1>2. CASE \E t \in Tickers : FillTicker(p, t, fill)
  <2>1. PICK t \in Tickers : FillTicker(p, t, fill)
    BY <1>2
  <2> DEFINE g == [i \in DOMAIN s |-> IF s[i].ticker = t /\ s[i].fill.case = "median"
                                     THEN [s[i] EXCEPT !.fill = fill] ELSE s[i]]
  <2>2. files' = [files EXCEPT ![p] = g]
    BY <2>1 DEF FillTicker
  <2>3. RowsTyped(g)
    BY <1>1 DEF RowsTyped, Range
  <2> HIDE DEF g
  <2> QED BY <2>1, <2>2, <2>3, WritesAreTyped DEF FillTicker
<1>3. CASE \E i \in DOMAIN files[p] : EditRow(p, i, fill)
  <2>1. PICK j \in DOMAIN files[p] : EditRow(p, j, fill)
    BY <1>3
  <2> DEFINE g == [s EXCEPT ![j].fill = fill]
  <2>2. files' = [files EXCEPT ![p] = g]
    BY <2>1 DEF EditRow
  <2>3. RowsTyped(g)
    BY <1>1 DEF RowsTyped, Range
  <2> HIDE DEF g
  <2> QED BY <2>1, <2>2, <2>3, WritesAreTyped DEF EditRow
<1>4. CASE \E t \in Tickers, y \in Years : AddRow(p, RowOf(t, y, fill))
  <2>1. PICK t \in Tickers, y \in Years : AddRow(p, RowOf(t, y, fill))
    BY <1>4
  <2> DEFINE r == RowOf(t, y, fill)
             g == Append(s, r)
  <2>2. IsTyped(r)
    BY <1>0 DEF RowOf, IsTyped
  <2>3. files' = [files EXCEPT ![p] = g]
    BY <2>1 DEF AddRow
  <2>4. \A i \in DOMAIN g : g[i] = r \/ (i \in DOMAIN s /\ g[i] = s[i])
    <3>1. s \in Seq(Range(s) \union {r}) /\ Len(s) \in Nat /\ DOMAIN s = 1 .. Len(s)
      BY <1>0, RowsHaveIndices DEF IsRows
    <3> HIDE DEF s, r
    <3> QED BY <3>1, AppendProperties
  <2>5. RowsTyped(g)
    BY <1>1, <2>2, <2>4 DEF RowsTyped, Range
  <2> HIDE DEF g
  <2> QED BY <2>1, <2>3, <2>5, WritesAreTyped DEF AddRow
<1> QED BY <1>2, <1>3, <1>4

LEMMA ImportsAreTyped ==
    ASSUME ForecastInv, ForecastTyped,
           (\E p \in Paths : BeginImport(p)) \/ StoreRow \/ FinishImport \/ FailImport
    PROVE  ForecastTyped'
<1>1. CASE \E p \in Paths : BeginImport(p)
  <2>1. PICK p \in Paths : BeginImport(p)
    BY <1>1
  <2>2. RowsTyped(files[p]) /\ files[p] \in Seq(Range(files[p]))
    BY DEF ForecastInv, FilesHold, IsRows, ForecastTyped
  <2>3. IsSuffix(files[p], files[p])
    BY <2>2, SuffixOfItself
  <2> QED BY <2>1, <2>2, <2>3 DEF BeginImport, ForecastTyped
<1>2. CASE StoreRow
  <2>1. importing # NoImport /\ importing.left # <<>>
        /\ importing' = [importing EXCEPT !.left = Tail(@)]
        /\ UNCHANGED <<files, imported, cached, edits>>
    BY <1>2 DEF StoreRow
  <2>2. /\ importing = [path |-> importing.path, rows |-> importing.rows, left |-> importing.left]
        /\ importing.rows \in Seq(Range(importing.rows))
        /\ importing.left \in Seq(Range(importing.left))
        /\ Range(importing.left) \subseteq Range(importing.rows)
    BY <2>1 DEF ForecastInv, ImportHolds, IsRows
  <2>3. importing.left \in Seq(Range(importing.rows))
    BY <2>2
  <2>4. IsSuffix(Tail(importing.left), importing.rows)
    BY <2>1, <2>2, <2>3, TailStaysSuffix DEF ForecastTyped
  <2>5. importing'.rows = importing.rows /\ importing'.left = Tail(importing.left)
    BY <2>1, <2>2
  <2> QED BY <2>1, <2>4, <2>5 DEF ForecastTyped
<1>3. CASE FinishImport
  <2>1. importing # NoImport /\ importing' = NoImport
        /\ imported' = [imported EXCEPT ![importing.path] = importing.rows]
        /\ UNCHANGED <<files, cached, edits>>
    BY <1>3 DEF FinishImport
  <2>2. ASSUME NEW q \in Paths PROVE RowsTyped(imported'[q])
    <3>1. imported'[q] = imported[q] \/ imported'[q] = importing.rows
      BY <2>1 DEF ForecastInv, ImportsHold
    <3> QED BY <2>1, <3>1 DEF ForecastTyped
  <2> QED BY <2>1, <2>2 DEF ForecastTyped
<1>4. CASE FailImport
  BY <1>4 DEF FailImport, ForecastTyped
<1> QED BY <1>1, <1>2, <1>3, <1>4

LEMMA TypedStep == ForecastInv /\ ForecastTyped /\ [ForecastNext]_forecastVars => ForecastTyped'
<1> SUFFICES ASSUME ForecastInv, ForecastTyped, [ForecastNext]_forecastVars PROVE ForecastTyped'
  OBVIOUS
<1>1. ASSUME NEW p \in Paths, NEW T \in Asking, NEW cases \in {<<"median">>, <<"low", "median">>},
             ExportConsensusTemplate(p, T, cases) \/ ExportDeterministicForecastCsv(p, T)
      PROVE  ForecastTyped'
  <2>1. CASE ExportConsensusTemplate(p, T, cases)
    <3>1. RowsTyped(Written(T, cases, Blank))
      BY ExportsAreTyped DEF RowsTyped
    <3> QED BY <2>1, <3>1, WritesAreTyped DEF ExportConsensusTemplate
  <2>2. CASE ExportDeterministicForecastCsv(p, T)
    <3>1. RowsTyped(Written(T, <<"median">>, Deterministic))
      BY ExportsAreTyped DEF RowsTyped
    <3> QED BY <2>2, <3>1, WritesAreTyped DEF ExportDeterministicForecastCsv
  <2> QED BY <1>1, <2>1, <2>2
<1>2. ASSUME NEW p \in Paths, NEW fill \in Fills,
             \/ \E t \in Tickers : FillTicker(p, t, fill)
             \/ \E i \in DOMAIN files[p] : EditRow(p, i, fill)
             \/ \E t \in Tickers, y \in Years : AddRow(p, RowOf(t, y, fill))
      PROVE  ForecastTyped'
  BY <1>2, EditsAreTyped
<1>3. ASSUME NEW p \in Paths, SaveMarked(p) PROVE ForecastTyped'
  <2>1. RowsTyped(files[p])
    BY DEF ForecastTyped
  <2> QED BY <1>3, <2>1, WritesAreTyped DEF SaveMarked
<1>4. CASE (\E p \in Paths : BeginImport(p)) \/ StoreRow \/ FinishImport \/ FailImport
  BY <1>4, ImportsAreTyped
<1>5. CASE UNCHANGED forecastVars
  BY <1>5 DEF forecastVars, ForecastTyped
<1> QED BY <1>1, <1>2, <1>3, <1>4, <1>5 DEF ForecastNext

\* Whatever the worker exports, the operator edits and an import reads: a row is of a
\* ticker and a year that were asked for, and an import that runs has stored the rows of
\* the file up to a place (export_consensus_template, import_consensus_csv).
THEOREM ForecastTypeCorrect == ForecastSpec => []ForecastTypeOK
<1>1. ForecastTyped => ForecastTypeOK
  BY DEF ForecastTyped, ForecastTypeOK, RowsTyped, IsTyped, Rows
<1>2. ForecastSpec => [](ForecastInv /\ ForecastTyped)
  <2>1. ForecastSpec => []ForecastInv
    BY ForecastInvariance
  <2> QED BY <2>1, TypedInit, TypedStep, PTL DEF ForecastSpec
<1> QED BY <1>1, <1>2, PTL

===============================================================================
