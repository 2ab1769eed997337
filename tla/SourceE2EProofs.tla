----------------------------- MODULE SourceE2EProofs -----------------------------
(***************************************************************************)
(* The orchestrators, for any tickers, flags, environments and number of   *)
(* runs: a run executes the plan it prints, changes nothing once a step    *)
(* has failed, and answers "ok" only of what is stored; and the plan that  *)
(* a coverage report gives for what is missing repairs it.                 *)
(*                                                                         *)
(* What a run answers is decided in its last step, from what is stored     *)
(* then.  The invariant follows every frame up to there: how far it has    *)
(* got and what it has executed (OnCourse), that nothing was asked of it   *)
(* without its prerequisites, and what its report rests on (Founded).  A   *)
(* caller waits at the step that is the nested run.                        *)
(***************************************************************************)
EXTENDS SourceE2E, SequenceTheorems, FiniteSetTheorems, TLAPS

\* The steps a run may consist of.
StepIds ==
    {"run US", "run KR", "run JP", "collect_sec_bulk", "load_sec_bulk_warehouse",
     "normalize_us_batch", "collect_stooq_prices", "collect_opendart",
     "collect_pykrx_prices", "collect_marcap", "build_kr_valuation_inputs",
     "load_kr_valuation_postgres", "collect_jquants", "collect_edinet", "source_coverage"}

Fields == {"kind", "markets", "tickers", "flags", "at", "executed", "failed", "unconfigured",
           "coverage"}

IsFrame(f) ==
    /\ DOMAIN f = Fields
    /\ \/ f.kind = "source" /\ \E m \in Markets : f.markets = <<m>>
       \/ f.kind = "p1" /\ f.markets = <<"US", "KR", "JP">>
       \/ f.kind = "priority" /\ f.markets \in Seq(Markets)
    /\ f.tickers \in Seq(Universe) /\ f.flags \in Flags
    /\ f.kind = "source" /\ f.markets = <<"KR">> => f.tickers = KR
    /\ f.kind = "p1" => \E i \in DOMAIN f.tickers : f.tickers[i] \notin Range(KR)
    /\ f.at \in Nat \ {0}
    /\ f.executed \in Seq(StepIds)
    /\ f.unconfigured => f.kind = "priority"

Reported(f) == f.at > Len(Steps(f))

\* How many steps before the report a run has passed, and how many of them executed.
Passed(f) == IF Reported(f) THEN Len(Steps(f)) - 1 ELSE f.at - 1
Walked(f) == IF Reported(f) THEN Len(f.executed) - 1 ELSE Len(f.executed)

\* Only a priority run that was stopped by a market has passed more than it executed.
OnCourse(f) ==
    /\ f.at <= Len(Steps(f)) + 1
    /\ Reported(f) => f.executed # <<>> /\ Last(f.executed) = "source_coverage"
    /\ \A j \in 1 .. Walked(f) : f.executed[j] = Steps(f)[j]
    /\ Walked(f) <= Passed(f)
    /\ Walked(f) # Passed(f) =>
          f.kind = "priority" /\ ~CallsRun(f) /\ (f.failed # {} \/ f.unconfigured)
    /\ f.kind = "priority" /\ Halted(f) => ~CallsRun(f)

\* A report that says ready is the last step of its run, and of the database where
\* there is one, of the local warehouse only for the KR market.
Evident(f, have) ==
    /\ env.postgres => Covered(have, Range(f.tickers), f.flags.consensus)
    /\ ~env.postgres => f.kind = "source" /\ f.markets = <<"KR">>

Founded(f, have) == f.coverage = "ready" => Reported(f) /\ Evident(f, have)

Allowed(f) == f.kind # "priority" /\ f.at > 1 => MissingPrerequisites(f) = {}

FrameHolds(f, have) == IsFrame(f) /\ OnCourse(f) /\ Founded(f, have) /\ Allowed(f)

\* The frame that called another one waits for it.
Waits(f, g) == CanStep(f) /\ CallsRun(f) /\ g.kind = "source" /\ g.flags = f.flags

StackHolds ==
    \/ stack = <<>>
    \/ stack = <<stack[1]>> /\ FrameHolds(stack[1], stored)
    \/ /\ stack = <<stack[1], stack[2]>> /\ FrameHolds(stack[1], stored)
       /\ FrameHolds(stack[2], stored) /\ Waits(stack[1], stack[2])

\* Only KR valuations are built and loaded into the warehouse.
DiskHolds ==
    /\ DOMAIN disk = {"archives", "raw", "cache", "warehouse", "csv"}
    /\ disk.cache \subseteq Range(KR) /\ disk.warehouse \subseteq Range(KR)

AnswerHolds == OkIsCovered /\ (IsRun => answer.tickers \in Seq(Universe))

E2EInv == StackHolds /\ DiskHolds /\ AnswerHolds
-------------------------------------------------------------------------------
(* Sequences. *)

LEMMA PrefixByIndex ==
    ASSUME NEW S, NEW s \in Seq(S), NEW t \in Seq(S), Len(s) <= Len(t),
           \A j \in 1 .. Len(s) : s[j] = t[j]
    PROVE  IsPrefix(s, t)
<1>1. Len(s) \in Nat /\ Len(t) \in Nat
  BY LenProperties
<1>2. \A j \in 1 .. Len(s) : s[j] \in S /\ t[j] \in S
  BY <1>1, ElementOfSeq
<1> DEFINE a == SubSeq(s, 1, Len(s))
           b == SubSeq(t, 1, Len(s))
<1>3. a \in Seq(S) /\ Len(a) = Len(s) /\ \A j \in 1 .. Len(s) : a[j] = s[j]
  BY <1>1, <1>2, SubSeqProperties
<1>4. b \in Seq(S) /\ Len(b) = Len(s) /\ \A j \in 1 .. Len(s) : b[j] = t[j]
  BY <1>1, <1>2, SubSeqProperties
<1> HIDE DEF a, b
<1>5. a = b
  BY <1>3, <1>4, SeqEqual
<1> QED
  BY <1>5 DEF IsPrefix, a, b

LEMMA AppendToOne ==
    ASSUME NEW f, NEW g
    PROVE  Append(<<f>>, g) = <<f, g>>
<1>1. <<f>> \in Seq({f, g}) /\ Len(<<f>>) = 1 /\ <<f>>[1] = f
  OBVIOUS
<1>2. <<f, g>> \in Seq({f, g}) /\ Len(<<f, g>>) = 2 /\ <<f, g>>[1] = f /\ <<f, g>>[2] = g
  OBVIOUS
<1> DEFINE a == Append(<<f>>, g)
<1>3. a \in Seq({f, g}) /\ Len(a) = 2 /\ a[1] = f /\ a[2] = g
  BY <1>1, AppendProperties
<1> HIDE DEF a
<1>4. a = <<f, g>>
  BY <1>2, <1>3, SeqEqual
<1> QED
  BY <1>4 DEF a

\* The stack has one or two frames, and a step replaces the innermost.
LEMMA OneFrame ==
    ASSUME NEW f, stack = <<f>>
    PROVE  /\ Top = f /\ Len(stack) = 1 /\ ~Idle
           /\ \A g : Append(Below, g) = <<g>> /\ Append(stack, g) = <<f, g>>
<1>1. Len(stack) = 1 /\ Top = f /\ ~Idle
  BY DEF Top, Idle
<1>2. Below = <<>>
  BY <1>1, SubSeqEmpty DEF Below
<1>3. ASSUME NEW g PROVE Append(Below, g) = <<g>>
  <2>1. Append(<<>>, g) = <<g>>
    OBVIOUS
  <2> QED
    BY <1>2, <2>1
<1>4. ASSUME NEW g PROVE Append(stack, g) = <<f, g>>
  BY AppendToOne
<1> QED
  BY <1>1, <1>3, <1>4

LEMMA TwoFrames ==
    ASSUME NEW f, NEW h, stack = <<f, h>>
    PROVE  /\ Top = h /\ Len(stack) = 2 /\ ~Idle /\ stack[Len(stack) - 1] = f
           /\ \A g : /\ Append(Below, g) = <<f, g>>
                     /\ Append(SubSeq(stack, 1, Len(stack) - 2), g) = <<g>>
<1>1. Len(stack) = 2 /\ Top = h /\ ~Idle /\ stack[Len(stack) - 1] = f
  BY DEF Top, Idle
<1>2. SubSeq(stack, 1, Len(stack) - 2) = <<>>
  BY <1>1, SubSeqEmpty
<1>3. Below = <<f>>
  <2>1. \A i \in 1 .. 1 : stack[i] \in {f}
    OBVIOUS
  <2>2. /\ Below \in Seq({f}) /\ Len(Below) = 1
        /\ \A i \in 1 .. 1 : Below[i] = stack[i]
    BY <1>1, <2>1, SubSeqProperties DEF Below
  <2>3. Below[1] = f
    BY <2>2
  <2>4. <<f>> \in Seq({f}) /\ Len(<<f>>) = 1 /\ <<f>>[1] = f
    OBVIOUS
  <2> QED
    BY <2>2, <2>3, <2>4, SeqEqual
<1>4. ASSUME NEW g
      PROVE  Append(Below, g) = <<f, g>> /\ Append(SubSeq(stack, 1, Len(stack) - 2), g) = <<g>>
  <2>1. Append(<<>>, g) = <<g>>
    OBVIOUS
  <2> QED
    BY <1>2, <1>3, <2>1, AppendToOne
<1> QED
  BY <1>1, <1>4

-------------------------------------------------------------------------------
(* Frames. *)

\* The steps of a run are its plan, and end with the report.
StepsArePlanned(f) ==
    /\ Steps(f) \in Seq(StepIds) /\ Len(Steps(f)) \in Nat \ {0}
    /\ Steps(f) = PlannedSteps(f.kind, f.markets)
    /\ \A j \in 1 .. Len(Steps(f)) : Steps(f)[j] = "source_coverage" <=> j = Len(Steps(f))
    /\ f.kind = "priority" => Len(Steps(f)) = Len(f.markets) + 1
    /\ CallsRun(f) => f.at < Len(Steps(f))
    /\ \A j \in 1 .. Len(Steps(f)) : Steps(f)[j] = "build_kr_valuation_inputs" =>
          f.kind = "source" /\ f.markets = <<"KR">>

\* Appending to a tuple, which the prover does not compute.
LEMMA AppendIsTuple ==
    ASSUME NEW S, NEW s \in Seq(S), NEW e \in S, NEW t \in Seq(S), Len(t) = Len(s) + 1,
           \A j \in 1 .. Len(s) : t[j] = s[j], t[Len(s) + 1] = e
    PROVE  Append(s, e) = t
<1> DEFINE a == Append(s, e)
<1>1. /\ a \in Seq(S) /\ Len(a) = Len(s) + 1
      /\ \A j \in 1 .. Len(s) : a[j] = s[j]
      /\ a[Len(s) + 1] = e
  BY AppendProperties
<1>2. Len(s) \in Nat
  BY LenProperties
<1> HIDE DEF a
<1>3. \A j \in 1 .. Len(a) : a[j] = t[j]
  BY <1>1, <1>2
<1>4. a = t
  BY <1>1, <1>3, SeqEqual
<1> QED
  BY <1>4 DEF a

LEMMA SourceStepsArePlanned ==
    ASSUME NEW f, IsFrame(f), f.kind = "source" PROVE StepsArePlanned(f)
<1>1. CASE f.markets = <<"US">>
  <2> DEFINE s == <<"collect_sec_bulk", "load_sec_bulk_warehouse",
                    "normalize_us_batch", "collect_stooq_prices">>
             t == <<"collect_sec_bulk", "load_sec_bulk_warehouse",
                    "normalize_us_batch", "collect_stooq_prices", "source_coverage">>
  <2>1. s \in Seq(StepIds) /\ t \in Seq(StepIds) /\ Len(s) = 4 /\ Len(t) = 5
    BY DEF StepIds
  <2>2. (\A j \in 1 .. 4 : t[j] = s[j]) /\ t[5] = "source_coverage"
    OBVIOUS
  <2>3. Append(s, "source_coverage") = t
    <3> HIDE DEF s, t
    <3>1. "source_coverage" \in StepIds
      BY DEF StepIds
    <3>2. /\ Len(t) = Len(s) + 1 /\ t[Len(s) + 1] = "source_coverage"
          /\ \A j \in 1 .. Len(s) : t[j] = s[j]
      BY <2>1, <2>2
    <3> HIDE DEF StepIds
    <3> QED
      BY <2>1, <3>1, <3>2, AppendIsTuple, Zenon
  <2>4. SourceSteps(f.markets[1]) = s
    BY <1>1 DEF SourceSteps
  <2>5. Steps(f) = t
    BY <2>3, <2>4 DEF Steps
  <2>6. PlannedSteps(f.kind, f.markets) = t
    BY <1>1 DEF PlannedSteps
  <2>7. \A j \in 1 .. Len(t) : t[j] = "source_coverage" <=> j = Len(t)
    OBVIOUS
  <2>8. \A j \in 1 .. Len(t) : t[j] = "build_kr_valuation_inputs" => f.markets = <<"KR">>
    OBVIOUS
  <2>9. ~CallsRun(f)
    BY DEF CallsRun
  <2> QED
    BY <2>1, <2>5, <2>6, <2>7, <2>8, <2>9 DEF StepsArePlanned
<1>2. CASE f.markets = <<"KR">>
  <2> DEFINE s == <<"collect_opendart", "collect_pykrx_prices", "collect_marcap",
                    "build_kr_valuation_inputs", "load_kr_valuation_postgres">>
             t == <<"collect_opendart", "collect_pykrx_prices", "collect_marcap",
                    "build_kr_valuation_inputs", "load_kr_valuation_postgres",
                    "source_coverage">>
  <2>1. s \in Seq(StepIds) /\ t \in Seq(StepIds) /\ Len(s) = 5 /\ Len(t) = 6
    BY DEF StepIds
  <2>2. (\A j \in 1 .. 5 : t[j] = s[j]) /\ t[6] = "source_coverage"
    OBVIOUS
  <2>3. Append(s, "source_coverage") = t
    <3> HIDE DEF s, t
    <3>1. "source_coverage" \in StepIds
      BY DEF StepIds
    <3>2. /\ Len(t) = Len(s) + 1 /\ t[Len(s) + 1] = "source_coverage"
          /\ \A j \in 1 .. Len(s) : t[j] = s[j]
      BY <2>1, <2>2
    <3> HIDE DEF StepIds
    <3> QED
      BY <2>1, <3>1, <3>2, AppendIsTuple, Zenon
  <2>4. SourceSteps(f.markets[1]) = s
    BY <1>2 DEF SourceSteps
  <2>5. Steps(f) = t
    BY <2>3, <2>4 DEF Steps
  <2>6. PlannedSteps(f.kind, f.markets) = t
    BY <1>2 DEF PlannedSteps
  <2>7. \A j \in 1 .. Len(t) : t[j] = "source_coverage" <=> j = Len(t)
    OBVIOUS
  <2>8. \A j \in 1 .. Len(t) : t[j] = "build_kr_valuation_inputs" => f.markets = <<"KR">>
    BY <1>2
  <2>9. ~CallsRun(f)
    BY DEF CallsRun
  <2> QED
    BY <2>1, <2>5, <2>6, <2>7, <2>8, <2>9 DEF StepsArePlanned
<1>3. CASE f.markets = <<"JP">>
  <2> DEFINE s == <<"collect_jquants", "collect_edinet", "collect_stooq_prices">>
             t == <<"collect_jquants", "collect_edinet", "collect_stooq_prices",
                    "source_coverage">>
  <2>1. s \in Seq(StepIds) /\ t \in Seq(StepIds) /\ Len(s) = 3 /\ Len(t) = 4
    BY DEF StepIds
  <2>2. (\A j \in 1 .. 3 : t[j] = s[j]) /\ t[4] = "source_coverage"
    OBVIOUS
  <2>3. Append(s, "source_coverage") = t
    <3> HIDE DEF s, t
    <3>1. "source_coverage" \in StepIds
      BY DEF StepIds
    <3>2. /\ Len(t) = Len(s) + 1 /\ t[Len(s) + 1] = "source_coverage"
          /\ \A j \in 1 .. Len(s) : t[j] = s[j]
      BY <2>1, <2>2
    <3> HIDE DEF StepIds
    <3> QED
      BY <2>1, <3>1, <3>2, AppendIsTuple, Zenon
  <2>4. SourceSteps(f.markets[1]) = s
    BY <1>3 DEF SourceSteps
  <2>5. Steps(f) = t
    BY <2>3, <2>4 DEF Steps
  <2>6. PlannedSteps(f.kind, f.markets) = t
    BY <1>3 DEF PlannedSteps
  <2>7. \A j \in 1 .. Len(t) : t[j] = "source_coverage" <=> j = Len(t)
    OBVIOUS
  <2>8. \A j \in 1 .. Len(t) : t[j] = "build_kr_valuation_inputs" => f.markets = <<"KR">>
    OBVIOUS
  <2>9. ~CallsRun(f)
    BY DEF CallsRun
  <2> QED
    BY <2>1, <2>5, <2>6, <2>7, <2>8, <2>9 DEF StepsArePlanned
<1> QED
  BY <1>1, <1>2, <1>3 DEF IsFrame, Markets

LEMMA P1StepsArePlanned ==
    ASSUME NEW f, IsFrame(f), f.kind = "p1" PROVE StepsArePlanned(f)
<1> DEFINE t == <<"run US", "collect_opendart", "collect_pykrx_prices", "collect_marcap",
                  "collect_jquants", "collect_edinet", "collect_stooq_prices",
                  "source_coverage">>
<1>1. /\ P1Steps \in Seq(StepIds) /\ Len(P1Steps) = 7
      /\ t \in Seq(StepIds) /\ Len(t) = 8 /\ "source_coverage" \in StepIds
  BY DEF StepIds, P1Steps
<1>2. (\A j \in 1 .. 7 : t[j] = P1Steps[j]) /\ t[8] = "source_coverage"
  BY DEF P1Steps
<1>3. Append(P1Steps, "source_coverage") = t
  <2> HIDE DEF t
  <2>1. /\ Len(t) = Len(P1Steps) + 1 /\ t[Len(P1Steps) + 1] = "source_coverage"
        /\ \A j \in 1 .. Len(P1Steps) : t[j] = P1Steps[j]
    BY <1>1, <1>2
  <2> QED
    BY <1>1, <2>1, AppendIsTuple, Zenon
<1>4. Steps(f) = t
  BY <1>3 DEF Steps
<1>5. PlannedSteps(f.kind, f.markets) = t
  BY DEF PlannedSteps
<1>6. ASSUME NEW j \in 1 .. 8
      PROVE  (t[j] = "source_coverage" <=> j = 8) /\ t[j] # "build_kr_valuation_inputs"
  <2>1. /\ t[1] = "run US" /\ t[2] = "collect_opendart" /\ t[3] = "collect_pykrx_prices"
        /\ t[4] = "collect_marcap" /\ t[5] = "collect_jquants" /\ t[6] = "collect_edinet"
        /\ t[7] = "collect_stooq_prices" /\ t[8] = "source_coverage"
    OBVIOUS
  <2> HIDE DEF t
  <2>2. j \in 1 .. 7 \/ j = 8
    OBVIOUS
  <2>3. j \in 1 .. 7 =>
           t[j] \in {"run US", "collect_opendart", "collect_pykrx_prices", "collect_marcap",
                    "collect_jquants", "collect_edinet", "collect_stooq_prices"}
    <3>1. j \in 1 .. 7 => j = 1 \/ j = 2 \/ j = 3 \/ j = 4 \/ j = 5 \/ j = 6 \/ j = 7
      OBVIOUS
    <3> QED
      BY <2>1, <3>1, Zenon
  <2> QED
    BY <2>1, <2>2, <2>3
<1>7. CallsRun(f) => f.at < 8
  BY DEF CallsRun
<1> HIDE DEF t
<1> QED
  <2>1. /\ Steps(f) \in Seq(StepIds) /\ Len(Steps(f)) = 8
        /\ Steps(f) = PlannedSteps(f.kind, f.markets)
    BY <1>1, <1>4, <1>5
  <2>2. \A j \in 1 .. 8 : /\ Steps(f)[j] = "source_coverage" <=> j = 8
                         /\ Steps(f)[j] # "build_kr_valuation_inputs"
    BY <1>4, <1>6
  <2> QED
    BY <1>7, <2>1, <2>2 DEF StepsArePlanned

LEMMA PriorityStepsArePlanned ==
    ASSUME NEW f, IsFrame(f), f.kind = "priority" PROVE StepsArePlanned(f)
<1> DEFINE n == Len(f.markets)
           s == [i \in 1 .. n |-> RunId[f.markets[i]]]
           t == <<"source_coverage">>
<1>1. n \in Nat /\ \A i \in 1 .. n : f.markets[i] \in Markets
  BY LenProperties, ElementOfSeq DEF IsFrame
<1>2. \A i \in 1 .. n : s[i] \in {"run KR", "run US", "run JP"}
  <2>1. \A m \in Markets : RunId[m] \in {"run KR", "run US", "run JP"}
    <3>1. RunId["KR"] = "run KR" /\ RunId["US"] = "run US" /\ RunId["JP"] = "run JP"
      BY DEF RunId
    <3> QED
      BY <3>1 DEF Markets
  <2> QED
    BY <1>1, <2>1
<1>3. s \in Seq(StepIds) /\ Len(s) = n
  <2>1. s \in [1 .. n -> StepIds]
    BY <1>2 DEF StepIds
  <2> QED
    BY <1>1, <2>1
<1>4. t \in Seq(StepIds) /\ Len(t) = 1 /\ t[1] = "source_coverage"
  BY DEF StepIds
<1> HIDE DEF s, t
<1>5. /\ s \o t \in Seq(StepIds) /\ Len(s \o t) = n + 1
      /\ \A i \in 1 .. n : (s \o t)[i] = s[i]
      /\ (s \o t)[n + 1] = "source_coverage"
  <2>1. /\ s \o t \in Seq(StepIds) /\ Len(s \o t) = Len(s) + Len(t)
        /\ \A i \in 1 .. Len(s) + Len(t) :
              (s \o t)[i] = IF i <= Len(s) THEN s[i] ELSE t[i - Len(s)]
    BY ZenonT(60), <1>3, <1>4, ConcatProperties
  <2> QED
    BY <1>1, <1>3, <1>4, <2>1
<1>6. Steps(f) = s \o t
  BY DEF Steps, s, t
<1>7. PlannedSteps(f.kind, f.markets) = s \o t
  BY DEF PlannedSteps, s, t
<1>8. ASSUME NEW j \in 1 .. n + 1
      PROVE  /\ (s \o t)[j] = "source_coverage" <=> j = n + 1
             /\ (s \o t)[j] # "build_kr_valuation_inputs"
  <2>1. CASE j = n + 1
    BY <1>5, <2>1
  <2>2. CASE j # n + 1
    <3>1. j \in 1 .. n
      BY <1>1, <2>2
    <3>2. (s \o t)[j] \in {"run KR", "run US", "run JP"}
      BY <1>2, <1>5, <3>1
    <3> QED
      BY <2>2, <3>2
  <2> QED
    BY <2>1, <2>2
<1>9. CallsRun(f) => f.at < n + 1
  BY <1>1 DEF CallsRun, IsFrame
<1> QED
  BY SMTT(40), <1>1, <1>5, <1>6, <1>7, <1>8, <1>9 DEF StepsArePlanned

LEMMA FrameStepsArePlanned ==
    ASSUME NEW f, IsFrame(f) PROVE StepsArePlanned(f)
BY SourceStepsArePlanned, P1StepsArePlanned, PriorityStepsArePlanned DEF IsFrame


\* What a step does to its frame.
NestsMarket(f, id) == f.kind = "priority" /\ id # "source_coverage"
Stops(f, id, status) ==
    NestsMarket(f, id) /\ ~f.flags.cont /\ status \in {"failed", "needs_configuration"}

FollowsFrom(g, f, id, status) ==
    /\ DOMAIN g = Fields
    /\ g.kind = f.kind /\ g.markets = f.markets /\ g.flags = f.flags
    /\ g.executed = Append(f.executed, id)
    /\ g.coverage = IF id = "source_coverage" THEN status ELSE f.coverage
    /\ g.at = IF Stops(f, id, status) THEN Len(f.markets) + 1 ELSE f.at + 1
    /\ g.tickers = IF NestsMarket(f, id) THEN f.tickers \o TickersOf(f.markets[f.at])
                                         ELSE f.tickers
    /\ g.unconfigured =
          (f.unconfigured \/ (NestsMarket(f, id) /\ status = "needs_configuration"))
    /\ NestsMarket(f, id) /\ status = "failed" => g.failed # {}
    /\ f.failed # {} => g.failed # {}
    /\ f.kind = "priority" /\ status # "failed" => g.failed = f.failed

LEMMA AfterFields ==
    ASSUME NEW f, DOMAIN f = Fields, NEW id, NEW status
    PROVE  FollowsFrom(After(f, id, status), f, id, status)
<1> DEFINE g == After(f, id, status)
           nested == f.kind = "priority" /\ id # "source_coverage"
           bad == IF f.kind = "priority" THEN status = "failed" ELSE status \in {"failed", "partial"}
           stops == nested /\ ~ f.flags.cont /\ status \in {"failed", "needs_configuration"}
<1>1. DOMAIN g = Fields
  BY DEF After
<1>2. g.kind = f.kind /\ g.markets = f.markets /\ g.flags = f.flags
  BY DEF After
<1>3. g.executed = Append(f.executed, id)
  BY DEF After, Fields
<1>4. g.coverage = IF id = "source_coverage" THEN status ELSE f.coverage
  BY DEF After, Fields
<1>5. g.at = IF stops THEN Len(f.markets) + 1 ELSE f.at + 1
  BY DEF After, Fields
<1>6. g.tickers = IF nested THEN f.tickers \o TickersOf(f.markets[f.at]) ELSE f.tickers
  BY DEF After, Fields
<1>7. g.unconfigured = (f.unconfigured \/ (nested /\ status = "needs_configuration"))
  BY DEF After, Fields
<1>8. g.failed = IF bad THEN f.failed \union {id} ELSE f.failed
  BY DEF After, Fields
<1> HIDE DEF g
<1>9. /\ nested /\ status = "failed" => g.failed # {}
      /\ f.failed # {} => g.failed # {}
      /\ f.kind = "priority" /\ status # "failed" => g.failed = f.failed
  BY <1>8
<1> HIDE DEF nested, bad, stops
<1> QED
  BY <1>1, <1>2, <1>3, <1>4, <1>5, <1>6, <1>7, <1>9 DEF g, nested, stops, NestsMarket, Stops,
        FollowsFrom

LEMMA StepsOfMarkets ==
    ASSUME NEW f, NEW g, f.kind = g.kind, f.markets = g.markets
    PROVE  Steps(f) = Steps(g)
BY DEF Steps

LEMMA TickersAreKnown ==
    ASSUME NEW m \in Markets PROVE TickersOf(m) \in Seq(Universe)
<1>1. TickersOf(m) \in Seq(Range(TickersOf(m)))
  BY CoverageAssumption
<1>2. Range(TickersOf(m)) \subseteq Universe
  BY DEF Universe, TickersOf, Markets
<1> QED
  BY <1>1, <1>2, SeqMonotonic

\* Where a frame is that still has a step to take.
LEMMA FrameAtStep ==
    ASSUME NEW f, IsFrame(f), OnCourse(f), CanStep(f)
    PROVE  /\ StepsArePlanned(f) /\ f.at \in 1 .. Len(Steps(f)) /\ ~Reported(f)
           /\ Steps(f)[f.at] \in StepIds
           /\ f.kind = "priority" => (CallsRun(f) <=> Steps(f)[f.at] # "source_coverage")
           /\ CallsRun(f) => Steps(f)[f.at] # "source_coverage" /\ ~Halted(f)
           /\ f.kind # "priority" => ~Halted(f)
           /\ f.at < Len(Steps(f)) => Len(f.executed) = f.at - 1
<1>1. StepsArePlanned(f)
  BY FrameStepsArePlanned
<1>2. f.at \in 1 .. Len(Steps(f)) /\ ~Reported(f) /\ (f.kind # "priority" => ~Halted(f))
  BY <1>1 DEF CanStep, Done, Reported, StepsArePlanned, IsFrame
<1>3. Steps(f)[f.at] \in StepIds
  BY <1>1, <1>2, ElementOfSeq DEF StepsArePlanned
<1>4. f.kind = "priority" => (CallsRun(f) <=> f.at # Len(Steps(f))) /\ Len(f.markets) \in Nat
  <2>1. f.kind = "priority" => Len(f.markets) \in Nat /\ Len(Steps(f)) = Len(f.markets) + 1
    BY <1>1, LenProperties DEF StepsArePlanned, IsFrame
  <2> QED
    BY <1>2, <2>1 DEF CallsRun
<1>5. f.kind = "priority" => (CallsRun(f) <=> Steps(f)[f.at] # "source_coverage")
  BY <1>1, <1>2, <1>4 DEF StepsArePlanned
<1>6. CallsRun(f) => Steps(f)[f.at] # "source_coverage" /\ ~Halted(f)
  <2>1. CallsRun(f) => Steps(f)[f.at] # "source_coverage"
    BY <1>1, <1>2 DEF StepsArePlanned
  <2>2. CallsRun(f) => ~Halted(f)
    BY <1>2 DEF OnCourse
  <2> QED
    BY <2>1, <2>2
<1>7. f.at < Len(Steps(f)) => Len(f.executed) = f.at - 1
  <2>1. SUFFICES ASSUME f.at < Len(Steps(f)) PROVE Len(f.executed) = f.at - 1
    OBVIOUS
  <2>2. Walked(f) = Passed(f)
    BY <1>4, <2>1 DEF OnCourse
  <2> QED
    BY <1>2, <2>2 DEF Walked, Passed
<1> QED
  BY <1>1, <1>2, <1>3, <1>5, <1>6, <1>7

LEMMA AfterIsFrame ==
    ASSUME NEW f, IsFrame(f), OnCourse(f), CanStep(f), NEW status
    PROVE  IsFrame(After(f, Steps(f)[f.at], status))
<1> DEFINE id == Steps(f)[f.at]
           g == After(f, id, status)
           nested == NestsMarket(f, id)
<1>1. DOMAIN f = Fields /\ f.executed \in Seq(StepIds) /\ f.at \in Nat \ {0}
  BY DEF IsFrame
<1>2. id \in StepIds /\ (nested <=> f.kind = "priority" /\ CallsRun(f))
  BY FrameAtStep DEF NestsMarket
<1>3. /\ DOMAIN g = Fields /\ g.kind = f.kind /\ g.markets = f.markets /\ g.flags = f.flags
      /\ g.executed = Append(f.executed, id)
      /\ g.at = f.at + 1 \/ (nested /\ g.at = Len(f.markets) + 1)
      /\ g.tickers = IF nested THEN f.tickers \o TickersOf(f.markets[f.at]) ELSE f.tickers
      /\ g.unconfigured => f.unconfigured \/ nested
  <2>1. FollowsFrom(g, f, id, status)
    BY <1>1, AfterFields
  <2> HIDE DEF g, id, nested
  <2> QED
    BY <2>1 DEF FollowsFrom, Stops, nested
<1> HIDE DEF g, id
<1>4. g.executed \in Seq(StepIds)
  BY <1>1, <1>2, <1>3, AppendProperties
<1>5. nested => Len(f.markets) \in Nat /\ f.markets[f.at] \in Markets
  BY <1>1, <1>2, LenProperties, ElementOfSeq DEF CallsRun, IsFrame
<1>6. g.at \in Nat \ {0}
  BY <1>1, <1>3, <1>5
<1>7. g.tickers \in Seq(Universe)
  <2>1. f.tickers \in Seq(Universe)
    BY DEF IsFrame
  <2>2. CASE nested
    BY <1>3, <1>5, <2>1, <2>2, TickersAreKnown, ConcatProperties
  <2>3. CASE ~nested
    BY <1>3, <2>1, <2>3
  <2> QED
    BY <2>2, <2>3
<1>8. g.kind = "source" /\ g.markets = <<"KR">> => g.tickers = KR
  BY <1>3 DEF IsFrame, NestsMarket
<1>9. g.unconfigured => g.kind = "priority"
  BY <1>3 DEF IsFrame, NestsMarket
<1>10. g.kind = "p1" => \E i \in DOMAIN g.tickers : g.tickers[i] \notin Range(KR)
  BY <1>3 DEF IsFrame, NestsMarket
<1> QED
  <2>1. IsFrame(g)
    BY <1>3, <1>4, <1>6, <1>7, <1>8, <1>9, <1>10 DEF IsFrame
  <2> QED
    BY <2>1 DEF g, id

LEMMA AfterIsOnCourse ==
    ASSUME NEW f, IsFrame(f), OnCourse(f), CanStep(f), NEW status
    PROVE  OnCourse(After(f, Steps(f)[f.at], status))
<1> DEFINE id == Steps(f)[f.at]
           g == After(f, id, status)
           n == Len(Steps(f))
<1> SUFFICES OnCourse(g)
  OBVIOUS
<1>1. /\ StepsArePlanned(f) /\ f.at \in 1 .. n /\ ~Reported(f) /\ id \in StepIds
      /\ f.kind = "priority" => (CallsRun(f) <=> id # "source_coverage")
      /\ f.at < n => Len(f.executed) = f.at - 1
  BY FrameAtStep
<1>2. /\ n \in Nat \ {0} /\ (id = "source_coverage" <=> f.at = n)
      /\ f.kind = "priority" => n = Len(f.markets) + 1
  BY <1>1 DEF StepsArePlanned
<1>3. FollowsFrom(g, f, id, status)
  BY AfterFields DEF IsFrame
<1>4. IsFrame(g)
  BY AfterIsFrame
<1> HIDE DEF g
<1>5. Steps(g) = Steps(f)
  <2>1. f.kind = g.kind /\ f.markets = g.markets
    BY <1>3 DEF FollowsFrom
  <2> QED
    BY <2>1, StepsOfMarkets
<1> HIDE DEF id
<1>6. /\ f.executed \in Seq(StepIds) /\ Len(f.executed) \in Nat /\ Len(g.executed) = Len(f.executed) + 1
      /\ \A j \in 1 .. Len(f.executed) : g.executed[j] = f.executed[j]
      /\ g.executed[Len(f.executed) + 1] = id
      /\ g.executed # <<>> /\ Last(g.executed) = id
  <2>1. f.executed \in Seq(StepIds) /\ g.executed = Append(f.executed, id)
    BY <1>3 DEF FollowsFrom, IsFrame
  <2> QED
    BY <1>1, <2>1, AppendProperties, LenProperties DEF Last
<1>7. g.at \in Nat \ {0} /\ f.at \in Nat \ {0}
  BY <1>4 DEF IsFrame
\* the step is the report: nothing is left to do
<1>8. CASE f.at = n
  <2>1. g.at = n + 1
    BY <1>2, <1>3, <1>8 DEF FollowsFrom, Stops, NestsMarket
  <2>2. Reported(g) /\ Passed(g) = n - 1 /\ Walked(g) = Len(f.executed)
    BY <1>2, <1>5, <1>6, <2>1 DEF Reported, Passed, Walked
  <2>3. Passed(f) = n - 1 /\ Walked(f) = Len(f.executed)
    BY <1>1, <1>8 DEF Reported, Passed, Walked
  <2>4. \A j \in 1 .. Walked(g) : g.executed[j] = Steps(g)[j]
    BY <1>5, <1>6, <2>2, <2>3 DEF OnCourse
  <2>5. ~CallsRun(g)
    <3>1. StepsArePlanned(g)
      BY <1>4, FrameStepsArePlanned
    <3> QED
      BY <1>2, <1>5, <2>1, <3>1 DEF StepsArePlanned
  <2>6. Walked(g) # Passed(g) => g.kind = "priority" /\ (g.failed # {} \/ g.unconfigured)
    BY <1>3, <2>2, <2>3 DEF OnCourse, FollowsFrom
  <2>7. Walked(g) <= Passed(g)
    BY <2>2, <2>3 DEF OnCourse
  <2> QED
    BY <1>2, <1>5, <1>6, <1>8, <2>1, <2>2, <2>4, <2>5, <2>6, <2>7 DEF OnCourse
\* a step before it
<1>9. CASE f.at < n
  <2>1. g.at \in 1 .. n /\ f.at < g.at
    BY <1>1, <1>2, <1>3, <1>7, <1>9 DEF FollowsFrom, Stops, NestsMarket
  <2>2. ~Reported(g) /\ Passed(g) = g.at - 1 /\ Walked(g) = f.at
    BY <1>1, <1>5, <1>6, <1>9, <2>1 DEF Reported, Passed, Walked
  <2>3. Walked(f) = f.at - 1
    BY <1>1, <1>9 DEF Walked
  <2>4. \A j \in 1 .. Walked(g) : g.executed[j] = Steps(g)[j]
    <3>1. \A j \in 1 .. f.at - 1 : f.executed[j] = Steps(f)[j]
      BY <2>3 DEF OnCourse
    <3>2. SUFFICES ASSUME NEW j \in 1 .. f.at PROVE g.executed[j] = Steps(f)[j]
      BY <1>5, <2>2
    <3>3. CASE j = f.at
      BY <1>1, <1>6, <1>7, <1>9, <3>3 DEF id
    <3>4. CASE j \in 1 .. f.at - 1
      BY <1>1, <1>6, <1>9, <3>1, <3>4
    <3> QED
      BY <1>7, <3>3, <3>4
  <2>5. Walked(g) <= Passed(g)
    BY <1>7, <2>1, <2>2
  <2>6. CASE Stops(f, id, status)
    <3>1. /\ g.kind = "priority" /\ g.at = n /\ g.at = Len(g.markets) + 1
          /\ g.failed # {} \/ g.unconfigured
      BY <1>2, <1>3, <2>6 DEF FollowsFrom, Stops, NestsMarket
    <3>2. ~CallsRun(g)
      BY <1>2, <3>1 DEF CallsRun
    <3> QED
      BY <1>2, <1>5, <2>1, <2>2, <2>4, <2>5, <3>1, <3>2 DEF OnCourse
  <2>7. CASE ~Stops(f, id, status)
    <3>1. g.at = f.at + 1
      BY <1>3, <2>7 DEF FollowsFrom
    <3>2. Walked(g) = Passed(g)
      BY <1>7, <2>2, <3>1
    <3>3. g.kind = "priority" => ~Halted(g)
      <4>1. SUFFICES ASSUME g.kind = "priority" PROVE ~Halted(g)
        OBVIOUS
      <4>2. f.kind = "priority" /\ NestsMarket(f, id)
        BY <1>2, <1>3, <1>9, <4>1 DEF FollowsFrom, NestsMarket
      <4>3. ~Halted(f)
        BY <1>1, <1>2, <1>9, <4>2, FrameAtStep
      <4>4. g.flags = f.flags /\ (status # "failed" => g.failed = f.failed)
        BY <1>3, <4>2 DEF FollowsFrom
      <4>5. status = "failed" => f.flags.cont
        BY <2>7, <4>2 DEF Stops
      <4> QED
        BY <4>3, <4>4, <4>5 DEF Halted
    <3> QED
      BY <1>5, <2>1, <2>2, <2>4, <2>5, <3>2, <3>3 DEF OnCourse
  <2> QED
    BY <2>6, <2>7
<1> QED
  BY <1>1, <1>2, <1>8, <1>9

\* More evidence takes nothing from a frame.
LEMMA CoverageGrows ==
    ASSUME NEW have, NEW more, \A t \in Universe : have[t] \subseteq more[t],
           NEW T \in SUBSET Universe, NEW consensus, Covered(have, T, consensus)
    PROVE  Covered(more, T, consensus)
BY DEF Covered

LEMMA RangeIsKnown ==
    ASSUME NEW s \in Seq(Universe) PROVE Range(s) \in SUBSET Universe
BY LenProperties, ElementOfSeq DEF Range

LEMMA FrameGrows ==
    ASSUME NEW f, NEW have, NEW more, \A t \in Universe : have[t] \subseteq more[t],
           FrameHolds(f, have)
    PROVE  FrameHolds(f, more)
<1>1. f.tickers \in Seq(Universe)
  BY DEF FrameHolds, IsFrame
<1>2. Evident(f, have) => Evident(f, more)
  BY <1>1, RangeIsKnown, CoverageGrows DEF Evident
<1> QED
  BY <1>2 DEF FrameHolds, Founded

LEMMA AfterHolds ==
    ASSUME NEW f, NEW have, FrameHolds(f, have), CanStep(f), NEW status,
           Steps(f)[f.at] = "source_coverage" /\ status = "ready" => Evident(f, have)
    PROVE  FrameHolds(After(f, Steps(f)[f.at], status), have)
<1> DEFINE id == Steps(f)[f.at]
           g == After(f, id, status)
<1> SUFFICES FrameHolds(g, have)
  OBVIOUS
<1>1. IsFrame(f) /\ OnCourse(f) /\ Founded(f, have) /\ Allowed(f)
  BY DEF FrameHolds
<1>2. IsFrame(g) /\ OnCourse(g)
  BY <1>1, AfterIsFrame, AfterIsOnCourse
<1>3. FollowsFrom(g, f, id, status)
  BY <1>1, AfterFields DEF IsFrame
<1>4. /\ StepsArePlanned(f) /\ f.at \in 1 .. Len(Steps(f)) /\ ~Reported(f)
  BY <1>1, FrameAtStep
<1> HIDE DEF g
<1>5. Steps(g) = Steps(f)
  BY <1>3, StepsOfMarkets DEF FollowsFrom
<1>6. Founded(g, have)
  <2>1. SUFFICES ASSUME g.coverage = "ready" PROVE Reported(g) /\ Evident(g, have)
    BY DEF Founded
  <2>2. id = "source_coverage" /\ status = "ready"
    BY <1>1, <1>3, <1>4, <2>1 DEF FollowsFrom, Founded
  <2>3. g.at = f.at + 1 /\ g.tickers = f.tickers /\ f.at = Len(Steps(f))
    BY <1>3, <1>4, <2>2 DEF FollowsFrom, Stops, NestsMarket, StepsArePlanned
  <2>4. Reported(g)
    BY <1>4, <1>5, <2>3 DEF Reported
  <2>5. Evident(g, have)
    BY <1>3, <2>2, <2>3 DEF Evident, FollowsFrom
  <2> QED
    BY <2>4, <2>5
<1>7. Allowed(g)
  <2>1. SUFFICES ASSUME g.kind # "priority" PROVE MissingPrerequisites(g) = {}
    BY DEF Allowed
  <2>2. g.kind = f.kind /\ g.markets = f.markets /\ g.flags = f.flags
    BY <1>3 DEF FollowsFrom
  <2>3. MissingPrerequisites(f) = {}
    BY <1>1, <2>1, <2>2 DEF Allowed, CanStep
  <2> QED
    BY <2>2, <2>3 DEF MissingPrerequisites
<1> QED
  BY <1>2, <1>6, <1>7 DEF FrameHolds

-------------------------------------------------------------------------------
(* Steps. *)

\* What a step makes of what is stored, and of the machine's files.
Adds(o, f, id) ==
    /\ \A t \in Universe : stored[t] \subseteq o.stored[t]
    /\ ~f.flags.persist => o.stored = stored
    /\ DOMAIN o.disk = DOMAIN disk /\ o.disk.warehouse = disk.warehouse
    /\ id # "build_kr_valuation_inputs" => o.disk.cache = disk.cache
    /\ o.disk.cache \subseteq disk.cache \union Range(f.tickers)

LEMMA StoreAdds ==
    ASSUME NEW some, NEW id, NEW t \in Universe
    PROVE  stored[t] \subseteq Store(some, id)[t]
BY DEF Store

LEMMA CollectedAdds ==
    ASSUME DiskHolds, NEW f, NEW id, NEW o \in Collected(f, id) PROVE Adds(o, f, id)
<1>1. PICK some : /\ o.stored = IF f.flags.persist THEN Store(some, id) ELSE stored
                  /\ o.disk = [disk EXCEPT !.raw = KeepRaw(some, id)]
  BY DEF Collected, Outcome
<1>2. \A t \in Universe : stored[t] \subseteq o.stored[t]
  BY <1>1, StoreAdds
<1>3. DOMAIN o.disk = DOMAIN disk /\ o.disk.warehouse = disk.warehouse /\ o.disk.cache = disk.cache
  BY <1>1 DEF DiskHolds
<1> QED
  BY <1>1, <1>2, <1>3 DEF Adds

LEMMA ArchivesAdd ==
    ASSUME DiskHolds, NEW f, NEW id, NEW o \in CollectedArchives(f) PROVE Adds(o, f, id)
<1>1. o.stored = stored
  BY DEF CollectedArchives, Outcome
<1>2. o.disk = disk \/ o.disk = [disk EXCEPT !.archives = @ \/ f.flags.persist]
  BY DEF CollectedArchives, Outcome
<1>3. DOMAIN o.disk = DOMAIN disk /\ o.disk.warehouse = disk.warehouse /\ o.disk.cache = disk.cache
  BY <1>2 DEF DiskHolds
<1> QED
  BY <1>1, <1>3 DEF Adds

LEMMA BuiltAdds ==
    ASSUME DiskHolds, NEW f, NEW o \in Built(f)
    PROVE  Adds(o, f, "build_kr_valuation_inputs")
<1> DEFINE ready == {t \in Range(f.tickers) : Buildable(t)}
<1>1. o.stored = stored
  BY DEF Built, Outcome
<1>2. o.disk = disk \/ o.disk = [disk EXCEPT !.cache = @ \union ready]
  BY DEF Built, Outcome
<1>3. ready \subseteq Range(f.tickers)
  OBVIOUS
<1> HIDE DEF ready
<1>4. /\ DOMAIN o.disk = DOMAIN disk /\ o.disk.warehouse = disk.warehouse
      /\ o.disk.cache \subseteq disk.cache \union Range(f.tickers)
  BY <1>2, <1>3 DEF DiskHolds
<1> QED
  BY <1>1, <1>4 DEF Adds

LEMMA LoadedAdds ==
    ASSUME NEW f, NEW id, NEW o \in Loaded(f) PROVE Adds(o, f, id)
<1> DEFINE cached == SelectSeq(f.tickers, LAMBDA t : t \in disk.cache)
           load(some) == IF f.flags.persist THEN Store(some, "load_kr_valuation_postgres")
                         ELSE stored
<1>1. PICK some : o.stored = load(some) /\ o.disk = disk
  <2> HIDE DEF load
  <2> DEFINE fails == {Outcome("failed", load(some), disk, cached = f.tickers) :
                          some \in FirstOf(cached)}
             goes  == {p \in {Outcome("ok", load(Range(cached)), disk, FALSE)} :
                          cached = f.tickers}
  <2>1. o \in fails \union goes
    BY DEF Loaded, load
  <2> HIDE DEF cached
  <2>2. CASE o \in fails
    BY <2>2 DEF Outcome
  <2>3. CASE o \in goes
    BY <2>3 DEF Outcome
  <2> QED
    BY <2>1, <2>2, <2>3
<1>2. \A t \in Universe : stored[t] \subseteq o.stored[t]
  BY <1>1, StoreAdds
<1> QED
  BY <1>1, <1>2 DEF Adds

\* What the report of a run rests on.
ReportMarket(f) ==
    CASE f.kind = "source" -> f.markets[1] [] f.kind = "p1" -> "KR" [] f.kind = "priority" -> "ALL"

LEMMA ReportOutcome ==
    ASSUME NEW f, NEW o \in StepOutcomes(f, "source_coverage")
    PROVE  /\ o.stored = stored /\ o.disk = disk
           /\ o.status \in CoverageReport(Range(f.tickers), ReportMarket(f), f.flags.consensus)
<1> DEFINE R == CoverageReport(Range(f.tickers), ReportMarket(f), f.flags.consensus)
<1>1. o \in {Outcome(r, stored, disk, env.postgres /\ r = "missing") : r \in R}
  BY DEF StepOutcomes, ReportMarket
<1> HIDE DEF R
<1>2. /\ o.stored = stored /\ o.disk = disk /\ o.status \in R
  BY <1>1 DEF Outcome
<1> QED
  BY <1>2 DEF R

LEMMA StepAdds ==
    ASSUME DiskHolds, NEW f, NEW id, NEW o \in StepOutcomes(f, id) PROVE Adds(o, f, id)
<1>1. CASE id = "collect_sec_bulk"
  BY <1>1, ArchivesAdd DEF StepOutcomes
<1>2. CASE id = "load_sec_bulk_warehouse"
  <2>1. o \in LoadedArchives(f)
    BY <1>2 DEF StepOutcomes
  <2>2. CASE disk.archives
    BY <1>2, <2>1, <2>2, CollectedAdds DEF LoadedArchives
  <2>3. CASE ~disk.archives
    <3>1. o.stored = stored /\ o.disk = disk
      BY <2>1, <2>3 DEF LoadedArchives, Outcome
    <3> QED
      BY <3>1 DEF Adds
  <2> QED
    BY <2>2, <2>3
<1>3. CASE id = "build_kr_valuation_inputs"
  BY <1>3, BuiltAdds DEF StepOutcomes
<1>4. CASE id = "load_kr_valuation_postgres"
  BY <1>4, LoadedAdds DEF StepOutcomes
<1>5. CASE id = "source_coverage"
  <2>1. o.stored = stored /\ o.disk = disk
    BY <1>5, ReportOutcome
  <2> QED
    BY <2>1 DEF Adds
<1>6. CASE id \notin {"collect_sec_bulk", "load_sec_bulk_warehouse", "build_kr_valuation_inputs",
                      "load_kr_valuation_postgres", "source_coverage"}
  <2>1. o \in Collected(f, id)
    BY <1>6 DEF StepOutcomes
  <2> QED
    BY <2>1, CollectedAdds
<1> QED
  BY <1>1, <1>2, <1>3, <1>4, <1>5, <1>6

\* The local warehouse never makes a report ready that names a ticker of another market.
LEMMA WarehouseIsKr ==
    ASSUME DiskHolds, NEW T, NEW t \in T, t \notin Range(KR), NEW consensus
    PROVE  T \subseteq Universe => WarehouseReport(T, consensus) # "ready"
<1> DEFINE have == [u \in Universe |->
                       (IF u \in disk.warehouse THEN Evidence \ {"consensus_forecast"} ELSE {})
                       \union {e \in {"consensus_forecast"} :
                                  u \in disk.csv /\ disk.warehouse # {}}]
<1>1. WarehouseReport(T, consensus) = Report(have, T, consensus)
  BY DEF WarehouseReport
<1>2. "security" \in Required(t, consensus)
  BY DEF Required, Core
<1>3. T \subseteq Universe => "security" \notin have[t]
  BY DEF DiskHolds
<1> HIDE DEF have
<1> QED
  BY <1>1, <1>2, <1>3 DEF Report, Covered

LEMMA ReportIsEvident ==
    ASSUME DiskHolds, NEW f, IsFrame(f), NEW o \in StepOutcomes(f, "source_coverage"),
           o.status = "ready"
    PROVE  Evident(f, stored)
<1> DEFINE T == Range(f.tickers)
           c == f.flags.consensus
           m == ReportMarket(f)
<1>1. "ready" \in CoverageReport(T, m, c)
  BY ReportOutcome
<1>2. ASSUME env.postgres PROVE Covered(stored, T, c)
  <2>1. "ready" \in {Report(stored, T, c), "missing"}
    BY <1>1, <1>2 DEF CoverageReport
  <2> QED
    BY <2>1 DEF Report
<1>3. ASSUME ~env.postgres PROVE f.kind = "source" /\ f.markets = <<"KR">>
  <2>1. m = "KR" /\ WarehouseReport(T, c) = "ready"
    BY <1>1, <1>3 DEF CoverageReport
  <2>2. f.kind # "priority"
    BY <2>1 DEF ReportMarket
  <2>3. f.kind # "p1"
    <3>1. SUFFICES ASSUME f.kind = "p1" PROVE FALSE
      OBVIOUS
    <3>2. T \subseteq Universe
      BY RangeIsKnown DEF IsFrame
    <3>3. PICK i \in DOMAIN f.tickers : f.tickers[i] \notin Range(KR)
      BY <3>1 DEF IsFrame
    <3>4. f.tickers[i] \in T
      BY DEF Range
    <3> QED
      BY <2>1, <3>2, <3>3, <3>4, WarehouseIsKr
  <2>4. f.kind = "source" /\ \E x \in Markets : f.markets = <<x>>
    BY <2>2, <2>3 DEF IsFrame
  <2>5. m = f.markets[1]
    BY <2>4 DEF ReportMarket
  <2> QED
    BY <2>1, <2>4, <2>5
<1> QED
  BY <1>2, <1>3 DEF Evident

-------------------------------------------------------------------------------
(* The invariant. *)

\* The prerequisites of a run are of the process and do not change.
LEMMA FrameKeeps ==
    ASSUME env' = env, NEW f, NEW have
    PROVE  (FrameHolds(f, have)' <=> FrameHolds(f, have)) /\ (CanStep(f)' <=> CanStep(f))
BY DEF FrameHolds, Founded, Evident, Allowed, CanStep, MissingPrerequisites

LEMMA NextIsOneFrame ==
    ASSUME env' = env, NEW f, stack' = <<f>>, FrameHolds(f, stored')
    PROVE  StackHolds'
<1>1. stack'[1] = f
  OBVIOUS
<1>2. FrameHolds(stack[1], stored)'
  BY <1>1, FrameKeeps
<1> QED
  BY <1>1, <1>2 DEF StackHolds

LEMMA NextIsTwoFrames ==
    ASSUME env' = env, NEW f, NEW g, stack' = <<f, g>>,
           FrameHolds(f, stored'), FrameHolds(g, stored'), Waits(f, g)
    PROVE  StackHolds'
<1>1. stack'[1] = f /\ stack'[2] = g
  OBVIOUS
<1>2. FrameHolds(stack[1], stored)' /\ FrameHolds(stack[2], stored)'
  BY <1>1, FrameKeeps
<1>3. Waits(stack[1], stack[2])'
  BY <1>1, FrameKeeps DEF Waits
<1> QED
  BY <1>1, <1>2, <1>3 DEF StackHolds

\* What was answered stays true: nothing is taken from the database.
LEMMA AnswerKeeps ==
    ASSUME AnswerHolds, UNCHANGED <<env, answer>>,
           \A t \in Universe : stored[t] \subseteq stored'[t]
    PROVE  AnswerHolds'
<1>1. IsRun' <=> IsRun
  BY DEF IsRun
<1>2. IsRun => Range(answer.tickers) \in SUBSET Universe
  BY RangeIsKnown DEF AnswerHolds
<1>3. RunOkIsCovered'
  BY <1>1, <1>2, CoverageGrows DEF RunOkIsCovered, AnswerHolds, OkIsCovered
<1>4. GateIsTheDatabases'
  <2>1. Range(KR) \in SUBSET Universe
    BY DEF Universe
  <2> QED
    BY <2>1, CoverageGrows DEF GateIsTheDatabases, AnswerHolds, OkIsCovered
<1> QED
  BY <1>1, <1>3, <1>4 DEF AnswerHolds, OkIsCovered

LEMMA FreshHolds ==
    ASSUME NEW f, IsFrame(f), f.at = 1, f.executed = <<>>, f.failed = {}, f.coverage = "none",
           NEW have
    PROVE  FrameHolds(f, have)
<1>1. StepsArePlanned(f)
  BY FrameStepsArePlanned
<1>2. ~Reported(f) /\ Walked(f) = 0 /\ Passed(f) = 0
  BY <1>1 DEF Reported, Walked, Passed, StepsArePlanned
<1>3. ~Halted(f)
  BY DEF Halted
<1>4. OnCourse(f)
  BY <1>1, <1>2, <1>3 DEF OnCourse, StepsArePlanned
<1> QED
  BY <1>4 DEF FrameHolds, Founded, Allowed

LEMMA SourceRunHolds ==
    ASSUME NEW m \in Markets, NEW flags \in Flags, NEW have
    PROVE  FrameHolds(SourceRun(m, flags), have)
<1> DEFINE f == SourceRun(m, flags)
<1>1. f.tickers \in Seq(Universe)
  BY TickersAreKnown DEF SourceRun, Frame
<1>2. /\ f.kind = "source" /\ f.markets = <<m>> /\ f.flags = flags /\ f.at = 1
      /\ f.executed = <<>> /\ f.failed = {} /\ f.coverage = "none" /\ ~f.unconfigured
      /\ f.tickers = TickersOf(m) /\ DOMAIN f = Fields
  BY DEF SourceRun, Frame, Fields
<1>3. f.markets = <<"KR">> => f.tickers = KR
  BY <1>2 DEF TickersOf
<1>4. f.executed \in Seq(StepIds)
  BY <1>2
<1> HIDE DEF f
<1>5. IsFrame(f)
  BY <1>1, <1>2, <1>3, <1>4 DEF IsFrame
<1>6. FrameHolds(f, have)
  BY <1>2, <1>5, FreshHolds
<1> QED
  BY <1>6 DEF f

LEMMA P1TickersAreKnown ==
    /\ P1Ticker["US"] \in Universe \ Range(KR)
    /\ P1Ticker["KR"] \in Universe /\ P1Ticker["JP"] \in Universe
<1>1. \A m \in Markets : P1Ticker[m] \in Range(TickersOf(m)) /\ Range(TickersOf(m)) \subseteq Universe
  BY E2EAssumption DEF Universe, TickersOf, Markets
<1>2. Range(TickersOf("KR")) \cap Range(TickersOf("US")) = {} /\ TickersOf("KR") = KR
  BY CoverageAssumption DEF Markets, TickersOf
<1> QED
  BY <1>1, <1>2 DEF Markets

LEMMA P1RunHolds ==
    ASSUME NEW flags \in Flags, NEW have
    PROVE  FrameHolds(P1Run(flags), have)
<1> DEFINE f == P1Run(flags)
<1>1. f.tickers \in Seq(Universe) /\ 1 \in DOMAIN f.tickers /\ f.tickers[1] \notin Range(KR)
  BY P1TickersAreKnown DEF P1Run, Frame
<1>2. /\ f.kind = "p1" /\ f.markets = <<"US", "KR", "JP">> /\ f.flags = flags /\ f.at = 1
      /\ f.executed = <<>> /\ f.failed = {} /\ f.coverage = "none" /\ ~f.unconfigured
      /\ DOMAIN f = Fields
  BY DEF P1Run, Frame, Fields
<1>3. f.executed \in Seq(StepIds)
  BY <1>2
<1> HIDE DEF f
<1>4. IsFrame(f)
  BY <1>1, <1>2, <1>3 DEF IsFrame
<1>5. FrameHolds(f, have)
  BY <1>2, <1>4, FreshHolds
<1> QED
  BY <1>5 DEF f

LEMMA MarketOrderIsTyped ==
    ASSUME NEW markets PROVE MarketOrder(markets) \in Seq(Markets)
<1> DEFINE asked(m) == IF m \in markets THEN <<m>> ELSE <<>>
<1>1. asked("KR") \in Seq(Markets) /\ asked("US") \in Seq(Markets) /\ asked("JP") \in Seq(Markets)
  BY DEF Markets
<1>2. MarketOrder(markets) = (asked("KR") \o asked("US")) \o asked("JP")
  BY DEF MarketOrder
<1> HIDE DEF asked
<1>3. asked("KR") \o asked("US") \in Seq(Markets)
  BY <1>1, ConcatProperties
<1> QED
  BY <1>1, <1>2, <1>3, ConcatProperties

LEMMA PriorityRunHolds ==
    ASSUME NEW markets, NEW flags \in Flags, NEW have
    PROVE  FrameHolds(PriorityRun(markets, flags), have)
<1> DEFINE f == PriorityRun(markets, flags)
<1>1. f.markets \in Seq(Markets)
  BY MarketOrderIsTyped DEF PriorityRun, Frame
<1>2. /\ f.kind = "priority" /\ f.flags = flags /\ f.at = 1 /\ f.tickers = <<>>
      /\ f.executed = <<>> /\ f.failed = {} /\ f.coverage = "none" /\ ~f.unconfigured
      /\ DOMAIN f = Fields
  BY DEF PriorityRun, Frame, Fields
<1>3. f.executed \in Seq(StepIds) /\ f.tickers \in Seq(Universe)
  BY <1>2
<1> HIDE DEF f
<1>4. IsFrame(f)
  BY <1>1, <1>2, <1>3 DEF IsFrame
<1>5. FrameHolds(f, have)
  BY <1>2, <1>4, FreshHolds
<1> QED
  BY <1>5 DEF f

LEMMA NestedHolds ==
    ASSUME NEW f, IsFrame(f), CallsRun(f), NEW have
    PROVE  FrameHolds(Nested(f), have) /\ Nested(f).kind = "source" /\ Nested(f).flags = f.flags
<1>1. CASE f.kind = "priority"
  <2>1. f.markets[f.at] \in Markets /\ f.flags \in Flags
    BY <1>1, LenProperties, ElementOfSeq DEF IsFrame, CallsRun
  <2>2. Nested(f) = SourceRun(f.markets[f.at], f.flags)
    BY <1>1 DEF Nested
  <2> QED
    BY <2>1, <2>2, SourceRunHolds DEF SourceRun, Frame
<1>2. CASE f.kind = "p1"
  <2> DEFINE g == Nested(f)
  <2>1. g = Frame("source", <<"US">>, <<P1Ticker["US"]>>, f.flags)
    BY <1>2 DEF Nested
  <2>2. /\ g.kind = "source" /\ g.markets = <<"US">> /\ g.flags = f.flags /\ g.at = 1
        /\ g.executed = <<>> /\ g.failed = {} /\ g.coverage = "none" /\ ~g.unconfigured
        /\ g.tickers = <<P1Ticker["US"]>> /\ DOMAIN g = Fields
    BY <2>1 DEF Frame, Fields
  <2>3. g.executed \in Seq(StepIds) /\ g.tickers \in Seq(Universe) /\ g.flags \in Flags
    BY <2>2, P1TickersAreKnown DEF IsFrame
  <2> HIDE DEF g
  <2>4. IsFrame(g)
    BY <2>2, <2>3 DEF IsFrame, Markets
  <2>5. FrameHolds(g, have)
    BY <2>2, <2>4, FreshHolds
  <2> QED
    BY <2>2, <2>5 DEF g
<1> QED
  BY <1>1, <1>2 DEF CallsRun

\* One or two frames run; the innermost is at the top.
LEMMA Running ==
    ASSUME StackHolds, ~Idle
    PROVE  \/ stack = <<Top>> /\ FrameHolds(Top, stored) /\ Len(stack) = 1
           \/ \E h : /\ stack = <<h, Top>> /\ FrameHolds(h, stored) /\ FrameHolds(Top, stored)
                     /\ Waits(h, Top)
<1>1. CASE stack = <<stack[1]>> /\ FrameHolds(stack[1], stored)
  BY <1>1, OneFrame
<1>2. CASE /\ stack = <<stack[1], stack[2]>> /\ FrameHolds(stack[1], stored)
           /\ FrameHolds(stack[2], stored) /\ Waits(stack[1], stack[2])
  <2>1. Top = stack[2]
    BY <1>2, TwoFrames
  <2> QED
    BY <1>2, <2>1
<1> QED
  BY <1>1, <1>2 DEF StackHolds, Idle

LEMMA StepKeeps ==
    ASSUME E2EInv, Step PROVE E2EInv'
<1> DEFINE f == Top
           id == Steps(f)[f.at]
<1>1. PICK o \in IF f.unconfigured THEN {Outcome("none", stored, disk, FALSE)}
                 ELSE StepOutcomes(f, id) :
         /\ stack' = Append(Below, After(f, id, o.status)) /\ stored' = o.stored /\ disk' = o.disk
  BY DEF Step
<1>2. ~Idle /\ CanStep(f) /\ ~CallsRun(f) /\ env' = env /\ answer' = answer
  BY DEF Step
<1>3. FrameHolds(f, stored)
  BY <1>2, Running DEF E2EInv
<1>4. IsFrame(f) /\ OnCourse(f)
  BY <1>3 DEF FrameHolds
<1>5. Adds(o, f, id)
  <2>1. CASE f.unconfigured
    <3>1. o.stored = stored /\ o.disk = disk
      BY <1>1, <2>1 DEF Outcome
    <3> QED
      BY <3>1 DEF Adds
  <2>2. CASE ~f.unconfigured
    BY <1>1, <2>2, StepAdds DEF E2EInv
  <2> QED
    BY <2>1, <2>2
<1>6. id = "source_coverage" /\ o.status = "ready" => Evident(f, stored)
  <2>1. SUFFICES ASSUME id = "source_coverage", o.status = "ready" PROVE Evident(f, stored)
    OBVIOUS
  <2>2. ~f.unconfigured
    BY <1>1, <2>1 DEF Outcome
  <2>3. o \in StepOutcomes(f, "source_coverage")
    BY <1>1, <2>1, <2>2
  <2> QED
    BY <1>4, <2>1, <2>3, ReportIsEvident DEF E2EInv
<1> DEFINE g == After(f, id, o.status)
<1>7. FrameHolds(g, stored)
  BY <1>2, <1>3, <1>6, AfterHolds
<1>8. FollowsFrom(g, f, id, o.status)
  BY <1>4, AfterFields DEF IsFrame
<1>9. \A t \in Universe : stored[t] \subseteq stored'[t]
  BY <1>1, <1>5 DEF Adds
<1>10. stack' = Append(Below, g)
  BY <1>1
<1> HIDE DEF g
<1>11. FrameHolds(g, stored')
  BY <1>7, <1>9, FrameGrows
<1>12. StackHolds'
  <2>1. CASE stack = <<f>>
    <3>1. stack' = <<g>>
      BY <1>10, <2>1, OneFrame
    <3> QED
      BY <1>2, <1>11, <3>1, NextIsOneFrame
  <2>2. ASSUME NEW h, stack = <<h, f>>, FrameHolds(h, stored), Waits(h, f)
        PROVE  StackHolds'
    <3>1. stack' = <<h, g>>
      BY <1>10, <2>2, TwoFrames
    <3>2. FrameHolds(h, stored')
      BY <1>9, <2>2, FrameGrows
    <3>3. Waits(h, g)
      BY <1>8, <2>2 DEF Waits, FollowsFrom
    <3> QED
      BY <1>2, <1>11, <3>1, <3>2, <3>3, NextIsTwoFrames
  <2> QED
    BY <1>2, <2>1, <2>2, Running DEF E2EInv
<1>13. DiskHolds'
  <2>1. StepsArePlanned(f) /\ f.at \in 1 .. Len(Steps(f))
    BY <1>2, <1>4, FrameAtStep
  <2>2. id = "build_kr_valuation_inputs" => f.tickers = KR
    BY <1>4, <2>1 DEF StepsArePlanned, IsFrame
  <2>3. /\ DOMAIN disk' = DOMAIN disk /\ disk'.warehouse = disk.warehouse
        /\ id # "build_kr_valuation_inputs" => disk'.cache = disk.cache
        /\ disk'.cache \subseteq disk.cache \union Range(f.tickers)
    BY <1>1, <1>5 DEF Adds
  <2>4. disk'.cache \subseteq Range(KR)
    BY <2>2, <2>3 DEF E2EInv, DiskHolds
  <2> QED
    BY <2>3, <2>4 DEF E2EInv, DiskHolds
<1>14. AnswerHolds'
  BY <1>2, <1>9, AnswerKeeps DEF E2EInv
<1> QED
  BY <1>12, <1>13, <1>14 DEF E2EInv

LEMMA CallKeeps ==
    ASSUME E2EInv, CallNestedRun PROVE E2EInv'
<1> DEFINE f == Top
<1>1. /\ ~Idle /\ CanStep(f) /\ CallsRun(f) /\ stack' = Append(stack, Nested(f))
      /\ UNCHANGED <<env, stored, disk, answer>>
  BY DEF CallNestedRun
<1>2. stack = <<f>> /\ FrameHolds(f, stored)
  <2>1. ASSUME NEW h, Waits(h, f) PROVE FALSE
    BY <1>1, <2>1 DEF Waits, CallsRun
  <2> QED
    BY <1>1, <2>1, Running DEF E2EInv
<1>3. stack' = <<f, Nested(f)>>
  BY <1>1, <1>2, OneFrame
<1>4. FrameHolds(Nested(f), stored) /\ Waits(f, Nested(f))
  BY <1>1, <1>2, NestedHolds DEF FrameHolds, Waits
<1>5. StackHolds'
  <2> HIDE DEF f
  <2> QED
    BY <1>1, <1>2, <1>3, <1>4, NextIsTwoFrames
<1>6. DiskHolds' /\ AnswerHolds'
  BY <1>1, AnswerKeeps DEF E2EInv, DiskHolds
<1> QED
  BY <1>5, <1>6 DEF E2EInv

\* A run that answers "ok" has executed its plan.
LEMMA WholePlan ==
    ASSUME NEW f, IsFrame(f), OnCourse(f), Reported(f), f.failed = {}, ~f.unconfigured
    PROVE  f.executed = PlannedSteps(f.kind, f.markets)
<1>1. StepsArePlanned(f)
  BY FrameStepsArePlanned
<1>2. Walked(f) = Passed(f) /\ f.executed # <<>> /\ Last(f.executed) = "source_coverage"
  BY DEF OnCourse
<1>3. f.executed \in Seq(StepIds) /\ Len(f.executed) \in Nat
  BY LenProperties DEF IsFrame
<1>4. Len(f.executed) = Len(Steps(f))
  BY <1>1, <1>2, <1>3 DEF Walked, Passed, StepsArePlanned
<1>5. ASSUME NEW j \in 1 .. Len(f.executed) PROVE f.executed[j] = Steps(f)[j]
  <2>1. CASE j = Len(f.executed)
    BY <1>1, <1>2, <1>4, <2>1 DEF Last, StepsArePlanned
  <2>2. CASE j # Len(f.executed)
    <3>1. j \in 1 .. Walked(f)
      BY <1>3, <2>2 DEF Walked
    <3> QED
      BY <3>1 DEF OnCourse
  <2> QED
    BY <2>1, <2>2
<1>6. f.executed = Steps(f)
  BY <1>1, <1>3, <1>4, <1>5, SeqEqual DEF StepsArePlanned
<1> QED
  BY <1>1, <1>6 DEF StepsArePlanned

LEMMA OkIsEarned ==
    ASSUME NEW f, FrameHolds(f, stored), Status(f) = "ok"
    PROVE  /\ f.failed = {} /\ Completion(f) = "complete"
           /\ f.executed = PlannedSteps(f.kind, f.markets)
           /\ env.postgres => Covered(stored, Range(f.tickers), f.flags.consensus)
           /\ ~env.postgres => ~f.flags.persist /\ f.markets = <<"KR">>
<1>1. f.failed = {} /\ f.coverage = "ready" /\ ~f.unconfigured
      /\ (f.kind # "priority" => MissingPrerequisites(f) = {})
  BY DEF Status, FrameHolds, IsFrame
<1>2. IsFrame(f) /\ OnCourse(f) /\ Reported(f) /\ Evident(f, stored)
  BY <1>1 DEF FrameHolds, Founded
<1>3. f.executed = PlannedSteps(f.kind, f.markets)
  BY <1>1, <1>2, WholePlan
<1>4. ~env.postgres => f.kind = "source" /\ f.markets = <<"KR">>
  BY <1>2 DEF Evident
<1>5. ~env.postgres /\ f.kind = "source" => ~f.flags.persist
  BY <1>1 DEF MissingPrerequisites
<1> QED
  BY <1>1, <1>2, <1>3, <1>4, <1>5 DEF Completion, Evident

LEMMA AnswerIsEarned ==
    ASSUME NEW f, FrameHolds(f, stored), answer' = Answer(f), UNCHANGED <<env, stored>>
    PROVE  AnswerHolds'
<1>1. /\ answer'.kind = f.kind /\ answer'.markets = f.markets /\ answer'.tickers = f.tickers
      /\ answer'.flags = f.flags /\ answer'.executed = f.executed /\ answer'.failed = f.failed
      /\ answer'.status = Status(f) /\ answer'.gate = Completion(f)
  BY DEF Answer
<1>2. f.tickers \in Seq(Universe) /\ f.kind \in {"source", "p1", "priority"}
  BY DEF FrameHolds, IsFrame
<1>3. RunOkIsCovered'
  BY <1>1, OkIsEarned DEF RunOkIsCovered
<1>4. GateIsTheDatabases'
  BY <1>1, <1>2 DEF GateIsTheDatabases
<1> QED
  BY <1>1, <1>2, <1>3, <1>4 DEF AnswerHolds, OkIsCovered

LEMMA ReturnKeeps ==
    ASSUME E2EInv, Return PROVE E2EInv'
<1> DEFINE f == Top
<1>1. ~Idle /\ ~CanStep(f) /\ UNCHANGED <<env, stored, disk>>
  BY DEF Return
<1>2. DiskHolds'
  BY <1>1 DEF E2EInv, DiskHolds
<1>3. CASE Len(stack) = 1
  <2>1. answer' = Answer(f) /\ stack' = <<>>
    BY <1>3 DEF Return
  <2>2. FrameHolds(f, stored)
    BY <1>1, Running DEF E2EInv
  <2>3. AnswerHolds'
    <3> HIDE DEF f
    <3> QED
      BY <1>1, <2>1, <2>2, AnswerIsEarned
  <2> QED
    BY <1>2, <2>1, <2>3 DEF E2EInv, StackHolds
<1>4. CASE Len(stack) # 1
  <2>1. PICK h : stack = <<h, f>> /\ FrameHolds(h, stored) /\ Waits(h, f)
    BY <1>1, <1>4, Running DEF E2EInv
  <2> DEFINE id == Steps(h)[h.at]
             g == After(h, id, Status(f))
  <2>2. stack[Len(stack) - 1] = h
    BY <2>1, TwoFrames
  <2>3. /\ stack' = Append(SubSeq(stack, 1, Len(stack) - 2), g)
        /\ answer' = answer
    BY <1>4, <2>2 DEF Return
  <2>4. stack' = <<g>>
    BY <2>1, <2>3, TwoFrames
  <2>5. IsFrame(h) /\ OnCourse(h) /\ CanStep(h) /\ CallsRun(h)
    BY <2>1 DEF FrameHolds, Waits
  <2>6. id # "source_coverage"
    BY <2>5, FrameAtStep
  <2>7. FrameHolds(g, stored)
    BY <2>1, <2>5, <2>6, AfterHolds
  <2> HIDE DEF g
  <2>8. StackHolds'
    BY <1>1, <2>4, <2>7, NextIsOneFrame
  <2>9. AnswerHolds'
    BY <1>1, <2>3, AnswerKeeps DEF E2EInv
  <2> QED
    BY <1>2, <2>8, <2>9 DEF E2EInv
<1> QED
  BY <1>3, <1>4

LEMMA RunsBeginWell ==
    ASSUME E2EInv, NEW f, stack' = <<f>>, FrameHolds(f, stored),
           UNCHANGED <<env, stored, disk, answer>>
    PROVE  E2EInv'
<1>1. StackHolds'
  BY NextIsOneFrame
<1>2. DiskHolds' /\ AnswerHolds'
  BY AnswerKeeps DEF E2EInv, DiskHolds
<1> QED
  BY <1>1, <1>2 DEF E2EInv

\* The commands that leave the stack alone, which is empty while they run.
LEMMA CommandsKeep ==
    ASSUME E2EInv, UNCHANGED <<env, stack, stored, answer>>, DiskHolds' PROVE E2EInv'
<1>1. StackHolds'
  <2>1. FrameHolds(stack[1], stored)' <=> FrameHolds(stack[1], stored)
    BY FrameKeeps
  <2>2. FrameHolds(stack[2], stored)' <=> FrameHolds(stack[2], stored)
    BY FrameKeeps
  <2>3. Waits(stack[1], stack[2])' <=> Waits(stack[1], stack[2])
    BY FrameKeeps DEF Waits
  <2> QED
    BY <2>1, <2>2, <2>3 DEF E2EInv, StackHolds
<1>2. AnswerHolds'
  BY AnswerKeeps DEF E2EInv
<1> QED
  BY <1>1, <1>2 DEF E2EInv

LEMMA MarketIsKnown ==
    ASSUME NEW t \in Universe
    PROVE  MarketOf(t) \in Markets /\ t \in Range(TickersOf(MarketOf(t)))
<1>1. \E m \in Markets : t \in Range(TickersOf(m))
  BY DEF Universe, Markets, TickersOf
<1> QED
  BY <1>1 DEF MarketOf

\* A listed KR ticker is of no other market.
LEMMA KrIsOfKr ==
    ASSUME NEW t \in Range(KR) PROVE MarketOf(t) = "KR"
<1>1. t \in Universe
  BY DEF Universe
<1>2. TickersOf("KR") = KR /\ "KR" \in Markets
  BY DEF TickersOf, Markets
<1> QED
  BY <1>1, <1>2, MarketIsKnown, CoverageAssumption DEF CoverageAssumption

LEMMA PlanOnlyCollects ==
    ASSUME NEW have, NEW T \in SUBSET Universe, NEW consensus, NEW a \in Plan(have, T, consensus)
    PROVE  a.id # "build_kr_valuation_inputs"
<1> DEFINE Builds == a.id = "build_kr_valuation_inputs"
<1>1. ASSUME NEW missing, a \in PriorityBootstrap(T, missing) PROVE ~Builds
  BY <1>1 DEF PriorityBootstrap, Action
<1>2. ASSUME NEW missing \in SUBSET Universe, a \in ByMarket(missing, SourceMetricActions) PROVE ~Builds
  <2>1. PICK m \in Markets : \E id \in SourceMetricActions(m) : a.id = id
    BY <1>2, MarketIsKnown DEF ByMarket, MarketsOf, Action
  <2> QED
    BY <2>1 DEF SourceMetricActions, Markets
<1>3. ASSUME NEW missing \in SUBSET Universe, a \in ByMarket(missing, AdjustedEarningsActions) PROVE ~Builds
  <2>1. PICK m \in Markets : \E id \in AdjustedEarningsActions(m) : a.id = id
    BY <1>3, MarketIsKnown DEF ByMarket, MarketsOf, Action
  <2> QED
    BY <2>1 DEF AdjustedEarningsActions, SourceMetricActions, Markets
<1>4. ASSUME NEW missing \in SUBSET Universe, a \in ByMarket(missing, PriceActions) PROVE ~Builds
  <2>1. PICK m \in Markets : \E id \in PriceActions(m) : a.id = id
    BY <1>4, MarketIsKnown DEF ByMarket, MarketsOf, Action
  <2> QED
    BY <2>1 DEF PriceActions, Markets
<1>5. ASSUME NEW missing \in SUBSET Universe, a \in ByMarket(missing, MarketStructureActions) PROVE ~Builds
  <2>1. PICK m \in Markets : \E id \in MarketStructureActions(m) : a.id = id
    BY <1>5, MarketIsKnown DEF ByMarket, MarketsOf, Action
  <2> QED
    BY <2>1 DEF MarketStructureActions, Markets
<1>6. a.id = "import_consensus_csv" => ~Builds
  OBVIOUS
<1> HIDE DEF Builds
<1>7. ASSUME NEW missing, a \in (IF missing = {} THEN {} ELSE {Action("import_consensus_csv", missing)})
      PROVE  ~Builds
  BY <1>6, <1>7 DEF Action
<1>8. ~Builds
  <2> DEFINE Missing(R) == UNION {MissingFor(have, T, consensus, e) : e \in R}
  <2>1. \A R : Missing(R) \in SUBSET Universe
    BY DEF MissingFor
  <2> QED
    BY <1>1, <1>2, <1>3, <1>4, <1>5, <1>7, <2>1 DEF Plan
<1> QED
  BY <1>8 DEF Builds

LEMMA RepairKeeps ==
    ASSUME E2EInv, NEW m \in Markets, NEW consensus, Repair(m, consensus) PROVE E2EInv'
<1>1. Idle /\ UNCHANGED <<env, stack, answer>>
  BY DEF Repair, Starting
<1>2. PICK a \in Plan(stored, Range(TickersOf(m)), consensus) : \E f : \E o \in StepOutcomes(f, a.id) :
         stored' = o.stored /\ disk' = o.disk
  BY DEF Repair
<1>3. PICK f : \E o \in StepOutcomes(f, a.id) : stored' = o.stored /\ disk' = o.disk
  BY <1>2
<1>4. PICK o \in StepOutcomes(f, a.id) : stored' = o.stored /\ disk' = o.disk
  BY <1>3
<1>5. Adds(o, f, a.id) /\ a.id # "build_kr_valuation_inputs"
  <2>1. Range(TickersOf(m)) \in SUBSET Universe
    BY DEF Universe, Markets, TickersOf
  <2> QED
    BY <2>1, StepAdds, PlanOnlyCollects DEF E2EInv
<1>6. DiskHolds'
  BY <1>4, <1>5 DEF Adds, E2EInv, DiskHolds
<1>7. \A t \in Universe : stored[t] \subseteq stored'[t]
  BY <1>4, <1>5 DEF Adds
<1>8. AnswerHolds'
  BY <1>1, <1>7, AnswerKeeps DEF E2EInv
<1> QED
  BY <1>1, <1>6, <1>8 DEF E2EInv, StackHolds, Idle

LEMMA GateKeeps ==
    ASSUME E2EInv, NEW strict, NEW consensus, DeployGate(strict, consensus) PROVE E2EInv'
<1>1. Idle /\ UNCHANGED <<env, stored, disk, stack>>
  BY DEF DeployGate, Starting
<1>2. PICK coverage \in CoverageReport(Range(KR), "KR", consensus) :
         answer' = [kind |-> "gate", strict |-> strict, consensus |-> consensus,
                    status |-> IF strict /\ ~ (env.postgres /\ MarketKeys("KR") \subseteq env.keys
                                               /\ env.deploy)
                               THEN "needs_configuration"
                               ELSE IF coverage = "ready" THEN "ok" ELSE "needs_source_data"]
  BY DEF DeployGate
<1>3. answer'.kind = "gate" /\ answer'.strict = strict /\ answer'.consensus = consensus
  BY <1>2
<1>4. answer'.status = "ok" /\ strict => env.deploy /\ env.postgres /\ coverage = "ready"
  BY <1>2
<1>5. env.postgres /\ coverage = "ready" => Covered(stored, Range(KR), consensus)
  BY <1>2 DEF CoverageReport, Report
<1>6. GateIsTheDatabases'
  BY <1>1, <1>3, <1>4, <1>5 DEF GateIsTheDatabases
<1>7. ~IsRun'
  BY <1>3 DEF IsRun
<1>8. AnswerHolds'
  BY <1>6, <1>7 DEF AnswerHolds, OkIsCovered, RunOkIsCovered
<1> QED
  BY <1>1, <1>8 DEF E2EInv, StackHolds, Idle, DiskHolds

LEMMA DryRunKeeps ==
    ASSUME E2EInv, NEW m, NEW flags, DryRun(m, flags) PROVE E2EInv'
<1>1. Idle /\ UNCHANGED <<env, stored, disk, stack>>
  BY DEF DryRun, Starting
<1>2. answer'.kind = "dry"
  BY DEF DryRun
<1>3. AnswerHolds'
  BY <1>2 DEF AnswerHolds, OkIsCovered, RunOkIsCovered, GateIsTheDatabases, IsRun
<1> QED
  BY <1>1, <1>3 DEF E2EInv, StackHolds, Idle, DiskHolds

LEMMA NextKeeps ==
    ASSUME E2EInv, [Next]_vars PROVE E2EInv'
<1>1. ASSUME NEW m \in Markets, NEW flags \in Asked.flags, RunSourceE2E(m, flags) PROVE E2EInv'
  <2>1. flags \in Flags
    BY E2EAssumption
  <2>2. FrameHolds(SourceRun(m, flags), stored)
    BY <2>1, SourceRunHolds
  <2> QED
    BY <1>1, <2>2, RunsBeginWell DEF RunSourceE2E
<1>2. ASSUME NEW flags \in Asked.flags, RunP1E2E(flags) PROVE E2EInv'
  <2>1. flags \in Flags
    BY E2EAssumption
  <2>2. FrameHolds(P1Run(flags), stored)
    BY <2>1, P1RunHolds
  <2> QED
    BY <1>2, <2>2, RunsBeginWell DEF RunP1E2E
<1>3. ASSUME NEW markets, NEW flags \in Asked.flags, RunPriorityE2E(markets, flags) PROVE E2EInv'
  <2>1. flags \in Flags
    BY E2EAssumption
  <2>2. FrameHolds(PriorityRun(markets, flags), stored)
    BY <2>1, PriorityRunHolds
  <2> QED
    BY <1>3, <2>2, RunsBeginWell DEF RunPriorityE2E
<1>4. CASE Crash
  <2>1. stack' = <<>> /\ UNCHANGED <<env, stored, disk, answer>>
    BY <1>4 DEF Crash
  <2>2. DiskHolds' /\ AnswerHolds'
    BY <2>1, AnswerKeeps DEF E2EInv, DiskHolds
  <2> QED
    BY <2>1, <2>2 DEF E2EInv, StackHolds
<1>5. CASE NewMachine
  <2>1. DiskHolds'
    BY <1>5 DEF NewMachine, NoDisk, DiskHolds
  <2> QED
    BY <1>5, <2>1, CommandsKeep DEF NewMachine
<1>6. CASE LoadWarehouse
  <2>1. DiskHolds'
    BY <1>6 DEF LoadWarehouse, DiskHolds, E2EInv
  <2> QED
    BY <1>6, <2>1, CommandsKeep DEF LoadWarehouse
<1>7. ASSUME NEW m, FillForecast(m) PROVE E2EInv'
  <2>1. DiskHolds'
    BY <1>7 DEF FillForecast, DiskHolds, E2EInv
  <2> QED
    BY <1>7, <2>1, CommandsKeep DEF FillForecast
<1>8. CASE UNCHANGED vars
  <2>1. UNCHANGED <<env, stack, stored, answer, disk>>
    BY <1>8 DEF vars
  <2>2. DiskHolds'
    BY <2>1 DEF E2EInv, DiskHolds
  <2> QED
    BY <2>1, <2>2, CommandsKeep
<1> QED
  BY <1>1, <1>2, <1>3, <1>4, <1>5, <1>6, <1>7, <1>8, StepKeeps, CallKeeps, ReturnKeeps,
     RepairKeeps, GateKeeps, DryRunKeeps DEF Next

LEMMA InvariantHolds == Spec => []E2EInv
<1>1. Init => E2EInv
  <2>1. ASSUME Init PROVE DiskHolds
    BY <2>1 DEF Init, NoDisk, DiskHolds
  <2>2. ASSUME Init PROVE AnswerHolds
    BY <2>2 DEF Init, AnswerHolds, OkIsCovered, RunOkIsCovered, GateIsTheDatabases, IsRun
  <2> QED
    BY <2>1, <2>2 DEF Init, E2EInv, StackHolds
<1>2. E2EInv /\ [Next]_vars => E2EInv'
  BY NextKeeps
<1> QED
  BY <1>1, <1>2, PTL DEF Spec

-------------------------------------------------------------------------------
(* The theorems. *)

\* A run, or the deploy gate in strict mode, that answers "ok" has every required
\* evidence of its tickers in the database, has passed over no failed step and has
\* executed its whole plan, whatever the environment, the flags and the failures: the
\* status of run_source_e2e, run_p1_e2e and run_priority_e2e.
THEOREM OkSaysNoMore == Spec => []OkIsCovered
<1>1. E2EInv => OkIsCovered
  BY DEF E2EInv, AnswerHolds
<1> QED
  BY <1>1, InvariantHolds, PTL

LEMMA FrameExecutesItsPlan ==
    ASSUME NEW f, IsFrame(f), OnCourse(f)
    PROVE  LET plan == PlannedSteps(f.kind, f.markets)
           IN  \/ IsPrefix(f.executed, plan)
               \/ /\ f.kind = "priority" /\ f.executed # <<>>
                  /\ Last(f.executed) = "source_coverage" /\ IsPrefix(Front(f.executed), plan)
<1> DEFINE plan == PlannedSteps(f.kind, f.markets)
           s == f.executed
<1>1. StepsArePlanned(f)
  BY FrameStepsArePlanned
<1>2. plan = Steps(f) /\ plan \in Seq(StepIds) /\ Len(plan) \in Nat \ {0}
  BY <1>1 DEF StepsArePlanned
<1>3. s \in Seq(StepIds) /\ Len(s) \in Nat /\ f.at \in Nat \ {0}
  BY LenProperties DEF IsFrame
<1>4. /\ \A j \in 1 .. Walked(f) : s[j] = plan[j]
      /\ Walked(f) <= Passed(f) /\ f.at <= Len(plan) + 1
  BY <1>2 DEF OnCourse
<1> HIDE DEF plan
<1>5. CASE ~Reported(f)
  <2>1. Walked(f) = Len(s) /\ Len(s) <= Len(plan)
    BY <1>2, <1>3, <1>4, <1>5 DEF Walked, Passed
  <2>2. IsPrefix(s, plan)
    BY <1>2, <1>3, <1>4, <2>1, PrefixByIndex
  <2> QED
    BY <2>2 DEF plan
<1>6. CASE Reported(f)
  <2>1. Walked(f) = Len(s) - 1 /\ Len(s) - 1 <= Len(plan) - 1
    BY <1>2, <1>3, <1>4, <1>6 DEF Walked, Passed
  <2>2. s # <<>> /\ Last(s) = "source_coverage" /\ Len(s) >= 1
    BY <1>3, <1>6, EmptySeq DEF OnCourse
  <2>3. CASE f.kind = "priority"
    <3>1. \A j \in 1 .. Len(s) - 1 : s[j] \in StepIds
      BY <1>3, ElementOfSeq
    <3>2. /\ Front(s) \in Seq(StepIds) /\ Len(Front(s)) = Len(s) - 1
          /\ \A j \in 1 .. Len(s) - 1 : Front(s)[j] = s[j]
      BY <1>3, <2>2, <3>1, SubSeqProperties DEF Front
    <3>3. /\ Len(Front(s)) <= Len(plan)
          /\ \A j \in 1 .. Len(Front(s)) : Front(s)[j] = plan[j]
      BY <1>2, <1>3, <1>4, <2>1, <3>2
    <3>4. IsPrefix(Front(s), plan)
      BY <1>2, <3>2, <3>3, PrefixByIndex
    <3> QED
      BY <2>2, <2>3, <3>4 DEF plan
  <2>4. CASE f.kind # "priority"
    <3>1. Len(s) = Len(plan)
      BY <1>2, <1>3, <1>6, <2>1, <2>4 DEF OnCourse, Passed
    <3>2. s[Len(s)] = plan[Len(plan)]
      BY <1>1, <1>2, <2>2 DEF Last, StepsArePlanned
    <3>3. \A j \in 1 .. Len(s) : s[j] = plan[j]
      BY <1>3, <1>4, <2>1, <3>1, <3>2
    <3>4. IsPrefix(s, plan)
      BY <1>2, <1>3, <3>1, <3>3, PrefixByIndex
    <3> QED
      BY <3>4 DEF plan
  <2> QED
    BY <2>3, <2>4
<1> QED
  BY <1>5, <1>6

\* What a run has executed is a prefix of the plan it printed; a priority run that is
\* stopped skips to its report.  The plan and the calls are two lists of the code.
THEOREM PlansAreExecuted == Spec => []PlanIsExecuted
<1>1. E2EInv => PlanIsExecuted
  <2>1. SUFFICES ASSUME E2EInv, NEW i \in DOMAIN stack
                 PROVE  IsFrame(stack[i]) /\ OnCourse(stack[i])
    BY FrameExecutesItsPlan DEF PlanIsExecuted
  <2>2. CASE stack = <<>>
    BY <2>1, <2>2
  <2>3. CASE stack = <<stack[1]>> /\ FrameHolds(stack[1], stored)
    <3>1. i = 1
      <4> DEFINE f == stack[1]
      <4>1. stack = <<f>>
        BY <2>3
      <4> HIDE DEF f
      <4> QED
        BY <4>1
    <3> QED
      BY <2>3, <3>1 DEF FrameHolds
  <2>4. CASE /\ stack = <<stack[1], stack[2]>> /\ FrameHolds(stack[1], stored)
             /\ FrameHolds(stack[2], stored)
    <3>1. i \in {1, 2}
      <4> DEFINE f == stack[1]
                 g == stack[2]
      <4>1. stack = <<f, g>>
        BY <2>4
      <4> HIDE DEF f, g
      <4> QED
        BY <4>1
    <3> QED
      BY <2>4, <3>1 DEF FrameHolds
  <2> QED
    BY <2>1, <2>2, <2>3, <2>4 DEF E2EInv, StackHolds
<1> QED
  BY <1>1, InvariantHolds, PTL

Unfailed(f) == f.flags.cont \/ f.failed = {}

\* A step that changes something is no report, and no frame of its run has failed.
LEMMA StepIsUnfailed ==
    ASSUME E2EInv, Step, stored' # stored \/ disk' # disk
    PROVE  \A i \in DOMAIN stack :
              Unfailed(stack[i]) /\ (stack[i].flags.persist \/ stored' = stored)
<1> DEFINE f == Top
           id == Steps(f)[f.at]
<1>1. PICK o \in IF f.unconfigured THEN {Outcome("none", stored, disk, FALSE)}
                 ELSE StepOutcomes(f, id) :
         stored' = o.stored /\ disk' = o.disk
  BY DEF Step
<1>2. ~Idle /\ CanStep(f) /\ ~CallsRun(f)
  BY DEF Step
<1>3. ~f.unconfigured
  BY <1>1 DEF Outcome
<1>4. id # "source_coverage"
  BY <1>1, <1>3, ReportOutcome
<1>5. Adds(o, f, id)
  BY <1>1, <1>3, StepAdds DEF E2EInv
<1>6. FrameHolds(f, stored) /\ IsFrame(f) /\ OnCourse(f)
  BY <1>2, Running DEF E2EInv, FrameHolds
<1>7. Unfailed(f)
  <2>1. f.kind # "priority"
    BY <1>2, <1>4, <1>6, FrameAtStep
  <2>2. ~Halted(f)
    BY <1>2, <1>6, <2>1, FrameAtStep
  <2> QED
    BY <2>2 DEF Halted, Unfailed
<1>8. f.flags.persist \/ stored' = stored
  BY <1>1, <1>5 DEF Adds
<1> HIDE DEF f
<1>9. CASE stack = <<f>>
  <2>1. \A i \in DOMAIN stack : stack[i] = f
    BY <1>9
  <2> QED
    BY <1>7, <1>8, <2>1
<1>10. ASSUME NEW h, stack = <<h, f>>, FrameHolds(h, stored), Waits(h, f)
       PROVE  \A i \in DOMAIN stack :
                 Unfailed(stack[i]) /\ (stack[i].flags.persist \/ stored' = stored)
  <2>1. h.flags = f.flags /\ CanStep(h) /\ CallsRun(h) /\ IsFrame(h) /\ OnCourse(h)
    BY <1>10 DEF Waits, FrameHolds
  <2>2. ~Halted(h)
    BY <2>1, FrameAtStep
  <2>3. Unfailed(h) /\ (h.flags.persist \/ stored' = stored)
    BY <1>8, <2>1, <2>2 DEF Halted, Unfailed
  <2>4. \A i \in DOMAIN stack : stack[i] = h \/ stack[i] = f
    BY <1>10
  <2> QED
    BY <1>7, <1>8, <2>3, <2>4
<1> QED
  BY <1>2, <1>9, <1>10, Running DEF E2EInv, f

\* Without --continue-on-error nothing is collected, built or stored once a step of the
\* run, or of a run it called, has failed; without --persist nothing reaches the
\* database; and only a step of a run changes anything while one is under way.
THEOREM FailureStops == Spec => NothingAfterFailure
<1> DEFINE A == (stored' # stored \/ disk' # disk) /\ ~ Idle =>
                   \A i \in DOMAIN stack :
                       /\ stack[i].flags.cont \/ stack[i].failed = {}
                       /\ stack[i].flags.persist \/ stored' = stored
<1>1. E2EInv /\ [Next]_vars => [A]_vars
  <2>1. SUFFICES ASSUME E2EInv, Next, stored' # stored \/ disk' # disk, ~Idle PROVE A
    OBVIOUS
  <2>2. Step
    BY <2>1 DEF Next, RunSourceE2E, DryRun, RunP1E2E, RunPriorityE2E, Starting, CallNestedRun,
       Return, Crash, NewMachine, LoadWarehouse, FillForecast, Repair, DeployGate
  <2> QED
    BY <2>1, <2>2, StepIsUnfailed DEF Unfailed
<1> QED
  BY <1>1, InvariantHolds, PTL DEF Spec, NothingAfterFailure


-------------------------------------------------------------------------------
(* The remediation plan.  What a ticker is missing is given by an action    *)
(* that the plan has for its market; the report names what the action       *)
(* needs, and what it must come after is in the plan with it.               *)

\* Every action for the market of a ticker that misses something is planned.
Planned(have, T, consensus, id, t) ==
    \E a \in Plan(have, T, consensus) :
        a.id = id /\ t \in a.tickers /\ a.priority = Priority[id]

LEMMA ActionIsPlanned ==
    ASSUME NEW have, NEW T, NEW consensus, NEW t, NEW id, NEW S, t \in S,
           Action(id, S) \in Plan(have, T, consensus)
    PROVE  Planned(have, T, consensus, id, t)
<1>1. /\ Action(id, S).id = id /\ Action(id, S).tickers = S
      /\ Action(id, S).priority = Priority[id]
  BY DEF Action
<1> QED
  BY <1>1 DEF Planned

LEMMA MarketActs ==
    ASSUME NEW X, NEW t \in X
    PROVE  LET same == {u \in X : MarketOf(u) = MarketOf(t)} IN
           /\ t \in same
           /\ \A id \in SourceMetricActions(MarketOf(t)) :
                  Action(id, same) \in ByMarket(X, SourceMetricActions)
           /\ \A id \in AdjustedEarningsActions(MarketOf(t)) :
                  Action(id, same) \in ByMarket(X, AdjustedEarningsActions)
           /\ \A id \in PriceActions(MarketOf(t)) :
                  Action(id, same) \in ByMarket(X, PriceActions)
           /\ \A id \in MarketStructureActions(MarketOf(t)) :
                  Action(id, same) \in ByMarket(X, MarketStructureActions)
<1> DEFINE m == MarketOf(t)
           same == {u \in X : MarketOf(u) = m}
<1>1. t \in same /\ m \in MarketsOf(X)
  BY DEF MarketsOf
<1>2. \A id \in SourceMetricActions(m) : Action(id, same) \in ByMarket(X, SourceMetricActions)
  BY <1>1 DEF ByMarket
<1>3. \A id \in AdjustedEarningsActions(m) :
         Action(id, same) \in ByMarket(X, AdjustedEarningsActions)
  BY <1>1 DEF ByMarket
<1>4. \A id \in PriceActions(m) : Action(id, same) \in ByMarket(X, PriceActions)
  BY <1>1 DEF ByMarket
<1>5. \A id \in MarketStructureActions(m) :
         Action(id, same) \in ByMarket(X, MarketStructureActions)
  BY <1>1 DEF ByMarket
<1> QED
  BY <1>1, <1>2, <1>3, <1>4, <1>5

LEMMA MissingIsPlanned ==
    ASSUME NEW have, NEW T \in SUBSET Universe, NEW consensus, NEW t \in T,
           NEW e \in Required(t, consensus) \ have[t]
    PROVE  /\ e \in {"security", "source_evidence", "financial_metrics"} =>
                \A id \in SourceMetricActions(MarketOf(t)) : Planned(have, T, consensus, id, t)
           /\ e = "adjusted_earnings" =>
                \A id \in AdjustedEarningsActions(MarketOf(t)) : Planned(have, T, consensus, id, t)
           /\ e = "price_bars" =>
                \A id \in PriceActions(MarketOf(t)) : Planned(have, T, consensus, id, t)
           /\ e \in {"market_cap_evidence", "listed_shares_evidence"} =>
                \A id \in MarketStructureActions(MarketOf(t)) : Planned(have, T, consensus, id, t)
           /\ e = "consensus_forecast" => Planned(have, T, consensus, "import_consensus_csv", t)
<1> DEFINE Missing(R) == UNION {MissingFor(have, T, consensus, r) : r \in R}
           m == MarketOf(t)
           plan == Plan(have, T, consensus)
<1>1. t \in MissingFor(have, T, consensus, e)
  BY DEF MissingFor
<1>2. ASSUME NEW R, e \in R PROVE t \in Missing(R)
  BY <1>1, <1>2
<1> DEFINE sources == Missing({"security", "source_evidence", "financial_metrics"})
           earned == Missing({"adjusted_earnings"})
           priced == Missing({"price_bars"})
           structured == Missing({"market_cap_evidence", "listed_shares_evidence"})
           forecast == Missing({"consensus_forecast"})
<1>3. /\ ByMarket(sources, SourceMetricActions) \subseteq plan
      /\ ByMarket(earned, AdjustedEarningsActions) \subseteq plan
      /\ ByMarket(priced, PriceActions) \subseteq plan
      /\ ByMarket(structured, MarketStructureActions) \subseteq plan
      /\ forecast # {} => Action("import_consensus_csv", forecast) \in plan
  BY DEF Plan
<1>4. /\ e \in {"security", "source_evidence", "financial_metrics"} => t \in sources
      /\ e = "adjusted_earnings" => t \in earned
      /\ e = "price_bars" => t \in priced
      /\ e \in {"market_cap_evidence", "listed_shares_evidence"} => t \in structured
      /\ e = "consensus_forecast" => t \in forecast
  BY <1>2
<1> HIDE DEF sources, earned, priced, structured, forecast, plan
<1>5. ASSUME t \in sources, NEW id \in SourceMetricActions(m)
      PROVE  Planned(have, T, consensus, id, t)
  <2>1. PICK S : t \in S /\ Action(id, S) \in ByMarket(sources, SourceMetricActions)
    BY <1>5, MarketActs
  <2> QED
    BY <1>3, <2>1, ActionIsPlanned DEF plan
<1>6. ASSUME t \in earned, NEW id \in AdjustedEarningsActions(m)
      PROVE  Planned(have, T, consensus, id, t)
  <2>1. PICK S : t \in S /\ Action(id, S) \in ByMarket(earned, AdjustedEarningsActions)
    BY <1>6, MarketActs
  <2> QED
    BY <1>3, <2>1, ActionIsPlanned DEF plan
<1>7. ASSUME t \in priced, NEW id \in PriceActions(m)
      PROVE  Planned(have, T, consensus, id, t)
  <2>1. PICK S : t \in S /\ Action(id, S) \in ByMarket(priced, PriceActions)
    BY <1>7, MarketActs
  <2> QED
    BY <1>3, <2>1, ActionIsPlanned DEF plan
<1>8. ASSUME t \in structured, NEW id \in MarketStructureActions(m)
      PROVE  Planned(have, T, consensus, id, t)
  <2>1. PICK S : t \in S /\ Action(id, S) \in ByMarket(structured, MarketStructureActions)
    BY <1>8, MarketActs
  <2> QED
    BY <1>3, <2>1, ActionIsPlanned DEF plan
<1>9. ASSUME t \in forecast PROVE Planned(have, T, consensus, "import_consensus_csv", t)
  BY <1>3, <1>9, ActionIsPlanned DEF plan
<1> QED
  BY <1>4, <1>5, <1>6, <1>7, <1>8, <1>9

\* What the report names for the ticker's market is all that the action needs.
Supplied(id, t) ==
    \/ Needs(id) = {}
    \/ Needs(id) = {"forecast CSV"} /\ id = "import_consensus_csv"
    \/ Needs(id) = {"OPENDART_API_KEY"} /\ id = "collect_opendart" /\ MarketOf(t) = "KR"
    \/ Needs(id) = {"JQUANTS credentials"} /\ id = "collect_jquants" /\ MarketOf(t) = "JP"
    \/ /\ Needs(id) = {"SEC_USER_AGENT"} /\ MarketOf(t) = "US"
       /\ id \in {"collect_sec_bulk", "normalize_us_batch"}

\* A planned action that is supplied runs, unless it is the load of archives that
\* nothing downloads before it.
LEMMA PlannedRuns ==
    ASSUME NEW have, NEW archives, NEW T \in SUBSET Universe, NEW consensus, NEW t \in T,
           NEW id \in DOMAIN Gives, Planned(have, T, consensus, id, t), Supplied(id, t),
           id = "load_sec_bulk_warehouse" =>
              MarketOf(t) = "US" /\ Planned(have, T, consensus, "collect_sec_bulk", t)
    PROVE  Gives[id] \subseteq AfterPlan(have, archives, T, consensus)[t]
<1> DEFINE plan == Plan(have, T, consensus)
           ids == {a.id : a \in plan}
           ready == Configured(plan, T)
<1>1. PICK a \in plan : a.id = id /\ t \in a.tickers /\ a.priority = Priority[id]
  BY DEF Planned
<1>2. id \in ids /\ MarketOf(t) \in MarketsOf(T) /\ id # "run_priority_e2e"
  BY <1>1 DEF MarketsOf, Gives
<1>3. Needs(id) \subseteq Prerequisites(T, ids)
  BY <1>2 DEF Prerequisites, Supplied
<1>4. a \in ready
  BY <1>1, <1>2, <1>3 DEF Configured
<1>5. ASSUME id = "load_sec_bulk_warehouse"
      PROVE  \E b \in ready : b.id = "collect_sec_bulk" /\ b.priority < a.priority
  <2>1. PICK b \in plan : b.id = "collect_sec_bulk" /\ b.priority = Priority["collect_sec_bulk"]
    BY <1>5 DEF Planned
  <2>2. Needs("collect_sec_bulk") = {"SEC_USER_AGENT"}
    BY DEF Needs, Credential
  <2>3. Needs(b.id) \subseteq Prerequisites(T, ids)
    BY <1>2, <1>5, <2>1, <2>2 DEF Prerequisites
  <2>4. b \in ready
    BY <2>1, <2>3 DEF Configured
  <2>5. Priority["collect_sec_bulk"] = 10 /\ Priority["load_sec_bulk_warehouse"] = 11
    BY DEF Priority
  <2> QED
    BY <1>1, <1>5, <2>1, <2>4, <2>5
<1>6. a \in RunInOrder(ready, archives)
  BY <1>1, <1>4, <1>5 DEF RunInOrder
<1> QED
  BY <1>1, <1>6 DEF AfterPlan

\* Whatever evidence there is, one pass over the plan completes it.
LEMMA PassRepairs ==
    ASSUME NEW have, NEW archives, NEW T \in SUBSET Universe, NEW consensus
    PROVE  Covered(AfterPlan(have, archives, T, consensus), T, consensus)
<1> DEFINE after == AfterPlan(have, archives, T, consensus)
<1>1. SUFFICES ASSUME NEW t \in T, NEW e \in Required(t, consensus) PROVE e \in after[t]
  BY DEF Covered
<1>2. CASE e \in have[t]
  BY <1>2 DEF AfterPlan
<1>3. ASSUME e \notin have[t] PROVE e \in after[t]
  <2> DEFINE m == MarketOf(t)
  <2>1. m = "KR" \/ m = "US" \/ m = "JP"
    BY MarketIsKnown DEF Markets
  <2>2. ASSUME e \in {"security", "source_evidence", "financial_metrics"} PROVE e \in after[t]
    <3> DEFINE id == CASE m = "KR" -> "collect_opendart"
                       [] m = "US" -> "load_sec_bulk_warehouse"
                       [] m = "JP" -> "collect_jquants"
    <3>1. Planned(have, T, consensus, id, t)
      BY <1>3, <2>1, <2>2, MissingIsPlanned DEF SourceMetricActions
    <3>2. m = "US" => Planned(have, T, consensus, "collect_sec_bulk", t)
      BY <1>3, <2>2, MissingIsPlanned DEF SourceMetricActions
    <3>3. id \in DOMAIN Gives /\ e \in Gives[id]
      BY <2>1, <2>2 DEF Gives, Core
    <3>4. Supplied(id, t)
      BY <2>1 DEF Supplied, Needs, Credential
    <3>5. id = "load_sec_bulk_warehouse" => m = "US"
      BY <2>1
    <3> HIDE DEF id
    <3> QED
      BY <3>1, <3>2, <3>3, <3>4, <3>5, PlannedRuns
  <2>3. ASSUME e = "adjusted_earnings" PROVE e \in after[t]
    <3> DEFINE id == CASE m = "KR" -> "collect_opendart" [] m = "US" -> "normalize_us_batch"
                       [] m = "JP" -> "collect_jquants"
    <3>1. Planned(have, T, consensus, id, t)
      BY <1>3, <2>1, <2>3, MissingIsPlanned DEF AdjustedEarningsActions, SourceMetricActions
    <3>2. id \in DOMAIN Gives /\ e \in Gives[id]
      BY <2>1, <2>3 DEF Gives, Core
    <3>3. Supplied(id, t) /\ id # "load_sec_bulk_warehouse"
      BY <2>1 DEF Supplied, Needs, Credential
    <3> HIDE DEF id
    <3> QED
      BY <3>1, <3>2, <3>3, PlannedRuns
  <2>4. ASSUME e = "price_bars" PROVE e \in after[t]
    <3> DEFINE id == IF m = "KR" THEN "collect_pykrx_prices" ELSE "collect_stooq_prices"
    <3>1. Planned(have, T, consensus, id, t)
      BY <1>3, <2>4, MissingIsPlanned DEF PriceActions
    <3>2. id \in DOMAIN Gives /\ e \in Gives[id] /\ Supplied(id, t)
          /\ id # "load_sec_bulk_warehouse"
      BY <2>4 DEF Gives, Supplied, Needs, Credential
    <3> HIDE DEF id
    <3> QED
      BY <3>1, <3>2, PlannedRuns
  <2>5. ASSUME e \in {"market_cap_evidence", "listed_shares_evidence"} PROVE e \in after[t]
    <3> DEFINE id == IF m = "KR" THEN "collect_marcap" ELSE "import_market_csv"
    <3>1. Planned(have, T, consensus, id, t)
      BY <1>3, <2>5, MissingIsPlanned DEF MarketStructureActions
    <3>2. e = "listed_shares_evidence" => m = "KR"
      BY KrIsOfKr DEF Required, Core
    <3>3. id \in DOMAIN Gives /\ e \in Gives[id] /\ Supplied(id, t)
          /\ id # "load_sec_bulk_warehouse"
      BY <2>5, <3>2 DEF Gives, Supplied, Needs, Credential
    <3> HIDE DEF id
    <3> QED
      BY <3>1, <3>3, PlannedRuns
  <2>6. ASSUME e = "consensus_forecast" PROVE e \in after[t]
    <3>1. Planned(have, T, consensus, "import_consensus_csv", t)
      BY <1>3, <2>6, MissingIsPlanned
    <3>2. /\ "import_consensus_csv" \in DOMAIN Gives /\ e \in Gives["import_consensus_csv"]
          /\ Supplied("import_consensus_csv", t)
      BY <2>6 DEF Gives, Supplied, Needs, Credential
    <3> QED
      BY <3>1, <3>2, PlannedRuns
  <2> QED
    BY <2>2, <2>3, <2>4, <2>5, <2>6 DEF Required, Core, Evidence
<1> QED
  BY <1>2, <1>3

\* Whatever a command leaves missing, and for any tickers, priorities of tickers and
\* files of the machine, the plan of the coverage report repairs (source_coverage.py).
THEOREM PlansRepair == Spec => []PlanRepairs
<1>1. PlanRepairs
  <2>1. Universe \in SUBSET Universe /\ \A m \in Markets : Range(TickersOf(m)) \in SUBSET Universe
    BY DEF Universe, Markets, TickersOf
  <2> QED
    BY <2>1, PassRepairs DEF PlanRepairs
<1> QED
  BY <1>1, PTL

-------------------------------------------------------------------------------
(* Types.  The stack is typed by E2EInv but for the steps a run has failed, *)
(* which are steps of its plan; the stores are typed because every command  *)
(* a run or a repair calls is one that gives evidence.                      *)

Disks == [archives : BOOLEAN, raw : [Range(KR) -> SUBSET RawKr],
          cache : SUBSET Universe, warehouse : SUBSET Universe, csv : SUBSET Universe]

StoresTyped == stored \in [Universe -> SUBSET Evidence] /\ disk \in Disks
BoundsHold == env \in Environments /\ runs \in 0 .. MaxRuns /\ hitches \in 0 .. MaxHitches
KnownFailures(f) == f.failed \subseteq Range(Steps(f))
FailuresKnown == \A i \in DOMAIN stack : KnownFailures(stack[i])
TypeInv == StoresTyped /\ BoundsHold /\ FailuresKnown

\* The commands that write to the database, the build and the report, which do not.
Commands == DOMAIN Gives \union {"build_kr_valuation_inputs", "source_coverage"}

LEMMA CommandsGiveEvidence ==
    ASSUME NEW id \in DOMAIN Gives PROVE Gives[id] \subseteq Evidence
BY DEF Gives, Evidence, Core

LEMMA StoreIsTyped ==
    ASSUME StoresTyped, NEW some, NEW id \in DOMAIN Gives
    PROVE  Store(some, id) \in [Universe -> SUBSET Evidence]
<1>1. \A t \in Universe : stored[t] \subseteq Evidence
  BY DEF StoresTyped
<1> QED
  BY <1>1, CommandsGiveEvidence DEF Store

LEMMA KeepRawIsTyped ==
    ASSUME StoresTyped, NEW some, NEW id
    PROVE  KeepRaw(some, id) \in [Range(KR) -> SUBSET RawKr]
<1>1. \A t \in Range(KR) : disk.raw[t] \subseteq RawKr
  BY DEF StoresTyped, Disks
<1> QED
  BY <1>1 DEF KeepRaw

OutcomeTyped(o) == o.stored \in [Universe -> SUBSET Evidence] /\ o.disk \in Disks

LEMMA CollectedIsTyped ==
    ASSUME StoresTyped, NEW f, NEW id \in DOMAIN Gives, NEW o \in Collected(f, id)
    PROVE  OutcomeTyped(o)
<1>1. PICK some : /\ o.stored = IF f.flags.persist THEN Store(some, id) ELSE stored
                  /\ o.disk = [disk EXCEPT !.raw = KeepRaw(some, id)]
  BY DEF Collected, Outcome
<1>2. o.stored \in [Universe -> SUBSET Evidence]
  BY <1>1, StoreIsTyped DEF StoresTyped
<1>3. o.disk \in Disks
  BY <1>1, KeepRawIsTyped DEF StoresTyped, Disks
<1> QED
  BY <1>2, <1>3 DEF OutcomeTyped

LEMMA ArchivesAreTyped ==
    ASSUME StoresTyped, NEW f, NEW o \in CollectedArchives(f) PROVE OutcomeTyped(o)
<1>1. o.stored = stored
  BY DEF CollectedArchives, Outcome
<1>2. o.disk = disk \/ o.disk = [disk EXCEPT !.archives = @ \/ f.flags.persist]
  BY DEF CollectedArchives, Outcome
<1>3. (disk.archives \/ f.flags.persist) \in BOOLEAN
  OBVIOUS
<1>4. o.disk \in Disks
  BY <1>2, <1>3 DEF StoresTyped, Disks
<1> QED
  BY <1>1, <1>4 DEF OutcomeTyped, StoresTyped

LEMMA BuiltIsTyped ==
    ASSUME StoresTyped, NEW f, Range(f.tickers) \subseteq Universe, NEW o \in Built(f)
    PROVE  OutcomeTyped(o)
<1> DEFINE ready == {t \in Range(f.tickers) : Buildable(t)}
<1>1. o.stored = stored
  BY DEF Built, Outcome
<1>2. o.disk = disk \/ o.disk = [disk EXCEPT !.cache = @ \union ready]
  BY DEF Built, Outcome
<1>3. ready \subseteq Universe
  OBVIOUS
<1> HIDE DEF ready
<1>4. o.disk \in Disks
  BY <1>2, <1>3 DEF StoresTyped, Disks
<1> QED
  BY <1>1, <1>4 DEF OutcomeTyped, StoresTyped

LEMMA LoadedIsTyped ==
    ASSUME StoresTyped, NEW f, NEW o \in Loaded(f) PROVE OutcomeTyped(o)
<1> DEFINE cached == SelectSeq(f.tickers, LAMBDA t : t \in disk.cache)
           load(some) == IF f.flags.persist THEN Store(some, "load_kr_valuation_postgres")
                         ELSE stored
<1>1. PICK some : o.stored = load(some) /\ o.disk = disk
  <2> HIDE DEF load
  <2> DEFINE fails == {Outcome("failed", load(some), disk, cached = f.tickers) :
                          some \in FirstOf(cached)}
             goes  == {p \in {Outcome("ok", load(Range(cached)), disk, FALSE)} :
                          cached = f.tickers}
  <2>1. o \in fails \union goes
    BY DEF Loaded, load
  <2> HIDE DEF cached
  <2>2. CASE o \in fails
    BY <2>2 DEF Outcome
  <2>3. CASE o \in goes
    BY <2>3 DEF Outcome
  <2> QED
    BY <2>1, <2>2, <2>3
<1>2. "load_kr_valuation_postgres" \in DOMAIN Gives
  BY DEF Gives
<1>3. load(some) \in [Universe -> SUBSET Evidence]
  BY <1>2, StoreIsTyped DEF StoresTyped
<1> HIDE DEF load
<1> QED
  BY <1>1, <1>3 DEF OutcomeTyped, StoresTyped

LEMMA OutcomesAreTyped ==
    ASSUME StoresTyped, NEW f, NEW id \in Commands, NEW o \in StepOutcomes(f, id),
           id = "build_kr_valuation_inputs" => Range(f.tickers) \subseteq Universe
    PROVE  OutcomeTyped(o)
<1>1. CASE id = "collect_sec_bulk"
  BY <1>1, ArchivesAreTyped DEF StepOutcomes
<1>2. CASE id = "load_sec_bulk_warehouse"
  <2>1. o \in LoadedArchives(f)
    BY <1>2 DEF StepOutcomes
  <2>2. CASE disk.archives
    <3>1. "load_sec_bulk_warehouse" \in DOMAIN Gives
      BY DEF Gives
    <3> QED
      BY <2>1, <2>2, <3>1, CollectedIsTyped DEF LoadedArchives
  <2>3. CASE ~disk.archives
    <3>1. o.stored = stored /\ o.disk = disk
      BY <2>1, <2>3 DEF LoadedArchives, Outcome
    <3> QED
      BY <3>1 DEF OutcomeTyped, StoresTyped
  <2> QED
    BY <2>2, <2>3
<1>3. CASE id = "build_kr_valuation_inputs"
  BY <1>3, BuiltIsTyped DEF StepOutcomes
<1>4. CASE id = "load_kr_valuation_postgres"
  BY <1>4, LoadedIsTyped DEF StepOutcomes
<1>5. CASE id = "source_coverage"
  <2>1. o.stored = stored /\ o.disk = disk
    BY <1>5, ReportOutcome
  <2> QED
    BY <2>1 DEF OutcomeTyped, StoresTyped
<1>6. CASE id \notin {"collect_sec_bulk", "load_sec_bulk_warehouse", "build_kr_valuation_inputs",
                      "load_kr_valuation_postgres", "source_coverage"}
  <2>1. o \in Collected(f, id) /\ id \in DOMAIN Gives
    BY <1>6 DEF StepOutcomes, Commands
  <2> QED
    BY <2>1, CollectedIsTyped
<1> QED
  BY <1>1, <1>2, <1>3, <1>4, <1>5, <1>6

\* What a run does not call another run for is a command.
LEMMA StepsAreCommands ==
    ASSUME NEW f, IsFrame(f), OnCourse(f), CanStep(f), ~CallsRun(f)
    PROVE  Steps(f)[f.at] \in Commands
<1> DEFINE id == Steps(f)[f.at]
<1>1. /\ StepsArePlanned(f) /\ f.at \in 1 .. Len(Steps(f)) /\ id \in StepIds
      /\ f.kind = "priority" => (CallsRun(f) <=> id # "source_coverage")
  BY FrameAtStep
<1>2. \A x \in StepIds : x \in {"run US", "run KR", "run JP"} \/ x \in Commands
  BY DEF StepIds, Commands, Gives
<1>3. CASE f.kind = "priority"
  BY <1>1, <1>3 DEF Commands
<1>4. CASE f.kind = "p1"
  <2> DEFINE t == <<"run US", "collect_opendart", "collect_pykrx_prices", "collect_marcap",
                    "collect_jquants", "collect_edinet", "collect_stooq_prices",
                    "source_coverage">>
  <2>1. Steps(f) = t
    BY <1>1, <1>4 DEF StepsArePlanned, PlannedSteps
  <2>2. /\ Len(t) = 8 /\ t[2] = "collect_opendart" /\ t[3] = "collect_pykrx_prices"
        /\ t[4] = "collect_marcap" /\ t[5] = "collect_jquants" /\ t[6] = "collect_edinet"
        /\ t[7] = "collect_stooq_prices" /\ t[8] = "source_coverage"
    OBVIOUS
  <2> HIDE DEF t
  <2>3. f.at \in 1 .. 8 /\ f.at # 1
    BY <1>1, <1>4, <2>1, <2>2 DEF CallsRun
  <2>4. f.at = 2 \/ f.at = 3 \/ f.at = 4 \/ f.at = 5 \/ f.at = 6 \/ f.at = 7 \/ f.at = 8
    BY <2>3
  <2>5. id \notin {"run US", "run KR", "run JP"}
    BY <2>1, <2>2, <2>4
  <2> QED
    BY <1>1, <1>2, <2>5
<1>5. CASE f.kind = "source"
  <2>1. PICK m \in Markets : f.markets = <<m>>
    BY <1>5 DEF IsFrame
  <2>2. Steps(f) = PlannedSteps("source", <<m>>)
    BY <1>1, <1>5, <2>1 DEF StepsArePlanned
  <2>3. CASE m = "US"
    <3> DEFINE t == <<"collect_sec_bulk", "load_sec_bulk_warehouse", "normalize_us_batch",
                      "collect_stooq_prices", "source_coverage">>
    <3>1. Steps(f) = t
      BY <2>2, <2>3 DEF PlannedSteps
    <3>2. /\ Len(t) = 5 /\ t[1] = "collect_sec_bulk" /\ t[2] = "load_sec_bulk_warehouse"
          /\ t[3] = "normalize_us_batch" /\ t[4] = "collect_stooq_prices"
          /\ t[5] = "source_coverage"
      OBVIOUS
    <3> HIDE DEF t
    <3>3. f.at = 1 \/ f.at = 2 \/ f.at = 3 \/ f.at = 4 \/ f.at = 5
      BY <1>1, <3>1, <3>2
    <3>4. id \notin {"run US", "run KR", "run JP"}
      BY <3>1, <3>2, <3>3
    <3> QED
      BY <1>1, <1>2, <3>4
  <2>4. CASE m = "KR"
    <3> DEFINE t == <<"collect_opendart", "collect_pykrx_prices", "collect_marcap",
                      "build_kr_valuation_inputs", "load_kr_valuation_postgres",
                      "source_coverage">>
    <3>1. Steps(f) = t
      BY <2>2, <2>4 DEF PlannedSteps
    <3>2. /\ Len(t) = 6 /\ t[1] = "collect_opendart" /\ t[2] = "collect_pykrx_prices"
          /\ t[3] = "collect_marcap" /\ t[4] = "build_kr_valuation_inputs"
          /\ t[5] = "load_kr_valuation_postgres" /\ t[6] = "source_coverage"
      OBVIOUS
    <3> HIDE DEF t
    <3>3. f.at = 1 \/ f.at = 2 \/ f.at = 3 \/ f.at = 4 \/ f.at = 5 \/ f.at = 6
      BY <1>1, <3>1, <3>2
    <3>4. id \notin {"run US", "run KR", "run JP"}
      BY <3>1, <3>2, <3>3
    <3> QED
      BY <1>1, <1>2, <3>4
  <2>5. CASE m = "JP"
    <3> DEFINE t == <<"collect_jquants", "collect_edinet", "collect_stooq_prices",
                      "source_coverage">>
    <3>1. Steps(f) = t
      BY <2>2, <2>5 DEF PlannedSteps
    <3>2. /\ Len(t) = 4 /\ t[1] = "collect_jquants" /\ t[2] = "collect_edinet"
          /\ t[3] = "collect_stooq_prices" /\ t[4] = "source_coverage"
      OBVIOUS
    <3> HIDE DEF t
    <3>3. f.at = 1 \/ f.at = 2 \/ f.at = 3 \/ f.at = 4
      BY <1>1, <3>1, <3>2
    <3>4. id \notin {"run US", "run KR", "run JP"}
      BY <3>1, <3>2, <3>3
    <3> QED
      BY <1>1, <1>2, <3>4
  <2> QED
    BY <2>3, <2>4, <2>5 DEF Markets
<1> QED
  BY <1>3, <1>4, <1>5 DEF IsFrame

\* A step adds its own name, at most, to what its run has failed.
LEMMA FailuresAreSteps ==
    ASSUME NEW f, IsFrame(f), OnCourse(f), CanStep(f), KnownFailures(f), NEW status
    PROVE  KnownFailures(After(f, Steps(f)[f.at], status))
<1> DEFINE id == Steps(f)[f.at]
           g == After(f, id, status)
<1>1. FollowsFrom(g, f, id, status)
  BY AfterFields DEF IsFrame
<1>2. g.failed \subseteq f.failed \union {id}
  <2>1. DOMAIN f = Fields
    BY DEF IsFrame
  <2> HIDE DEF id
  <2> QED
    BY <2>1 DEF After, Fields
<1> HIDE DEF g
<1>3. Steps(g) = Steps(f)
  BY <1>1, StepsOfMarkets DEF FollowsFrom
<1>4. id \in Range(Steps(f))
  <2>1. StepsArePlanned(f) /\ f.at \in 1 .. Len(Steps(f))
    BY FrameAtStep
  <2> QED
    BY <2>1 DEF Range, StepsArePlanned
<1>5. KnownFailures(g)
  BY <1>2, <1>3, <1>4 DEF KnownFailures
<1> QED
  BY <1>5 DEF g, id

\* The tickers of one market make no plan over several.
LEMMA OneMarket ==
    ASSUME NEW m \in Markets, NEW missing PROVE PriorityBootstrap(Range(TickersOf(m)), missing) = {}
<1> DEFINE T == Range(TickersOf(m))
           M == MarketsOf(T)
<1>1. T \subseteq Universe
  BY DEF Universe, Markets, TickersOf
<1>2. \A t \in T : MarketOf(t) = m
  BY <1>1, MarketIsKnown, CoverageAssumption DEF CoverageAssumption
<1>3. M \subseteq {m}
  BY <1>2 DEF MarketsOf
<1>4. M = {} \/ M = {m}
  BY <1>3
<1>5. Cardinality(M) = 0 \/ Cardinality(M) = 1
  BY <1>4, FS_EmptySet, FS_Singleton
<1>6. Cardinality(M) < 2
  BY <1>5
<1> QED
  BY <1>6 DEF PriorityBootstrap

LEMMA PlansOfAMarketAreCommands ==
    ASSUME NEW m \in Markets, NEW have, NEW consensus,
           NEW a \in Plan(have, Range(TickersOf(m)), consensus)
    PROVE  a.id \in DOMAIN Gives
<1> DEFINE T == Range(TickersOf(m))
           Known == a.id \in DOMAIN Gives
           Missing(R) == UNION {MissingFor(have, T, consensus, e) : e \in R}
<1>1. T \subseteq Universe
  BY DEF Universe, Markets, TickersOf
<1>2. ASSUME NEW missing \in SUBSET Universe, a \in ByMarket(missing, SourceMetricActions)
      PROVE  Known
  <2>1. PICK n \in Markets : \E id \in SourceMetricActions(n) : a.id = id
    BY <1>2, MarketIsKnown DEF ByMarket, MarketsOf, Action
  <2> QED
    BY <2>1 DEF SourceMetricActions, Markets, Gives
<1>3. ASSUME NEW missing \in SUBSET Universe, a \in ByMarket(missing, AdjustedEarningsActions)
      PROVE  Known
  <2>1. PICK n \in Markets : \E id \in AdjustedEarningsActions(n) : a.id = id
    BY <1>3, MarketIsKnown DEF ByMarket, MarketsOf, Action
  <2> QED
    BY <2>1 DEF AdjustedEarningsActions, SourceMetricActions, Markets, Gives
<1>4. ASSUME NEW missing \in SUBSET Universe, a \in ByMarket(missing, PriceActions) PROVE Known
  <2>1. PICK n \in Markets : \E id \in PriceActions(n) : a.id = id
    BY <1>4, MarketIsKnown DEF ByMarket, MarketsOf, Action
  <2> QED
    BY <2>1 DEF PriceActions, Markets, Gives
<1>5. ASSUME NEW missing \in SUBSET Universe, a \in ByMarket(missing, MarketStructureActions)
      PROVE  Known
  <2>1. PICK n \in Markets : \E id \in MarketStructureActions(n) : a.id = id
    BY <1>5, MarketIsKnown DEF ByMarket, MarketsOf, Action
  <2> QED
    BY <2>1 DEF MarketStructureActions, Markets, Gives
<1>6. ASSUME NEW missing,
             a \in (IF missing = {} THEN {} ELSE {Action("import_consensus_csv", missing)})
      PROVE  Known
  BY <1>6 DEF Action, Gives
<1>7. \A missing : a \notin PriorityBootstrap(T, missing)
  BY OneMarket
<1>8. Known
  <2>1. \A R : Missing(R) \in SUBSET Universe
    BY <1>1 DEF MissingFor
  <2> HIDE DEF Known
  <2> QED
    BY <1>2, <1>3, <1>4, <1>5, <1>6, <1>7, <2>1 DEF Plan
<1> QED
  BY <1>8


LEMMA KnownOfOne ==
    ASSUME NEW f, stack' = <<f>>, KnownFailures(f) PROVE FailuresKnown'
<1>1. DOMAIN stack' = {1} /\ stack'[1] = f
  OBVIOUS
<1>2. KnownFailures(stack[1])'
  BY <1>1 DEF KnownFailures
<1> QED
  BY <1>1, <1>2 DEF FailuresKnown

LEMMA KnownOfTwo ==
    ASSUME NEW f, NEW g, stack' = <<f, g>>, KnownFailures(f), KnownFailures(g)
    PROVE  FailuresKnown'
<1>1. DOMAIN stack' = {1, 2} /\ stack'[1] = f /\ stack'[2] = g
  OBVIOUS
<1>2. KnownFailures(stack[1])' /\ KnownFailures(stack[2])'
  BY <1>1 DEF KnownFailures
<1> QED
  BY <1>1, <1>2 DEF FailuresKnown

LEMMA KnownOfNone ==
    ASSUME stack' = <<>> PROVE FailuresKnown'
<1>1. DOMAIN stack' = {}
  OBVIOUS
<1> QED
  BY <1>1 DEF FailuresKnown

LEMMA FreshFailures ==
    ASSUME NEW f, f.failed = {} PROVE KnownFailures(f)
BY DEF KnownFailures

\* The runs of the stack, of which what they failed is known.
LEMMA RunningIsKnown ==
    ASSUME StackHolds, ~Idle, FailuresKnown
    PROVE  \/ stack = <<Top>> /\ FrameHolds(Top, stored) /\ KnownFailures(Top) /\ Len(stack) = 1
           \/ \E h : /\ stack = <<h, Top>> /\ FrameHolds(h, stored) /\ FrameHolds(Top, stored)
                     /\ Waits(h, Top) /\ KnownFailures(h) /\ KnownFailures(Top)
<1>1. CASE stack = <<Top>> /\ FrameHolds(Top, stored) /\ Len(stack) = 1
  <2>1. 1 \in DOMAIN stack /\ stack[1] = Top
    BY <1>1
  <2> QED
    BY <1>1, <2>1 DEF FailuresKnown
<1>2. ASSUME NEW h, stack = <<h, Top>>, FrameHolds(h, stored), FrameHolds(Top, stored),
             Waits(h, Top)
      PROVE  KnownFailures(h) /\ KnownFailures(Top)
  <2>1. 1 \in DOMAIN stack /\ 2 \in DOMAIN stack /\ stack[1] = h /\ stack[2] = Top
    <3> DEFINE g == Top
    <3>1. stack = <<h, g>>
      BY <1>2
    <3> HIDE DEF g
    <3>2. 1 \in DOMAIN stack /\ 2 \in DOMAIN stack /\ stack[1] = h /\ stack[2] = g
      BY <3>1
    <3> QED
      BY <3>2 DEF g
  <2> QED
    BY <2>1 DEF FailuresKnown
<1> QED
  BY <1>1, <1>2, Running

LEMMA BoundIsKept ==
    ASSUME BoundsHold, NEW o, Bounded(o), env' = env, runs' \in 0 .. MaxRuns PROVE BoundsHold'
<1>1. hitches \in Nat /\ MaxHitches \in Nat
  BY E2EAssumption DEF BoundsHold
<1>2. hitches' \in 0 .. MaxHitches
  BY <1>1 DEF Bounded
<1> QED
  BY <1>2 DEF BoundsHold

LEMMA StartIsBounded ==
    ASSUME BoundsHold, Starting PROVE runs' \in 0 .. MaxRuns
BY E2EAssumption DEF BoundsHold, Starting

LEMMA StepKeepsTypes ==
    ASSUME E2EInv, TypeInv, Step PROVE TypeInv'
<1> DEFINE f == Top
           id == Steps(f)[f.at]
<1>1. PICK o \in IF f.unconfigured THEN {Outcome("none", stored, disk, FALSE)}
                 ELSE StepOutcomes(f, id) :
         /\ stack' = Append(Below, After(f, id, o.status)) /\ stored' = o.stored /\ disk' = o.disk
         /\ Bounded(o)
  BY DEF Step
<1>2. ~Idle /\ CanStep(f) /\ ~CallsRun(f) /\ env' = env /\ runs' = runs
  BY DEF Step
<1>3. FrameHolds(f, stored) /\ KnownFailures(f)
  BY <1>2, RunningIsKnown DEF E2EInv, TypeInv
<1>4. IsFrame(f) /\ OnCourse(f)
  BY <1>3 DEF FrameHolds
<1>5. id \in Commands /\ Range(f.tickers) \subseteq Universe
  BY <1>2, <1>4, StepsAreCommands, RangeIsKnown DEF IsFrame
<1>6. OutcomeTyped(o)
  <2>1. CASE f.unconfigured
    <3>1. o.stored = stored /\ o.disk = disk
      BY <1>1, <2>1 DEF Outcome
    <3> QED
      BY <3>1 DEF OutcomeTyped, StoresTyped, TypeInv
  <2>2. CASE ~f.unconfigured
    BY <1>1, <1>5, <2>2, OutcomesAreTyped DEF TypeInv
  <2> QED
    BY <2>1, <2>2
<1>7. StoresTyped'
  BY <1>1, <1>6 DEF OutcomeTyped, StoresTyped, Disks
<1>8. BoundsHold'
  BY <1>1, <1>2, BoundIsKept DEF TypeInv, BoundsHold
<1> DEFINE g == After(f, id, o.status)
<1>9. KnownFailures(g)
  BY <1>2, <1>3, <1>4, FailuresAreSteps
<1>10. stack' = Append(Below, g)
  BY <1>1
<1> HIDE DEF g
<1>11. FailuresKnown'
  <2>1. CASE stack = <<f>>
    BY <1>9, <1>10, <2>1, OneFrame, KnownOfOne
  <2>2. ASSUME NEW h, stack = <<h, f>>, KnownFailures(h) PROVE FailuresKnown'
    BY <1>9, <1>10, <2>2, TwoFrames, KnownOfTwo
  <2> QED
    BY <1>2, <2>1, <2>2, RunningIsKnown DEF E2EInv, TypeInv
<1> QED
  BY <1>7, <1>8, <1>11 DEF TypeInv

LEMMA CallKeepsTypes ==
    ASSUME E2EInv, TypeInv, CallNestedRun PROVE TypeInv'
<1> DEFINE f == Top
<1>1. /\ ~Idle /\ CanStep(f) /\ CallsRun(f) /\ stack' = Append(stack, Nested(f))
      /\ UNCHANGED <<env, stored, disk, runs, hitches>>
  BY DEF CallNestedRun
<1>2. stack = <<f>> /\ KnownFailures(f)
  <2>1. ASSUME NEW h, Waits(h, f) PROVE FALSE
    BY <1>1, <2>1 DEF Waits, CallsRun
  <2> QED
    BY <1>1, <2>1, RunningIsKnown DEF E2EInv, TypeInv
<1>3. stack' = <<f, Nested(f)>>
  BY <1>1, <1>2, OneFrame
<1>4. Nested(f).failed = {}
  BY <1>1 DEF Nested, CallsRun, SourceRun, Frame
<1>5. FailuresKnown'
  <2> DEFINE g == Nested(f)
  <2>1. stack' = <<f, g>> /\ KnownFailures(f) /\ KnownFailures(g)
    BY <1>2, <1>3, <1>4, FreshFailures
  <2> HIDE DEF f, g
  <2> QED
    BY <2>1, KnownOfTwo
<1> QED
  BY <1>1, <1>5 DEF TypeInv, StoresTyped, BoundsHold

LEMMA ReturnKeepsTypes ==
    ASSUME E2EInv, TypeInv, Return PROVE TypeInv'
<1> DEFINE f == Top
<1>1. ~Idle /\ UNCHANGED <<env, stored, disk, runs, hitches>>
  BY DEF Return
<1>2. ASSUME Len(stack) = 1 PROVE FailuresKnown'
  BY <1>2, KnownOfNone DEF Return
<1>3. ASSUME Len(stack) # 1 PROVE FailuresKnown'
  <2>1. PICK h : stack = <<h, f>> /\ FrameHolds(h, stored) /\ Waits(h, f) /\ KnownFailures(h)
    BY <1>1, <1>3, RunningIsKnown DEF E2EInv, TypeInv
  <2> DEFINE g == After(h, Steps(h)[h.at], Status(f))
  <2>2. stack[Len(stack) - 1] = h
    BY <2>1, TwoFrames
  <2>3. stack' = Append(SubSeq(stack, 1, Len(stack) - 2), g)
    BY <1>3, <2>2 DEF Return
  <2>4. KnownFailures(g)
    BY <2>1, FailuresAreSteps DEF FrameHolds, Waits
  <2> HIDE DEF g
  <2>5. stack' = <<g>>
    BY <2>1, <2>3, TwoFrames
  <2> QED
    BY <2>4, <2>5, KnownOfOne
<1>4. FailuresKnown'
  BY <1>2, <1>3
<1> QED
  BY <1>1, <1>4 DEF TypeInv, StoresTyped, BoundsHold


\* The commands that leave the stack alone.
LEMMA CommandsKeepTypes ==
    ASSUME TypeInv, UNCHANGED stack, StoresTyped', BoundsHold' PROVE TypeInv'
BY DEF TypeInv, FailuresKnown, KnownFailures

LEMMA RepairKeepsTypes ==
    ASSUME E2EInv, TypeInv, NEW m \in Markets, NEW consensus \in BOOLEAN, Repair(m, consensus)
    PROVE  TypeInv'
<1>1. Starting /\ UNCHANGED <<env, stack, answer>>
  BY DEF Repair
<1>2. PICK a \in Plan(stored, Range(TickersOf(m)), consensus) :
         \E f : \E o \in StepOutcomes(f, a.id) : Bounded(o) /\ stored' = o.stored /\ disk' = o.disk
  BY DEF Repair
<1>3. PICK f : \E o \in StepOutcomes(f, a.id) :
                  Bounded(o) /\ stored' = o.stored /\ disk' = o.disk
  BY <1>2
<1>4. PICK o \in StepOutcomes(f, a.id) : Bounded(o) /\ stored' = o.stored /\ disk' = o.disk
  BY <1>3
<1>5. a.id \in Commands /\ a.id # "build_kr_valuation_inputs"
  <2>1. a.id \in DOMAIN Gives
    BY PlansOfAMarketAreCommands
  <2> QED
    BY <2>1 DEF Commands, Gives
<1>6. OutcomeTyped(o)
  BY <1>4, <1>5, OutcomesAreTyped DEF TypeInv
<1>7. StoresTyped'
  BY <1>4, <1>6 DEF OutcomeTyped, StoresTyped, Disks
<1>8. BoundsHold'
  BY <1>1, <1>4, BoundIsKept, StartIsBounded DEF TypeInv
<1> QED
  BY <1>1, <1>7, <1>8, CommandsKeepTypes

LEMMA NextKeepsTypes ==
    ASSUME E2EInv, TypeInv, [Next]_vars PROVE TypeInv'
<1> DEFINE Begins(f) == /\ Starting /\ stack' = <<f>> /\ f.failed = {}
                        /\ UNCHANGED <<env, stored, disk, hitches>>
<1>1. ASSUME NEW f, Begins(f) PROVE TypeInv'
  <2>1. FailuresKnown'
    BY <1>1, FreshFailures, KnownOfOne
  <2>2. BoundsHold'
    BY <1>1, StartIsBounded DEF TypeInv, BoundsHold
  <2> QED
    BY <1>1, <2>1, <2>2 DEF TypeInv, StoresTyped
<1>2. ASSUME NEW m, NEW flags, RunSourceE2E(m, flags) PROVE TypeInv'
  <2>1. SourceRun(m, flags).failed = {}
    BY DEF SourceRun, Frame
  <2> QED
    BY <1>1, <1>2, <2>1 DEF RunSourceE2E
<1>3. ASSUME NEW flags, RunP1E2E(flags) PROVE TypeInv'
  <2>1. P1Run(flags).failed = {}
    BY DEF P1Run, Frame
  <2> QED
    BY <1>1, <1>3, <2>1 DEF RunP1E2E
<1>4. ASSUME NEW markets, NEW flags, RunPriorityE2E(markets, flags) PROVE TypeInv'
  <2>1. PriorityRun(markets, flags).failed = {}
    BY DEF PriorityRun, Frame
  <2> QED
    BY <1>1, <1>4, <2>1 DEF RunPriorityE2E
<1>5. CASE Crash
  BY <1>5, KnownOfNone DEF Crash, TypeInv, StoresTyped, BoundsHold
<1>6. CASE NewMachine
  <2>1. NoDisk \in Disks
    BY DEF NoDisk, Disks
  <2>2. StoresTyped'
    BY <1>6, <2>1 DEF NewMachine, TypeInv, StoresTyped, Disks
  <2>3. BoundsHold' /\ UNCHANGED stack
    BY <1>6 DEF NewMachine, TypeInv, BoundsHold
  <2> QED
    BY <2>2, <2>3, CommandsKeepTypes
<1>7. CASE LoadWarehouse
  <2>1. StoresTyped'
    BY <1>7 DEF LoadWarehouse, TypeInv, StoresTyped, Disks
  <2>2. BoundsHold' /\ UNCHANGED stack
    BY <1>7 DEF LoadWarehouse, TypeInv, BoundsHold
  <2> QED
    BY <2>1, <2>2, CommandsKeepTypes
<1>8. ASSUME NEW m \in Markets, FillForecast(m) PROVE TypeInv'
  <2>1. Range(TickersOf(m)) \subseteq Universe
    BY DEF Universe, Markets, TickersOf
  <2>2. StoresTyped'
    BY <1>8, <2>1 DEF FillForecast, TypeInv, StoresTyped, Disks
  <2>3. BoundsHold' /\ UNCHANGED stack
    BY <1>8, StartIsBounded DEF FillForecast, TypeInv, BoundsHold
  <2> QED
    BY <2>2, <2>3, CommandsKeepTypes
<1>9. ASSUME NEW m, NEW flags, DryRun(m, flags) PROVE TypeInv'
  <2>1. UNCHANGED <<env, stored, disk, stack, hitches>> /\ Starting
    BY <1>9 DEF DryRun
  <2>2. StoresTyped' /\ BoundsHold'
    BY <2>1, StartIsBounded DEF TypeInv, StoresTyped, BoundsHold
  <2> QED
    BY <2>1, <2>2, CommandsKeepTypes
<1>10. ASSUME NEW strict, NEW consensus, DeployGate(strict, consensus) PROVE TypeInv'
  <2>1. UNCHANGED <<env, stored, disk, stack, hitches>> /\ Starting
    BY <1>10 DEF DeployGate
  <2>2. StoresTyped' /\ BoundsHold'
    BY <2>1, StartIsBounded DEF TypeInv, StoresTyped, BoundsHold
  <2> QED
    BY <2>1, <2>2, CommandsKeepTypes
<1>11. CASE UNCHANGED vars
  BY <1>11 DEF vars, TypeInv, StoresTyped, BoundsHold, FailuresKnown, KnownFailures
<1> HIDE DEF Begins
<1> QED
  BY <1>2, <1>3, <1>4, <1>5, <1>6, <1>7, <1>8, <1>9, <1>10, <1>11, StepKeepsTypes,
     CallKeepsTypes, ReturnKeepsTypes, RepairKeepsTypes DEF Next

\* What the frames of the stack are, as the type invariant states it.
LEMMA StackIsTyped ==
    ASSUME StackHolds, FailuresKnown
    PROVE  /\ Len(stack) <= 2
           /\ \A i \in DOMAIN stack :
                 /\ stack[i].kind \in IF i = 1 THEN {"source", "p1", "priority"} ELSE {"source"}
                 /\ stack[i].flags \in Flags
                 /\ stack[i].failed \subseteq Range(Steps(stack[i]))
<1>1. CASE stack = <<>>
  BY <1>1
<1>2. CASE ~Idle
  <2> DEFINE g == Top
  <2>1. CASE stack = <<g>> /\ FrameHolds(g, stored) /\ KnownFailures(g)
    <3> HIDE DEF g
    <3>1. Len(stack) = 1 /\ DOMAIN stack = {1} /\ stack[1] = g
      BY <2>1
    <3>2. g.kind \in {"source", "p1", "priority"} /\ g.flags \in Flags
      BY <2>1 DEF FrameHolds, IsFrame
    <3> QED
      BY <2>1, <3>1, <3>2 DEF KnownFailures
  <2>2. ASSUME NEW h, stack = <<h, g>>, FrameHolds(h, stored), FrameHolds(g, stored),
               Waits(h, g), KnownFailures(h), KnownFailures(g)
        PROVE  /\ Len(stack) <= 2
               /\ \A i \in DOMAIN stack :
                     /\ stack[i].kind \in IF i = 1 THEN {"source", "p1", "priority"}
                                          ELSE {"source"}
                     /\ stack[i].flags \in Flags
                     /\ stack[i].failed \subseteq Range(Steps(stack[i]))
    <3> HIDE DEF g
    <3>1. Len(stack) = 2 /\ DOMAIN stack = {1, 2} /\ stack[1] = h /\ stack[2] = g
      BY <2>2
    <3>2. h.kind \in {"source", "p1", "priority"} /\ h.flags \in Flags
      BY <2>2 DEF FrameHolds, IsFrame
    <3>3. g.kind = "source" /\ g.flags \in Flags
      BY <2>2 DEF FrameHolds, IsFrame, Waits
    <3> QED
      BY <2>2, <3>1, <3>2, <3>3 DEF KnownFailures
  <2> QED
    BY <1>2, <2>1, <2>2, RunningIsKnown
<1> QED
  BY <1>1, <1>2 DEF Idle

\* Whatever is run in any order, from any configuration: the stores hold only evidence
\* of tickers of the universe, KR valuations only of KR tickers, a run nests at most once
\* and only to a source run, and reports as failed only steps of its plan.
THEOREM E2ETypeCorrect == Spec => []TypeOK
<1>1. Init => TypeInv
  <2>1. ASSUME Init PROVE StoresTyped
    BY <2>1 DEF Init, NoDisk, StoresTyped, Disks
  <2>2. ASSUME Init PROVE BoundsHold
    BY <2>2, E2EAssumption DEF Init, BoundsHold
  <2>3. ASSUME Init PROVE FailuresKnown
    BY <2>3 DEF Init, FailuresKnown
  <2> QED
    BY <2>1, <2>2, <2>3 DEF TypeInv
<1>2. E2EInv /\ TypeInv /\ [Next]_vars => TypeInv'
  BY NextKeepsTypes
<1>3. E2EInv /\ TypeInv => TypeOK
  <2>1. ASSUME E2EInv, TypeInv
        PROVE  disk \in [archives : BOOLEAN, raw : [Range(KR) -> SUBSET RawKr],
                         cache : SUBSET Range(KR), warehouse : SUBSET Range(KR),
                         csv : SUBSET Universe]
    BY <2>1 DEF E2EInv, DiskHolds, TypeInv, StoresTyped, Disks
  <2> QED
    BY <2>1, StackIsTyped DEF TypeOK, E2EInv, TypeInv, StoresTyped, BoundsHold
<1> QED
  BY <1>1, <1>2, <1>3, InvariantHolds, PTL DEF Spec

===============================================================================
