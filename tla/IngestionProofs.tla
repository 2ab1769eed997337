--------------------------- MODULE IngestionProofs ---------------------------
(***************************************************************************)
(* Theorems about Ingestion, for every set of attempts, jobs, documents    *)
(* and keys, every program that ProgramAssumption admits, and any number   *)
(* of faults and of attempts under way at the same time.                   *)
(*                                                                         *)
(* ProvenanceClosed is not inductive: that the document of a row is        *)
(* already stored follows from the calls the attempt has behind it.  So    *)
(* the invariant says where an attempt is in its program                   *)
(* (AttemptsOnCourse) and that what it did has lasted (CallsBehindAreDone).*)
(***************************************************************************)
EXTENDS Ingestion, FiniteSetTheorems, TLAPS

IInv == TypeOK /\ AttemptsOnCourse /\ CallsBehindAreDone /\ ProvenanceClosed

\* What is stored is not lost: every effect of a call survives the step.
Grows ==
    /\ securities \subseteq securities'
    /\ files \subseteq files'
    /\ sourceDocs \subseteq sourceDocs'
    /\ queue \union uploaded \subseteq queue' \union uploaded'
    /\ \A d \in Docs : rawObjects[d] # NoRaw => rawObjects'[d] # NoRaw
    /\ \A k \in Keys : facts[k] # NoCell => facts'[k] # NoCell

\* The step moves attempt a alone: it stays at its call, or the call has taken
\* effect and a goes on to the next one or is done.
Stays(a) ==
    /\ at' = at
    /\ \E p \in {"working", "failing", "ended", "crashed"} : phase' = [phase EXCEPT ![a] = p]

Advances(a) ==
    /\ phase[a] = "working"
    /\ at' = [at EXCEPT ![a] = @ + 1]
    /\ phase' = [phase EXCEPT ![a] = IF at[a] = Last(a) THEN "ended" ELSE "working"]
    /\ \E c \in CallType : c = Call(a) /\ Effect(a, c)'

Moves(a) ==
    /\ a \in Active
    /\ job' = job
    /\ Stays(a) \/ Advances(a)

\* The run of a gets a status; `succeeded` only at the last call.
Records(a) ==
    \E r \in {"none", "running", "succeeded", "failed"} :
        /\ run' = [run EXCEPT ![a] = r]
        /\ r = "succeeded" => run[a] = "succeeded" \/ at[a] = Last(a)

-----------------------------------------------------------------------------
\* The programs.

LEMMA CallsAreTyped ==
    ASSUME NEW j \in Jobs, NEW i \in 1..Len(Program[j])
    PROVE  Program[j][i] \in CallType
  BY ProgramAssumption

LEMMA LastIsNat ==
    ASSUME NEW j \in Jobs
    PROVE  Len(Program[j]) \in Nat
  BY ProgramAssumption

\* An attempt under way is at a call of its program.
LEMMA CallOfActive ==
    ASSUME TypeOK, AttemptsOnCourse, NEW a \in Attempts,
           phase[a] \in {"working", "failing"}
    PROVE  /\ job[a] \in Jobs
           /\ at[a] \in 1..Len(Program[job[a]])
           /\ Last(a) \in Nat
           /\ Call(a) \in CallType
  <1>1. job[a] \in Jobs
    BY DEF AttemptsOnCourse
  <1>2. Last(a) \in Nat
    BY <1>1, LastIsNat DEF Last
  <1>3. at[a] \in Nat \ {0} /\ at[a] <= Last(a)
    BY DEF TypeOK, AttemptsOnCourse
  <1>4. at[a] \in 1..Len(Program[job[a]])
    BY <1>2, <1>3 DEF Last
  <1>5. Call(a) \in CallType
    BY <1>1, <1>4, CallsAreTyped DEF Call
  <1> QED
    BY <1>1, <1>2, <1>4, <1>5

\* NoId is the id of no document of an attempt.
LEMMA IdIsNotNoId ==
    ASSUME NEW id \in DocId
    PROVE  id # NoId
  BY ProgramAssumption DEF DocId, NoId

LEMMA IdIsTyped ==
    ASSUME NEW a \in Attempts, Call(a) \in CallType
    PROVE  Id(a) \in DocId /\ Id(a).doc = Call(a).doc
  BY DEF Id, DocId, CallType

\* What a call left behind stays, whatever the step does.
LEMMA EffectIsKept ==
    ASSUME TypeOK, Grows,
           NEW a \in Attempts, NEW j \in Jobs, NEW i \in 1..Len(Program[j]),
           Effect(a, Program[j][i])
    PROVE  Effect(a, Program[j][i])'
  <1> DEFINE c == Program[j][i]
  <1>1. c \in CallType
    BY CallsAreTyped
  <1>2. c.op \in RawObjectOps => c.doc # NoDoc
    BY ProgramAssumption DEF WellOrdered
  <1>3. c.op \in RawObjectOps => c.doc \in Docs
    BY <1>1, <1>2 DEF CallType
  <1>4. c.key \in Keys
    BY <1>1 DEF CallType
  <1> HIDE DEF c
  <1>5. Effect(a, c)
    BY DEF c
  <1>6. Effect(a, c)'
    <2>1. c.op = "ensure_security" => c.key \in securities'
      BY <1>5 DEF Effect, Grows
    <2>2. c.op = "write_raw_document" => c.doc \in files'
      BY <1>5 DEF Effect, Grows
    <2>3. c.op = "store_source_document" => [attempt |-> a, doc |-> c.doc] \in sourceDocs'
      BY <1>5 DEF Effect, Grows
    <2>4. c.op = "enqueue" => c.doc \in queue' \union uploaded'
      BY <1>5 DEF Effect, Grows
    <2>5. c.op \in RawObjectOps => rawObjects'[c.doc] # NoRaw
      BY <1>3, <1>5 DEF Effect, Grows
    <2>6. c.op \in FactTables => facts'[c.key] # NoCell
      BY <1>4, <1>5 DEF Effect, Grows
    <2> QED
      BY <1>5, <2>1, <2>2, <2>3, <2>4, <2>5, <2>6 DEF Effect
  <1> QED
    BY <1>6 DEF c

-----------------------------------------------------------------------------
\* The three parts of the invariant that a step of one attempt has to keep.

\* Attempts other than the one that moves stay as they are.
LEMMA CourseIsKept ==
    ASSUME TypeOK, AttemptsOnCourse, NEW a \in Attempts, Moves(a), Records(a) \/ run' = run
    PROVE  AttemptsOnCourse'
  <1>1. phase[a] \in {"working", "failing"}
    BY DEF Moves, Active
  <1>2. /\ job[a] \in Jobs /\ at[a] \in Nat \ {0} /\ at[a] <= Last(a)
        /\ Last(a) \in Nat
    BY <1>1, LastIsNat DEF AttemptsOnCourse, TypeOK, Last
  <1>3. job' = job
    BY DEF Moves
  <1>4. \A b \in Attempts : Last(b)' = Last(b)
    BY <1>3 DEF Last
  <1>5. ASSUME NEW b \in Attempts, b # a
        PROVE  phase'[b] = phase[b] /\ at'[b] = at[b] /\ run'[b] = run[b]
    BY <1>5 DEF Moves, Stays, Advances, Records, TypeOK
  <1>6. /\ phase'[a] \in {"working", "failing", "ended", "crashed"}
        /\ phase'[a] \in {"working", "failing"} => at'[a] <= Last(a)
        /\ at'[a] \in Nat /\ at'[a] >= at[a] /\ at'[a] <= Last(a) + 1
    <2>1. CASE Stays(a)
      BY <1>2, <2>1 DEF Stays, TypeOK
    <2>2. CASE Advances(a)
      <3>1. at'[a] = at[a] + 1
        BY <2>2 DEF Advances, TypeOK
      <3>2. phase'[a] = IF at[a] = Last(a) THEN "ended" ELSE "working"
        BY <2>2 DEF Advances, TypeOK
      <3> QED
        BY <1>2, <3>1, <3>2
    <2> QED
      BY <2>1, <2>2 DEF Moves
  <1>7. run'[a] = "succeeded" => at'[a] >= Last(a)
    <2>1. run'[a] = "succeeded" => run[a] = "succeeded" \/ at[a] = Last(a)
      BY DEF Records, TypeOK
    <2>2. run[a] = "succeeded" => at[a] >= Last(a)
      BY DEF AttemptsOnCourse
    <2> QED
      BY <1>2, <1>6, <2>1, <2>2
  <1>8. SUFFICES ASSUME NEW b \in Attempts
        PROVE  /\ phase'[b] = "idle" => at'[b] = 1 /\ run'[b] = "none"
               /\ phase'[b] # "idle" => job'[b] \in Jobs /\ at'[b] <= Last(b) + 1
               /\ phase'[b] \in {"working", "failing"} => at'[b] <= Last(b)
               /\ run'[b] = "succeeded" => at'[b] >= Last(b)
    BY <1>4 DEF AttemptsOnCourse
  <1>9. CASE b = a
    BY <1>2, <1>3, <1>6, <1>7, <1>9
  <1>10. CASE b # a
    BY <1>3, <1>5, <1>10 DEF AttemptsOnCourse
  <1> QED
    BY <1>9, <1>10

\* The calls behind an attempt are done: the earlier ones by EffectIsKept, the one
\* it has just made by Advances.
LEMMA BehindIsKept ==
    ASSUME TypeOK, AttemptsOnCourse, CallsBehindAreDone, Grows,
           NEW a \in Attempts, Moves(a)
    PROVE  CallsBehindAreDone'
  <1>1. job' = job /\ phase[a] # "idle"
    BY DEF Moves, Active
  <1>2. ASSUME NEW b \in Attempts, phase[b] # "idle", NEW i \in 1..(at[b] - 1),
               NEW c, c = Program[job[b]][i]
        PROVE  Effect(b, c)'
    <2>1. Effect(b, c)
      BY <1>2 DEF CallsBehindAreDone
    <2>2. PICK j \in Jobs : j = job[b]
      BY <1>2 DEF AttemptsOnCourse
    <2>3. Len(Program[j]) \in Nat /\ at[b] \in Nat /\ at[b] <= Len(Program[j]) + 1
      BY <1>2, <2>2, LastIsNat DEF AttemptsOnCourse, TypeOK, Last
    <2>4. i \in 1..Len(Program[j])
      BY <2>3
    <2>5. c = Program[j][i]
      BY <1>2, <2>2
    <2>6. Effect(b, Program[j][i])
      BY <2>1, <2>5
    <2>7. Effect(b, Program[j][i])'
      BY <2>4, <2>6, EffectIsKept
    <2> QED
      BY <2>5, <2>7
  <1>3. SUFFICES ASSUME NEW b \in Attempts, phase'[b] # "idle", NEW i \in 1..(at'[b] - 1),
                        NEW c, c = Program[job'[b]][i]
        PROVE  Effect(b, c)'
    BY DEF CallsBehindAreDone, Effect
  <1>4. phase[b] # "idle"
    BY <1>1, <1>3 DEF Moves, Stays, Advances, TypeOK
  <1>5. CASE at'[b] = at[b]
    BY <1>1, <1>2, <1>3, <1>4, <1>5
  <1>6. CASE at'[b] # at[b]
    <2>1. Advances(a) /\ b = a
      BY <1>6 DEF Moves, Stays, Advances, TypeOK
    <2>2. at'[a] = at[a] + 1 /\ at[a] \in Nat
      BY <2>1 DEF Advances, TypeOK
    <2>3. i \in 1..(at[a] - 1) \/ i = at[a]
      BY <1>3, <2>1, <2>2
    <2>4. CASE i = at[a]
      <3>1. PICK d \in CallType : d = Call(a) /\ Effect(a, d)'
        BY <2>1 DEF Advances
      <3>2. c = d
        BY <1>1, <1>3, <2>1, <2>4, <3>1 DEF Call
      <3> QED
        BY <2>1, <3>1, <3>2
    <2>5. CASE i \in 1..(at[a] - 1)
      BY <1>1, <1>2, <1>3, <1>4, <2>1, <2>5
    <2> QED
      BY <2>3, <2>4, <2>5
  <1> QED
    BY <1>5, <1>6

\* What every step of one attempt is shown to satisfy, action by action.
Sound(a) ==
    /\ Moves(a)
    /\ Grows
    /\ Records(a) \/ run' = run
    /\ TypeOK'
    /\ ProvenanceClosed'

LEMMA SoundStepsKeepIInv ==
    ASSUME IInv, NEW a \in Attempts, Sound(a)
    PROVE  IInv'
  <1>1. AttemptsOnCourse'
    BY CourseIsKept DEF IInv, Sound
  <1>2. CallsBehindAreDone'
    BY BehindIsKept DEF IInv, Sound
  <1> QED
    BY <1>1, <1>2 DEF IInv, Sound

-----------------------------------------------------------------------------
\* How a call comes back.

LEMMA FaultIsTyped ==
    ASSUME TypeOK, NEW kind, Fault(kind)
    PROVE  faults' \in 0..MaxFaults
  <1>1. faults \in Nat /\ MaxFaults \in Nat /\ faults < MaxFaults
    BY ProgramAssumption DEF TypeOK, Fault
  <1> QED
    BY <1>1 DEF Fault

LEMMA ThrowMoves ==
    ASSUME NEW a \in Attempts, phase[a] = "working", Throw(a), job' = job
    PROVE  Moves(a)
  <1>1. Stays(a)
    BY DEF Throw, Stays
  <1> QED
    BY <1>1 DEF Moves, Active

LEMMA AcknowledgeMoves ==
    ASSUME TypeOK, AttemptsOnCourse, NEW a \in Attempts, phase[a] = "working",
           Acknowledge(a), job' = job,
           \E c \in CallType : c = Call(a) /\ Effect(a, c)'
    PROVE  Moves(a) /\ faults' \in 0..MaxFaults
  <1>1. CASE Return(a)
    <2>1. Advances(a)
      BY <1>1 DEF Return, Advances
    <2>2. faults' \in 0..MaxFaults
      BY <1>1 DEF Return, TypeOK
    <2> QED
      BY <2>1, <2>2 DEF Moves, Active
  <1>2. CASE Fault("lost_ack") /\ Throw(a)
    BY <1>2, ThrowMoves, FaultIsTyped
  <1> QED
    BY <1>1, <1>2 DEF Acknowledge

\* The control variables of the attempt that moves keep their types.
LEMMA ControlIsTyped ==
    ASSUME TypeOK, NEW a \in Attempts, Moves(a)
    PROVE  /\ job' \in [Attempts -> Jobs \union {NoJob}]
           /\ phase' \in [Attempts -> {"idle", "working", "failing", "ended", "crashed"}]
           /\ at' \in [Attempts -> Nat \ {0}]
  <1>1. CASE Stays(a)
    BY <1>1 DEF Stays, Moves, TypeOK
  <1>2. CASE Advances(a)
    <2>1. at[a] + 1 \in Nat \ {0}
      BY DEF TypeOK
    <2> QED
      BY <1>2, <2>1 DEF Advances, Moves, TypeOK
  <1> QED
    BY <1>1, <1>2 DEF Moves

\* A step that touches neither fact rows nor raw objects cannot open provenance.
LEMMA ClosedIsKept ==
    ASSUME ProvenanceClosed, Grows, facts' = facts, rawObjects' = rawObjects
    PROVE  ProvenanceClosed'
  BY DEF ProvenanceClosed, Grows

-----------------------------------------------------------------------------
\* The steps that leave the stores alone.

LEMMA QuietMovesAreSound ==
    ASSUME IInv, NEW a \in Attempts, Moves(a), UNCHANGED stores,
           faults' \in 0..MaxFaults, looked' \subseteq Attempts
    PROVE  Sound(a)
  <1>1. Grows
    BY DEF Grows, stores
  <1>2. ProvenanceClosed'
    BY <1>1, ClosedIsKept DEF IInv, stores
  <1>3. TypeOK'
    BY ControlIsTyped DEF IInv, TypeOK, stores
  <1> QED
    BY <1>1, <1>2, <1>3 DEF Sound, stores

\* A ticker that is found, missed or lost to another insert; a rejected trace; a
\* call that raises; a crash; a finish_run that raises.
LEMMA QuietActionsAreSound ==
    ASSUME IInv, NEW a \in Attempts,
           \/ FindSecurity(a) \/ MissSecurity(a) \/ LoseInsertRace(a)
           \/ RejectTrace(a) \/ Accident(a)
    PROVE  Sound(a)
  <1>1. UNCHANGED stores /\ job' = job
    BY DEF FindSecurity, MissSecurity, LoseInsertRace, RejectTrace,
           Accident, Raise, Crash, FailToRecord
  <1>2. looked' \subseteq Attempts
    BY DEF FindSecurity, MissSecurity, LoseInsertRace, RejectTrace,
           Accident, Raise, Crash, FailToRecord, IInv, TypeOK
  <1>3. faults' \in 0..MaxFaults
    <2>1. CASE faults' = faults
      BY <2>1 DEF IInv, TypeOK
    <2>2. CASE faults' # faults
      <3>1. \E kind \in {"raise", "crash", "finish"} : Fault(kind)
        BY <2>2 DEF FindSecurity, Return, MissSecurity, LoseInsertRace, RejectTrace,
                    Accident, Raise, Crash, FailToRecord
      <3> QED
        BY <3>1, FaultIsTyped DEF IInv
    <2> QED
      BY <2>1, <2>2
  <1>4. Moves(a)
    <2>1. CASE FindSecurity(a)
      <3>1. phase[a] = "working" /\ Call(a).op = "ensure_security"
        BY <2>1 DEF FindSecurity, Doing
      <3>2. PICK c \in CallType : c = Call(a)
        BY <3>1, CallOfActive DEF IInv
      <3>3. c.op = "ensure_security" /\ c.key \in securities'
        BY <1>1, <2>1, <3>1, <3>2 DEF FindSecurity, stores
      <3>4. Effect(a, c)'
        BY <3>3 DEF Effect, RawObjectOps, FactTables, MacroTables
      <3>5. Advances(a)
        BY <2>1, <3>1, <3>2, <3>4 DEF FindSecurity, Return, Advances
      <3> QED
        BY <1>1, <3>1, <3>5 DEF Moves, Active
    <2>2. CASE MissSecurity(a)
      <3>1. phase[a] = "working" /\ at' = at /\ phase' = [phase EXCEPT ![a] = "working"]
        BY <2>2 DEF MissSecurity, Doing, IInv, TypeOK
      <3> QED
        BY <1>1, <3>1 DEF Moves, Stays, Active
    <2>3. CASE LoseInsertRace(a)
      BY <1>1, <2>3, ThrowMoves DEF LoseInsertRace, Doing
    <2>4. CASE RejectTrace(a)
      BY <1>1, <2>4, ThrowMoves DEF RejectTrace
    <2>5. CASE Raise(a)
      BY <1>1, <2>5, ThrowMoves DEF Raise
    <2>6. CASE Crash(a) \/ FailToRecord(a)
      BY <1>1, <2>6 DEF Crash, FailToRecord, Moves, Stays, Active
    <2> QED
      BY <2>1, <2>2, <2>3, <2>4, <2>5, <2>6 DEF Accident
  <1> QED
    BY <1>1, <1>2, <1>3, <1>4, QuietMovesAreSound

-----------------------------------------------------------------------------
\* The steps that store something.

\* The call of the step, as a constant.
LEMMA CallOfStep ==
    ASSUME IInv, NEW a \in Attempts, NEW op, Doing(a, op)
    PROVE  /\ phase[a] = "working"
           /\ Call(a) \in CallType
           /\ Call(a).op = op
           /\ Id(a) \in DocId /\ Id(a).doc = Call(a).doc
  <1>1. phase[a] = "working" /\ Call(a).op = op
    BY DEF Doing
  <1>2. Call(a) \in CallType
    BY <1>1, CallOfActive DEF IInv
  <1> QED
    BY <1>1, <1>2, IdIsTyped

\* The call before which this one may not come has left its effect.
LEMMA EarlierIsDone ==
    ASSUME IInv, NEW a \in Attempts, phase[a] = "working", NEW op,
           Earlier(Program[job[a]], at[a], op, Call(a).doc)
    PROVE  \E c \in CallType : c.op = op /\ c.doc = Call(a).doc /\ Effect(a, c)
  <1>1. PICK k \in 1..(at[a] - 1) :
            Program[job[a]][k].op = op /\ Program[job[a]][k].doc = Call(a).doc
    BY DEF Earlier
  <1>2. job[a] \in Jobs /\ at[a] \in 1..Len(Program[job[a]]) /\ Last(a) \in Nat
    BY CallOfActive DEF IInv
  <1>3. k \in 1..Len(Program[job[a]])
    BY <1>2 DEF Last
  <1>4. Program[job[a]][k] \in CallType
    BY <1>2, <1>3, CallsAreTyped
  <1>5. Effect(a, Program[job[a]][k])
    BY <1>1 DEF IInv, CallsBehindAreDone
  <1> QED
    BY <1>1, <1>4, <1>5

\* WellOrdered, at the call an attempt is making.
LEMMA OrderOfCall ==
    ASSUME IInv, NEW a \in Attempts, phase[a] = "working"
    PROVE  LET p == Program[job[a]]
               c == Call(a)
           IN  /\ c.op = "finish_run" => at[a] = Last(a)
               /\ c.op \in RawObjectOps =>
                     c.doc # NoDoc /\ Earlier(p, at[a], "store_source_document", c.doc)
               /\ c.op \in {"store_source_document", "enqueue", "write_raw_document"} =>
                     c.doc # NoDoc
               /\ c.op \in FactTables /\ c.doc # NoDoc =>
                     /\ Earlier(p, at[a], "store_source_document", c.doc)
                     /\ \E op \in RawObjectOps : Earlier(p, at[a], op, c.doc)
  <1>1. job[a] \in Jobs /\ at[a] \in 1..Len(Program[job[a]])
    BY CallOfActive DEF IInv
  <1>2. WellOrdered(Program[job[a]])
    BY <1>1, ProgramAssumption
  <1> QED
    BY <1>1, <1>2 DEF WellOrdered, Call, Last

\* A raw object, and a row, is stored by an attempt whose source document is there.
LEMMA SourceIsBehind ==
    ASSUME IInv, NEW a \in Attempts, phase[a] = "working",
           Call(a).op \in RawObjectOps \union FactTables,
           Call(a).doc # NoDoc
    PROVE  Id(a) \in sourceDocs
  <1>1. Earlier(Program[job[a]], at[a], "store_source_document", Call(a).doc)
    BY OrderOfCall
  <1>2. PICK c \in CallType : /\ c.op = "store_source_document" /\ c.doc = Call(a).doc
                              /\ Effect(a, c)
    BY <1>1, EarlierIsDone
  <1> QED
    BY <1>2 DEF Effect, Id

LEMMA RawObjectIsBehind ==
    ASSUME IInv, NEW a \in Attempts, phase[a] = "working",
           Call(a).op \in FactTables, Call(a).doc # NoDoc
    PROVE  rawObjects[Call(a).doc] # NoRaw
  <1>1. PICK op \in RawObjectOps : Earlier(Program[job[a]], at[a], op, Call(a).doc)
    BY OrderOfCall
  <1>2. PICK c \in CallType : c.op = op /\ c.doc = Call(a).doc /\ Effect(a, c)
    BY <1>1, EarlierIsDone
  <1> QED
    BY <1>2 DEF Effect

-----------------------------------------------------------------------------
\* ingestion_runs: start, success, failure.
LEMMA RunActionsAreSound ==
    ASSUME IInv, NEW a \in Attempts, StartRun(a) \/ FinishRun(a) \/ RecordFailure(a)
    PROVE  Sound(a)
  <1>1. /\ job' = job
        /\ UNCHANGED <<looked, securities, files, sourceDocs, rawObjects,
                       queue, uploaded, facts, lines>>
    BY DEF StartRun, FinishRun, RecordFailure
  <1>2. Grows
    BY <1>1 DEF Grows
  <1>3. ProvenanceClosed'
    BY <1>1, <1>2, ClosedIsKept DEF IInv
  <1>4. Moves(a) /\ faults' \in 0..MaxFaults
    <2>1. CASE StartRun(a) \/ FinishRun(a)
      <3>1. PICK op \in {"start_run", "finish_run"} : Doing(a, op)
        BY <2>1 DEF StartRun, FinishRun
      <3>2. PICK c \in CallType : c = Call(a) /\ c.op = op /\ phase[a] = "working"
        BY <3>1, CallOfStep
      <3>3. Effect(a, c)'
        BY <3>2 DEF Effect, RawObjectOps, FactTables, MacroTables
      <3>4. Acknowledge(a)
        BY <2>1 DEF StartRun, FinishRun
      <3> QED
        BY <1>1, <3>2, <3>3, <3>4, AcknowledgeMoves DEF IInv
    <2>2. CASE RecordFailure(a)
      BY <1>1, <2>2 DEF RecordFailure, Moves, Stays, Active, IInv, TypeOK
    <2> QED
      BY <2>1, <2>2
  <1>5. Records(a)
    <2>1. CASE StartRun(a)
      BY <2>1 DEF StartRun, Records
    <2>2. CASE FinishRun(a)
      <3>1. at[a] = Last(a)
        BY <2>2, OrderOfCall DEF FinishRun, Doing
      <3> QED
        BY <2>2, <3>1 DEF FinishRun, Records
    <2>3. CASE RecordFailure(a)
      BY <2>3 DEF RecordFailure, Records
    <2> QED
      BY <2>1, <2>2, <2>3
  <1>6. TypeOK'
    <2>1. run' \in [Attempts -> {"none", "running", "succeeded", "failed"}]
      BY <1>5 DEF Records, IInv, TypeOK
    <2> QED
      BY <1>1, <1>4, <2>1, ControlIsTyped DEF IInv, TypeOK
  <1> QED
    BY <1>2, <1>3, <1>4, <1>5, <1>6 DEF Sound

LEMMA InsertSecurityIsSound ==
    ASSUME IInv, NEW a \in Attempts, InsertSecurity(a)
    PROVE  Sound(a)
  <1>1. PICK c \in CallType : c = Call(a) /\ c.op = "ensure_security" /\ phase[a] = "working"
    BY CallOfStep DEF InsertSecurity
  <1>2. /\ securities' = securities \union {c.key}
        /\ looked' = looked \ {a}
        /\ UNCHANGED <<job, run, files, sourceDocs, rawObjects, queue, uploaded, facts, lines>>
    BY <1>1 DEF InsertSecurity
  <1>3. Grows
    BY <1>2 DEF Grows
  <1>4. ProvenanceClosed'
    BY <1>2, <1>3, ClosedIsKept DEF IInv
  <1>5. Effect(a, c)'
    BY <1>1, <1>2 DEF Effect, RawObjectOps, FactTables, MacroTables
  <1>6. Moves(a) /\ faults' \in 0..MaxFaults
    BY <1>1, <1>2, <1>5, AcknowledgeMoves DEF InsertSecurity, IInv
  <1>7. c.key \in Keys
    BY DEF CallType
  <1>8. TypeOK'
    BY <1>2, <1>6, <1>7, ControlIsTyped DEF IInv, TypeOK
  <1> QED
    BY <1>2, <1>3, <1>4, <1>6, <1>8 DEF Sound

\* The file of a document, its row, its manifest.
LEMMA DocumentActionsAreSound ==
    ASSUME IInv, NEW a \in Attempts,
           WriteRawDocument(a) \/ StoreSourceDocument(a) \/ Enqueue(a)
    PROVE  Sound(a)
  <1>1. PICK op \in {"write_raw_document", "store_source_document", "enqueue"} : Doing(a, op)
    BY DEF WriteRawDocument, StoreSourceDocument, Enqueue
  <1>2. PICK c \in CallType : c = Call(a) /\ c.op = op /\ phase[a] = "working"
    BY <1>1, CallOfStep
  <1>3. Id(a) \in DocId /\ Id(a) = [attempt |-> a, doc |-> c.doc]
    BY <1>1, <1>2, CallOfStep DEF Id
  <1>4. c.doc \in Docs
    BY <1>2, OrderOfCall DEF CallType
  <1>5. UNCHANGED <<job, looked, run, securities, rawObjects, uploaded, facts, lines>>
    BY DEF WriteRawDocument, StoreSourceDocument, Enqueue
  <1>6. /\ files' = files \/ (op = "write_raw_document" /\ files' = files \union {c.doc})
        /\ \/ sourceDocs' = sourceDocs
           \/ op = "store_source_document" /\ sourceDocs' = sourceDocs \union {Id(a)}
        /\ queue' = queue \/ (op = "enqueue" /\ queue' = queue \union {c.doc})
    BY <1>2 DEF WriteRawDocument, StoreSourceDocument, Enqueue, Doing
  <1>7. Grows
    BY <1>5, <1>6 DEF Grows
  <1>8. ProvenanceClosed'
    BY <1>5, <1>7, ClosedIsKept DEF IInv
  <1>9. Effect(a, c)'
    <2>1. CASE WriteRawDocument(a)
      BY <1>2, <2>1 DEF WriteRawDocument, Doing, Effect, RawObjectOps, FactTables, MacroTables
    <2>2. CASE StoreSourceDocument(a)
      BY <1>2, <1>3, <2>2
         DEF StoreSourceDocument, Doing, Effect, RawObjectOps, FactTables, MacroTables
    <2>3. CASE Enqueue(a)
      BY <1>2, <2>3 DEF Enqueue, Doing, Effect, RawObjectOps, FactTables, MacroTables
    <2> QED
      BY <2>1, <2>2, <2>3
  <1>10. Acknowledge(a)
    BY DEF WriteRawDocument, StoreSourceDocument, Enqueue
  <1>11. Moves(a) /\ faults' \in 0..MaxFaults
    BY <1>2, <1>5, <1>9, <1>10, AcknowledgeMoves DEF IInv
  <1>12. TypeOK'
    BY <1>3, <1>4, <1>5, <1>6, <1>11, ControlIsTyped DEF IInv, TypeOK
  <1> QED
    BY <1>5, <1>7, <1>8, <1>11, <1>12 DEF Sound

\* A raw object names a source document that is there: its own, or the one that
\* the row has had since it was first stored.
LEMMA StoreRawObjectIsSound ==
    ASSUME IInv, NEW a \in Attempts, StoreRawObject(a)
    PROVE  Sound(a)
  <1>1. PICK op \in RawObjectOps : Doing(a, op)
    BY DEF StoreRawObject
  <1>2. PICK c \in CallType : c = Call(a) /\ c.op = op /\ phase[a] = "working"
    BY <1>1, CallOfStep
  <1>3. c.doc \in Docs /\ Id(a) \in DocId /\ Id(a) \in sourceDocs
    BY <1>1, <1>2, CallOfStep, OrderOfCall, SourceIsBehind DEF CallType
  <1>4. /\ UNCHANGED <<job, looked, run, securities, files, sourceDocs,
                       queue, uploaded, facts, lines>>
        /\ Acknowledge(a)
    BY DEF StoreRawObject
  <1> DEFINE source == IF rawObjects[c.doc] = NoRaw THEN Id(a) ELSE rawObjects[c.doc].source
             new    == [source |-> source, blob |-> c.op = "store_raw_object"]
  <1>5. rawObjects' = [rawObjects EXCEPT ![c.doc] = new]
    BY <1>2 DEF StoreRawObject
  <1>6. source \in sourceDocs /\ source \in DocId
    <2>1. CASE rawObjects[c.doc] = NoRaw
      BY <1>3, <2>1
    <2>2. CASE rawObjects[c.doc] # NoRaw
      BY <1>3, <2>2 DEF IInv, ProvenanceClosed, TypeOK
    <2> QED
      BY <2>1, <2>2
  <1>7. (c.op = "store_raw_object") \in BOOLEAN
    OBVIOUS
  <1>8. new.source = source /\ new \in [source: DocId \union {NoId}, blob: BOOLEAN]
    BY <1>6, <1>7
  <1>9. new # NoRaw
    BY <1>6, <1>8, IdIsNotNoId DEF NoRaw
  <1> HIDE DEF source, new
  <1>10. /\ rawObjects'[c.doc] = new
         /\ \A d \in Docs : d # c.doc => rawObjects'[d] = rawObjects[d]
    BY <1>3, <1>5 DEF IInv, TypeOK
  <1>11. Grows
    BY <1>4, <1>9, <1>10 DEF Grows
  <1>12. ProvenanceClosed'
    <2>1. ASSUME NEW k \in Keys, NEW id \in {facts[k].column, facts[k].value}, id.doc # NoDoc
          PROVE  id \in sourceDocs' /\ rawObjects'[id.doc] # NoRaw
      <3>1. id \in sourceDocs /\ rawObjects[id.doc] # NoRaw
        BY <2>1 DEF IInv, ProvenanceClosed
      <3>2. id.doc \in Docs
        BY <2>1, <3>1 DEF IInv, TypeOK, DocId
      <3> QED
        BY <1>4, <1>11, <3>1, <3>2 DEF Grows
    <2>2. ASSUME NEW d \in Docs, rawObjects'[d] # NoRaw
          PROVE  rawObjects'[d].source \in sourceDocs'
      BY <1>4, <1>6, <1>8, <1>10, <2>2 DEF IInv, ProvenanceClosed
    <2> QED
      BY <1>4, <2>1, <2>2 DEF ProvenanceClosed
  <1>13. Effect(a, c)'
    BY <1>2, <1>9, <1>10 DEF Effect, RawObjectOps, FactTables, MacroTables
  <1>14. Moves(a) /\ faults' \in 0..MaxFaults
    BY <1>2, <1>4, <1>13, AcknowledgeMoves DEF IInv
  <1>15. TypeOK'
    BY <1>4, <1>5, <1>8, <1>14, ControlIsTyped DEF IInv, TypeOK
  <1> QED
    BY <1>4, <1>11, <1>12, <1>14, <1>15 DEF Sound

\* The bridge of an earnings row is in none of the stores that provenance is about.
LEMMA AdjustmentActionsAreSound ==
    ASSUME IInv, NEW a \in Attempts, DeleteAdjustmentsFor(a) \/ StoreAdjustment(a)
    PROVE  Sound(a)
  <1>1. PICK op \in {"delete_adjustments_for", "store_adjustment"} : Doing(a, op)
    BY DEF DeleteAdjustmentsFor, StoreAdjustment
  <1>2. PICK c \in CallType : c = Call(a) /\ c.op = op /\ phase[a] = "working"
    BY <1>1, CallOfStep
  <1>3. /\ UNCHANGED <<job, looked, run, securities, files, sourceDocs, rawObjects,
                       queue, uploaded, facts>>
        /\ Acknowledge(a)
    BY DEF DeleteAdjustmentsFor, StoreAdjustment
  <1>4. lines' \subseteq lines \union {[key |-> c.key, attempt |-> a, line |-> c.line]}
    BY <1>2 DEF DeleteAdjustmentsFor, StoreAdjustment
  <1>5. Grows
    BY <1>3 DEF Grows
  <1>6. ProvenanceClosed'
    BY <1>3, <1>5, ClosedIsKept DEF IInv
  <1>7. Effect(a, c)'
    BY <1>2 DEF Effect, RawObjectOps, FactTables, MacroTables
  <1>8. Moves(a) /\ faults' \in 0..MaxFaults
    BY <1>2, <1>3, <1>7, AcknowledgeMoves DEF IInv
  <1>9. c.key \in Keys /\ c.line \in Nat
    BY DEF CallType
  <1>10. TypeOK'
    BY <1>3, <1>4, <1>8, <1>9, ControlIsTyped DEF IInv, TypeOK
  <1> QED
    BY <1>3, <1>5, <1>6, <1>8, <1>10 DEF Sound

\* A row is stored from the document of the call, and in a table with a
\* source_document_id keeps the one it had.
Upserts(a, c) ==
    \E cell \in Cell :
        /\ facts' = [facts EXCEPT ![c.key] = cell]
        /\ cell.value = Id(a)
        /\ cell.column \in {Id(a), NoId, facts[c.key].column}

LEMMA StoreRowUpserts ==
    ASSUME IInv, NEW a \in Attempts, StoreRow(a), ~RejectTrace(a)
    PROVE  /\ \E op \in FactTables : Doing(a, op)
           /\ \E c \in CallType : c = Call(a) /\ Upserts(a, c)
           /\ Acknowledge(a)
           /\ UNCHANGED <<job, looked, run, securities, files, sourceDocs, rawObjects,
                          queue, uploaded, lines>>
  <1>1. PICK op \in FactTables : Upsert(a, op, KeepColumn) \/ Upsert(a, op, NoColumn)
    BY DEF StoreRow, StoreAdjustedEarnings, StoreMetricValue, StoreFinancialFact,
           StoreConsensusSnapshot, StorePriceBar, StoreDividend, FactTables
  <1>2. /\ Doing(a, op) /\ Acknowledge(a)
        /\ UNCHANGED <<job, looked, run, securities, files, sourceDocs, rawObjects,
                       queue, uploaded, lines>>
    BY <1>1 DEF Upsert
  <1>3. PICK c \in CallType : c = Call(a)
    BY <1>2, CallOfStep
  <1>4. c.key \in Keys /\ Id(a) \in DocId
    BY <1>2, <1>3, CallOfStep DEF CallType
  <1>5. facts[c.key] \in Cell
    BY <1>4 DEF IInv, TypeOK
  <1>6. KeepColumn(facts[c.key], Id(a)) \in Cell /\ NoColumn(facts[c.key], Id(a)) \in Cell
    BY <1>4, <1>5 DEF KeepColumn, NoColumn, Cell
  <1>7. \/ facts' = [facts EXCEPT ![c.key] = KeepColumn(facts[c.key], Id(a))]
        \/ facts' = [facts EXCEPT ![c.key] = NoColumn(facts[c.key], Id(a))]
    BY <1>1, <1>3 DEF Upsert
  <1>8. Upserts(a, c)
    BY <1>6, <1>7 DEF Upserts, KeepColumn, NoColumn
  <1> QED
    BY <1>2, <1>3, <1>8

LEMMA StoreRowIsSound ==
    ASSUME IInv, NEW a \in Attempts, StoreRow(a), ~RejectTrace(a)
    PROVE  Sound(a)
  <1>1. PICK c \in CallType : c = Call(a) /\ Upserts(a, c)
    BY StoreRowUpserts
  <1>2. /\ UNCHANGED <<job, looked, run, securities, files, sourceDocs, rawObjects,
                       queue, uploaded, lines>>
        /\ Acknowledge(a)
    BY StoreRowUpserts
  <1>3. phase[a] = "working" /\ c.op \in FactTables /\ Id(a) \in DocId /\ Id(a).doc = c.doc
    BY <1>1, StoreRowUpserts, CallOfStep
  <1>4. PICK cell \in Cell :
            /\ facts' = [facts EXCEPT ![c.key] = cell]
            /\ cell.value = Id(a)
            /\ cell.column \in {Id(a), NoId, facts[c.key].column}
    BY <1>1 DEF Upserts
  <1>5. c.key \in Keys
    BY DEF CallType
  <1>6. /\ facts'[c.key] = cell
        /\ \A k \in Keys : k # c.key => facts'[k] = facts[k]
    BY <1>4, <1>5 DEF IInv, TypeOK
  <1>7. cell # NoCell
    BY <1>3, <1>4, IdIsNotNoId DEF NoCell
  <1>8. Grows
    BY <1>2, <1>6, <1>7 DEF Grows
  <1>9. c.doc # NoDoc => Id(a) \in sourceDocs /\ rawObjects[c.doc] # NoRaw
    BY <1>1, <1>3, SourceIsBehind, RawObjectIsBehind
  <1>10. ProvenanceClosed'
    <2>1. ASSUME NEW k \in Keys, NEW id \in {facts'[k].column, facts'[k].value}, id.doc # NoDoc
          PROVE  id \in sourceDocs /\ rawObjects[id.doc] # NoRaw
      <3>1. CASE k = c.key /\ id = Id(a)
        BY <1>3, <1>9, <2>1, <3>1
      <3>2. CASE k = c.key /\ id = NoId
        BY <2>1, <3>2 DEF NoId
      <3>3. CASE k = c.key /\ id = facts[c.key].column
        BY <1>5, <2>1, <3>3 DEF IInv, ProvenanceClosed
      <3>4. CASE k # c.key
        BY <1>6, <2>1, <3>4 DEF IInv, ProvenanceClosed
      <3> QED
        BY <1>4, <1>6, <2>1, <3>1, <3>2, <3>3, <3>4
    <2>2. \A d \in Docs : rawObjects[d] # NoRaw => rawObjects[d].source \in sourceDocs
      BY DEF IInv, ProvenanceClosed
    <2> QED
      BY <1>2, <2>1, <2>2 DEF ProvenanceClosed
  <1>11. Effect(a, c)'
    BY <1>3, <1>6, <1>7 DEF Effect, RawObjectOps, FactTables, MacroTables
  <1>12. Moves(a) /\ faults' \in 0..MaxFaults
    BY <1>1, <1>2, <1>3, <1>11, AcknowledgeMoves DEF IInv
  <1>13. facts' \in [Keys -> Cell]
    BY <1>4 DEF IInv, TypeOK
  <1>14. TypeOK'
    BY <1>2, <1>12, <1>13, ControlIsTyped DEF IInv, TypeOK
  <1> QED
    BY <1>2, <1>8, <1>10, <1>12, <1>14 DEF Sound

-----------------------------------------------------------------------------
\* The steps that are not of an attempt under way.

LEMMA BeginKeepsIInv ==
    ASSUME IInv, NEW a \in Attempts, NEW j \in Jobs, Begin(a, j)
    PROVE  IInv'
  <1>1. /\ phase[a] = "idle" /\ UNCHANGED <<at, looked, faults, stores>>
        /\ job' = [job EXCEPT ![a] = j] /\ phase' = [phase EXCEPT ![a] = "working"]
    BY DEF Begin
  <1>2. TypeOK'
    BY <1>1 DEF IInv, TypeOK, stores
  <1>3. at[a] = 1 /\ run[a] = "none" /\ Len(Program[j]) \in Nat /\ Len(Program[j]) >= 1
    BY <1>1, ProgramAssumption, LastIsNat DEF IInv, AttemptsOnCourse
  <1>4. /\ job'[a] = j /\ phase'[a] = "working"
        /\ \A b \in Attempts : b # a => job'[b] = job[b] /\ phase'[b] = phase[b]
    BY <1>1 DEF IInv, TypeOK
  <1>5. AttemptsOnCourse'
    <2>1. SUFFICES ASSUME NEW b \in Attempts
          PROVE  LET last == Len(Program[job'[b]])
                 IN  /\ phase'[b] = "idle" => at[b] = 1 /\ run[b] = "none"
                     /\ phase'[b] # "idle" => job'[b] \in Jobs /\ at[b] <= last + 1
                     /\ phase'[b] \in {"working", "failing"} => at[b] <= last
                     /\ run[b] = "succeeded" => at[b] >= last
      BY <1>1 DEF AttemptsOnCourse, stores, Last
    <2>2. CASE b = a
      BY <1>3, <1>4, <2>2
    <2>3. CASE b # a
      BY <1>4, <2>3 DEF IInv, AttemptsOnCourse, Last
    <2> QED
      BY <2>2, <2>3
  <1>6. CallsBehindAreDone'
    <2>1. SUFFICES ASSUME NEW b \in Attempts, phase'[b] # "idle", NEW i \in 1..(at[b] - 1),
                          NEW c, c = Program[job'[b]][i]
          PROVE  Effect(b, c)
      BY <1>1 DEF CallsBehindAreDone, Effect, stores
    <2>2. b # a
      BY <1>3, <2>1
    <2> QED
      BY <1>4, <2>1, <2>2 DEF IInv, CallsBehindAreDone
  <1>7. ProvenanceClosed'
    BY <1>1 DEF IInv, ProvenanceClosed, stores
  <1> QED
    BY <1>2, <1>5, <1>6, <1>7 DEF IInv

LEMMA UploadKeepsIInv ==
    ASSUME IInv, NEW d \in Docs, Upload(d)
    PROVE  IInv'
  <1>1. /\ UNCHANGED <<control, run, securities, files, sourceDocs, rawObjects, facts, lines>>
        /\ queue' = queue \ {d} /\ uploaded' = uploaded \union {d}
    BY DEF Upload
  <1>2. TypeOK'
    BY <1>1 DEF IInv, TypeOK, control
  <1>3. Grows
    BY <1>1 DEF Grows
  <1>4. AttemptsOnCourse'
    BY <1>1 DEF IInv, AttemptsOnCourse, control, Last
  <1>5. CallsBehindAreDone'
    <2>1. SUFFICES ASSUME NEW b \in Attempts, phase[b] # "idle", NEW i \in 1..(at[b] - 1),
                          NEW c, c = Program[job[b]][i]
          PROVE  Effect(b, c)'
      BY <1>1 DEF CallsBehindAreDone, Effect, control
    <2>2. Effect(b, c)
      BY <2>1 DEF IInv, CallsBehindAreDone
    <2> QED
      BY <1>1, <2>2 DEF Effect
  <1>6. ProvenanceClosed'
    BY <1>1, <1>3, ClosedIsKept DEF IInv
  <1> QED
    BY <1>2, <1>4, <1>5, <1>6 DEF IInv

-----------------------------------------------------------------------------
\* The invariant.

LEMMA InitIsInvariant == Init => IInv
  <1>1. SUFFICES ASSUME Init PROVE IInv
    OBVIOUS
  <1>2. \A k \in Keys : facts[k] = NoCell
    BY <1>1 DEF Init
  <1>3. \A d \in Docs : rawObjects[d] = NoRaw
    BY <1>1 DEF Init
  <1>4. NoCell \in Cell /\ NoRaw \in [source: DocId \union {NoId}, blob: BOOLEAN]
    BY DEF NoCell, Cell, NoRaw
  <1>5. TypeOK
    BY <1>1, <1>4, ProgramAssumption DEF Init, TypeOK
  <1>6. ProvenanceClosed
    BY <1>2, <1>3 DEF ProvenanceClosed, NoCell, NoId
  <1>7. AttemptsOnCourse /\ CallsBehindAreDone
    BY <1>1 DEF Init, AttemptsOnCourse, CallsBehindAreDone
  <1> QED
    BY <1>5, <1>6, <1>7 DEF IInv

LEMMA StepsAreSound ==
    ASSUME IInv, NEW a \in Attempts, Step(a) \/ Accident(a)
    PROVE  Sound(a)
  <1>1. CASE StartRun(a) \/ FinishRun(a) \/ RecordFailure(a)
    BY <1>1, RunActionsAreSound
  <1>2. CASE FindSecurity(a) \/ MissSecurity(a) \/ LoseInsertRace(a) \/ RejectTrace(a)
             \/ Accident(a)
    BY <1>2, QuietActionsAreSound
  <1>3. CASE InsertSecurity(a)
    BY <1>3, InsertSecurityIsSound
  <1>4. CASE WriteRawDocument(a) \/ StoreSourceDocument(a) \/ Enqueue(a)
    BY <1>4, DocumentActionsAreSound
  <1>5. CASE StoreRawObject(a)
    BY <1>5, StoreRawObjectIsSound
  <1>6. CASE StoreRow(a) /\ ~RejectTrace(a)
    BY <1>6, StoreRowIsSound
  <1>7. CASE DeleteAdjustmentsFor(a) \/ StoreAdjustment(a)
    BY <1>7, AdjustmentActionsAreSound
  <1> QED
    BY <1>1, <1>2, <1>3, <1>4, <1>5, <1>6, <1>7 DEF Step

LEMMA NextKeepsIInv == IInv /\ [Next]_vars => IInv'
  <1>1. SUFFICES ASSUME IInv, [Next]_vars PROVE IInv'
    OBVIOUS
  <1>2. ASSUME NEW a \in Attempts, NEW j \in Jobs, Begin(a, j)
        PROVE  IInv'
    BY <1>1, <1>2, BeginKeepsIInv
  <1>3. ASSUME NEW a \in Attempts, Step(a) \/ Accident(a)
        PROVE  IInv'
    BY <1>1, <1>3, StepsAreSound, SoundStepsKeepIInv
  <1>4. ASSUME NEW d \in Docs, Upload(d)
        PROVE  IInv'
    BY <1>1, <1>4, UploadKeepsIInv
  <1>5. CASE UNCHANGED vars
    <2>1. UNCHANGED <<job, phase, at, looked, faults, run, securities, files, sourceDocs,
                      rawObjects, queue, uploaded, facts, lines>>
      BY <1>5 DEF vars, control, stores
    <2>2. TypeOK' /\ ProvenanceClosed'
      BY <1>1, <2>1 DEF IInv, TypeOK, ProvenanceClosed
    <2>3. AttemptsOnCourse'
      BY <1>1, <2>1 DEF IInv, AttemptsOnCourse, Last
    <2>4. CallsBehindAreDone'
      BY <1>1, <2>1 DEF IInv, CallsBehindAreDone, Effect
    <2> QED
      BY <2>2, <2>3, <2>4 DEF IInv
  <1> QED
    BY <1>1, <1>2, <1>3, <1>4, <1>5 DEF Next

THEOREM Invariance == Spec => []IInv
  BY InitIsInvariant, NextKeepsIInv, PTL DEF Spec

\* Type correctness.
THEOREM TypeCorrect == Spec => []TypeOK
  <1>1. IInv => TypeOK
    BY DEF IInv
  <1> QED
    BY <1>1, Invariance, PTL

\* No interleaving of attempts, failure, lost acknowledgement or crash leaves a
\* fact row whose document or payload is not stored.
THEOREM ProvenanceIsClosed == Spec => []ProvenanceClosed
  <1>1. IInv => ProvenanceClosed
    BY DEF IInv
  <1> QED
    BY <1>1, Invariance, PTL

\* A run that says it succeeded has done all it had to do.
THEOREM SucceededRunsAreComplete == Spec => []SucceededRunIsComplete
  <1>1. IInv => SucceededRunIsComplete
    <2>1. SUFFICES ASSUME IInv, NEW a \in Attempts, run[a] = "succeeded",
                          NEW i \in 1..(Last(a) - 1)
          PROVE  Effect(a, Program[job[a]][i])
      BY DEF SucceededRunIsComplete
    <2>2. phase[a] # "idle" /\ at[a] >= Last(a) /\ at[a] \in Nat
      BY <2>1 DEF IInv, AttemptsOnCourse, TypeOK
    <2>3. Last(a) \in Nat
      BY <2>1, <2>2, LastIsNat DEF IInv, AttemptsOnCourse, Last
    <2>4. i \in 1..(at[a] - 1)
      BY <2>1, <2>2, <2>3
    <2> QED
      BY <2>1, <2>2, <2>4 DEF IInv, CallsBehindAreDone
  <1> QED
    BY <1>1, Invariance, PTL

-----------------------------------------------------------------------------
\* A program registers no Blob key that it has not put in the upload queue: every
\* program of Pipelines but SecBulkWarehouse.
BlobsEnqueued ==
    \A j \in Jobs : \A i \in 1..Len(Program[j]) :
        Program[j][i].op = "store_raw_object" =>
            Earlier(Program[j], i, "enqueue", Program[j][i].doc)

\* A queued document has its file, and a Blob key its document in the queue or
\* past it.
BlobsKept ==
    /\ LocalFiles \subseteq files
    /\ queue \subseteq files
    /\ \A d \in Docs : rawObjects[d].blob => d \in queue \union uploaded

LEMMA NextKeepsBlobs ==
    ASSUME BlobsEnqueued, IInv, BlobsKept, [Next]_vars
    PROVE  BlobsKept'
  <1>1. CASE files \subseteq files' /\ queue' = queue /\ uploaded' = uploaded
             /\ rawObjects' = rawObjects
    BY <1>1 DEF BlobsKept
  <1>2. ASSUME NEW a \in Attempts, Enqueue(a)
        PROVE  BlobsKept'
    <2>1. PICK c \in CallType : c = Call(a) /\ c.op = "enqueue" /\ phase[a] = "working"
      BY <1>2, CallOfStep DEF Enqueue
    <2>2. /\ queue' = queue \union {c.doc}
          /\ UNCHANGED <<files, rawObjects, uploaded>>
      BY <1>2, <2>1 DEF Enqueue
    <2>3. c.doc \in files
      <3>1. job[a] \in Jobs /\ at[a] \in 1..Len(Program[job[a]])
        BY <2>1, CallOfActive DEF IInv
      <3>2. WellOrdered(Program[job[a]])
        BY <3>1, ProgramAssumption
      <3>3. c.doc \in LocalFiles \/ Earlier(Program[job[a]], at[a], "write_raw_document", c.doc)
        BY <2>1, <3>1, <3>2 DEF WellOrdered, Call
      <3>4. CASE Earlier(Program[job[a]], at[a], "write_raw_document", c.doc)
        <4>1. \E e \in CallType : /\ e.op = "write_raw_document" /\ e.doc = c.doc
                                  /\ Effect(a, e)
          BY <2>1, <3>4, EarlierIsDone
        <4> QED
          BY <4>1 DEF Effect
      <3> QED
        BY <3>3, <3>4 DEF BlobsKept
    <2> QED
      BY <2>2, <2>3 DEF BlobsKept
  <1>3. ASSUME NEW a \in Attempts, StoreRawObject(a)
        PROVE  BlobsKept'
    <2>1. PICK op \in RawObjectOps : Doing(a, op)
      BY <1>3 DEF StoreRawObject
    <2>2. PICK c \in CallType : c = Call(a) /\ c.op = op /\ phase[a] = "working"
      BY <2>1, CallOfStep
    <2>3. c.doc \in Docs
      BY <2>2, OrderOfCall DEF CallType
    <2>4. /\ UNCHANGED <<files, queue, uploaded>>
          /\ rawObjects'[c.doc].blob = (c.op = "store_raw_object")
          /\ \A d \in Docs : d # c.doc => rawObjects'[d] = rawObjects[d]
      BY <1>3, <2>2, <2>3 DEF StoreRawObject, IInv, TypeOK
    <2>5. ASSUME c.op = "store_raw_object"
          PROVE  c.doc \in queue \union uploaded
      <3>1. job[a] \in Jobs /\ at[a] \in 1..Len(Program[job[a]])
        BY <2>2, CallOfActive DEF IInv
      <3>2. Earlier(Program[job[a]], at[a], "enqueue", c.doc)
        BY <2>2, <2>5, <3>1 DEF BlobsEnqueued, Call
      <3>3. \E e \in CallType : e.op = "enqueue" /\ e.doc = c.doc /\ Effect(a, e)
        BY <2>2, <3>2, EarlierIsDone
      <3> QED
        BY <3>3 DEF Effect
    <2> QED
      BY <2>4, <2>5 DEF BlobsKept
  <1>4. ASSUME NEW d \in Docs, Upload(d)
        PROVE  BlobsKept'
    BY <1>4 DEF Upload, BlobsKept
  <1>5. ASSUME NEW a \in Attempts, NEW j \in Jobs, Begin(a, j)
        PROVE  BlobsKept'
    BY <1>1, <1>5 DEF Begin, stores
  <1>6. ASSUME NEW a \in Attempts, Step(a), ~Enqueue(a), ~StoreRawObject(a)
        PROVE  BlobsKept'
    <2>1. CASE StoreRow(a) /\ ~RejectTrace(a)
      BY <1>1, <2>1, StoreRowUpserts
    <2>2. CASE RejectTrace(a)
      BY <1>1, <2>2 DEF RejectTrace, stores
    <2>3. CASE ~StoreRow(a)
      BY <1>1, <1>6, <2>3
         DEF Step, StartRun, FinishRun, RecordFailure, FindSecurity, MissSecurity,
             InsertSecurity, LoseInsertRace, WriteRawDocument, StoreSourceDocument,
             DeleteAdjustmentsFor, StoreAdjustment, stores
    <2> QED
      BY <2>1, <2>2, <2>3
  <1>7. ASSUME NEW a \in Attempts, Accident(a)
        PROVE  BlobsKept'
    BY <1>1, <1>7 DEF Accident, Raise, Crash, FailToRecord, stores
  <1>8. CASE UNCHANGED vars
    BY <1>1, <1>8 DEF vars, stores
  <1> QED
    BY <1>2, <1>3, <1>4, <1>5, <1>6, <1>7, <1>8 DEF Next

\* The Blob key of a raw object never dangles, if the programs enqueue first.
THEOREM RegisteredBlobsAreUploadable ==
    ASSUME BlobsEnqueued
    PROVE  Spec => []RegisteredBlobIsUploadable
  <1>1. Init => BlobsKept
    BY DEF Init, BlobsKept, NoRaw
  <1>2. IInv /\ BlobsKept /\ [Next]_vars => BlobsKept'
    BY NextKeepsBlobs
  <1>3. BlobsKept => RegisteredBlobIsUploadable
    BY DEF BlobsKept, RegisteredBlobIsUploadable
  <1> QED
    BY <1>1, <1>2, <1>3, Invariance, PTL DEF Spec

-----------------------------------------------------------------------------
\* How a step of an attempt ends.  The remaining invariants are about the attempt
\* that moves; the others stay as they are.

Returns(a) == phase[a] = "working" /\ Return(a)

\* The call raises: by a fault, or because its trace is refused or the insert lost.
Throws(a) ==
    /\ phase[a] = "working"
    /\ Throw(a)
    /\ \/ \E kind \in Faults : Fault(kind)
       \/ (RejectTrace(a) \/ LoseInsertRace(a)) /\ UNCHANGED faults

\* A run that is still running was started by the program of its attempt, and what
\* ended the attempt was raised outside of the `try`.
RunsAreSettled ==
    \A a \in Attempts : run[a] = "running" =>
        /\ \E i \in 1..Last(a) : Program[job[a]][i].op = "start_run"
        /\ phase[a] = "ended" => at[a] <= Last(a) /\ ~Call(a).guarded

\* At most one attempt is under way.
Serial == \A a, b \in Active : a = b

\* A ticker that was looked up in vain is still missing.
MissesAreCurrent ==
    \A a \in looked : Doing(a, "ensure_security") /\ Call(a).key \notin securities

\* Without a fault, only a refused trace stops an attempt.
Refused(c) == c.op \in FactTables /\ ~c.ready

OnlyRefusalsStop ==
    faults = 0 => \A a \in Attempts : phase[a] \in {"failing", "ended"} =>
        at[a] > Last(a) \/ Refused(Call(a))

\* What the first n calls of p leave of the adjustments of k, in an attempt a that
\* finds none or deletes them.
BridgeAfter(p, a, k, n) ==
    {[key |-> k, attempt |-> a, line |-> p[i].line] :
        i \in {m \in 1..n : /\ CallsFor(p, m, "store_adjustment", k)
                            /\ \A l \in m..n : ~CallsFor(p, l, "delete_adjustments_for", k)}}

LinesAt(k) == {line \in lines : line.key = k}

Behind(a) == at[a] - 1

Deleted(a, k) ==
    \E m \in 1..Behind(a) : CallsFor(Program[job[a]], m, "delete_adjustments_for", k)

\* The attempt that stored the row of k last: from its delete on it has written the
\* bridge so far, and when its run has succeeded the bridge is whole.
BridgeOf(b, k) ==
    /\ phase[b] # "idle"
    /\ \E i \in 1..Last(b) : StoresRow(Program[job[b]], i, k)
    /\ phase[b] = "working" /\ Deleted(b, k) =>
          LinesAt(k) = BridgeAfter(Program[job[b]], b, k, Behind(b))
    /\ run[b] = "succeeded" => LinesAt(k) = BridgeAfter(Program[job[b]], b, k, Last(b))

BridgesFollow ==
    \A k \in Keys : facts[k].value.attempt \in Attempts =>
        BridgeOf(facts[k].value.attempt, k)

\* A row that the attempt under way has stored is its own.
RowsAreOwn ==
    \A a \in Attempts : \A k \in Keys :
        phase[a] = "working" /\ (\E i \in 1..Behind(a) : StoresRow(Program[job[a]], i, k)) =>
            facts[k].value.attempt = a

SucceededIsOver == \A a \in Attempts : run[a] = "succeeded" => phase[a] # "working"

LinesAreBridged == \A line \in lines : line.key \in BridgedKeys

BridgeInv == Serial /\ BridgesFollow /\ RowsAreOwn /\ SucceededIsOver /\ LinesAreBridged


LEMMA OutcomeOfStep ==
    ASSUME NEW a \in Attempts, Step(a) \/ Accident(a)
    PROVE  \/ Returns(a) \/ Throws(a)
           \/ MissSecurity(a) \/ RecordFailure(a) \/ FailToRecord(a) \/ Crash(a)
  <1>1. ASSUME phase[a] = "working", Acknowledge(a)
        PROVE  Returns(a) \/ Throws(a)
    <2>1. Fault("lost_ack") => "lost_ack" \in Faults
      BY DEF Fault
    <2> QED
      BY <1>1, <2>1 DEF Acknowledge, Returns, Throws
  <1>2. CASE StoreRow(a) /\ ~RejectTrace(a)
    BY <1>1, <1>2
       DEF StoreRow, StoreAdjustedEarnings, StoreMetricValue, StoreFinancialFact,
           StoreConsensusSnapshot, StorePriceBar, StoreDividend, Upsert, Doing
  <1>3. CASE RejectTrace(a)
    BY <1>3 DEF RejectTrace, Throws
  <1>4. CASE LoseInsertRace(a)
    BY <1>4 DEF LoseInsertRace, Doing, Throws
  <1>5. CASE FindSecurity(a)
    BY <1>5 DEF FindSecurity, Doing, Returns
  <1>6. CASE Raise(a)
    <2>1. Fault("raise") /\ "raise" \in Faults
      BY <1>6 DEF Raise, Fault
    <2> QED
      BY <1>6, <2>1 DEF Raise, Throws
  <1>7. CASE StartRun(a) \/ FinishRun(a)
    BY <1>1, <1>7 DEF StartRun, FinishRun, Doing
  <1>8. CASE InsertSecurity(a)
    BY <1>1, <1>8 DEF InsertSecurity, Doing
  <1>9. CASE WriteRawDocument(a) \/ StoreSourceDocument(a) \/ Enqueue(a)
    BY <1>1, <1>9 DEF WriteRawDocument, StoreSourceDocument, Enqueue, Doing
  <1>10. CASE StoreRawObject(a)
    BY <1>1, <1>10 DEF StoreRawObject, Doing
  <1>11. CASE DeleteAdjustmentsFor(a) \/ StoreAdjustment(a)
    BY <1>1, <1>11 DEF DeleteAdjustmentsFor, StoreAdjustment, Doing
  <1> QED
    BY <1>2, <1>3, <1>4, <1>5, <1>6, <1>7, <1>8, <1>9, <1>10, <1>11 DEF Step, Accident

\* Where the attempt is after it.
LEMMA OutcomeIsSeen ==
    ASSUME IInv, NEW a \in Attempts, Step(a) \/ Accident(a)
    PROVE  /\ Returns(a) =>
                /\ at'[a] = at[a] + 1
                /\ phase'[a] = IF at[a] = Last(a) THEN "ended" ELSE "working"
           /\ Throws(a) =>
                at' = at /\ phase'[a] = IF Call(a).guarded THEN "failing" ELSE "ended"
           /\ MissSecurity(a) => at' = at /\ phase' = phase
           /\ RecordFailure(a) \/ FailToRecord(a) =>
                phase[a] = "failing" /\ at' = at /\ phase'[a] = "ended"
           /\ Crash(a) => at' = at /\ phase'[a] = "crashed"
  BY DEF Returns, Return, Throws, Throw, MissSecurity, RecordFailure, FailToRecord, Crash,
         IInv, TypeOK

\* What it may have changed in the stores that the invariants are about.
LEMMA StoresAfterStep ==
    ASSUME IInv, NEW a \in Attempts, Step(a) \/ Accident(a)
    PROVE  /\ run' = run \/ StartRun(a) \/ FinishRun(a) \/ RecordFailure(a)
           /\ securities' = securities \/ InsertSecurity(a)
           /\ looked' = looked \/ looked' = looked \ {a} \/ MissSecurity(a)
           /\ facts' = facts \/ (StoreRow(a) /\ ~RejectTrace(a))
           /\ lines' = lines \/ DeleteAdjustmentsFor(a) \/ StoreAdjustment(a)
  <1>1. CASE StoreRow(a) /\ ~RejectTrace(a)
    BY <1>1, StoreRowUpserts
  <1>2. CASE RejectTrace(a)
    BY <1>2 DEF RejectTrace, stores
  <1>3. CASE Accident(a)
    BY <1>3 DEF Accident, Raise, Crash, FailToRecord, stores
  <1>4. CASE StartRun(a) \/ FinishRun(a) \/ RecordFailure(a)
    BY <1>4 DEF StartRun, FinishRun, RecordFailure
  <1>5. CASE FindSecurity(a) \/ MissSecurity(a) \/ InsertSecurity(a) \/ LoseInsertRace(a)
    BY <1>5 DEF FindSecurity, MissSecurity, InsertSecurity, LoseInsertRace, stores
  <1>6. CASE WriteRawDocument(a) \/ StoreSourceDocument(a) \/ Enqueue(a) \/ StoreRawObject(a)
    BY <1>6 DEF WriteRawDocument, StoreSourceDocument, Enqueue, StoreRawObject
  <1>7. CASE DeleteAdjustmentsFor(a) \/ StoreAdjustment(a)
    BY <1>7 DEF DeleteAdjustmentsFor, StoreAdjustment
  <1> QED
    BY <1>1, <1>2, <1>3, <1>4, <1>5, <1>6, <1>7 DEF Step

\* The other attempts stay as they are.
LEMMA OthersStay ==
    ASSUME IInv, NEW a \in Attempts, Step(a) \/ Accident(a)
    PROVE  /\ job' = job
           /\ a \in Active
           /\ \A b \in Attempts : b # a =>
                 phase'[b] = phase[b] /\ at'[b] = at[b] /\ run'[b] = run[b]
  <1>1. Sound(a)
    BY StepsAreSound
  <1>2. Moves(a) /\ (Records(a) \/ run' = run)
    BY <1>1 DEF Sound
  <1> QED
    BY <1>2 DEF Moves, Stays, Advances, Records, IInv, TypeOK

-----------------------------------------------------------------------------
\* Runs that are left running.

\* The call after which a run cannot be running: the last one of its program.
LEMMA StartedIsFinishedLast ==
    ASSUME IInv, NEW a \in Attempts, job[a] \in Jobs, phase[a] = "working", at[a] = Last(a),
           \E i \in 1..Last(a) : Program[job[a]][i].op = "start_run"
    PROVE  Call(a).op = "finish_run"
  <1>1. WellOrdered(Program[job[a]])
    BY ProgramAssumption
  <1>2. Program[job[a]][Len(Program[job[a]])].op = "finish_run"
    BY <1>1 DEF WellOrdered, Last
  <1> QED
    BY <1>2 DEF Call, Last

\* A call that returns has taken effect.
LEMMA CallIsMade ==
    ASSUME IInv, NEW a \in Attempts, Step(a) \/ Accident(a), Returns(a)
    PROVE  /\ Call(a).op = "finish_run" => FinishRun(a)
           /\ Call(a).op \in FactTables => StoreRow(a) /\ ~RejectTrace(a)
           /\ Call(a).op = "delete_adjustments_for" => DeleteAdjustmentsFor(a)
           /\ Call(a).op = "store_adjustment" => StoreAdjustment(a)
  <1>1. at' # at
    BY OutcomeIsSeen DEF IInv, TypeOK
  <1>2. ~Accident(a) /\ ~RejectTrace(a) /\ ~RecordFailure(a) /\ ~MissSecurity(a)
    BY <1>1 DEF Accident, Raise, Crash, FailToRecord, RejectTrace, RecordFailure,
                MissSecurity, Throw
  <1>3. StoreRow(a) => Call(a).op \in FactTables
    BY <1>2, StoreRowUpserts DEF Doing
  <1>4. \/ StoreRow(a)
        \/ FinishRun(a) /\ Call(a).op = "finish_run"
        \/ DeleteAdjustmentsFor(a) /\ Call(a).op = "delete_adjustments_for"
        \/ StoreAdjustment(a) /\ Call(a).op = "store_adjustment"
        \/ Call(a).op \in {"start_run", "ensure_security", "write_raw_document",
                           "store_source_document", "enqueue"} \union RawObjectOps
    BY <1>2
       DEF Step, Doing, StartRun, FinishRun, FindSecurity, InsertSecurity, LoseInsertRace,
           WriteRawDocument, StoreSourceDocument, Enqueue, StoreRawObject,
           DeleteAdjustmentsFor, StoreAdjustment
  <1> QED
    BY <1>2, <1>3, <1>4 DEF RawObjectOps, FactTables

LEMMA StepSettles ==
    ASSUME "finish" \notin Faults, IInv, RunsAreSettled,
           NEW a \in Attempts, Step(a) \/ Accident(a)
    PROVE  RunsAreSettled'
  <1>1. job' = job /\ a \in Active
    BY OthersStay
  <1>2. /\ phase[a] \in {"working", "failing"} /\ job[a] \in Jobs /\ Last(a) \in Nat
        /\ at[a] \in 1..Last(a)
    BY <1>1, CallOfActive DEF Active, IInv, Last
  <1> DEFINE Started(b) == \E i \in 1..Last(b) : Program[job[b]][i].op = "start_run"
  <1>3. run'[a] = "running" => Started(a)
    <2>1. CASE run' = run
      BY <2>1 DEF RunsAreSettled
    <2>2. CASE StartRun(a)
      BY <1>2, <2>2 DEF StartRun, Doing, Call
    <2>3. CASE FinishRun(a) \/ RecordFailure(a)
      BY <2>3 DEF FinishRun, RecordFailure, IInv, TypeOK
    <2> QED
      BY <2>1, <2>2, <2>3, StoresAfterStep
  <1>4. ASSUME run'[a] = "running", phase'[a] = "ended"
        PROVE  at'[a] <= Last(a) /\ ~Program[job[a]][at'[a]].guarded
    <2>1. ~RecordFailure(a) /\ ~FinishRun(a)
      BY <1>4 DEF RecordFailure, FinishRun, IInv, TypeOK
    <2>2. ~FailToRecord(a)
      BY DEF FailToRecord, Fault
    <2>3. ~Crash(a)
      BY <1>4, OutcomeIsSeen
    <2>4. ~MissSecurity(a)
      BY <1>2, <1>4, OutcomeIsSeen DEF MissSecurity, Doing
    <2>5. CASE Returns(a)
      <3>1. phase[a] = "working" /\ at[a] = Last(a)
        BY <1>4, <2>5, OutcomeIsSeen DEF Returns
      <3>2. Call(a).op = "finish_run"
        BY <1>2, <1>3, <1>4, <3>1, StartedIsFinishedLast
      <3> QED
        BY <2>1, <2>5, <3>2, CallIsMade
    <2>6. CASE Throws(a)
      BY <1>2, <1>4, <2>6, OutcomeIsSeen DEF Call
    <2> QED
      BY <2>1, <2>2, <2>3, <2>4, <2>5, <2>6, OutcomeOfStep
  <1>5. SUFFICES ASSUME NEW b \in Attempts, run'[b] = "running"
        PROVE  /\ Started(b)
               /\ phase'[b] = "ended" =>
                     at'[b] <= Last(b) /\ ~Program[job[b]][at'[b]].guarded
    BY <1>1 DEF RunsAreSettled, Last, Call
  <1>6. CASE b = a
    BY <1>3, <1>4, <1>5, <1>6
  <1>7. CASE b # a
    BY <1>5, <1>7, OthersStay DEF RunsAreSettled, Call
  <1> QED
    BY <1>6, <1>7

LEMMA NextSettles ==
    ASSUME "finish" \notin Faults, IInv, RunsAreSettled, [Next]_vars
    PROVE  RunsAreSettled'
  <1>1. ASSUME NEW a \in Attempts, NEW j \in Jobs, Begin(a, j)
        PROVE  RunsAreSettled'
    <2>1. /\ phase[a] = "idle" /\ at' = at /\ run' = run
          /\ \A b \in Attempts : b # a => job'[b] = job[b] /\ phase'[b] = phase[b]
      BY <1>1 DEF Begin, stores, IInv, TypeOK
    <2>2. run[a] = "none"
      BY <2>1 DEF IInv, AttemptsOnCourse
    <2>3. \A b \in Attempts : run'[b] = "running" => b # a /\ run[b] = "running"
      BY <2>1, <2>2
    <2> QED
      BY <2>1, <2>3 DEF RunsAreSettled, Last, Call
  <1>2. ASSUME NEW a \in Attempts, Step(a) \/ Accident(a)
        PROVE  RunsAreSettled'
    BY <1>2, StepSettles
  <1>3. CASE UNCHANGED <<job, phase, at, run>>
    BY <1>3 DEF RunsAreSettled, Last, Call
  <1>4. ASSUME NEW d \in Docs, Upload(d)
        PROVE  UNCHANGED <<job, phase, at, run>>
    BY <1>4 DEF Upload, control
  <1>5. UNCHANGED vars => UNCHANGED <<job, phase, at, run>>
    BY DEF vars, control, stores
  <1> QED
    BY <1>1, <1>2, <1>3, <1>4, <1>5 DEF Next

\* If finish_run answers in the except clause, an attempt leaves its run `running`
\* only by an exception raised between start_run and the `try`, or by dying.
THEOREM EndedRunsAreSettled ==
    ASSUME "finish" \notin Faults
    PROVE  Spec => []EndedRunIsSettled
  <1>1. Init => RunsAreSettled
    BY DEF Init, RunsAreSettled
  <1>2. IInv /\ RunsAreSettled /\ [Next]_vars => RunsAreSettled'
    BY NextSettles
  <1>3. RunsAreSettled => EndedRunIsSettled
    BY DEF RunsAreSettled, EndedRunIsSettled
  <1> QED
    BY <1>1, <1>2, <1>3, Invariance, PTL DEF Spec

-----------------------------------------------------------------------------
\* One attempt at a time.

LEMMA SerialIsKept ==
    ASSUME MaxParallel = 1, IsFiniteSet(Attempts), IInv, Serial, [Next]_vars
    PROVE  Serial'
  <1>1. ASSUME NEW a \in Attempts, NEW j \in Jobs, Begin(a, j)
        PROVE  Serial'
    <2>1. IsFiniteSet(Active)
      BY FS_Subset DEF Active
    <2>2. Cardinality(Active) = 0
      BY <1>1, <2>1, FS_CardinalityType DEF Begin
    <2>3. Active = {}
      BY <2>1, <2>2, FS_EmptySet
    <2>4. phase' = [phase EXCEPT ![a] = "working"]
      BY <1>1 DEF Begin
    <2>5. Active' \subseteq {a}
      BY <2>3, <2>4 DEF Active, IInv, TypeOK
    <2> QED
      BY <2>5 DEF Serial
  <1>2. ASSUME NEW a \in Attempts, Step(a) \/ Accident(a)
        PROVE  Serial'
    <2>1. Active' \subseteq Active
      BY <1>2, OthersStay DEF Active
    <2> QED
      BY <2>1 DEF Serial
  <1>3. CASE UNCHANGED phase
    BY <1>3 DEF Serial, Active
  <1>4. ASSUME NEW d \in Docs, Upload(d)
        PROVE  UNCHANGED phase
    BY <1>4 DEF Upload, control
  <1>5. UNCHANGED vars => UNCHANGED phase
    BY DEF vars, control
  <1> QED
    BY <1>1, <1>2, <1>3, <1>4, <1>5 DEF Next

\* The rest of what is claimed of an attempt that nothing disturbs.
Undisturbed == MissesAreCurrent /\ OnlyRefusalsStop

LEMMA StepOfUndisturbed ==
    ASSUME NoMacroRows, IInv, Serial, Undisturbed,
           NEW a \in Attempts, Step(a) \/ Accident(a)
    PROVE  Undisturbed'
  <1>1. /\ job' = job /\ a \in Active
        /\ \A b \in Attempts : b # a => phase'[b] = phase[b] /\ at'[b] = at[b]
    BY OthersStay
  <1>2. /\ phase[a] \in {"working", "failing"} /\ job[a] \in Jobs /\ Last(a) \in Nat
        /\ at[a] \in 1..Last(a)
    BY <1>1, CallOfActive DEF Active, IInv, Last
  <1>3. looked \subseteq {a}
    BY <1>1 DEF Undisturbed, MissesAreCurrent, Serial, Doing, Active, IInv, TypeOK
  <1>4. MissesAreCurrent'
    <2>1. SUFFICES ASSUME NEW b \in looked'
          PROVE  /\ phase'[b] = "working" /\ Program[job[b]][at'[b]].op = "ensure_security"
                 /\ Program[job[b]][at'[b]].key \notin securities'
      BY <1>1 DEF MissesAreCurrent, Doing, Call
    <2>2. CASE MissSecurity(a)
      <3>1. b = a /\ securities' = securities /\ at' = at /\ phase' = phase
        BY <1>3, <2>1, <2>2 DEF MissSecurity, stores
      <3> QED
        BY <2>2, <3>1 DEF MissSecurity, Doing, Call
    <2>3. CASE ~MissSecurity(a)
      <3>1. looked' = looked /\ b = a /\ a \in looked
        BY <1>3, <2>1, <2>3, StoresAfterStep
      <3>2. Call(a).op = "ensure_security" /\ phase[a] = "working"
        BY <3>1 DEF Undisturbed, MissesAreCurrent, Doing
      <3>3. ~InsertSecurity(a) /\ ~LoseInsertRace(a) /\ ~Raise(a) /\ ~Crash(a)
        BY <3>1 DEF InsertSecurity, LoseInsertRace, Raise, Crash
      <3>4. ~FindSecurity(a) /\ ~FailToRecord(a) /\ ~RecordFailure(a)
        BY <3>1, <3>2 DEF FindSecurity, FailToRecord, RecordFailure
      <3>5. ~RejectTrace(a) /\ ~(StoreRow(a) /\ ~RejectTrace(a))
        BY <3>2, StoreRowUpserts DEF RejectTrace, Doing, FactTables, MacroTables
      <3> QED
        BY <2>3, <3>2, <3>3, <3>4, <3>5
           DEF Step, Accident, Doing, StartRun, FinishRun, WriteRawDocument,
               StoreSourceDocument, Enqueue, StoreRawObject, RawObjectOps,
               DeleteAdjustmentsFor, StoreAdjustment
    <2> QED
      BY <2>2, <2>3
  <1>5. OnlyRefusalsStop'
    <2>1. SUFFICES ASSUME faults' = 0, NEW b \in Attempts, phase'[b] \in {"failing", "ended"}
          PROVE  at'[b] > Last(b) \/ Refused(Program[job[b]][at'[b]])
      BY <1>1 DEF OnlyRefusalsStop, Last, Call
    <2>2. \A kind : ~Fault(kind)
      BY <2>1 DEF Fault, IInv, TypeOK
    <2>3. faults = 0
      BY <1>2, <2>1, <2>2, OutcomeOfStep
         DEF Returns, Return, Throws, MissSecurity, RecordFailure, FailToRecord, Crash
    <2>4. CASE b # a
      BY <1>1, <2>1, <2>3, <2>4 DEF Undisturbed, OnlyRefusalsStop, Call
    <2>5. CASE b = a
      <3>1. CASE Returns(a)
        BY <1>2, <2>1, <2>5, <3>1, OutcomeIsSeen
      <3>2. CASE Throws(a)
        <4>1. RejectTrace(a) \/ LoseInsertRace(a)
          BY <2>2, <3>2 DEF Throws
        <4>2. ~LoseInsertRace(a)
          BY DEF LoseInsertRace, Undisturbed, MissesAreCurrent
        <4>3. Call(a).op \in FactTables /\ ~Call(a).ready
          BY <1>2, <4>1, <4>2 DEF RejectTrace, NoMacroRows, Call, Last
        <4> QED
          BY <2>5, <3>2, <4>3, OutcomeIsSeen DEF Refused, Call
      <3>3. CASE MissSecurity(a)
        BY <2>1, <2>5, <3>3, OutcomeIsSeen DEF MissSecurity, Doing
      <3>4. CASE RecordFailure(a) \/ FailToRecord(a)
        BY <2>3, <2>5, <3>4, OutcomeIsSeen DEF Undisturbed, OnlyRefusalsStop, Call
      <3>5. CASE Crash(a)
        BY <2>1, <2>5, <3>5, OutcomeIsSeen
      <3> QED
        BY <3>1, <3>2, <3>3, <3>4, <3>5, OutcomeOfStep
    <2> QED
      BY <2>4, <2>5
  <1> QED
    BY <1>4, <1>5 DEF Undisturbed

LEMMA NextOfUndisturbed ==
    ASSUME NoMacroRows, IInv, Serial, Undisturbed, [Next]_vars
    PROVE  Undisturbed'
  <1>1. ASSUME NEW a \in Attempts, NEW j \in Jobs, Begin(a, j)
        PROVE  Undisturbed'
    <2>1. /\ phase[a] = "idle" /\ UNCHANGED <<at, looked, faults, securities>>
          /\ phase'[a] = "working"
          /\ \A b \in Attempts : b # a => job'[b] = job[b] /\ phase'[b] = phase[b]
      BY <1>1 DEF Begin, stores, IInv, TypeOK
    <2>2. a \notin looked
      BY <2>1 DEF Undisturbed, MissesAreCurrent, Doing
    <2>3. MissesAreCurrent'
      BY <2>1, <2>2 DEF Undisturbed, MissesAreCurrent, Doing, Call, IInv, TypeOK
    <2>4. OnlyRefusalsStop'
      BY <2>1 DEF Undisturbed, OnlyRefusalsStop, Call, Last
    <2> QED
      BY <2>3, <2>4 DEF Undisturbed
  <1>2. ASSUME NEW a \in Attempts, Step(a) \/ Accident(a)
        PROVE  Undisturbed'
    BY <1>2, StepOfUndisturbed
  <1>3. CASE UNCHANGED <<job, phase, at, looked, faults, securities>>
    BY <1>3 DEF Undisturbed, MissesAreCurrent, OnlyRefusalsStop, Doing, Call, Last
  <1>4. ASSUME NEW d \in Docs, Upload(d)
        PROVE  UNCHANGED <<job, phase, at, looked, faults, securities>>
    BY <1>4 DEF Upload, control
  <1>5. UNCHANGED vars => UNCHANGED <<job, phase, at, looked, faults, securities>>
    BY DEF vars, control, stores
  <1> QED
    BY <1>1, <1>2, <1>3, <1>4, <1>5 DEF Next

\* What earlier attempts, failed and crashed ones too, leave in the tables does not
\* make a later one fail: one at a time, and without macro rows, an attempt that no
\* fault hits ends past its last call, or at a row whose trace is refused.
THEOREM UndisturbedAttemptsSucceed ==
    ASSUME MaxParallel = 1, IsFiniteSet(Attempts), NoMacroRows
    PROVE  Spec => []UndisturbedAttemptSucceeds
  <1>1. Init => Serial /\ Undisturbed
    BY DEF Init, Serial, Active, Undisturbed, MissesAreCurrent, OnlyRefusalsStop
  <1>2. IInv /\ Serial /\ Undisturbed /\ [Next]_vars => Serial' /\ Undisturbed'
    BY SerialIsKept, NextOfUndisturbed
  <1>3. Undisturbed => UndisturbedAttemptSucceeds
    BY DEF Undisturbed, OnlyRefusalsStop, UndisturbedAttemptSucceeds, Refused
  <1> QED
    BY <1>1, <1>2, <1>3, Invariance, PTL DEF Spec


-----------------------------------------------------------------------------
\* The adjustments of an earnings row.

LEMMA BridgeGrows ==
    ASSUME NEW p, NEW a, NEW k, NEW n \in Nat
    PROVE  /\ CallsFor(p, n + 1, "delete_adjustments_for", k) =>
                BridgeAfter(p, a, k, n + 1) = {}
           /\ CallsFor(p, n + 1, "store_adjustment", k) =>
                BridgeAfter(p, a, k, n + 1) =
                    BridgeAfter(p, a, k, n)
                        \union {[key |-> k, attempt |-> a, line |-> p[n + 1].line]}
           /\ ~(p[n + 1].op \in AdjustmentOps /\ p[n + 1].key = k) =>
                BridgeAfter(p, a, k, n + 1) = BridgeAfter(p, a, k, n)
  <1> DEFINE Kept(m, l) ==
                 /\ CallsFor(p, m, "store_adjustment", k)
                 /\ \A i \in m..l : ~CallsFor(p, i, "delete_adjustments_for", k)
             Line(m) == [key |-> k, attempt |-> a, line |-> p[m].line]
  <1>1. \A l \in Nat : BridgeAfter(p, a, k, l) = {Line(m) : m \in {i \in 1..l : Kept(i, l)}}
    BY DEF BridgeAfter
  <1>2. CallsFor(p, n + 1, "delete_adjustments_for", k) => \A m \in 1..(n + 1) : ~Kept(m, n + 1)
    OBVIOUS
  <1>3. ASSUME ~CallsFor(p, n + 1, "delete_adjustments_for", k)
        PROVE  /\ \A m \in 1..n : Kept(m, n + 1) <=> Kept(m, n)
               /\ Kept(n + 1, n + 1) <=> CallsFor(p, n + 1, "store_adjustment", k)
    <2>1. \A m \in 1..n : m..(n + 1) = (m..n) \union {n + 1}
      OBVIOUS
    <2>2. (n + 1)..(n + 1) = {n + 1}
      OBVIOUS
    <2> QED
      BY <1>3, <2>1, <2>2
  <1>4. 1..(n + 1) = (1..n) \union {n + 1}
    OBVIOUS
  <1> HIDE DEF Kept, Line
  <1>5. CASE CallsFor(p, n + 1, "delete_adjustments_for", k)
    <2>1. BridgeAfter(p, a, k, n + 1) = {}
      BY <1>1, <1>2, <1>5
    <2> QED
      BY <1>5, <2>1 DEF CallsFor, AdjustmentOps
  <1>6. CASE CallsFor(p, n + 1, "store_adjustment", k)
    <2>1. ~CallsFor(p, n + 1, "delete_adjustments_for", k)
      BY <1>6 DEF CallsFor
    <2>2. {i \in 1..(n + 1) : Kept(i, n + 1)} = {i \in 1..n : Kept(i, n)} \union {n + 1}
      BY <1>3, <1>4, <1>6, <2>1
    <2>3. BridgeAfter(p, a, k, n + 1) = BridgeAfter(p, a, k, n) \union {Line(n + 1)}
      BY <1>1, <2>2
    <2> QED
      BY <1>6, <2>1, <2>3 DEF CallsFor, AdjustmentOps, Line
  <1>7. CASE ~(p[n + 1].op \in AdjustmentOps /\ p[n + 1].key = k)
    <2>1. /\ ~CallsFor(p, n + 1, "delete_adjustments_for", k)
          /\ ~CallsFor(p, n + 1, "store_adjustment", k)
      BY <1>7 DEF CallsFor, AdjustmentOps
    <2>2. {i \in 1..(n + 1) : Kept(i, n + 1)} = {i \in 1..n : Kept(i, n)}
      BY <1>3, <1>4, <2>1
    <2> QED
      BY <1>1, <1>7, <2>1, <2>2
  <1> QED
    BY <1>5, <1>6, <1>7

\* The lines of a key change only by a call about the key.
LEMMA LinesAfterStep ==
    ASSUME IInv, NEW a \in Attempts, Step(a) \/ Accident(a), NEW k
    PROVE  /\ \/ LinesAt(k)' = LinesAt(k)
              \/ phase[a] = "working" /\ Call(a).op \in AdjustmentOps /\ Call(a).key = k
           /\ DeleteAdjustmentsFor(a) /\ Call(a).key = k => LinesAt(k)' = {}
           /\ StoreAdjustment(a) /\ Call(a).key = k =>
                LinesAt(k)' = LinesAt(k)
                    \union {[key |-> k, attempt |-> a, line |-> Call(a).line]}
  <1>1. CASE lines' = lines /\ ~DeleteAdjustmentsFor(a) /\ ~StoreAdjustment(a)
    BY <1>1 DEF LinesAt
  <1>2. CASE DeleteAdjustmentsFor(a)
    <2>1. /\ lines' = {line \in lines : line.key # Call(a).key}
          /\ phase[a] = "working" /\ Call(a).op = "delete_adjustments_for"
      BY <1>2 DEF DeleteAdjustmentsFor, Doing
    <2>2. ~StoreAdjustment(a)
      BY <2>1 DEF StoreAdjustment, Doing
    <2> QED
      BY <2>1, <2>2 DEF LinesAt, AdjustmentOps
  <1>3. CASE StoreAdjustment(a)
    <2>1. /\ lines' = lines \union {[key |-> Call(a).key, attempt |-> a, line |-> Call(a).line]}
          /\ phase[a] = "working" /\ Call(a).op = "store_adjustment"
      BY <1>3 DEF StoreAdjustment, Doing
    <2>2. ~DeleteAdjustmentsFor(a)
      BY <2>1 DEF DeleteAdjustmentsFor, Doing
    <2> QED
      BY <2>1, <2>2 DEF LinesAt, AdjustmentOps
  <1> QED
    BY <1>1, <1>2, <1>3, StoresAfterStep

\* An attempt touches the adjustments of a row only after it has stored the row.
LEMMA AdjustedRowIsOwn ==
    ASSUME IInv, RowsAreOwn, NEW a \in Attempts, phase[a] = "working",
           NEW m \in 1..at[a], Program[job[a]][m].op \in AdjustmentOps,
           NEW k \in Keys, Program[job[a]][m].key = k
    PROVE  facts[k].value.attempt = a
  <1>1. /\ job[a] \in Jobs /\ Last(a) \in Nat /\ at[a] \in 1..Last(a)
        /\ at[a] \in 1..Len(Program[job[a]])
    BY CallOfActive DEF IInv, Last
  <1>2. WellOrdered(Program[job[a]]) /\ m \in 1..Len(Program[job[a]])
    BY <1>1, ProgramAssumption DEF Last
  <1>3. PICK i \in 1..(m - 1) : StoresRow(Program[job[a]], i, k)
    BY <1>2 DEF WellOrdered, StoresRow
  <1>4. i \in 1..Behind(a)
    BY <1>1 DEF Behind
  <1> QED
    BY <1>3, <1>4 DEF RowsAreOwn


\* The attempt whose row of k is being stored, at the end of the step.
LEMMA RowAfterStep ==
    ASSUME IInv, NEW a \in Attempts, Step(a) \/ Accident(a), NEW k \in Keys
    PROVE  \/ facts'[k] = facts[k]
           \/ /\ phase[a] = "working" /\ StoresRow(Program[job[a]], at[a], k)
              /\ facts'[k].value.attempt = a
              /\ lines' = lines /\ run' = run
  <1>1. CASE StoreRow(a) /\ ~RejectTrace(a)
    <2>1. PICK c \in CallType : c = Call(a) /\ Upserts(a, c)
      BY <1>1, StoreRowUpserts
    <2>2. PICK cell \in Cell : facts' = [facts EXCEPT ![c.key] = cell] /\ cell.value = Id(a)
      BY <2>1 DEF Upserts
    <2>3. phase[a] = "working" /\ c.op \in FactTables /\ lines' = lines /\ run' = run
      BY <1>1, <2>1, StoreRowUpserts DEF Doing
    <2>4. CASE k = c.key
      <3>1. facts'[k] = cell
        BY <2>2, <2>4 DEF IInv, TypeOK
      <3> QED
        BY SMTT(40), <2>1, <2>2, <2>3, <2>4, <3>1 DEF StoresRow, Call, Id
    <2>5. CASE k # c.key
      BY <2>2, <2>5 DEF IInv, TypeOK
    <2> QED
      BY <2>4, <2>5
  <1> QED
    BY <1>1, StoresAfterStep

LEMMA StepKeepsRows ==
    ASSUME IInv, BridgeInv, NEW a \in Attempts, Step(a) \/ Accident(a)
    PROVE  RowsAreOwn' /\ SucceededIsOver' /\ LinesAreBridged'
  <1>1. /\ job' = job /\ a \in Active
        /\ \A b \in Attempts : b # a =>
              phase'[b] = phase[b] /\ at'[b] = at[b] /\ run'[b] = run[b]
    BY OthersStay
  <1>2. \A b \in Attempts : b # a => phase[b] \notin {"working", "failing"}
    BY <1>1 DEF BridgeInv, Serial, Active
  <1>3. /\ phase[a] \in {"working", "failing"} /\ job[a] \in Jobs /\ Last(a) \in Nat
        /\ at[a] \in 1..Last(a) /\ Call(a) \in CallType
    BY <1>1, CallOfActive DEF Active, IInv, Last
  <1>4. RowsAreOwn'
    <2>1. SUFFICES ASSUME NEW b \in Attempts, NEW k \in Keys, phase'[b] = "working",
                          NEW i \in 1..(at'[b] - 1), StoresRow(Program[job[b]], i, k)
          PROVE  facts'[k].value.attempt = b
      BY <1>1 DEF RowsAreOwn, Behind
    <2>2. b = a
      BY <1>1, <1>2, <2>1
    <2>3. CASE i \in 1..Behind(a) /\ phase[a] = "working"
      BY <2>1, <2>2, <2>3, RowAfterStep DEF BridgeInv, RowsAreOwn
    <2>4. CASE i = at[a] /\ Returns(a)
      <3>1. Call(a).op \in FactTables /\ Call(a).key = k
        BY <2>1, <2>2, <2>4 DEF StoresRow, Call
      <3>2. StoreRow(a) /\ ~RejectTrace(a)
        BY <2>4, <3>1, CallIsMade
      <3>3. PICK c \in CallType : c = Call(a) /\ Upserts(a, c)
        BY <3>2, StoreRowUpserts
      <3>4. facts'[k].value = Id(a)
        BY <3>1, <3>3 DEF Upserts, IInv, TypeOK
      <3> QED
        BY <2>2, <3>4 DEF Id
    <2>5. Returns(a) \/ MissSecurity(a)
      BY <2>1, <2>2, OutcomeOfStep, OutcomeIsSeen
    <2>6. CASE Returns(a)
      BY <1>3, <2>1, <2>2, <2>3, <2>4, <2>6, OutcomeIsSeen DEF Behind, Returns
    <2>7. CASE MissSecurity(a)
      BY <2>1, <2>2, <2>3, <2>7, OutcomeIsSeen DEF Behind, MissSecurity, Doing
    <2> QED
      BY <2>5, <2>6, <2>7
  <1>5. SucceededIsOver'
    <2>1. SUFFICES ASSUME NEW b \in Attempts, run'[b] = "succeeded", phase'[b] = "working"
          PROVE  FALSE
      BY DEF SucceededIsOver
    <2>2. b = a
      BY <1>1, <1>2, <2>1
    <2>3. (Returns(a) /\ at[a] # Last(a)) \/ MissSecurity(a)
      BY <2>1, <2>2, OutcomeOfStep, OutcomeIsSeen
    <2>4. phase[a] = "working" /\ run[a] # "succeeded"
      BY <2>3 DEF Returns, MissSecurity, Doing, BridgeInv, SucceededIsOver
    <2>5. FinishRun(a)
      BY <2>1, <2>2, <2>4, StoresAfterStep DEF StartRun, RecordFailure, IInv, TypeOK
    <2>6. at[a] = Last(a) /\ Call(a).op = "finish_run"
      BY <2>4, <2>5, OrderOfCall DEF FinishRun, Doing
    <2> QED
      BY <2>3, <2>6 DEF MissSecurity, Doing
  <1>6. LinesAreBridged'
    <2>1. lines' \subseteq lines \/ StoreAdjustment(a)
      BY StoresAfterStep DEF DeleteAdjustmentsFor
    <2>2. CASE StoreAdjustment(a)
      <3>1. lines' = lines \union {[key |-> Call(a).key, attempt |-> a, line |-> Call(a).line]}
        BY <2>2 DEF StoreAdjustment
      <3>2. Call(a).op = "store_adjustment" /\ Call(a).key \in Keys
        BY <1>3, <2>2 DEF StoreAdjustment, Doing, CallType
      <3>3. Call(a).key \in BridgedKeys
        BY <1>3, <3>2 DEF BridgedKeys, CallsFor, Call, Last
      <3> QED
        BY <3>1, <3>3 DEF BridgeInv, LinesAreBridged
    <2> QED
      BY <2>1, <2>2 DEF BridgeInv, LinesAreBridged
  <1> QED
    BY <1>4, <1>5, <1>6

\* The bridge of the attempt that moves, at a key whose row it has stored before.
LEMMA OwnBridgeFollows ==
    ASSUME BridgesAreRewritten, IInv, BridgeInv, NEW a \in Attempts, Step(a) \/ Accident(a),
           NEW k \in Keys, BridgeOf(a, k)
    PROVE  BridgeOf(a, k)'
  <1> DEFINE p == Program[job[a]]
  <1>1. job' = job /\ a \in Active
    BY OthersStay
  <1>2. /\ phase[a] \in {"working", "failing"} /\ job[a] \in Jobs /\ Last(a) \in Nat
        /\ at[a] \in 1..Last(a) /\ Last(a) = Len(p)
    BY <1>1, CallOfActive DEF Active, IInv, Last
  <1>3. /\ phase'[a] # "idle"
        /\ \E i \in 1..Last(a) : StoresRow(p, i, k)
    BY <1>2, OutcomeOfStep, OutcomeIsSeen DEF BridgeOf, MissSecurity
  <1>4. ASSUME phase'[a] = "working",
               \E m \in 1..(at'[a] - 1) : CallsFor(p, m, "delete_adjustments_for", k)
        PROVE  LinesAt(k)' = BridgeAfter(p, a, k, at'[a] - 1)
    <2>1. CASE MissSecurity(a)
      BY <1>4, <2>1, OutcomeIsSeen
         DEF MissSecurity, Doing, stores, LinesAt, BridgeOf, Deleted, Behind
    <2>2. CASE Returns(a)
      <3>1. /\ at'[a] - 1 = Behind(a) + 1 /\ Behind(a) \in Nat /\ Behind(a) + 1 = at[a]
            /\ phase[a] = "working"
        BY <1>2, <2>2, OutcomeIsSeen DEF Behind, Returns
      <3>2. CASE CallsFor(p, at[a], "delete_adjustments_for", k)
        <4>1. LinesAt(k)' = {}
          BY <2>2, <3>2, CallIsMade, LinesAfterStep DEF CallsFor, Call
        <4> QED
          BY ZenonT(60), <3>1, <3>2, <4>1, BridgeGrows
      <3>3. CASE ~CallsFor(p, at[a], "delete_adjustments_for", k)
        <4>1. Deleted(a, k)
          BY <1>4, <3>1, <3>3 DEF Deleted
        <4>2. LinesAt(k) = BridgeAfter(p, a, k, Behind(a))
          BY <3>1, <4>1 DEF BridgeOf
        <4>3. CASE CallsFor(p, at[a], "store_adjustment", k)
          <5>1. LinesAt(k)' =
                    LinesAt(k) \union {[key |-> k, attempt |-> a, line |-> p[at[a]].line]}
            BY <2>2, <4>3, CallIsMade, LinesAfterStep DEF CallsFor, Call
          <5> QED
            BY <3>1, <4>2, <4>3, <5>1, BridgeGrows
        <4>4. CASE ~(p[at[a]].op \in AdjustmentOps /\ p[at[a]].key = k)
          <5>1. LinesAt(k)' = LinesAt(k)
            BY <4>4, LinesAfterStep DEF Call
          <5> QED
            BY <3>1, <4>2, <4>4, <5>1, BridgeGrows
        <4> QED
          BY <3>3, <4>3, <4>4 DEF CallsFor, AdjustmentOps
      <3> QED
        BY <3>2, <3>3
    <2> QED
      BY <1>4, <2>1, <2>2, OutcomeOfStep, OutcomeIsSeen
  <1>5. ASSUME run'[a] = "succeeded"
        PROVE  LinesAt(k)' = BridgeAfter(p, a, k, Last(a))
    <2>1. CASE run[a] = "succeeded"
      <3>1. phase[a] # "working"
        BY <2>1 DEF BridgeInv, SucceededIsOver
      <3>2. LinesAt(k)' = LinesAt(k)
        BY <3>1, LinesAfterStep
      <3> QED
        BY <2>1, <3>2 DEF BridgeOf
    <2>2. CASE run[a] # "succeeded"
      <3>1. FinishRun(a)
        BY <1>5, <2>2, StoresAfterStep DEF StartRun, RecordFailure, IInv, TypeOK
      <3>2. /\ phase[a] = "working" /\ Call(a).op = "finish_run" /\ at[a] = Last(a)
            /\ lines' = lines
        BY <3>1, OrderOfCall DEF FinishRun, Doing
      <3>3. Behind(a) \in Nat /\ Behind(a) + 1 = Last(a) /\ p[Last(a)].op = "finish_run"
        BY <1>2, <3>2 DEF Behind, Call
      <3>4. LinesAt(k)' = LinesAt(k)
        BY <3>2 DEF LinesAt
      <3>5. BridgeAfter(p, a, k, Last(a)) = BridgeAfter(p, a, k, Behind(a))
        BY <3>3, BridgeGrows DEF AdjustmentOps
      <3>6. CASE k \in BridgedKeys
        <4>1. PICK m \in 1..Last(a) : CallsFor(p, m, "delete_adjustments_for", k)
          BY <1>2, <1>3, <3>6 DEF BridgesAreRewritten
        <4>2. m \in 1..Behind(a)
          BY <1>2, <3>3, <4>1 DEF CallsFor
        <4>3. Deleted(a, k)
          BY <4>1, <4>2 DEF Deleted
        <4> QED
          BY <3>2, <3>4, <3>5, <4>3 DEF BridgeOf
      <3>7. CASE k \notin BridgedKeys
        <4>1. LinesAt(k) = {}
          BY <3>7 DEF BridgeInv, LinesAreBridged, LinesAt
        <4>2. \A m \in 1..Last(a) : ~CallsFor(p, m, "store_adjustment", k)
          BY <1>2, <3>7 DEF BridgedKeys
        <4>3. BridgeAfter(p, a, k, Last(a)) = {}
          BY <4>2 DEF BridgeAfter
        <4> QED
          BY <3>4, <4>1, <4>3
      <3> QED
        BY <3>6, <3>7
    <2> QED
      BY <2>1, <2>2
  <1> QED
    BY <1>1, <1>3, <1>4, <1>5 DEF BridgeOf, Deleted, Behind, Last, LinesAt

LEMMA StepKeepsBridges ==
    ASSUME BridgesAreRewritten, IInv, BridgeInv, NEW a \in Attempts, Step(a) \/ Accident(a)
    PROVE  BridgesFollow'
  <1>1. /\ job' = job /\ a \in Active
        /\ \A b \in Attempts : b # a =>
              phase'[b] = phase[b] /\ at'[b] = at[b] /\ run'[b] = run[b]
    BY OthersStay
  <1>2. /\ phase[a] \in {"working", "failing"} /\ job[a] \in Jobs /\ Last(a) \in Nat
        /\ at[a] \in 1..Last(a)
    BY <1>1, CallOfActive DEF Active, IInv, Last
  <1>3. SUFFICES ASSUME NEW k \in Keys, NEW b \in Attempts, b = facts'[k].value.attempt
        PROVE  BridgeOf(b, k)'
    BY DEF BridgesFollow, BridgeOf, Deleted, Behind, LinesAt, Last
  <1>4. CASE facts'[k] = facts[k] /\ b = a
    BY <1>3, <1>4, OwnBridgeFollows DEF BridgeInv, BridgesFollow
  <1>5. CASE facts'[k] = facts[k] /\ b # a
    <2>1. BridgeOf(b, k)
      BY <1>3, <1>5 DEF BridgeInv, BridgesFollow
    <2>2. phase'[b] = phase[b] /\ run'[b] = run[b] /\ phase[b] # "working"
      BY <1>1, <1>5 DEF BridgeInv, Serial, Active
    <2>3. LinesAt(k)' = LinesAt(k)
      <3>1. SUFFICES ASSUME phase[a] = "working", Call(a).op \in AdjustmentOps, Call(a).key = k
            PROVE  FALSE
        BY LinesAfterStep
      <3>2. facts[k].value.attempt = a
        BY <1>2, <3>1, AdjustedRowIsOwn DEF BridgeInv, Call
      <3> QED
        BY <1>3, <1>5, <3>2
    <2> QED
      BY <1>1, <2>1, <2>2, <2>3 DEF BridgeOf, Last, LinesAt
  <1>6. CASE /\ phase[a] = "working" /\ StoresRow(Program[job[a]], at[a], k) /\ b = a
             /\ lines' = lines /\ run' = run
    <2> DEFINE p == Program[job[a]]
    <2>1. run[a] # "succeeded"
      BY <1>6 DEF BridgeInv, SucceededIsOver
    <2>2. phase'[a] # "idle"
      BY <1>2, OutcomeOfStep, OutcomeIsSeen DEF MissSecurity
    <2>3. p[at[a]].op \notin AdjustmentOps
      BY <1>6 DEF StoresRow, FactTables, AdjustmentOps
    <2>4. ASSUME phase'[a] = "working",
                 NEW m \in 1..(at'[a] - 1), CallsFor(p, m, "delete_adjustments_for", k)
          PROVE  LinesAt(k) = BridgeAfter(p, a, k, at'[a] - 1)
      <3>1. Returns(a)
        BY <1>6, <2>4, OutcomeOfStep, OutcomeIsSeen
           DEF MissSecurity, Doing, StoresRow, FactTables, Call
      <3>2. at'[a] - 1 = Behind(a) + 1 /\ Behind(a) \in Nat /\ Behind(a) + 1 = at[a]
        BY <1>2, <3>1, OutcomeIsSeen DEF Behind
      <3>3. m \in 1..Behind(a)
        BY <2>3, <2>4, <3>2 DEF CallsFor, AdjustmentOps
      <3>4. m \in 1..at[a] /\ p[m].op \in AdjustmentOps /\ p[m].key = k
        BY <2>4, <3>2 DEF CallsFor, AdjustmentOps
      <3>5. facts[k].value.attempt = a
        BY <1>6, <3>4, AdjustedRowIsOwn DEF BridgeInv
      <3>6. BridgeOf(a, k)
        BY <3>5 DEF BridgeInv, BridgesFollow
      <3>7. LinesAt(k) = BridgeAfter(p, a, k, Behind(a))
        BY <1>6, <2>4, <3>3, <3>6 DEF BridgeOf, Deleted
      <3> QED
        BY <2>3, <3>2, <3>7, BridgeGrows
    <2>5. LinesAt(k)' = LinesAt(k)
      BY <1>6 DEF LinesAt
    <2> QED
      BY <1>1, <1>2, <1>6, <2>1, <2>2, <2>4, <2>5
         DEF BridgeOf, Deleted, Behind, Last, LinesAt
  <1> QED
    BY <1>3, <1>4, <1>5, <1>6, RowAfterStep

LEMMA NextKeepsBridges ==
    ASSUME MaxParallel = 1, IsFiniteSet(Attempts), BridgesAreRewritten,
           IInv, BridgeInv, [Next]_vars
    PROVE  BridgeInv'
  <1>1. Serial'
    BY SerialIsKept DEF BridgeInv
  <1>2. ASSUME NEW a \in Attempts, NEW j \in Jobs, Begin(a, j)
        PROVE  BridgeInv'
    <2>1. /\ phase[a] = "idle" /\ UNCHANGED <<at, run, facts, lines>>
          /\ \A b \in Attempts : b # a => job'[b] = job[b] /\ phase'[b] = phase[b]
      BY <1>2 DEF Begin, stores, IInv, TypeOK
    <2>2. at[a] = 1 /\ run[a] = "none"
      BY <2>1 DEF IInv, AttemptsOnCourse
    <2>3. \A k \in Keys : facts[k].value.attempt # a
      BY <2>1 DEF BridgeInv, BridgesFollow, BridgeOf
    <2>4. BridgesFollow'
      <3>1. SUFFICES ASSUME NEW k \in Keys, NEW b \in Attempts, b = facts[k].value.attempt
            PROVE  BridgeOf(b, k)'
        BY <2>1 DEF BridgesFollow, BridgeOf, Deleted, Behind, LinesAt, Last
      <3>2. b # a /\ BridgeOf(b, k)
        BY <2>3, <3>1 DEF BridgeInv, BridgesFollow
      <3> QED
        BY <2>1, <3>2 DEF BridgeOf, Deleted, Behind, LinesAt, Last
    <2>5. RowsAreOwn'
      BY <2>1, <2>2 DEF BridgeInv, RowsAreOwn, Behind
    <2>6. SucceededIsOver' /\ LinesAreBridged'
      BY <2>1, <2>2 DEF BridgeInv, SucceededIsOver, LinesAreBridged
    <2> QED
      BY <1>1, <2>4, <2>5, <2>6 DEF BridgeInv
  <1>3. ASSUME NEW a \in Attempts, Step(a) \/ Accident(a)
        PROVE  BridgeInv'
    BY <1>1, <1>3, StepKeepsRows, StepKeepsBridges DEF BridgeInv
  <1>4. CASE UNCHANGED <<job, phase, at, run, facts, lines>>
    BY <1>4 DEF BridgeInv, Serial, Active, BridgesFollow, BridgeOf, Deleted, Behind, LinesAt,
                Last, RowsAreOwn, SucceededIsOver, LinesAreBridged
  <1>5. ASSUME NEW d \in Docs, Upload(d)
        PROVE  UNCHANGED <<job, phase, at, run, facts, lines>>
    BY <1>5 DEF Upload, control
  <1>6. UNCHANGED vars => UNCHANGED <<job, phase, at, run, facts, lines>>
    BY DEF vars, control, stores
  <1> QED
    BY <1>2, <1>3, <1>4, <1>5, <1>6 DEF Next

\* The bridge of an earnings row is the one of the run that stored the row last, if
\* that run succeeded, after any number of failed and crashed attempts before it and
\* since: one attempt at a time, with programs that rewrite the bridges of the rows
\* they store.
THEOREM AdjustmentsMatch ==
    ASSUME MaxParallel = 1, IsFiniteSet(Attempts), BridgesAreRewritten
    PROVE  Spec => []AdjustmentsMatchEarnings
  <1>1. Init => BridgeInv
    <2>1. SUFFICES ASSUME Init PROVE BridgeInv
      OBVIOUS
    <2>2. \A k \in Keys : facts[k].value.attempt \notin Attempts
      BY <2>1, ProgramAssumption DEF Init, NoCell, NoId
    <2> QED
      BY <2>1, <2>2
         DEF Init, BridgeInv, Serial, Active, BridgesFollow, RowsAreOwn, SucceededIsOver,
             LinesAreBridged
  <1>2. IInv /\ BridgeInv /\ [Next]_vars => BridgeInv'
    BY NextKeepsBridges
  <1>3. BridgeInv => AdjustmentsMatchEarnings
    <2>1. \A a \in Attempts : \A k \in Keys :
              LinesOf(a, k) = BridgeAfter(Program[job[a]], a, k, Last(a))
      BY DEF LinesOf, BridgeAfter, CallsFor, Last
    <2> QED
      BY <2>1 DEF BridgeInv, BridgesFollow, BridgeOf, AdjustmentsMatchEarnings, LinesAt
  <1> QED
    BY <1>1, <1>2, <1>3, Invariance, PTL DEF Spec


=============================================================================
