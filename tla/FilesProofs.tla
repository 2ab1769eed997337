------------------------------- MODULE FilesProofs -------------------------------
(***************************************************************************)
(* The files of the data directory, for any number of keys, processes,     *)
(* documents, filings and steps: the upload queue (BlobSync implements     *)
(* UploadQueue), the KR raw files and the cache built from them            *)
(* (KrEvidence implements KrCache), the SEC's bulk archives, the cached    *)
(* pages of normalize-us; and that MCFiles is all of them at once.         *)
(***************************************************************************)
EXTENDS MCFiles, FiniteSetTheorems, TLAPS

-----------------------------------------------------------------------------
(* Numbers.  A least number of a property stands for the induction over    *)
(* the files, rows and steps that are finitely many.                       *)

LEMMA LeastNumber ==
    ASSUME NEW S \in SUBSET Nat, S # {}
    PROVE  \E m \in S : \A k \in S : m <= k
  <1>1. IsWellFoundedOn(OpToRel(<, Nat), Nat)
    BY NatLessThanWellFounded
  <1>2. PICK m \in S : \A k \in S : ~ (<<k, m>> \in OpToRel(<, Nat))
    BY <1>1, WFMin
  <1>3. OpToRel(<, Nat) = {p \in Nat \X Nat : p[1] < p[2]}
    BY DEF OpToRel
  <1>4. ASSUME NEW k \in S PROVE m <= k
    <2>1. <<k, m>> \in Nat \X Nat /\ k \in Nat /\ m \in Nat
      OBVIOUS
    <2>2. ~ (k < m)
      BY <1>2, <1>3, <2>1
    <2> QED
      BY <2>1, <2>2
  <1> QED
    BY <1>4

LEMMA GreatestNumber ==
    ASSUME NEW n \in Nat, NEW S \in SUBSET (1 .. n), S # {}
    PROVE  \E m \in S : \A k \in S : m >= k
  <1> DEFINE left == {n - k : k \in S}
  <1>1. left \in SUBSET Nat /\ left # {}
    <2>1. \A k \in S : k \in 1 .. n /\ n - k \in Nat
      OBVIOUS
    <2> QED
      BY <2>1
  <1>2. PICK m \in left : \A k \in left : m <= k
    <2> HIDE DEF left
    <2> QED
      BY <1>1, LeastNumber
  <1>3. PICK l \in S : m = n - l
    BY <1>2
  <1>4. ASSUME NEW k \in S PROVE l >= k
    <2>1. n - l <= n - k
      BY <1>2, <1>3
    <2> QED
      BY <2>1
  <1> QED
    BY <1>4

LEMMA MinIsMember == ASSUME NEW n \in Nat, NEW S \in SUBSET (1 .. n), S # {} PROVE Min(S) \in S
  <1>1. S \in SUBSET Nat
    OBVIOUS
  <1>2. \E m \in S : \A k \in S : m <= k
    BY <1>1, LeastNumber
  <1> QED
    BY <1>2 DEF Min

LEMMA MaxIsMember == ASSUME NEW n \in Nat, NEW S \in SUBSET (1 .. n), S # {} PROVE Max(S) \in S
  <1>2. \E m \in S : \A k \in S : m >= k
    BY GreatestNumber
  <1> QED
    BY <1>2 DEF Max

\* Where of any two rows one comes before the other, one row comes before all others.
Ranks(rows, R) ==
    /\ \A i, j \in rows : i # j => <<i, j>> \in R \/ <<j, i>> \in R
    /\ \A i, j, k \in rows : <<i, j>> \in R /\ <<j, k>> \in R => <<i, k>> \in R

Leads(rows, R, k) == k \in rows /\ \A j \in rows \ {k} : <<k, j>> \in R

LEMMA LeaderExists ==
    ASSUME NEW n \in Nat, NEW rows \in SUBSET (1 .. n), rows # {}, NEW R, Ranks(rows, R)
    PROVE  \E k \in rows : Leads(rows, R, k)
  <1> DEFINE upto(i) == {k \in rows : k <= i}
             Fails(i) == upto(i) # {} /\ \A k \in upto(i) : ~Leads(upto(i), R, k)
             bad == {i \in 0 .. n : Fails(i)}
  <1>a. \A k \in rows : k \in Nat /\ 1 <= k /\ k <= n
    OBVIOUS
  <1>b. \A i, k : k \in upto(i) <=> k \in rows /\ k <= i
    OBVIOUS
  <1> HIDE DEF upto
  <1>1. SUFFICES ASSUME Fails(n) PROVE FALSE
    <2>1. upto(n) = rows
      <3>1. \A k : k \in upto(n) <=> k \in rows
        BY <1>a, <1>b
      <3> QED
        BY <3>1
    <2> QED
      BY <2>1
  <1>2. PICK m \in bad : \A i \in bad : m <= i
    <2>1. bad \in SUBSET Nat /\ n \in bad
      BY <1>1
    <2> HIDE DEF bad
    <2> QED
      BY <2>1, LeastNumber
  <1>3. m \in 1 .. n /\ Fails(m)
    <2>1. m \in 0 .. n /\ Fails(m)
      BY <1>2
    <2>2. m # 0
      <3>1. \A k : k \notin upto(0)
        <4>1. \A k \in rows : ~ (k <= 0)
          BY <1>a
        <4> QED
          BY <1>b, <4>1
      <3> QED
        BY <2>1, <3>1
    <2> QED
      BY <2>1, <2>2
  <1>4. ~Fails(m - 1)
    <2>1. m - 1 \in 0 .. n /\ ~ (m <= m - 1)
      BY <1>3
    <2> HIDE DEF Fails
    <2> QED
      BY <1>2, <2>1
  <1>5. m \in rows
    <2>1. SUFFICES ASSUME m \notin rows PROVE FALSE
      OBVIOUS
    <2>2. upto(m - 1) = upto(m)
      <3>1. \A k \in rows : k <= m - 1 <=> k <= m
        BY <2>1, <1>3, <1>a
      <3>2. \A k : k \in upto(m - 1) <=> k \in upto(m)
        BY <1>b, <3>1
      <3> QED
        BY <3>2
    <2> QED
      BY <1>3, <1>4, <2>2
  <1>6. upto(m) = upto(m - 1) \cup {m} /\ \A k \in upto(m - 1) : k \in 1 .. n /\ k < m
    <2>1. \A k \in rows : k <= m <=> k <= m - 1 \/ k = m
      BY <1>3, <1>a
    <2>2. \A k : k \in upto(m) <=> k \in upto(m - 1) \cup {m}
      BY <1>3, <1>5, <1>b, <2>1
    <2>3. \A k \in upto(m - 1) : k \in 1 .. n /\ k < m
      <3>1. \A k \in rows : k <= m - 1 => k \in 1 .. n /\ k < m
        BY <1>3, <1>a
      <3> QED
        BY <1>b, <3>1
    <2> QED
      BY <2>2, <2>3
  <1> HIDE DEF bad
  <1>7. CASE upto(m - 1) = {}
    BY <1>3, <1>5, <1>6, <1>7 DEF Leads
  <1>8. CASE upto(m - 1) # {}
    <2>1. PICK k \in upto(m - 1) : Leads(upto(m - 1), R, k)
      BY <1>4, <1>8
    <2>2. k \in rows /\ k # m /\ upto(m - 1) \subseteq rows
      BY <1>b, <1>3, <1>6, <2>1
    <2>3. CASE <<k, m>> \in R
      <3>1. Leads(upto(m), R, k)
        BY <1>6, <2>1, <2>2, <2>3 DEF Leads
      <3> QED
        BY <1>3, <1>6, <2>1, <3>1
    <2>4. CASE <<m, k>> \in R
      <3>1. \A j \in upto(m - 1) : <<m, j>> \in R
        BY <1>5, <2>1, <2>2, <2>4 DEF Leads, Ranks
      <3>2. Leads(upto(m), R, m)
        BY <1>6, <3>1 DEF Leads
      <3> QED
        BY <1>3, <1>6, <3>2
    <2> QED
      BY <1>5, <2>2, <2>3, <2>4 DEF Ranks
  <1> QED
    BY <1>7, <1>8

-----------------------------------------------------------------------------
(* The upload queue.  The invariant behind it: what a process remembers is *)
(* still true of the files (WritersHold, SyncsHold), because a step of     *)
(* another process never takes a key out of the queue that is not stored.  *)

Inv == TypeOK /\ ReceiptsAreEarned /\ WritersHold /\ SyncsHold

\* What a process may rely on after a step of another one: a queued key is queued
\* or stored, and what is stored or archived stays so.
Lasts ==
    /\ queued \subseteq queued' \union stored'
    /\ stored \subseteq stored'
    /\ archived \subseteq archived'

-----------------------------------------------------------------------------
\* The local state of a process that does not move stays true, unless its open
\* manifest has been moved.
LEMMA FaultIsTyped ==
    ASSUME TypeOK, NEW kind, Fault(kind)
    PROVE  faults' \in 0..MaxFaults
  <1>1. faults \in Nat /\ MaxFaults \in Nat /\ faults < MaxFaults
    BY BlobSyncAssumption DEF TypeOK, Fault
  <1> QED
    BY <1>1 DEF Fault

\* What SyncsHold says of one process.
SyncHolds(s) ==
    LET k == sync[s].key IN
    /\ sync[s].pc \in {"validate", "read", "put", "rename", "receipt"} =>
          k \in Keys /\ k \in queued \union stored
    /\ sync[s].pc = "put" => sync[s].payload # "none"
    /\ sync[s].pc \in {"rename", "receipt"} => k \in stored
    /\ sync[s].pc = "receipt" => k \in archived

WriterHolds(w) ==
    LET k == writer[w].key IN
    /\ writer[w].pc # "idle" => k \in Keys
    /\ writer[w].pc = "queueing" /\ writer[w].inode = "queue" => k \in queued
    /\ writer[w].pc = "queueing" /\ writer[w].inode = "uploaded" => k \in archived

LEMMA HoldsIsHolding ==
    /\ SyncsHold <=> \A s \in Syncs : SyncHolds(s)
    /\ WritersHold <=> \A w \in Writers : WriterHolds(w)
  BY DEF SyncsHold, SyncHolds, WritersHold, WriterHolds

LEMMA SyncRests ==
    ASSUME NEW s \in Syncs, SyncHolds(s), sync'[s] = sync[s], Lasts
    PROVE  SyncHolds(s)'
  BY DEF SyncHolds, Lasts

LEMMA IdleSyncHolds ==
    ASSUME NEW s \in Syncs, sync'[s].pc \in {"idle", "next"}
    PROVE  SyncHolds(s)'
  BY DEF SyncHolds

LEMMA IdleWriterHolds ==
    ASSUME NEW w \in Writers, writer'[w] = IdleWriter
    PROVE  WriterHolds(w)'
  BY DEF WriterHolds, IdleWriter

\* A worker's step that leaves the syncs where they are.
LEMMA SyncsRest ==
    ASSUME SyncsHold, sync' = sync, Lasts
    PROVE  SyncsHold'
  <1>1. ASSUME NEW s \in Syncs PROVE SyncHolds(s)'
    <2>1. SyncHolds(s) /\ sync'[s] = sync[s]
      BY HoldsIsHolding
    <2> QED
      BY <2>1, SyncRests
  <1> QED
    BY <1>1 DEF SyncsHold, SyncHolds

\* A step of one sync; the others rest.
LEMMA SyncsHoldAfter ==
    ASSUME SyncsHold, NEW s \in Syncs, Lasts, SyncHolds(s)',
           \A t \in Syncs : t # s => sync'[t] = sync[t]
    PROVE  SyncsHold'
  <1>1. ASSUME NEW t \in Syncs PROVE SyncHolds(t)'
    <2>1. CASE t = s
      BY <2>1
    <2>2. CASE t # s
      <3>1. SyncHolds(t) /\ sync'[t] = sync[t]
        BY <2>2, HoldsIsHolding
      <3> QED
        BY <3>1, SyncRests
    <2> QED
      BY <2>1, <2>2
  <1> QED
    BY <1>1 DEF SyncsHold, SyncHolds

\* The workers' manifests are not moved.
LEMMA WritersHoldAfter ==
    ASSUME WritersHold, queued \subseteq queued', archived \subseteq archived',
           NEW w \in Writers, WriterHolds(w)',
           \A v \in Writers : v # w => writer'[v] = writer[v]
    PROVE  WritersHold'
  BY DEF WritersHold, WriterHolds

LEMMA WritersRest ==
    ASSUME WritersHold, writer' = writer, queued \subseteq queued', archived \subseteq archived'
    PROVE  WritersHold'
  BY DEF WritersHold

-----------------------------------------------------------------------------
\* What every step is shown to satisfy, action by action.
Sound == Inv' /\ [Q!Next]_(Q!vars)

\* A step of a worker w, or of nobody, that leaves queue, store and archive alone.
LEMMA QuietWritesAreSound ==
    ASSUME Inv, NEW w \in Writers,
           (\E k \in Keys : OpenFile(w, k)) \/ WriteFile(w) \/ WriterDies(w)
    PROVE  Sound
  <1>1. UNCHANGED <<manifest, archive, receipts, blob, sync>>
    BY DEF OpenFile, WriteFile, WriterDies, files
  <1>2. UNCHANGED <<queued, stored, archived, receipts>> /\ Lasts
    BY <1>1 DEF queued, stored, archived, Lasts
  <1>3. writer[w] \in WriterType /\ (writer[w].pc # "idle" => writer[w].key \in Keys)
    BY DEF Inv, TypeOK, WritersHold
  <1>4. \A v \in Writers : v # w => writer'[v] = writer[v]
    BY DEF OpenFile, WriteFile, WriterDies, Inv, TypeOK
  <1>5. TypeOK' /\ WriterHolds(w)'
    <2>1. ASSUME NEW k \in Keys, OpenFile(w, k)
          PROVE  TypeOK' /\ WriterHolds(w)'
      <3>1. writer'[w] = [pc |-> "writing", key |-> k, inode |-> "unlinked"]
        BY <2>1 DEF OpenFile, Inv, TypeOK
      <3>2. WriterHolds(w)'
        BY <3>1 DEF WriterHolds
      <3>3. file' \in [Keys -> Contents] /\ writer' \in [Writers -> WriterType]
        BY <2>1 DEF OpenFile, Inv, TypeOK, Contents, WriterType, Inodes
      <3>4. writes' \in 0..MaxWrites /\ faults' = faults
        BY <2>1, BlobSyncAssumption DEF OpenFile, Inv, TypeOK
      <3> QED
        BY <1>1, <3>2, <3>3, <3>4 DEF Inv, TypeOK
    <2>2. CASE WriteFile(w)
      <3>1. writer'[w] = [writer[w] EXCEPT !.pc = "written"]
        BY <2>2 DEF WriteFile, Inv, TypeOK
      <3>2. writer'[w].pc = "written" /\ writer'[w].key = writer[w].key
        BY <1>3, <3>1 DEF WriterType
      <3>3. WriterHolds(w)'
        BY <1>3, <2>2, <3>2 DEF WriterHolds, WriteFile
      <3>4. file' \in [Keys -> Contents] /\ writer' \in [Writers -> WriterType]
        BY <2>2 DEF WriteFile, Inv, TypeOK, Contents, WriterType, Inodes
      <3> QED
        BY <1>1, <2>2, <3>3, <3>4 DEF WriteFile, Inv, TypeOK
    <2>3. CASE WriterDies(w)
      <3>1. writer'[w] = IdleWriter /\ faults' \in 0..MaxFaults
        BY <2>3, FaultIsTyped DEF WriterDies, Inv, TypeOK
      <3>2. writer' \in [Writers -> WriterType]
        BY <2>3 DEF WriterDies, Inv, TypeOK, WriterType, Inodes, IdleWriter
      <3>3. TypeOK'
        BY <2>3, <3>1, <3>2 DEF WriterDies, files, Inv, TypeOK
      <3> QED
        BY <3>1, <3>3, IdleWriterHolds
    <2> QED
      BY <2>1, <2>2, <2>3
  <1>6. WritersHold' /\ SyncsHold'
    BY <1>1, <1>2, <1>4, <1>5, WritersHoldAfter, SyncsRest DEF Inv
  <1> QED
    BY <1>1, <1>2, <1>5, <1>6 DEF Sound, Inv, ReceiptsAreEarned, Q!vars

LEMMA DeleteFileIsSound ==
    ASSUME Inv, NEW k \in Keys, DeleteFile(k)
    PROVE  Sound
  <1>1. UNCHANGED <<manifest, archive, receipts, blob, writer, sync, writes>>
    BY DEF DeleteFile
  <1>2. UNCHANGED <<queued, stored, archived, receipts>> /\ Lasts
    BY <1>1 DEF queued, stored, archived, Lasts
  <1>3. faults' \in 0..MaxFaults /\ file' \in [Keys -> Contents]
    BY FaultIsTyped DEF DeleteFile, Inv, TypeOK, Contents
  <1>4. TypeOK'
    BY <1>1, <1>3 DEF Inv, TypeOK
  <1>5. WritersHold' /\ SyncsHold'
    BY <1>1, <1>2, WritersRest, SyncsRest DEF Inv
  <1> QED
    BY <1>1, <1>2, <1>4, <1>5 DEF Sound, Inv, ReceiptsAreEarned, Q!vars

\* Opening the manifest puts the key into the queue.
LEMMA OpenManifestIsSound ==
    ASSUME Inv, NEW w \in Writers, OpenManifest(w)
    PROVE  Sound
  <1> DEFINE k == writer[w].key
  <1>1. k \in Keys
    BY DEF OpenManifest, Inv, WritersHold
  <1>2. /\ UNCHANGED <<file, archive, receipts, blob, sync, faults, writes>>
        /\ manifest' = [manifest EXCEPT ![k] = "partial"]
        /\ writer' = [writer EXCEPT ![w] = [writer[w] EXCEPT !.pc = "queueing", !.inode = "queue"]]
    BY DEF OpenManifest
  <1>3. queued' = queued \union {k} /\ UNCHANGED <<stored, archived, receipts>>
    BY <1>1, <1>2 DEF queued, stored, archived, Inv, TypeOK
  <1>4. Lasts
    BY <1>3 DEF Lasts
  <1>5. writer'[w].pc = "queueing" /\ writer'[w].key = k /\ writer'[w].inode = "queue"
    BY <1>2 DEF Inv, TypeOK, WriterType
  <1>6. WriterHolds(w)'
    BY <1>1, <1>3, <1>5 DEF WriterHolds
  <1>7. TypeOK'
    <2>1. manifest' \in [Keys -> Contents] /\ writer' \in [Writers -> WriterType]
      BY <1>2 DEF Inv, TypeOK, Contents, WriterType, Inodes
    <2> QED
      BY <1>2, <2>1 DEF Inv, TypeOK
  <1>8. WritersHold' /\ SyncsHold'
    <2>1. \A v \in Writers : v # w => writer'[v] = writer[v]
      BY <1>2 DEF Inv, TypeOK
    <2>2. queued \subseteq queued' /\ archived \subseteq archived'
      BY <1>3
    <2> QED
      BY <1>2, <1>4, <1>6, <2>1, <2>2, WritersHoldAfter, SyncsRest DEF Inv
  <1>9. Q!Enqueue(k)
    BY <1>3 DEF Q!Enqueue
  <1> QED
    BY <1>1, <1>3, <1>7, <1>8, <1>9 DEF Sound, Inv, ReceiptsAreEarned, Q!Next

\* The bytes of a manifest are written where it is now, in the queue or archived.
LEMMA WriteManifestIsSound ==
    ASSUME Inv, NEW w \in Writers, WriteManifest(w)
    PROVE  Sound
  <1> DEFINE k == writer[w].key
  <1>1. /\ k \in Keys
        /\ writer[w].inode = "queue" => k \in queued
        /\ writer[w].inode = "uploaded" => k \in archived
    BY DEF WriteManifest, Inv, WritersHold
  <1>2. /\ UNCHANGED <<file, receipts, blob, sync, faults, writes>>
        /\ manifest' = IF writer[w].inode = "queue"
                        THEN [manifest EXCEPT ![k] = "complete"] ELSE manifest
        /\ archive' = IF writer[w].inode = "uploaded"
                       THEN [archive EXCEPT ![k] = "complete"] ELSE archive
        /\ writer' = [writer EXCEPT ![w] = IdleWriter]
    BY DEF WriteManifest
  <1>3. UNCHANGED <<queued, stored, archived, receipts>>
    BY <1>1, <1>2 DEF queued, stored, archived, Inv, TypeOK
  <1>4. Lasts
    BY <1>3 DEF Lasts
  <1>5. writer'[w] = IdleWriter /\ \A v \in Writers : v # w => writer'[v] = writer[v]
    BY <1>2 DEF Inv, TypeOK
  <1>6. TypeOK'
    <2>1. manifest' \in [Keys -> Contents] /\ archive' \in [Keys -> Contents]
      BY <1>2 DEF Inv, TypeOK, Contents
    <2>2. writer' \in [Writers -> WriterType]
      BY <1>2 DEF Inv, TypeOK, WriterType, Inodes, IdleWriter
    <2> QED
      BY <1>2, <2>1, <2>2 DEF Inv, TypeOK
  <1>7. WritersHold' /\ SyncsHold'
    BY <1>2, <1>3, <1>4, <1>5, IdleWriterHolds, WritersHoldAfter, SyncsRest DEF Inv
  <1> QED
    BY <1>3, <1>6, <1>7 DEF Sound, Inv, ReceiptsAreEarned, Q!vars

-----------------------------------------------------------------------------
\* blob-sync, up to the upload: it only reads.
Reads(s) ==
    \/ StartSync(s)
    \/ \E k \in Keys : ReadManifest(s, k) \/ FailOnManifest(s, k)
    \/ FindFile(s) \/ MissFile(s) \/ ReadFile(s) \/ FailOnFile(s)
    \/ FailToArchive(s) \/ FinishSync(s) \/ SyncDies(s)

\* The next local state of a sync that has read a manifest, a directory or a file.
LEMMA ReadingIsTyped ==
    ASSUME Inv, NEW s \in Syncs, Reads(s)
    PROVE  /\ sync' \in [Syncs -> SyncType]
           /\ \A t \in Syncs : t # s => sync'[t] = sync[t]
           /\ SyncHolds(s)'
  <1>1. sync[s] \in SyncType /\ sync \in [Syncs -> SyncType]
    BY DEF Inv, TypeOK
  <1>2. IdleSync \in SyncType
    BY DEF IdleSync, SyncType, Contents
  <1> DEFINE next == [pc |-> "next", key |-> NoKey, payload |-> "none",
                      todo |-> sync[s].todo \ {sync[s].key}]
             start == [pc |-> "next", key |-> NoKey, payload |-> "none",
                       todo |-> {k \in Keys : manifest[k] # "none"}]
  <1>3. next \in SyncType /\ start \in SyncType
    BY <1>1 DEF SyncType, Contents
  <1>4. CASE StartSync(s)
    <2>1. sync' = [sync EXCEPT ![s] = start]
      BY <1>4 DEF StartSync
    <2>2. sync'[s].pc = "next"
      BY <1>1, <2>1
    <2> QED
      BY <1>1, <1>3, <2>1, <2>2, IdleSyncHolds
  <1>5. CASE MissFile(s)
    <2>1. sync' = [sync EXCEPT ![s] = next]
      BY <1>5 DEF MissFile, NextKey
    <2>2. sync'[s].pc = "next"
      BY <1>1, <2>1
    <2> QED
      BY <1>1, <1>3, <2>1, <2>2, IdleSyncHolds
  <1>6. CASE Abort(s)
    <2>1. sync'[s].pc = "idle"
      BY <1>1, <1>6 DEF Abort, IdleSync
    <2> QED
      BY <1>1, <1>2, <1>6, <2>1, IdleSyncHolds DEF Abort
  <1>7. ASSUME NEW k \in Keys, ReadManifest(s, k)
        PROVE  /\ sync' \in [Syncs -> SyncType] /\ SyncHolds(s)'
               /\ \A t \in Syncs : t # s => sync'[t] = sync[t]
    <2>1. /\ sync' = [sync EXCEPT ![s] = [sync[s] EXCEPT !.pc = "validate", !.key = k]]
          /\ manifest[k] # "none" /\ manifest' = manifest
      BY <1>7 DEF ReadManifest, files
    <2>2. sync'[s].pc = "validate" /\ sync'[s].key = k
      BY <1>1, <2>1 DEF SyncType
    <2>3. SyncHolds(s)'
      BY <2>1, <2>2 DEF SyncHolds, queued
    <2> QED
      BY <1>1, <2>1, <2>3 DEF SyncType
  <1>8. CASE FindFile(s) \/ ReadFile(s)
    <2>1. /\ sync[s].key \in Keys /\ sync[s].key \in queued \union stored
          /\ manifest' = manifest /\ blob' = blob
      BY <1>8 DEF FindFile, ReadFile, files, Inv, SyncsHold
    <2>2. CASE FindFile(s)
      <3>1. sync' = [sync EXCEPT ![s] = [sync[s] EXCEPT !.pc = "read"]]
        BY <2>2 DEF FindFile
      <3>2. sync'[s].pc = "read" /\ sync'[s].key = sync[s].key
        BY <1>1, <3>1 DEF SyncType
      <3>3. SyncHolds(s)'
        BY <2>1, <3>2 DEF SyncHolds, queued, stored
      <3> QED
        BY <1>1, <3>1, <3>3 DEF SyncType
    <2>3. CASE ReadFile(s)
      <3>1. /\ sync' = [sync EXCEPT ![s] = [sync[s] EXCEPT !.pc = "put",
                                                          !.payload = file[sync[s].key]]]
            /\ file[sync[s].key] # "none" /\ file[sync[s].key] \in Contents
        BY <2>1, <2>3 DEF ReadFile, Inv, TypeOK
      <3>2. /\ sync'[s].pc = "put" /\ sync'[s].key = sync[s].key
            /\ sync'[s].payload # "none"
        BY <1>1, <3>1 DEF SyncType
      <3>3. SyncHolds(s)'
        BY <2>1, <3>2 DEF SyncHolds, queued, stored
      <3> QED
        BY <1>1, <3>1, <3>3 DEF SyncType
    <2> QED
      BY <1>8, <2>2, <2>3
  <1> QED
    BY <1>4, <1>5, <1>6, <1>7, <1>8
       DEF Reads, FailOnManifest, FailOnFile, FailToArchive, FinishSync, SyncDies

LEMMA ReadsAreSound ==
    ASSUME Inv, NEW s \in Syncs, Reads(s)
    PROVE  Sound
  <1>1. UNCHANGED <<files, writer, writes>>
    BY DEF Reads, StartSync, ReadManifest, FailOnManifest, FindFile, MissFile, ReadFile,
           FailOnFile, FailToArchive, FinishSync, SyncDies
  <1>2. UNCHANGED <<queued, stored, archived, receipts>> /\ Lasts
    BY <1>1 DEF files, queued, stored, archived, Lasts
  <1>3. faults' \in 0..MaxFaults
    <2>1. faults' = faults \/ Fault("sync")
      BY DEF Reads, StartSync, ReadManifest, FailOnManifest, FindFile, MissFile, ReadFile,
             FailOnFile, FailToArchive, FinishSync, SyncDies
    <2> QED
      BY <2>1, FaultIsTyped DEF Inv, TypeOK
  <1>4. TypeOK'
    BY <1>1, <1>3, ReadingIsTyped DEF files, Inv, TypeOK
  <1>5. SyncsHold'
    BY <1>2, ReadingIsTyped, SyncsHoldAfter DEF Inv
  <1>6. WritersHold'
    BY <1>1, <1>2, WritersRest DEF Inv
  <1> QED
    BY <1>1, <1>2, <1>4, <1>5, <1>6 DEF Sound, Inv, ReceiptsAreEarned, Q!vars

\* The upload: the key is queued, or another pass has stored it before.
LEMMA PutsAreSound ==
    ASSUME Inv, NEW s \in Syncs, Put(s) \/ FailToPut(s)
    PROVE  Sound
  <1> DEFINE k == sync[s].key
  <1>1. /\ k \in Keys /\ k \in queued \union stored
        /\ sync[s].payload # "none" /\ sync[s].payload \in Contents
        /\ sync[s] \in SyncType
    BY DEF Put, FailToPut, Inv, SyncsHold, TypeOK, SyncType
  <1>2. UNCHANGED <<file, manifest, archive, receipts, writer, writes>>
    BY DEF Put, FailToPut
  <1>3. blob' = blob \/ blob' = [blob EXCEPT ![k] = sync[s].payload]
    BY DEF Put, FailToPut
  <1>4. UNCHANGED <<queued, archived, receipts>>
    BY <1>2 DEF queued, archived
  <1>5. \/ stored' = stored
        \/ stored' = stored \union {k}
    BY <1>1, <1>3 DEF stored, Inv, TypeOK
  <1>6. Lasts
    BY <1>4, <1>5 DEF Lasts
  <1>7. [Q!Next]_(Q!vars)
    <2>1. CASE stored' = stored
      BY <1>4, <2>1 DEF Q!vars
    <2>2. CASE stored' # stored
      <3>1. k \in queued /\ stored' = stored \union {k}
        BY <1>1, <1>5, <2>2
      <3>2. Q!Store(k)
        BY <1>4, <3>1 DEF Q!Store
      <3> QED
        BY <1>1, <3>2 DEF Q!Next
    <2> QED
      BY <2>1, <2>2
  <1>8. /\ sync' \in [Syncs -> SyncType]
        /\ \A t \in Syncs : t # s => sync'[t] = sync[t]
        /\ faults' \in 0..MaxFaults
        /\ SyncHolds(s)'
    <2>1. CASE Put(s)
      <3>1. sync' = [sync EXCEPT ![s] = [sync[s] EXCEPT !.pc = "rename"]]
        BY <2>1 DEF Put
      <3>2. sync'[s].pc = "rename" /\ sync'[s].key = k
        BY <1>1, <3>1 DEF Inv, TypeOK, SyncType
      <3>3. k \in stored'
        BY <1>1, <2>1 DEF Put, stored, Inv, TypeOK
      <3>4. SyncHolds(s)'
        BY <1>1, <3>2, <3>3 DEF SyncHolds
      <3> QED
        BY <1>1, <2>1, <3>1, <3>4 DEF Put, Inv, TypeOK, SyncType
    <2>2. CASE FailToPut(s)
      <3>1. sync' = [sync EXCEPT ![s] = IdleSync] /\ IdleSync \in SyncType
        BY <2>2 DEF FailToPut, Abort, IdleSync, SyncType, Contents
      <3>2. sync'[s].pc = "idle"
        BY <3>1 DEF IdleSync, Inv, TypeOK
      <3>3. faults' \in 0..MaxFaults
        BY <2>2, FaultIsTyped DEF FailToPut, Inv
      <3> QED
        BY <3>1, <3>2, <3>3, IdleSyncHolds DEF Inv, TypeOK
    <2> QED
      BY <2>1, <2>2
  <1>9. TypeOK'
    <2>1. blob' \in [Keys -> Contents]
      BY <1>1, <1>3 DEF Inv, TypeOK
    <2> QED
      BY <1>2, <1>8, <2>1 DEF Inv, TypeOK
  <1>10. WritersHold' /\ SyncsHold'
    BY <1>2, <1>4, <1>6, <1>8, SyncsHoldAfter, WritersRest DEF Inv
  <1>11. ReceiptsAreEarned'
    BY <1>4, <1>5 DEF Inv, ReceiptsAreEarned
  <1> QED
    BY <1>7, <1>9, <1>10, <1>11 DEF Sound, Inv

\* The rename: a stored key leaves the queue, and an open manifest moves with it.
LEMMA ArchiveIsSound ==
    ASSUME Inv, NEW s \in Syncs, Archive(s)
    PROVE  Sound
  <1> DEFINE k == sync[s].key
  <1>1. k \in Keys /\ k \in stored /\ sync[s] \in SyncType
    BY DEF Archive, Inv, SyncsHold, TypeOK
  <1>2. /\ UNCHANGED <<file, receipts, blob, faults, writes>>
        /\ manifest[k] # "none"
        /\ manifest' = [manifest EXCEPT ![k] = "none"]
        /\ archive' = [archive EXCEPT ![k] = manifest[k]]
        /\ sync' = [sync EXCEPT ![s] = [sync[s] EXCEPT !.pc = "receipt"]]
    BY DEF Archive
  <1>3. ASSUME NEW w \in Writers
        PROVE  writer'[w] = IF writer[w].key # k THEN writer[w]
                            ELSE [writer[w] EXCEPT !.inode =
                                     IF writer[w].inode = "queue" THEN "uploaded" ELSE "unlinked"]
    BY DEF Archive
  <1>4. /\ queued' = queued \ {k} /\ archived' = archived \union {k}
        /\ k \in queued /\ UNCHANGED stored
    BY <1>1, <1>2 DEF queued, stored, archived, Inv, TypeOK
  <1>5. Lasts
    BY <1>1, <1>4 DEF Lasts
  <1>6. Q!Archive(k)
    BY <1>1, <1>4 DEF Q!Archive
  <1>7. sync'[s].pc = "receipt" /\ sync'[s].key = k
    BY <1>1, <1>2 DEF Inv, TypeOK, SyncType
  <1>8. SyncHolds(s)'
    BY <1>1, <1>4, <1>7 DEF SyncHolds
  <1>9. SyncsHold'
    <2>1. \A t \in Syncs : t # s => sync'[t] = sync[t]
      BY <1>2 DEF Inv, TypeOK
    <2> QED
      BY <1>5, <1>8, <2>1, SyncsHoldAfter DEF Inv
  <1>10. WritersHold'
    <2>1. ASSUME NEW w \in Writers PROVE WriterHolds(w)'
      <3>1. WriterHolds(w) /\ writer[w] \in WriterType
        BY HoldsIsHolding DEF Inv, TypeOK
      <3>2. CASE writer[w].key # k
        <4>1. writer'[w] = writer[w]
          BY <1>3, <3>2
        <4> QED
          BY <1>4, <3>1, <3>2, <4>1 DEF WriterHolds
      <3>3. CASE writer[w].key = k
        <4>1. /\ writer'[w].pc = writer[w].pc /\ writer'[w].key = k
              /\ writer'[w].inode # "queue"
          BY <1>3, <3>1, <3>3 DEF WriterType
        <4> QED
          BY <1>1, <1>4, <4>1 DEF WriterHolds
      <3> QED
        BY <3>2, <3>3
    <2> QED
      BY <2>1 DEF WritersHold, WriterHolds
  <1>11. TypeOK'
    <2>1. manifest' \in [Keys -> Contents] /\ archive' \in [Keys -> Contents]
      BY <1>1, <1>2 DEF Inv, TypeOK, Contents
    <2>2. sync' \in [Syncs -> SyncType]
      BY <1>1, <1>2 DEF Inv, TypeOK, SyncType
    <2>3. ASSUME NEW w \in Writers PROVE writer'[w] \in WriterType
      <3>1. writer[w] \in WriterType
        BY DEF Inv, TypeOK
      <3>2. ASSUME NEW i \in Inodes PROVE [writer[w] EXCEPT !.inode = i] \in WriterType
        BY <3>1 DEF WriterType
      <3>3. "uploaded" \in Inodes /\ "unlinked" \in Inodes
        BY DEF Inodes
      <3> QED
        BY <1>3, <3>1, <3>2, <3>3
    <2>4. writer' \in [Writers -> WriterType]
      BY <2>3 DEF Archive
    <2> QED
      BY <1>2, <2>1, <2>2, <2>4 DEF Inv, TypeOK
  <1>12. ReceiptsAreEarned'
    BY <1>1, <1>2, <1>4 DEF Inv, ReceiptsAreEarned
  <1> QED
    BY <1>1, <1>6, <1>9, <1>10, <1>11, <1>12 DEF Sound, Inv, Q!Next

LEMMA WriteReceiptIsSound ==
    ASSUME Inv, NEW s \in Syncs, WriteReceipt(s)
    PROVE  Sound
  <1>1. sync[s].key \in Keys /\ sync[s].key \in archived /\ sync[s] \in SyncType
    BY DEF WriteReceipt, Inv, SyncsHold, TypeOK
  <1>2. /\ UNCHANGED <<file, manifest, archive, blob, writer, faults, writes>>
        /\ receipts' = receipts \union {sync[s].key}
    BY DEF WriteReceipt
  <1>3. UNCHANGED <<queued, stored, archived>> /\ Lasts
    BY <1>2 DEF queued, stored, archived, Lasts
  <1> DEFINE next == [pc |-> "next", key |-> NoKey, payload |-> "none",
                      todo |-> sync[s].todo \ {sync[s].key}]
  <1>4. sync' = [sync EXCEPT ![s] = next] /\ next \in SyncType
    BY <1>1 DEF WriteReceipt, NextKey, SyncType, Contents
  <1>5. sync'[s].pc = "next" /\ \A t \in Syncs : t # s => sync'[t] = sync[t]
    BY <1>4 DEF Inv, TypeOK
  <1>6. SyncsHold' /\ WritersHold'
    BY <1>2, <1>3, <1>5, IdleSyncHolds, SyncsHoldAfter, WritersRest DEF Inv
  <1>7. TypeOK'
    BY <1>1, <1>2, <1>4 DEF Inv, TypeOK
  <1>8. ReceiptsAreEarned'
    BY <1>1, <1>2, <1>3 DEF Inv, ReceiptsAreEarned
  <1> QED
    BY <1>3, <1>6, <1>7, <1>8 DEF Sound, Inv, Q!vars

-----------------------------------------------------------------------------
LEMMA InitIsSound == Init => Inv /\ Q!Init
  <1>1. SUFFICES ASSUME Init PROVE Inv /\ Q!Init
    OBVIOUS
  <1>2. queued = {} /\ stored = {} /\ archived = {}
    BY <1>1 DEF Init, queued, stored, archived
  <1>3. IdleWriter \in WriterType /\ IdleSync \in SyncType
    BY DEF IdleWriter, IdleSync, WriterType, SyncType, Inodes, Contents
  <1>4. TypeOK
    BY <1>1, <1>3, BlobSyncAssumption DEF Init, TypeOK, Contents
  <1>5. WritersHold /\ SyncsHold
    BY <1>1 DEF Init, IdleWriter, IdleSync, WritersHold, SyncsHold
  <1>6. ReceiptsAreEarned /\ Q!Init
    BY <1>1, <1>2 DEF Init, ReceiptsAreEarned, Q!Init
  <1> QED
    BY <1>4, <1>5, <1>6 DEF Inv

LEMMA NextIsSound == Inv /\ [Next]_vars => Sound
  <1>1. SUFFICES ASSUME Inv, [Next]_vars PROVE Sound
    OBVIOUS
  <1>2. ASSUME NEW w \in Writers,
               (\E k \in Keys : OpenFile(w, k)) \/ Write(w) \/ WriterDies(w)
        PROVE  Sound
    BY <1>1, <1>2, QuietWritesAreSound, OpenManifestIsSound, WriteManifestIsSound DEF Write
  <1>3. ASSUME NEW s \in Syncs, StartSync(s) \/ Pass(s) \/ FailToPut(s) \/ SyncDies(s)
        PROVE  Sound
    <2>1. Reads(s) \/ Put(s) \/ FailToPut(s) \/ Archive(s) \/ WriteReceipt(s)
      BY <1>3 DEF Pass, Reads
    <2> QED
      BY <1>1, <2>1, ReadsAreSound, PutsAreSound, ArchiveIsSound, WriteReceiptIsSound
  <1>4. ASSUME NEW k \in Keys, DeleteFile(k)
        PROVE  Sound
    BY <1>1, <1>4, DeleteFileIsSound
  <1>5. CASE UNCHANGED vars
    <2>1. UNCHANGED <<file, manifest, archive, receipts, blob, writer, sync, faults, writes>>
      BY <1>5 DEF vars, files
    <2>2. UNCHANGED <<queued, stored, archived, receipts>> /\ Lasts
      BY <2>1 DEF queued, stored, archived, Lasts
    <2>3. TypeOK' /\ WritersHold' /\ SyncsHold'
      BY <1>1, <2>1, <2>2, WritersRest, SyncsRest DEF Inv, TypeOK
    <2> QED
      BY <1>1, <2>2, <2>3 DEF Sound, Inv, ReceiptsAreEarned, Q!vars
  <1> QED
    BY <1>1, <1>2, <1>3, <1>4, <1>5 DEF Next

THEOREM Invariance == Spec => []Inv
  <1>1. Init => Inv
    BY InitIsSound
  <1>2. Inv /\ [Next]_vars => Inv'
    BY NextIsSound DEF Sound
  <1> QED
    BY <1>1, <1>2, PTL DEF Spec

\* Type correctness.
THEOREM TypeCorrect == Spec => []TypeOK
  <1>1. Inv => TypeOK
    BY DEF Inv
  <1> QED
    BY <1>1, Invariance, PTL

\* A receipt is written only for a payload that is archived, and archived only
\* once it is in the store.
THEOREM ReceiptsAreAlwaysEarned == Spec => []ReceiptsAreEarned
  <1>1. Inv => ReceiptsAreEarned
    BY DEF Inv
  <1> QED
    BY <1>1, Invariance, PTL

\* The file operations of the workers and of blob-sync implement UploadQueue: a
\* queued payload leaves the queue only once it is stored.
THEOREM ImplementsUploadQueue == Spec => KeepsQueuePromise
  <1>1. Init => Q!Init
    BY InitIsSound
  <1>2. Inv /\ [Next]_vars => [Q!Next]_(Q!vars)
    BY NextIsSound DEF Sound
  <1> QED
    BY <1>1, <1>2, Invariance, PTL DEF Spec, Q!Spec, KeepsQueuePromise

-----------------------------------------------------------------------------
(* The cache files that the build writes are those KrCache promises.       *)

\* Between the truncation of a file and its text the file is the one of the
\* ticker the build is at.
EvidenceInv ==
    /\ todo \in Seq(Ticker)
    /\ DOMAIN cache = Ticker
    /\ payload # Nothing => todo # << >> /\ cache[Head(todo)] = Cache!Torn

LEMMA EvidenceInitSound == EvidenceInit => EvidenceInv /\ Cache!CacheInit
  BY DEF EvidenceInit, EvidenceInv, Cache!CacheInit

LEMMA EvidenceStepSound ==
    ASSUME EvidenceInv, [EvidenceNext]_evidenceVars
    PROVE  EvidenceInv' /\ [Cache!CacheNext]_cache
  <1> USE DEF EvidenceInv
  <1>1. CASE /\ UNCHANGED <<cache, todo, payload>>
    BY <1>1
  <1>2. CASE StartBuild
    BY <1>2, KrEvidenceAssumption DEF StartBuild
  <1>3. CASE BuildStops
    BY <1>3 DEF BuildStops
  <1>4. CASE OpenCache
    <2>1. /\ todo # << >> /\ UNCHANGED todo
          /\ cache' = [cache EXCEPT ![Head(todo)] = Cache!Torn]
      BY <1>4 DEF OpenCache
    <2>2. Head(todo) \in Ticker
      BY <2>1
    <2>3. Cache!CacheOpen(Head(todo))
      BY <2>1 DEF Cache!CacheOpen
    <2> QED
      BY <2>1, <2>2, <2>3 DEF Cache!CacheNext
  <1>5. CASE FillCache
    <2>1. /\ payload # Nothing /\ payload' = Nothing /\ todo' = Tail(todo)
          /\ cache' = [cache EXCEPT ![Head(todo)] = Cache!Whole(payload)]
      BY <1>5 DEF FillCache
    <2>2. todo # << >> /\ Head(todo) \in Ticker /\ todo' \in Seq(Ticker)
      BY <2>1
    <2>3. Cache!CacheFill(Head(todo))
      BY <2>1, <2>2 DEF Cache!CacheFill, Cache!Whole
    <2> QED
      BY <2>1, <2>2, <2>3 DEF Cache!CacheNext
  <1>6. CASE BuilderCrash
    BY <1>6 DEF BuilderCrash
  <1> QED
    BY <1>1, <1>2, <1>3, <1>4, <1>5, <1>6
    DEF EvidenceNext, evidenceVars, OpenRaw, FillRaw, CollectorCrash

\* Whatever the files, wherever the build stops or is stopped: a reader of a cache
\* file finds none, a prefix, or the whole payload of one build.
THEOREM BuildImplementsCache == EvidenceSpec => CacheIsImplemented
  <1>1. EvidenceInv /\ [EvidenceNext]_evidenceVars => EvidenceInv'
    BY EvidenceStepSound
  <1>2. EvidenceInv /\ [EvidenceNext]_evidenceVars => [Cache!CacheNext]_cache
    BY EvidenceStepSound
  <1> QED
    BY <1>1, <1>2, EvidenceInitSound, PTL DEF EvidenceSpec, CacheIsImplemented, Cache!CacheSpec

-----------------------------------------------------------------------------
(* The report of inspect-raw-kr, the build and its next actions.           *)

LEMMA SomeYear == Years # {}
  <1>1. FirstYear \in Years
    BY KrEvidenceAssumption DEF Years
  <1> QED
    BY <1>1

\* The years the build and the report go by.
PriceYears(fs, t)     == {y \in Years : Price(fs, t, y) # {}}
StructureYears(fs, t) == {y \in Years : Structure(fs, t, y) # {}}
EpsYears(fs, t)       == {y \in Years : Eps(fs, t, y) # {}}

\* A market-wide file of the year is one or none, so that figures found in it
\* are figures of one row.
LEMMA OneMarcapRow ==
    ASSUME NEW fs, NEW t, NEW y, NEW f \in MarcapRow(fs, t, y), NEW g \in MarcapRow(fs, t, y)
    PROVE  f = g
  BY DEF MarcapRow, MarcapFile

\* The report counts a year the build counts: its files hold a row, the kept one
\* or another.
LEMMA YearsAgree ==
    ASSUME NEW fs, NEW t
    PROVE  LET years == EvidenceYears(fs, t)
           IN  /\ years.pykrx \cup years.marcap = PriceYears(fs, t)
               /\ years.structure \subseteq StructureYears(fs, t)
               /\ years.eps = EpsYears(fs, t)
  <1> DEFINE years == EvidenceYears(fs, t)
  <1>1. years.pykrx \cup years.marcap = PriceYears(fs, t)
    BY DEF EvidenceYears, PriceYears, Price
  <1>2. ASSUME NEW y \in years.structure PROVE y \in StructureYears(fs, t)
    <2>1. /\ y \in Years
          /\ \E f \in MarcapRow(fs, t, y) : "cap" \in Gives(f)
          /\ \E f \in MarcapRow(fs, t, y) : "shares" \in Gives(f)
      BY <1>2 DEF EvidenceYears
    <2>2. PICK f \in MarcapRow(fs, t, y) : "cap" \in Gives(f) /\ "shares" \in Gives(f)
      BY <2>1, OneMarcapRow
    <2> QED
      BY <2>1, <2>2 DEF StructureYears, Structure
  <1>3. years.eps = EpsYears(fs, t)
    <2>1. years.eps = {y \in Years : \E i \in Of(fs, "statement", t, y) : "eps" \in Gives(fs[i])}
      BY DEF EvidenceYears
    <2>2. ASSUME NEW y
          PROVE  Eps(fs, t, y) # {}
                 <=> \E i \in Of(fs, "statement", t, y) : "eps" \in Gives(fs[i])
      BY DEF Eps, OldestGiving
    <2> QED
      BY <2>1, <2>2 DEF EpsYears
  <1> QED
    BY <1>1, <1>2, <1>3

LEMMA PointYearsAre ==
    ASSUME NEW fs, NEW t
    PROVE  PointYears(fs, t) = PriceYears(fs, t) \cap EpsYears(fs, t)
  <1>1. Build(fs, t).points = Points(fs, t)
    BY DEF Build
  <1> DEFINE joined == {z \in Years : Price(fs, t, z) # {} /\ Eps(fs, t, z) # {}}
             Point(z) == [year |-> z, price |-> Price(fs, t, z), eps |-> Eps(fs, t, z),
                          dividend |-> Dividend(fs, t, z)]
  <1>2. Points(fs, t) = {Point(z) : z \in joined}
    BY DEF Points
  <1>3. \A z : Point(z).year = z
    OBVIOUS
  <1> HIDE DEF Point, joined
  <1>4. PointYears(fs, t) = joined
    BY <1>1, <1>2, <1>3 DEF PointYears
  <1> QED
    BY <1>4 DEF PriceYears, EpsYears, joined

\* What the gate of one ticker promises of its build.
GateHolds(fs, t) ==
    LET report == Inspect(fs, t)
    IN  /\ report.points \subseteq PointYears(fs, t)
        /\ report.ready => PointYears(fs, t) # {}
        /\ report.full => Build(fs, t).coverage = "complete"

LEMMA GateAgrees == ASSUME NEW fs, NEW t PROVE GateHolds(fs, t)
  <1> DEFINE years == EvidenceYears(fs, t)
             report == Inspect(fs, t)
             found == PriceYears(fs, t) \cap years.structure \cap EpsYears(fs, t)
  <1>1. /\ report.points = found
        /\ report.full <=> found = Years
        /\ report.ready => found = Years \/ found # {}
    BY YearsAgree DEF Inspect, AcceptablePartial
  <1>2. found \subseteq PointYears(fs, t)
    BY PointYearsAre
  <1>3. ASSUME found = Years PROVE Build(fs, t).coverage = "complete"
    <2>1. /\ PriceYears(fs, t) \cap StructureYears(fs, t) \cap EpsYears(fs, t) = Years
          /\ PriceYears(fs, t) \cap EpsYears(fs, t) # {}
      BY <1>3, YearsAgree, SomeYear DEF PriceYears
    <2> QED
      BY <2>1 DEF Build, PriceYears, StructureYears, EpsYears
  <1> QED
    BY <1>1, <1>2, <1>3, SomeYear DEF GateHolds

\* The years a payload lacks have an action that a person can take.
ActedOn(p) ==
    /\ p.coverage # "complete" => NextActions(p) # {"build_kr_valuation_inputs"}
    /\ "missing_raw" \in Statuses(p.financial) => "collect_opendart_kr" \in NextActions(p)
    /\ "missing_raw" \in Statuses(p.market) => "collect_kr_market_raw" \in NextActions(p)

LEMMA BuildIsActedOn == ASSUME NEW fs, NEW t PROVE ActedOn(Build(fs, t))
  <1> DEFINE p == Build(fs, t)
             price == PriceYears(fs, t)
             structure == StructureYears(fs, t)
             eps == EpsYears(fs, t)
  <1>1. /\ p.marketMissing = Years \ (price \cap structure)
        /\ p.metric = Graded(eps, Years)
        /\ p.market = MarketGaps(fs, t, price, structure)
        /\ p.financial = FinancialGaps(fs, t, eps)
        /\ p.coverage # "complete" => price \cap structure \cap eps # Years
    BY SomeYear DEF Build, PriceYears, StructureYears, EpsYears
  <1>2. eps \subseteq Years /\ (p.metric # "ok" <=> Years \ eps # {})
    BY <1>1, SomeYear DEF Graded, EpsYears
  <1>3. /\ \A status \in Statuses(p.financial) :
                status \in {"missing_raw", "source_no_data", "parser_metric_gap"}
        /\ Statuses(p.financial) # {} <=> Years \ eps # {}
    <2>1. \A y : FinancialGap(fs, t, y) \in {"missing_raw", "source_no_data", "parser_metric_gap"}
      BY DEF FinancialGap
    <2> DEFINE gap(y) == FinancialGap(fs, t, y)
               gaps == {[year |-> y, status |-> gap(y)] : y \in Years \ eps}
    <2>2. Statuses(p.financial) = {g.status : g \in gaps}
      BY <1>1 DEF Statuses, FinancialGaps
    <2>3. Statuses(p.financial) = {gap(y) : y \in Years \ eps}
      <3>1. \A y : [year |-> y, status |-> gap(y)].status = gap(y)
        OBVIOUS
      <3>2. {g.status : g \in gaps} = {gap(y) : y \in Years \ eps}
        <4> HIDE DEF gap, eps
        <4> QED
          BY <3>1
      <3> QED
        BY <2>2, <3>2
    <2> QED
      BY <2>1, <2>3
  <1>4. Statuses(p.market) # {} => p.marketMissing # {}
    BY <1>1 DEF Statuses, MarketGaps
  <1> HIDE DEF p
  <1>5. ASSUME "missing_raw" \in Statuses(p.financial)
        PROVE  "collect_opendart_kr" \in NextActions(p)
    BY <1>2, <1>3, <1>5 DEF NextActions
  <1>6. ASSUME "missing_raw" \in Statuses(p.market)
        PROVE  "collect_kr_market_raw" \in NextActions(p)
    BY <1>4, <1>6 DEF NextActions
  <1>7. ASSUME p.coverage # "complete"
        PROVE  NextActions(p) # {"build_kr_valuation_inputs"}
    <2>1. CASE p.marketMissing # {}
      BY <2>1 DEF NextActions
    <2>2. CASE p.marketMissing = {}
      <3>1. p.metric # "ok"
        BY <1>1, <1>2, <1>7, <2>2 DEF PriceYears, StructureYears
      <3>2. PICK status \in Statuses(p.financial) : TRUE
        BY <1>2, <1>3, <3>1
      <3> QED
        BY <1>3, <3>1, <3>2 DEF NextActions
    <2> QED
      BY <2>1, <2>2
  <1> QED
    BY <1>5, <1>6, <1>7 DEF ActedOn, p

\* A build writes what it has computed, so every cache file is such a payload.
PayloadsAreActedOn ==
    /\ payload # Nothing => ActedOn(payload)
    /\ \A t \in Ticker : cache[t].state = "whole" => ActedOn(cache[t].payload)

LEMMA ReportsInitSound == EvidenceInit => PayloadsAreActedOn
  BY DEF EvidenceInit, PayloadsAreActedOn, Cache!NoCache

LEMMA ReportsStepSound ==
    ASSUME EvidenceInv, PayloadsAreActedOn, [EvidenceNext]_evidenceVars
    PROVE  PayloadsAreActedOn'
  <1> USE DEF EvidenceInv, PayloadsAreActedOn
  <1>1. CASE UNCHANGED <<cache, payload>>
    <2>1. \A p : ActedOn(p) => ActedOn(p)'
      BY DEF ActedOn, NextActions, Statuses
    <2> QED
      BY <1>1, <2>1
  <1>2. CASE OpenCache
    <2>1. payload' = Build(raw, Head(todo)) /\ cache' = [cache EXCEPT ![Head(todo)] = Cache!Torn]
      BY <1>2 DEF OpenCache
    <2>2. ActedOn(payload')
      BY <2>1, BuildIsActedOn
    <2> QED
      BY <2>1, <2>2 DEF Cache!Torn
  <1>3. CASE FillCache
    BY <1>3 DEF FillCache, Cache!Whole
  <1>4. CASE BuilderCrash
    BY <1>4 DEF BuilderCrash
  <1> QED
    BY <1>1, <1>2, <1>3, <1>4
    DEF EvidenceNext, evidenceVars, OpenRaw, FillRaw, CollectorCrash, StartBuild, BuildStops

\* For any files, collected in any order and cut anywhere: what inspect-raw-kr
\* reports the build turns into points, and what the build reports has an action.
THEOREM TrueReports == EvidenceSpec => []ReportsAreTrue
  <1>1. EvidenceInv /\ PayloadsAreActedOn /\ [EvidenceNext]_evidenceVars
            => EvidenceInv' /\ PayloadsAreActedOn'
    BY EvidenceStepSound, ReportsStepSound
  <1>2. PayloadsAreActedOn => ReportsAreTrue
    BY GateAgrees DEF PayloadsAreActedOn, ActedOn, GateHolds, ReportsAreTrue,
                      ReadyEvidenceBuilds, EveryGapHasAnAction
  <1> QED
    BY <1>1, <1>2, EvidenceInitSound, ReportsInitSound, PTL DEF EvidenceSpec

-----------------------------------------------------------------------------
(* The points and the files.  What makes the newest, the oldest and the    *)
(* latest file of a year exist is that the files are finitely many; a      *)
(* least number that fails stands for the induction over them.             *)

\* The file of the latest day, and of those the first.
Best(rows, day, k) ==
    /\ k \in rows
    /\ \A j \in rows : day[j] < day[k] \/ (day[j] = day[k] /\ k <= j)

LEMMA BestExists ==
    ASSUME NEW n \in Nat, NEW rows \in SUBSET (1 .. n), rows # {}, NEW day \in [1 .. n -> Nat]
    PROVE  \E k \in rows : Best(rows, day, k)
  <1> DEFINE R == {p \in rows \X rows :
                     day[p[1]] > day[p[2]] \/ (day[p[1]] = day[p[2]] /\ p[1] < p[2])}
  <1>1. \A i \in rows : i \in Nat /\ day[i] \in Nat
    OBVIOUS
  <1>2. \A i, j \in rows :
            <<i, j>> \in R <=> day[i] > day[j] \/ (day[i] = day[j] /\ i < j)
    OBVIOUS
  <1> HIDE DEF R
  <1>3. Ranks(rows, R)
    <2>1. \A i, j \in rows : i # j => <<i, j>> \in R \/ <<j, i>> \in R
      BY <1>1, <1>2
    <2>2. \A i, j, k \in rows : <<i, j>> \in R /\ <<j, k>> \in R => <<i, k>> \in R
      BY <1>1, <1>2
    <2> QED
      BY <2>1, <2>2 DEF Ranks
  <1>4. PICK k \in rows : Leads(rows, R, k)
    BY <1>3, LeaderExists
  <1>5. \A j \in rows : day[j] < day[k] \/ (day[j] = day[k] /\ k <= j)
    <2>1. ASSUME NEW j \in rows, j # k
          PROVE  day[j] < day[k] \/ (day[j] = day[k] /\ k <= j)
      <3>1. day[k] > day[j] \/ (day[k] = day[j] /\ k < j)
        BY <1>2, <1>4, <2>1 DEF Leads
      <3> QED
        BY <1>1, <3>1
    <2> QED
      BY <1>1, <2>1
  <1> QED
    BY <1>5 DEF Best

RawFile == [doc : Documents, whole : BOOLEAN]

LEMMA LatestRowExists ==
    ASSUME NEW fs \in Seq(RawFile), NEW kind, NEW metric, NEW t, NEW y,
           NEW i \in Of(fs, kind, t, y), metric \in Gives(fs[i])
    PROVE  LatestRow(fs, kind, metric, t, y) # {}
  <1> DEFINE rows == {j \in Of(fs, kind, t, y) : metric \in Gives(fs[j])}
             day == [j \in 1 .. Len(fs) |-> fs[j].doc.day]
  <1>1. rows \in SUBSET (1 .. Len(fs)) /\ rows # {} /\ Len(fs) \in Nat
    BY DEF Of
  <1>2. day \in [1 .. Len(fs) -> Nat]
    <2>1. \A j \in 1 .. Len(fs) : fs[j] \in RawFile
      OBVIOUS
    <2> QED
      BY <2>1, KrEvidenceAssumption DEF RawFile
  <1>3. PICK k \in rows : Best(rows, day, k)
    <2> HIDE DEF rows, day
    <2> QED
      BY <1>1, <1>2, BestExists
  <1>4. \A j \in rows : day[j] = fs[j].doc.day
    BY <1>1
  <1> HIDE DEF day
  <1>5. fs[k] \in LatestRow(fs, kind, metric, t, y)
    BY <1>3, <1>4 DEF LatestRow, Best
  <1> QED
    BY <1>5

\* A row that is found is one of the files.
LEMMA LatestRowIsARow ==
    ASSUME NEW fs, NEW kind, NEW metric, NEW t, NEW y, NEW f \in LatestRow(fs, kind, metric, t, y)
    PROVE  \E i \in Of(fs, kind, t, y) : f = fs[i] /\ metric \in Gives(f)
  BY DEF LatestRow

LEMMA EpsIsARow ==
    ASSUME NEW fs \in Seq(RawFile), NEW t, NEW y, NEW f \in Eps(fs, t, y)
    PROVE  \E i \in Of(fs, "statement", t, y) : f = fs[i] /\ "eps" \in Gives(f)
  <1> DEFINE giving == {i \in Of(fs, "statement", t, y) : "eps" \in Gives(fs[i])}
  <1>1. giving # {} /\ f = fs[Max(giving)]
    BY DEF Eps, OldestGiving
  <1>2. giving \in SUBSET (1 .. Len(fs)) /\ Len(fs) \in Nat
    BY DEF Of
  <1> HIDE DEF giving
  <1>3. Max(giving) \in giving
    BY <1>1, <1>2, MaxIsMember
  <1> QED
    BY <1>1, <1>3 DEF giving

LEMMA MarcapIsMarketWide ==
    ASSUME NEW fs \in Seq(RawFile), NEW t, NEW y, NEW f \in MarcapRow(fs, t, y)
    PROVE  f.doc.kind = "marcap"
  <1> DEFINE ofYear == {i \in DOMAIN fs : fs[i].doc.kind = "marcap" /\ fs[i].doc.year = y}
  <1>1. ofYear # {} /\ f = fs[Min(ofYear)]
    BY DEF MarcapRow, MarcapFile
  <1>2. ofYear \in SUBSET (1 .. Len(fs)) /\ Len(fs) \in Nat
    OBVIOUS
  <1>3. Min(ofYear) \in ofYear
    <2> HIDE DEF ofYear
    <2> QED
      BY <1>1, <1>2, MinIsMember
  <1> QED
    BY <1>1, <1>3

\* The price of a year is the year end's, whatever order the files came in.
LEMMA YearEndPrice == raw \in Seq(RawFile) => \A t \in Ticker : PriceIsYearEnd(t)
  <1> SUFFICES ASSUME raw \in Seq(RawFile), NEW t \in Ticker, NEW y \in Years,
                      NEW f \in Price(raw, t, y), f.doc.kind = "ohlcv",
                      NEW i \in DOMAIN raw, raw[i].doc.kind = "ohlcv", t \in raw[i].doc.tickers,
                      raw[i].doc.year = y, "close" \in Gives(raw[i])
               PROVE  raw[i].doc.day <= f.doc.day
    BY DEF PriceIsYearEnd
  <1>1. f \in PykrxRow(raw, t, y)
    <2>1. i \in Of(raw, "ohlcv", t, y)
      BY DEF Of, IsOf
    <2>2. PykrxRow(raw, t, y) # {}
      BY <2>1, LatestRowExists DEF PykrxRow
    <2> QED
      BY <2>2 DEF Price
  <1>2. PICK k \in DOMAIN raw :
            f = raw[k] /\ (raw[i].doc.day < raw[k].doc.day
                           \/ (raw[i].doc.day = raw[k].doc.day /\ k <= i))
    BY <1>1 DEF PykrxRow, LatestRow, Of, IsOf
  <1>3. raw[i].doc.day \in Nat /\ raw[k].doc.day \in Nat
    <2>1. raw[i] \in RawFile /\ raw[k] \in RawFile
      OBVIOUS
    <2> QED
      BY <2>1, KrEvidenceAssumption DEF RawFile
  <1> QED
    BY <1>2, <1>3

\* The file being written is the newest, and cut short until it is filled.
RawInv ==
    /\ raw \in Seq(RawFile)
    /\ collector # Nothing => raw # << >> /\ raw[1] = [doc |-> collector, whole |-> FALSE]

LEMMA WithoutKeeps ==
    ASSUME NEW fs \in Seq(RawFile), NEW d
    PROVE  /\ Without(fs, d) \in Seq(RawFile)
           /\ \A i \in DOMAIN fs : fs[i].doc # d =>
                 \E j \in DOMAIN Without(fs, d) : Without(fs, d)[j] = fs[i]
  <1>1. CASE \A i \in DOMAIN fs : fs[i].doc # d
    BY <1>1 DEF Without
  <1>2. CASE \E i \in DOMAIN fs : fs[i].doc = d
    <2>1. PICK k \in DOMAIN fs : fs[k].doc = d /\ Without(fs, d) = RemoveAt(fs, k)
      BY <1>2 DEF Without
    <2> DEFINE head == SubSeq(fs, 1, k - 1)
               tail == SubSeq(fs, k + 1, Len(fs))
    <2>2. k \in 1 .. Len(fs) /\ Len(fs) \in Nat
      OBVIOUS
    <2>3. /\ head \in Seq(RawFile) /\ Len(head) = k - 1
          /\ \A j \in 1 .. k - 1 : head[j] = fs[j]
      BY <2>2
    <2>4. /\ tail \in Seq(RawFile) /\ Len(tail) = Len(fs) - k
          /\ \A j \in 1 .. Len(fs) - k : tail[j] = fs[j + k]
      BY <2>2
    <2>5. Without(fs, d) = head \o tail
      BY <2>1 DEF RemoveAt
    <2> HIDE DEF head, tail
    <2>6. /\ head \o tail \in Seq(RawFile) /\ Len(head \o tail) = Len(fs) - 1
          /\ \A j \in 1 .. k - 1 : (head \o tail)[j] = fs[j]
          /\ \A j \in k .. Len(fs) - 1 : (head \o tail)[j] = fs[j + 1]
      <3>1. head \o tail \in Seq(RawFile) /\ Len(head \o tail) = Len(fs) - 1
        BY <2>2, <2>3, <2>4
      <3>2. \A j \in 1 .. Len(fs) - 1 :
                (head \o tail)[j] = IF j <= Len(head) THEN head[j] ELSE tail[j - Len(head)]
        BY <2>2, <2>3, <2>4
      <3>3. ASSUME NEW j \in 1 .. k - 1 PROVE (head \o tail)[j] = fs[j]
        BY <2>2, <2>3, <3>2
      <3>4. ASSUME NEW j \in k .. Len(fs) - 1 PROVE (head \o tail)[j] = fs[j + 1]
        <4>1. (head \o tail)[j] = tail[j - (k - 1)]
          <5>1. j \in 1 .. Len(fs) - 1 /\ ~ (j <= k - 1)
            BY <2>2
          <5> QED
            BY <2>3, <3>2, <5>1
        <4>2. j - (k - 1) \in 1 .. Len(fs) - k /\ (j - (k - 1)) + k = j + 1
          BY <2>2
        <4> QED
          BY <2>4, <4>1, <4>2
      <3> QED
        BY <3>1, <3>3, <3>4
    <2>7. ASSUME NEW i \in DOMAIN fs, fs[i].doc # d
          PROVE  \E j \in DOMAIN Without(fs, d) : Without(fs, d)[j] = fs[i]
      <3>1. i \in 1 .. Len(fs) /\ i # k
        BY <2>1, <2>7
      <3>a. DOMAIN (head \o tail) = 1 .. Len(fs) - 1
        BY <2>6
      <3>2. CASE i < k
        <4>1. i \in 1 .. k - 1 /\ i \in DOMAIN (head \o tail)
          BY <2>2, <3>a, <3>1, <3>2
        <4> QED
          BY <2>5, <2>6, <4>1
      <3>3. CASE i > k
        <4>1. /\ i - 1 \in k .. Len(fs) - 1 /\ (i - 1) + 1 = i
              /\ i - 1 \in DOMAIN (head \o tail)
          BY <2>2, <3>a, <3>1, <3>3
        <4> QED
          BY <2>5, <2>6, <4>1
      <3> QED
        BY <2>2, <3>1, <3>2, <3>3
    <2> QED
      BY <2>5, <2>6, <2>7
  <1> QED
    BY <1>1, <1>2

\* A step of the collector: every file stays as it is, or is the one being
\* rewritten, or is a whole one again.
LEMMA RawStep ==
    ASSUME RawInv, [EvidenceNext]_evidenceVars
    PROVE  /\ RawInv'
           /\ \A i \in DOMAIN raw :
                 \/ [doc |-> raw[i].doc, whole |-> FALSE] \in {raw'[j] : j \in DOMAIN raw'}
                 \/ \E j \in DOMAIN raw' : raw'[j].doc = raw[i].doc
                                           /\ Gives(raw[i]) \subseteq Gives(raw'[j])
  <1> USE DEF RawInv
  <1>a. \A i \in DOMAIN raw : raw[i] \in RawFile
    OBVIOUS
  <1>1. CASE UNCHANGED raw /\ collector' \in {collector, Nothing}
    BY <1>1
  <1>2. CASE \E d \in Documents : OpenRaw(d)
    <2>d. PICK d \in Documents : OpenRaw(d)
      BY <1>2
    <2> DEFINE new == [doc |-> d, whole |-> FALSE]
               rest == Without(raw, d)
    <2>1. raw' = <<new>> \o rest /\ collector' = d
      BY <2>d DEF OpenRaw
    <2>2. new \in RawFile
      BY DEF RawFile
    <2>3. /\ rest \in Seq(RawFile)
          /\ \A i \in DOMAIN raw : raw[i].doc # d => \E j \in DOMAIN rest : rest[j] = raw[i]
      <3>1. raw \in Seq(RawFile)
        OBVIOUS
      <3> QED
        BY <3>1, WithoutKeeps
    <2> HIDE DEF rest
    <2>4. /\ raw' \in Seq(RawFile) /\ raw' # << >> /\ raw'[1] = new /\ 1 \in DOMAIN raw'
          /\ \A j \in DOMAIN rest : j + 1 \in DOMAIN raw' /\ raw'[j + 1] = rest[j]
      BY <2>1, <2>2, <2>3
    <2>5. ASSUME NEW i \in DOMAIN raw, raw[i].doc # d
          PROVE  \E j \in DOMAIN raw' : raw'[j] = raw[i]
      <3>1. PICK j \in DOMAIN rest : rest[j] = raw[i]
        BY <2>3, <2>5
      <3>2. j + 1 \in DOMAIN raw' /\ raw'[j + 1] = raw[i]
        BY <2>4, <3>1
      <3> QED
        BY <3>2
    <2>6. ASSUME NEW i \in DOMAIN raw, raw[i].doc = d
          PROVE  [doc |-> raw[i].doc, whole |-> FALSE] \in {raw'[j] : j \in DOMAIN raw'}
      BY <2>4, <2>6
    <2> QED
      BY <2>1, <2>4, <2>5, <2>6
  <1>3. CASE FillRaw
    <2>1. /\ raw # << >> /\ collector' = Nothing
          /\ raw' = [raw EXCEPT ![1].whole = TRUE]
      BY <1>3 DEF FillRaw
    <2>2. /\ DOMAIN raw' = DOMAIN raw /\ raw' \in Seq(RawFile)
          /\ \A i \in DOMAIN raw : raw'[i].doc = raw[i].doc /\ (raw[i].whole => raw'[i].whole)
      <3>1. /\ DOMAIN raw' = 1 .. Len(raw) /\ DOMAIN raw = 1 .. Len(raw) /\ Len(raw) \in Nat
            /\ \A i \in DOMAIN raw :
                  raw'[i] = IF i = 1 THEN [raw[1] EXCEPT !.whole = TRUE] ELSE raw[i]
        BY <2>1
      <3>2. \A i \in DOMAIN raw :
                raw'[i] \in RawFile /\ raw'[i].doc = raw[i].doc /\ (raw[i].whole => raw'[i].whole)
        BY <1>a, <3>1 DEF RawFile
      <3>3. raw' = [i \in 1 .. Len(raw) |-> raw'[i]]
        BY <2>1, <3>1
      <3> HIDE DEF RawInv
      <3>4. raw' \in Seq(RawFile)
        BY <3>1, <3>2, <3>3
      <3> QED
        BY <3>1, <3>2, <3>4
    <2> QED
      BY <2>1, <2>2 DEF Gives
  <1> QED
    BY <1>1, <1>2, <1>3 DEF EvidenceNext, evidenceVars, CollectorCrash, StartBuild, BuildStops,
                            OpenCache, FillCache, BuilderCrash

Rewritten(f) == [doc |-> f.doc, whole |-> FALSE] \in {raw'[j] : j \in DOMAIN raw'}

\* A figure that a file gave is given after the step, or its file is being rewritten.
LEMMA FigureStays ==
    ASSUME RawInv, [EvidenceNext]_evidenceVars,
           NEW kind, NEW metric, NEW t, NEW y, NEW i \in Of(raw, kind, t, y), metric \in Gives(raw[i])
    PROVE  \/ Rewritten(raw[i])
           \/ \E j \in Of(raw', kind, t, y) : metric \in Gives(raw'[j])
  <1>1. i \in DOMAIN raw
    BY DEF Of
  <1>2. \/ Rewritten(raw[i])
        \/ \E j \in DOMAIN raw' : raw'[j].doc = raw[i].doc /\ Gives(raw[i]) \subseteq Gives(raw'[j])
    BY <1>1, RawStep DEF Rewritten
  <1> QED
    BY <1>2 DEF Of, IsOf

LEMMA NoYearLost == ASSUME RawInv, [EvidenceNext]_evidenceVars PROVE NoYearIsLost
  <1> USE DEF RawInv
  <1>1. RawInv'
    BY RawStep
  <1> SUFFICES ASSUME NEW t \in Ticker, NEW y \in PointYears(raw, t), y \notin PointYears(raw', t),
                      \A f \in Price(raw, t, y) \cup Eps(raw, t, y) : ~Rewritten(f),
                      MarcapFile(raw', y) = MarcapFile(raw, y)
               PROVE  FALSE
    BY DEF NoYearIsLost, Rewritten
  <1>2. y \in Years /\ Price(raw, t, y) # {} /\ Eps(raw, t, y) # {}
    BY PointYearsAre DEF PriceYears, EpsYears
  <1>3. Eps(raw', t, y) # {}
    <2>1. PICK f \in Eps(raw, t, y) : TRUE
      BY <1>2
    <2>2. PICK i \in Of(raw, "statement", t, y) : f = raw[i] /\ "eps" \in Gives(f)
      BY EpsIsARow, <2>1
    <2>3. \E j \in Of(raw', "statement", t, y) : "eps" \in Gives(raw'[j])
      BY <2>1, <2>2, FigureStays
    <2> QED
      BY <2>3 DEF Eps, OldestGiving
  <1>4. Price(raw', t, y) # {}
    <2>1. CASE PykrxRow(raw, t, y) # {}
      <3>1. PICK f \in PykrxRow(raw, t, y) : TRUE
        BY <2>1
      <3>2. f \in Price(raw, t, y)
        BY <3>1 DEF Price
      <3>3. PICK i \in Of(raw, "ohlcv", t, y) : f = raw[i] /\ "close" \in Gives(f)
        BY <3>1, LatestRowIsARow DEF PykrxRow
      <3>4. PICK j \in Of(raw', "ohlcv", t, y) : "close" \in Gives(raw'[j])
        BY <3>2, <3>3, FigureStays
      <3>5. PykrxRow(raw', t, y) # {}
        BY <1>1, <3>4, LatestRowExists DEF PykrxRow
      <3> QED
        BY <3>5 DEF Price
    <2>2. CASE PykrxRow(raw, t, y) = {}
      <3>1. MarcapRow(raw, t, y) # {}
        BY <1>2, <2>2 DEF Price
      <3>2. MarcapRow(raw', t, y) = MarcapRow(raw, t, y)
        BY DEF MarcapRow
      <3> QED
        BY <3>1, <3>2 DEF Price
    <2> QED
      BY <2>1, <2>2
  <1>5. y \in PointYears(raw', t)
    BY <1>2, <1>3, <1>4, PointYearsAre DEF PriceYears, EpsYears
  <1> QED
    BY <1>5

LEMMA RawInitSound == EvidenceInit => RawInv
  <1> SUFFICES ASSUME EvidenceInit PROVE RawInv
    OBVIOUS
  <1>1. PICK s \in Stored : raw = [i \in DOMAIN s |-> [doc |-> s[i], whole |-> TRUE]]
    BY DEF EvidenceInit
  <1>2. s \in Seq(Documents)
    BY KrEvidenceAssumption
  <1>3. /\ DOMAIN s = 1 .. Len(s) /\ Len(s) \in Nat
        /\ \A i \in 1 .. Len(s) : [doc |-> s[i], whole |-> TRUE] \in RawFile
    BY <1>2 DEF RawFile
  <1>4. raw \in Seq(RawFile)
    BY <1>1, <1>3
  <1> QED
    BY <1>4 DEF EvidenceInit, RawInv

\* For any files, collected in any order and cut anywhere: the points are of the
\* year-end prices of the files there are, and no year is lost by collecting more.
THEOREM PointsOfTheFiles == EvidenceSpec => PointsFollowTheFiles
  <1>1. RawInv /\ [EvidenceNext]_evidenceVars => RawInv'
    BY RawStep
  <1>2. RawInv /\ [EvidenceNext]_evidenceVars => [NoYearIsLost]_evidenceVars
    BY NoYearLost
  <1>3. RawInv => \A t \in Ticker : PriceIsYearEnd(t)
    BY YearEndPrice DEF RawInv
  <1> QED
    BY <1>1, <1>2, <1>3, RawInitSound, PTL DEF EvidenceSpec, PointsFollowTheFiles
-----------------------------------------------------------------------------
(* The states of the KR raw files and of the build.                        *)

\* The tickers that are left are the last ones of the command line.
TodoIsTyped == \E i \in 0 .. Len(Tickers) : todo = SubSeq(Tickers, i + 1, Len(Tickers))

\* A document of the collector replaces the file of its path or is another one.
RawIsBounded == (\E s \in Stored : Len(raw) <= Len(s) + collected) /\ collected \in 0 .. MaxCollected

CachesAreTyped ==
    /\ \A t \in Ticker : cache[t] \in {Cache!NoCache, Cache!Torn} \/ cache[t].payload.ticker = t
    /\ payload = Nothing \/ (todo # << >> /\ payload.ticker = Head(todo))

EvidenceTyped ==
    /\ RawInv /\ EvidenceInv
    /\ RawIsBounded /\ TodoIsTyped /\ CachesAreTyped
    /\ collector \in Documents \cup {Nothing}
    /\ crashes \in 0 .. MaxCrashes

LEMMA TypedIsTypeOK == EvidenceTyped => EvidenceTypeOK
  BY DEF EvidenceTyped, EvidenceTypeOK, RawInv, RawFile, RawIsBounded, TodoIsTyped, CachesAreTyped

LEMMA AllTickersLeft == Tickers = SubSeq(Tickers, 1, Len(Tickers))
  <1>1. Tickers \in Seq(Ticker)
    BY KrEvidenceAssumption
  <1> QED
    BY <1>1

LEMMA NoTickerLeft == << >> = SubSeq(Tickers, Len(Tickers) + 1, Len(Tickers))
  <1>1. Tickers \in Seq(Ticker)
    BY KrEvidenceAssumption
  <1> QED
    BY <1>1

LEMMA OneTickerLess ==
    ASSUME NEW i \in 0 .. Len(Tickers), SubSeq(Tickers, i + 1, Len(Tickers)) # << >>
    PROVE  /\ i + 1 \in 0 .. Len(Tickers)
           /\ Tail(SubSeq(Tickers, i + 1, Len(Tickers))) = SubSeq(Tickers, i + 2, Len(Tickers))
  <1> DEFINE n == Len(Tickers)
             a == SubSeq(Tickers, i + 1, n)
             b == SubSeq(Tickers, i + 2, n)
  <1>1. Tickers \in Seq(Ticker) /\ n \in Nat /\ i \in Nat
    BY KrEvidenceAssumption
  <1>2. i < n
    BY <1>1, NoTickerLeft
  <1>3. /\ a \in Seq(Ticker) /\ Len(a) = n - i
        /\ \A k \in 1 .. n - i : a[k] = Tickers[k + i]
    BY <1>1, <1>2
  <1>4. /\ b \in Seq(Ticker) /\ Len(b) = n - i - 1
        /\ \A k \in 1 .. n - i - 1 : b[k] = Tickers[k + i + 1]
    BY <1>1, <1>2
  <1> HIDE DEF a, b
  <1>5. /\ Tail(a) \in Seq(Ticker) /\ Len(Tail(a)) = n - i - 1
        /\ \A k \in 1 .. n - i - 1 : Tail(a)[k] = a[k + 1]
    BY <1>1, <1>2, <1>3
  <1>6. \A k \in 1 .. n - i - 1 : Tail(a)[k] = b[k]
    <2> TAKE k \in 1 .. n - i - 1
    <2>1. k + 1 \in 1 .. n - i /\ (k + 1) + i = k + i + 1
      BY <1>1
    <2> QED
      BY <1>3, <1>4, <1>5, <2>1
  <1>7. Tail(a) = b
    <2> DEFINE c == Tail(a)
    <2>1. c \in Seq(Ticker) /\ Len(c) = Len(b) /\ \A k \in 1 .. Len(b) : c[k] = b[k]
      BY <1>4, <1>5, <1>6
    <2>2. b \in Seq(Ticker)
      BY <1>4
    <2> HIDE DEF c
    <2>3. c = [k \in 1 .. Len(b) |-> c[k]] /\ b = [k \in 1 .. Len(b) |-> b[k]]
      BY <2>1, <2>2
    <2>4. c = b
      BY <2>1, <2>3
    <2> QED
      BY <2>4 DEF c
  <1> QED
    BY <1>1, <1>2, <1>7 DEF a, b

LEMMA WithoutIsNoLonger ==
    ASSUME NEW fs \in Seq(RawFile), NEW d
    PROVE  Len(Without(fs, d)) \in Nat /\ Len(Without(fs, d)) <= Len(fs)
  <1>1. CASE \A i \in DOMAIN fs : fs[i].doc # d
    BY <1>1 DEF Without
  <1>2. CASE \E i \in DOMAIN fs : fs[i].doc = d
    <2>1. PICK k \in DOMAIN fs : fs[k].doc = d /\ Without(fs, d) = RemoveAt(fs, k)
      BY <1>2 DEF Without
    <2>2. k \in 1 .. Len(fs) /\ Len(fs) \in Nat
      OBVIOUS
    <2>3. SubSeq(fs, 1, k - 1) \in Seq(RawFile) /\ Len(SubSeq(fs, 1, k - 1)) = k - 1
      BY <2>2
    <2>4. /\ SubSeq(fs, k + 1, Len(fs)) \in Seq(RawFile)
          /\ Len(SubSeq(fs, k + 1, Len(fs))) = Len(fs) - k
      BY <2>2
    <2> QED
      BY <2>1, <2>2, <2>3, <2>4 DEF RemoveAt
  <1> QED
    BY <1>1, <1>2

LEMMA EvidenceTypedInit == EvidenceInit => EvidenceTyped
  <1> SUFFICES ASSUME EvidenceInit PROVE EvidenceTyped
    OBVIOUS
  <1>1. PICK s \in Stored : raw = [i \in DOMAIN s |-> [doc |-> s[i], whole |-> TRUE]]
    BY DEF EvidenceInit
  <1>2. s \in Seq(Documents) /\ Len(raw) = Len(s) /\ Len(s) \in Nat
    BY <1>1, KrEvidenceAssumption
  <1>3. RawIsBounded
    BY <1>2, KrEvidenceAssumption DEF RawIsBounded, EvidenceInit
  <1>4. TodoIsTyped
    <2>1. Len(Tickers) \in 0 .. Len(Tickers)
      BY KrEvidenceAssumption
    <2> QED
      BY <2>1, NoTickerLeft DEF TodoIsTyped, EvidenceInit
  <1>5. CachesAreTyped
    BY DEF CachesAreTyped, EvidenceInit
  <1>6. collector = Nothing /\ crashes \in 0 .. MaxCrashes
    BY KrEvidenceAssumption DEF EvidenceInit
  <1> QED
    BY <1>3, <1>4, <1>5, <1>6, RawInitSound, EvidenceInitSound DEF EvidenceTyped

LEMMA RawStaysBounded ==
    ASSUME EvidenceTyped, [EvidenceNext]_evidenceVars
    PROVE  RawIsBounded'
  <1>1. RawIsBounded /\ raw \in Seq(RawFile) /\ MaxCollected \in Nat
    BY KrEvidenceAssumption DEF EvidenceTyped, RawInv
  <1>2. CASE \E d \in Documents : OpenRaw(d)
    <2>1. PICK d \in Documents : OpenRaw(d)
      BY <1>2
    <2> DEFINE rest == Without(raw, d)
    <2>2. /\ collected' = collected + 1 /\ collected < MaxCollected
          /\ raw' = <<[doc |-> d, whole |-> FALSE]>> \o rest
      BY <2>1 DEF OpenRaw
    <2>3. rest \in Seq(RawFile) /\ Len(rest) \in Nat /\ Len(rest) <= Len(raw)
      BY <1>1, WithoutKeeps, WithoutIsNoLonger
    <2> HIDE DEF rest
    <2>4. Len(raw') = 1 + Len(rest)
      BY <2>2, <2>3
    <2>5. PICK s \in Stored : Len(raw) <= Len(s) + collected
      BY <1>1 DEF RawIsBounded
    <2>6. Len(s) \in Nat /\ Len(raw) \in Nat /\ collected \in Nat
      BY <1>1, KrEvidenceAssumption DEF RawIsBounded
    <2>7. Len(raw') <= Len(s) + collected'
      BY <2>2, <2>3, <2>4, <2>5, <2>6
    <2> QED
      BY <1>1, <2>2, <2>6, <2>7 DEF RawIsBounded
  <1>3. CASE FillRaw
    <2>1. /\ raw # << >> /\ raw' = [raw EXCEPT ![1].whole = TRUE]
          /\ UNCHANGED collected
      BY <1>3 DEF FillRaw, EvidenceTyped, RawInv
    <2>2. Len(raw') = Len(raw)
      BY <1>1, <2>1
    <2> QED
      BY <1>1, <2>1, <2>2 DEF RawIsBounded
  <1>4. CASE UNCHANGED <<raw, collected>>
    BY <1>1, <1>4 DEF RawIsBounded
  <1> QED
    BY <1>2, <1>3, <1>4 DEF EvidenceNext, evidenceVars, CollectorCrash, StartBuild, BuildStops,
                            OpenCache, FillCache, BuilderCrash

LEMMA TodoStaysTyped ==
    ASSUME EvidenceTyped, [EvidenceNext]_evidenceVars
    PROVE  TodoIsTyped'
  <1>1. TodoIsTyped /\ 0 \in 0 .. Len(Tickers) /\ Len(Tickers) \in 0 .. Len(Tickers)
    BY KrEvidenceAssumption DEF EvidenceTyped
  <1>2. CASE UNCHANGED todo
    BY <1>1, <1>2 DEF TodoIsTyped
  <1>3. CASE todo' = Tickers
    <2>1. todo' = SubSeq(Tickers, 0 + 1, Len(Tickers))
      BY <1>3, AllTickersLeft
    <2> QED
      BY <1>1, <2>1 DEF TodoIsTyped
  <1>4. CASE todo' = << >>
    BY <1>1, <1>4, NoTickerLeft DEF TodoIsTyped
  <1>5. CASE FillCache
    <2>1. todo # << >> /\ todo' = Tail(todo)
      BY <1>5 DEF FillCache, EvidenceTyped, EvidenceInv
    <2>2. PICK i \in 0 .. Len(Tickers) : todo = SubSeq(Tickers, i + 1, Len(Tickers))
      BY <1>1 DEF TodoIsTyped
    <2>3. /\ i + 1 \in 0 .. Len(Tickers)
          /\ todo' = SubSeq(Tickers, i + 2, Len(Tickers))
      BY <2>1, <2>2, OneTickerLess
    <2>4. i + 2 = (i + 1) + 1
      OBVIOUS
    <2> QED
      BY <2>3, <2>4 DEF TodoIsTyped
  <1> QED
    BY <1>2, <1>3, <1>4, <1>5 DEF EvidenceNext, evidenceVars, OpenRaw, FillRaw, CollectorCrash,
                                  StartBuild, BuildStops, OpenCache, BuilderCrash

LEMMA CachesStayTyped ==
    ASSUME EvidenceTyped, [EvidenceNext]_evidenceVars
    PROVE  CachesAreTyped'
  <1>1. CachesAreTyped /\ EvidenceInv
    BY DEF EvidenceTyped
  <1>2. CASE UNCHANGED <<cache, todo, payload>>
    BY <1>1, <1>2 DEF CachesAreTyped
  <1>3. CASE StartBuild
    <2>1. todo = << >> /\ UNCHANGED <<cache, payload>>
      BY <1>3 DEF StartBuild
    <2>2. payload = Nothing
      BY <1>1, <2>1 DEF EvidenceInv
    <2> QED
      BY <1>1, <2>1, <2>2 DEF CachesAreTyped
  <1>4. CASE BuildStops \/ BuilderCrash
    <2>1. payload' = Nothing /\ UNCHANGED cache
      BY <1>4 DEF BuildStops, BuilderCrash
    <2> QED
      BY <1>1, <2>1 DEF CachesAreTyped
  <1>5. CASE OpenCache
    <2>1. /\ todo # << >> /\ UNCHANGED todo /\ payload' = Build(raw, Head(todo))
          /\ cache' = [cache EXCEPT ![Head(todo)] = Cache!Torn]
      BY <1>5 DEF OpenCache
    <2>2. payload'.ticker = Head(todo)
      BY <2>1 DEF Build
    <2>3. \A t \in Ticker : cache'[t] \in {cache[t], Cache!Torn}
      BY <1>1, <2>1 DEF EvidenceInv
    <2> QED
      BY <1>1, <2>1, <2>2, <2>3 DEF CachesAreTyped
  <1>6. CASE FillCache
    <2>1. /\ payload # Nothing /\ payload' = Nothing
          /\ cache' = [cache EXCEPT ![Head(todo)] = Cache!Whole(payload)]
      BY <1>6 DEF FillCache
    <2>2. payload.ticker = Head(todo)
      BY <1>1, <2>1 DEF CachesAreTyped
    <2>3. ASSUME NEW t \in Ticker
          PROVE  cache'[t] = cache[t] \/ cache'[t].payload.ticker = t
      <3>1. CASE t = Head(todo)
        BY <1>1, <2>1, <2>2, <3>1 DEF EvidenceInv, Cache!Whole
      <3>2. CASE t # Head(todo)
        BY <1>1, <2>1, <3>2 DEF EvidenceInv
      <3> QED
        BY <3>1, <3>2
    <2> QED
      BY <1>1, <2>1, <2>3 DEF CachesAreTyped
  <1> QED
    BY <1>2, <1>3, <1>4, <1>5, <1>6 DEF EvidenceNext, evidenceVars, OpenRaw, FillRaw, CollectorCrash

LEMMA EvidenceStaysTyped == EvidenceTyped /\ [EvidenceNext]_evidenceVars => EvidenceTyped'
  <1> SUFFICES ASSUME EvidenceTyped, [EvidenceNext]_evidenceVars PROVE EvidenceTyped'
    OBVIOUS
  <1>1. RawInv' /\ EvidenceInv'
    BY RawStep, EvidenceStepSound DEF EvidenceTyped
  <1>2. collector' \in Documents \cup {Nothing}
    <2>1. collector' \in Documents \cup {collector, Nothing}
      BY DEF EvidenceNext, evidenceVars, OpenRaw, FillRaw, CollectorCrash, StartBuild, BuildStops,
             OpenCache, FillCache, BuilderCrash
    <2> QED
      BY <2>1 DEF EvidenceTyped
  <1>3. crashes' \in 0 .. MaxCrashes
    <2>1. crashes' = crashes \/ (crashes < MaxCrashes /\ crashes' = crashes + 1)
      BY DEF EvidenceNext, evidenceVars, OpenRaw, FillRaw, CollectorCrash, StartBuild, BuildStops,
             OpenCache, FillCache, BuilderCrash
    <2>2. crashes \in 0 .. MaxCrashes /\ MaxCrashes \in Nat
      BY KrEvidenceAssumption DEF EvidenceTyped
    <2> QED
      BY <2>1, <2>2
  <1> QED
    BY <1>1, <1>2, <1>3, RawStaysBounded, TodoStaysTyped, CachesStayTyped DEF EvidenceTyped

\* The raw files, the cache files and the build have the states they are declared
\* with: the build is at a ticker of the command line, and what it has computed is
\* that ticker's.
THEOREM EvidenceTypeCorrect == EvidenceSpec => []EvidenceTypeOK
  BY EvidenceTypedInit, EvidenceStaysTyped, TypedIsTypeOK, PTL DEF EvidenceSpec

-----------------------------------------------------------------------------
(* The SEC bulk warehouse.  metrics is what loads of earlier downloads have *)
(* left, and a download has every filing an earlier one has: that is what  *)
(* a new load's rows are compared with.                                    *)

LEMMA StatementIsTyped ==
    ASSUME NEW i \in DOMAIN Statements
    PROVE  /\ OfAFiling(Statements[i]) /\ Statements[i].end \in Int
           /\ BulkFilings[Statements[i].filing].filed \in Int
           /\ BulkFilings[Statements[i].filing].year \in Int
           /\ Tags[Statements[i].tag].priority \in Int
  <1> DEFINE Fact == [tag : DOMAIN Tags, filing : DOMAIN BulkFilings, end : Int, positive : BOOLEAN]
  <1>1. Statements[i] \in Fact
    <2>1. Statements \in Seq(Fact)
      BY SecBulkAssumption
    <2> HIDE DEF Fact
    <2> QED
      BY <2>1
  <1> QED
    BY <1>1, SecBulkAssumption DEF OfAFiling

Key == Int \X Int \X Int \X Int

LEMMA KeyIsTyped == ASSUME NEW i \in DOMAIN Statements PROVE SortKey(Statements[i]) \in Key
  BY StatementIsTyped DEF SortKey, FormRank, Key

\* Keys are compared as tuples are.
LEMMA AfterIs ==
    ASSUME NEW a \in Key, NEW b \in Key
    PROVE  After(a, b) <=> \/ a[1] > b[1]
                           \/ a[1] = b[1] /\ a[2] > b[2]
                           \/ a[1] = b[1] /\ a[2] = b[2] /\ a[3] > b[3]
                           \/ a[1] = b[1] /\ a[2] = b[2] /\ a[3] = b[3] /\ a[4] > b[4]
  <1>1. DOMAIN a = {1, 2, 3, 4}
    BY DEF Key
  <1>2. /\ {j \in 1 .. 0 : TRUE} = {} /\ 1 .. (1 - 1) = {} /\ 1 .. (2 - 1) = {1}
        /\ 1 .. (3 - 1) = {1, 2} /\ 1 .. (4 - 1) = {1, 2, 3}
    OBVIOUS
  <1> QED
    BY <1>1, <1>2 DEF After

LEMMA KeysAreOrdered ==
    /\ \A a, b \in Key : After(a, b) \/ After(b, a) \/ a = b
    /\ \A a, b \in Key : ~ (After(a, b) /\ After(b, a)) /\ ~After(a, a)
    /\ \A a, b, c \in Key : After(a, b) /\ After(b, c) => After(a, c)
  <1>1. ASSUME NEW a \in Key, NEW b \in Key PROVE After(a, b) \/ After(b, a) \/ a = b
    <2>1. SUFFICES ASSUME ~After(a, b), ~After(b, a) PROVE a = b
      OBVIOUS
    <2>2. a[1] = b[1] /\ a[2] = b[2] /\ a[3] = b[3] /\ a[4] = b[4]
      BY <2>1, AfterIs DEF Key
    <2> QED
      BY <2>2 DEF Key
  <1>2. ASSUME NEW a \in Key, NEW b \in Key PROVE ~ (After(a, b) /\ After(b, a)) /\ ~After(a, a)
    BY AfterIs DEF Key
  <1>3. ASSUME NEW a \in Key, NEW b \in Key, NEW c \in Key, After(a, b), After(b, c)
        PROVE  After(a, c)
    BY <1>3, AfterIs DEF Key
  <1> QED
    BY <1>1, <1>2, <1>3

LEMMA KeptOverRanks ==
    /\ \A i, j \in DOMAIN Statements : KeptOver(i, j) \/ KeptOver(j, i)
    /\ \A i, j \in DOMAIN Statements : KeptOver(i, j) /\ KeptOver(j, i) => i = j
    /\ \A i, j, k \in DOMAIN Statements : KeptOver(i, j) /\ KeptOver(j, k) => KeptOver(i, k)
  <1> DEFINE key(i) == SortKey(Statements[i])
  <1>1. \A i \in DOMAIN Statements : key(i) \in Key /\ i \in Nat
    BY KeyIsTyped, SecBulkAssumption
  <1>2. \A i, j : KeptOver(i, j) <=> After(key(i), key(j)) \/ (key(i) = key(j) /\ i <= j)
    BY DEF KeptOver
  <1> HIDE DEF key
  <1>3. ASSUME NEW i \in DOMAIN Statements, NEW j \in DOMAIN Statements
        PROVE  KeptOver(i, j) \/ KeptOver(j, i)
    BY <1>1, <1>2, KeysAreOrdered
  <1>4. ASSUME NEW i \in DOMAIN Statements, NEW j \in DOMAIN Statements,
               KeptOver(i, j), KeptOver(j, i)
        PROVE  i = j
    BY <1>1, <1>2, <1>4, KeysAreOrdered
  <1>5. ASSUME NEW i \in DOMAIN Statements, NEW j \in DOMAIN Statements, NEW k \in DOMAIN Statements,
               KeptOver(i, j), KeptOver(j, k)
        PROVE  KeptOver(i, k)
    <2>1. \/ After(key(i), key(j)) /\ After(key(j), key(k))
          \/ After(key(i), key(j)) /\ key(j) = key(k)
          \/ key(i) = key(j) /\ After(key(j), key(k))
          \/ key(i) = key(j) /\ key(j) = key(k) /\ i <= j /\ j <= k
      BY <1>2, <1>5
    <2>2. After(key(i), key(k)) \/ (key(i) = key(k) /\ i <= k)
      BY <1>1, <2>1, KeysAreOrdered
    <2> QED
      BY <1>2, <2>2
  <1> QED
    BY <1>3, <1>4, <1>5

LEMMA PrimaryRowIs ==
    ASSUME NEW fact
    PROVE  /\ PrimaryRow(fact).metric = MetricOf(fact) /\ PrimaryRow(fact).year = YearOf(fact)
           /\ PrimaryRow(fact).derived = FALSE /\ PrimaryRow(fact).inputs = {fact}
  BY DEF PrimaryRow

LEMMA InPrimary ==
    ASSUME NEW rows, NEW p
    PROVE  p \in Primary(rows) <=> \E k \in rows : Kept(rows, k) /\ p = PrimaryRow(Statements[k])
  BY DEF Primary

LEMMA DerivedRowIs ==
    \A primary, m, y : /\ DerivedRow(primary, m, y).metric = m /\ DerivedRow(primary, m, y).year = y
                       /\ DerivedRow(primary, m, y).derived = TRUE
  BY DEF DerivedRow

LEMMA DerivedInputs ==
    ASSUME NEW primary, NEW m, NEW y, NEW x
    PROVE  x \in DerivedRow(primary, m, y).inputs <=>
               \E p \in primary : p.year = y /\ p.metric \in DerivedFrom[m] /\ x \in p.inputs
  <1>1. DerivedRow(primary, m, y).inputs = UNION {p.inputs : p \in Inputs(primary, m, y)}
    BY DEF DerivedRow
  <1> QED
    BY <1>1 DEF Inputs

LEMMA InDerived ==
    ASSUME NEW primary, NEW d
    PROVE  d \in DerivedRows(primary) <=>
               \E m \in DOMAIN DerivedFrom, q \in primary :
                   Derivable(primary, m, q.year) /\ d = DerivedRow(primary, m, q.year)
  <1> DEFINE of(m) == {DerivedRow(primary, m, p.year) : p \in {q \in primary : Derivable(primary, m, q.year)}}
  <1>1. ASSUME NEW m
        PROVE  d \in of(m) <=> \E q \in primary :
                   Derivable(primary, m, q.year) /\ d = DerivedRow(primary, m, q.year)
    OBVIOUS
  <1>2. DerivedRows(primary) = UNION {of(m) : m \in DOMAIN DerivedFrom}
    BY DEF DerivedRows
  <1> HIDE DEF of
  <1> QED
    BY <1>1, <1>2

PrimaryOf(F) == Primary(FactRows(F))

LEMMA MetricRowsAre ==
    ASSUME NEW F
    PROVE  MetricRows(F) = PrimaryOf(F) \cup DerivedRows(PrimaryOf(F))
  BY DEF MetricRows, PrimaryOf

\* A row says which of the two kinds it is.
LEMMA KindOfRow ==
    ASSUME NEW F, NEW m \in MetricRows(F)
    PROVE  /\ m.derived \in BOOLEAN
           /\ ~m.derived => m \in PrimaryOf(F)
           /\ m.derived => \E metric \in DOMAIN DerivedFrom, p \in PrimaryOf(F) :
                               /\ Derivable(PrimaryOf(F), metric, p.year)
                               /\ m = DerivedRow(PrimaryOf(F), metric, p.year)
  <1>1. CASE m \in PrimaryOf(F)
    <2>1. PICK k : m = PrimaryRow(Statements[k])
      BY <1>1, InPrimary DEF PrimaryOf
    <2> QED
      BY <1>1, <2>1, PrimaryRowIs
  <1>2. CASE m \in DerivedRows(PrimaryOf(F))
    <2>1. PICK metric \in DOMAIN DerivedFrom, p \in PrimaryOf(F) :
              Derivable(PrimaryOf(F), metric, p.year) /\ m = DerivedRow(PrimaryOf(F), metric, p.year)
      BY <1>2, InDerived
    <2>2. m.derived = TRUE
      BY <2>1, DerivedRowIs
    <2> QED
      BY <2>1, <2>2
  <1> QED
    BY <1>1, <1>2, MetricRowsAre

SameKey(m, n) == m.metric = n.metric /\ m.year = n.year /\ m.derived = n.derived

\* A metric and a year that the filings state have one primary row.
LEMMA PrimaryExists ==
    ASSUME NEW F, NEW i \in FactRows(F)
    PROVE  \E p \in PrimaryOf(F) : p.metric = MetricOf(Statements[i]) /\ p.year = YearOf(Statements[i])
  <1> DEFINE rows == {j \in FactRows(F) : /\ MetricOf(Statements[j]) = MetricOf(Statements[i])
                                          /\ YearOf(Statements[j]) = YearOf(Statements[i])}
             R == {p \in rows \X rows : KeptOver(p[1], p[2])}
  <1>1. /\ rows \in SUBSET (1 .. Len(Statements)) /\ rows # {} /\ Len(Statements) \in Nat
        /\ rows \subseteq DOMAIN Statements
    <2>1. DOMAIN Statements = 1 .. Len(Statements) /\ Len(Statements) \in Nat
      BY SecBulkAssumption
    <2> QED
      BY <2>1 DEF FactRows
  <1>2. \A j, k : <<j, k>> \in R <=> j \in rows /\ k \in rows /\ KeptOver(j, k)
    OBVIOUS
  <1> HIDE DEF R
  <1>3. Ranks(rows, R)
    BY <1>1, <1>2, KeptOverRanks DEF Ranks
  <1>4. PICK k \in rows : Leads(rows, R, k)
    <2> HIDE DEF rows
    <2> QED
      BY <1>1, <1>3, LeaderExists
  <1>5. Kept(FactRows(F), k)
    <2>1. KeptOver(k, k)
      BY <1>1, KeptOverRanks
    <2> QED
      BY <1>2, <1>4, <2>1 DEF Kept, Leads
  <1> QED
    BY <1>5, InPrimary, PrimaryRowIs DEF PrimaryOf

LEMMA OneRowOfAKey ==
    ASSUME NEW F, NEW m \in MetricRows(F), NEW n \in MetricRows(F), SameKey(m, n)
    PROVE  m = n
  <1>1. CASE ~m.derived
    <2>1. m \in PrimaryOf(F) /\ n \in PrimaryOf(F)
      BY <1>1, KindOfRow DEF SameKey
    <2>2. PICK j \in FactRows(F) : Kept(FactRows(F), j) /\ m = PrimaryRow(Statements[j])
      BY <2>1, InPrimary DEF PrimaryOf
    <2>3. PICK k \in FactRows(F) : Kept(FactRows(F), k) /\ n = PrimaryRow(Statements[k])
      BY <2>1, InPrimary DEF PrimaryOf
    <2>4. KeptOver(j, k) /\ KeptOver(k, j)
      <3>1. /\ MetricOf(Statements[j]) = MetricOf(Statements[k])
            /\ YearOf(Statements[j]) = YearOf(Statements[k])
        BY <2>2, <2>3, PrimaryRowIs DEF SameKey
      <3> QED
        BY <2>2, <2>3, <3>1 DEF Kept
    <2>5. j = k
      BY <2>4, KeptOverRanks DEF FactRows
    <2> QED
      BY <2>2, <2>3, <2>5
  <1>2. CASE m.derived
    <2>1. n.derived
      BY <1>2 DEF SameKey
    <2>2. PICK a \in DOMAIN DerivedFrom, p \in PrimaryOf(F) : m = DerivedRow(PrimaryOf(F), a, p.year)
      BY <1>2, KindOfRow
    <2>3. PICK b \in DOMAIN DerivedFrom, q \in PrimaryOf(F) : n = DerivedRow(PrimaryOf(F), b, q.year)
      BY <2>1, KindOfRow
    <2>4. a = b /\ p.year = q.year
      <3>1. m.metric = a /\ m.year = p.year /\ n.metric = b /\ n.year = q.year
        BY <2>2, <2>3, DerivedRowIs
      <3> QED
        BY <3>1 DEF SameKey
    <2> QED
      BY <2>2, <2>3, <2>4
  <1> QED
    BY <1>1, <1>2, KindOfRow

\* Every stored row is one that some load of no more filings found; a running load
\* has stored the rows it no longer has to write.
BulkInv ==
    /\ BulkTypeOK
    /\ loader = [pc |-> loader.pc, rows |-> loader.rows, metrics |-> loader.metrics]
    /\ \A m \in metrics : \E F \in SUBSET download.filings : m \in MetricRows(F)
    /\ \A m, n \in metrics : SameKey(m, n) => m = n
    /\ loader.pc = "load" =>
         /\ loader.metrics \subseteq MetricRows(download.filings)
         /\ MetricRows(download.filings) \subseteq loader.metrics \cup metrics

LEMMA RowsAreOfFilings ==
    ASSUME NEW F, NEW m \in MetricRows(F), NEW x \in m.inputs
    PROVE  \E k \in FactRows(F) : /\ x = Statements[k] /\ Kept(FactRows(F), k)
                                  /\ YearOf(x) = m.year
                                  /\ ~m.derived => MetricOf(x) = m.metric
  <1>1. ASSUME NEW p \in PrimaryOf(F), x \in p.inputs
        PROVE  \E k \in FactRows(F) : /\ x = Statements[k] /\ Kept(FactRows(F), k)
                                      /\ YearOf(x) = p.year /\ MetricOf(x) = p.metric
    <2>1. PICK k \in FactRows(F) : Kept(FactRows(F), k) /\ p = PrimaryRow(Statements[k])
      BY InPrimary DEF PrimaryOf
    <2>2. x = Statements[k] /\ MetricOf(x) = p.metric /\ YearOf(x) = p.year
      <3>1. p.inputs = {Statements[k]} /\ p.metric = MetricOf(Statements[k])
            /\ p.year = YearOf(Statements[k])
        BY <2>1, PrimaryRowIs
      <3> QED
        BY <1>1, <3>1
    <2> QED
      BY <2>1, <2>2
  <1>2. CASE ~m.derived
    BY <1>1, <1>2, KindOfRow
  <1>3. CASE m.derived
    <2>1. PICK metric \in DOMAIN DerivedFrom, q \in PrimaryOf(F) :
              m = DerivedRow(PrimaryOf(F), metric, q.year)
      BY <1>3, KindOfRow
    <2>2. PICK p \in PrimaryOf(F) : p.year = q.year /\ x \in p.inputs
      BY <2>1, DerivedInputs
    <2>3. m.year = p.year
      BY <2>1, <2>2, DerivedRowIs
    <2> QED
      BY <1>1, <1>3, <2>2, <2>3
  <1> QED
    BY <1>2, <1>3, KindOfRow

LEMMA RowsAreTyped ==
    ASSUME NEW F, NEW m \in MetricRows(F)
    PROVE  m.derived \in BOOLEAN /\ \A x \in m.inputs : OfAFiling(x)
  <1>1. ASSUME NEW x \in m.inputs PROVE OfAFiling(x)
    <2>1. PICK k \in FactRows(F) : x = Statements[k]
      BY RowsAreOfFilings
    <2>2. k \in DOMAIN Statements
      BY DEF FactRows
    <2> QED
      BY <2>1, <2>2, StatementIsTyped
  <1> QED
    BY <1>1, KindOfRow

LEMMA BulkInitSound == BulkInit => BulkInv
  BY SecBulkAssumption DEF BulkInit, BulkInv, BulkTypeOK, NoDownload, IdleLoader

\* The row that is written next is one of those to write.
LEMMA RowToWrite ==
    ASSUME NEW rows, rows # {}, \A m \in rows : m.derived \in BOOLEAN
    PROVE  (CHOOSE m \in rows : m.derived => \A n \in rows : n.derived) \in rows
  <1>1. \E m \in rows : m.derived => \A n \in rows : n.derived
    OBVIOUS
  <1> QED
    BY <1>1

LEMMA PersistMetricSound == ASSUME BulkInv, PersistMetric PROVE BulkInv'
  <1> DEFINE row == CHOOSE m \in loader.metrics : m.derived => \A n \in loader.metrics : n.derived
             same == {m \in metrics : SameKey(m, row)}
  <1>1. /\ loader.pc = "load" /\ loader.metrics # {}
        /\ metrics' = (metrics \ same) \cup {row}
        /\ loader' = [loader EXCEPT !.metrics = @ \ {row}]
        /\ UNCHANGED <<filed, download, facts, loads, stops>>
    BY DEF PersistMetric, SameKey
  <1>2. loader.metrics \subseteq MetricRows(download.filings)
    BY <1>1 DEF BulkInv
  <1>3. row \in loader.metrics
    BY <1>1, <1>2, RowsAreTyped, RowToWrite
  <1> HIDE DEF row
  <1>4. row \in MetricRows(download.filings)
    BY <1>2, <1>3
  <1>5. \A m \in metrics' : m = row \/ (m \in metrics /\ ~SameKey(m, row))
    BY <1>1
  <1>6. /\ loader'.pc = loader.pc /\ loader'.rows = loader.rows
        /\ loader'.metrics = loader.metrics \ {row}
    <2>1. loader = [pc |-> loader.pc, rows |-> loader.rows, metrics |-> loader.metrics]
      BY DEF BulkInv
    <2> QED
      BY <1>1, <2>1
  <1>7. /\ BulkTypeOK'
        /\ (loader = [pc |-> loader.pc, rows |-> loader.rows, metrics |-> loader.metrics])'
    <2>1. \A m \in metrics' : m.derived \in BOOLEAN /\ \A x \in m.inputs : OfAFiling(x)
      BY <1>4, <1>5, RowsAreTyped DEF BulkInv, BulkTypeOK
    <2>2. BulkTypeOK'
      BY <1>1, <1>6, <2>1 DEF BulkInv, BulkTypeOK, OfAFiling
    <2>3. loader' = [pc |-> loader.pc, rows |-> loader.rows, metrics |-> loader.metrics \ {row}]
      BY <1>1 DEF BulkInv
    <2> QED
      BY <2>2, <2>3
  <1>8. \A m \in metrics' : \E F \in SUBSET download'.filings : m \in MetricRows(F)
    BY <1>1, <1>4, <1>5 DEF BulkInv
  <1>9. \A m, n \in metrics' : SameKey(m, n) => m = n
    BY <1>5 DEF BulkInv, SameKey
  <1>10. /\ loader'.metrics \subseteq MetricRows(download'.filings)
         /\ MetricRows(download'.filings) \subseteq loader'.metrics \cup metrics'
    <2>1. ASSUME NEW n \in MetricRows(download.filings), n \notin loader'.metrics
          PROVE  n \in metrics'
      <3>1. CASE n = row
        BY <1>1, <3>1
      <3>2. CASE n # row
        <4>1. n \in metrics
          BY <1>1, <1>6, <2>1, <3>2 DEF BulkInv
        <4>2. ~SameKey(n, row)
          BY <1>4, <3>2, OneRowOfAKey
        <4> QED
          BY <1>1, <4>1, <4>2
      <3> QED
        BY <3>1, <3>2
    <2> QED
      BY <1>1, <1>2, <1>6, <2>1
  <1> QED
    BY <1>7, <1>8, <1>9, <1>10 DEF BulkInv
LEMMA PersistFactSound == ASSUME BulkInv, PersistFact PROVE BulkInv'
  <1> DEFINE next == Min(loader.rows)
             row == Statements[next]
  <1>1. /\ loader.pc = "load" /\ loader.rows # {}
        /\ facts' = {x \in facts : x.tag # row.tag \/ x.filing # row.filing} \cup {row}
        /\ loader' = [loader EXCEPT !.rows = @ \ {next}]
        /\ UNCHANGED <<filed, download, metrics, loads, stops>>
    BY DEF PersistFact
  <1>2. OfAFiling(row)
    <2>1. /\ loader.rows \in SUBSET (1 .. Len(Statements)) /\ Len(Statements) \in Nat
          /\ DOMAIN Statements = 1 .. Len(Statements)
      BY SecBulkAssumption DEF BulkInv, BulkTypeOK
    <2>2. next \in loader.rows
      <3> HIDE DEF BulkInv
      <3> QED
        BY <1>1, <2>1, MinIsMember
    <2> QED
      BY <2>1, <2>2, StatementIsTyped
  <1> HIDE DEF row, next
  <1>3. loader' = [pc |-> loader.pc, rows |-> loader.rows \ {next}, metrics |-> loader.metrics]
    <2>1. loader = [pc |-> loader.pc, rows |-> loader.rows, metrics |-> loader.metrics]
      BY DEF BulkInv
    <2> QED
      BY <1>1, <2>1
  <1>4. BulkTypeOK'
    <2>1. \A x \in facts' : OfAFiling(x)
      BY <1>1, <1>2 DEF BulkInv, BulkTypeOK
    <2> QED
      BY <1>1, <1>3, <2>1 DEF BulkInv, BulkTypeOK, OfAFiling
  <1> QED
    BY <1>1, <1>3, <1>4 DEF BulkInv, SameKey

LEMMA BulkStepSound == ASSUME BulkInv, [BulkNext]_bulkVars PROVE BulkInv'
  <1>a. loader = [pc |-> loader.pc, rows |-> loader.rows, metrics |-> loader.metrics]
    BY DEF BulkInv
  <1>b. IdleLoader.pc = "idle" /\ IdleLoader.rows = {} /\ IdleLoader.metrics = {}
    BY DEF IdleLoader
  <1>1. ASSUME NEW f \in DOMAIN BulkFilings, FileWithSec(f) PROVE BulkInv'
    BY <1>1 DEF FileWithSec, BulkInv, BulkTypeOK, SameKey, OfAFiling
  <1>2. ASSUME loader.pc = "idle", UNCHANGED <<filed, loader, facts, metrics, loads>>,
               \E whole \in BOOLEAN : download' = Written(whole),
               stops' \in 0 .. MaxStops
        PROVE  BulkInv'
    <2>1. download'.filings = filed /\ download'.whole \in BOOLEAN
      BY <1>2 DEF Written
    <2>2. download.filings \subseteq filed
      BY DEF BulkInv, BulkTypeOK
    <2>3. BulkTypeOK'
      BY <1>2, <2>1 DEF BulkInv, BulkTypeOK, OfAFiling
    <2> QED
      BY <1>2, <2>1, <2>2, <2>3 DEF BulkInv, SameKey
  <1>3. CASE StartLoad
    <2>1. /\ loads' = loads + 1 /\ loads < MaxLoads
          /\ loader' = [pc |-> "load", rows |-> FactRows(download.filings),
                        metrics |-> MetricRows(download.filings)]
          /\ UNCHANGED <<filed, download, facts, metrics, stops>>
      BY <1>3 DEF StartLoad
    <2>2. loader'.rows \subseteq DOMAIN Statements
      BY <2>1 DEF FactRows
    <2>3. BulkTypeOK'
      BY <2>1, <2>2, SecBulkAssumption DEF BulkInv, BulkTypeOK, OfAFiling
    <2> QED
      BY <2>1, <2>3 DEF BulkInv, SameKey
  <1>4. CASE FinishLoad
    BY <1>4, <1>b DEF FinishLoad, BulkInv, BulkTypeOK, SameKey, OfAFiling, IdleLoader
  <1>5. CASE LoadDies
    <2>1. stops' \in 0 .. MaxStops
      BY <1>5, SecBulkAssumption DEF LoadDies, BulkInv, BulkTypeOK
    <2> QED
      BY <1>5, <1>b, <2>1 DEF LoadDies, BulkInv, BulkTypeOK, SameKey, OfAFiling, IdleLoader
  <1>6. CASE UNCHANGED bulkVars
    BY <1>6 DEF bulkVars, BulkInv, BulkTypeOK, SameKey, OfAFiling
  <1>7. CASE CollectBulk
    <2>1. stops' \in 0 .. MaxStops
      BY <1>7 DEF CollectBulk, BulkInv, BulkTypeOK
    <2> QED
      BY <1>2, <1>7, <2>1 DEF CollectBulk
  <1>8. CASE CollectDies
    <2>1. stops' \in 0 .. MaxStops
      BY <1>8, SecBulkAssumption DEF CollectDies, BulkInv, BulkTypeOK
    <2> QED
      BY <1>2, <1>8, <2>1 DEF CollectDies
  <1> QED
    BY <1>1, <1>3, <1>4, <1>5, <1>6, <1>7, <1>8, PersistFactSound, PersistMetricSound
    DEF BulkNext

\* A fact that is kept ends as late as any its filing states under its tag.
LEMMA KeptEndsLatest ==
    ASSUME NEW F, NEW k \in FactRows(F), Kept(FactRows(F), k),
           NEW j \in FactRows(F), Statements[j].tag = Statements[k].tag,
           Statements[j].filing = Statements[k].filing
    PROVE  Statements[k].end >= Statements[j].end
  <1>1. j \in DOMAIN Statements /\ k \in DOMAIN Statements
    BY DEF FactRows
  <1>2. KeptOver(k, j)
    BY DEF Kept, MetricOf, YearOf
  <1>3. After(SortKey(Statements[k]), SortKey(Statements[j]))
        \/ SortKey(Statements[k]) = SortKey(Statements[j])
    BY <1>2 DEF KeptOver
  <1> DEFINE a == SortKey(Statements[k])
             b == SortKey(Statements[j])
  <1>4. a \in Key /\ b \in Key
    BY <1>1, KeyIsTyped
  <1>5. /\ a[1] = b[1] /\ a[2] = b[2] /\ a[3] = Statements[k].end /\ b[3] = Statements[j].end
        /\ a[4] = b[4]
    BY DEF SortKey, FormRank
  <1>6. /\ Statements[k].end \in Int /\ Statements[j].end \in Int
        /\ a[1] \in Int /\ a[2] \in Int /\ a[4] \in Int
    BY <1>1, <1>4, StatementIsTyped DEF Key
  <1> HIDE DEF a, b
  <1>7. CASE After(a, b)
    BY <1>4, <1>5, <1>6, <1>7, AfterIs
  <1>8. CASE a = b
    BY <1>5, <1>6, <1>8
  <1> QED
    BY <1>3, <1>7, <1>8 DEF a, b

\* A fact that is kept was filed as late as any of its metric and year.
LEMMA KeptFiledLatest ==
    ASSUME NEW F, NEW k \in FactRows(F), Kept(FactRows(F), k),
           NEW j \in FactRows(F), MetricOf(Statements[j]) = MetricOf(Statements[k]),
           YearOf(Statements[j]) = YearOf(Statements[k])
    PROVE  BulkFilings[Statements[k].filing].filed >= BulkFilings[Statements[j].filing].filed
  <1> DEFINE a == SortKey(Statements[k])
             b == SortKey(Statements[j])
  <1>1. j \in DOMAIN Statements /\ k \in DOMAIN Statements
    BY DEF FactRows
  <1>2. After(a, b) \/ a = b
    BY DEF Kept, KeptOver
  <1>3. a \in Key /\ b \in Key
    BY <1>1, KeyIsTyped
  <1>4. a[1] = BulkFilings[Statements[k].filing].filed /\ b[1] = BulkFilings[Statements[j].filing].filed
    BY DEF SortKey
  <1>5. a[1] \in Int /\ b[1] \in Int
    BY <1>1, <1>4, StatementIsTyped
  <1> HIDE DEF a, b
  <1>6. a[1] >= b[1]
    BY <1>2, <1>3, <1>5, AfterIs
  <1> QED
    BY <1>4, <1>6

\* The archive of a row's filings may hold more than the filing of the fact.
LEMMA RowsAreOfTheirYear ==
    ASSUME NEW F, NEW m \in MetricRows(F), NEW x \in m.inputs, ReportsItsYear(x.filing)
    PROVE  x.end = m.year
  <1>1. PICK k \in FactRows(F) : x = Statements[k] /\ Kept(FactRows(F), k) /\ YearOf(x) = m.year
    BY RowsAreOfFilings
  <1>2. k \in FactRows({x.filing}) /\ k \in DOMAIN Statements /\ x.filing \in F
    BY <1>1 DEF FactRows
  <1>3. PICK j \in FactRows({x.filing}) :
            Statements[j].tag = x.tag /\ Statements[j].end = BulkFilings[x.filing].year
    BY <1>1, <1>2 DEF ReportsItsYear
  <1>4. x.end <= BulkFilings[x.filing].year
    BY <1>1, <1>2 DEF ReportsItsYear
  <1>5. j \in FactRows(F) /\ Statements[j].filing = x.filing
    BY <1>2, <1>3 DEF FactRows
  <1>6. x.end >= BulkFilings[x.filing].year
    BY <1>1, <1>3, <1>5, KeptEndsLatest
  <1>7. x.end \in Int /\ BulkFilings[x.filing].year \in Int
    BY <1>1, <1>2, StatementIsTyped
  <1> QED
    BY <1>1, <1>4, <1>6, <1>7 DEF YearOf

LEMMA YearsSound == BulkInv => MetricsAreOfTheirYear
  BY RowsAreOfTheirYear DEF BulkInv, MetricsAreOfTheirYear

\* Two rows of a key, the later of which was found among more filings.
LEMMA NewerRow ==
    ASSUME NEW G, NEW F \in SUBSET G, NEW m \in MetricRows(F), NEW n \in MetricRows(G),
           ~m.derived, SameKey(m, n), NEW x \in m.inputs, NEW y \in n.inputs
    PROVE  BulkFilings[y.filing].filed >= BulkFilings[x.filing].filed
  <1>1. PICK j \in FactRows(F) : x = Statements[j] /\ YearOf(x) = m.year /\ MetricOf(x) = m.metric
    BY RowsAreOfFilings
  <1>2. ~n.derived
    BY DEF SameKey
  <1>3. PICK k \in FactRows(G) : /\ y = Statements[k] /\ Kept(FactRows(G), k)
                                 /\ YearOf(y) = n.year /\ MetricOf(y) = n.metric
    BY <1>2, RowsAreOfFilings
  <1>4. j \in FactRows(G)
    BY DEF FactRows
  <1>5. MetricOf(Statements[j]) = MetricOf(Statements[k]) /\ YearOf(Statements[j]) = YearOf(Statements[k])
    BY <1>1, <1>3 DEF SameKey
  <1> QED
    BY <1>1, <1>3, <1>4, <1>5, KeptFiledLatest

LEMMA NeverOlderSound == ASSUME BulkInv, [BulkNext]_bulkVars PROVE NeverAnOlderFiling
  <1> SUFFICES ASSUME NEW m \in metrics, NEW n \in metrics', m.metric = n.metric, m.year = n.year,
                      ~m.derived, ~n.derived, NEW x \in m.inputs, NEW y \in n.inputs
               PROVE  BulkFilings[y.filing].filed >= BulkFilings[x.filing].filed
    BY DEF NeverAnOlderFiling
  <1>1. PICK F \in SUBSET download.filings : m \in MetricRows(F)
    BY DEF BulkInv
  <1>2. CASE n \in metrics
    <2>1. m.derived \in BOOLEAN /\ n.derived \in BOOLEAN
      BY <1>2 DEF BulkInv, BulkTypeOK
    <2>2. n = m
      BY <1>2, <2>1 DEF BulkInv, SameKey
    <2>3. m \in MetricRows(F) /\ SameKey(m, m)
      BY <1>1 DEF SameKey
    <2> QED
      BY <2>2, <2>3, NewerRow
  <1>3. CASE n \notin metrics
    <2>1. PersistMetric
      BY <1>3 DEF BulkNext, bulkVars, FileWithSec, CollectBulk, CollectDies, StartLoad,
                  PersistFact, FinishLoad, LoadDies
    <2>2. n \in loader.metrics
      <3> DEFINE row == CHOOSE r \in loader.metrics : r.derived => \A s \in loader.metrics : s.derived
      <3>1. n = row /\ loader.metrics # {} /\ loader.metrics \subseteq MetricRows(download.filings)
        BY <1>3, <2>1 DEF PersistMetric, BulkInv
      <3>2. row \in loader.metrics
        BY <3>1, RowsAreTyped, RowToWrite
      <3> QED
        BY <3>1, <3>2
    <2>3. n \in MetricRows(download.filings) /\ n.derived \in BOOLEAN /\ m.derived \in BOOLEAN
      BY <1>1, <2>1, <2>2, RowsAreTyped DEF BulkInv, PersistMetric
    <2>4. SameKey(m, n)
      BY <2>3 DEF SameKey
    <2> QED
      BY <1>1, <2>3, <2>4, NewerRow
  <1> QED
    BY <1>2, <1>3

\* A year that could be derived from a row's filings can be from more of them, if
\* it has shares.
LEMMA StaysDerivable ==
    ASSUME NEW G, NEW F \in SUBSET G, NEW metric \in DOMAIN DerivedFrom, NEW y,
           Derivable(PrimaryOf(F), metric, y), HasShares(PrimaryOf(G), y)
    PROVE  /\ Derivable(PrimaryOf(G), metric, y)
           /\ \E q \in PrimaryOf(G) : q.year = y
  <1>1. ASSUME NEW input \in DerivedFrom[metric]
        PROVE  \E p \in PrimaryOf(G) : p.metric = input /\ p.year = y
    <2>1. PICK p \in PrimaryOf(F) : p.metric = input /\ p.year = y
      BY <1>1 DEF Derivable
    <2>2. PICK k \in FactRows(F) : p = PrimaryRow(Statements[k])
      BY <2>1, InPrimary DEF PrimaryOf
    <2>3. k \in FactRows(G)
      BY <2>2 DEF FactRows
    <2>4. input = MetricOf(Statements[k]) /\ y = YearOf(Statements[k])
      BY <2>1, <2>2, PrimaryRowIs
    <2> QED
      BY <2>3, <2>4, PrimaryExists
  <1> QED
    BY <1>1 DEF Derivable, HasShares

LEMMA DerivedSound == ASSUME BulkInv, FinishLoad PROVE DerivedFollowsPrimary
  <1> DEFINE G == download.filings
             primary == {m \in metrics : ~m.derived}
  <1>1. MetricRows(G) \subseteq metrics
    BY DEF FinishLoad, BulkInv
  <1>2. primary = PrimaryOf(G)
    <2>1. ASSUME NEW m \in metrics, ~m.derived PROVE m \in PrimaryOf(G)
      <3>1. PICK F \in SUBSET G : m \in MetricRows(F)
        BY DEF BulkInv
      <3>2. PICK k \in FactRows(F) : m = PrimaryRow(Statements[k])
        BY <2>1, <3>1, KindOfRow, InPrimary DEF PrimaryOf
      <3>3. k \in FactRows(G)
        BY <3>2 DEF FactRows
      <3>4. PICK p \in PrimaryOf(G) : p.metric = MetricOf(Statements[k]) /\ p.year = YearOf(Statements[k])
        BY <3>3, PrimaryExists
      <3>5. ~p.derived /\ p \in metrics
        <4>1. PICK l : p = PrimaryRow(Statements[l])
          BY InPrimary DEF PrimaryOf
        <4> QED
          BY <1>1, <4>1, PrimaryRowIs, MetricRowsAre
      <3>6. SameKey(m, p)
        <4>1. m.metric = p.metric /\ m.year = p.year
          BY <3>2, <3>4, PrimaryRowIs
        <4>2. m.derived = FALSE /\ p.derived = FALSE
          <5>1. PICK l : p = PrimaryRow(Statements[l])
            BY InPrimary DEF PrimaryOf
          <5> QED
            BY <3>2, <5>1, PrimaryRowIs
        <4> QED
          BY <4>1, <4>2 DEF SameKey
      <3> QED
        BY <3>5, <3>6 DEF BulkInv
    <2>2. ASSUME NEW p \in PrimaryOf(G) PROVE p \in primary
      <3>1. PICK l : p = PrimaryRow(Statements[l])
        BY InPrimary DEF PrimaryOf
      <3> QED
        BY <1>1, <3>1, PrimaryRowIs, MetricRowsAre
    <2> QED
      BY <2>1, <2>2
  <1>3. ASSUME NEW m \in metrics, m.derived, HasShares(PrimaryOf(G), m.year)
        PROVE  m = DerivedRow(PrimaryOf(G), m.metric, m.year)
    <2>1. PICK F \in SUBSET G : m \in MetricRows(F)
      BY DEF BulkInv
    <2>2. PICK metric \in DOMAIN DerivedFrom, p \in PrimaryOf(F) :
              Derivable(PrimaryOf(F), metric, p.year) /\ m = DerivedRow(PrimaryOf(F), metric, p.year)
      BY <1>3, <2>1, KindOfRow
    <2>3. m.metric = metric /\ m.year = p.year /\ m.derived = TRUE
      BY <2>2, DerivedRowIs
    <2>4. /\ Derivable(PrimaryOf(G), metric, p.year)
          /\ \E q \in PrimaryOf(G) : q.year = p.year
      BY <1>3, <2>2, <2>3, StaysDerivable
    <2> DEFINE d == DerivedRow(PrimaryOf(G), metric, p.year)
    <2>5. d \in metrics
      <3>1. d \in DerivedRows(PrimaryOf(G))
        BY <2>4, InDerived
      <3> QED
        BY <1>1, <3>1, MetricRowsAre
    <2>6. SameKey(m, d)
      <3>1. d.metric = metric /\ d.year = p.year /\ d.derived = TRUE
        BY DerivedRowIs
      <3> HIDE DEF d
      <3> QED
        BY <2>3, <3>1 DEF SameKey
    <2> HIDE DEF d
    <2>7. m = d
      BY <2>5, <2>6 DEF BulkInv
    <2> QED
      BY <2>3, <2>7 DEF d
  <1> HIDE DEF G
  <1> QED
    BY <1>2, <1>3 DEF DerivedFollowsPrimary

\* For any filings, tags, loads and deaths of loads: the metrics of a year are of the
\* newest filing that states them and of no past period, and what is derived of them
\* follows when a load ends.
THEOREM BulkFollowsTheFilings == BulkSpec => BulkMetricsFollowTheFilings
  <1>1. BulkInv /\ [BulkNext]_bulkVars => BulkInv'
    BY BulkStepSound
  <1>2. BulkInv => MetricsAreOfTheirYear
    BY YearsSound
  <1>3. BulkInv /\ [BulkNext]_bulkVars => NeverAnOlderFiling
    BY NeverOlderSound
  <1>4. BulkInv => (FinishLoad => DerivedFollowsPrimary)
    BY DerivedSound
  <1> QED
    BY <1>1, <1>2, <1>3, <1>4, BulkInitSound, PTL DEF BulkSpec, BulkMetricsFollowTheFilings

-----------------------------------------------------------------------------
(* normalize-us.  A command with force_refresh takes no cached text, so    *)
(* that what it has gathered of a filing ends with the filing's last table *)
(* (Reading), and what it has stored ends with that table's record         *)
(* (Persisting).                                                           *)

\* What is to be read: <<f, 0>> is the index of a filing.
Places    == {<<f, 0>> : f \in Filings} \cup Urls
Texts(u)  == Exhibits[u[1]][u[2]].cuts \cup {Exhibits[u[1]][u[2]].whole}
Collected == UNION {{[filing |-> u[1], tables |-> t] : t \in Texts(u)} : u \in Urls}
Items     == {[filing |-> d.filing, record |-> The(RecordsOf(d.tables, p))] :
                d \in Collected, p \in Policies}

\* Of a filing there is its index alone, or exhibits in their order.
Ordered(s) ==
    \A i, j \in DOMAIN s : i < j /\ s[i][1] = s[j][1] => 0 < s[i][2] /\ s[i][2] < s[j][2]

\* The last exhibit of a filing that has a table.
IsLast(f, l) ==
    /\ l \in DOMAIN Exhibits[f] /\ Exhibits[f][l].whole # << >>
    /\ \A j \in DOMAIN Exhibits[f] : j > l => Exhibits[f][j].whole = << >>

ToRead(f, l, s)   == \E i \in DOMAIN s : s[i] = <<f, 0>> \/ s[i] = <<f, l>>
ReadPast(f, l, s) == \A i \in DOMAIN s : s[i][1] = f => s[i][2] > l
Gathered(f, l, s) ==
    \E k \in DOMAIN s : /\ s[k] = [filing |-> f, tables |-> Exhibits[f][l].whole]
                        /\ \A j \in DOMAIN s : j > k => s[j].filing # f

Reading ==
    /\ command.todo \in Seq(Places) /\ command.found \in Seq(Collected)
    /\ command.force =>
         /\ Ordered(command.todo)
         /\ \A f \in InRange(submissions.parsed.filings) : \A l : IsLast(f, l) =>
                \/ ToRead(f, l, command.todo)
                \/ ReadPast(f, l, command.todo) /\ Gathered(f, l, command.found)

Result(f, l, policy) == Latest(Record(BestTable(Exhibits[f][l].whole).rows, policy))

ToStore(f, l, policy, s) ==
    \E k \in DOMAIN s : /\ s[k].filing = f /\ Latest(s[k].record) = Result(f, l, policy)
                        /\ \A j \in DOMAIN s : j > k => s[j].filing # f
IsStored(f, l, policy) ==
    \E row \in earnings : IsRowOf(row, [filing |-> f]) /\ row.latest = Result(f, l, policy)

Persisting ==
    /\ command.todo \in Seq(Items)
    /\ command.force =>
         \A f \in InRange(submissions.parsed.filings) : \A l : IsLast(f, l) =>
             \/ ToStore(f, l, command.policy, command.todo)
             \/ /\ IsStored(f, l, command.policy)
                /\ \A k \in DOMAIN command.todo : command.todo[k].filing # f

CommandIsTyped ==
    \/ command = NoCommand
    \/ /\ command.pc \in {"list", "read", "persist"} /\ command.policy \in Policies
       /\ command = [pc |-> command.pc, range |-> command.range, policy |-> command.policy,
                     force |-> command.force, persist |-> command.persist,
                     todo |-> command.todo, found |-> command.found]

EdgarInv ==
    /\ EdgarTypeOK /\ CommandIsTyped
    /\ index = [f \in Filings |-> index[f]] /\ exhibit = [u \in Urls |-> exhibit[u]]
    /\ command.pc = "list" => command.found = << >>
    /\ command.pc = "read" => Reading
    /\ command.pc = "persist" => Persisting

LEMMA ExhibitsAreSequences ==
    ASSUME NEW f \in Filings
    PROVE  DOMAIN Exhibits[f] = 1 .. Len(Exhibits[f]) /\ Len(Exhibits[f]) \in Nat
  BY EdgarAssumption

LEMMA UrlIs ==
    \A u : u \in Urls <=> \E f \in Filings : \E i \in DOMAIN Exhibits[f] : u = <<f, i>>
  BY DEF Urls

LEMMA PlaceIs ==
    ASSUME NEW p \in Places
    PROVE  p[1] \in Filings /\ p[2] \in Nat /\ p = <<p[1], p[2]>> /\ (p[2] # 0 => p \in Urls)
  BY UrlIs, ExhibitsAreSequences DEF Places

\* The URLs of a listing: one index for each filing.
LEMMA ListingIs ==
    ASSUME NEW filings \in SUBSET Filings
    PROVE  LET s == SetToSeq({<<f, 0>> : f \in filings})
           IN  /\ s \in Seq(Places) /\ Ordered(s)
               /\ \A f \in filings : \E i \in DOMAIN s : s[i] = <<f, 0>>
  <1> DEFINE T == {<<f, 0>> : f \in filings}
             g == [f \in filings |-> <<f, 0>>]
             s == SetToSeq(T)
             n == Cardinality(T)
  <1>1. IsFiniteSet(T)
    <2>1. IsFiniteSet(filings)
      BY EdgarAssumption, FS_Subset
    <2>2. g \in Surjection(filings, T)
      BY DEF Surjection
    <2> QED
      BY <2>1, <2>2, FS_Surjection
  <1>2. n \in Nat /\ ExistsBijection(1 .. n, T)
    BY <1>1, FS_CardinalityType
  <1>3. IsFiniteSet(1 .. n) /\ Cardinality(1 .. n) = n
    BY <1>2, FS_Interval
  <1>4. \A p \in T : p \in Places /\ p[2] = 0
    BY DEF Places
  <1>5. \A f \in filings : <<f, 0>> \in T
    OBVIOUS
  <1> HIDE DEF T, g
  <1>6. s \in [1 .. n -> T] /\ IsInjective(s)
    BY <1>2 DEF SetToSeq, ExistsBijection, Bijection, Injection
  <1>7. s \in Surjection(1 .. n, T)
    <2>1. s \in Injection(1 .. n, T)
      BY <1>6 DEF Injection
    <2> QED
      BY <1>1, <1>3, <2>1, FS_Injection
  <1>8. \A p \in T : \E i \in DOMAIN s : s[i] = p
    BY <1>6, <1>7 DEF Surjection
  <1>9. \A i, j \in DOMAIN s : i # j => s[i] # s[j]
    BY <1>6 DEF IsInjective
  <1> HIDE DEF s
  <1>10. s \in Seq(Places)
    BY <1>2, <1>4, <1>6
  <1>11. Ordered(s)
    <2> SUFFICES ASSUME NEW i \in DOMAIN s, NEW j \in DOMAIN s, i < j, s[i][1] = s[j][1] PROVE FALSE
      BY DEF Ordered
    <2>1. s[i] = <<s[i][1], 0>> /\ s[j] = <<s[j][1], 0>>
      BY <1>4, <1>6, PlaceIs
    <2>2. i # j
      BY <1>6
    <2> QED
      BY <1>9, <2>1, <2>2
  <1> QED
    BY <1>5, <1>8, <1>10, <1>11 DEF s, T


LEMMA EdgarInitSound == EdgarInit => EdgarInv
  <1> SUFFICES ASSUME EdgarInit PROVE EdgarInv
    OBVIOUS
  <1>1. Cardinality({}) = 0
    BY FS_EmptySet
  <1>2. command.pc = "idle" /\ CommandIsTyped
    BY DEF EdgarInit, NoCommand, CommandIsTyped
  <1>3. \A f \in Filings : index[f] = {}
    BY DEF EdgarInit
  <1>4. \A u \in Urls : exhibit[u] = {}
    BY DEF EdgarInit
  <1>5. submissions \in [text : FileType, parsed : FileType]
    BY DEF EdgarInit, NoFile, FileType
  <1>6. /\ index = [f \in Filings |-> index[f]]
        /\ exhibit = [u \in Urls |-> exhibit[u]]
    BY DEF EdgarInit
  <1>7. EdgarTypeOK
    BY <1>1, <1>2, <1>3, <1>4, <1>5, EdgarAssumption DEF EdgarInit, EdgarTypeOK
  <1> QED
    BY <1>2, <1>6, <1>7 DEF EdgarInv

\* A listing starts with the index of each filing that it lists.
LEMMA ListingReads ==
    ASSUME EdgarInv, command.pc = "list", NEW filings \in SUBSET Filings,
           Listed(InRange(filings)), submissions'.parsed.filings = filings
    PROVE  command'.pc = "read" /\ CommandIsTyped' /\ Reading'
  <1> DEFINE fs == InRange(filings)
             q == SetToSeq({<<f, 0>> : f \in fs})
  <1>1. fs \in SUBSET Filings
    BY DEF InRange
  <1>2. command' = [command EXCEPT !.pc = "read", !.todo = q]
    BY DEF Listed
  <1> HIDE DEF fs
  <1>3. /\ q \in Seq(Places) /\ Ordered(q)
        /\ \A f \in fs : \E i \in DOMAIN q : q[i] = <<f, 0>>
    BY <1>1, ListingIs
  <1> HIDE DEF q
  <1>4. command.found = << >> /\ CommandIsTyped /\ command # NoCommand
    BY DEF EdgarInv, NoCommand
  <1>5. command' = [pc |-> "read", range |-> command.range, policy |-> command.policy,
                    force |-> command.force, persist |-> command.persist,
                    todo |-> q, found |-> << >>] /\ command.policy \in Policies
    BY <1>2, <1>4 DEF CommandIsTyped
  <1>6. CommandIsTyped'
    BY <1>5 DEF CommandIsTyped
  <1>7. InRange(submissions.parsed.filings)' = fs
    BY <1>5 DEF InRange, fs
  <1>8. \A f \in fs : \A l : ToRead(f, l, q)
    BY <1>3 DEF ToRead
  <1>9. command'.todo = q /\ command'.found = << >>
    BY <1>5
  <1>10. command'.todo \in Seq(Places) /\ command'.found \in Seq(Collected)
    BY <1>3, <1>9
  <1>11. Reading'
    BY <1>3, <1>7, <1>8, <1>9, <1>10 DEF Reading
  <1> QED
    BY <1>5, <1>6, <1>11

\* An index is replaced by the exhibits that it lists, of which the whole index
\* lists the last one.
LEMMA IndexKeepsReading ==
    ASSUME EdgarInv, Reading, NEW f \in Filings, ReadIndex(f)
    PROVE  Reading'
  <1> DEFINE s == command.todo
             n == IndexText(f)
             p == [i \in 1 .. n |-> <<f, i>>]
             t == Tail(s)
             r == p \o t
  <1>1. command.pc = "read" /\ s # << >> /\ Head(s) = <<f, 0>>
    BY DEF ReadIndex, NextIndex
  <1>2. /\ command' = [command EXCEPT !.todo = r]
        /\ UNCHANGED submissions
    BY DEF ReadIndex
  <1>3. s \in Seq(Places) /\ command.found \in Seq(Collected)
    BY DEF Reading
  <1>4. n \in 0 .. Len(Exhibits[f]) /\ (command.force => n = Len(Exhibits[f]))
    BY ExhibitsAreSequences DEF IndexText, The, EdgarInv, EdgarTypeOK
  <1>5. /\ command'.todo = r /\ command'.found = command.found
        /\ command'.force = command.force /\ command'.range = command.range
    <2>1. CommandIsTyped /\ command # NoCommand
      BY <1>1 DEF EdgarInv, NoCommand
    <2> HIDE DEF r, s
    <2> QED
      BY <1>2, <2>1 DEF CommandIsTyped
  <1>6. InRange(submissions.parsed.filings)' = InRange(submissions.parsed.filings)
    BY <1>2, <1>5 DEF InRange
  <1>7. \A i \in 1 .. n : p[i] \in Places
    BY <1>4, ExhibitsAreSequences, UrlIs DEF Places
  <1>8. n \in Nat /\ p \in Seq(Places) /\ Len(p) = n /\ \A i \in 1 .. n : p[i] = <<f, i>>
    BY <1>4, <1>7, ExhibitsAreSequences
  <1> HIDE DEF n, p
  <1>9. /\ t \in Seq(Places) /\ Len(t) = Len(s) - 1 /\ Len(s) \in Nat /\ Len(s) >= 1
        /\ \A i \in 1 .. Len(t) : t[i] = s[i + 1]
        /\ s[1] = <<f, 0>>
    BY <1>1, <1>3
  <1> HIDE DEF s, t
  <1>10. /\ r \in Seq(Places) /\ Len(r) = n + Len(t)
         /\ \A i \in 1 .. n : r[i] = p[i]
         /\ \A i \in 1 .. Len(t) : r[n + i] = t[i]
    <2>1. r \in Seq(Places) /\ Len(r) = Len(p) + Len(t)
      <3>1. p \in Seq(Places) /\ t \in Seq(Places)
        BY <1>8, <1>9
      <3> QED
        BY ONLY <3>1 DEF r
    <2>2. \A i \in 1 .. Len(p) : r[i] = p[i]
      BY <1>8, <1>9
    <2>3. ASSUME NEW i \in 1 .. Len(t) PROVE r[n + i] = t[i]
      <3>1. n + i \in 1 .. Len(p) + Len(t) /\ ~(n + i <= Len(p)) /\ (n + i) - Len(p) = i
        BY <1>8, <1>9
      <3> QED
        BY <1>8, <1>9, <3>1
    <2> QED
      BY <1>8, <2>1, <2>2, <2>3
  <1>11. \A i \in 1 .. Len(r) : i <= n \/ (i - n \in 1 .. Len(t) /\ r[i] = t[i - n])
    <2> SUFFICES ASSUME NEW i \in 1 .. Len(r), ~(i <= n)
                 PROVE  i - n \in 1 .. Len(t) /\ r[i] = t[i - n]
      OBVIOUS
    <2> HIDE DEF r
    <2>1. i - n \in 1 .. Len(t) /\ n + (i - n) = i
      BY <1>8, <1>9, <1>10
    <2> QED
      BY <1>10, <2>1
  <1>12. DOMAIN r = 1 .. Len(r) /\ DOMAIN s = 1 .. Len(s) /\ DOMAIN t = 1 .. Len(t)
    BY <1>3, <1>9, <1>10 DEF s
  <1> HIDE DEF r
  <1>13. ASSUME command.force PROVE Ordered(r)
    <2>1. Ordered(s)
      BY <1>13 DEF Reading, s
    <2>2. \A i \in 1 .. Len(t) : t[i][1] # f
      <3> SUFFICES ASSUME NEW i \in 1 .. Len(t), t[i][1] = f PROVE FALSE
        OBVIOUS
      <3>1. 1 \in DOMAIN s /\ i + 1 \in DOMAIN s /\ 1 < i + 1 /\ s[1][1] = s[i + 1][1]
        BY <1>9, <1>12
      <3>2. 0 < s[1][2]
        BY <2>1, <3>1 DEF Ordered
      <3> QED
        BY <1>9, <3>2
    <2> SUFFICES ASSUME NEW i \in 1 .. Len(r), NEW j \in 1 .. Len(r), i < j, r[i][1] = r[j][1]
                 PROVE  0 < r[i][2] /\ r[i][2] < r[j][2]
      BY <1>12 DEF Ordered
    <2>3. CASE j <= n
      <3>1. r[i] = <<f, i>> /\ r[j] = <<f, j>>
        BY <1>8, <1>10, <2>3
      <3> QED
        BY <3>1
    <2>4. CASE ~(j <= n)
      <3>1. j - n \in 1 .. Len(t) /\ r[j] = t[j - n]
        BY <1>11, <2>4
      <3>2. CASE i <= n
        <4>1. r[i] = <<f, i>>
          BY <1>8, <1>10, <3>2
        <4> QED
          BY <2>2, <3>1, <4>1
      <3>3. CASE ~(i <= n)
        <4>1. i - n \in 1 .. Len(t) /\ r[i] = t[i - n]
          BY <1>11, <3>3
        <4>2. r[i] = s[i - n + 1] /\ r[j] = s[j - n + 1]
          BY <1>9, <3>1, <4>1
        <4>3. i - n + 1 \in DOMAIN s /\ j - n + 1 \in DOMAIN s /\ i - n + 1 < j - n + 1
          BY <1>8, <1>9, <1>12, <3>1, <4>1
        <4> QED
          BY <2>1, <4>2, <4>3 DEF Ordered
      <3> QED
        BY <3>2, <3>3
    <2> QED
      BY <2>3, <2>4
  <1>14. ASSUME command.force, NEW g, NEW l, IsLast(g, l), ToRead(g, l, s) PROVE ToRead(g, l, r)
    <2>1. l \in DOMAIN Exhibits[g]
      BY <1>14 DEF IsLast
    <2>2. PICK i \in DOMAIN s : s[i] = <<g, 0>> \/ s[i] = <<g, l>>
      BY <1>14 DEF ToRead
    <2>3. CASE i = 1
      <3>1. g = f
        BY <1>9, <2>2, <2>3
      <3>2. l \in 1 .. n
        BY <1>4, <1>14, <2>1, <3>1, ExhibitsAreSequences
      <3>3. r[l] = <<g, l>> /\ l \in DOMAIN r
        BY <1>8, <1>9, <1>10, <1>12, <3>1, <3>2
      <3> QED
        BY <3>3 DEF ToRead
    <2>4. CASE i # 1
      <3>1. i - 1 \in 1 .. Len(t) /\ s[i] = t[i - 1]
        <4>1. i - 1 \in 1 .. Len(t) /\ (i - 1) + 1 = i
          BY <1>9, <1>12, <2>4
        <4> QED
          BY <1>9, <4>1
      <3>2. n + (i - 1) \in DOMAIN r /\ r[n + (i - 1)] = s[i]
        BY <1>8, <1>9, <1>10, <1>12, <3>1
      <3> QED
        BY <2>2, <3>2 DEF ToRead
    <2> QED
      BY <2>3, <2>4
  <1>15. ASSUME NEW g \in Filings, NEW l, IsLast(g, l), ReadPast(g, l, s) PROVE ReadPast(g, l, r)
    <2>1. l \in Nat /\ l > 0
      BY <1>15, ExhibitsAreSequences DEF IsLast
    <2>2. f # g
      <3>1. 1 \in DOMAIN s
        BY <1>9, <1>12
      <3> QED
        BY <1>9, <1>15, <2>1, <3>1 DEF ReadPast
    <2> SUFFICES ASSUME NEW i \in DOMAIN r, r[i][1] = g PROVE r[i][2] > l
      BY DEF ReadPast
    <2>3. ~(i <= n)
      BY <1>8, <1>10, <1>12, <2>2
    <2>4. i - n \in 1 .. Len(t) /\ r[i] = t[i - n]
      BY <1>11, <1>12, <2>3
    <2>5. i - n + 1 \in DOMAIN s /\ r[i] = s[i - n + 1]
      BY <1>9, <1>12, <2>4
    <2> QED
      BY <1>15, <2>5 DEF ReadPast
  <1>16. InRange(submissions.parsed.filings) \subseteq Filings
    BY DEF InRange, EdgarInv, EdgarTypeOK, FileType
  <1> QED
    BY <1>3, <1>5, <1>6, <1>10, <1>13, <1>14, <1>15, <1>16 DEF Reading, s


\* What is read of an exhibit is its whole text or a cut one.
LEMMA TextIs ==
    ASSUME EdgarInv, NEW u \in Urls
    PROVE  /\ ExhibitText(u) \in Texts(u)
           /\ command.force => ExhibitText(u) = Exhibits[u[1]][u[2]].whole
  BY DEF ExhibitText, Fetches, The, Texts, EdgarInv, EdgarTypeOK

\* An exhibit that is read goes from what is to be read to what is found; the last
\* one of a filing that has a table is followed by none that has.
LEMMA ExhibitKeepsReading ==
    ASSUME EdgarInv, Reading, NEW u \in Urls, ReadExhibit(u)
    PROVE  Reading'
  <1> DEFINE s == command.todo
             t == Tail(s)
             w == command.found
             tables == ExhibitText(u)
             doc == [filing |-> u[1], tables |-> tables]
             v == IF tables = << >> THEN w ELSE Append(w, doc)
  <1>1. command.pc = "read" /\ s # << >> /\ Head(s) = u
    BY DEF ReadExhibit, NextExhibit
  <1>2. command' = [command EXCEPT !.todo = t, !.found = v] /\ UNCHANGED submissions
    BY DEF ReadExhibit
  <1>3. s \in Seq(Places) /\ w \in Seq(Collected)
    BY DEF Reading
  <1>4. /\ command'.todo = t /\ command'.found = v
        /\ command'.force = command.force /\ command'.range = command.range
    <2>1. CommandIsTyped /\ command # NoCommand
      BY <1>1 DEF EdgarInv, NoCommand
    <2> HIDE DEF t, v
    <2> QED
      BY <1>2, <2>1 DEF CommandIsTyped
  <1>5. InRange(submissions.parsed.filings)' = InRange(submissions.parsed.filings)
    BY <1>2, <1>4 DEF InRange
  <1>6. /\ tables \in Texts(u)
        /\ command.force => tables = Exhibits[u[1]][u[2]].whole
    BY TextIs
  <1>7. doc \in Collected
    BY <1>6 DEF Collected
  <1>8. u[1] \in Filings /\ u[2] \in DOMAIN Exhibits[u[1]] /\ u = <<u[1], u[2]>>
        /\ u[2] \in Nat /\ u[2] > 0
    BY UrlIs, ExhibitsAreSequences
  <1> HIDE DEF tables
  <1>9. doc.filing = u[1] /\ doc.tables = tables
    OBVIOUS
  <1> HIDE DEF doc
  <1>10. /\ t \in Seq(Places) /\ Len(t) = Len(s) - 1 /\ Len(s) \in Nat /\ Len(s) >= 1
         /\ \A i \in 1 .. Len(t) : t[i] = s[i + 1]
         /\ s[1] = u
    BY <1>1, <1>3
  <1>11. DOMAIN s = 1 .. Len(s) /\ DOMAIN t = 1 .. Len(t)
    BY <1>3, <1>10
  <1> HIDE DEF s, t
  <1>12. v \in Seq(Collected) /\ Len(w) \in Nat /\ DOMAIN w = 1 .. Len(w)
    BY <1>3, <1>7
  <1>13. ASSUME tables # << >>
         PROVE  /\ DOMAIN v = 1 .. (Len(w) + 1) /\ v[Len(w) + 1] = doc
                /\ \A i \in 1 .. Len(w) : v[i] = w[i]
    BY <1>3, <1>7, <1>13
  <1>14. tables = << >> => v = w
    OBVIOUS
  <1> HIDE DEF v, w
  <1>15. ASSUME Ordered(s) PROVE Ordered(t)
    <2> SUFFICES ASSUME NEW i \in 1 .. Len(t), NEW j \in 1 .. Len(t), i < j, t[i][1] = t[j][1]
                 PROVE  0 < t[i][2] /\ t[i][2] < t[j][2]
      BY <1>11 DEF Ordered
    <2>1. i + 1 \in DOMAIN s /\ j + 1 \in DOMAIN s /\ i + 1 < j + 1
      BY <1>10, <1>11
    <2>2. s[i + 1] = t[i] /\ s[j + 1] = t[j]
      BY <1>10
    <2> QED
      BY <1>15, <2>1, <2>2 DEF Ordered
  <1>16. ASSUME NEW g, NEW l, Ordered(s), u = <<g, l>> PROVE ReadPast(g, l, t)
    <2> SUFFICES ASSUME NEW i \in DOMAIN t, t[i][1] = g PROVE t[i][2] > l
      BY DEF ReadPast
    <2>1. 1 \in DOMAIN s /\ i + 1 \in DOMAIN s /\ 1 < i + 1 /\ s[i + 1] = t[i]
      BY <1>10, <1>11
    <2>2. s[1][1] = s[i + 1][1] /\ s[1][2] = l
      BY <1>10, <1>16, <2>1
    <2>3. l < s[i + 1][2]
      BY <1>16, <2>1, <2>2 DEF Ordered
    <2>4. l \in Nat /\ t[i][2] \in Nat
      BY <1>8, <1>10, <1>11, <1>16, PlaceIs
    <2> QED
      BY <2>1, <2>3, <2>4
  <1>17. ASSUME NEW g, NEW l, u = <<g, l>>, IsLast(g, l), command.force PROVE Gathered(g, l, v)
    <2>1. tables = Exhibits[g][l].whole /\ tables # << >> /\ u[1] = g
      BY <1>6, <1>17 DEF IsLast
    <2>2. v[Len(w) + 1] = [filing |-> g, tables |-> Exhibits[g][l].whole]
      BY <1>13, <2>1 DEF doc
    <2>3. Len(w) + 1 \in DOMAIN v /\ \A j \in DOMAIN v : ~(j > Len(w) + 1)
      BY <1>12, <1>13, <2>1
    <2> QED
      BY <2>2, <2>3 DEF Gathered
  <1>18. ASSUME NEW g, NEW l, ToRead(g, l, s), u # <<g, l>> PROVE ToRead(g, l, t)
    <2>1. PICK i \in DOMAIN s : s[i] = <<g, 0>> \/ s[i] = <<g, l>>
      BY <1>18 DEF ToRead
    <2>2. i # 1
      BY <1>8, <1>10, <1>18, <2>1
    <2>3. i - 1 \in 1 .. Len(t) /\ (i - 1) + 1 = i
      BY <1>10, <1>11, <2>2
    <2>4. t[i - 1] = s[i] /\ i - 1 \in DOMAIN t
      BY <1>10, <1>11, <2>3
    <2> QED
      BY <2>1, <2>4 DEF ToRead
  <1>19. ASSUME NEW g, NEW l, ReadPast(g, l, s) PROVE ReadPast(g, l, t)
    <2> SUFFICES ASSUME NEW i \in DOMAIN t, t[i][1] = g PROVE t[i][2] > l
      BY DEF ReadPast
    <2>1. i + 1 \in DOMAIN s /\ s[i + 1] = t[i]
      BY <1>10, <1>11
    <2> QED
      BY <1>19, <2>1 DEF ReadPast
  <1>20. ASSUME NEW g, NEW l, IsLast(g, l), ReadPast(g, l, s), Gathered(g, l, w), command.force
         PROVE  Gathered(g, l, v)
    <2>1. CASE tables = << >>
      BY <1>14, <1>20, <2>1
    <2>2. CASE tables # << >>
      <3>1. u[1] # g
        <4> SUFFICES ASSUME u[1] = g PROVE FALSE
          OBVIOUS
        <4>1. u[2] > l
          <5>1. 1 \in DOMAIN s
            BY <1>10, <1>11
          <5> QED
            BY <1>10, <1>20, <5>1 DEF ReadPast
        <4>2. Exhibits[g][u[2]].whole = << >>
          BY <1>8, <1>20, <4>1 DEF IsLast
        <4> QED
          BY <1>6, <1>20, <2>2, <4>2
      <3>2. PICK k \in DOMAIN w : /\ w[k] = [filing |-> g, tables |-> Exhibits[g][l].whole]
                                  /\ \A j \in DOMAIN w : j > k => w[j].filing # g
        BY <1>20 DEF Gathered
      <3>3. k \in DOMAIN v /\ v[k] = w[k]
        BY <1>12, <1>13, <2>2
      <3>4. ASSUME NEW j \in DOMAIN v, j > k PROVE v[j].filing # g
        <4>1. CASE j \in 1 .. Len(w)
          BY <1>12, <1>13, <2>2, <3>2, <3>4, <4>1
        <4>2. CASE j = Len(w) + 1
          BY <1>9, <1>13, <2>2, <3>1, <4>2
        <4> QED
          BY <1>12, <1>13, <2>2, <4>1, <4>2
      <3> QED
        BY <3>2, <3>3, <3>4 DEF Gathered
    <2> QED
      BY <2>1, <2>2
  <1>21. ASSUME command.force, NEW g, NEW l, IsLast(g, l),
                ToRead(g, l, s) \/ (ReadPast(g, l, s) /\ Gathered(g, l, w))
         PROVE  ToRead(g, l, t) \/ (ReadPast(g, l, t) /\ Gathered(g, l, v))
    <2>1. Ordered(s)
      BY <1>21 DEF Reading, s
    <2> QED
      BY <1>16, <1>17, <1>18, <1>19, <1>20, <1>21, <2>1
  <1>22. command.force => Ordered(t)
    BY <1>15 DEF Reading, s
  <1>23. /\ t \in Seq(Places) /\ v \in Seq(Collected)
    BY <1>10, <1>12
  <1> QED
    BY <1>4, <1>5, <1>21, <1>22, <1>23 DEF Reading, s, w


\* The records are those of what was gathered, in the same order.
LEMMA NormalizeStartsPersisting ==
    ASSUME EdgarInv, Reading, Normalize, command.persist
    PROVE  Persisting'
  <1> DEFINE w == command.found
             s == Normalized(w, command.policy)
             Rec(f, l) == Record(BestTable(Exhibits[f][l].whole).rows, command.policy)
  <1>1. command.pc = "read" /\ command.todo = << >>
        /\ command' = [command EXCEPT !.pc = "persist", !.todo = s] /\ UNCHANGED submissions
    BY DEF Normalize, edgarFiles
  <1>2. /\ command'.todo = s /\ command'.policy = command.policy
        /\ command'.force = command.force /\ command'.range = command.range
        /\ command.policy \in Policies
    <2>1. CommandIsTyped /\ command # NoCommand
      BY <1>1 DEF EdgarInv, NoCommand
    <2> HIDE DEF s
    <2> QED
      BY <1>1, <2>1 DEF CommandIsTyped
  <1>3. InRange(submissions.parsed.filings)' = InRange(submissions.parsed.filings)
    BY <1>1, <1>2 DEF InRange
  <1>4. w \in Seq(Collected) /\ DOMAIN w = 1 .. Len(w) /\ Len(w) \in Nat
    BY DEF Reading
  <1>5. /\ DOMAIN s = DOMAIN w
        /\ \A i \in DOMAIN w : /\ s[i].filing = w[i].filing
                               /\ s[i].record = The(RecordsOf(w[i].tables, command.policy))
    BY DEF Normalized
  <1>6. \A i \in DOMAIN w : s[i] \in Items
    BY <1>2, <1>4 DEF Items, Normalized
  <1>7. s \in Seq(Items)
    <2>1. s = [i \in 1 .. Len(w) |-> s[i]]
      BY <1>4 DEF Normalized
    <2> HIDE DEF s, w
    <2> QED
      BY <1>4, <1>6, <2>1
  <1> HIDE DEF s
  <1>8. ASSUME NEW f, NEW l, IsLast(f, l)
        PROVE  The(RecordsOf(Exhibits[f][l].whole, command.policy)) = Rec(f, l)
    BY <1>8 DEF IsLast, RecordsOf, The
  <1> HIDE DEF Rec
  <1>9. ASSUME NEW f, NEW l, IsLast(f, l), Gathered(f, l, w)
        PROVE  ToStore(f, l, command.policy, s)
    <2>1. PICK k \in DOMAIN w : /\ w[k] = [filing |-> f, tables |-> Exhibits[f][l].whole]
                                /\ \A j \in DOMAIN w : j > k => w[j].filing # f
      BY <1>9 DEF Gathered
    <2>2. s[k].filing = f /\ s[k].record = Rec(f, l)
      BY <1>5, <1>8, <1>9, <2>1
    <2>3. Latest(s[k].record) = Result(f, l, command.policy)
      BY <2>2 DEF Result, Rec
    <2>4. \A j \in DOMAIN s : j > k => s[j].filing # f
      BY <1>5, <2>1
    <2> QED
      BY <1>5, <2>1, <2>2, <2>3, <2>4 DEF ToStore
  <1>10. ASSUME command.force, NEW f \in InRange(submissions.parsed.filings), NEW l, IsLast(f, l)
         PROVE  Gathered(f, l, w)
    <2>1. ~ToRead(f, l, command.todo)
      BY <1>1 DEF ToRead
    <2> QED
      BY <1>10, <2>1 DEF Reading
  <1> HIDE DEF w
  <1> QED
    BY <1>2, <1>3, <1>7, <1>9, <1>10 DEF Persisting

\* A record that is written is the row of its filing until another record of the
\* filing is written.
LEMMA RecordKeepsPersisting ==
    ASSUME EdgarInv, Persisting, PersistRecord
    PROVE  /\ Persisting'
           /\ \A row \in earnings' : row.filing \in Filings /\ row.policy \in Policies
  <1> DEFINE s == command.todo
             t == Tail(s)
             item == Head(s)
             same == {row \in earnings : IsRowOf(row, item)}
             once == IF same = {} THEN Once(item.record) ELSE The(same).once
             new == [year |-> RecordYear, policy |-> command.policy, filing |-> item.filing,
                     once |-> once, latest |-> Latest(item.record)]
  <1>1. /\ command.pc = "persist" /\ s # << >>
        /\ earnings' = (earnings \ same) \cup {new}
        /\ command' = [command EXCEPT !.todo = t] /\ UNCHANGED submissions
    BY DEF PersistRecord, edgarFiles
  <1>2. /\ command'.todo = t /\ command'.policy = command.policy
        /\ command'.force = command.force /\ command'.range = command.range
        /\ command.policy \in Policies
    <2>1. CommandIsTyped /\ command # NoCommand
      BY <1>1 DEF EdgarInv, NoCommand
    <2> HIDE DEF t, s
    <2> QED
      BY <1>1, <2>1 DEF CommandIsTyped
  <1>3. InRange(submissions.parsed.filings)' = InRange(submissions.parsed.filings)
    BY <1>1, <1>2 DEF InRange
  <1>4. \A row, i : IsRowOf(row, i)' <=> IsRowOf(row, i)
    BY <1>2 DEF IsRowOf, RecordYear
  <1>5. s \in Seq(Items)
    BY DEF Persisting
  <1>6. /\ t \in Seq(Items) /\ Len(t) = Len(s) - 1 /\ Len(s) \in Nat /\ Len(s) >= 1
        /\ \A i \in 1 .. Len(t) : t[i] = s[i + 1]
        /\ s[1] = item /\ item \in Items
        /\ DOMAIN s = 1 .. Len(s) /\ DOMAIN t = 1 .. Len(t)
    BY <1>1, <1>5
  <1>7. new.filing = item.filing /\ new.policy = command.policy /\ new.year = RecordYear
        /\ new.latest = Latest(item.record)
    OBVIOUS
  <1> HIDE DEF new
  <1>8. \A row : row \in same <=> row \in earnings /\ IsRowOf(row, item)
    OBVIOUS
  <1> HIDE DEF s, t, item, same
  <1>9. item.filing \in Filings
    BY <1>6, UrlIs DEF Items, Collected
  <1>10. \A row \in earnings' : row.filing \in Filings /\ row.policy \in Policies
    BY <1>1, <1>2, <1>7, <1>9 DEF EdgarInv, EdgarTypeOK
  <1>11. ASSUME NEW f, NEW l, item.filing = f,
                Latest(item.record) = Result(f, l, command.policy)
         PROVE  IsStored(f, l, command.policy)'
    <2>1. IsRowOf(new, [filing |-> f])
      BY <1>7, <1>11 DEF IsRowOf
    <2>2. new \in earnings' /\ new.latest = Result(f, l, command.policy)
      BY <1>1, <1>7, <1>11
    <2> QED
      BY <1>2, <1>4, <2>1, <2>2 DEF IsStored
  <1>12. ASSUME NEW f, NEW l, item.filing # f, IsStored(f, l, command.policy)
         PROVE  IsStored(f, l, command.policy)'
    <2>1. PICK row \in earnings : /\ IsRowOf(row, [filing |-> f])
                                  /\ row.latest = Result(f, l, command.policy)
      BY <1>12 DEF IsStored
    <2>2. row \notin same
      BY <1>8, <1>12, <2>1 DEF IsRowOf
    <2>3. row \in earnings'
      BY <1>1, <2>2
    <2> QED
      BY <1>2, <1>4, <2>1, <2>3 DEF IsStored
  <1>13. ASSUME NEW f, NEW l, ToStore(f, l, command.policy, s)
         PROVE  \/ ToStore(f, l, command.policy, t)
                \/ IsStored(f, l, command.policy)' /\ \A k \in DOMAIN t : t[k].filing # f
    <2>1. PICK k \in DOMAIN s : /\ s[k].filing = f
                                /\ Latest(s[k].record) = Result(f, l, command.policy)
                                /\ \A j \in DOMAIN s : j > k => s[j].filing # f
      BY <1>13 DEF ToStore
    <2>2. \A j \in DOMAIN t : j + 1 \in DOMAIN s /\ j + 1 > 1 /\ t[j] = s[j + 1]
      BY <1>6
    <2>3. CASE k = 1
      BY <1>6, <1>11, <2>1, <2>2, <2>3
    <2>4. CASE k # 1
      <3>1. k - 1 \in 1 .. Len(t) /\ (k - 1) + 1 = k
        BY <1>6, <2>4
      <3>2. k - 1 \in DOMAIN t /\ t[k - 1] = s[k]
        BY <1>6, <3>1
      <3>3. ASSUME NEW j \in DOMAIN t, j > k - 1 PROVE t[j].filing # f
        <4>1. j + 1 \in DOMAIN s /\ t[j] = s[j + 1]
          BY <2>2
        <4>2. j + 1 > k
          BY <1>6, <3>1, <3>3
        <4> QED
          BY <2>1, <4>1, <4>2
      <3> QED
        BY <2>1, <3>2, <3>3 DEF ToStore
    <2> QED
      BY <2>3, <2>4
  <1>14. ASSUME NEW f, NEW l, IsStored(f, l, command.policy), \A k \in DOMAIN s : s[k].filing # f
         PROVE  IsStored(f, l, command.policy)' /\ \A k \in DOMAIN t : t[k].filing # f
    <2>1. 1 \in DOMAIN s /\ \A k \in DOMAIN t : k + 1 \in DOMAIN s /\ t[k] = s[k + 1]
      BY <1>6
    <2> QED
      BY <1>6, <1>12, <1>14, <2>1
  <1>15. ASSUME NEW f, NEW l,
                \/ ToStore(f, l, command.policy, s)
                \/ IsStored(f, l, command.policy) /\ \A k \in DOMAIN s : s[k].filing # f
         PROVE  \/ ToStore(f, l, command.policy, t)
                \/ IsStored(f, l, command.policy)' /\ \A k \in DOMAIN t : t[k].filing # f
    BY <1>13, <1>14, <1>15
  <1>16. Persisting'
    <2>1. t \in Seq(Items)
      BY <1>6
    <2> QED
      BY <1>2, <1>3, <1>15, <2>1 DEF Persisting, s
  <1> QED
    BY <1>10, <1>16


\* The parts of EdgarInv.
PagesOK ==
    /\ published \subseteq Filings
    /\ submissions \in [text : FileType, parsed : FileType]
    /\ index = [f \in Filings |-> index[f]]
    /\ \A f \in Filings : index[f] \subseteq 0 .. Len(Exhibits[f]) /\ Cardinality(index[f]) <= 1
    /\ exhibit = [u \in Urls |-> exhibit[u]]
    /\ \A u \in Urls : exhibit[u] \subseteq Texts(u) /\ Cardinality(exhibit[u]) <= 1

CommandOK ==
    /\ command.pc \in {"idle", "list", "read", "persist"} /\ CommandIsTyped
    /\ command.pc = "list" => command.found = << >>
    /\ command.pc = "read" => Reading
    /\ command.pc = "persist" => Persisting

EarningsOK == \A row \in earnings : row.filing \in Filings /\ row.policy \in Policies
LimitsOK   == commands \in 0 .. MaxCommands /\ interruptions \in 0 .. MaxInterruptions

LEMMA EdgarInvIs == EdgarInv <=> PagesOK /\ CommandOK /\ EarningsOK /\ LimitsOK
  <1>1. EdgarTypeOK <=> /\ published \subseteq Filings
                        /\ submissions \in [text : FileType, parsed : FileType]
                        /\ \A f \in Filings : /\ index[f] \subseteq 0 .. Len(Exhibits[f])
                                              /\ Cardinality(index[f]) <= 1
                        /\ \A u \in Urls : exhibit[u] \subseteq Texts(u) /\ Cardinality(exhibit[u]) <= 1
                        /\ command.pc \in {"idle", "list", "read", "persist"}
                        /\ EarningsOK /\ LimitsOK
    BY Zenon DEF EdgarTypeOK, Texts, EarningsOK, LimitsOK
  <1> QED
    BY <1>1 DEF EdgarInv, PagesOK, CommandOK

LEMMA IndexIsKept ==
    ASSUME PagesOK, NEW f \in Filings, NEW n \in 0 .. Len(Exhibits[f]),
           index' = [index EXCEPT ![f] = {n}], UNCHANGED <<published, submissions, exhibit>>
    PROVE  PagesOK'
  <1>1. Cardinality({n}) = 1
    BY FS_Singleton
  <1>2. index' = [g \in Filings |-> IF g = f THEN {n} ELSE index[g]]
    BY DEF PagesOK
  <1>3. \A g \in Filings : index'[g] \subseteq 0 .. Len(Exhibits[g]) /\ Cardinality(index'[g]) <= 1
    BY <1>1, <1>2 DEF PagesOK
  <1> QED
    BY <1>2, <1>3 DEF PagesOK

LEMMA ExhibitIsKept ==
    ASSUME PagesOK, NEW u \in Urls, NEW t \in Texts(u),
           exhibit' = [exhibit EXCEPT ![u] = {t}], UNCHANGED <<published, submissions, index>>
    PROVE  PagesOK'
  <1>1. Cardinality({t}) = 1
    BY FS_Singleton
  <1>2. exhibit' = [w \in Urls |-> IF w = u THEN {t} ELSE exhibit[w]]
    BY DEF PagesOK
  <1>3. \A w \in Urls : exhibit'[w] \subseteq Texts(w) /\ Cardinality(exhibit'[w]) <= 1
    BY <1>1, <1>2 DEF PagesOK
  <1> QED
    BY <1>2, <1>3 DEF PagesOK

LEMMA SubmissionsAreKept ==
    ASSUME PagesOK, submissions' \in [text : FileType, parsed : FileType],
           UNCHANGED <<published, index, exhibit>>
    PROVE  PagesOK'
  BY DEF PagesOK

\* No step leaves a file that is neither a response nor a prefix of one.
LEMMA PagesAreKept == EdgarInv /\ EdgarNext => PagesOK'
  <1> SUFFICES ASSUME EdgarInv, EdgarNext PROVE PagesOK'
    OBVIOUS
  <1>1. PagesOK /\ LimitsOK
    BY EdgarInvIs
  <1> DEFINE Same == UNCHANGED <<published, submissions, index, exhibit>>
  <1>2. Same => PagesOK'
    BY <1>1 DEF PagesOK
  <1>3. ASSUME NEW f \in Filings, Publish(f) PROVE PagesOK'
    <2>1. published' \subseteq Filings /\ UNCHANGED <<submissions, index, exhibit>>
      BY <1>1, <1>3 DEF Publish, edgarFiles, PagesOK
    <2> QED
      BY <1>1, <2>1 DEF PagesOK
  <1>4. CASE ListFetched
    <2>1. submissions' \in [text : FileType, parsed : FileType]
      BY <1>1, <1>4 DEF ListFetched, PagesOK, FileType
    <2> QED
      BY <1>1, <1>4, <2>1, SubmissionsAreKept DEF ListFetched
  <1>5. CASE DieListing
    <2>1. submissions' \in [text : FileType, parsed : FileType]
      BY <1>1, <1>5 DEF DieListing, PagesOK, FileType, CutFile
    <2> QED
      BY <1>1, <1>5, <2>1, SubmissionsAreKept DEF DieListing, Interruption
  <1>6. ASSUME NEW f \in Filings, ReadIndex(f) PROVE PagesOK'
    <2>1. IndexText(f) \in 0 .. Len(Exhibits[f])
      BY <1>1, ExhibitsAreSequences DEF IndexText, The, PagesOK
    <2>2. /\ index' = [index EXCEPT ![f] = {IndexText(f)}]
          /\ UNCHANGED <<published, submissions, exhibit>>
      BY <1>6 DEF ReadIndex
    <2> QED
      BY <1>1, <2>1, <2>2, IndexIsKept
  <1>7. ASSUME NEW u \in Urls, ReadExhibit(u) PROVE PagesOK'
    <2>1. /\ exhibit' = [exhibit EXCEPT ![u] = {ExhibitText(u)}]
          /\ UNCHANGED <<published, submissions, index>>
      BY <1>7 DEF ReadExhibit
    <2> QED
      BY <1>1, <2>1, TextIs, ExhibitIsKept
  <1>8. CASE DieReading
    <2>1. UNCHANGED <<published, submissions>>
      BY <1>8 DEF DieReading, Interruption
    <2>2. CASE \E f \in Filings : \E n \in 0 .. Len(Exhibits[f]) :
                  index' = [index EXCEPT ![f] = {n}] /\ UNCHANGED exhibit
      BY <1>1, <2>1, <2>2, IndexIsKept
    <2>3. CASE \E u \in Urls : \E t \in Exhibits[u[1]][u[2]].cuts :
                  exhibit' = [exhibit EXCEPT ![u] = {t}] /\ UNCHANGED index
      <3>1. PICK u \in Urls : \E t \in Exhibits[u[1]][u[2]].cuts :
                  exhibit' = [exhibit EXCEPT ![u] = {t}] /\ UNCHANGED index
        BY <2>3
      <3>2. PICK t \in Texts(u) : exhibit' = [exhibit EXCEPT ![u] = {t}] /\ UNCHANGED index
        BY <3>1 DEF Texts
      <3> QED
        BY <1>1, <2>1, <3>2, ExhibitIsKept
    <2> QED
      BY <1>8, <2>2, <2>3 DEF DieReading
  <1>9. CASE \/ \E range \in Ranges, policy \in Policies, force, persist \in BOOLEAN :
                    StartNormalize(range, policy, force, persist)
             \/ ListCached \/ FailRequest \/ Normalize \/ PersistRecord \/ FinishNormalize
             \/ DiePersisting
    <2>1. Same
      BY <1>9 DEF StartNormalize, ListCached, FailRequest, Normalize, PersistRecord, FinishNormalize,
                  DiePersisting, Interruption, edgarFiles
    <2> QED
      BY <1>2, <2>1
  <1> QED
    BY <1>3, <1>4, <1>5, <1>6, <1>7, <1>8, <1>9 DEF EdgarNext

LEMMA LimitsAreKept == LimitsOK /\ EdgarNext => LimitsOK'
  <1> SUFFICES ASSUME LimitsOK, EdgarNext PROVE LimitsOK'
    OBVIOUS
  <1>1. CASE \E range \in Ranges, policy \in Policies, force, persist \in BOOLEAN :
                  StartNormalize(range, policy, force, persist)
    BY <1>1, EdgarAssumption DEF StartNormalize, LimitsOK
  <1>2. CASE DieListing \/ FailRequest \/ DieReading \/ DiePersisting
    BY <1>2, EdgarAssumption DEF DieListing, FailRequest, DieReading, DiePersisting, Interruption,
                                 LimitsOK
  <1>3. CASE \/ \E f \in Filings : Publish(f) \/ ReadIndex(f)
             \/ \E u \in Urls : ReadExhibit(u)
             \/ ListCached \/ ListFetched \/ Normalize \/ PersistRecord \/ FinishNormalize
    <2>1. UNCHANGED <<commands, interruptions>>
      BY <1>3 DEF Publish, ReadIndex, ReadExhibit, ListCached, ListFetched, Normalize, PersistRecord,
                  FinishNormalize
    <2> QED
      BY <2>1 DEF LimitsOK
  <1> QED
    BY <1>1, <1>2, <1>3 DEF EdgarNext

LEMMA EarningsAreKept == EdgarInv /\ EdgarNext => EarningsOK'
  <1> SUFFICES ASSUME EdgarInv, EdgarNext PROVE EarningsOK'
    OBVIOUS
  <1>1. CASE PersistRecord
    <2>1. Persisting
      BY <1>1 DEF PersistRecord, EdgarInv
    <2> QED
      BY <1>1, <2>1, RecordKeepsPersisting DEF EarningsOK
  <1>2. CASE ~PersistRecord
    <2>1. UNCHANGED earnings
      BY <1>2 DEF EdgarNext, Publish, StartNormalize, ListCached, ListFetched, DieListing, ReadIndex,
                  ReadExhibit, FailRequest, DieReading, Normalize, FinishNormalize, DiePersisting,
                  Interruption
    <2> QED
      BY <2>1, EdgarInvIs DEF EarningsOK
  <1> QED
    BY <1>1, <1>2

\* A command that is over has nothing left to keep.
LEMMA NoCommandIsOK == command' = NoCommand => CommandOK'
  BY DEF CommandOK, CommandIsTyped, NoCommand

\* A command goes on as it began.
LEMMA CommandIsKept == EdgarInv /\ EdgarNext => CommandOK'
  <1> SUFFICES ASSUME EdgarInv, EdgarNext PROVE CommandOK'
    OBVIOUS
  <1>1. CommandOK /\ PagesOK
    BY EdgarInvIs
  <1>2. command.pc # "idle" => CommandIsTyped /\ command # NoCommand
    BY <1>1 DEF CommandOK, NoCommand
  <1>3. ASSUME NEW f \in Filings, Publish(f) PROVE CommandOK'
    <2>1. UNCHANGED <<command, submissions, earnings>>
      BY <1>3 DEF Publish, edgarFiles
    <2>2. InRange(submissions.parsed.filings)' = InRange(submissions.parsed.filings)
      BY <2>1 DEF InRange
    <2>3. (Reading => Reading') /\ (Persisting => Persisting')
      <3>1. \A f1, l1 : IsStored(f1, l1, command.policy) => IsStored(f1, l1, command.policy)'
        BY <2>1 DEF IsStored, IsRowOf, RecordYear
      <3>2. Reading => Reading'
        BY <2>1, <2>2 DEF Reading
      <3>3. Persisting => Persisting'
        BY <2>1, <2>2, <3>1 DEF Persisting
      <3> QED
        BY <3>2, <3>3
    <2> QED
      BY <1>1, <2>1, <2>3 DEF CommandOK, CommandIsTyped, NoCommand
  <1>4. CASE \E range \in Ranges, policy \in Policies, force, persist \in BOOLEAN :
                  StartNormalize(range, policy, force, persist)
    BY <1>4 DEF StartNormalize, CommandOK, CommandIsTyped
  <1>5. CASE ListCached
    <2>1. CASE Raise
      BY <2>1, NoCommandIsOK DEF Raise
    <2>2. CASE Listed(InRange(submissions.parsed.filings))
      <3>1. /\ submissions.parsed.filings \in SUBSET Filings /\ command.pc = "list"
            /\ submissions'.parsed.filings = submissions.parsed.filings
        BY <1>1, <1>5 DEF ListCached, PagesOK, FileType, edgarFiles
      <3> QED
        BY <2>2, <3>1, ListingReads DEF CommandOK
    <2> QED
      BY <1>5, <2>1, <2>2 DEF ListCached
  <1>6. CASE ListFetched
    <2>1. CASE Raise
      BY <2>1, NoCommandIsOK DEF Raise
    <2>2. CASE ~Raise
      <3>1. PICK filings \in SUBSET Filings :
                /\ Listed(InRange(filings)) /\ submissions'.parsed.filings = filings
        BY <1>1, <1>6, <2>2 DEF ListFetched, PagesOK, FileType
      <3>2. command.pc = "list"
        BY <1>6 DEF ListFetched
      <3> QED
        BY <3>1, <3>2, ListingReads DEF CommandOK
    <2> QED
      BY <2>1, <2>2
  <1>7. ASSUME NEW f \in Filings, ReadIndex(f) PROVE CommandOK'
    <2> DEFINE r == [i \in 1 .. IndexText(f) |-> <<f, i>>] \o Tail(command.todo)
    <2>1. command.pc = "read" /\ command' = [command EXCEPT !.todo = r]
      BY <1>7 DEF ReadIndex, NextIndex
    <2>2. Reading'
      BY <1>1, <1>7, <2>1, IndexKeepsReading DEF CommandOK
    <2> HIDE DEF r
    <2>3. CommandIsTyped' /\ command'.pc = "read"
      BY <1>2, <2>1 DEF CommandIsTyped
    <2> QED
      BY <2>2, <2>3 DEF CommandOK
  <1>8. ASSUME NEW u \in Urls, ReadExhibit(u) PROVE CommandOK'
    <2> DEFINE t == Tail(command.todo)
               v == IF ExhibitText(u) = << >> THEN command.found
                    ELSE Append(command.found, [filing |-> u[1], tables |-> ExhibitText(u)])
    <2>1. command.pc = "read" /\ command' = [command EXCEPT !.todo = t, !.found = v]
      BY <1>8 DEF ReadExhibit, NextExhibit
    <2>2. Reading'
      BY <1>1, <1>8, <2>1, ExhibitKeepsReading DEF CommandOK
    <2> HIDE DEF t, v
    <2>3. CommandIsTyped' /\ command'.pc = "read"
      BY <1>2, <2>1 DEF CommandIsTyped
    <2> QED
      BY <2>2, <2>3 DEF CommandOK
  <1>9. CASE Normalize
    <2>1. CASE ~command.persist
      BY <1>9, <2>1, NoCommandIsOK DEF Normalize
    <2>2. CASE command.persist
      <3> DEFINE s == Normalized(command.found, command.policy)
      <3>1. command.pc = "read" /\ command' = [command EXCEPT !.pc = "persist", !.todo = s]
        BY <1>9, <2>2 DEF Normalize
      <3>2. Persisting'
        BY <1>1, <1>9, <2>2, <3>1, NormalizeStartsPersisting DEF CommandOK
      <3> HIDE DEF s
      <3>3. CommandIsTyped' /\ command'.pc = "persist"
        BY <1>2, <3>1 DEF CommandIsTyped
      <3> QED
        BY <3>2, <3>3 DEF CommandOK
    <2> QED
      BY <2>1, <2>2
  <1>10. CASE PersistRecord
    <2> DEFINE t == Tail(command.todo)
    <2>1. command.pc = "persist" /\ command' = [command EXCEPT !.todo = t]
      BY <1>10 DEF PersistRecord
    <2>2. Persisting'
      BY <1>1, <1>10, <2>1, RecordKeepsPersisting DEF CommandOK
    <2> HIDE DEF t
    <2>3. CommandIsTyped' /\ command'.pc = "persist"
      BY <1>2, <2>1 DEF CommandIsTyped
    <2> QED
      BY <2>2, <2>3 DEF CommandOK
  <1>11. CASE DieListing \/ FailRequest \/ DieReading \/ DiePersisting \/ FinishNormalize
    <2>1. command' = NoCommand
      BY <1>11 DEF DieListing, FailRequest, DieReading, DiePersisting, FinishNormalize, Interruption
    <2> QED
      BY <2>1, NoCommandIsOK
  <1> QED
    BY <1>3, <1>4, <1>5, <1>6, <1>7, <1>8, <1>9, <1>10, <1>11 DEF EdgarNext

LEMMA EdgarStepSound == EdgarInv /\ [EdgarNext]_edgarVars => EdgarInv'
  <1>1. EdgarInv /\ EdgarNext => EdgarInv'
    <2>1. (PagesOK /\ CommandOK /\ EarningsOK /\ LimitsOK)' => EdgarInv'
      BY EdgarInvIs, PTL
    <2> QED
      BY <2>1, EdgarInvIs, PagesAreKept, CommandIsKept, EarningsAreKept, LimitsAreKept
  <1>2. EdgarInv /\ UNCHANGED edgarVars => EdgarInv'
    <2> SUFFICES ASSUME EdgarInv, UNCHANGED edgarVars PROVE EdgarInv'
      OBVIOUS
    <2>1. UNCHANGED <<published, submissions, index, exhibit, command, earnings, commands,
                      interruptions>>
      BY DEF edgarVars, edgarFiles
    <2>2. InRange(submissions.parsed.filings)' = InRange(submissions.parsed.filings)
      BY <2>1 DEF InRange
    <2>3. \A f, l : IsStored(f, l, command.policy) => IsStored(f, l, command.policy)'
      BY <2>1 DEF IsStored, IsRowOf, RecordYear
    <2>4. (Reading => Reading') /\ (Persisting => Persisting')
      <3>1. Reading => Reading'
        BY <2>1, <2>2 DEF Reading
      <3>2. Persisting => Persisting'
        BY <2>1, <2>2, <2>3 DEF Persisting
      <3> QED
        BY <3>1, <3>2
    <2>5. EdgarTypeOK' /\ CommandIsTyped'
      BY <2>1 DEF EdgarInv, EdgarTypeOK, CommandIsTyped, NoCommand
    <2> QED
      BY <2>1, <2>4, <2>5 DEF EdgarInv
  <1> QED
    BY <1>1, <1>2

\* What a filing says is the result of its last exhibit that has a table.
LEMMA SaidIs ==
    ASSUME NEW f \in Filings, NEW policy, NEW said \in Said(f, policy)
    PROVE  \E l : IsLast(f, l) /\ said = Result(f, l, policy)
  <1> DEFINE T == {i \in DOMAIN Exhibits[f] : Exhibits[f][i].whole # << >>}
             l == CHOOSE i \in T : \A j \in T : j <= i
  <1>1. T # {} /\ said \in {Latest(r) : r \in RecordsOf(Exhibits[f][l].whole, policy)}
    BY DEF Said
  <1>2. \A i \in T : i \in Nat
    BY ExhibitsAreSequences
  <1>3. T \in SUBSET (1 .. Len(Exhibits[f])) /\ Len(Exhibits[f]) \in Nat
    BY ExhibitsAreSequences
  <1>4. \E i \in T : \A j \in T : j <= i
    <2> HIDE DEF T
    <2>1. PICK i \in T : \A j \in T : i >= j
      BY <1>1, <1>3, GreatestNumber
    <2> QED
      BY <1>2, <2>1
  <1>5. l \in T /\ \A j \in T : j <= l
    BY <1>4
  <1>6. \A i : i \in T <=> i \in DOMAIN Exhibits[f] /\ Exhibits[f][i].whole # << >>
    OBVIOUS
  <1> HIDE DEF T, l
  <1>7. ASSUME NEW j \in DOMAIN Exhibits[f], j > l PROVE Exhibits[f][j].whole = << >>
    <2>1. j \in Nat /\ l \in Nat
      BY <1>2, <1>5, ExhibitsAreSequences
    <2> QED
      BY <1>5, <1>6, <1>7, <2>1
  <1>8. IsLast(f, l)
    BY <1>5, <1>6, <1>7 DEF IsLast
  <1>9. said = Result(f, l, policy)
    BY <1>1, <1>5, <1>6 DEF RecordsOf, Result
  <1> QED
    BY <1>8, <1>9

\* A command that ends has nothing left to write: what it has to write it has written.
LEMMA ForcedSound ==
    ASSUME EdgarInv, FinishNormalize, command.force
    PROVE  ForcedRunRepairs
  <1>1. /\ Persisting /\ command.todo = << >>
        /\ submissions.parsed.filings \subseteq Filings
    BY DEF EdgarInv, EdgarTypeOK, FileType, FinishNormalize
  <1> SUFFICES ASSUME NEW f \in InRange(submissions.parsed.filings),
                      NEW said \in Said(f, command.policy)
               PROVE  \E row \in earnings : IsRowOf(row, [filing |-> f]) /\ row.latest = said
    BY DEF ForcedRunRepairs
  <1>2. PICK l : IsLast(f, l) /\ said = Result(f, l, command.policy)
    BY <1>1, SaidIs DEF InRange
  <1>3. ~ToStore(f, l, command.policy, command.todo)
    BY <1>1 DEF ToStore
  <1>4. IsStored(f, l, command.policy)
    BY <1>1, <1>2, <1>3 DEF Persisting
  <1> QED
    BY <1>2, <1>4 DEF IsStored

\* The cache of pages and the rows of normalize-us have the forms they are declared
\* with: a page has one text at most, its whole text or a prefix.
THEOREM EdgarTypeCorrect == EdgarSpec => []EdgarTypeOK
  <1>1. EdgarInv => EdgarTypeOK
    BY DEF EdgarInv
  <1> QED
    BY <1>1, EdgarInitSound, EdgarStepSound, PTL DEF EdgarSpec

\* force_refresh undoes whatever a torn cache has done to earlier commands
\* (client.py:65): a command with it that ends has stored, for each filing that it
\* lists, the record of the filing's last exhibit with a table, read whole.
THEOREM ForcedRunsAlwaysRepair == EdgarSpec => ForcedRunsRepair
  <1>1. EdgarInv /\ [EdgarNext]_edgarVars => EdgarInv'
    BY EdgarStepSound
  <1>2. EdgarInv => (FinishNormalize /\ command.force => ForcedRunRepairs)
    BY ForcedSound
  <1> QED
    BY <1>1, <1>2, EdgarInitSound, PTL DEF EdgarSpec, ForcedRunsRepair

-----------------------------------------------------------------------------
(* The parts together.  A step of one leaves the others as they are, so    *)
(* that what is proved of each is true of the whole that is model-checked. *)

LEMMA PartsStep ==
    ASSUME [MCNext]_mcVars
    PROVE  [Next]_vars /\ [EvidenceNext]_evidenceVars /\ [EdgarNext]_edgarVars /\ [BulkNext]_bulkVars
  BY DEF MCNext, mcVars, Upload, Evidence, Edgar, Bulk

LEMMA PartsStart ==
    ASSUME MCInit
    PROVE  Init /\ EvidenceInit /\ EdgarInit /\ BulkInit
  BY DEF MCInit

LEMMA PartsAreTheirSpecifications == MCSpec => Spec /\ EvidenceSpec /\ EdgarSpec /\ BulkSpec
  <1>1. MCSpec => MCInit /\ [][MCNext]_mcVars
    BY PTL DEF MCSpec
  <1>2. MCInit => Init /\ EvidenceInit /\ EdgarInit /\ BulkInit
    BY PartsStart
  <1>3. [MCNext]_mcVars => /\ [Next]_vars /\ [EvidenceNext]_evidenceVars
                           /\ [EdgarNext]_edgarVars /\ [BulkNext]_bulkVars
    BY PartsStep
  <1> QED
    BY <1>1, <1>2, <1>3, PTL DEF Spec, EvidenceSpec, EdgarSpec, BulkSpec

\* The four parts have the states they declare.
THEOREM PartsTypeCorrect == MCSpec => []PartsTypeOK
  <1>1. BulkSpec => []BulkTypeOK
    <2>1. BulkInv => BulkTypeOK
      BY DEF BulkInv
    <2>2. BulkInv /\ [BulkNext]_bulkVars => BulkInv'
      BY BulkStepSound
    <2> QED
      BY <2>1, <2>2, BulkInitSound, PTL DEF BulkSpec
  <1>2. TypeOK /\ EvidenceTypeOK /\ EdgarTypeOK /\ BulkTypeOK => PartsTypeOK
    BY DEF PartsTypeOK
  <1> QED
    BY <1>1, <1>2, PartsAreTheirSpecifications, TypeCorrect, EvidenceTypeCorrect, EdgarTypeCorrect, PTL

=================================================================================
