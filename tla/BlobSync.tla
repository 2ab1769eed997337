------------------------------- MODULE BlobSync -------------------------------
(***************************************************************************)
(* The upload of raw files: the ingestion worker writes a file and queues  *)
(* a manifest for it (_write_raw_document, BlobUploadQueue.enqueue), and   *)
(* scripts/blob-sync.mjs uploads what is queued.  They are processes that  *)
(* share a directory and no lock, so every file operation is a step.       *)
(*                                                                         *)
(* A Blob key stands for its manifest and for its local file: the path of  *)
(* a raw file contains the hash of its content, so that a file is written  *)
(* again with the same bytes.  Writing is open-and-truncate, then the      *)
(* bytes: in between a reader sees a prefix ("partial").                   *)
(***************************************************************************)
EXTENDS Integers

CONSTANTS
    Keys,       \* Blob keys
    Writers,    \* worker processes that collect a document each
    Syncs,      \* processes that run blob-sync, again and again
    NoKey,
    Faults,     \* which of "writer", "sync", "put", "delete" may happen
    MaxFaults,  \* bound: how many faults happen in a behaviour
    MaxWrites   \* bound: how many documents are collected

ASSUME BlobSyncAssumption ==
    NoKey \notin Keys /\ MaxFaults \in Nat /\ MaxWrites \in Nat

VARIABLES
    file,      \* storage/raw: key -> "none", "partial" or "complete"
    manifest,  \* storage/blob_queue: key -> the same
    archive,   \* storage/blob_queue/uploaded: key -> the same
    receipts,  \* storage/blob_queue/uploaded/*.result.json: keys
    blob,      \* the Blob store: key -> the same
    writer,    \* writer -> [pc, key, inode]
    sync,      \* sync -> [pc, key, todo, payload]
    faults, writes

files == <<file, manifest, archive, receipts, blob>>
vars  == <<files, writer, sync, faults, writes>>

Contents == {"none", "partial", "complete"}

\* Where the manifest that a writer has open is: a rename moves it to uploaded/
\* with the handle still writing to it, or replaces it there.
Inodes == {"queue", "uploaded", "unlinked"}

IdleWriter == [pc |-> "idle", key |-> NoKey, inode |-> "unlinked"]
IdleSync   == [pc |-> "idle", key |-> NoKey, todo |-> {}, payload |-> "none"]

Init ==
    /\ file = [k \in Keys |-> "none"]
    /\ manifest = [k \in Keys |-> "none"]
    /\ archive = [k \in Keys |-> "none"]
    /\ receipts = {}
    /\ blob = [k \in Keys |-> "none"]
    /\ writer = [w \in Writers |-> IdleWriter]
    /\ sync = [s \in Syncs |-> IdleSync]
    /\ faults = 0
    /\ writes = 0

Fault(kind) ==
    /\ kind \in Faults
    /\ faults < MaxFaults
    /\ faults' = faults + 1

-----------------------------------------------------------------------------
\* The worker: a file, and a manifest for it.

\* path.write_bytes(payload) truncates the file, or creates it.
OpenFile(w, k) ==
    /\ writer[w].pc = "idle"
    /\ writes < MaxWrites
    /\ writes' = writes + 1
    /\ file' = [file EXCEPT ![k] = "partial"]
    /\ writer' = [writer EXCEPT ![w] = [pc |-> "writing", key |-> k, inode |-> "unlinked"]]
    /\ UNCHANGED <<manifest, archive, receipts, blob, sync, faults>>

WriteFile(w) ==
    /\ writer[w].pc = "writing"
    /\ file' = [file EXCEPT ![writer[w].key] = "complete"]
    /\ writer' = [writer EXCEPT ![w].pc = "written"]
    /\ UNCHANGED <<manifest, archive, receipts, blob, sync, faults, writes>>

\* path.write_text(manifest) truncates the manifest, or creates it.
OpenManifest(w) ==
    /\ writer[w].pc = "written"
    /\ manifest' = [manifest EXCEPT ![writer[w].key] = "partial"]
    /\ writer' = [writer EXCEPT ![w].pc = "queueing", ![w].inode = "queue"]
    /\ UNCHANGED <<file, archive, receipts, blob, sync, faults, writes>>

WriteManifest(w) ==
    LET k == writer[w].key IN
    /\ writer[w].pc = "queueing"
    /\ manifest' = IF writer[w].inode = "queue"
                   THEN [manifest EXCEPT ![k] = "complete"] ELSE manifest
    /\ archive' = IF writer[w].inode = "uploaded"
                  THEN [archive EXCEPT ![k] = "complete"] ELSE archive
    /\ writer' = [writer EXCEPT ![w] = IdleWriter]
    /\ UNCHANGED <<file, receipts, blob, sync, faults, writes>>

\* The process dies, or an exception between the file and its manifest ends it.
WriterDies(w) ==
    /\ writer[w].pc # "idle"
    /\ Fault("writer")
    /\ writer' = [writer EXCEPT ![w] = IdleWriter]
    /\ UNCHANGED <<files, sync, writes>>

\* storage/raw is cleaned up, or was written on another machine.
DeleteFile(k) ==
    /\ file[k] = "complete"
    /\ Fault("delete")
    /\ file' = [file EXCEPT ![k] = "none"]
    /\ UNCHANGED <<manifest, archive, receipts, blob, writer, sync, writes>>

-----------------------------------------------------------------------------
\* blob-sync: one pass over the manifests that readdir has seen.

StartSync(s) ==
    /\ sync[s].pc = "idle"
    /\ sync' = [sync EXCEPT ![s] =
           [pc |-> "next", key |-> NoKey, payload |-> "none",
            todo |-> {k \in Keys : manifest[k] # "none"}]]
    /\ UNCHANGED <<files, writer, faults, writes>>

\* Goes on to the next manifest.
NextKey(s) ==
    sync' = [sync EXCEPT ![s] =
        [pc |-> "next", key |-> NoKey, payload |-> "none", todo |-> @.todo \ {@.key}]]

\* An exception that nothing catches ends the pass, with what it had still to do.
Abort(s) == sync' = [sync EXCEPT ![s] = IdleSync]

\* JSON.parse(readFile(queuePath)).
ReadManifest(s, k) ==
    /\ sync[s].pc = "next" /\ k \in sync[s].todo
    /\ manifest[k] = "complete"
    /\ sync' = [sync EXCEPT ![s].pc = "validate", ![s].key = k]
    /\ UNCHANGED <<files, writer, faults, writes>>

\* A prefix of a manifest does not parse; one that another pass has archived is not
\* found.  Both exceptions are raised outside of any try.
FailOnManifest(s, k) ==
    /\ sync[s].pc = "next" /\ k \in sync[s].todo
    /\ manifest[k] # "complete"
    /\ Abort(s)
    /\ UNCHANGED <<files, writer, faults, writes>>

\* validateQueueItem: access(local_path).
FindFile(s) ==
    /\ sync[s].pc = "validate"
    /\ file[sync[s].key] # "none"
    /\ sync' = [sync EXCEPT ![s].pc = "read"]
    /\ UNCHANGED <<files, writer, faults, writes>>

\* Mutant: the missing file is not expected, and ends the pass.
MissFileAborting(s) ==
    /\ sync[s].pc = "validate"
    /\ file[sync[s].key] = "none"
    /\ Abort(s)
    /\ UNCHANGED <<files, writer, faults, writes>>

\* Mutant: a manifest without a file is dropped.
MissFileDropping(s) ==
    /\ sync[s].pc = "validate"
    /\ file[sync[s].key] = "none"
    /\ manifest' = [manifest EXCEPT ![sync[s].key] = "none"]
    /\ NextKey(s)
    /\ UNCHANGED <<file, archive, receipts, blob, writer, faults, writes>>

\* The file is missing: an error is noted, the manifest stays, the pass goes on.
MissFile(s) ==
    /\ sync[s].pc = "validate"
    /\ file[sync[s].key] = "none"
    /\ NextKey(s)
    /\ UNCHANGED <<files, writer, faults, writes>>

\* Mutant: the manifest is moved away before the upload.
ReadFileArchiving(s) ==
    /\ sync[s].pc = "read"
    /\ file[sync[s].key] # "none"
    /\ manifest' = [manifest EXCEPT ![sync[s].key] = "none"]
    /\ archive' = [archive EXCEPT ![sync[s].key] = "complete"]
    /\ sync' = [sync EXCEPT ![s].pc = "put", ![s].payload = file[sync[s].key]]
    /\ UNCHANGED <<file, receipts, blob, writer, faults, writes>>

ReadFile(s) ==
    /\ sync[s].pc = "read"
    /\ file[sync[s].key] # "none"
    /\ sync' = [sync EXCEPT ![s].pc = "put", ![s].payload = file[sync[s].key]]
    /\ UNCHANGED <<files, writer, faults, writes>>

\* Mutant: the read error is taken for an empty payload.
FailOnFileAsEmpty(s) ==
    /\ sync[s].pc = "read"
    /\ file[sync[s].key] = "none"
    /\ sync' = [sync EXCEPT ![s].pc = "put", ![s].payload = "empty"]
    /\ UNCHANGED <<files, writer, faults, writes>>

\* The file has gone since it was found.
FailOnFile(s) ==
    /\ sync[s].pc = "read"
    /\ file[sync[s].key] = "none"
    /\ Abort(s)
    /\ UNCHANGED <<files, writer, faults, writes>>

\* put(blob_key, payload) with allowOverwrite.
Put(s) ==
    /\ sync[s].pc = "put"
    /\ blob' = [blob EXCEPT ![sync[s].key] = sync[s].payload]
    /\ sync' = [sync EXCEPT ![s].pc = "rename"]
    /\ UNCHANGED <<file, manifest, archive, receipts, writer, faults, writes>>

\* put raises, before or after the store has the payload.
FailToPut(s) ==
    /\ sync[s].pc = "put"
    /\ Fault("put")
    /\ blob' \in {blob, [blob EXCEPT ![sync[s].key] = sync[s].payload]}
    /\ Abort(s)
    /\ UNCHANGED <<file, manifest, archive, receipts, writer, writes>>

\* rename(queuePath, archivedPath): whatever manifest is there now.
Archive(s) ==
    LET k == sync[s].key IN
    /\ sync[s].pc = "rename"
    /\ manifest[k] # "none"
    /\ manifest' = [manifest EXCEPT ![k] = "none"]
    /\ archive' = [archive EXCEPT ![k] = manifest[k]]
    /\ writer' = [w \in Writers |->
           IF writer[w].key # k THEN writer[w]
           ELSE [writer[w] EXCEPT !.inode = IF @ = "queue" THEN "uploaded" ELSE "unlinked"]]
    /\ sync' = [sync EXCEPT ![s].pc = "receipt"]
    /\ UNCHANGED <<file, receipts, blob, faults, writes>>

\* Another pass has moved the manifest.
FailToArchive(s) ==
    /\ sync[s].pc = "rename"
    /\ manifest[sync[s].key] = "none"
    /\ Abort(s)
    /\ UNCHANGED <<files, writer, faults, writes>>

WriteReceipt(s) ==
    /\ sync[s].pc = "receipt"
    /\ receipts' = receipts \union {sync[s].key}
    /\ NextKey(s)
    /\ UNCHANGED <<file, manifest, archive, blob, writer, faults, writes>>

FinishSync(s) ==
    /\ sync[s].pc = "next" /\ sync[s].todo = {}
    /\ Abort(s)
    /\ UNCHANGED <<files, writer, faults, writes>>

SyncDies(s) ==
    /\ sync[s].pc # "idle"
    /\ Fault("sync")
    /\ Abort(s)
    /\ UNCHANGED <<files, writer, writes>>

-----------------------------------------------------------------------------
Write(w) == WriteFile(w) \/ OpenManifest(w) \/ WriteManifest(w)

Pass(s) ==
    \/ \E k \in Keys : ReadManifest(s, k) \/ FailOnManifest(s, k)
    \/ FindFile(s) \/ MissFile(s) \/ ReadFile(s) \/ FailOnFile(s)
    \/ Put(s) \/ Archive(s) \/ FailToArchive(s) \/ WriteReceipt(s) \/ FinishSync(s)

Next ==
    \/ \E w \in Writers : (\E k \in Keys : OpenFile(w, k)) \/ Write(w) \/ WriterDies(w)
    \/ \E s \in Syncs : StartSync(s) \/ Pass(s) \/ FailToPut(s) \/ SyncDies(s)
    \/ \E k \in Keys : DeleteFile(k)

Spec == Init /\ [][Next]_vars

\* A process that is alive goes on, and the sync is run again and again: after each
\* ingestion by the workflow, by hand elsewhere.  No document has to be collected.
FairSpec ==
    /\ Spec
    /\ \A w \in Writers : WF_vars(Write(w))
    /\ \A s \in Syncs : WF_vars(StartSync(s) \/ Pass(s))

-----------------------------------------------------------------------------
WriterType == [pc: {"idle", "writing", "written", "queueing"},
               key: Keys \union {NoKey}, inode: Inodes]

SyncType == [pc: {"idle", "next", "validate", "read", "put", "rename", "receipt"},
             key: Keys \union {NoKey}, todo: SUBSET Keys, payload: Contents]

TypeOK ==
    /\ file \in [Keys -> Contents]
    /\ manifest \in [Keys -> Contents]
    /\ archive \in [Keys -> Contents]
    /\ receipts \in SUBSET Keys
    /\ blob \in [Keys -> Contents]
    /\ writer \in [Writers -> WriterType]
    /\ sync \in [Syncs -> SyncType]
    /\ faults \in 0..MaxFaults
    /\ writes \in 0..MaxWrites

\* The promise of the queue, whoever runs concurrently and dies: a queued payload
\* leaves the queue only once it is in the Blob store.
queued   == {k \in Keys : manifest[k] # "none"}
stored   == {k \in Keys : blob[k] # "none"}
archived == {k \in Keys : archive[k] # "none"}

Q == INSTANCE UploadQueue WITH
        Keys <- Keys, queued <- queued, stored <- stored, archived <- archived
KeepsQueuePromise == Q!Spec

\* A receipt is the proof that the payload was uploaded and its manifest archived.
ReceiptsAreEarned == receipts \subseteq archived /\ archived \subseteq stored

\* The strengthening that makes these inductive: what a process holds in its local
\* state is still true of the files, whatever the others have done since.
WritersHold ==
    \A w \in Writers :
        LET k == writer[w].key IN
        /\ writer[w].pc # "idle" => k \in Keys
        /\ writer[w].pc = "queueing" /\ writer[w].inode = "queue" => k \in queued
        /\ writer[w].pc = "queueing" /\ writer[w].inode = "uploaded" => k \in archived

SyncsHold ==
    \A s \in Syncs :
        LET k == sync[s].key IN
        /\ sync[s].pc \in {"validate", "read", "put", "rename", "receipt"} =>
              k \in Keys /\ k \in queued \union stored
        /\ sync[s].pc = "put" => sync[s].payload # "none"
        /\ sync[s].pc \in {"rename", "receipt"} => k \in stored
        /\ sync[s].pc = "receipt" => k \in archived

\* A manifest that a writer has left half written when it died.
HalfWritten(k) ==
    /\ manifest[k] = "partial"
    /\ \A w \in Writers : writer[w].key = k => writer[w].inode # "queue"

\* Every manifest is eventually uploaded, or its file is missing: neither a manifest
\* without a file, nor a pass that another one disturbs or that dies, holds up the
\* others.  Only a half written manifest does: every pass aborts at it.
ManifestsAreUploaded ==
    \A k \in Keys :
        manifest[k] = "complete" ~>
            \/ blob[k] # "none" \/ file[k] = "none"
            \/ \E other \in Keys : HalfWritten(other)

\* docs/DATA_LAKE_SOURCE_CATALOG.md:111: raw storage remains append-only.  A payload
\* that the store has in full is never replaced by less.
RawStorageIsAppendOnly ==
    [][\A k \in Keys : blob[k] = "complete" => blob'[k] = "complete"]_blob

=============================================================================
