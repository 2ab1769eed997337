----------------------------- MODULE UploadQueue -----------------------------
(***************************************************************************)
(* What the Blob upload queue promises: a payload that was queued stays    *)
(* queued until it is in the Blob store, and is archived only then.        *)
(* BlobSync shows that the file operations of data/blob_queue.py and       *)
(* scripts/blob-sync.mjs keep this promise.                                *)
(***************************************************************************)
CONSTANT Keys

VARIABLES
    queued,    \* keys with a manifest in the queue
    stored,    \* keys in the Blob store
    archived   \* keys whose manifest has been moved to uploaded/

vars == <<queued, stored, archived>>

Init == queued = {} /\ stored = {} /\ archived = {}

Enqueue(k) ==
    /\ queued' = queued \union {k}
    /\ UNCHANGED <<stored, archived>>

Store(k) ==
    /\ k \in queued
    /\ stored' = stored \union {k}
    /\ UNCHANGED <<queued, archived>>

\* Only a stored payload leaves the queue, and it leaves a record.
Archive(k) ==
    /\ k \in queued
    /\ k \in stored
    /\ queued' = queued \ {k}
    /\ archived' = archived \union {k}
    /\ UNCHANGED stored

Next == \E k \in Keys : Enqueue(k) \/ Store(k) \/ Archive(k)

Spec == Init /\ [][Next]_vars

=============================================================================
