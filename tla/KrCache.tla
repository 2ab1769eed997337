-------------------------------- MODULE KrCache --------------------------------
(***************************************************************************)
(* What storage/cache/kr-valuation-inputs promises to its readers: a file  *)
(* per ticker, written in place by build-kr-valuation-inputs (truncate,    *)
(* then the text), so that a reader sees no file, a prefix that is no JSON *)
(* document, or the whole payload of one build.  A build that stops in     *)
(* between leaves the prefix.  The builder (KrEvidence) implements this;   *)
(* the warehouse loader and the API (KrWarehouse) rely on it.              *)
(***************************************************************************)
CONSTANT CacheFiles   \* a file per ticker and range of years

VARIABLE cacheFile

NoCache  == [state |-> "none"]
Torn    == [state |-> "partial"]
Whole(p) == [state |-> "whole", payload |-> p]

CacheInit == cacheFile = [t \in CacheFiles |-> NoCache]

\* Path.write_text: the file is opened and truncated, ...
CacheOpen(t) == cacheFile' = [cacheFile EXCEPT ![t] = Torn]

\* ... then holds the payload of that build.
CacheFill(t) ==
    /\ cacheFile[t] = Torn
    /\ cacheFile'[t].state = "whole"
    /\ cacheFile' = [cacheFile EXCEPT ![t] = cacheFile'[t]]

CacheNext == \E t \in CacheFiles : CacheOpen(t) \/ CacheFill(t)

CacheSpec == CacheInit /\ [][CacheNext]_cacheFile
===============================================================================
