------------------------------- MODULE ApiCache -------------------------------
(* The response cache (ApiCacheInterceptor, CacheService) over PendingActions: *)
(* the cached answer to "is this playlist liked", which a like or an unlike    *)
(* clears through the index of its cache key.  The interceptor neither waits   *)
(* for a response to be stored nor for an index to be cleared.                 *)
EXTENDS PendingActions

VARIABLES data,    \* the cached answer, or "none"
          indexed, \* the index names it
          reader,  \* what SoundCloud told a request for it, until it is stored
          clear,   \* per call, whether clearIndex is under way, and read the name
          stale    \* whether the cached answer may be out of date

cacheVars == <<data, indexed, reader, clear, stale>>
vars == <<queueVars, cacheVars>>

Answer(value) == IF value THEN "liked" ELSE "not liked"

TypeOK ==
    /\ PendingTypeOK
    /\ data \in {"none", "liked", "not liked"} /\ indexed \in BOOLEAN /\ stale \in BOOLEAN
    /\ reader \in {"none", "liked", "not liked"}
    /\ clear \in [Call -> {"none", "answer", "index"}]

Init ==
    /\ PendingInit
    /\ data = "none" /\ indexed = FALSE /\ stale = FALSE
    /\ reader = "none" /\ clear = [c \in Call |-> "none"]

(* Bound: the cache is used in behaviours without faults and overlapping runs. *)
Watched == faults = 0 /\ "repeated" \notin mishaps
Untouched == data = "none" /\ reader = "none" /\ ~indexed /\ \A c \in Call : clear[c] = "none"

(* A step of the queue.  A like or unlike that is answered without an error,   *)
(* done or queued, begins to clear the index and reads the names in it; a run  *)
(* of the queue never does.                                                    *)
Answers(c) == call'[c].at = "ok" /\ call[c].at # "ok" /\ call'[c].kind \in Likes

\* Mutant: only the index that all users share is cleared.
BeginSharedOnly(c) == clear[c]

BeginClear(c) ==
    IF ~Answers(c) \/ ~Watched THEN clear[c] ELSE IF indexed THEN "answer" ELSE "index"

Observed ==
    /\ Untouched \/ Watched'
    /\ clear' = [c \in Call |-> BeginClear(c)]
    /\ stale' = (stale \/ (data # "none" /\ liked' # liked /\ ~\E c \in Call : Answers(c)))
    /\ UNCHANGED <<data, indexed, reader>>

QueueStep == PendingNext /\ Observed

(* A request misses the cache and asks SoundCloud; a hit changes nothing.      *)
IsPlaylistLiked ==
    /\ Watched /\ reader = "none" /\ data = "none" /\ ~banned
    /\ reader' = Answer(liked)
    /\ UNCHANGED <<queueVars, data, indexed, clear, stale>>

(* set: the answer and its place in the index, in one pipeline.                *)
Set ==
    /\ reader # "none"
    /\ data' = reader /\ indexed' = TRUE /\ reader' = "none"
    /\ stale' = (reader # Answer(liked))
    /\ UNCHANGED <<queueVars, clear>>

(* clearIndex deletes the answers it read the names of, and the index: an      *)
(* answer stored since is in no index any more.                                *)
ClearDelete(c) ==
    /\ clear[c] # "none"
    /\ clear' = [clear EXCEPT ![c] = "none"]
    /\ data' = IF clear[c] = "answer" THEN "none" ELSE data
    /\ indexed' = FALSE
    /\ stale' = (clear[c] = "index" /\ (stale \/ indexed) /\ data # "none")
    /\ UNCHANGED <<queueVars, reader>>

(* The time to live has passed.                                                *)
Expire ==
    /\ data # "none" /\ data' = "none" /\ stale' = FALSE
    /\ UNCHANGED <<queueVars, indexed, reader, clear>>

Next ==
    \/ QueueStep \/ IsPlaylistLiked \/ Set \/ Expire
    \/ \E c \in Call : ClearDelete(c)

Spec == Init /\ [][Next]_vars

FairSpec ==
    /\ Spec /\ WF_vars(Unban /\ Observed)
    /\ \A s \in Sync :
         WF_vars((\E i \in DOMAIN rows : SyncExecute(s, i) \/ SyncSave(s, i)) /\ Observed)
    /\ WF_vars(\E s \in Sync : SyncStart(s) /\ Observed)

-------------------------------------------------------------------------------
(* The cached answer is SoundCloud's once every clearing has ended.  stale     *)
(* names the ways it is not: a run of the queue, which clears nothing, changed *)
(* the like, an answer read before a like was stored after it, or one stored   *)
(* while the index was cleared has dropped out of it.                          *)
CachedAnswerIsCurrent ==
    data # "none" /\ ~stale /\ (\A c \in Call : clear[c] = "none") => data = Answer(liked)

===============================================================================
