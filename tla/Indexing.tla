------------------------------- MODULE Indexing -------------------------------
(* How a track gets its vectors: the rows of indexed_tracks and the timer of   *)
(* IndexingService, the trigger towards the streaming service, the storage's   *)
(* announcement, the work queue, the worker's pull loop and the notification   *)
(* that sets indexed_at.                                                       *)
(*                                                                             *)
(* A queue is the set of the tracks it holds a message for: two messages for   *)
(* one track have the same effect as one delivered twice.  A failed delivery   *)
(* may be the fifth and last one, after which the message is gone; losing a    *)
(* message, failing a handler and killing the worker all draw on MaxFaults.    *)
EXTENDS FiniteSets, Naturals

CONSTANTS Tracks,       \* SoundCloud track ids
          Unfetchable,  \* tracks no source can deliver
          ReapBatch,    \* rows the timer takes at once (REAP_BATCH)
          MaxFaults     \* bound on the failures of a behaviour

ASSUME IndexingAssumption ==
    /\ Unfetchable \subseteq Tracks
    /\ ReapBatch \in Nat \ {0}
    /\ MaxFaults \in Nat

VARIABLES row,       \* per track: no row, a row without or with indexed_at
          stored,    \* tracks whose hq file the storage answers for
          calls,     \* tracks with a trigger request under way
          uploaded,  \* messages of storage.track_uploaded
          index,     \* messages of index.audio.new
          doneRow,   \* messages of done.index_audio for backend-done-index-audio
          doneTaste, \* the same messages for backend-events-done
          mert, clap,\* tracks with a point in tracks_mert, in tracks_clap
          task,      \* what the worker's audio loop works on
          loopUp,    \* the loop has not ended with an exception
          faults

qVars == <<uploaded, index, doneRow, doneTaste>>
workerVars == <<mert, clap, task, loopUp>>
indexingVars == <<row, stored, calls, qVars, workerVars, faults>>

NoTask == [track |-> CHOOSE t \in Tracks : TRUE, at |-> "idle"]

IndexingTypeOK ==
    /\ row \in [Tracks -> {"none", "null", "set"}]
    /\ stored \subseteq Tracks /\ calls \subseteq Tracks
    /\ uploaded \subseteq Tracks /\ index \subseteq Tracks
    /\ doneRow \subseteq Tracks /\ doneTaste \subseteq Tracks
    /\ mert \subseteq Tracks /\ clap \subseteq Tracks
    /\ task \in [track : Tracks, at : {"idle", "check", "embed", "clap", "publish"}]
    /\ loopUp \in BOOLEAN /\ faults \in 0..MaxFaults

IndexingInit ==
    /\ row = [t \in Tracks |-> "none"]
    /\ stored = {} /\ calls = {} /\ uploaded = {} /\ index = {}
    /\ doneRow = {} /\ doneTaste = {} /\ mert = {} /\ clap = {}
    /\ task = NoTask /\ loopUp = TRUE /\ faults = 0

Fault == faults < MaxFaults /\ faults' = faults + 1

(* A step that loses or fails something is a fault; otherwise nothing is. *)
FaultIf(bad) == IF bad THEN Fault ELSE UNCHANGED faults

-------------------------------------------------------------------------------
(* The backend. *)

(* A crawl or a page names the track.  Of two callers that saw no row only the *)
(* one whose insert took effect goes on; both read-then-insert steps together  *)
(* are this one.                                                               *)
EnsureTrackIndexed(t) ==
    /\ row[t] # "set"
    /\ row' = [row EXCEPT ![t] = "null"]
    /\ calls' = calls \cup {t}
    /\ UNCHANGED <<stored, qVars, workerVars, faults>>

(* ensureTrackQueuedById as a change of calls: nothing without a row, nothing  *)
(* for an indexed track.                                                       *)
Queued(t) == IF row[t] = "null" THEN calls \cup {t} ELSE calls

(* The timer.  The query states no order, so any ReapBatch of the rows.        *)
Reap ==
    LET stuck == {t \in Tracks : row[t] = "null"} IN
    /\ stuck # {}
    /\ \E some \in SUBSET stuck :
          /\ \/ some = stuck /\ Cardinality(stuck) <= ReapBatch
             \/ Cardinality(some) = ReapBatch
          /\ calls' = calls \cup some
    /\ UNCHANGED <<row, stored, qVars, workerVars, faults>>

(* storage.track_uploaded is published, and may be lost.                       *)
Announce(t) ==
    \E lost \in BOOLEAN :
        /\ uploaded' = IF lost THEN uploaded ELSE uploaded \cup {t}
        /\ FaultIf(lost)

(* The streaming service answers a trigger: the file is there, before or after *)
(* the fetch failed, and the trigger announces it itself ...                   *)
TriggerCached(t) ==
    /\ t \in calls /\ t \in stored
    /\ calls' = calls \ {t}
    /\ Announce(t)
    /\ UNCHANGED <<row, stored, index, doneRow, doneTaste, workerVars>>

(* ... or it fetches and uploads it, and the storage announces it once both    *)
(* qualities are in place (fire and forget) ...                                *)
TriggerUpload(t) ==
    /\ t \in calls /\ t \notin stored \cup Unfetchable
    /\ calls' = calls \ {t}
    /\ stored' = stored \cup {t}
    /\ Announce(t)
    /\ UNCHANGED <<row, index, doneRow, doneTaste, workerVars>>

(* ... or the request fails or times out, which is only logged.                *)
TriggerFails(t) ==
    /\ t \in calls
    /\ FaultIf(t \notin Unfetchable)
    /\ calls' = calls \ {t}
    /\ UNCHANGED <<row, stored, qVars, workerVars>>

(* A listener streams the track: the storage gets and announces it unasked.    *)
StoredByStream(t) ==
    /\ t \notin stored \cup Unfetchable
    /\ stored' = stored \cup {t}
    /\ Announce(t)
    /\ UNCHANGED <<row, calls, index, doneRow, doneTaste, workerVars>>

(* The consumer of storage.track_uploaded: makes the row if need be and hands  *)
(* the track to the workers.  A failed handler is redelivered, or gone.        *)
OnUploaded(t) ==
    /\ t \in uploaded
    /\ \/ /\ uploaded' = uploaded \ {t}
          /\ row' = [row EXCEPT ![t] = IF @ = "none" THEN "null" ELSE @]
          /\ index' = IF row[t] = "set" THEN index ELSE index \cup {t}
          /\ UNCHANGED faults
       \/ /\ uploaded' \in {uploaded, uploaded \ {t}}
          /\ Fault /\ UNCHANGED <<row, index>>
    /\ UNCHANGED <<stored, calls, doneRow, doneTaste, workerVars>>

(* The consumer of done.index_audio: an update of the row when there is one.   *)
OnDone(t) ==
    /\ t \in doneRow
    /\ \/ /\ doneRow' = doneRow \ {t}
          /\ row' = [row EXCEPT ![t] = IF @ = "null" THEN "set" ELSE @]
          /\ UNCHANGED faults
       \/ /\ doneRow' \in {doneRow, doneRow \ {t}}
          /\ Fault /\ UNCHANGED row
    /\ UNCHANGED <<stored, calls, uploaded, index, doneTaste, workerVars>>

-------------------------------------------------------------------------------
(* The worker's audio loop. *)

Fetch(t) ==
    /\ loopUp /\ task.at = "idle" /\ t \in index
    /\ task' = [track |-> t, at |-> "check"]
    /\ index' = index \ {t}
    /\ UNCHANGED <<row, stored, calls, uploaded, doneRow, doneTaste,
                   mert, clap, loopUp, faults>>

(* has_audio_vectors asks one collection, and an error of it counts as no.     *)
HasAudioVectors == task.track \in mert

\* Mutant: an error of the lookup counts as vectors present.
CheckVectorsTrusting ==
    /\ task.at = "check"
    /\ \/ task' = [task EXCEPT !.at = IF HasAudioVectors THEN "publish" ELSE "embed"]
          /\ UNCHANGED faults
       \/ task' = [task EXCEPT !.at = "publish"] /\ Fault
    /\ UNCHANGED <<row, stored, calls, qVars, mert, clap, loopUp>>

CheckVectors ==
    /\ task.at = "check"
    /\ \/ task' = [task EXCEPT !.at = IF HasAudioVectors THEN "publish" ELSE "embed"]
          /\ UNCHANGED faults
       \/ task' = [task EXCEPT !.at = "embed"] /\ Fault
    /\ UNCHANGED <<row, stored, calls, qVars, mert, clap, loopUp>>

UpsertMert ==
    /\ task.at = "embed" /\ task.track \in stored
    /\ mert' = mert \cup {task.track}
    /\ task' = [task EXCEPT !.at = "clap"]
    /\ UNCHANGED <<row, stored, calls, qVars, clap, loopUp, faults>>

UpsertClap ==
    /\ task.at = "clap"
    /\ clap' = clap \cup {task.track}
    /\ task' = [task EXCEPT !.at = "publish"]
    /\ UNCHANGED <<row, stored, calls, qVars, mert, loopUp, faults>>

(* done goes out by core NATS, unacknowledged, and the message is acked.       *)
PublishDone ==
    /\ task.at = "publish"
    /\ \E lost \in BOOLEAN :
          /\ FaultIf(lost)
          /\ doneRow' = IF lost THEN doneRow ELSE doneRow \cup {task.track}
          /\ doneTaste' = IF lost THEN doneTaste ELSE doneTaste \cup {task.track}
    /\ task' = NoTask
    /\ UNCHANGED <<row, stored, calls, uploaded, index, mert, clap, loopUp>>

(* The handler raises or runs out of time and the message is handed back: to   *)
(* be delivered again, or dropped at the last delivery.  When the negative     *)
(* acknowledgement itself raises, the exception leaves the loop for good.  The *)
(* same step with the loop kept stands for a worker that is killed and         *)
(* restarted: its message comes back when ack_wait has passed.                 *)
TaskFails ==
    /\ task.at # "idle" /\ Fault
    /\ task' = NoTask
    /\ index' \in {index, index \cup {task.track}}
    /\ loopUp' \in {TRUE, FALSE}
    /\ UNCHANGED <<row, stored, calls, uploaded, doneRow, doneTaste, mert, clap>>

WorkerStep ==
    \/ \E t \in Tracks : Fetch(t)
    \/ CheckVectors \/ UpsertMert \/ UpsertClap \/ PublishDone

PipelineStep ==
    \/ \E t \in Tracks :
         EnsureTrackIndexed(t) \/ TriggerCached(t) \/ TriggerUpload(t)
            \/ TriggerFails(t) \/ StoredByStream(t) \/ OnUploaded(t) \/ OnDone(t)
    \/ Reap \/ WorkerStep \/ TaskFails

-------------------------------------------------------------------------------
(* Properties. *)

(* indexed_at is only ever set on a track whose vector recommendations can     *)
(* read: the notification passes a worker, two queues and two consumers, any   *)
(* of which may fail or be repeated in between.                                *)
IndexedHasVector == \A t \in Tracks : row[t] = "set" => t \in mert

===============================================================================
