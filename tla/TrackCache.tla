----------------------------- MODULE TrackCache -----------------------------
(***************************************************************************)
(* The on-disk audio cache of the desktop application:                     *)
(* desktop/src-tauri/src/track_cache/{state,commands}.rs.                  *)
(*                                                                         *)
(* A task is one call of ensure_cached, from track_ensure_cached or from a *)
(* preload.  Tasks run on several threads and interleave at every await.   *)
(* Requests for one track coalesce: the first one downloads, the others    *)
(* wait on a tokio Notify and read the downloader's result slot.  A        *)
(* download walks the storage URLs, healthy hosts first and each once,     *)
(* then the API URLs with retries; a body is streamed into a .part file    *)
(* and moved over the final name, and the sidecar metadata is written      *)
(* after that.  Clearing, limiting and listing the cache delete files      *)
(* beside it, with no lock in common.                                      *)
(***************************************************************************)
EXTENDS Naturals, FiniteSets

CONSTANTS Task,          \* the calls of ensure_cached, each made once
          Urn,           \* the tracks
          Host,          \* the storage hosts
          Storages,      \* how many storage URLs a request carries
          HostOf,        \* HostOf[i]: the host of storage URL i
          Apis,          \* how many API URLs it carries
          Retries,       \* RETRY_DELAYS_MS.len(), 3 in the code
          MaxPreloads,   \* MAX_PARALLEL_PRELOADS, 20 in the code
          CacheLimit,    \* the limit of track_enforce_cache_limit, in full files
          MetaMayFail,   \* whether writing the metadata can fail
          MaxCrashes,    \* bound: how often the process dies
          MaxSweeps,     \* bound: how many sweeps are ever started
          None           \* no task, no track, no outcome

Storage == 1..Storages
Api     == 1..Apis

ASSUME TrackCacheAssumption ==
    /\ Storages \in Nat
    /\ Apis \in Nat \ {0}
    /\ HostOf \in [Storage -> Host]
    /\ Retries \in Nat /\ MaxPreloads \in Nat /\ CacheLimit \in Nat
    /\ MetaMayFail \in BOOLEAN
    /\ MaxCrashes \in Nat /\ MaxSweeps \in Nat
    /\ None \notin Task /\ None \notin Urn /\ None \notin {"ok", "err"}

\* A copy of a track is named by the URL it came from: that fixes both its
\* quality and its source.  "short" is a file below MIN_AUDIO_SIZE, which a
\* power loss can leave behind.
Copy   == {<<"storage", i>> : i \in Storage} \cup {<<"api", a>> : a \in Api}
Absent == <<"absent", 0>>
Short  == <<"short", 0>>
Complete(f) == f \in Copy

VARIABLES pc,        \* where a task stands
          urn,       \* the track it asks for
          leader,    \* the task whose download it runs or waits for
          slot,      \* ActiveDownload.result of the download a task runs
          answer,    \* what ensure_cached returned
          walk,      \* the locals of download_with_fallback
          permit,    \* the preload tasks that hold a semaphore permit
          active,    \* TrackCacheState.active
          cooling,   \* the hosts in storage_cooldowns, not yet cooled down
          file,      \* the audio file of a track on disk
          meta,      \* the copy its metadata sidecar describes
          part,      \* the tasks whose .part file is on disk
          sweep,     \* the clear, limit or list command under way
          crashes, sweeps   \* how many there have been

taskVars == <<pc, urn, leader, slot, answer, walk, permit>>
diskVars == <<file, meta, part>>
bounds   == <<crashes, sweeps>>
vars     == <<taskVars, active, cooling, diskVars, sweep, bounds>>

Streaming == {"streaming", "place", "rename", "recheck", "remove", "rename2"}
Walking   == {"storage", "sent", "api"} \cup Streaming
Leading   == Walking \cup {"meta", "settled", "notified"}
PC == {"idle", "check", "miss", "joining", "waiting", "woken", "done", "dead"}
          \cup Leading

Result == {"ok", "err"}
NoWalk == [src |-> Absent, front |-> {}, tried |-> {}, attempt |-> 0]
Walk   == [src : Copy \cup {Absent}, front : SUBSET Storage,
           tried : SUBSET Storage, attempt : 0..Retries]
Sweep  == [kind : {"none", "clear", "limit", "list"}, left : SUBSET Urn, heavy : SUBSET Urn,
           doomed : Urn \cup {None}, stage : {"audio", "meta"}]
NoSweep == [kind |-> "none", left |-> {}, heavy |-> {}, doomed |-> None, stage |-> "audio"]

TypeOK ==
    /\ pc \in [Task -> PC]
    /\ urn \in [Task -> Urn \cup {None}]
    /\ leader \in [Task -> Task \cup {None}]
    /\ slot \in [Task -> Result \cup {None}]
    /\ answer \in [Task -> Result \cup {None}]
    /\ walk \in [Task -> Walk]
    /\ permit \in SUBSET Task
    /\ active \in [Urn -> Task \cup {None}]
    /\ cooling \in [Host -> BOOLEAN]
    /\ file \in [Urn -> Copy \cup {Absent, Short}]
    /\ meta \in [Urn -> Copy \cup {Absent}]
    /\ part \in SUBSET Task
    /\ sweep \in Sweep
    /\ crashes \in 0..MaxCrashes /\ sweeps \in 0..MaxSweeps

\* A fresh start of the application on a cache directory that may hold a file
\* cut short by a power loss.
Init ==
    /\ pc = [t \in Task |-> "idle"]
    /\ urn = [t \in Task |-> None]
    /\ leader = [t \in Task |-> None]
    /\ slot = [t \in Task |-> None]
    /\ answer = [t \in Task |-> None]
    /\ walk = [t \in Task |-> NoWalk]
    /\ permit = {}
    /\ active = [u \in Urn |-> None]
    /\ cooling = [h \in Host |-> FALSE]
    /\ file \in [Urn -> {Absent, Short}]
    /\ meta = [u \in Urn |-> Absent]
    /\ part = {}
    /\ sweep = NoSweep
    /\ crashes = 0 /\ sweeps = 0

Goto(t, label) == pc' = [pc EXCEPT ![t] = label]

-----------------------------------------------------------------------------
(* Requests and their coalescing.                                          *)

\* track_ensure_cached
EnsureCached(t, u) ==
    /\ pc[t] = "idle"
    /\ urn' = [urn EXCEPT ![t] = u]
    /\ Goto(t, "check")
    /\ UNCHANGED <<leader, slot, answer, walk, permit, active, cooling, diskVars, sweep, bounds>>

\* One entry of track_preload that is neither cached nor short of a permit.
Preload(t, u) ==
    /\ pc[t] = "idle"
    /\ ~Complete(file[u])
    /\ Cardinality(permit) < MaxPreloads
    /\ permit' = permit \cup {t}
    /\ urn' = [urn EXCEPT ![t] = u]
    /\ Goto(t, "check")
    /\ UNCHANGED <<leader, slot, answer, walk, active, cooling, diskVars, sweep, bounds>>

\* The call returns; a preload drops its permit.
Return(t, result) ==
    /\ answer' = [answer EXCEPT ![t] = result]
    /\ permit' = permit \ {t}
    /\ Goto(t, "done")

\* get_cache_entry, before any lock is taken
CacheCheck(t) ==
    /\ pc[t] = "check"
    /\ \/ Complete(file[urn[t]]) /\ Return(t, "ok")
       \/ ~Complete(file[urn[t]]) /\ Goto(t, "miss") /\ UNCHANGED <<answer, permit>>
    /\ UNCHANGED <<urn, leader, slot, walk, active, cooling, diskVars, sweep, bounds>>

\* active.lock(): there is a download for the track.  Its Notify and its slot
\* are cloned and the lock is dropped; nobody is registered with the Notify yet.
Coalesce(t) ==
    /\ pc[t] = "miss"
    /\ active[urn[t]] # None
    /\ leader' = [leader EXCEPT ![t] = active[urn[t]]]
    /\ Goto(t, "joining")
    /\ UNCHANGED <<urn, slot, answer, walk, permit, active, cooling, diskVars, sweep, bounds>>

\* notify.notified(): from here on a notify_waiters wakes the task.
Register(t) ==
    /\ pc[t] = "joining"
    /\ Goto(t, "waiting")
    /\ UNCHANGED <<urn, leader, slot, answer, walk, permit, active, cooling, diskVars, sweep,
                   bounds>>

\* Mutant: the lookup and the entry are not under one lock.
LeadUnlocked(t) ==
    /\ pc[t] = "miss"
    /\ active' = [active EXCEPT ![urn[t]] = t]
    /\ leader' = [leader EXCEPT ![t] = t]
    /\ walk' = [walk EXCEPT ![t] = [NoWalk EXCEPT !.front = Storage]]
    /\ Goto(t, "storage")
    /\ UNCHANGED <<urn, slot, answer, permit, cooling, diskVars, sweep, bounds>>

\* active.lock(): no download, so the task enters its own, and sorts the storage
\* URLs by the health their hosts have now.
Lead(t) ==
    /\ pc[t] = "miss"
    /\ active[urn[t]] = None
    /\ active' = [active EXCEPT ![urn[t]] = t]
    /\ leader' = [leader EXCEPT ![t] = t]
    /\ walk' = [walk EXCEPT ![t] =
                   [NoWalk EXCEPT !.front = {i \in Storage : ~cooling[HostOf[i]]}]]
    /\ Goto(t, "storage")
    /\ UNCHANGED <<urn, slot, answer, permit, cooling, diskVars, sweep, bounds>>

\* Mutant: the result is not stored before the waiters are woken.
SettleLate(t, result) ==
    /\ walk' = [walk EXCEPT ![t] = NoWalk]
    /\ Goto(t, "settled")
    /\ UNCHANGED slot

\* The download is over: its result goes to the slot.  The slot is read by woken
\* tasks only, so nothing can see the moment between the two.
Settle(t, result) ==
    /\ slot' = [slot EXCEPT ![t] = result]
    /\ walk' = [walk EXCEPT ![t] = NoWalk]
    /\ Goto(t, "settled")

\* Mutant: notify_one, which wakes a single waiter.
NotifyOne(t) ==
    /\ pc[t] = "settled"
    /\ LET waiters == {w \in Task : pc[w] = "waiting" /\ leader[w] = t}
       IN  \/ waiters = {} /\ Goto(t, "notified")
           \/ \E w \in waiters : pc' = [pc EXCEPT ![w] = "woken", ![t] = "notified"]
    /\ UNCHANGED <<urn, leader, slot, answer, walk, permit, active, cooling, diskVars, sweep,
                   bounds>>

\* notify_waiters(): wakes the tasks registered now, and leaves nothing behind.
Notify(t) ==
    /\ pc[t] = "settled"
    /\ pc' = [w \in Task |-> IF w = t THEN "notified"
                             ELSE IF pc[w] = "waiting" /\ leader[w] = t THEN "woken"
                             ELSE pc[w]]
    /\ UNCHANGED <<urn, leader, slot, answer, walk, permit, active, cooling, diskVars, sweep,
                   bounds>>

\* self.active.lock().await.remove(urn)
Remove(t) ==
    /\ pc[t] = "notified"
    /\ active' = [active EXCEPT ![urn[t]] = None]
    /\ Goto(t, "woken")
    /\ UNCHANGED <<urn, leader, slot, answer, walk, permit, cooling, diskVars, sweep, bounds>>

\* The downloader and the tasks it woke return what the slot holds; an empty slot
\* would be the error "download completed without result".
Answer(t) ==
    /\ pc[t] = "woken"
    /\ Return(t, IF slot[leader[t]] = None THEN "err" ELSE slot[leader[t]])
    /\ UNCHANGED <<urn, leader, slot, walk, active, cooling, diskVars, sweep, bounds>>

-----------------------------------------------------------------------------
(* The walk over the URLs of one download.                                 *)

Left(t) == Storage \ walk[t].tried

\* Storage URL i is the one the sorted list has next: healthy when sorted first,
\* then the order of the list.
IsNext(t, i) ==
    LET pool == IF Left(t) \cap walk[t].front # {}
                THEN Left(t) \cap walk[t].front
                ELSE Left(t)
    IN  i \in pool /\ \A j \in pool : i <= j

Tried(t, i) == [walk EXCEPT ![t] = [@ EXCEPT !.tried = walk[t].tried \cup {i}, !.src = Absent]]
FirstApi(t) == [walk EXCEPT ![t] = [@ EXCEPT !.src = <<"api", 1>>, !.attempt = 0]]

\* A URL whose host cools down is passed over; otherwise the request is sent.
StorageSend(t) ==
    /\ pc[t] = "storage"
    /\ \E i \in Storage :
          /\ IsNext(t, i)
          /\ \/ /\ cooling[HostOf[i]]
                /\ walk' = Tried(t, i)
                /\ UNCHANGED pc
             \/ /\ ~cooling[HostOf[i]]
                /\ walk' = [walk EXCEPT ![t] = [@ EXCEPT !.src = <<"storage", i>>]]
                /\ Goto(t, "sent")
    /\ UNCHANGED <<urn, leader, slot, answer, permit, active, cooling, diskVars, sweep, bounds>>

\* A success clears the host's mark and starts the body (or the .part file cannot
\* be created); 404 and 410 say nothing of the host; anything else marks it.
StorageReply(t) ==
    /\ pc[t] = "sent"
    /\ LET i == walk[t].src[2]
       IN  \/ /\ cooling' = [cooling EXCEPT ![HostOf[i]] = FALSE]
              /\ \/ part' = part \cup {t} /\ Goto(t, "streaming") /\ UNCHANGED walk
                 \/ walk' = Tried(t, i) /\ Goto(t, "storage") /\ UNCHANGED part
           \/ /\ \E failed \in BOOLEAN :
                     cooling' = [cooling EXCEPT ![HostOf[i]] = @ \/ failed]
              /\ walk' = Tried(t, i) /\ Goto(t, "storage") /\ UNCHANGED part
    /\ UNCHANGED <<urn, leader, slot, answer, permit, active, file, meta, sweep, bounds>>

StorageDone(t) ==
    /\ pc[t] = "storage" /\ Left(t) = {}
    /\ walk' = FirstApi(t)
    /\ Goto(t, "api")
    /\ UNCHANGED <<urn, leader, slot, answer, permit, active, cooling, diskVars, sweep, bounds>>

\* Mutant: the last URL is followed by the first one again.
GiveUpUrlAround(t) ==
    /\ walk' = [walk EXCEPT ![t] = [@ EXCEPT !.src = <<"api", 1>>, !.attempt = 0]]
    /\ Goto(t, "api") /\ UNCHANGED slot

\* A fatal error ends the URL at hand; the last API URL's ends the download.
GiveUpUrl(t) ==
    LET s == walk[t].src
    IN  \/ /\ s[1] = "storage"
           /\ walk' = Tried(t, s[2]) /\ Goto(t, "storage") /\ UNCHANGED slot
        \/ /\ s[1] = "api" /\ s[2] < Apis
           /\ walk' = [walk EXCEPT ![t] = [@ EXCEPT !.src = <<"api", s[2] + 1>>, !.attempt = 0]]
           /\ Goto(t, "api") /\ UNCHANGED slot
        \/ s = <<"api", Apis>> /\ Settle(t, "err")

\* Mutant: one attempt too many.
RetryUrlOnceMore(t) ==
    /\ walk[t].src[1] = "api" /\ walk[t].attempt <= Retries
    /\ walk' = [walk EXCEPT ![t] = [@ EXCEPT !.attempt = walk[t].attempt + 1]]
    /\ Goto(t, "api") /\ UNCHANGED slot

\* A retryable error is retried on an API URL while attempts remain.
RetryUrl(t) ==
    \/ /\ walk[t].src[1] = "api" /\ walk[t].attempt < Retries
       /\ walk' = [walk EXCEPT ![t] = [@ EXCEPT !.attempt = walk[t].attempt + 1]]
       /\ Goto(t, "api") /\ UNCHANGED slot
    \/ (walk[t].src[1] = "storage" \/ walk[t].attempt = Retries) /\ GiveUpUrl(t)

\* download_api: the request fails, the .part file cannot be created, or the body starts.
ApiReply(t) ==
    /\ pc[t] = "api"
    /\ \/ RetryUrl(t) /\ UNCHANGED part
       \/ GiveUpUrl(t) /\ UNCHANGED part
       \/ part' = part \cup {t} /\ Goto(t, "streaming") /\ UNCHANGED <<slot, walk>>
    /\ UNCHANGED <<urn, leader, answer, permit, active, cooling, file, meta, sweep, bounds>>

-----------------------------------------------------------------------------
(* write_response_to_cache                                                 *)

\* The stream breaks off (retryable), the disk or the audio check refuses it
\* (fatal), both removing the .part file; or it is whole and valid.
Stream(t) ==
    /\ pc[t] = "streaming"
    /\ \/ RetryUrl(t) /\ part' = part \ {t}
       \/ GiveUpUrl(t) /\ part' = part \ {t}
       \/ Goto(t, "place") /\ UNCHANGED <<slot, walk, part>>
    /\ UNCHANGED <<urn, leader, answer, permit, active, cooling, file, meta, sweep, bounds>>

PlaceFrame(t) ==
    UNCHANGED <<urn, leader, answer, permit, active, cooling, file, meta, sweep, bounds>>

\* Mutant: any file that is there counts, however short.
PlaceUnlessExists(t) ==
    /\ pc[t] = "place"
    /\ \/ file[urn[t]] # Absent /\ part' = part \ {t} /\ Settle(t, "ok")
       \/ file[urn[t]] = Absent /\ Goto(t, "rename") /\ UNCHANGED <<slot, walk, part>>
    /\ PlaceFrame(t)

\* Mutant: nobody looks at the final name.
PlaceBlindly(t) ==
    pc[t] = "place" /\ Goto(t, "rename") /\ UNCHANGED <<slot, walk, part>> /\ PlaceFrame(t)

\* Mutant: the .part file that lost is left behind.
PlaceLeaving(t) ==
    /\ pc[t] = "place"
    /\ \/ Complete(file[urn[t]]) /\ Settle(t, "ok") /\ UNCHANGED part
       \/ ~Complete(file[urn[t]]) /\ Goto(t, "rename") /\ UNCHANGED <<slot, walk, part>>
    /\ PlaceFrame(t)

\* Mutant: the copy that lost writes its metadata all the same.
PlaceDescribing(t) ==
    /\ pc[t] = "place"
    /\ \/ Complete(file[urn[t]]) /\ part' = part \ {t} /\ Goto(t, "meta")
       \/ ~Complete(file[urn[t]]) /\ Goto(t, "rename") /\ UNCHANGED part
    /\ UNCHANGED <<slot, walk>> /\ PlaceFrame(t)

\* A complete file that is already there wins over the new one.
Place(t) ==
    /\ pc[t] = "place"
    /\ \/ /\ Complete(file[urn[t]])
          /\ part' = part \ {t} /\ Settle(t, "ok")
       \/ /\ ~Complete(file[urn[t]])
          /\ Goto(t, "rename") /\ UNCHANGED <<slot, walk, part>>
    /\ PlaceFrame(t)

Rename(t) ==
    /\ pc[t] = "rename"
    /\ \/ /\ file' = [file EXCEPT ![urn[t]] = walk[t].src]
          /\ part' = part \ {t} /\ Goto(t, "meta")
       \/ Goto(t, "recheck") /\ UNCHANGED <<file, part>>
    /\ UNCHANGED <<urn, leader, slot, answer, walk, permit, active, cooling, meta, sweep, bounds>>

\* The rename failed: look again ...
Recheck(t) ==
    /\ pc[t] = "recheck"
    /\ \/ /\ Complete(file[urn[t]])
          /\ part' = part \ {t} /\ Settle(t, "ok")
       \/ /\ ~Complete(file[urn[t]])
          /\ Goto(t, "remove") /\ UNCHANGED <<slot, walk, part>>
    /\ UNCHANGED <<urn, leader, answer, permit, active, cooling, file, meta, sweep, bounds>>

\* ... and remove what is in the way, which may fail too.
RemoveStale(t) ==
    /\ pc[t] = "remove" /\ Goto(t, "rename2")
    /\ file' \in {file, [file EXCEPT ![urn[t]] = Absent]}
    /\ UNCHANGED <<urn, leader, slot, answer, walk, permit, active, cooling, meta, part,
                   sweep, bounds>>

SecondRename(t) ==
    /\ pc[t] = "rename2"
    /\ part' = part \ {t}
    /\ \/ file' = [file EXCEPT ![urn[t]] = walk[t].src] /\ Goto(t, "meta")
          /\ UNCHANGED <<slot, walk>>
       \/ GiveUpUrl(t) /\ UNCHANGED file
    /\ UNCHANGED <<urn, leader, answer, permit, active, cooling, meta, sweep, bounds>>

\* write_cache_metadata: by its own rename, its errors swallowed.
WriteMeta(t) ==
    /\ pc[t] = "meta"
    /\ \/ meta' = [meta EXCEPT ![urn[t]] = walk[t].src]
       \/ MetaMayFail /\ UNCHANGED meta
    /\ Settle(t, "ok")
    /\ UNCHANGED <<urn, leader, answer, permit, active, cooling, file, part, sweep, bounds>>

-----------------------------------------------------------------------------
(* The commands that delete files.  They run one at a time, on the main    *)
(* thread, and take no lock that a download takes.                         *)

Present == {u \in Urn : file[u] # Absent}

\* clear_cache, enforce_limit (0 means unlimited), list_cached_urns
StartSweep(kind) ==
    /\ sweep = NoSweep /\ sweeps < MaxSweeps
    /\ kind = "limit" => CacheLimit # 0
    /\ sweep' = [NoSweep EXCEPT !.kind = kind, !.left = Present,
                                !.heavy = {u \in Present : Complete(file[u])}]
    /\ sweeps' = sweeps + 1
    /\ UNCHANGED <<taskVars, active, cooling, diskVars, crashes>>

OverLimit == Cardinality(sweep.heavy) > CacheLimit
SkipFile(u) == sweep' = [sweep EXCEPT !.left = sweep.left \ {u}, !.doomed = None, !.stage = "audio"]

\* One directory entry is looked at, and deleted by a later step or passed over.
\* enforce_limit sized the files when it started, and takes them in the order of
\* their access times, which can be any.
SweepInspect(u) ==
    /\ sweep.doomed = None /\ u \in sweep.left
    /\ LET takes == CASE sweep.kind = "clear" -> file[u] # Absent
                      [] sweep.kind = "list"  -> ~Complete(file[u])
                      [] sweep.kind = "limit" -> OverLimit
       IN  \/ takes /\ sweep' = [sweep EXCEPT !.doomed = u]
           \/ ~takes /\ SkipFile(u)
    /\ UNCHANGED <<taskVars, active, cooling, diskVars, bounds>>

\* remove_file: enforce_limit goes on to the metadata only if it succeeded.
SweepRemove(u) ==
    /\ sweep.doomed = u /\ u \in Urn /\ sweep.stage = "audio"
    /\ \/ /\ file' = [file EXCEPT ![u] = Absent]
          /\ sweep' = [sweep EXCEPT !.stage = "meta", !.heavy = sweep.heavy \ {u}]
          /\ sweep.kind = "limit" => file[u] # Absent
       \/ /\ UNCHANGED file
          /\ \/ sweep.kind = "limit" /\ SkipFile(u)
             \/ sweep.kind # "limit" /\ sweep' = [sweep EXCEPT !.stage = "meta"]
    /\ UNCHANGED <<taskVars, active, cooling, meta, part, bounds>>

\* remove_cache_metadata
SweepForget(u) ==
    /\ sweep.doomed = u /\ u \in Urn /\ sweep.stage = "meta"
    /\ meta' = [meta EXCEPT ![u] = Absent]
    /\ SkipFile(u)
    /\ UNCHANGED <<taskVars, active, cooling, file, part, bounds>>

SweepEnd ==
    /\ sweep # NoSweep /\ sweep.doomed = None /\ sweep.left = {}
    /\ sweep' = NoSweep
    /\ UNCHANGED <<taskVars, active, cooling, diskVars, bounds>>

-----------------------------------------------------------------------------
(* The environment.                                                        *)

\* STORAGE_COOLDOWN_SECS have passed since the host's last failure.
CoolDown(h) ==
    /\ cooling[h]
    /\ cooling' = [cooling EXCEPT ![h] = FALSE]
    /\ UNCHANGED <<taskVars, active, diskVars, sweep, bounds>>

\* The process dies and is started again: what is on disk stays, .part files too.
Crash ==
    /\ crashes < MaxCrashes
    /\ crashes' = crashes + 1
    /\ pc' = [t \in Task |-> IF pc[t] \in {"idle", "done"} THEN pc[t] ELSE "dead"]
    /\ walk' = [t \in Task |-> NoWalk]
    /\ permit' = {}
    /\ active' = [u \in Urn |-> None]
    /\ cooling' = [h \in Host |-> FALSE]
    /\ sweep' = NoSweep
    /\ UNCHANGED <<urn, leader, slot, answer, diskVars, sweeps>>

TaskStep(t) ==
    \/ CacheCheck(t) \/ Coalesce(t) \/ Register(t) \/ Lead(t)
    \/ Notify(t) \/ Remove(t) \/ Answer(t)
    \/ StorageSend(t) \/ StorageReply(t) \/ StorageDone(t) \/ ApiReply(t)
    \/ Stream(t) \/ Place(t) \/ Rename(t) \/ Recheck(t) \/ RemoveStale(t)
    \/ SecondRename(t) \/ WriteMeta(t)

SweepStep == (\E u \in Urn : SweepInspect(u) \/ SweepRemove(u) \/ SweepForget(u)) \/ SweepEnd

Next ==
    \/ \E t \in Task, u \in Urn : EnsureCached(t, u) \/ Preload(t, u)
    \/ \E t \in Task : TaskStep(t)
    \/ \E kind \in {"clear", "limit", "list"} : StartSweep(kind)
    \/ SweepStep
    \/ \E h \in Host : CoolDown(h)
    \/ Crash

Spec == Init /\ [][Next]_vars

\* HTTP requests time out and the runtime schedules every ready task, so a task
\* that can take a step takes one.  Nobody has to ask, to sweep or to crash.
FairSpec == Spec /\ \A t \in Task : WF_vars(TaskStep(t))

-----------------------------------------------------------------------------
(* Properties.                                                             *)

\* "Coalesces concurrent requests for the same URN" (state.rs:553): no two tasks
\* ever run a download of one track together, however the check of the cache, the
\* lock and the end of an earlier download interleave.
SingleDownloader ==
    \A t1, t2 \in Task :
        pc[t1] \in Leading /\ pc[t2] \in Leading /\ urn[t1] = urn[t2] => t1 = t2

\* While no clear, limit or list command has run, a path returned to a caller, or
\* about to be, is that of a complete file: neither a failed rename, a coalesced
\* answer nor a restart leaves the player with a path to nothing.
OkIsPlayable ==
    \A t \in Task :
        sweeps = 0 /\ "ok" \in {slot[t], answer[t]} => Complete(file[urn[t]])

\* A complete file is never overwritten by another copy, which a player may have
\* open: the look at the final name (state.rs:436) and the rename (443) are two steps, and
\* only coalescing keeps a second download from coming between them.
NeverReplaced ==
    [][\A u \in Urn : Complete(file[u]) /\ Complete(file'[u]) => file'[u] = file[u]]_vars

\* Every path through write_response_to_cache consumes or removes its .part file:
\* the ones on disk belong to a task still writing, or to one the process took down.
NoPartLeak == \A t \in part : pc[t] \in Streaming \cup {"dead"}

\* The sidecar the player reads its quality badge from describes the file beside it,
\* except between the rename and the metadata write of a download.  The delete
\* commands remove the two files in two steps beside running downloads, and may
\* leave either alone, but never a wrong pair.
MetaDescribesFile ==
    crashes = 0 /\ ~MetaMayFail =>
        \A u \in Urn :
            Complete(file[u]) /\ meta[u] \notin {Absent, file[u]}
                => \E t \in Task : urn[t] = u /\ pc[t] = "meta"

\* A task that runs a download returns, whatever the hosts answer: the walk over
\* the URLs and the retries end.
DownloadEnds ==
    \A t \in Task : pc[t] \in Leading ~> pc[t] \in {"done", "dead"}

\* A task that registers with the Notify before the download lets go of it returns.
RegisteredIsWoken ==
    \A t \in Task :
        pc[t] = "waiting" /\ pc[leader[t]] \in Leading \ {"notified"}
            ~> pc[t] \in {"done", "dead"}

\* "Coalesces concurrent requests for the same URN" (state.rs:553): a coalesced
\* request comes back, like the download it waits for.
EveryRequestReturns ==
    \A t \in Task : pc[t] = "check" ~> pc[t] \in {"done", "dead"}

\* What the cache promises in the abstract: its downloads are single flights.
Flights == INSTANCE SingleFlight
    WITH Request <- Task, Key <- Urn, Outcome <- Result,
         key <- urn, ride <- leader, open <- active, landed <- slot
ImplementsSingleFlight == Flights!Spec
=============================================================================
