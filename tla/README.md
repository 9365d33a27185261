# TLA+ specifications of NeoCloud Desktop

This directory holds TLA+ models of the parts of NeoCloud Desktop in which concurrency, failure and
ordering decide whether the program is right, the TLC configurations that check them, and proofs checked
by TLAPS. Every definition is translated from the source; `PROJECT.json` gives the lines it stands for
(`map`), the runs, one mutation of the model for every property of a passing run, the findings, the hazards
of the code at their lines, and the theorems that say most.

    tlc -workers 2 -config TrackCacheSafety.cfg MCTrackCache.tla     # a run: see the table below
    tlapm TrackCacheProofs.tla                                       # proofs; likewise every other *Proofs

## 1. The system and its parts

NeoCloud Desktop is a SoundCloud client. A Tauri application (`desktop/`: a React front end over a Rust core)
talks to a NestJS `backend/` and to a Rust `streaming/` service, which fetches tracks from SoundCloud and keeps
transcoded copies in a Rust `storage/` service. A Python `worker/` computes embeddings of stored tracks;
NATS JetStream, PostgreSQL, Redis and qdrant connect them. The core logic is in some twelve places:

| component | state it keeps | operations | what is hard, and what must hold |
|---|---|---|---|
| track cache (`desktop/src-tauri/src/track_cache`) | map of downloads, host cooldowns, audio files, sidecars, `.part` files | ensure_cached, preload, clear, limit, list | concurrent requests, failing hosts, files changed by commands that take no lock, crashes. One download per track; a returned path is playable; metadata describes its file |
| sessions (`backend/src/auth/auth.service.ts`) | session rows, map of refreshes in flight | getValidAccessToken, refreshSession, logout, end of a login | read, await, save of what was read; rotating refresh tokens; requests without a timeout; restarts. A session's tokens are its user's; refreshes coalesce; a logout lasts |
| links (`backend/src/auth/link.service.ts`) | link rows | create, claim, cleanup | two claims at once, expiry, source removed while its token is refreshed. A link hands over one session |
| storage: quota (`storage/src/routes/upload.rs`) | atomic byte counter, `.input` files | upload, rescan | several threads, failures on every path. The directory stays within its limit |
| storage: pipeline (`storage/src/pipeline.rs`, `backend/`) | lock per name, queue, batches, permits, writer pool, stored files | upload, transcode, commit, DELETE | batches, fallback, retries, hang-ups, restarts. No overlap per name; an announced file is stored; nothing stands still |
| streaming (`streaming/src/stream`, `db`, `cleanup`) | `cdn_tracks` rows, circuit breaker, cached client_id | stream, premium stream, background upload, transcode-upload, cleanup | rows read before a HEAD and updated after it, upserts by two plays, the asynchronous storage behind a 200 |
| indexing (`backend/src/indexing`, `transcode`, `bus`, `events`; `worker/src`) | track rows, NATS streams, pending events, inference permit | ensureTrackIndexed, trigger, storage and done events, reap, pull loops | redelivery with a limit, lost triggers, an event recorded while its track's done message is handled. Every track is indexed in the end, every event applied |
| audio engine (`desktop/src-tauri/src/audio`) | player, source bytes, load generation, device | load_url, load_file, stop, seek, device switch, tick | slow loads overtaken by new ones, device errors, end of track. What is heard is what is shown |
| playback control (`desktop/src/lib/audio.ts`) | current urn, generation, timers | loadTrack, handleTrackEnd, store subscriber, preload | events that name no track, awaits between checks |
| player queue (`desktop/src/stores/player.ts`) | queue, original queue, index, current track, shuffle, repeat | play, next, prev, add, remove, move, shuffle | long sequences of calls. The index points at the current track |
| pending actions, likes (`backend/src/pending-actions`, `likes`) | action rows, cached lists | enqueue, syncAll, syncForSession, like, unlike | timers that overlap themselves, whole-entity saves. An action is executed once |
| response cache (`backend/src/cache`) | Redis entries and their index | fill, clear | fill after clear. A mutation is visible to the next read |

How they interact: the front end asks the track cache for a path, handing it URLs of the storage service
(first) and of the streaming and backend APIs (then). A stream request that is not served from storage uploads what it
fetched to storage in the background. Storage answers the upload when its results are committed, and publishes
`storage.track_uploaded`; the backend turns that into an indexing job for the worker, whose `done` message goes to two
consumers of the backend: one marks the track, the other applies the listening events that waited for it. A like may
become a pending action, which a timer executes, and clears cached answers. Every authenticated request of the backend
goes through the session of its caller, and the QR hand-over copies one. On the desktop, the store of the queue is
watched by the playback control, which drives the audio engine and hears of ends of tracks by events. Section 7 lists
the rest.

## 2. The modules

| module | lines it models | what it is |
|---|---|---|
| `SingleFlight` | abstract | what request coalescing promises: one open flight per key, one outcome per flight, riders answer with their flight's outcome |
| `TrackCache` | track_cache/state.rs, commands.rs | the track cache in full |
| `TrackCacheProofs` | | theorems about it, for all values of the constants |
| `Sessions` | auth.service.ts, auth.guard.ts | sessions, refresh, logout, the end of a login |
| `Link` | link.service.ts | EXTENDS Sessions; links and their claims, which call into it |
| `LinkProofs` | | theorems about Sessions and Link |
| `TmpQuota` | upload.rs (reception), main.rs | the quota and its rescan |
| `TmpQuotaProofs` | | theorems about it |
| `Storage` | upload.rs (the rest), pipeline.rs, transcode.rs, backend/*.rs, files.rs | an upload from its lock to its stored files, DELETE, restart |
| `StorageProofs` | | theorems about it |
| `Streaming` | stream/*.rs, db/postgres.rs | stream requests, the rows of `cdn_tracks`, HEAD, breaker, background upload |
| `StreamingProofs` | | theorems about it |
| `Indexing` | indexing.service.ts, transcode-trigger.service.ts; worker main.py, bus/rpc.py, handlers/audio.py, qdrant.py | the way of a track to its vector: triggers, queues, redelivery, the worker's loop, reap. Steps and properties, no specification of its own |
| `Taste` | events.service.ts, user-taste.service.ts, dislikes.service.ts | EXTENDS Indexing; listening events, the lock of a user, the profile |
| `TasteProofs` | | theorems about it and the pipeline under it |
| `PlayerQueue` | stores/player.ts, and its callers in QueuePanel, Library, TrackPage, audio.ts, the wave | the player queue: store, user, end of a track, late answers, restart |
| `Playback` | lib/audio.ts; audio/engine.rs, tick.rs, device.rs | EXTENDS PlayerQueue; the control that watches the store, and the engine it drives |
| `PlayerProofs` | | theorems about PlayerQueue and Playback |
| `PendingActions` | pending-actions.service.ts, likes.service.ts | queued likes and creations during a ban, runs of the queue that may overlap. No specification of its own |
| `ApiCache` | cache.interceptor.ts, cache.service.ts | EXTENDS PendingActions; the cached answer that a like clears |
| `ApiCacheProofs` | | theorems about PendingActions and ApiCache |
| `MC*` | | the constants of small instances, for TLC |

`SingleFlight` is the abstract specification of two components that were written apart, in two languages:
`TrackCache` and `Sessions` each instantiate it (`Flights`) with a refinement mapping in which a flight is named
by the request that opened it. Four modules compose components that interact: `Link` is the claim of a link over the
session operations it calls, `Taste` the events over the pipeline that makes their vectors, `Playback` control and engine
over the store, `ApiCache` the cache over the likes that clear it. In each, all of the module below goes on beside.

How state and actions correspond to the code:

* A **task, call or upload** is one invocation of a handler; `pc` (or `at`) is the await or the lock it stands at. Every
  await, query, request or file operation is a step of its own, and so is every atomic operation where several
  threads share a counter (`TmpQuota`). Code between two awaits of JavaScript or Python, or within one critical section
  of Rust, is one action.
* **TrackCache.** `active` is the map of running downloads, with the task whose `ActiveDownload` an entry is;
  `slot` its result; a coalesced task is "joining" when it has cloned the Notify and dropped the lock, and
  "waiting" when it is registered: a notification reaches only the latter. `walk` holds the locals of
  download_with_fallback. A file on disk is named by the URL it came from, so that two copies of a track differ.
  `Place`, `Rename`, `Recheck` and `SecondRename` are the steps of write_response_to_cache after the body is complete.
* **Sessions.** TypeORM's `save` of an entity is two steps: it selects the row again (`SaveSelects`, and the like of a login and of a
  claim), and then inserts the entity, if there was no row, or updates the columns in which the entity differs from the row it
  selected (`Written`, `Updated`). What others do between the two stands in the other columns. An update of a row deleted meanwhile finds
  nothing and is no error; an insert of a row inserted meanwhile is one (`Conflicts`). Access and refresh token issued together have one name. `live` are the refresh tokens SoundCloud
  still takes: a refresh may end the old one, its reply may be lost. The query of getValidAccessToken and its continuation,
  which looks at refreshInFlight, are two steps, as other calls run between the answer of a query and the code that
  awaited it.
* **Link.** A link is its row; `entity[c]` is what a claim has read and will save, in two steps as in Sessions; expiry is the action `Lapse`.
* **TmpQuota.** Bytes are counted in units, the counter is an unsigned word that wraps (`% Word`), what several files
  have together is the size of a set of numbered bytes (`Total`). A restart is Init
  again, and is left out. A form carries one file. When a client hangs up, the body may end with an
  error or the handler may be dropped at an await; both are modelled. A drop leaves the file to nobody, or, once it was submitted,
  to the pipeline.
* **Storage.** A file is its duration, which is all that "keep the longest" compares. The writer pool takes
  commits in any order, which covers the order of its channel; backoff times are left out; `RenameFails` stands for
  retries that have nothing left to move. File names are numeric, so that every stored name is announced; publishing
  to NATS is one step that never loses the message.
* **Streaming.** A background upload is named by the request that started it, and the id that its insert would give a
  row is that name, so that an upsert which keeps the old id shows. Which sources have the track, and in which quality, is fixed in
  each behaviour and arbitrary; a request walks them in the order of the code. Storage is external, as seen by its client: it
  stores and answers, refuses a short track, fails, or stores while its answer is lost.
* **Indexing and Taste.** A queue of NATS is the set of tracks it has a message for: the handlers look at nothing else
  of a message, and a duplicate is deduplicated by the code or does nothing new. A done message is two, one for each
  consumer. `task` is the message the worker's audio loop holds; a failed handler hands it back, at the last delivery
  drops it, or ends the loop (`loopUp`). A user's lock is the queue of the runners that asked for it; `turn` is where a runner is
  in tryApply, `base` the count it read; who ends his turn hands the lock to the next (`Released`). A dislike stores its row and then records its
  event (`adding`). The vector of a profile is the sequence of events folded into it. Of the three updates of an event, which `Promise.all` runs
  together, the one of the audio profile is modelled, and of the others what they do to it: one that throws ends the turn while the audio
  update goes on without a lock (`stray`), and one that finds a vector is enough for the event to count as applied (`AppliedElsewhere`).
* **PlayerQueue.** `player` is the zustand store, and an operation of the store is an operator from the store to
  the stores it may leave (several, where it shuffles); actions are what calls it. Operations run to their end, so
  the only interleaving is that of requests: `asked` is the set of urns a pending autoplay has read, `expanding` a pending
  fetch of the liked tracks, and both answers meet whatever queue there is by then. A track is its urn, and lists may hold
  it twice. Which rows can be clicked and dragged follows QueuePanel; the rows of a drag keep their indices while the queue
  moves on. `alone` is an auxiliary variable. A restart finds the store as it is: the persisted one may be older, which adds
  no states, as it is one of the earlier ones.
* **Playback.** One step of JavaScript runs to its next await, the synchronous calls of the store's subscriber included. A load is
  named by the generation it was started with, in audio.ts and in the engine; the call to the engine and its answer are steps
  of their own, and an `audio:ended` event travels. What the engine plays is the urn that its bytes belong to.
* **PendingActions and ApiCache.** A call, and a run of the queue, are one invocation each; `rows` are the rows of the table
  in the order they are read; `todo` are the entities a run has read and will save, by their row. A save is one write of the whole row here: a run changes
  status, attempts and error together, so that the update of what differs is nearly that, and what a row looks like when another save falls between the select and
  the update of one is left out. Three of the twelve types of action stand for all (a like, its reverse, a creation). One cached
  answer and its index are modelled; a request for it and the clearing of its index are steps beside the calls.

Several variables are histories, which no action reads but to bound how often something happens: `folded`, `wanted`, `vanished`, and
those that name a race when it happens (`torn`, `mixed`, `unlucky`, `late`, `lost`, `overlapped`, `stale`, `mishaps`), so that a property can say "but for". Section 5 tells what these
races are. The exceptions are as narrow as the code allows: a race that is not named is one that TLC says does not happen.

## 3. The runs

| run | instance | checks | result |
|---|---|---|---|
| TrackCacheSafety | 3 tasks, 1 track, 1 storage and 1 API URL, 1 crash, 1 sweep | types; one downloader per track; returned paths playable; no leaked .part; metadata matches; complete files never replaced; refinement of SingleFlight | holds |
| TrackCacheLive | 3 tasks, 2 API URLs, 1 retry, metadata may fail | a download ends; a registered waiter is woken | holds |
| TrackCacheLost | 2 tasks | every request returns | **violated**: lost wake-up |
| Sessions | 3 calls, 2 users, 3 tokens, 1 mishap; symmetric in the calls | types; tokens belong to the session's user, but for torn sessions; a refresh sends a live token; refinement of SingleFlight | holds |
| Link | 2 calls, 1 link, 3 session ids, 2 users, 1 mishap | a claimed link records one claim; every call ends, or SoundCloud does not answer | holds |
| TmpQuota | 3 uploads of up to 2 units, limit 3, 1 rescan, 1 leak | attended files within the quota, or what the directory held at the start, until a rescan; charges are credited | holds |
| Storage | 2 uploads, 2 names, both backends, 3 mishaps | no overlap per name; announced is stored; sources reclaimed; no standstill; longest kept while clients wait | holds |
| Streaming | 1 track, 2 requests of 5 kinds, all sets of sources, threshold 2, 2 faults | a row that is ok was stored; no better source passed over; a track uploaded once is recorded | holds |
| Taste | 1 track, 1 listener with a like and a dislike, 1 fault | profiles count their events; the dislike has the last word; no event left behind; an indexed track has its vector | holds |
| PlayerQueue | 3 tracks, queues of up to 3, lists of up to 2 handed over; symmetric in the tracks | shuffle loses nothing; the index follows the current track; repeat all covers the queue | holds |
| Playback | 3 tracks, queues of two tracks, of one twice, of one; 2 loads, 1 end of a track under way; symmetric in the tracks | at rest the track heard is the one shown; a paused store is silent; a playing one is heard | holds |
| ApiCache | 2 calls of 3 kinds, 2 runs of the queue, 2 retries, 1 ban, 1 fault | the last request stands; a creation is posted once; a cached answer is current; actions settle | holds |

The violation is a finding: it contradicts a sentence of the code, quoted in `PROJECT.json`. Beside it stands what
does hold (a *registered* waiter is woken), so that the pair tells where the promise ends. The largest runs are Playback
(3.0 million states), Streaming (2.7 million), Storage, TrackCacheSafety and Taste (1.4 million each); Playback takes longest, and of the runs
that are searched for a cycle Link (475,000 states).

**Bounds.** All are named constants; a budget (`MaxCrashes`, `MaxMishaps`, `MaxLeaks`, `MaxFaults`, `MaxBans`) bounds
failures of the environment and never what the code does by itself. They are large enough for what the
properties are about:

* Coalescing needs a leader, a rider, and a third task that arrives when the leader has landed: 3 tasks. One track
  suffices because no step of one track reads what another track's download writes but the cooldown of a host;
  the proofs cover any number of tracks, hosts, URLs, retries, crashes and sweeps.
* Sessions: two calls that overlap and a third that changes the session meanwhile; three tokens are the first one, a
  refreshed one and a login's. Link: two claims, or a claim and a call of Sessions; three sessions so that both
  claims can copy. Two claims alone mix no link (`mixed`), for that takes a third, or a cleanup, between select and update; the proof is about any number.
* TmpQuota: a limit of 3 and uploads of up to 2 units let one upload, and not always two, fit; the third takes the
  counter past the limit and rolls back. The word is 16 so that wrapping around is possible and seen.
* Storage: two uploads make a batch of two, a batch of one with one waiting, the same name or two; durations 1, 2, 4
  with Short = 1 and Epsilon = 1 give a refused track, a shorter and a longer one. Three mishaps give each job a
  failed batch, then a failed single run or commit, and one more; one retry is left to a writer.
* Streaming: the tracks share nothing but the breaker, so one track and two requests give every race between two uploads,
  or an upload and a reader; two faults reach the threshold of the breaker, or fail a request and its successor.
* Taste: a like and a dislike are one event of each kind, either first; both may wait for the done message or race it. One fault is one
  lost announcement, message, query or save, one killed worker, or one failed trial, whose stray update then meets the other event's. Two stray
  updates need two faults: those are the proof's.
* PlayerQueue: three entries put the current one between an earlier and a later one, which is all that the arithmetic on
  indices distinguishes; lists of two may hold one track twice, or the current one or not. Sequences of
  operations are not bounded (the graph is 21 steps deep), and indices outside a shorter queue arise.
* Playback: two loads are one that is overtaken and the one that overtakes it; the third track is what autoplay brings. The store takes
  only the operations that the queue panel, the player bar and the media keys offer on such queues; the others belong to PlayerQueue.
* ApiCache: two runs can overlap, two calls can contradict each other, and two retries are a failure and the last one. The
  cache is used only in behaviours without faults and overlaps (`Watched`): neither touches it.

**Fairness.** `TrackCacheLive`, `TrackCacheLost`: weak fairness of the steps of each task, as tokio runs every ready task
and every HTTP request of the code has a timeout; nothing obliges anybody to ask, sweep or crash. `Link`: weak
fairness of the steps of each call, as the event loop runs every callback and queries end, but none of the steps that wait for
SoundCloud: its requests have no timeout (soundcloud.service.ts:111, 132), and may stay unanswered. `EveryCallEnds` says that a call ends or is
held up by such a request, its own or that of the refresh it rides on. `Storage` states
the same worry without fairness, as `NoStandstill`: while an upload waits, the guard of some step of the service holds
(`Ready`, in words), and where one does TLC finds that the service can step (`ENABLED`). Every upload is made once and its steps lead
forward only, so that with the tasks running each upload is answered.
`ApiCache`: bans end, the timer
of the queue starts runs again, and a run's steps end; the fairness is weak, as no step competes for ever with another. `Taste` has no
fairness: it promises nothing that must happen. That every row is indexed in the end is not true of the code, whose reaper takes any
batch of the rows and may take the same ones for ever (section 5).

## 4. The proofs

### The track cache

`TrackCacheProofs` (1790 obligations) proves for all tasks, tracks, hosts, URL lists, retry counts, budgets and
for the assumption `TrackCacheAssumption` alone:

| theorem | says |
|---|---|
| `TypeCorrect` | `Spec => []TypeOK` |
| `OneDownloaderPerTrack` | `Spec => []SingleDownloader` |
| `PathsArePlayable` | `Spec => []OkIsPlayable` |
| `PartsAreOwned` | `Spec => []NoPartLeak` |
| `MetadataAgrees` | `Spec => []MetaDescribesFile` |
| `CompleteFilesStay` | `Spec => NeverReplaced` |
| `CacheImplementsSingleFlight` | `Spec => ImplementsSingleFlight` |
| `CoalescedAnswersAgree` | `Spec => [](Flights!RidersAgree /\ Flights!RidersShareKey)` |
| `WaitersAreDecided` | `Spec => [][WaitersKept]_vars`: a registered waiter leaves only when its download has landed; whether it can is settled when it registers |
| `StorageWalkGoesOn` | `Spec => []EachUrlOnce`: no storage URL is tried twice in a download, and a next one exists while any is left |
| `TasksApproachTheirEnd` | `Spec => [][TasksNearEnd]_vars`: a measure that each step of a task lowers and nothing else raises |

None of these invariants is inductive as it stands. `SingleDownloader` says nothing of `active`, and two tasks could
start from a state in which a download runs that the map does not know. The inductive invariant is
`IInv == TypeOK /\ WalkOK /\ FlightInv /\ DiskInv`:

* `WalkOK`: the URL at hand is one of the list being walked, which typing the next URL needs;
* `FlightInv`: a task that leads is the entry of its track in `active`; riders name a task that asked for the same
  track; slots and answers agree;
* `DiskInv`: what a running download implies about the files of its track. It is here that coalescing pays: because
  no other download of the track runs, the file seen absent before the rename is still absent, or was deleted, at
  the rename, which is what `NeverReplaced` needs.

`IInvInit`, `IInvNext` and `IInvAlways` are the three facts. The step is split by the lemma `WalkShape`, which says
once what all the steps of a walk have in common for the coalescing (they move one `pc` and at most set the slot), so that
`FlightInv` has five cases instead of twenty-five. The refinement maps each step to the step of SingleFlight of the
same meaning or to a stutter (`FlightStep`).

The last two theorems are what the liveness properties of `TrackCacheLive` rest on. The measure is lexicographic: the
URLs left, the attempts left at the URL at hand, the steps left of the attempt. That the first goes down is no
matter of counting, since the order by health changes while the walk goes on: it needs `FreshOK`, the URL being tried
is not among those tried. `WaitersKept` separates the waiters that will be woken from those that the finding
`TrackCacheLost` is about, and says that none passes from one side to the other.

### Listening events and the indexing pipeline

`TasteProofs` (3146 obligations) proves for all tracks, listeners, events and budgets of faults, from `IndexingAssumption` and
`TasteAssumption` (there are tracks and events, and an event has a user, a track and a kind):

| theorem | says |
|---|---|
| `TasteTypeCorrect` | `Spec => []TypeOK` |
| `IndexedTracksHaveVectors` | `Spec => []IndexedHasVector` |
| `ProfilesCountTheirEvents` | `Spec => []ProfileCountsEvents` |
| `NoEventIsLeftBehind` | `Spec => []NoEventLeftBehind` |
| `DislikesHaveTheLastWord` | `Spec => []DislikeHasLastWord` |
| `MessagesKnowTheirTrack` | `Spec => []SourceInv`: the worker and the messages are about tracks that the storage has, each with a row |
| `LinesDoNotStall` | `Spec => []HeadsMayGoOn`: who is first in the line of a user's lock can go on |
| `TurnsAreServed` | `Spec => [][TurnsServed]_vars`: first come first served, at most five more steps for each event to be tried; stray updates delay nobody |

The four before the last three are all the safety properties of the run `Taste`, which has one listener with two events and one fault. The
inductive invariant is `IInv == TypeOK /\ VectorInv /\ FoldInv /\ LockInv /\ ProfileInv /\ OwnInv /\ WaitInv /\ DislikeInv`:

* `VectorInv`: a worker past its first upsert, a done message and an indexed row all know of a vector. The row follows the
  message, the message the upsert; the worker that finds the vectors there, and publishes at once, is the other way to it.
  `FoldInv` adds that what was folded, or is about to be, is of a track with a vector.
* `LockInv`: whoever tries an event is at the head of its user's lock, and there is one head. `ProfileInv`: so a count read before two
  awaits is still the count when it is written, as long as no stray update, which has no lock, overlapped with another one of the
  user; such a one knows the count, too, and is alone with it. `overlapped` records the first moment at which two are between read and write.
* `OwnInv`: who is tried is saved and tried under its own user's lock, and a dislike whose row is being stored is not saved yet.
* `WaitInv`: an event neither applied nor in error, whose track the worker has told of, is *in sight*: its done message is
  still to come, or the consumer has it in hand, or it is being tried. Its hard case is a call whose trial finds no vector: by
  `VectorInv` nobody was told of the track yet, so that the message comes after the event was saved, and finds it.
* `DislikeInv`: of a dislike whose row stands, an event is *due* (lost, or on its way and not past its fold), or the matter is
  *settled* (the last event folded is not a like, or a late one, and no like is past the guard). The guard reads the row before the fold; it
  is the lock that keeps a like which passed the guard from being folded after the dislike. A dislike that counts as applied because
  another profile took it needs `FoldInv`: either no like of the track was folded, as it has no vector, or an error lost the dislike (`lost`).

The consumer's list is read before the lock is taken, so that an event may be tried twice; no theorem needs that it is not.

The last three are what is safe about "every event is applied, every track is indexed". `SourceInv` is an invariant of
its own. The lock is a chain of promises in the code, a queue whose head nobody can remove but by ending; `LineInv` says that nobody
stands in it twice or in another user's, and that the event of a call that waits is not saved yet, so that its turn begins
with the save. A runner's measure counts the steps of the trial it is in and five for each event it still has to try.

### Sessions and links

`LinkProofs` (1838 obligations) proves, from `SessionsAssumption` (the sessions of the start have users and tokens of
their own; "no call" and "no token" are neither), for all calls, sessions, users, tokens, links and mishaps:

| theorem | says |
|---|---|
| `TypeCorrect`, `LinkTypeCorrect` | `Spec => []TypeOK`, `LinkSpec => []LinkTypeOK` |
| `SessionsKeepTheirUser`, `CopiesKeepTheirUser` | `SessionBelongsToItsUser`, of the sessions alone and with claims that copy them |
| `NoTokenIsSentTwice` | `Spec => []RefreshSendsLiveToken` |
| `RefreshesAreSingleFlights`, `ClaimsRideSingleFlights` | both specifications implement SingleFlight |
| `ClaimsAreRecorded` | `LinkSpec => []ClaimedLinkIsOneClaim` |
| `RefreshesAnswerAlike` | `LinkSpec => [](Flights!RidersAgree /\ Flights!RidersShareKey)` |
| `RidersAreCarried` | `LinkSpec => []RidersCarried`: who waits for another's refresh has a leader at work on it, or one that has landed |
| `CallsApproachTheirEnd` | `LinkSpec => [][CallsNearEnd]_allVars`: at most fifteen steps of its own, and no other's step adds one |

A session's tokens are its user's, though `save` compares an entity that was read three awaits before with a row that may change before
its update. The invariant: `Standing` (what a call has, by where it stands), `MapOK` (an entry of `refreshInFlight` names a call that
leads a refresh of that session) and `OwnOK` (*every* copy of a session, in the table or in a call's hands, has tokens
of its user, but for rows in `torn`: so it does not matter which copy is saved last). An update takes user and tokens of one copy together, or leaves
all three, or takes tokens alone; in the last case the user it left alone is that of the copy, or the session is torn. `NoTokenIsSentTwice` needs `LiveInv`: undisturbed by
logins, restarts and lost replies, a dead token is in a row only while the refresh that ended it is about to save
(`LiveOK`), and no two places share a token but a session and the call refreshing it (`ApartOK`). The lemmas about
steps do not fix the set of labels, so that they serve for the calls of Link, too. Link adds where a claim stands and
that the entity a claim has read never says "claimed"; a link claimed is as a claim saved it, or in `mixed`. `RidersAreCarried` and `CallsApproachTheirEnd` are what `EveryCallEnds`
rests on: the one says that the only wait of a call on another is never for nobody, the other that the rest is bounded.

### Storage: the quota

`TmpQuotaProofs` (1201 obligations), from `QuotaAssumption`: there are finitely many uploads, and the bytes that all
may send, with those that were left over, are less than the counter's word (2^64 in the code). It proves
`TypeCorrect`, `TheQuotaHolds` (`QuotaHolds`) and `ChargesComeBack` (`ChargesAreCredited`).

The invariant is an account. Until a rescan the counter is what the directory held at the start and the sum, over the
handlers, of what each has charged or is about to roll back (`CounterOK`); no file is longer than its reservation, and
no handler lets go of a file that is still there, unless to the pipeline (`FilesOK`, unless a failure left one to nobody); and the charges were within
the limit when they were made (`LimitOK`). Sums over sets are not in the provers' libraries: `Total` is a cardinality,
and its lemmas are those of finite sets.

### Storage: the pipeline

`StorageProofs` (2643 obligations), from `StorageAssumption` (sizes are numbers, pools and batches not empty), for all
uploads, names, lengths, batch sizes, permits, writers, retries and mishaps, on both backends:

| theorem | says |
|---|---|
| `TypeCorrect` | `Spec => []TypeOK` |
| `OneJobAtATime` | `Spec => []OneJobPerFile` |
| `SourcesAreReclaimed` | `Spec => []SourceReclaimed` |
| `AnnouncementsHold` | `Spec => []AnnouncedIsStored` |
| `LongerFilesAreKept` | `Spec => KeepsLongest` |
| `NobodyStandsStill` | `Spec => []SomeoneIsReady`, the part of `NoStandstill` without `ENABLED` |
| `TasksEnd` | `Spec => [][EndsNearer]_vars`: each step of a task of the service lowers the rank of an upload, and nothing raises one |

The inductive invariant ties a job's stage to where it is kept (`JobsOK`: queue, forming batch, running batches that
are disjoint), to its handler and lock (`HeldOK`), to its source and answer (`EndsOK`), and its two results to the
backend (`PartsOK`, `AnnouncedOK`). `LongerOK` carries `KeepsLongest`: the comparison a writer made still holds when
it renames, because `HeldOK` gives one job per name, and so no other writer of that file.

`NobodyStandsStill` needs the converse of `JobsOK`, the invariant `GoesOn`: a job whose stage says queued, forming,
probing or transcoding *is* in the queue or in a batch, the jobs of a running batch are at one stage, each result of a
commit is with the writers, a handler that waits without an answer has an active job, and a lock that is taken is held
by a handler that waits. From there the argument goes down the pipeline: one who waits for a lock waits for one who
waits for an answer; that one's job can go on, or waits for a permit or a writer; and those are free, or held by a
batch or a writer that can go on.

`TasksEnd` is the other half. The rank of an upload adds the turns of its handler, the stops of its job on the way from
the queue to the commit, and for each of its two results the steps of the attempts left; it is at most
6 * Retries + 17. A step of a batch lowers the rank of each job in it, so that batches may not be empty (`NoneEmpty`); failures,
hang-ups, deletions and restarts raise none. Together: while an upload waits there is a step, and there are only so many.

### Streaming

`StreamingProofs` (1874 obligations), from `StreamingAssumption` (the kinds of request are the code's five, the
threshold is positive, there is a track), for all tracks, requests and faults: `TypeCorrect`, `OkRowsAreOfStoredFiles`
(`OkRowWasStored`), `TheBestSourceIsServed` (`BestSourceServed`), `SingleUploadsAreRecorded`
(`SingleUploadIsRecorded`), and two more:

| theorem | says |
|---|---|
| `RequestsAreAnsweredOnce` | `Spec => []AnswerOK /\ [][AnswersStay]_vars`: a request has ended when it was answered, and the answer stays |
| `RequestsApproachTheirEnd` | `Spec => [][RequestsNearEnd]_vars`: at most eleven steps of a request and six of its upload, each makes them fewer |

`RowsOK` says that a row was drawn by an upload that has begun, and that an upload past its POST has had its track
stored; `PhaseOK` ties an upload to its request, so that only one that was answered has begun. `Tried` says that the
sources a request has left are the cascade without those that had nothing, which is what `BestSourceServed` needs at
the moment of the answer. `HeadOK`: who asks storage for a stored copy by HEAD had a row that said ok, and who is told that it is missing, of a
file that has vanished; so that marking the row, a step later, does no harm to a track uploaded once. `AloneOK` follows, upload step by upload step, the two rows of a track whose upload nothing
competes with. Answers are made in four places, two of which can meet: the POST that the backend's request waits for, and the
look at the storage after it failed. `AnswerOK` keeps them apart: while that POST is under way its request stands at "again".

### The player

`PlayerProofs` (4363 obligations), from `PlayerQueueAssumption` and `PlaybackAssumption` (nothing is not a track, and
the bounds are numbers; a behaviour of Playback begins with a queue that is not empty), for any tracks, lengths of
queues and lists, loads and events:

| theorem | says |
|---|---|
| `QueueTypeCorrect`, `PlaybackTypeCorrect` | the store, and control and engine beside it, keep their types |
| `NothingIsLostByShuffle` | `Spec => []ShuffleLosesNothing` |
| `ThePointerFollows` | `Spec => PointerFollowsTrack` |
| `RepeatAllGoesRound` | `Spec => []RepeatAllCoversQueue` |
| `WhatIsHeardIsShown` | `PlaybackSpec => []HeardIsShown` |
| `APausedStoreIsSilent` | `PlaybackSpec => []PausedIsSilent` |
| `APlayingStoreIsHeard` | `PlaybackSpec => []SilenceIsMeant` |

*The queue.* Lists are compared by how often they hold a track (`Times`), and each operator on lists has a lemma that
says what it does to the entries and to those counts. For every operation of the store one lemma states that it keeps
the types, that the shuffled queue and the order it came from still hold the same tracks as often (`Kept`), and that
an index which pointed at the current track still does (`Follows`). The invariant is `TypeOK /\ Kept(player, alone)`.
What a repetition leads to (the insertion of a list at random places of a shuffled queue, *n* times `next()`) is
written as a recursive function and proved by induction on *n*: `SetInduction` derives it from the fact that no chain
of subsets of a finite set goes down for ever, since the library's own induction theorem is out of the provers' reach.

*Control and engine.* `StoreOK`: the index points at the current track, unless the queue was cleared or prev() left no track to show, and an autoplay
under way knows the tracks of the queue. `LoadOK`: the last load is of the track that is shown. `EngineOK`: the engine is at work on that load only
and plays what is shown, but for a player that outlived a `stop` which missed the lock (`Lingering`), whose
replacement is on its way. `PauseOK` and `SoundOK` say the same of pausing and of sound. Each holds but for the races
named in `mishaps`, and fails with them.

### Pending actions and the cache

`ApiCacheProofs` (2646 obligations), from `PendingActionsAssumption` (the bounds are numbers, of calls, runs, retries
and the batch at least 1): `TypeCorrect`, `TheLastWordStands` (`LastRequestStands`), `CreationsArePostedOnce`
(`PostedOnce`) and `CachedAnswersAreCurrent` (`CachedAnswerIsCurrent`). The queue's invariant `QueueInv` is proved of
the queue by itself (`QueueInvariant`) and again with the cache beside it.

`RunsOK` and `CallsOK` say what a run or a call holds are copies of rows. `OrderOK`, unless a step reordered actions:
a run holds every pending like that stands before one it holds, and the last pending like, or SoundCloud once there is
none, is what was asked for last. `PostsOK`, unless one was repeated: the creation of a call is in one row and in
copies of that row, and is not posted before a run has come to it. `KeptOK`, unless one was dropped: an accepted
creation was posted, or is in a pending row that a run settles only after posting it. The cache adds that an answer
which is not stale is in the index, where the clearing finds it.

Four more theorems are the safety part of `ActionsSettle`:

| theorem | says |
|---|---|
| `RunsDoNotStall` | `Spec => []RunsGoOn`: a run that has not ended has a row it has come to |
| `RunsApproachTheirEnd` | `Spec => [][RunsNearEnd]_vars`: two steps at most for each row it holds, and nobody adds any |
| `SettledActionsStay` | `Spec => [][SettledStays]_vars`: a row that is settled is pending again only if a call takes it over or runs overlapped |
| `AttemptsAreNotForgotten` | `Spec => [][CountsKept]_vars`: no save brings a row below the least attempt count of the row and its copies; a trial adds one or settles it |

The last is about runs that overlap and save whole entities over each other, so that the count in a row may go *down*. What
does not go down is the least count among the row and all the copies that runs hold, and it is that which the trials raise.
They need `HoldInv`: a run under way holds a row, and while nothing was repeated what it holds is pending in the table.

### Only model-checked

Liveness and `ENABLED` are not in the reach of the installed provers. TLC checks the four liveness properties and the
`ENABLED` of `NoStandstill`; of each the part that is safety is a theorem, for all values of the constants:

| checked by TLC | proved |
|---|---|
| `DownloadEnds`, `RegisteredIsWoken` | `TasksApproachTheirEnd`, `StorageWalkGoesOn`, `WaitersAreDecided` |
| `EveryCallEnds` | `CallsApproachTheirEnd`, `RidersAreCarried` |
| `ActionsSettle` | `RunsDoNotStall`, `RunsApproachTheirEnd`, `SettledActionsStay`, `AttemptsAreNotForgotten`; that the timer starts runs and bans end stays with TLC |
| `NoStandstill` | `NobodyStandsStill`, `TasksEnd` |

That the guard of a step implies that the step can be taken, and that weak fairness turns "a step is possible and lowers a bounded
rank" into "it ends", is what is left to TLC. All other properties of the runs that hold, safety,
action properties and refinements, are theorems. Each is proved of the specification that its run checks, without its
bounds: those on failures, calls and lengths are constants of which the assumptions ask no more than that they are
numbers.

## 5. Where the code falls short of its documents, and races the models name

Modelling brought these up. The first is a run that TLC finds violated; the others are the reason of a condition in
a property that holds, or of a step that a reader might take for an error of the model.

* **Track cache**: a request that has cloned the Notify and not yet awaited it misses `notify_waiters` and waits for ever
  (state.rs:596; the finding `TrackCacheLost`). `MetaDescribesFile` is about sidecars that can be written: a failed write is swallowed
  and leaves an old one.
* **Sessions**: a refresh that was under way when its session was logged out saves its entity and so inserts the session again
  (auth.service.ts:340); docs/qr-link-protocol.md:135 says that a session logged out is gone. A refresh whose save has selected the row of one user, and
  updates its tokens after a login as another user has updated it (auth.service.ts:253), leaves the second user's session with the first
  one's tokens: the session is `torn`, and the two properties on tokens leave it, and what claims copy of it, out. A request to SoundCloud that
  is never answered holds up every later call of its session, as the refresh stays in `refreshInFlight` (soundcloud.service.ts:111).
* **Link**: two claims that overlap both find the link pending, and both hand out a session (link.service.ts:94), though
  qr-link-protocol.md:125 makes a link usable once. What holds: the row records one of them, unless the update of one save falls between select and update of another
  and so mixes their columns (`mixed`).
* **TmpQuota**: a rescan subtracts bytes that are charged and not yet written, so that the quota (config.rs:43) can be passed
  afterwards (upload.rs:82-84). `QuotaHolds` is about behaviours without one. When a client hangs up after its file was submitted, the reservation is
  credited at once, and the pipeline removes the file only later (upload.rs:53-60, 217): new uploads may then exceed the quota on disk. `QuotaHolds`
  does not count such files (`Attended`), nor those that a failure or hang-up leaves to nobody.
* **Storage**: the lock of a name dies with a client that hangs up, while its job goes on; a shorter file may then replace a longer one
  (upload.rs:215, against backend/mod.rs:38). The fallback of a failed batch starts one ffmpeg per job after the permit was
  given back, and so exceeds `max_transcodes` (pipeline.rs:178, config.rs:30).
* **Streaming**: the insert of a pending row makes a fresh id and, when the row exists, keeps the old one; the update by the fresh
  id then changes nothing (postgres.rs:162, 175), so that only a track uploaded *once* is promised its rows. A short track, which storage refuses
  with 409, counts as a failure of the breaker (storage.rs:139-147). The cleanup asks to delete `hq/x.ogg`, a name with a slash that
  the route of storage does not take, so that it never frees anything (cleanup/task.rs:39, storage main.rs:149).
* **Indexing**: when the negative acknowledgement fails, the exception ends the worker's loop for good (rpc.py:51, main.py:96), and what was
  to be redelivered waits; storage/src/bus.rs:40 counts on it. A failure between the two upserts leaves a track without its
  second vector, which nothing makes up for, as the first one counts as done (audio.py:75-76, qdrant.py:56). The batch of reap
  is unordered, and tracks that cannot be fetched may fill it, so that with fifty of these a track whose announcement was lost may never come to
  its turn (indexing.service.ts:169-173): hence `Unfetchable`, and no property that every row is indexed.
* **Taste**: a pending event is read before the lock is taken, and nobody looks at `taste_applied_at` again (events.service.ts:161): it may be
  folded twice. An event whose trial met an error is not tried again when its track is indexed (`unlucky`). `Promise.all` rejects at the first
  of three updates that throws, and the lock is released while the others go on (user-taste.service.ts:37, events.service.ts:46): such a *stray* update may
  overwrite the next one's count (`overlapped`), or fold a like after the dislike that followed it (`late`). One of three updates that finds a vector makes the event count as
  applied (user-taste.service.ts:42), so that one that failed is lost to its profile, and the row of a dislike and its event are saved one after the
  other (dislikes.service.ts:37-40), so that an error between them leaves a dislike without an event for ever (`lost`). Left out: an upsert that
  takes effect although it throws, and a backend killed during a trial, whose event nobody comes back for.
* **Playback**: `load_file` commits what it decoded without looking at `load_gen`, which `load_url` does (engine.rs:134-168); play,
  pause and stop take `try_lock` and are lost when a load holds it (engine.rs:280-305); a device switch takes the player
  away and calls a reload that does nothing and returns Ok (device.rs:349, engine.rs:96); `reloadCurrentTrack` decides by a
  `wasPlaying` read before an await (audio.ts:92); a further entry of the same urn is not loaded when nothing plays
  (audio.ts:424); the end of a track after the queue was cleared forgets what is shown; `prev()` on a cleared queue leaves no current track
  (player.ts:172), and the subscriber stops the engine without raising `loadGen` (audio.ts:447), so that a load being fetched goes on and is heard with nothing
  shown (mishap `dropped`; so is a stop that was missed with no track to follow); and autoplay skips a track chosen while it
  was asking (audio.ts:551). `mishaps` and the conditions of the three properties name these.
* **Pending actions**: the row of a like that is taken over by its reverse keeps its place, so that like, unlike, like during a ban
  may end unliked; a second creation during a ban takes the place of the first, as both have the target `new`; runs that overlap
  post twice (pending-actions.service.ts:27); an older action in the queue overrides a later direct request.
* **Response cache**: a run of the queue clears nothing; an answer read before a like may be stored after it, and one stored while the
  index is being cleared drops out of it (cache.interceptor.ts:66). Each lasts until its time to live.

## 6. The plan

What is left, in the order of its importance:

1. A module `Login`: the login request, its callback that answers before its work is done, and its poll.
2. The lookups of lyrics in flight as a third implementation of `SingleFlight`; likes of tracks with their cached list,
   and `ensureLikesRecorded`, which records them as events under one lock.
3. With a prover that knows fairness, the step from ranks to liveness named at the end of section 4.

## 7. What is not modelled, and why

`PROJECT.json` lists every component with its reason. In short: the requests of the streaming service's fetchers, the SoundCloud
client and the library controllers keep no state between requests; recommendations and the worker's models
score text and vectors; decoding, equaliser, media keys, tray, Discord and the static server are calls into the
operating system; the user interface, the admin panel and the landing page render state owned elsewhere. These are
most of the lines of the repository, and the share that the models cover says so.

Within components that are modelled: `load_url`, stalls and reconnection of the engine, preloading, hydration of metadata and the listening
history of the playback control; likes of tracks, reposts and local likes beside the likes of playlists; the RPC and lyrics loops of
the worker; the cleanup of the streaming service, which frees nothing (section 5); the crawl, which to the pipeline is a
row that appears; the OAuth applications. Of the track cache, a `.part` file whose removal fails (state.rs:341); of the playback
control, the subscriber that is called again by a change of the store which `loadTrack` itself makes. Wording, formats, logging and layout are left out everywhere, and times are
actions that may happen.
