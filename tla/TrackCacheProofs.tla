-------------------------- MODULE TrackCacheProofs --------------------------
(***************************************************************************)
(* Proofs about TrackCache, for any tasks, tracks, hosts, URLs, retries    *)
(* and budgets.                                                            *)
(*                                                                         *)
(* The inductive invariant has three parts: WalkOK (what the locals of a   *)
(* download hold at each of its steps, which the types need), FlightInv    *)
(* (how active, leader, slot and answer hang together) and DiskInv (what   *)
(* the running downloads imply about the files).  Most steps of a download *)
(* are the same for FlightInv: WalkShape says so once.                     *)
(*                                                                         *)
(* What the liveness properties rest on is proved here too: a waiter is    *)
(* woken by its downloader or is stranded for good (WaitersKept), and a    *)
(* rank of the task falls with each of its steps (TasksNearEnd).  That     *)
(* fair tasks therefore end is left to TLC.                                *)
(***************************************************************************)
EXTENDS TrackCache, FiniteSetTheorems, WellFoundedInduction, TLAPS

StorageCopy == {<<"storage", i>> : i \in Storage}
ApiCopy     == {<<"api", a>> : a \in Api}

\* The URL at hand is one of the list that the download is walking.
WalkOK ==
    \A t \in Task :
        /\ pc[t] = "sent" => walk[t].src \in StorageCopy
        /\ pc[t] = "api" => walk[t].src \in ApiCopy
        /\ pc[t] \in Streaming \cup {"meta"} => walk[t].src \in Copy

LEMMA Pairs ==
    /\ ApiCopy \subseteq Copy /\ StorageCopy \subseteq Copy
    /\ \A c \in StorageCopy : c[2] \in Storage /\ c[1] = "storage" /\ c = <<c[1], c[2]>>
    /\ \A c \in ApiCopy : c[2] \in Api /\ c[1] = "api" /\ c = <<c[1], c[2]>>
    /\ \A c \in Copy : c \in StorageCopy \/ c \in ApiCopy
    /\ Absent \notin Copy /\ Short \notin Copy /\ Absent # Short
<1>1. \A c \in StorageCopy : c[2] \in Storage /\ c[1] = "storage" /\ c = <<c[1], c[2]>>
  BY DEF StorageCopy
<1>2. \A c \in ApiCopy : c[2] \in Api /\ c[1] = "api" /\ c = <<c[1], c[2]>>
  BY DEF ApiCopy
<1>3. Absent[1] = "absent" /\ Short[1] = "short"
  BY DEF Absent, Short
<1> QED
  BY <1>1, <1>2, <1>3 DEF Copy, StorageCopy, ApiCopy

LEMMA WalkTypes ==
    /\ NoWalk \in Walk
    /\ \A w \in Walk : /\ w = [src |-> w.src, front |-> w.front,
                               tried |-> w.tried, attempt |-> w.attempt]
                       /\ w.src \in Copy \cup {Absent} /\ w.attempt \in 0..Retries
                       /\ w.tried \in SUBSET Storage /\ w.front \in SUBSET Storage
BY TrackCacheAssumption DEF NoWalk, Walk

-----------------------------------------------------------------------------
(* The walk: what giving a URL up and retrying it do.                      *)

\* A step that leaves task t walking, and nothing of the coalescing changed.
Quiet(t) ==
    /\ pc[t] \in Walking \cup {"meta"}
    /\ \E label \in Walking \cup {"meta"} : pc' = [pc EXCEPT ![t] = label]
    /\ UNCHANGED <<urn, leader, slot, answer, active>>

\* A step that ends the download of task t.
Lands(t) ==
    /\ pc[t] \in Walking \cup {"meta"}
    /\ pc' = [pc EXCEPT ![t] = "settled"]
    /\ \E o \in Result : slot' = [slot EXCEPT ![t] = o]
    /\ UNCHANGED <<urn, leader, answer, active>>

\* What the walk of t may become, by where t goes.
GoodWalk(t) ==
    /\ walk' \in [Task -> Walk]
    /\ \A o \in Task \ {t} : walk'[o] = walk[o]
    /\ pc'[t] = "api" => walk'[t].src \in ApiCopy
    /\ pc'[t] = "sent" => walk'[t].src \in StorageCopy
    /\ pc'[t] \in Streaming \cup {"meta"} => walk'[t].src \in Copy

Moves(t) ==
    /\ \E label \in {"storage", "api", "settled"} : pc' = [pc EXCEPT ![t] = label]
    /\ \/ pc'[t] # "settled" /\ UNCHANGED slot
       \/ pc'[t] = "settled" /\ slot' = [slot EXCEPT ![t] = "err"]

LEMMA TriedWalk ==
    ASSUME TypeOK, NEW t \in Task, NEW i \in Storage, walk' = Tried(t, i)
    PROVE  walk' \in [Task -> Walk] /\ \A o \in Task \ {t} : walk'[o] = walk[o]
<1>1. walk \in [Task -> Walk] /\ walk[t] \in Walk
  BY DEF TypeOK
<1>2. [walk[t] EXCEPT !.tried = walk[t].tried \cup {i}, !.src = Absent] \in Walk
  <2>1. [walk[t] EXCEPT !.tried = walk[t].tried \cup {i}] \in Walk
    BY <1>1 DEF Walk
  <2>2. \A v \in Walk : [v EXCEPT !.src = Absent] \in Walk
    BY DEF Walk
  <2> QED
    BY <2>1, <2>2
<1> QED
  BY <1>1, <1>2 DEF Tried

LEMMA SrcWalk ==
    ASSUME TypeOK, NEW t \in Task, NEW s \in Copy,
           \/ walk' = [walk EXCEPT ![t] = [@ EXCEPT !.src = s]]
           \/ walk' = [walk EXCEPT ![t] = [@ EXCEPT !.src = s, !.attempt = 0]]
    PROVE  /\ walk' \in [Task -> Walk] /\ \A o \in Task \ {t} : walk'[o] = walk[o]
           /\ walk'[t].src = s
<1>1. walk \in [Task -> Walk] /\ walk[t] \in Walk
  BY DEF TypeOK
<1>2. /\ [walk[t] EXCEPT !.src = s] \in Walk
      /\ [walk[t] EXCEPT !.src = s].src = s
  BY <1>1 DEF Walk
<1>3. /\ [walk[t] EXCEPT !.src = s, !.attempt = 0] \in Walk
      /\ [walk[t] EXCEPT !.src = s, !.attempt = 0].src = s
  <2>1. \A v \in Walk : [v EXCEPT !.attempt = 0] \in Walk /\ [v EXCEPT !.attempt = 0].src = v.src
    BY TrackCacheAssumption DEF Walk
  <2> QED
    BY <1>2, <2>1
<1> QED
  BY <1>1, <1>2, <1>3

LEMMA GiveUpFacts ==
    ASSUME TypeOK, NEW t \in Task, walk[t].src \in Copy, GiveUpUrl(t)
    PROVE  Moves(t) /\ GoodWalk(t)
<1> DEFINE s == walk[t].src
<1>1. CASE s[1] = "storage" /\ walk' = Tried(t, s[2]) /\ Goto(t, "storage") /\ UNCHANGED slot
  <2>1. s[2] \in Storage
    BY <1>1, Pairs
  <2> QED
    BY <1>1, <2>1, TriedWalk DEF Moves, GoodWalk, Goto, TypeOK, Streaming
<1>2. CASE /\ s[1] = "api" /\ s[2] < Apis
           /\ walk' = [walk EXCEPT ![t] = [@ EXCEPT !.src = <<"api", s[2] + 1>>, !.attempt = 0]]
           /\ Goto(t, "api") /\ UNCHANGED slot
  <2>1. s[2] \in Api
    BY <1>2, Pairs
  <2>2. <<"api", s[2] + 1>> \in ApiCopy
    BY <1>2, <2>1, TrackCacheAssumption DEF Api, ApiCopy
  <2>3. <<"api", s[2] + 1>> \in Copy
    BY <2>2, Pairs
  <2>4. walk' \in [Task -> Walk] /\ (\A o \in Task \ {t} : walk'[o] = walk[o])
        /\ walk'[t].src = <<"api", s[2] + 1>>
    BY <1>2, <2>3, SrcWalk
  <2> QED
    BY <1>2, <2>2, <2>4 DEF Moves, GoodWalk, Goto, TypeOK, Streaming
<1>3. CASE s = <<"api", Apis>> /\ Settle(t, "err")
  BY <1>3, WalkTypes DEF Moves, GoodWalk, Settle, Goto, TypeOK, Streaming
<1> QED
  BY <1>1, <1>2, <1>3 DEF GiveUpUrl

LEMMA RetryFacts ==
    ASSUME TypeOK, NEW t \in Task, walk[t].src \in Copy, RetryUrl(t)
    PROVE  Moves(t) /\ GoodWalk(t)
<1>1. CASE /\ walk[t].src[1] = "api" /\ walk[t].attempt < Retries
           /\ walk' = [walk EXCEPT ![t] = [@ EXCEPT !.attempt = walk[t].attempt + 1]]
           /\ Goto(t, "api") /\ UNCHANGED slot
  <2>1. walk[t].src \in ApiCopy
    BY <1>1, Pairs
  <2>2. walk[t].attempt + 1 \in 0..Retries
    BY <1>1, WalkTypes, TrackCacheAssumption DEF TypeOK
  <2>3. walk \in [Task -> Walk] /\ walk[t] \in Walk
    BY DEF TypeOK
  <2>4. /\ [walk[t] EXCEPT !.attempt = walk[t].attempt + 1] \in Walk
        /\ [walk[t] EXCEPT !.attempt = walk[t].attempt + 1].src = walk[t].src
    BY <2>2, <2>3 DEF Walk
  <2>5. walk' \in [Task -> Walk] /\ (\A o \in Task \ {t} : walk'[o] = walk[o])
        /\ walk'[t].src = walk[t].src
    BY <1>1, <2>3, <2>4
  <2> QED
    BY <1>1, <2>1, <2>5 DEF Moves, GoodWalk, Goto, TypeOK, Streaming
<1>2. CASE GiveUpUrl(t)
  BY <1>2, GiveUpFacts
<1> QED
  BY <1>1, <1>2 DEF RetryUrl

-----------------------------------------------------------------------------
(* The shape of a download's steps.                                        *)

LEMMA MovesShape ==
    ASSUME TypeOK, NEW t \in Task, pc[t] \in Walking, Moves(t),
           UNCHANGED <<urn, leader, answer, active>>
    PROVE  Quiet(t) \/ Lands(t)
BY DEF Moves, Quiet, Lands, Walking, Streaming, TypeOK, Result

WalkStep(t) ==
    \/ StorageSend(t) \/ StorageReply(t) \/ StorageDone(t) \/ ApiReply(t)
    \/ Stream(t) \/ Place(t) \/ Rename(t) \/ Recheck(t) \/ RemoveStale(t)
    \/ SecondRename(t) \/ WriteMeta(t)

LEMMA WalkShape ==
    ASSUME TypeOK, WalkOK, NEW t \in Task, WalkStep(t)
    PROVE  (Quiet(t) \/ Lands(t)) /\ GoodWalk(t)
<1> USE DEF Walking, Streaming
<1>t. /\ pc \in [Task -> PC] /\ walk \in [Task -> Walk] /\ slot \in [Task -> Result \cup {None}]
      /\ NoWalk \in Walk
  BY WalkTypes DEF TypeOK
<1>s. ASSUME NEW r \in Result, Settle(t, r), pc[t] \in Walking \cup {"meta"},
             UNCHANGED <<urn, leader, answer, active>>
      PROVE  Lands(t) /\ GoodWalk(t)
  BY <1>t, <1>s DEF Settle, Goto, Lands, GoodWalk
<1>k. ASSUME UNCHANGED walk, NEW label \in Streaming \cup {"meta"}, Goto(t, label),
             walk[t].src \in Copy, pc[t] \in Walking, UNCHANGED <<urn, leader, slot, answer, active>>
      PROVE  Quiet(t) /\ GoodWalk(t)
  BY <1>t, <1>k DEF Goto, Quiet, GoodWalk
<1>1. CASE StorageSend(t)
  <2>1. PICK i \in Storage :
          \/ walk' = Tried(t, i) /\ UNCHANGED pc
          \/ walk' = [walk EXCEPT ![t] = [@ EXCEPT !.src = <<"storage", i>>]] /\ Goto(t, "sent")
    BY <1>1 DEF StorageSend
  <2>2. <<"storage", i>> \in StorageCopy /\ <<"storage", i>> \in Copy
    BY Pairs DEF StorageCopy
  <2>3. CASE walk' = Tried(t, i) /\ UNCHANGED pc
    BY <1>1, <1>t, <2>3, TriedWalk DEF StorageSend, Quiet, GoodWalk
  <2>4. CASE walk' = [walk EXCEPT ![t] = [@ EXCEPT !.src = <<"storage", i>>]] /\ Goto(t, "sent")
    <3>1. walk' \in [Task -> Walk] /\ (\A o \in Task \ {t} : walk'[o] = walk[o])
          /\ walk'[t].src = <<"storage", i>>
      BY <2>2, <2>4, SrcWalk
    <3> QED
      BY <1>1, <1>t, <2>2, <2>4, <3>1 DEF StorageSend, Quiet, GoodWalk, Goto
  <2> QED
    BY <2>1, <2>3, <2>4
<1>2. CASE StorageReply(t)
  <2>1. walk[t].src \in StorageCopy /\ walk[t].src \in Copy /\ walk[t].src[2] \in Storage
    BY <1>2, Pairs DEF WalkOK, StorageReply
  <2>2. \/ walk' = Tried(t, walk[t].src[2]) /\ Goto(t, "storage")
        \/ UNCHANGED walk /\ Goto(t, "streaming")
    BY <1>2 DEF StorageReply
  <2>3. CASE walk' = Tried(t, walk[t].src[2]) /\ Goto(t, "storage")
    BY <1>2, <1>t, <2>1, <2>3, TriedWalk DEF StorageReply, Quiet, GoodWalk, Goto
  <2>4. CASE UNCHANGED walk /\ Goto(t, "streaming")
    BY <1>2, <1>k, <2>1, <2>4 DEF StorageReply
  <2> QED
    BY <2>2, <2>3, <2>4
<1>3. CASE StorageDone(t)
  <2>1. <<"api", 1>> \in ApiCopy /\ <<"api", 1>> \in Copy
    BY Pairs, TrackCacheAssumption DEF Api, ApiCopy
  <2>2. walk' \in [Task -> Walk] /\ (\A o \in Task \ {t} : walk'[o] = walk[o])
        /\ walk'[t].src = <<"api", 1>>
    BY <1>3, <2>1, SrcWalk DEF StorageDone, FirstApi
  <2> QED
    BY <1>3, <1>t, <2>1, <2>2 DEF StorageDone, Quiet, GoodWalk, Goto
<1>4. CASE ApiReply(t)
  <2>1. walk[t].src \in Copy /\ pc[t] \in Walking /\ UNCHANGED <<urn, leader, answer, active>>
    BY <1>4, Pairs DEF WalkOK, ApiReply
  <2>2. CASE RetryUrl(t) \/ GiveUpUrl(t)
    BY <2>1, <2>2, RetryFacts, GiveUpFacts, MovesShape
  <2>3. CASE Goto(t, "streaming") /\ UNCHANGED <<slot, walk>>
    BY <1>k, <2>1, <2>3
  <2> QED
    BY <1>4, <2>2, <2>3 DEF ApiReply
<1>5. CASE Stream(t)
  <2>1. walk[t].src \in Copy /\ pc[t] \in Walking /\ UNCHANGED <<urn, leader, answer, active>>
    BY <1>5 DEF WalkOK, Stream
  <2>2. CASE RetryUrl(t) \/ GiveUpUrl(t)
    BY <2>1, <2>2, RetryFacts, GiveUpFacts, MovesShape
  <2>3. CASE Goto(t, "place") /\ UNCHANGED <<slot, walk>>
    BY <1>k, <2>1, <2>3
  <2> QED
    BY <1>5, <2>2, <2>3 DEF Stream
<1>6. CASE Place(t)
  <2>1. walk[t].src \in Copy /\ pc[t] \in Walking /\ UNCHANGED <<urn, leader, answer, active>>
    BY <1>6 DEF WalkOK, Place, PlaceFrame
  <2> QED
    BY <1>6, <1>s, <1>k, <2>1 DEF Place, Result
<1>7. CASE Rename(t)
  <2>1. walk[t].src \in Copy /\ pc[t] \in Walking /\ UNCHANGED <<urn, leader, slot, walk, answer, active>>
    BY <1>7 DEF WalkOK, Rename
  <2> QED
    BY <1>7, <1>k, <2>1 DEF Rename
<1>8. CASE Recheck(t)
  <2>1. walk[t].src \in Copy /\ pc[t] \in Walking /\ UNCHANGED <<urn, leader, answer, active>>
    BY <1>8 DEF WalkOK, Recheck
  <2> QED
    BY <1>8, <1>s, <1>k, <2>1 DEF Recheck, Result
<1>18. CASE RemoveStale(t)
  <2>1. walk[t].src \in Copy /\ pc[t] \in Walking /\ UNCHANGED <<urn, leader, slot, walk, answer, active>>
    BY <1>18 DEF WalkOK, RemoveStale
  <2> QED
    BY <1>18, <1>k, <2>1 DEF RemoveStale
<1>9. CASE SecondRename(t)
  <2>1. walk[t].src \in Copy /\ pc[t] \in Walking /\ UNCHANGED <<urn, leader, answer, active>>
    BY <1>9 DEF WalkOK, SecondRename
  <2>2. CASE GiveUpUrl(t)
    BY <2>1, <2>2, GiveUpFacts, MovesShape
  <2>3. CASE Goto(t, "meta") /\ UNCHANGED <<slot, walk>>
    BY <1>k, <2>1, <2>3
  <2> QED
    BY <1>9, <2>2, <2>3 DEF SecondRename
<1>10. CASE WriteMeta(t)
  <2>1. pc[t] = "meta" /\ Settle(t, "ok") /\ UNCHANGED <<urn, leader, answer, active>>
    BY <1>10 DEF WriteMeta
  <2> QED
    BY <1>s, <2>1 DEF Result
<1> QED
  BY <1>1, <1>2, <1>3, <1>4, <1>5, <1>6, <1>7, <1>8, <1>18, <1>9, <1>10 DEF WalkStep

-----------------------------------------------------------------------------
(* Types.                                                                  *)

OtherStep ==
    \/ \E t \in Task, u \in Urn : EnsureCached(t, u) \/ Preload(t, u)
    \/ \E t \in Task : \/ CacheCheck(t) \/ Coalesce(t) \/ Register(t) \/ Lead(t)
                       \/ Notify(t) \/ Remove(t) \/ Answer(t)
    \/ \E kind \in {"clear", "limit", "list"} : StartSweep(kind)
    \/ SweepStep
    \/ \E h \in Host : CoolDown(h)
    \/ Crash

LEMMA NextSplit == Next => OtherStep \/ \E t \in Task : WalkStep(t)
BY DEF Next, TaskStep, OtherStep, WalkStep

LEMMA DomainsOK == TypeOK => \A t \in Task : pc[t] \in PC
BY DEF TypeOK

\* The part of the types that a download's own steps leave to GoodWalk, Quiet and Lands.
LEMMA WalkStepType ==
    ASSUME TypeOK, WalkOK, NEW t \in Task, WalkStep(t), urn[t] \in Urn
    PROVE  TypeOK' /\ WalkOK'
<1>1. (Quiet(t) \/ Lands(t)) /\ GoodWalk(t)
  BY WalkShape
<1>2. pc' \in [Task -> PC] /\ slot' \in [Task -> Result \cup {None}]
  BY <1>1 DEF Quiet, Lands, TypeOK, PC, Leading, Result
<1>3. WalkOK'
  <2> SUFFICES ASSUME NEW o \in Task
               PROVE  /\ pc'[o] = "sent" => walk'[o].src \in StorageCopy
                      /\ pc'[o] = "api" => walk'[o].src \in ApiCopy
                      /\ pc'[o] \in Streaming \cup {"meta"} => walk'[o].src \in Copy
    BY DEF WalkOK
  <2>1. CASE o = t
    BY <1>1, <2>1 DEF GoodWalk
  <2>2. CASE o # t
    BY <1>1, <2>2 DEF GoodWalk, Quiet, Lands, WalkOK, TypeOK
  <2> QED
    BY <2>1, <2>2
<1>4. cooling' \in [Host -> BOOLEAN]
  <2>1. CASE StorageReply(t)
    BY <2>1 DEF StorageReply, TypeOK
  <2> QED
    BY <2>1 DEF WalkStep, StorageSend, StorageDone, ApiReply, Stream, Place, PlaceFrame,
                Rename, Recheck, RemoveStale, SecondRename, WriteMeta, TypeOK
<1>5. /\ file' \in [Urn -> Copy \cup {Absent, Short}]
      /\ meta' \in [Urn -> Copy \cup {Absent}]
  <2> USE DEF TypeOK
  <2>1. CASE Rename(t)
    BY <2>1 DEF Rename, WalkOK, Streaming
  <2>2. CASE SecondRename(t)
    BY <2>2 DEF SecondRename, WalkOK, Streaming
  <2>3. CASE RemoveStale(t)
    BY <2>3 DEF RemoveStale
  <2>4. CASE WriteMeta(t)
    BY <2>4 DEF WriteMeta, WalkOK
  <2> QED
    BY <2>1, <2>2, <2>3, <2>4 DEF WalkStep, StorageSend, StorageReply, StorageDone, ApiReply,
       Stream, Place, PlaceFrame, Recheck, diskVars
<1>6. part' \in SUBSET Task
  BY DEF WalkStep, StorageSend, StorageReply, StorageDone, ApiReply, Stream, Place, PlaceFrame,
         Rename, Recheck, RemoveStale, SecondRename, WriteMeta, TypeOK, diskVars
<1>7. UNCHANGED <<permit, sweep, crashes, sweeps>>
  BY DEF WalkStep, StorageSend, StorageReply, StorageDone, ApiReply, Stream, Place, PlaceFrame,
         Rename, Recheck, RemoveStale, SecondRename, WriteMeta, bounds
<1>8. UNCHANGED <<urn, leader, answer, active>>
  BY <1>1 DEF Quiet, Lands
<1> QED
  BY <1>1, <1>2, <1>3, <1>4, <1>5, <1>6, <1>7, <1>8 DEF TypeOK, GoodWalk

LEMMA SweepType ==
    ASSUME TypeOK, SweepStep \/ \E kind \in {"clear", "limit", "list"} : StartSweep(kind)
    PROVE  TypeOK' /\ UNCHANGED taskVars /\ UNCHANGED active
<1> USE DEF TypeOK
<1>w. ASSUME NEW u \in Urn, SkipFile(u)
      PROVE  sweep' \in Sweep
  BY <1>w DEF SkipFile, Sweep
<1>1. ASSUME NEW kind \in {"clear", "limit", "list"}, StartSweep(kind)
      PROVE  TypeOK' /\ UNCHANGED taskVars /\ UNCHANGED active
  <2>1. sweep' = [kind |-> kind, left |-> Present, heavy |-> {u \in Present : Complete(file[u])},
                  doomed |-> None, stage |-> "audio"]
    BY <1>1 DEF StartSweep, NoSweep
  <2>2. sweep' \in Sweep
    BY <2>1 DEF Sweep, Present
  <2>3. sweeps' \in 0..MaxSweeps
    BY <1>1, TrackCacheAssumption DEF StartSweep
  <2> QED
    BY <1>1, <2>2, <2>3 DEF StartSweep, taskVars, diskVars
<1>2. ASSUME NEW u \in Urn, SweepInspect(u)
      PROVE  TypeOK' /\ UNCHANGED taskVars /\ UNCHANGED active
  <2>1. sweep' \in Sweep
    BY <1>2, <1>w DEF SweepInspect, Sweep
  <2> QED
    BY <1>2, <2>1 DEF SweepInspect, taskVars, diskVars, bounds
<1>3. ASSUME NEW u \in Urn, SweepRemove(u)
      PROVE  TypeOK' /\ UNCHANGED taskVars /\ UNCHANGED active
  <2>1. sweep' \in Sweep
    <3>1. \/ SkipFile(u)
          \/ sweep' = [sweep EXCEPT !.stage = "meta"]
          \/ sweep' = [sweep EXCEPT !.stage = "meta", !.heavy = sweep.heavy \ {u}]
      BY <1>3 DEF SweepRemove
    <3>2. [sweep EXCEPT !.stage = "meta"] \in Sweep
      BY DEF Sweep
    <3>3. \A w \in Sweep : [w EXCEPT !.heavy = sweep.heavy \ {u}] \in Sweep
      BY DEF Sweep
    <3> QED
      BY <1>w, <3>1, <3>2, <3>3
  <2>2. file' \in [Urn -> Copy \cup {Absent, Short}]
    BY <1>3 DEF SweepRemove
  <2> QED
    BY <1>3, <2>1, <2>2 DEF SweepRemove, taskVars, bounds
<1>4. ASSUME NEW u \in Urn, SweepForget(u)
      PROVE  TypeOK' /\ UNCHANGED taskVars /\ UNCHANGED active
  <2>1. sweep' \in Sweep
    BY <1>4, <1>w DEF SweepForget
  <2> QED
    BY <1>4, <2>1 DEF SweepForget, taskVars, bounds
<1>5. CASE SweepEnd
  <2>1. NoSweep \in Sweep
    BY DEF NoSweep, Sweep
  <2> QED
    BY <1>5, <2>1 DEF SweepEnd, taskVars, diskVars, bounds
<1> QED
  BY <1>1, <1>2, <1>3, <1>4, <1>5 DEF SweepStep

LEMMA OtherType ==
    ASSUME TypeOK, WalkOK, OtherStep, \A t \in Task : pc[t] # "idle" => urn[t] \in Urn,
           \A t \in Task : pc[t] = "woken" => leader[t] \in Task
    PROVE  TypeOK' /\ WalkOK'
<1> USE DEF TypeOK, PC, Leading, Walking, Streaming, diskVars, bounds
<1>1. ASSUME NEW t \in Task, NEW u \in Urn, EnsureCached(t, u) \/ Preload(t, u)
      PROVE  TypeOK' /\ WalkOK'
  BY <1>1 DEF EnsureCached, Preload, Goto, WalkOK
<1>2. ASSUME NEW t \in Task, CacheCheck(t)
      PROVE  TypeOK' /\ WalkOK'
  BY <1>2 DEF CacheCheck, Goto, Return, WalkOK, Result
<1>3. ASSUME NEW t \in Task, Coalesce(t) \/ Register(t)
      PROVE  TypeOK' /\ WalkOK'
  BY <1>3 DEF Coalesce, Register, Goto, WalkOK
<1>4. ASSUME NEW t \in Task, Lead(t)
      PROVE  TypeOK' /\ WalkOK'
  <2>1. [NoWalk EXCEPT !.front = {i \in Storage : ~cooling[HostOf[i]]}] \in Walk
    BY WalkTypes DEF Walk
  <2> QED
    BY <1>4, <2>1 DEF Lead, Goto, WalkOK
<1>5. ASSUME NEW t \in Task, Notify(t)
      PROVE  TypeOK' /\ WalkOK'
  BY <1>5 DEF Notify, WalkOK
<1>6. ASSUME NEW t \in Task, Remove(t)
      PROVE  TypeOK' /\ WalkOK'
  BY <1>6 DEF Remove, Goto, WalkOK
<1>7. ASSUME NEW t \in Task, Answer(t)
      PROVE  TypeOK' /\ WalkOK'
  <2>1. slot[leader[t]] \in Result \cup {None}
    BY <1>7 DEF Answer
  <2> QED
    BY <1>7, <2>1 DEF Answer, Return, Goto, WalkOK, Result
<1>8. CASE SweepStep \/ \E kind \in {"clear", "limit", "list"} : StartSweep(kind)
  BY <1>8, SweepType DEF WalkOK, taskVars
<1>9. ASSUME NEW h \in Host, CoolDown(h)
      PROVE  TypeOK' /\ WalkOK'
  BY <1>9 DEF CoolDown, WalkOK, taskVars
<1>10. CASE Crash
  <2>1. crashes' \in 0..MaxCrashes
    BY <1>10, TrackCacheAssumption DEF Crash
  <2>2. NoSweep \in Sweep
    BY DEF NoSweep, Sweep
  <2> QED
    BY <1>10, <2>1, <2>2, WalkTypes DEF Crash, WalkOK
<1> QED
  BY <1>1, <1>2, <1>3, <1>4, <1>5, <1>6, <1>7, <1>8, <1>9, <1>10 DEF OtherStep

-----------------------------------------------------------------------------
(* Coalescing: how active, leader, slot and answer hang together.          *)

\* What a task's place in ensure_cached says about it.
Standing(t) ==
    /\ pc[t] = "idle" => urn[t] = None
    /\ pc[t] # "idle" => urn[t] \in Urn
    /\ pc[t] \in {"idle", "check", "miss"} => leader[t] = None /\ slot[t] = None
    /\ pc[t] \notin {"done"} => answer[t] = None
    /\ pc[t] = "done" => answer[t] # None
    /\ pc[t] \in {"joining", "waiting", "woken"} => leader[t] \in Task
    /\ pc[t] = "woken" => slot[leader[t]] # None
    /\ pc[t] \in Leading => active[urn[t]] = t /\ leader[t] = t
    /\ pc[t] \in {"settled", "notified"} => slot[t] # None
    /\ pc[t] \in Walking \cup {"meta"} => slot[t] = None
    /\ leader[t] # None /\ answer[t] # None => answer[t] = slot[leader[t]]
    /\ leader[t] # None => urn[leader[t]] = urn[t]

ActiveOK ==
    \A u \in Urn : active[u] # None => pc[active[u]] \in Leading /\ urn[active[u]] = u

FlightInv == ActiveOK /\ \A t \in Task : Standing(t)

LEMMA FlightQuiet ==
    ASSUME TypeOK, FlightInv, NEW t \in Task, Quiet(t)
    PROVE  FlightInv'
<1> USE TrackCacheAssumption DEF TypeOK, PC, Leading, Walking, Streaming
<1>1. ActiveOK'
  BY DEF FlightInv, ActiveOK, Standing, Quiet
<1>2. ASSUME NEW o \in Task
      PROVE  Standing(o)'
  <2>1. CASE o = t
    BY <2>1 DEF FlightInv, Standing, Quiet
  <2>2. CASE o # t
    BY <2>2 DEF FlightInv, Standing, Quiet
  <2> QED
    BY <2>1, <2>2
<1> QED
  BY <1>1, <1>2 DEF FlightInv

LEMMA FlightLands ==
    ASSUME TypeOK, FlightInv, NEW t \in Task, Lands(t)
    PROVE  FlightInv'
<1> USE TrackCacheAssumption DEF TypeOK, PC, Leading, Walking, Streaming, Result
<1>0. PICK r \in Result : slot' = [slot EXCEPT ![t] = r]
  BY DEF Lands
<1>1. ActiveOK'
  BY DEF FlightInv, ActiveOK, Standing, Lands
<1>2. ASSUME NEW o \in Task
      PROVE  Standing(o)'
  <2>1. CASE o = t
    BY <1>0, <2>1 DEF FlightInv, Standing, Lands
  <2>2. CASE o # t
    <3>1. slot[t] = None
      BY DEF FlightInv, Standing, Lands
    <3>2. \A x \in Task : slot[x] # None => slot'[x] = slot[x]
      BY <1>0, <3>1
    <3>3. pc'[o] = pc[o] /\ slot'[o] = slot[o] /\ UNCHANGED <<urn, leader, answer, active>>
      BY <1>0, <2>2 DEF Lands
    <3> QED
      BY <2>2, <3>2, <3>3 DEF FlightInv, Standing
  <2> QED
    BY <2>1, <2>2
<1> QED
  BY <1>1, <1>2 DEF FlightInv

LEMMA FlightOther ==
    ASSUME TypeOK, FlightInv, OtherStep
    PROVE  FlightInv'
<1> USE TrackCacheAssumption DEF TypeOK, FlightInv, ActiveOK, Standing, PC, Leading, Walking,
        Streaming
<1>1. ASSUME NEW t \in Task, NEW u \in Urn, EnsureCached(t, u) \/ Preload(t, u)
      PROVE  FlightInv'
  BY <1>1 DEF EnsureCached, Preload, Goto
<1>2. ASSUME NEW t \in Task, CacheCheck(t)
      PROVE  FlightInv'
  BY <1>2 DEF CacheCheck, Goto, Return
<1>3. ASSUME NEW t \in Task, Coalesce(t)
      PROVE  FlightInv'
  BY <1>3 DEF Coalesce, Goto
<1>4. ASSUME NEW t \in Task, Register(t)
      PROVE  FlightInv'
  BY <1>4 DEF Register, Goto
<1>5. ASSUME NEW t \in Task, Lead(t)
      PROVE  FlightInv'
  BY <1>5 DEF Lead, Goto
<1>6. ASSUME NEW t \in Task, Notify(t)
      PROVE  FlightInv'
  BY <1>6 DEF Notify
<1>7. ASSUME NEW t \in Task, Remove(t)
      PROVE  FlightInv'
  BY <1>7 DEF Remove, Goto
<1>8. ASSUME NEW t \in Task, Answer(t)
      PROVE  FlightInv'
  BY <1>8 DEF Answer, Goto, Return
<1>9. CASE SweepStep \/ \E kind \in {"clear", "limit", "list"} : StartSweep(kind)
  BY <1>9, SweepType DEF taskVars
<1>10. ASSUME NEW h \in Host, CoolDown(h)
      PROVE  FlightInv'
  BY <1>10 DEF CoolDown, taskVars
<1>11. CASE Crash
  BY <1>11 DEF Crash
<1> QED
  BY <1>1, <1>2, <1>3, <1>4, <1>5, <1>6, <1>7, <1>8, <1>9, <1>10, <1>11 DEF OtherStep

-----------------------------------------------------------------------------
(* The files: what a running download implies about them.                  *)

\* Between its looks at the final name and its renames a download is alone with
\* it: no complete file appears there.
PlaceOK ==
    \A t \in Task : pc[t] \in {"rename", "recheck", "remove", "rename2"} => ~Complete(file[urn[t]])

\* Before its metadata is written, the file is the download's copy, or was deleted.
RenamedOK ==
    \A t \in Task : pc[t] = "meta" /\ Complete(file[urn[t]]) => file[urn[t]] = walk[t].src

PlayableOK ==
    sweeps = 0 =>
        /\ sweep = NoSweep
        /\ \A t \in Task : pc[t] = "meta" \/ "ok" \in {slot[t], answer[t]}
                               => Complete(file[urn[t]])

DiskInv == PlaceOK /\ RenamedOK /\ PlayableOK /\ NoPartLeak /\ MetaDescribesFile

\* What one step of a download may do to the files.
LEMMA WalkFiles ==
    ASSUME TypeOK, WalkOK, FlightInv, PlaceOK, NEW t \in Task, WalkStep(t)
    PROVE  /\ \A u \in Urn \ {urn[t]} : file'[u] = file[u] /\ meta'[u] = meta[u]
           /\ pc'[t] = "meta" => file'[urn[t]] = walk[t].src /\ walk'[t] = walk[t]
           /\ pc'[t] # "meta" => file'[urn[t]] \in {file[urn[t]], Absent}
           /\ Complete(file[urn[t]]) => file'[urn[t]] = file[urn[t]]
           /\ pc'[t] \in {"rename", "recheck", "remove", "rename2"} => ~Complete(file'[urn[t]])
           /\ pc[t] # "meta" => meta' = meta
           /\ pc[t] = "meta" => /\ file' = file
                                /\ meta'[urn[t]] = walk[t].src \/ (MetaMayFail /\ meta' = meta)
           /\ part' \ {t} = part \ {t}
           /\ t \in part' => pc'[t] \in Streaming \/ t \in part
           /\ t \in part /\ pc[t] \in Streaming /\ t \in part' => pc'[t] \in Streaming
           /\ slot'[t] = "ok" => Complete(file'[urn[t]]) \/ pc[t] = "meta"
<1> USE TrackCacheAssumption DEF TypeOK, PlaceOK, Goto, PC, Leading, Walking, Streaming
<1>t. urn[t] \in Urn /\ slot[t] = None /\ pc[t] \in Walking \cup {"meta"} /\ Absent \notin Copy
  BY Pairs DEF FlightInv, Standing, WalkStep, StorageSend, StorageReply, StorageDone, ApiReply,
     Stream, Place, Rename, Recheck, RemoveStale, SecondRename, WriteMeta
<1>m. ASSUME Moves(t) PROVE pc'[t] \in {"storage", "api", "settled"} /\ slot'[t] # "ok"
  BY <1>m, <1>t DEF Moves
<1>1. CASE StorageSend(t)
  BY <1>1, <1>t DEF StorageSend, diskVars
<1>2. CASE StorageReply(t)
  BY <1>2, <1>t DEF StorageReply
<1>3. CASE StorageDone(t)
  BY <1>3, <1>t DEF StorageDone, diskVars
<1>4. CASE ApiReply(t)
  <2>1. walk[t].src \in Copy
    BY <1>4, Pairs DEF ApiReply, WalkOK
  <2>2. RetryUrl(t) \/ GiveUpUrl(t) => Moves(t)
    BY <2>1, RetryFacts, GiveUpFacts
  <2> QED
    BY <1>4, <1>t, <1>m, <2>2 DEF ApiReply
<1>5. CASE Stream(t)
  <2>1. walk[t].src \in Copy
    BY <1>5 DEF Stream, WalkOK
  <2>2. RetryUrl(t) \/ GiveUpUrl(t) => Moves(t)
    BY <2>1, RetryFacts, GiveUpFacts
  <2> QED
    BY <1>5, <1>t, <1>m, <2>2 DEF Stream
<1>6. CASE Place(t)
  BY <1>6, <1>t DEF Place, PlaceFrame, Settle
<1>7. CASE Rename(t)
  BY <1>7, <1>t DEF Rename
<1>8. CASE Recheck(t)
  BY <1>8, <1>t DEF Recheck, Settle
<1>18. CASE RemoveStale(t)
  BY <1>18, <1>t DEF RemoveStale, Complete
<1>9. CASE SecondRename(t)
  <2>1. walk[t].src \in Copy
    BY <1>9 DEF SecondRename, WalkOK
  <2>2. GiveUpUrl(t) => Moves(t)
    BY <2>1, GiveUpFacts
  <2> QED
    BY <1>9, <1>t, <1>m, <2>2 DEF SecondRename
<1>10. CASE WriteMeta(t)
  BY <1>10, <1>t DEF WriteMeta, Settle
<1> QED
  BY <1>1, <1>2, <1>3, <1>4, <1>5, <1>6, <1>7, <1>8, <1>18, <1>9, <1>10 DEF WalkStep

\* Two tasks that download the same track are one task.
LEMMA AloneOnTrack ==
    ASSUME FlightInv, NEW t \in Task, NEW o \in Task,
           pc[t] \in Leading, pc[o] \in Leading, urn[t] = urn[o]
    PROVE  o = t
BY DEF FlightInv, Standing

LEMMA DiskWalk ==
    ASSUME TypeOK, WalkOK, FlightInv, DiskInv, NEW t \in Task, WalkStep(t)
    PROVE  DiskInv'
<1> USE DEF Leading, Walking, Streaming
<1>a. PlaceOK /\ RenamedOK /\ PlayableOK /\ NoPartLeak /\ MetaDescribesFile
  BY DEF DiskInv
<1>f. /\ \A u \in Urn \ {urn[t]} : file'[u] = file[u] /\ meta'[u] = meta[u]
      /\ pc'[t] = "meta" => file'[urn[t]] = walk[t].src /\ walk'[t] = walk[t]
      /\ pc'[t] # "meta" => file'[urn[t]] \in {file[urn[t]], Absent}
      /\ Complete(file[urn[t]]) => file'[urn[t]] = file[urn[t]]
      /\ pc'[t] \in {"rename", "recheck", "remove", "rename2"} => ~Complete(file'[urn[t]])
      /\ pc[t] # "meta" => meta' = meta
      /\ pc[t] = "meta" => /\ file' = file
                           /\ meta'[urn[t]] = walk[t].src \/ (MetaMayFail /\ meta' = meta)
      /\ part' \ {t} = part \ {t}
      /\ t \in part' => pc'[t] \in Streaming \/ t \in part
      /\ t \in part /\ pc[t] \in Streaming /\ t \in part' => pc'[t] \in Streaming
      /\ slot'[t] = "ok" => Complete(file'[urn[t]]) \/ pc[t] = "meta"
  BY <1>a, WalkFiles
<1>s. /\ Quiet(t) \/ Lands(t)
      /\ GoodWalk(t)
  BY WalkShape
<1>o. /\ pc[t] \in Walking \cup {"meta"} /\ pc'[t] \in Walking \cup {"meta", "settled"}
      /\ \A o \in Task \ {t} : pc'[o] = pc[o] /\ slot'[o] = slot[o] /\ walk'[o] = walk[o]
      /\ UNCHANGED <<urn, leader, answer, active>>
  BY <1>s DEF Quiet, Lands, GoodWalk, TypeOK
<1>u. urn[t] \in Urn /\ \A o \in Task : pc[o] # "idle" => urn[o] \in Urn
  BY <1>o DEF FlightInv, Standing
<1>alone. ASSUME NEW o \in Task \ {t}, pc[o] \in Leading
          PROVE  urn[o] # urn[t]
  BY <1>o, <1>alone, AloneOnTrack
<1>b. UNCHANGED <<sweep, crashes, sweeps>>
  BY DEF WalkStep, StorageSend, StorageReply, StorageDone, ApiReply, Stream, Place, PlaceFrame,
         Rename, Recheck, RemoveStale, SecondRename, WriteMeta, bounds
<1>1. PlaceOK'
  <2> SUFFICES ASSUME NEW o \in Task, pc'[o] \in {"rename", "recheck", "remove", "rename2"}
               PROVE  ~Complete(file'[urn[o]])
    BY <1>o DEF PlaceOK
  <2>1. CASE o = t
    BY <1>f, <2>1
  <2>2. CASE o # t
    BY <1>a, <1>f, <1>o, <1>u, <1>alone, <2>2 DEF PlaceOK
  <2> QED
    BY <2>1, <2>2
<1>2. RenamedOK'
  <2> SUFFICES ASSUME NEW o \in Task, pc'[o] = "meta", Complete(file'[urn[o]])
               PROVE  file'[urn[o]] = walk'[o].src
    BY <1>o DEF RenamedOK
  <2>1. CASE o = t
    BY <1>f, <2>1
  <2>2. CASE o # t
    BY <1>a, <1>f, <1>o, <1>u, <1>alone, <2>2 DEF RenamedOK
  <2> QED
    BY <2>1, <2>2
<1>3. PlayableOK'
  <2> SUFFICES ASSUME sweeps = 0
               PROVE  /\ sweep' = NoSweep
                      /\ \A o \in Task : pc'[o] = "meta" \/ "ok" \in {slot'[o], answer'[o]}
                                             => Complete(file'[urn'[o]])
    BY <1>b DEF PlayableOK
  <2>1. sweep' = NoSweep
    BY <1>a, <1>b DEF PlayableOK
  <2>2. ASSUME NEW u \in Urn, Complete(file[u])
        PROVE  Complete(file'[u])
    BY <1>f, <2>2
  <2>3. ASSUME NEW o \in Task, pc'[o] = "meta" \/ "ok" \in {slot'[o], answer'[o]}
        PROVE  Complete(file'[urn'[o]])
    <3>1. CASE o # t \/ ~(pc'[t] = "meta" \/ slot'[t] = "ok")
      <4>1. pc[o] = "meta" \/ "ok" \in {slot[o], answer[o]}
        BY <1>o, <2>3, <3>1
      <4>2. pc[o] # "idle"
        BY <4>1, TrackCacheAssumption DEF FlightInv, Standing
      <4> QED
        BY <1>a, <1>o, <1>u, <2>2, <4>1, <4>2 DEF PlayableOK
    <3>2. CASE o = t /\ pc'[t] = "meta"
      BY <1>f, <1>o, <1>s, <3>2 DEF Complete, GoodWalk
    <3>3. CASE o = t /\ slot'[t] = "ok"
      BY <1>a, <1>f, <1>o, <1>u, <2>2, <3>3 DEF PlayableOK
    <3>4. \/ o # t \/ ~(pc'[t] = "meta" \/ slot'[t] = "ok")
          \/ o = t /\ pc'[t] = "meta"
          \/ o = t /\ slot'[t] = "ok"
      OBVIOUS
    <3> QED
      BY <3>1, <3>2, <3>3, <3>4
  <2> QED
    BY <2>1, <2>3
<1>4. NoPartLeak'
  <2> SUFFICES ASSUME NEW o \in part'
               PROVE  pc'[o] \in Streaming \cup {"dead"}
    BY DEF NoPartLeak
  <2>1. CASE o = t
    BY <1>a, <1>f, <1>o, <2>1 DEF NoPartLeak
  <2>2. CASE o # t
    BY <1>a, <1>f, <1>o, <2>2 DEF NoPartLeak, TypeOK
  <2> QED
    BY <2>1, <2>2
<1>5. MetaDescribesFile'
  <2> SUFFICES ASSUME crashes = 0, ~MetaMayFail, NEW u \in Urn, Complete(file'[u]),
                      meta'[u] \notin {Absent, file'[u]}
               PROVE  \E o \in Task : urn'[o] = u /\ pc'[o] = "meta"
    BY <1>b DEF MetaDescribesFile
  <2>1. CASE u # urn[t]
    <3>1. PICK o \in Task : urn[o] = u /\ pc[o] = "meta"
      BY <1>a, <1>f, <2>1 DEF MetaDescribesFile
    <3> QED
      BY <1>o, <2>1, <3>1
  <2>2. CASE u = urn[t] /\ pc[t] = "meta"
    BY <1>a, <1>f, <2>2 DEF RenamedOK
  <2>3. CASE u = urn[t] /\ pc[t] # "meta" /\ pc'[t] # "meta"
    <3>1. Complete(file[u]) /\ file'[u] = file[u] /\ meta' = meta
      BY <1>f, <2>3, Pairs DEF Complete
    <3>2. PICK o \in Task : urn[o] = u /\ pc[o] = "meta"
      BY <1>a, <3>1 DEF MetaDescribesFile
    <3> QED
      BY <1>o, <1>alone, <2>3, <3>2
  <2>4. CASE u = urn[t] /\ pc'[t] = "meta"
    BY <1>o, <2>4
  <2> QED
    BY <2>1, <2>2, <2>3, <2>4
<1> QED
  BY <1>1, <1>2, <1>3, <1>4, <1>5 DEF DiskInv

\* A step that leaves the files alone, sets no result and lets no task into a
\* download's last steps keeps DiskInv.
LEMMA DiskAside ==
    ASSUME TypeOK, FlightInv, DiskInv, UNCHANGED <<diskVars, sweep, bounds, slot>>,
           \A t \in Task :
              /\ pc[t] # "idle" => urn'[t] = urn[t]
              /\ pc'[t] \in Streaming \cup {"meta"} => pc'[t] = pc[t] /\ walk'[t] = walk[t]
              /\ pc[t] \in Streaming \cup {"meta", "dead"} => pc'[t] = pc[t]
              /\ answer'[t] = "ok" => \/ answer[t] = "ok"
                                      \/ pc[t] # "idle" /\ Complete(file[urn[t]])
    PROVE  DiskInv'
<1> USE TrackCacheAssumption DEF diskVars, bounds
<1>a. PlaceOK /\ RenamedOK /\ PlayableOK /\ NoPartLeak /\ MetaDescribesFile
  BY DEF DiskInv
<1>b. \A t \in Task : pc[t] = "idle" => slot[t] = None /\ answer[t] = None
  BY DEF FlightInv, Standing
<1>1. PlaceOK'
  BY <1>a DEF PlaceOK, Streaming
<1>2. RenamedOK'
  BY <1>a DEF RenamedOK
<1>3. PlayableOK'
  BY <1>a, <1>b DEF PlayableOK
<1>4. NoPartLeak'
  BY <1>a DEF NoPartLeak, TypeOK
<1>5. MetaDescribesFile'
  BY <1>a DEF MetaDescribesFile
<1> QED
  BY <1>1, <1>2, <1>3, <1>4, <1>5 DEF DiskInv

LEMMA DiskSweep ==
    ASSUME TypeOK, FlightInv, DiskInv,
           SweepStep \/ \E kind \in {"clear", "limit", "list"} : StartSweep(kind)
    PROVE  DiskInv'
<1>a. PlaceOK /\ RenamedOK /\ PlayableOK /\ NoPartLeak /\ MetaDescribesFile
  BY DEF DiskInv
<1>t. /\ UNCHANGED <<pc, urn, slot, answer, walk, part, crashes>>
      /\ sweeps' >= sweeps /\ sweeps' \in Nat /\ sweeps \in Nat
      /\ sweep = NoSweep => sweeps' > sweeps
  <2>1. ASSUME NEW u \in Urn, sweep = NoSweep
        PROVE  ~SweepInspect(u) /\ ~SweepRemove(u) /\ ~SweepForget(u)
    <3>1. sweep.left = {} /\ sweep.doomed = None /\ u # None
      BY <2>1, TrackCacheAssumption DEF NoSweep
    <3>2. ~SweepInspect(u)
      BY <3>1 DEF SweepInspect
    <3> QED
      BY <3>1, <3>2 DEF SweepRemove, SweepForget
  <2>2. ASSUME NEW kind \in {"clear", "limit", "list"}, StartSweep(kind)
        PROVE  sweeps' > sweeps /\ part' = part /\ crashes' = crashes
    BY <2>2 DEF StartSweep, diskVars, TypeOK
  <2>3. ASSUME SweepStep
        PROVE  sweep # NoSweep /\ sweeps' = sweeps /\ part' = part /\ crashes' = crashes
    BY <2>1, <2>3 DEF SweepStep, SweepInspect, SweepRemove, SweepForget, SweepEnd, diskVars, bounds
  <2>4. UNCHANGED <<pc, urn, slot, answer, walk>>
    BY SweepType DEF taskVars
  <2>5. sweeps \in Nat
    BY TrackCacheAssumption DEF TypeOK
  <2> QED
    BY <2>2, <2>3, <2>4, <2>5, SweepType DEF TypeOK
<1>f. /\ \A u \in Urn : file'[u] \in {file[u], Absent} /\ meta'[u] \in {meta[u], Absent}
      /\ ~Complete(Absent)
  <2>1. ~Complete(Absent)
    BY Pairs DEF Complete
  <2> QED
    BY <2>1 DEF StartSweep, SweepStep, SweepInspect, SweepRemove, SweepForget, SweepEnd,
                diskVars, TypeOK
<1>u. \A t \in Task : pc[t] # "idle" => urn[t] \in Urn
  BY DEF FlightInv, Standing
<1>1. PlaceOK'
  BY <1>a, <1>t, <1>f, <1>u DEF PlaceOK
<1>2. RenamedOK'
  <2> SUFFICES ASSUME NEW t \in Task, pc[t] = "meta", Complete(file'[urn[t]])
               PROVE  file'[urn[t]] = walk[t].src
    BY <1>t DEF RenamedOK
  <2> QED
    BY <1>a, <1>f, <1>u DEF RenamedOK
<1>3. PlayableOK'
  BY <1>a, <1>t DEF PlayableOK
<1>4. NoPartLeak'
  BY <1>a, <1>t DEF NoPartLeak
<1>5. MetaDescribesFile'
  BY <1>a, <1>t, <1>f DEF MetaDescribesFile
<1> QED
  BY <1>1, <1>2, <1>3, <1>4, <1>5 DEF DiskInv

LEMMA DiskOther ==
    ASSUME TypeOK, FlightInv, DiskInv, OtherStep
    PROVE  DiskInv'
<1> USE TrackCacheAssumption DEF TypeOK, PC, Leading, Walking, Streaming, diskVars
<1>1. ASSUME NEW t \in Task, NEW u \in Urn, EnsureCached(t, u) \/ Preload(t, u)
      PROVE  DiskInv'
  BY <1>1, DiskAside DEF EnsureCached, Preload, Goto
<1>2. ASSUME NEW t \in Task, CacheCheck(t)
      PROVE  DiskInv'
  BY <1>2, DiskAside DEF CacheCheck, Goto, Return
<1>3. ASSUME NEW t \in Task, Coalesce(t) \/ Register(t) \/ Lead(t)
      PROVE  DiskInv'
  BY <1>3, DiskAside DEF Coalesce, Register, Lead, Goto
<1>4. ASSUME NEW t \in Task, Notify(t) \/ Remove(t)
      PROVE  DiskInv'
  BY <1>4, DiskAside DEF Notify, Remove, Goto
<1>5. ASSUME NEW t \in Task, Answer(t)
      PROVE  DiskInv'
  <2>1. leader[t] \in Task /\ slot[leader[t]] # None /\ urn[leader[t]] = urn[t] /\ urn[t] \in Urn
    BY <1>5 DEF Answer, FlightInv, Standing
  <2>2. PlayableOK'
    <3> SUFFICES ASSUME sweeps = 0
                 PROVE  /\ sweep = NoSweep
                        /\ \A o \in Task : pc'[o] = "meta" \/ "ok" \in {slot[o], answer'[o]}
                                               => Complete(file[urn[o]])
      BY <1>5 DEF Answer, bounds, PlayableOK
    <3> QED
      BY <1>5, <2>1 DEF Answer, Return, Goto, DiskInv, PlayableOK
  <2>3. PlaceOK' /\ RenamedOK' /\ NoPartLeak' /\ MetaDescribesFile'
    BY <1>5 DEF Answer, Return, Goto, bounds, DiskInv, PlaceOK, RenamedOK, NoPartLeak,
                MetaDescribesFile
  <2> QED
    BY <2>2, <2>3 DEF DiskInv
<1>6. CASE SweepStep \/ \E kind \in {"clear", "limit", "list"} : StartSweep(kind)
  BY <1>6, DiskSweep
<1>7. ASSUME NEW h \in Host, CoolDown(h)
      PROVE  DiskInv'
  BY <1>7, DiskAside DEF CoolDown, taskVars
<1>8. CASE Crash
  <2>1. \A t \in Task : pc'[t] \in {"idle", "done", "dead"}
    BY <1>8 DEF Crash
  <2>2. \A t \in part : pc'[t] = "dead"
    BY <1>8 DEF Crash, DiskInv, NoPartLeak
  <2>3. crashes' # 0
    BY <1>8 DEF Crash
  <2>4. UNCHANGED <<slot, answer, urn, file, meta, part, sweeps>> /\ sweep' = NoSweep
    BY <1>8 DEF Crash
  <2> QED
    BY <2>1, <2>2, <2>3, <2>4 DEF DiskInv, PlaceOK, RenamedOK, PlayableOK, NoPartLeak,
                                  MetaDescribesFile
<1> QED
  BY <1>1, <1>2, <1>3, <1>4, <1>5, <1>6, <1>7, <1>8 DEF OtherStep

-----------------------------------------------------------------------------
(* The theorems.                                                           *)

IInv == TypeOK /\ WalkOK /\ FlightInv /\ DiskInv

LEMMA IInvInit == Init => IInv
<1> SUFFICES ASSUME Init PROVE IInv
  OBVIOUS
<1> USE TrackCacheAssumption DEF Init
<1>1. TypeOK
  <2>1. NoSweep \in Sweep
    BY DEF NoSweep, Sweep
  <2> QED
    BY <2>1, WalkTypes DEF TypeOK, PC
<1>2. WalkOK /\ FlightInv
  BY DEF WalkOK, FlightInv, ActiveOK, Standing, Streaming, Leading, Walking
<1>3. DiskInv
  BY DEF DiskInv, PlaceOK, RenamedOK, PlayableOK, NoPartLeak, MetaDescribesFile
<1> QED
  BY <1>1, <1>2, <1>3 DEF IInv

LEMMA IInvNext == IInv /\ [Next]_vars => IInv'
<1> SUFFICES ASSUME IInv, [Next]_vars PROVE IInv'
  OBVIOUS
<1> USE DEF IInv
<1>u. \A t \in Task : /\ pc[t] # "idle" => urn[t] \in Urn
                      /\ pc[t] = "woken" => leader[t] \in Task
  BY DEF FlightInv, Standing
<1>1. ASSUME NEW t \in Task, WalkStep(t)
      PROVE  IInv'
  <2>1. Quiet(t) \/ Lands(t)
    BY <1>1, WalkShape
  <2>2. urn[t] \in Urn
    BY <1>u, <2>1 DEF Quiet, Lands, Walking, Streaming
  <2> QED
    BY <1>1, <2>1, <2>2, WalkStepType, FlightQuiet, FlightLands, DiskWalk
<1>2. CASE OtherStep
  BY <1>2, <1>u, OtherType, FlightOther, DiskOther
<1>3. CASE UNCHANGED vars
  BY <1>3 DEF vars, taskVars, diskVars, bounds, TypeOK, WalkOK, FlightInv, ActiveOK, Standing,
     DiskInv, PlaceOK, RenamedOK, PlayableOK, NoPartLeak, MetaDescribesFile
<1> QED
  BY <1>1, <1>2, <1>3, NextSplit

LEMMA IInvAlways == Spec => []IInv
BY IInvInit, IInvNext, PTL DEF Spec

\* Every variable keeps its type.
THEOREM TypeCorrect == Spec => []TypeOK
BY IInvAlways, PTL DEF IInv

\* Two tasks never run a download of one track together.
THEOREM OneDownloaderPerTrack == Spec => []SingleDownloader
<1>1. IInv => SingleDownloader
  BY AloneOnTrack DEF IInv, SingleDownloader
<1> QED
  BY <1>1, IInvAlways, PTL

\* While nothing has deleted files, every path handed out is a complete file's.
THEOREM PathsArePlayable == Spec => []OkIsPlayable
<1>1. IInv => OkIsPlayable
  BY DEF IInv, DiskInv, PlayableOK, OkIsPlayable
<1> QED
  BY <1>1, IInvAlways, PTL

\* No .part file outlives the task that wrote it, unless the process died.
THEOREM PartsAreOwned == Spec => []NoPartLeak
<1>1. IInv => NoPartLeak
  BY DEF IInv, DiskInv
<1> QED
  BY <1>1, IInvAlways, PTL

\* Without a crash and with a writable sidecar, the metadata never describes
\* another copy than the file's, whatever the delete commands do meanwhile.
THEOREM MetadataAgrees == Spec => []MetaDescribesFile
<1>1. IInv => MetaDescribesFile
  BY DEF IInv, DiskInv
<1> QED
  BY <1>1, IInvAlways, PTL

\* A complete file is never overwritten by another copy.
THEOREM CompleteFilesStay == Spec => NeverReplaced
<1> DEFINE Stays == \A u \in Urn : Complete(file[u]) /\ Complete(file'[u]) => file'[u] = file[u]
<1>1. IInv /\ [Next]_vars => [Stays]_vars
  <2> SUFFICES ASSUME IInv, Next, NEW u \in Urn, Complete(file[u]), Complete(file'[u])
               PROVE  file'[u] = file[u]
    OBVIOUS
  <2>1. ASSUME NEW t \in Task, WalkStep(t)
        PROVE  file'[u] = file[u]
    BY <2>1, WalkFiles DEF IInv, DiskInv
  <2>2. CASE OtherStep
    <3>1. CASE SweepStep \/ \E kind \in {"clear", "limit", "list"} : StartSweep(kind)
      <4>1. file'[u] \in {file[u], Absent}
        BY <3>1 DEF StartSweep, SweepStep, SweepInspect, SweepRemove, SweepForget, SweepEnd,
                    diskVars, IInv, TypeOK
      <4> QED
        BY <4>1, Pairs DEF Complete
    <3> QED
      BY <2>2, <3>1 DEF OtherStep, EnsureCached, Preload, CacheCheck, Coalesce, Register, Lead,
         Notify, Remove, Answer, CoolDown, Crash, diskVars
  <2> QED
    BY <2>1, <2>2, NextSplit
<1> QED
  BY <1>1, IInvAlways, PTL DEF Spec, NeverReplaced

-----------------------------------------------------------------------------
(* A request that waits.  Nobody will wake one whose downloader has already   *)
(* called notify_waiters, or is gone.                                         *)

Stranded(t) == pc[t] = "waiting" /\ pc[leader[t]] \notin Leading \ {"notified"}

\* What one step makes of a registered waiter.
WaiterKept(t) ==
    pc[t] = "waiting" =>
        \/ pc'[t] = "waiting" /\ (Stranded(t)' <=> Stranded(t))
        \/ pc'[t] = "woken" /\ ~Stranded(t) /\ slot[leader[t]] # None
        \/ pc'[t] = "dead"
WaitersKept == \A t \in Task : WaiterKept(t)

\* The downloader that a task waits for leads its own download.
LedOK == \A t \in Task : leader[t] # None => leader[leader[t]] = leader[t]

LEMMA LedStep == IInv /\ LedOK /\ [Next]_vars => LedOK'
<1> SUFFICES ASSUME IInv, LedOK, [Next]_vars PROVE LedOK'
  OBVIOUS
<1>1. /\ leader \in [Task -> Task \cup {None}] /\ urn \in [Task -> Urn \cup {None}]
      /\ active \in [Urn -> Task \cup {None}] /\ TypeOK /\ WalkOK
  BY DEF IInv, TypeOK
<1>2. ASSUME NEW t \in Task, Coalesce(t) \/ Lead(t)
      PROVE  LedOK'
  <2>1. urn[t] \in Urn /\ leader[t] = None
    BY <1>2 DEF Coalesce, Lead, IInv, FlightInv, Standing
  <2>2. PICK o \in Task : /\ leader' = [leader EXCEPT ![t] = o]
                          /\ o = t \/ leader[o] = o
    BY <1>1, <1>2, <2>1 DEF Coalesce, Lead, IInv, FlightInv, Standing, ActiveOK
  <2> QED
    BY <1>1, <2>1, <2>2, TrackCacheAssumption DEF LedOK
<1>3. CASE UNCHANGED leader
  BY <1>3 DEF LedOK
<1>4. ASSUME NEW t \in Task, WalkStep(t)
      PROVE  UNCHANGED leader
  BY <1>1, <1>4, WalkShape DEF Quiet, Lands
<1>5. CASE SweepStep \/ \E kind \in {"clear", "limit", "list"} : StartSweep(kind)
  BY <1>1, <1>3, <1>5, SweepType DEF taskVars
<1>6. CASE \/ \E t \in Task, u \in Urn : EnsureCached(t, u) \/ Preload(t, u)
           \/ \E t \in Task : CacheCheck(t) \/ Register(t) \/ Notify(t) \/ Remove(t) \/ Answer(t)
           \/ \E h \in Host : CoolDown(h)
           \/ Crash
  BY <1>3, <1>6 DEF EnsureCached, Preload, CacheCheck, Register, Notify, Remove, Answer, CoolDown,
     Crash, taskVars
<1> QED
  BY <1>2, <1>3, <1>4, <1>5, <1>6, NextSplit DEF OtherStep, vars, taskVars

LEMMA WaitersStep == IInv /\ LedOK /\ [Next]_vars => WaitersKept
<1> SUFFICES ASSUME IInv, LedOK, [Next]_vars, NEW t \in Task, pc[t] = "waiting" PROVE WaiterKept(t)
  BY DEF WaitersKept, WaiterKept
<1> USE DEF Leading, Walking, Streaming
<1>1. TypeOK /\ WalkOK /\ leader[t] \in Task /\ pc \in [Task -> PC]
      /\ (pc[leader[t]] = "settled" => slot[leader[t]] # None)
  BY DEF IInv, TypeOK, FlightInv, Standing
<1>2. ASSUME NEW o \in Task, WalkStep(o)
      PROVE  WaiterKept(t)
  <2>1. /\ leader' = leader /\ pc[o] \in Walking \cup {"meta"}
        /\ pc'[o] \in Walking \cup {"meta", "settled"}
        /\ \A w \in Task \ {o} : pc'[w] = pc[w]
    BY <1>1, <1>2, WalkShape DEF Quiet, Lands
  <2> QED
    BY <1>1, <2>1 DEF WaiterKept, Stranded
<1>3. ASSUME NEW o \in Task, Notify(o)
      PROVE  WaiterKept(t)
  <2>1. /\ pc[o] = "settled" /\ leader' = leader /\ pc'[o] = "notified"
        /\ \A w \in Task \ {o} : pc'[w] = IF pc[w] = "waiting" /\ leader[w] = o THEN "woken"
                                          ELSE pc[w]
    BY <1>3 DEF Notify
  <2>2. CASE leader[t] = o
    BY <1>1, <2>1, <2>2 DEF WaiterKept, Stranded
  <2>3. CASE leader[t] # o
    <3>1. pc'[t] = "waiting"
      BY <2>1, <2>3
    <3>2. pc[leader[t]] = "waiting" \/ pc'[leader[t]] = pc[leader[t]]
      BY <1>1, <2>1, <2>3
    <3>3. pc'[leader[t]] \in {"woken", "waiting"} \/ pc'[leader[t]] = pc[leader[t]]
      BY <1>1, <2>1, <2>3
    <3> QED
      BY <2>1, <3>1, <3>2, <3>3 DEF WaiterKept, Stranded
  <2> QED
    BY <2>2, <2>3
<1>4. ASSUME NEW o \in Task, \/ \E u \in Urn : EnsureCached(o, u) \/ Preload(o, u)
                             \/ CacheCheck(o) \/ Coalesce(o) \/ Register(o) \/ Lead(o)
                             \/ Remove(o) \/ Answer(o)
      PROVE  WaiterKept(t)
  <2>1. /\ o # t /\ leader'[t] = leader[t]
        /\ \A w \in Task \ {o} : pc'[w] = pc[w]
        /\ \/ pc[o] \in {"idle", "check", "joining"}
              /\ pc'[o] \in {"check", "done", "miss", "waiting"}
           \/ pc[o] = "miss" /\ pc'[o] \in {"joining", "storage"}
           \/ pc[o] \in {"notified", "woken"} /\ pc'[o] \in {"woken", "done"}
    BY <1>1, <1>4 DEF EnsureCached, Preload, CacheCheck, Coalesce, Register, Lead, Remove, Answer,
       Goto, Return, TypeOK
  <2>2. pc[leader[t]] # "miss"
    <3>1. leader[t] # None /\ leader[leader[t]] # None
      BY <1>1, TrackCacheAssumption DEF LedOK
    <3> QED
      BY <1>1, <3>1 DEF IInv, FlightInv, Standing
  <2> QED
    BY <1>1, <2>1, <2>2 DEF WaiterKept, Stranded
<1>5. CASE \/ SweepStep \/ \E kind \in {"clear", "limit", "list"} : StartSweep(kind)
           \/ \E h \in Host : CoolDown(h)
           \/ UNCHANGED vars
  <2>1. UNCHANGED <<pc, leader>>
    BY <1>1, <1>5, SweepType DEF CoolDown, vars, taskVars
  <2> QED
    BY <2>1 DEF WaiterKept, Stranded
<1>6. CASE Crash
  BY <1>6 DEF Crash, WaiterKept
<1> QED
  BY <1>2, <1>3, <1>4, <1>5, <1>6, NextSplit DEF OtherStep

\* A registered request leaves the wait only when its download has landed, with the outcome
\* in the slot, or the process dies; and it is settled for good whether it can: one whose
\* downloader had already called notify_waiters stays stranded, any other one is woken by
\* the Notify of its downloader, whatever else happens first.
THEOREM WaitersAreDecided == Spec => [][WaitersKept]_vars
<1>1. Init => LedOK
  BY DEF Init, LedOK
<1>2. Spec => []LedOK
  BY <1>1, LedStep, IInvAlways, PTL DEF Spec
<1> QED
  BY <1>2, WaitersStep, IInvAlways, PTL DEF Spec

-----------------------------------------------------------------------------
(* A task ends.  UrlsLeft, AttemptsLeft and StepsToGo, compared in that order, *)
(* fall with every step of a task: a URL is given up for good, an attempt is   *)
(* used up, or the task is a step further in the same attempt.                 *)

OnStorage(t) == pc[t] \in {"storage", "sent"} \/ (pc[t] \in Streaming /\ walk[t].src \in StorageCopy)
OnApi(t)     == pc[t] = "api" \/ (pc[t] \in Streaming /\ walk[t].src \in ApiCopy)

UrlsLeft(t) ==
    CASE pc[t] \in {"idle", "check", "miss"} -> Storages + Apis + 2
      [] OnStorage(t) -> Cardinality(Left(t)) + Apis + 1
      [] OnApi(t) -> Apis + 1 - walk[t].src[2]
      [] OTHER -> 0
AttemptsLeft(t) == IF OnApi(t) THEN Retries - walk[t].attempt ELSE 0
StepsToGo(t) ==
    CASE pc[t] \in {"idle", "storage"} -> 9
      [] pc[t] \in {"check", "sent", "api"} -> 8
      [] pc[t] \in {"miss", "streaming"} -> 7
      [] pc[t] \in {"joining", "place"} -> 6
      [] pc[t] \in {"waiting", "rename"} -> 5
      [] pc[t] \in {"meta", "recheck"} -> 4
      [] pc[t] \in {"settled", "remove"} -> 3
      [] pc[t] \in {"notified", "rename2"} -> 2
      [] pc[t] = "woken" -> 1
      [] OTHER -> 0

Nearer(t) ==
    \/ UrlsLeft(t)' < UrlsLeft(t)
    \/ UrlsLeft(t)' = UrlsLeft(t) /\ AttemptsLeft(t)' < AttemptsLeft(t)
    \/ /\ UrlsLeft(t)' = UrlsLeft(t) /\ AttemptsLeft(t)' = AttemptsLeft(t)
       /\ StepsToGo(t)' < StepsToGo(t)
AsNear(t) ==
    /\ UrlsLeft(t)' = UrlsLeft(t) /\ AttemptsLeft(t)' = AttemptsLeft(t)
    /\ StepsToGo(t)' = StepsToGo(t)
InBounds(t) ==
    /\ UrlsLeft(t) \in 0..(Storages + Apis + 2) /\ AttemptsLeft(t) \in 0..Retries
    /\ StepsToGo(t) \in 0..9
TasksNearEnd ==
    \A t \in Task : InBounds(t) /\ (Nearer(t) \/ AsNear(t)) /\ (TaskStep(t) => Nearer(t))

\* A URL that is being tried has not been tried before.
FreshOK ==
    \A t \in Task :
        /\ pc[t] \in Streaming \cup {"sent"} /\ walk[t].src \in StorageCopy
               => walk[t].src[2] \notin walk[t].tried

LEMMA LeastOf == ASSUME NEW S \in SUBSET Nat, S # {} PROVE \E i \in S : \A j \in S : i <= j
<1> DEFINE less == {ss \in Nat \X Nat : ss[1] < ss[2]}
<1>1. IsWellFoundedOn(less, Nat)
  BY NatLessThanWellFounded, Zenon DEF OpToRel
<1>2. \A i, j \in Nat : <<j, i>> \notin less => ~(j < i)
  OBVIOUS
<1> HIDE DEF less
<1>3. PICK i \in S : \A j \in S : <<j, i>> \notin less
  BY <1>1, WFMin
<1>4. \A j \in S : ~(j < i)
  BY <1>2, <1>3
<1> QED
  BY <1>4

\* The sorted list always has a next URL as long as one is left.
LEMMA NextExists ==
    ASSUME NEW t \in Task, Left(t) # {} PROVE \E i \in Storage : IsNext(t, i)
<1> DEFINE pool == IF Left(t) \cap walk[t].front # {} THEN Left(t) \cap walk[t].front ELSE Left(t)
<1>1. pool # {} /\ pool \subseteq Storage /\ Storage \subseteq Nat
  BY TrackCacheAssumption DEF Left, Storage
<1>2. \A i \in Storage : IsNext(t, i) <=> (i \in pool /\ \A j \in pool : i <= j)
  BY DEF IsNext
<1> HIDE DEF pool
<1> QED
  BY <1>1, <1>2, LeastOf

\* The ranges of the three numbers at the parts of the walk.
RankOK ==
    \A t \in Task :
        /\ InBounds(t)
        /\ pc[t] \in Walking => OnStorage(t) \/ OnApi(t)
        /\ OnStorage(t) => /\ ~OnApi(t) /\ pc[t] \in Walking
                           /\ UrlsLeft(t) = Cardinality(Left(t)) + Apis + 1
                           /\ Cardinality(Left(t)) \in Nat /\ AttemptsLeft(t) = 0
        /\ OnApi(t) => /\ pc[t] \in Walking /\ walk[t].src[2] \in Api
                       /\ UrlsLeft(t) = Apis + 1 - walk[t].src[2]
                       /\ AttemptsLeft(t) = Retries - walk[t].attempt
                       /\ walk[t].attempt \in 0..Retries
        /\ pc[t] \in Walking => UrlsLeft(t) >= 1
        /\ pc[t] \in {"idle", "check", "miss"}
               => UrlsLeft(t) = Storages + Apis + 2 /\ AttemptsLeft(t) = 0
        /\ pc[t] \notin {"idle", "check", "miss"} \cup Walking
               => UrlsLeft(t) = 0 /\ AttemptsLeft(t) = 0

LEMMA LeftSizes ==
    ASSUME TypeOK, NEW t \in Task
    PROVE  /\ Cardinality(Left(t)) \in 0..Storages /\ IsFiniteSet(Left(t))
           /\ Left(t) = Storage => Cardinality(Left(t)) = Storages
<1>1. Storages \in Nat
  BY TrackCacheAssumption
<1>2. IsFiniteSet(Storage) /\ Cardinality(Storage) = Storages
  BY <1>1, FS_Interval DEF Storage
<1>3. Left(t) \in SUBSET Storage
  BY DEF Left
<1>4. IsFiniteSet(Left(t)) /\ Cardinality(Left(t)) <= Storages
  BY <1>2, <1>3, FS_Subset
<1>5. Cardinality(Left(t)) \in Nat
  BY <1>4, FS_CardinalityType
<1> QED
  BY <1>1, <1>2, <1>4, <1>5

SizesOK == \A t \in Task : Cardinality(Left(t)) \in 0..Storages

LEMMA LeftSizesNext == TypeOK' => SizesOK'
<1>1. TypeOK => SizesOK
  BY LeftSizes DEF SizesOK
<1> QED
  BY <1>1, PTL

LEMMA Ranks == TypeOK /\ WalkOK => RankOK
<1> SUFFICES ASSUME TypeOK, WalkOK, NEW t \in Task
             PROVE  /\ InBounds(t)
                    /\ pc[t] \in Walking => OnStorage(t) \/ OnApi(t)
                    /\ OnStorage(t) => /\ ~OnApi(t) /\ pc[t] \in Walking
                                       /\ UrlsLeft(t) = Cardinality(Left(t)) + Apis + 1
                                       /\ Cardinality(Left(t)) \in Nat /\ AttemptsLeft(t) = 0
                    /\ OnApi(t) => /\ pc[t] \in Walking /\ walk[t].src[2] \in Api
                                   /\ UrlsLeft(t) = Apis + 1 - walk[t].src[2]
                                   /\ AttemptsLeft(t) = Retries - walk[t].attempt
                                   /\ walk[t].attempt \in 0..Retries
                    /\ pc[t] \in Walking => UrlsLeft(t) >= 1
                    /\ pc[t] \in {"idle", "check", "miss"}
                           => UrlsLeft(t) = Storages + Apis + 2 /\ AttemptsLeft(t) = 0
                    /\ pc[t] \notin {"idle", "check", "miss"} \cup Walking
                           => UrlsLeft(t) = 0 /\ AttemptsLeft(t) = 0
  BY DEF RankOK
<1>1. Storages \in Nat /\ Apis \in Nat \ {0} /\ Retries \in Nat
  BY TrackCacheAssumption
<1>2. pc[t] \in PC /\ walk[t].attempt \in 0..Retries
  BY WalkTypes DEF TypeOK
<1>3. Cardinality(Left(t)) \in 0..Storages
  BY LeftSizes
<1>4. /\ \A c \in StorageCopy : c \notin ApiCopy
      /\ \A c \in ApiCopy : c[2] \in Api
  BY Pairs
<1>5. /\ pc[t] = "api" => walk[t].src \in ApiCopy
      /\ pc[t] \in Streaming => walk[t].src \in StorageCopy \/ walk[t].src \in ApiCopy
  BY Pairs DEF WalkOK
<1>6. StepsToGo(t) \in 0..9
  BY DEF StepsToGo
<1>7. CASE OnStorage(t)
  <2>1. ~OnApi(t) /\ pc[t] \in Walking
    BY <1>4, <1>7 DEF OnStorage, OnApi, Walking, Streaming
  <2>2. UrlsLeft(t) = Cardinality(Left(t)) + Apis + 1 /\ AttemptsLeft(t) = 0
    BY <1>7, <2>1 DEF UrlsLeft, AttemptsLeft, OnStorage, Streaming
  <2> QED
    BY <1>1, <1>3, <1>6, <1>7, <2>1, <2>2 DEF InBounds, Walking, Streaming
<1>8. CASE OnApi(t)
  <2>1. ~OnStorage(t) /\ pc[t] \in Walking /\ walk[t].src[2] \in Api
    BY <1>4, <1>5, <1>8 DEF OnStorage, OnApi, Walking, Streaming
  <2>2. UrlsLeft(t) = Apis + 1 - walk[t].src[2] /\ AttemptsLeft(t) = Retries - walk[t].attempt
    BY <1>8, <2>1 DEF UrlsLeft, AttemptsLeft, OnApi, Streaming
  <2>3. walk[t].src[2] \in 1..Apis
    BY <2>1 DEF Api
  <2> QED
    BY <1>1, <1>2, <1>6, <1>8, <2>1, <2>2, <2>3 DEF InBounds, Walking, Streaming
<1>9. CASE ~OnStorage(t) /\ ~OnApi(t)
  <2>1. pc[t] \notin Walking
    BY <1>5, <1>9 DEF OnStorage, OnApi, Walking
  <2>2. /\ pc[t] \in {"idle", "check", "miss"} => UrlsLeft(t) = Storages + Apis + 2
        /\ pc[t] \notin {"idle", "check", "miss"} => UrlsLeft(t) = 0
        /\ AttemptsLeft(t) = 0
    BY <1>9 DEF UrlsLeft, AttemptsLeft
  <2> QED
    BY <1>1, <1>6, <1>9, <2>1, <2>2 DEF InBounds
<1> QED
  BY <1>7, <1>8, <1>9

LEMMA RanksNext == TypeOK' /\ WalkOK' => RankOK'
BY Ranks, PTL


\* What a step of a download does to its walk: the storage URL is passed over or given up,
\* tried, or followed by the API; the API URL is followed by the next one or tried again;
\* the attempt goes on; or the walk is over.
TriesUrl(t, i) == /\ walk'[t].src = <<"storage", i>> /\ walk'[t].tried = walk[t].tried
                  /\ pc[t] = "storage" /\ pc'[t] = "sent"
PassesUrl(t, i) == OnStorage(t) /\ walk'[t].tried = walk[t].tried \cup {i} /\ pc'[t] = "storage"
TurnsToApi(t) ==
    /\ pc'[t] = "api"
    /\ \/ OnStorage(t) /\ walk'[t].src = <<"api", 1>>
       \/ /\ OnApi(t) /\ walk[t].src[2] < Apis
          /\ walk'[t].src = <<"api", walk[t].src[2] + 1>>
TriesAgain(t) ==
    /\ OnApi(t) /\ pc'[t] = "api" /\ walk'[t].src = walk[t].src
    /\ walk'[t].attempt = walk[t].attempt + 1 /\ walk[t].attempt < Retries
GoesAhead(t) ==
    /\ UNCHANGED walk /\ pc[t] \in {"sent", "api"} \cup Streaming /\ pc'[t] \in Streaming
    /\ StepsToGo(t)' < StepsToGo(t)
EndsWalk(t) ==
    \/ pc[t] \in Walking /\ pc'[t] \in {"meta", "settled"}
    \/ pc[t] = "meta" /\ pc'[t] = "settled"
WalkMoves(t) ==
    \/ \E i \in Left(t) : TriesUrl(t, i) \/ PassesUrl(t, i)
    \/ TurnsToApi(t) \/ TriesAgain(t) \/ GoesAhead(t) \/ EndsWalk(t)

LEMMA TriedFacts ==
    ASSUME TypeOK, NEW t \in Task, NEW i \in Storage, walk' = Tried(t, i)
    PROVE  walk'[t].tried = walk[t].tried \cup {i}
<1>1. walk \in [Task -> Walk] /\ walk[t] \in Walk
  BY DEF TypeOK
<1>2. walk'[t] = [walk[t] EXCEPT !.tried = walk[t].tried \cup {i}, !.src = Absent]
  BY <1>1 DEF Tried
<1> QED
  BY <1>1, <1>2 DEF Walk

\* The URL at hand says on which list a download is.
LEMMA UrlAtHand ==
    ASSUME TypeOK, WalkOK, FreshOK, NEW t \in Task, OnStorage(t) \/ OnApi(t), pc[t] # "storage",
           walk[t].src \in Copy
    PROVE  /\ pc[t] \in Walking
           /\ walk[t].src[1] = "storage" => /\ OnStorage(t) /\ walk[t].src[2] \in Storage
                                            /\ walk[t].src[2] \in Left(t)
           /\ walk[t].src[1] = "api" => OnApi(t) /\ walk[t].src[2] \in Api
<1> PICK s \in Copy : s = walk[t].src
  OBVIOUS
<1>1. /\ s \in StorageCopy => s[2] \in Storage /\ s[1] = "storage"
      /\ s \in ApiCopy => s[2] \in Api /\ s[1] = "api"
      /\ s \in StorageCopy \/ s \in ApiCopy
  BY Pairs
<1>2. /\ pc[t] \in Walking /\ (pc[t] = "api" => s \in ApiCopy)
      /\ pc[t] = "sent" => s \in StorageCopy
  BY DEF OnStorage, OnApi, Walking, WalkOK
<1>3. CASE s \in StorageCopy
  <2>1. s \notin ApiCopy /\ s[1] = "storage" /\ s[2] \in Storage
    BY <1>1, <1>3
  <2>2. OnStorage(t) /\ s[2] \notin walk[t].tried
    BY <1>2, <1>3, <2>1 DEF OnStorage, OnApi, FreshOK
  <2> QED
    BY <1>2, <2>1, <2>2 DEF Left
<1>4. CASE s \in ApiCopy
  <2>1. s \notin StorageCopy /\ s[1] = "api" /\ s[2] \in Api
    BY <1>1, <1>4
  <2>2. OnApi(t)
    BY <1>2, <2>1 DEF OnStorage, OnApi
  <2> QED
    BY <1>2, <2>1, <2>2
<1> QED
  BY <1>1, <1>3, <1>4

LEMMA GiveUpMoves ==
    ASSUME TypeOK, WalkOK, FreshOK, NEW t \in Task, OnStorage(t) \/ OnApi(t), pc[t] # "storage",
           walk[t].src \in Copy, GiveUpUrl(t)
    PROVE  WalkMoves(t)
<1> PICK s \in Copy : s = walk[t].src
  OBVIOUS
<1>1. /\ pc \in [Task -> PC] /\ pc[t] \in Walking
      /\ s[1] = "storage" => OnStorage(t) /\ s[2] \in Storage /\ s[2] \in Left(t)
      /\ s[1] = "api" => OnApi(t) /\ s[2] \in Api
  BY UrlAtHand DEF TypeOK
<1>2. CASE s[1] = "storage" /\ walk' = Tried(t, s[2]) /\ Goto(t, "storage")
  <2>1. walk'[t].tried = walk[t].tried \cup {s[2]}
    BY <1>1, <1>2, TriedFacts
  <2> QED
    BY <1>1, <1>2, <2>1 DEF WalkMoves, PassesUrl, Goto
<1>3. CASE /\ s[1] = "api" /\ s[2] < Apis
           /\ walk' = [walk EXCEPT ![t] = [@ EXCEPT !.src = <<"api", s[2] + 1>>, !.attempt = 0]]
           /\ Goto(t, "api")
  <2>1. walk'[t].src = <<"api", s[2] + 1>>
    <3>1. walk \in [Task -> Walk] /\ walk[t] \in Walk
      BY DEF TypeOK
    <3>2. walk'[t] = [walk[t] EXCEPT !.src = <<"api", s[2] + 1>>, !.attempt = 0]
      BY <1>3, <3>1
    <3> QED
      BY <3>1, <3>2 DEF Walk
  <2> QED
    BY <1>1, <1>3, <2>1 DEF WalkMoves, TurnsToApi, Goto
<1>4. CASE Settle(t, "err")
  BY <1>1, <1>4 DEF Settle, Goto, WalkMoves, EndsWalk
<1> QED
  BY <1>2, <1>3, <1>4 DEF GiveUpUrl

LEMMA RetryMoves ==
    ASSUME TypeOK, WalkOK, FreshOK, NEW t \in Task, OnStorage(t) \/ OnApi(t), pc[t] # "storage",
           walk[t].src \in Copy, RetryUrl(t)
    PROVE  WalkMoves(t)
<1>1. CASE GiveUpUrl(t)
  BY <1>1, GiveUpMoves
<1>2. CASE /\ walk[t].src[1] = "api" /\ walk[t].attempt < Retries
           /\ walk' = [walk EXCEPT ![t] = [@ EXCEPT !.attempt = walk[t].attempt + 1]]
           /\ Goto(t, "api")
  <2>1. pc \in [Task -> PC] /\ walk \in [Task -> Walk] /\ walk[t] \in Walk /\ OnApi(t)
    BY <1>2, UrlAtHand DEF TypeOK
  <2>2. walk'[t].src = walk[t].src /\ walk'[t].attempt = walk[t].attempt + 1
    <3>1. walk'[t] = [walk[t] EXCEPT !.attempt = walk[t].attempt + 1]
      BY <1>2, <2>1
    <3> QED
      BY <2>1, <3>1 DEF Walk
  <2> QED
    BY <1>2, <2>1, <2>2 DEF WalkMoves, TriesAgain, Goto
<1> QED
  BY <1>1, <1>2 DEF RetryUrl

LEMMA WalkKinds ==
    ASSUME TypeOK, WalkOK, FreshOK, NEW t \in Task, WalkStep(t)
    PROVE  /\ WalkMoves(t)
           /\ \A o \in Task \ {t} : pc'[o] = pc[o] /\ walk'[o] = walk[o]
<1>1. /\ pc \in [Task -> PC] /\ walk \in [Task -> Walk]
      /\ \A o \in Task \ {t} : pc'[o] = pc[o] /\ walk'[o] = walk[o]
  BY WalkShape DEF TypeOK, Quiet, Lands, GoodWalk
<1> SUFFICES WalkMoves(t)
  BY <1>1
<1>2. /\ pc[t] \in Streaming \cup {"sent", "api"}
            => walk[t].src \in Copy /\ (OnStorage(t) \/ OnApi(t)) /\ pc[t] # "storage"
      /\ pc[t] \in {"storage", "sent"} => OnStorage(t)
  BY Ranks, Pairs DEF RankOK, WalkOK, Walking, Streaming, OnStorage
<1>3. ASSUME NEW o \in Result, Settle(t, o), pc[t] \in Walking \cup {"meta"}
      PROVE  WalkMoves(t)
  BY <1>1, <1>3 DEF Settle, Goto, WalkMoves, EndsWalk
<1>4. ASSUME NEW label \in {"place", "rename", "recheck", "remove", "rename2"}, Goto(t, label),
             UNCHANGED walk,
             \/ pc[t] = "streaming" /\ label = "place"
             \/ pc[t] = "place" /\ label = "rename"
             \/ pc[t] = "rename" /\ label = "recheck"
             \/ pc[t] = "recheck" /\ label = "remove"
             \/ pc[t] = "remove" /\ label = "rename2"
      PROVE  WalkMoves(t)
  <2>1. pc'[t] = label /\ pc[t] \in Streaming
    BY <1>1, <1>4 DEF Goto, Streaming
  <2>2. StepsToGo(t)' < StepsToGo(t)
    BY <1>4, <2>1 DEF StepsToGo
  <2> QED
    BY <1>4, <2>1, <2>2 DEF WalkMoves, GoesAhead, Streaming
<1>5. ASSUME pc[t] \in {"sent", "api"}, Goto(t, "streaming"), UNCHANGED walk
      PROVE  WalkMoves(t)
  <2>1. pc'[t] = "streaming"
    BY <1>1, <1>5 DEF Goto
  <2>2. StepsToGo(t)' < StepsToGo(t)
    BY <1>5, <2>1 DEF StepsToGo
  <2> QED
    BY <1>5, <2>1, <2>2 DEF WalkMoves, GoesAhead, Streaming
<1>6. ASSUME pc[t] \in Streaming, Goto(t, "meta")
      PROVE  WalkMoves(t)
  BY <1>1, <1>6 DEF Goto, WalkMoves, EndsWalk, Walking
<1>7. ASSUME pc[t] \in Streaming \cup {"api"}, RetryUrl(t) \/ GiveUpUrl(t)
      PROVE  WalkMoves(t)
  BY <1>2, <1>7, RetryMoves, GiveUpMoves
<1>8. CASE StorageSend(t)
  <2>1. PICK i \in Storage :
            /\ IsNext(t, i)
            /\ \/ walk' = Tried(t, i) /\ UNCHANGED pc
               \/ /\ walk' = [walk EXCEPT ![t] = [@ EXCEPT !.src = <<"storage", i>>]]
                  /\ Goto(t, "sent")
    BY <1>8 DEF StorageSend
  <2>2. i \in Left(t)
    BY <2>1 DEF IsNext
  <2>3. pc[t] = "storage" /\ OnStorage(t)
    BY <1>2, <1>8 DEF StorageSend
  <2>4. CASE walk' = Tried(t, i) /\ UNCHANGED pc
    BY <2>2, <2>3, <2>4, TriedFacts DEF WalkMoves, PassesUrl
  <2>5. CASE /\ walk' = [walk EXCEPT ![t] = [@ EXCEPT !.src = <<"storage", i>>]]
             /\ Goto(t, "sent")
    <3>1. walk[t] \in Walk /\ walk'[t] = [walk[t] EXCEPT !.src = <<"storage", i>>]
      BY <1>1, <2>5
    <3>2. walk'[t].src = <<"storage", i>> /\ walk'[t].tried = walk[t].tried
      BY <3>1 DEF Walk
    <3>3. pc'[t] = "sent"
      BY <1>1, <2>5 DEF Goto
    <3> QED
      BY <2>2, <2>3, <3>2, <3>3 DEF WalkMoves, TriesUrl
  <2> QED
    BY <2>1, <2>4, <2>5
<1>9. CASE StorageReply(t)
  <2>1. pc[t] = "sent" /\ walk[t].src \in StorageCopy
    BY <1>9 DEF StorageReply, WalkOK
  <2>2. PICK i \in Storage : i = walk[t].src[2]
    BY <2>1, Pairs
  <2>3. OnStorage(t) /\ i \in Left(t)
    BY <1>2, <2>1, <2>2 DEF FreshOK, Left
  <2>4. \/ walk' = Tried(t, i) /\ Goto(t, "storage")
        \/ UNCHANGED walk /\ Goto(t, "streaming")
    BY <1>9, <2>2 DEF StorageReply
  <2>5. CASE walk' = Tried(t, i) /\ Goto(t, "storage")
    BY <1>1, <2>3, <2>5, TriedFacts DEF WalkMoves, PassesUrl, Goto
  <2> QED
    BY <1>5, <2>1, <2>4, <2>5
<1>10. CASE StorageDone(t)
  <2>1. walk[t] \in Walk /\ walk'[t] = [walk[t] EXCEPT !.src = <<"api", 1>>, !.attempt = 0]
    BY <1>1, <1>10 DEF StorageDone, FirstApi
  <2>2. walk'[t].src = <<"api", 1>>
    BY <2>1 DEF Walk
  <2>3. pc'[t] = "api" /\ OnStorage(t)
    BY <1>1, <1>2, <1>10 DEF StorageDone, Goto
  <2> QED
    BY <2>2, <2>3 DEF WalkMoves, TurnsToApi
<1>11. CASE ApiReply(t)
  BY <1>5, <1>7, <1>11 DEF ApiReply
<1>12. CASE Stream(t)
  BY <1>4, <1>7, <1>12 DEF Stream, Streaming
<1>13. CASE Place(t)
  BY <1>3, <1>4, <1>13 DEF Place, Streaming, Walking, Result
<1>14. CASE Rename(t)
  BY <1>4, <1>6, <1>14 DEF Rename, Streaming
<1>15. CASE Recheck(t)
  BY <1>3, <1>4, <1>15 DEF Recheck, Streaming, Walking, Result
<1>18. CASE RemoveStale(t)
  BY <1>4, <1>18 DEF RemoveStale
<1>16. CASE SecondRename(t)
  BY <1>6, <1>7, <1>16 DEF SecondRename, Streaming
<1>17. CASE WriteMeta(t)
  BY <1>3, <1>17 DEF WriteMeta, Result
<1> QED
  BY <1>8, <1>9, <1>10, <1>11, <1>12, <1>13, <1>14, <1>15, <1>16, <1>17,
     <1>18 DEF WalkStep

LEMMA FreshStep == IInv /\ FreshOK /\ [Next]_vars => FreshOK'
<1> SUFFICES ASSUME IInv, FreshOK, [Next]_vars, NEW o \in Task,
                    pc'[o] \in Streaming \cup {"sent"}, walk'[o].src \in StorageCopy
             PROVE  walk'[o].src[2] \notin walk'[o].tried
  BY DEF FreshOK
<1>1. TypeOK /\ WalkOK /\ pc \in [Task -> PC] /\ walk \in [Task -> Walk]
  BY DEF IInv, TypeOK
<1>2. CASE pc'[o] = pc[o] /\ walk'[o] = walk[o]
  BY <1>2 DEF FreshOK
<1>3. ASSUME NEW t \in Task, WalkStep(t)
      PROVE  walk'[o].src[2] \notin walk'[o].tried
  <2>1. CASE o # t
    BY <1>1, <1>2, <1>3, <2>1, WalkKinds
  <2>2. CASE o = t
    <3>1. WalkMoves(o) /\ pc'[o] \notin {"storage", "api", "meta", "settled"}
      BY <1>1, <1>3, <2>2, WalkKinds DEF Streaming
    <3>2. CASE \E i \in Left(o) : TriesUrl(o, i)
      BY <3>2 DEF TriesUrl, Left
    <3>3. CASE GoesAhead(o)
      <4>1. pc[o] # "api"
        <5>1. \A c \in ApiCopy : c \notin StorageCopy
          BY Pairs
        <5> QED
          BY <1>1, <3>3, <5>1 DEF GoesAhead, WalkOK
      <4> QED
        BY <3>3, <4>1 DEF GoesAhead, FreshOK
    <3> QED
      BY <3>1, <3>2, <3>3 DEF WalkMoves, PassesUrl, TurnsToApi, TriesAgain, EndsWalk
  <2> QED
    BY <2>1, <2>2
<1>4. CASE \/ SweepStep \/ \E kind \in {"clear", "limit", "list"} : StartSweep(kind)
           \/ \E h \in Host : CoolDown(h)
           \/ UNCHANGED vars
  <2>1. UNCHANGED <<pc, walk>>
    BY <1>1, <1>4, SweepType DEF CoolDown, vars, taskVars
  <2> QED
    BY <1>2, <2>1
<1>5. ASSUME NEW t \in Task, \/ \E u \in Urn : EnsureCached(t, u) \/ Preload(t, u)
                             \/ CacheCheck(t) \/ Coalesce(t) \/ Register(t) \/ Lead(t)
                             \/ Notify(t) \/ Remove(t) \/ Answer(t)
      PROVE  walk'[o].src[2] \notin walk'[o].tried
  <2>1. /\ pc'[t] \notin Streaming \cup {"sent"}
        /\ o # t => walk'[o] = walk[o] /\ (pc'[o] = pc[o] \/ pc'[o] = "woken")
    BY <1>1, <1>5 DEF EnsureCached, Preload, CacheCheck, Coalesce, Register, Lead, Notify, Remove,
       Answer, Goto, Return, Streaming
  <2> QED
    BY <1>2, <2>1 DEF Streaming
<1>6. CASE Crash
  BY <1>6 DEF Crash, Streaming
<1> QED
  BY <1>3, <1>4, <1>5, <1>6, NextSplit DEF OtherStep

LEMMA AsNearIfSame ==
    ASSUME NEW t \in Task, pc'[t] = pc[t], walk'[t] = walk[t] PROVE AsNear(t)
<1>1. Left(t)' = Left(t) /\ OnStorage(t)' = OnStorage(t) /\ OnApi(t)' = OnApi(t)
  BY DEF Left, OnStorage, OnApi
<1> QED
  BY <1>1 DEF AsNear, UrlsLeft, AttemptsLeft, StepsToGo

\* A task that does not walk, before or after the step.
LEMMA LabelNears ==
    ASSUME TypeOK, WalkOK, TypeOK', WalkOK', NEW t \in Task, pc'[t] \notin Walking,
           \/ /\ pc[t] \in {"idle", "check", "miss"} \cup Walking
              /\ pc'[t] \notin {"idle", "check", "miss"}
           \/ pc[t] \in {"idle", "check", "miss"} /\ StepsToGo(t)' < StepsToGo(t)
           \/ /\ pc[t] \notin {"idle", "check", "miss"} \cup Walking
              /\ pc'[t] \notin {"idle", "check", "miss"} /\ StepsToGo(t)' < StepsToGo(t)
    PROVE  Nearer(t)
<1> DEFINE n == Storages + Apis + 2
<1>1. /\ pc[t] \in Walking => UrlsLeft(t) >= 1
      /\ pc[t] \in {"idle", "check", "miss"} => UrlsLeft(t) = n /\ AttemptsLeft(t) = 0
      /\ pc[t] \notin {"idle", "check", "miss"} \cup Walking
             => UrlsLeft(t) = 0 /\ AttemptsLeft(t) = 0
      /\ UrlsLeft(t) \in 0..n
  BY Ranks DEF RankOK, InBounds
<1>2. /\ pc'[t] \in {"idle", "check", "miss"} => UrlsLeft(t)' = n /\ AttemptsLeft(t)' = 0
      /\ pc'[t] \notin {"idle", "check", "miss"} => UrlsLeft(t)' = 0 /\ AttemptsLeft(t)' = 0
  BY RanksNext DEF RankOK
<1>3. n \in Nat /\ n >= 2
  BY TrackCacheAssumption
<1> HIDE DEF n
<1>4. CASE pc[t] \in {"idle", "check", "miss"} \cup Walking /\ pc'[t] \notin {"idle", "check", "miss"}
  <2>1. UrlsLeft(t)' = 0 /\ UrlsLeft(t) >= 1
    BY <1>1, <1>2, <1>3, <1>4
  <2> QED
    BY <1>1, <2>1 DEF Nearer
<1>5. CASE pc[t] \in {"idle", "check", "miss"} /\ StepsToGo(t)' < StepsToGo(t)
  <2>1. CASE pc'[t] \in {"idle", "check", "miss"}
    BY <1>1, <1>2, <1>5, <2>1 DEF Nearer
  <2> QED
    BY <1>4, <1>5, <2>1
<1>6. CASE /\ pc[t] \notin {"idle", "check", "miss"} \cup Walking
           /\ pc'[t] \notin {"idle", "check", "miss"} /\ StepsToGo(t)' < StepsToGo(t)
  BY <1>1, <1>2, <1>6 DEF Nearer
<1> QED
  BY <1>4, <1>5, <1>6

LEMMA WalkNears ==
    ASSUME TypeOK, WalkOK, TypeOK', WalkOK', NEW t \in Task, WalkMoves(t)
    PROVE  Nearer(t)
<1>1. /\ pc[t] \in Walking => OnStorage(t) \/ OnApi(t)
      /\ OnStorage(t) => /\ ~OnApi(t)
                         /\ UrlsLeft(t) = Cardinality(Left(t)) + Apis + 1
                         /\ Cardinality(Left(t)) \in Nat /\ AttemptsLeft(t) = 0
      /\ OnApi(t) => /\ walk[t].src[2] \in Api /\ UrlsLeft(t) = Apis + 1 - walk[t].src[2]
                     /\ AttemptsLeft(t) = Retries - walk[t].attempt
                     /\ walk[t].attempt \in 0..Retries
  BY Ranks DEF RankOK
<1>2. /\ OnStorage(t)' => /\ UrlsLeft(t)' = Cardinality(Left(t)') + Apis + 1
                          /\ Cardinality(Left(t)') \in Nat /\ AttemptsLeft(t)' = 0
      /\ OnApi(t)' => /\ walk'[t].src[2] \in Api /\ UrlsLeft(t)' = Apis + 1 - walk'[t].src[2]
                      /\ AttemptsLeft(t)' = Retries - walk'[t].attempt
                      /\ walk'[t].attempt \in 0..Retries
  BY RanksNext DEF RankOK
<1>3. Apis \in Nat \ {0} /\ Retries \in Nat /\ Api = 1..Apis
  BY TrackCacheAssumption DEF Api
<1>4. /\ pc[t] \in {"storage", "sent"} => OnStorage(t)
      /\ pc'[t] \in {"storage", "sent"} => OnStorage(t)'
      /\ pc'[t] = "api" => OnApi(t)'
  BY DEF OnStorage, OnApi
<1>5. ASSUME NEW i \in Left(t), TriesUrl(t, i)
      PROVE  Nearer(t)
  <2>1. Left(t)' = Left(t) /\ OnStorage(t) /\ OnStorage(t)'
    BY <1>4, <1>5 DEF TriesUrl, Left
  <2>2. StepsToGo(t)' < StepsToGo(t)
    BY <1>5 DEF TriesUrl, StepsToGo
  <2> QED
    BY <1>1, <1>2, <2>1, <2>2 DEF Nearer
<1>6. ASSUME NEW i \in Left(t), PassesUrl(t, i)
      PROVE  Nearer(t)
  <2>1. Left(t)' = Left(t) \ {i} /\ OnStorage(t) /\ OnStorage(t)'
    BY <1>4, <1>6 DEF PassesUrl, Left
  <2>2. Cardinality(Left(t) \ {i}) = Cardinality(Left(t)) - 1
    BY LeftSizes, FS_RemoveElement
  <2> QED
    BY <1>1, <1>2, <1>3, <2>1, <2>2 DEF Nearer
<1>7. CASE TurnsToApi(t)
  <2>1. OnApi(t)'
    BY <1>4, <1>7 DEF TurnsToApi
  <2>2. CASE OnStorage(t) /\ walk'[t].src = <<"api", 1>>
    BY <1>1, <1>2, <1>3, <2>1, <2>2 DEF Nearer
  <2>3. CASE OnApi(t) /\ walk'[t].src = <<"api", walk[t].src[2] + 1>>
    <3>1. PICK a \in Api : a = walk[t].src[2]
      BY <1>1, <2>3
    <3>2. walk'[t].src[2] = a + 1
      BY <2>3, <3>1
    <3>3. a \in Nat /\ UrlsLeft(t) = Apis + 1 - a /\ UrlsLeft(t)' = Apis + 1 - (a + 1)
      BY <1>1, <1>2, <1>3, <2>1, <2>3, <3>1, <3>2
    <3>4. UrlsLeft(t)' < UrlsLeft(t)
      BY <1>3, <3>3
    <3> QED
      BY <3>4 DEF Nearer
  <2> QED
    BY <1>7, <2>2, <2>3 DEF TurnsToApi
<1>8. CASE TriesAgain(t)
  <2>1. OnApi(t)' /\ OnApi(t)
    BY <1>4, <1>8 DEF TriesAgain
  <2>2. UrlsLeft(t)' = UrlsLeft(t)
    BY <1>1, <1>2, <1>8, <2>1 DEF TriesAgain
  <2>3. PICK n \in 0..Retries : n = walk[t].attempt
    BY <1>1, <2>1
  <2>4. AttemptsLeft(t) = Retries - n /\ AttemptsLeft(t)' = Retries - (n + 1)
    BY <1>1, <1>2, <1>8, <2>1, <2>3 DEF TriesAgain
  <2>5. AttemptsLeft(t)' < AttemptsLeft(t)
    BY <1>3, <2>3, <2>4
  <2> QED
    BY <2>2, <2>5 DEF Nearer
<1>9. CASE GoesAhead(t)
  <2>1. Left(t)' = Left(t) /\ walk'[t] = walk[t]
    BY <1>9 DEF GoesAhead, Left
  <2>2. (OnStorage(t) => OnStorage(t)') /\ (OnApi(t) => OnApi(t)')
    BY <1>9, Pairs DEF GoesAhead, OnStorage, OnApi, WalkOK, Streaming
  <2>3. OnStorage(t) \/ OnApi(t)
    BY <1>1, <1>9 DEF GoesAhead, Walking
  <2>4. UrlsLeft(t)' = UrlsLeft(t) /\ AttemptsLeft(t)' = AttemptsLeft(t)
    BY <1>1, <1>2, <2>1, <2>2, <2>3
  <2> QED
    BY <1>9, <2>4 DEF Nearer, GoesAhead
<1>10. CASE EndsWalk(t)
  <2>1. pc'[t] \in {"meta", "settled"} /\ pc'[t] \notin Walking
    BY <1>10 DEF EndsWalk, Walking, Streaming
  <2>2. pc[t] = "meta" /\ pc'[t] = "settled" => StepsToGo(t)' < StepsToGo(t)
    BY DEF StepsToGo
  <2> QED
    BY <1>10, <2>1, <2>2, LabelNears DEF EndsWalk
<1> QED
  BY <1>5, <1>6, <1>7, <1>8, <1>9, <1>10 DEF WalkMoves

\* A task that starts its download has every URL before it.
LEMMA LeadNears ==
    ASSUME IInv, TypeOK', WalkOK', NEW t \in Task, Lead(t)
    PROVE  Nearer(t)
<1>1. pc[t] = "miss" /\ pc'[t] = "storage" /\ TypeOK /\ WalkOK
  BY DEF IInv, TypeOK, Lead, Goto
<1>2. UrlsLeft(t) = Storages + Apis + 2
  BY <1>1, Ranks DEF RankOK
<1>3. OnStorage(t)'
  BY <1>1 DEF OnStorage
<1>4. UrlsLeft(t)' = Cardinality(Left(t)') + Apis + 1
  BY <1>3, RanksNext DEF RankOK
<1>5. Cardinality(Left(t)') \in 0..Storages
  BY LeftSizesNext DEF SizesOK
<1> QED
  BY <1>2, <1>4, <1>5, TrackCacheAssumption DEF Nearer

LEMMA NearStep == IInv /\ FreshOK /\ [Next]_vars => TasksNearEnd
<1> SUFFICES ASSUME IInv, FreshOK, [Next]_vars
             PROVE  \A o \in Task : (Nearer(o) \/ AsNear(o)) /\ (TaskStep(o) => Nearer(o))
  BY Ranks DEF IInv, RankOK, TasksNearEnd
<1>1. /\ TypeOK /\ WalkOK /\ pc \in [Task -> PC] /\ walk \in [Task -> Walk]
      /\ TypeOK' /\ WalkOK'
  BY IInvNext DEF IInv, TypeOK
<1>2. ASSUME NEW t \in Task, WalkStep(t)
      PROVE  \A o \in Task : IF o = t THEN Nearer(o) ELSE AsNear(o)
  BY <1>1, <1>2, WalkKinds, WalkNears, AsNearIfSame
<1>3. ASSUME NEW t \in Task, CacheCheck(t) \/ Coalesce(t) \/ Register(t) \/ Remove(t) \/ Answer(t)
      PROVE  \A o \in Task : IF o = t THEN Nearer(o) ELSE AsNear(o)
  <2>1. /\ \A o \in Task \ {t} : pc'[o] = pc[o] /\ walk'[o] = walk[o]
        /\ \/ pc[t] = "check" /\ pc'[t] \in {"done", "miss"}
           \/ pc[t] = "miss" /\ pc'[t] = "joining"
           \/ pc[t] = "joining" /\ pc'[t] = "waiting"
           \/ pc[t] = "notified" /\ pc'[t] = "woken"
           \/ pc[t] = "woken" /\ pc'[t] = "done"
    BY <1>1, <1>3 DEF CacheCheck, Coalesce, Register, Remove, Answer, Goto, Return
  <2>2. Nearer(t)
    <3>1. StepsToGo(t)' < StepsToGo(t) /\ pc'[t] \notin Walking
      BY <2>1 DEF StepsToGo, Walking, Streaming
    <3> QED
      BY <1>1, <2>1, <3>1, LabelNears DEF Walking, Streaming
  <2> QED
    BY <2>1, <2>2, AsNearIfSame
<1>4. ASSUME NEW t \in Task, Lead(t)
      PROVE  \A o \in Task : IF o = t THEN Nearer(o) ELSE AsNear(o)
  <2>1. \A o \in Task \ {t} : pc'[o] = pc[o] /\ walk'[o] = walk[o]
    BY <1>1, <1>4 DEF Lead, Goto
  <2> QED
    BY <1>1, <1>4, <2>1, LeadNears, AsNearIfSame
<1>5. ASSUME NEW t \in Task, Notify(t)
      PROVE  Nearer(t) /\ \A o \in Task : Nearer(o) \/ AsNear(o)
  <2>1. ASSUME NEW o \in Task
        PROVE  /\ walk'[o] = walk[o]
               /\ \/ pc[o] = "settled" /\ pc'[o] = "notified"
                  \/ pc[o] = "waiting" /\ pc'[o] = "woken"
                  \/ o # t /\ pc'[o] = pc[o]
    BY <1>5, <2>1 DEF Notify
  <2>2. ASSUME NEW o \in Task, \/ pc[o] = "settled" /\ pc'[o] = "notified"
                               \/ pc[o] = "waiting" /\ pc'[o] = "woken"
        PROVE  Nearer(o)
    <3>1. StepsToGo(o)' < StepsToGo(o) /\ pc'[o] \notin Walking
      BY <2>2 DEF StepsToGo, Walking, Streaming
    <3> QED
      BY <1>1, <2>2, <3>1, LabelNears DEF Walking, Streaming
  <2> QED
    BY <2>1, <2>2, AsNearIfSame
<1>6. ASSUME NEW t \in Task, NEW u \in Urn, EnsureCached(t, u) \/ Preload(t, u)
      PROVE  \A o \in Task : IF o = t THEN Nearer(o) ELSE AsNear(o)
  <2>1. /\ \A o \in Task \ {t} : pc'[o] = pc[o] /\ walk'[o] = walk[o]
        /\ pc[t] = "idle" /\ pc'[t] = "check"
    BY <1>1, <1>6 DEF EnsureCached, Preload, Goto
  <2>2. Nearer(t)
    <3>1. StepsToGo(t)' < StepsToGo(t) /\ pc'[t] \notin Walking
      BY <2>1 DEF StepsToGo, Walking, Streaming
    <3> QED
      BY <1>1, <2>1, <3>1, LabelNears
  <2> QED
    BY <2>1, <2>2, AsNearIfSame
<1>7. ASSUME \/ SweepStep \/ \E kind \in {"clear", "limit", "list"} : StartSweep(kind)
             \/ \E h \in Host : CoolDown(h)
             \/ UNCHANGED vars
      PROVE  \A o \in Task : AsNear(o)
  <2>1. UNCHANGED <<pc, walk>>
    BY <1>1, <1>7, SweepType DEF CoolDown, vars, taskVars
  <2> QED
    BY <2>1, AsNearIfSame
<1>8. ASSUME Crash, NEW o \in Task
      PROVE  Nearer(o) \/ AsNear(o)
  <2>1. pc'[o] = IF pc[o] \in {"idle", "done"} THEN pc[o] ELSE "dead"
    BY <1>8 DEF Crash
  <2>2. CASE pc[o] \in {"idle", "done", "dead"}
    <3>1. pc'[o] = pc[o]
      BY <2>1, <2>2
    <3>2. /\ UrlsLeft(o)' = UrlsLeft(o) /\ AttemptsLeft(o)' = AttemptsLeft(o)
          /\ StepsToGo(o)' = StepsToGo(o)
      BY <2>2, <3>1 DEF UrlsLeft, AttemptsLeft, StepsToGo, OnStorage, OnApi, Streaming
    <3> QED
      BY <3>2 DEF AsNear
  <2>3. CASE pc[o] \notin {"idle", "done", "dead"}
    <3>1. pc'[o] = "dead" /\ pc[o] \in PC
      BY <1>1, <2>1, <2>3
    <3>2. StepsToGo(o)' < StepsToGo(o) /\ pc'[o] \notin Walking
      BY <2>3, <3>1 DEF StepsToGo, PC, Leading, Walking, Streaming
    <3> QED
      BY <1>1, <3>1, <3>2, LabelNears DEF Walking, Streaming
  <2> QED
    BY <2>2, <2>3
<1>9. ASSUME NEW o \in Task, TaskStep(o)
      PROVE  Nearer(o)
  BY <1>2, <1>3, <1>4, <1>5, <1>9 DEF TaskStep, WalkStep
<1>10. ASSUME NEW o \in Task
       PROVE  Nearer(o) \/ AsNear(o)
  BY <1>2, <1>3, <1>4, <1>5, <1>6, <1>7, <1>8, NextSplit DEF OtherStep
<1> QED
  BY <1>9, <1>10

LEMMA FreshAlways == Spec => []FreshOK
<1>1. Init => FreshOK
  BY DEF Init, FreshOK, Streaming
<1> QED
  BY <1>1, FreshStep, IInvAlways, PTL DEF Spec

\* Every step of a task lowers (URLs left, attempts left, steps left of the attempt), and
\* no step of another task, of a sweep or of the environment raises it: a download ends
\* after a bounded number of its own steps, and a waiter is the only task that can stay.
THEOREM TasksApproachTheirEnd == Spec => [][TasksNearEnd]_vars
BY FreshAlways, NearStep, IInvAlways, PTL DEF Spec

\* The walk over the storage URLs: the order by health leaves no URL out, so one is next
\* while any is left, and the one being tried was not tried before in this download.
EachUrlOnce ==
    FreshOK /\ \A t \in Task : pc[t] = "storage" /\ Left(t) # {} => \E i \in Storage : IsNext(t, i)

\* A download tries every storage URL it was given at most once, and never stands before
\* untried ones without a next one, however the hosts' marks change meanwhile.
THEOREM StorageWalkGoesOn == Spec => []EachUrlOnce
<1>1. FreshOK => EachUrlOnce
  BY NextExists DEF EachUrlOnce
<1> QED
  BY <1>1, FreshAlways, PTL

-----------------------------------------------------------------------------
(* The cache's downloads are single flights.                               *)

\* A step of the cache is one of the abstract flight steps, or none of them.
LEMMA FlightStep ==
    ASSUME IInv, [Next]_vars
    PROVE  [Flights!Next]_(Flights!vars)
<1> USE TrackCacheAssumption DEF Flights!vars, Flights!Next
<1>i. TypeOK /\ WalkOK /\ FlightInv
  BY DEF IInv
<1>s. \A t \in Task : Standing(t)
  BY <1>i DEF FlightInv
<1>u. \A t \in Task : urn[t] \in Urn \cup {None} /\ (pc[t] # "idle" => urn[t] \in Urn)
  BY <1>i, <1>s DEF TypeOK, Standing
<1>1. ASSUME NEW t \in Task, WalkStep(t)
      PROVE  [Flights!Next]_(Flights!vars)
  <2>1. CASE Quiet(t)
    BY <2>1 DEF Quiet
  <2>2. CASE Lands(t)
    <3>1. PICK o \in Result : slot' = [slot EXCEPT ![t] = o]
      BY <2>2 DEF Lands
    <3>2. pc[t] \in Leading /\ slot[t] = None
      BY <1>s, <2>2 DEF Lands, Leading, Standing
    <3>3. urn[t] # None /\ active[urn[t]] = t
      BY <1>s, <1>u, <3>2 DEF Standing, Leading, Walking, Streaming
    <3>4. Flights!Land(t, o)
      BY <2>2, <3>1, <3>2, <3>3 DEF Lands, Flights!Land
    <3> QED
      BY <3>4
  <2> QED
    BY <1>1, <1>i, <2>1, <2>2, WalkShape
<1>2. ASSUME NEW t \in Task, NEW u \in Urn, EnsureCached(t, u) \/ Preload(t, u)
      PROVE  [Flights!Next]_(Flights!vars)
  <2>1. Flights!Ask(t, u)
    BY <1>2, <1>s DEF EnsureCached, Preload, Standing, Flights!Ask
  <2> QED
    BY <2>1
<1>3. ASSUME NEW t \in Task, CacheCheck(t)
      PROVE  [Flights!Next]_(Flights!vars)
  <2>1. urn[t] # None /\ leader[t] = None /\ answer[t] = None
    BY <1>3, <1>s, <1>u DEF CacheCheck, Standing
  <2>2. CASE answer' = [answer EXCEPT ![t] = "ok"]
    <3>1. Flights!Hit(t, "ok")
      BY <1>3, <2>1, <2>2 DEF CacheCheck, Flights!Hit
    <3> QED
      BY <3>1 DEF Result
  <2> QED
    BY <1>3, <2>2 DEF CacheCheck, Return
<1>4. ASSUME NEW t \in Task, Coalesce(t)
      PROVE  [Flights!Next]_(Flights!vars)
  <2>1. Flights!Join(t)
    BY <1>4, <1>s, <1>u DEF Coalesce, Standing, Flights!Join
  <2> QED
    BY <2>1
<1>5. ASSUME NEW t \in Task, Lead(t)
      PROVE  [Flights!Next]_(Flights!vars)
  <2>1. Flights!Lead(t)
    BY <1>5, <1>s, <1>u DEF Lead, Standing, Flights!Lead
  <2> QED
    BY <2>1
<1>6. ASSUME NEW t \in Task, Register(t) \/ Notify(t)
      PROVE  [Flights!Next]_(Flights!vars)
  BY <1>6 DEF Register, Notify
<1>7. ASSUME NEW t \in Task, Remove(t)
      PROVE  [Flights!Next]_(Flights!vars)
  <2>1. Flights!Close(t)
    BY <1>7, <1>s, <1>u DEF Remove, Standing, Leading, Flights!Close
  <2> QED
    BY <2>1
<1>8. ASSUME NEW t \in Task, Answer(t)
      PROVE  [Flights!Next]_(Flights!vars)
  <2>1. leader[t] # None /\ answer[t] = None /\ slot[leader[t]] # None
    BY <1>8, <1>s DEF Answer, Standing
  <2>2. Flights!Deliver(t)
    BY <1>8, <2>1 DEF Answer, Return, Flights!Deliver
  <2> QED
    BY <2>2
<1>9. CASE SweepStep \/ \E kind \in {"clear", "limit", "list"} : StartSweep(kind)
  BY <1>9, <1>i, SweepType DEF taskVars
<1>10. ASSUME NEW h \in Host, CoolDown(h)
      PROVE  [Flights!Next]_(Flights!vars)
  BY <1>10 DEF CoolDown, taskVars
<1>11. CASE Crash
  <2>1. Flights!Abort
    BY <1>11 DEF Crash, Flights!Abort
  <2> QED
    BY <2>1
<1>12. CASE UNCHANGED vars
  BY <1>12 DEF vars, taskVars
<1> QED
  BY <1>1, <1>2, <1>3, <1>4, <1>5, <1>6, <1>7, <1>8, <1>9, <1>10, <1>11, <1>12, NextSplit
     DEF OtherStep

\* Whatever the URLs, the retries and the sweeps do, downloads keep the abstract
\* promise: one open flight per track, landing once, its riders answered alike.
THEOREM CacheImplementsSingleFlight == Spec => ImplementsSingleFlight
<1>1. Init => Flights!Init
  BY DEF Init, Flights!Init
<1> QED
  BY <1>1, FlightStep, IInvAlways, PTL DEF Spec, ImplementsSingleFlight, Flights!Spec

\* Requests that shared a download were for one track, and got the answer it landed with.
THEOREM CoalescedAnswersAgree == Spec => [](Flights!RidersAgree /\ Flights!RidersShareKey)
<1>1. IInv => Flights!RidersAgree /\ Flights!RidersShareKey
  BY TrackCacheAssumption
     DEF IInv, TypeOK, FlightInv, Standing, Flights!RidersAgree, Flights!RidersShareKey
<1> QED
  BY <1>1, IInvAlways, PTL
=============================================================================
