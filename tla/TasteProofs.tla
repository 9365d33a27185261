----------------------------- MODULE TasteProofs ------------------------------
(* Proofs about Taste and the pipeline under it, for any tracks, listeners,    *)
(* events and number of faults.                                                *)
(*                                                                             *)
(* The inductive invariant has eight parts: the types; VectorInv, how far a    *)
(* vector is ahead of the messages that announce it; FoldInv, that it is ahead *)
(* of the updates too; LockInv, that whoever tries an event is first in the    *)
(* lock of its user; ProfileInv, that no two updates of a profile overlap but  *)
(* by a stray one, so that nobody else can have changed the count one has      *)
(* read; OwnInv, that what is tried was saved, by the user of the lock;        *)
(* WaitInv, where an event not yet applied is once its track was announced;    *)
(* and DislikeInv, that a dislike whose row stands is still to be applied, was *)
(* lost by an error, or was folded after every like.  Two more invariants rest *)
(* on it: SourceInv, which track a message may name, and LineInv, who may      *)
(* stand in the line before a lock; from LineInv follows that every runner in  *)
(* a line is served, by a rank that its first runner lowers.                   *)
EXTENDS Taste, SequenceTheorems, FiniteSetTheorems, WellFoundedInduction, TLAPS

(* A worker past its first upsert, a done message and an indexed row all know  *)
(* of a vector.                                                                *)
VectorInv ==
    /\ task.at \in {"clap", "publish"} => task.track \in mert
    /\ doneRow \subseteq mert
    /\ IndexedHasVector

InTurn(r) == lock[OwnerOf(r)] # <<>> /\ Head(lock[OwnerOf(r)]) = r

LockInv == \A r \in Runners : turn[r].at # "none" => InTurn(r)

(* An update of a profile that another one may not know of, and a stray one.   *)
TurnUpdates(r, u) == OwnerOf(r) = u /\ turn[r].at = "write"
StrayUpdates(n, u) == UserOf[stray[n].event] = u /\ stray[n].at = "write"

CountsOf(u) ==
    /\ count[u] = Len(folded[u])
    /\ \A r \in Runners : TurnUpdates(r, u) =>
          turn[r].base = count[u] /\ \A n \in Strays : ~StrayUpdates(n, u)
    /\ \A n \in Strays : StrayUpdates(n, u) =>
          stray[n].base = count[u] /\ \A m \in Strays : StrayUpdates(m, u) => m = n

ProfileInv == \A u \in Users : u \notin overlapped => CountsOf(u)

(* Nothing is folded, or about to be, of a track without a vector.             *)
FoldInv ==
    /\ \A u \in Users : \A i \in 1..Len(folded[u]) : TrackOf[folded[u][i]] \in mert
    /\ \A r \in Runners : turn[r].at = "write" => TrackOf[turn[r].event] \in mert
    /\ \A n \in Strays : stray[n].at = "write" => TrackOf[stray[n].event] \in mert

(* Who is tried is saved, and tried under the lock of its own user; the call   *)
(* that stores a dislike has not come to its event yet.                        *)
OwnInv ==
    /\ \A e \in applied : IsSaved(e)
    /\ \A u \in Users : \A e \in batch[u] : IsSaved(e) /\ UserOf[e] = u
    /\ \A r \in Runners : turn[r].at # "none" =>
          IsSaved(turn[r].event) /\ UserOf[turn[r].event] = OwnerOf(r)
    /\ \A e \in Events : adding[e] # "none" =>
          KindOf[e] = "dislike" /\ ~IsSaved(e) /\ e \notin Range(lock[UserOf[e]])

-------------------------------------------------------------------------------
(* Types. *)

LEMMA Defaults ==
    /\ NoTask \in [track : Tracks, at : {"idle"}]
    /\ \A e \in Events, a \in {"none", "guard"} :
          [event |-> e, at |-> a, base |-> 0] \in Turn
    /\ \E e \in Events : NoTurn = [event |-> e, at |-> "none", base |-> 0]
BY TasteAssumption DEF NoTask, NoTurn, Turn

LEMMA Owners ==
    /\ \A r \in Runners : OwnerOf(r) \in Users
    /\ \A e \in Events : OwnerOf(e) = UserOf[e]
    /\ \A u \in Users : OwnerOf(u) = u
BY TasteAssumption DEF Runners, OwnerOf

(* The steps of the pipeline keep its types and the lead of the vectors.       *)
LEMMA PipelineInv ==
    ASSUME IndexingTypeOK, VectorInv, PipelineStep
    PROVE  IndexingTypeOK' /\ VectorInv'
<1> USE IndexingAssumption DEF Fault, FaultIf, qVars, workerVars
<1>1. ASSUME NEW t \in Tracks, EnsureTrackIndexed(t)
      PROVE  IndexingTypeOK' /\ VectorInv'
  BY <1>1 DEF EnsureTrackIndexed, IndexingTypeOK, VectorInv, IndexedHasVector
<1>2. ASSUME NEW t \in Tracks, TriggerCached(t) \/ TriggerUpload(t) \/ TriggerFails(t)
                               \/ StoredByStream(t)
      PROVE  IndexingTypeOK' /\ VectorInv'
  BY <1>2 DEF TriggerCached, TriggerUpload, TriggerFails, StoredByStream, Announce,
              IndexingTypeOK, VectorInv, IndexedHasVector
<1>3. ASSUME NEW t \in Tracks, OnUploaded(t)
      PROVE  IndexingTypeOK' /\ VectorInv'
  <2>1. IndexingTypeOK'
    BY <1>3 DEF OnUploaded, IndexingTypeOK
  <2>2. VectorInv'
    BY <1>3 DEF OnUploaded, IndexingTypeOK, VectorInv, IndexedHasVector
  <2> QED
    BY <2>1, <2>2
<1>4. ASSUME NEW t \in Tracks, OnDone(t)
      PROVE  IndexingTypeOK' /\ VectorInv'
  <2>1. IndexingTypeOK'
    BY <1>4 DEF OnDone, IndexingTypeOK
  <2>2. VectorInv'
    BY <1>4 DEF OnDone, IndexingTypeOK, VectorInv, IndexedHasVector
  <2> QED
    BY <2>1, <2>2
<1>5. CASE Reap
  BY <1>5 DEF Reap, IndexingTypeOK, VectorInv, IndexedHasVector
<1>6. ASSUME NEW t \in Tracks, Fetch(t)
      PROVE  IndexingTypeOK' /\ VectorInv'
  BY <1>6 DEF Fetch, IndexingTypeOK, VectorInv, IndexedHasVector
<1>7. CASE CheckVectors
  BY <1>7 DEF CheckVectors, HasAudioVectors, IndexingTypeOK, VectorInv, IndexedHasVector
<1>8. CASE UpsertMert \/ UpsertClap
  BY <1>8 DEF UpsertMert, UpsertClap, IndexingTypeOK, VectorInv, IndexedHasVector
<1>9. CASE PublishDone
  BY <1>9, Defaults DEF PublishDone, IndexingTypeOK, VectorInv, IndexedHasVector
<1>10. CASE TaskFails
  <2>1. task' \in [track : Tracks, at : {"idle"}] /\ faults' \in 0..MaxFaults
    BY <1>10, Defaults DEF TaskFails, IndexingTypeOK
  <2>2. loopUp' \in BOOLEAN
    BY <1>10 DEF TaskFails
  <2>3. UNCHANGED <<row, stored, calls, uploaded, doneRow, doneTaste, mert, clap>>
        /\ index' \subseteq Tracks
    BY <1>10 DEF TaskFails, IndexingTypeOK
  <2>4. IndexingTypeOK'
    BY <2>1, <2>2, <2>3 DEF IndexingTypeOK
  <2>5. VectorInv'
    BY <2>1, <2>3 DEF VectorInv, IndexedHasVector
  <2> QED
    BY <2>4, <2>5
<1> QED
  BY <1>1, <1>2, <1>3, <1>4, <1>5, <1>6, <1>7, <1>8, <1>9, <1>10
  DEF PipelineStep, WorkerStep

-------------------------------------------------------------------------------
(* Listeners and the consumer. *)

(* The part of the types that the steps of Taste change.                       *)
TasteTypeOK ==
    /\ saved \in Seq(Events) /\ applied \subseteq Events
    /\ disliked \subseteq Users \X Tracks
    /\ adding \in [Events -> {"none", "saving", "asking"}]
    /\ lock \in [Users -> Seq(Runners)] /\ batch \in [Users -> SUBSET Events]
    /\ turn \in [Runners -> Turn] /\ stray \in [Strays -> Turn]
    /\ count \in [Users -> Nat] /\ folded \in [Users -> Seq(Events)]
    /\ unlucky \subseteq Events /\ late \subseteq Events /\ lost \subseteq Events
    /\ overlapped \subseteq Users

LEMMA TypeParts == TypeOK <=> IndexingTypeOK /\ TasteTypeOK
BY DEF TypeOK, TasteTypeOK

(* The steps of Taste leave the vectors alone.                                 *)
ListenerStep(e) == AddLooks(e) \/ AddStores(e) \/ Record(e) \/ SaveEvent(e)
ConsumerStep ==
    \/ \E t \in Tracks : OnDoneTaste(t)
    \/ \E u \in Users : NextInBatch(u) \/ \E t \in Tracks : RemoveDislike(u, t)
Trial(r) == Guard(r) \/ Retrieve(r) \/ NotApplied(r) \/ AppliedElsewhere(r)
                \/ WriteProfile(r) \/ MarkApplied(r) \/ TrialThrows(r)
StrayStep(n) == StrayRetrieves(n) \/ StrayWrites(n) \/ StrayEnds(n)

TasteStep ==
    \/ \E e \in Events : ListenerStep(e)
    \/ ConsumerStep
    \/ \E r \in Runners : Trial(r)
    \/ \E n \in Strays : StrayStep(n)

LEMMA NextSteps == Next => Pipeline(PipelineStep) \/ TasteStep
BY DEF Next, TasteStep, ListenerStep, ConsumerStep, Trial, StrayStep

LEMMA TasteStepOnPipeline ==
    ASSUME TypeOK, TasteStep
    PROVE  /\ IndexingTypeOK'
           /\ UNCHANGED <<row, doneRow, mert, task>>
<1> USE IndexingAssumption, TypeParts DEF indexingVars, qVars, workerVars, Fault, FaultIf
<1>1. ASSUME NEW t \in Tracks, OnDoneTaste(t)
      PROVE  IndexingTypeOK' /\ UNCHANGED <<row, doneRow, mert, task>>
  BY <1>1 DEF OnDoneTaste, IndexingTypeOK
<1>2. ASSUME NEW r \in Runners, NotApplied(r)
      PROVE  IndexingTypeOK' /\ UNCHANGED <<row, doneRow, mert, task>>
  <2>1. turn[r].event \in Events
    BY DEF TasteTypeOK, Turn
  <2>2. calls' \subseteq Tracks
    BY <1>2, <2>1, TasteAssumption DEF NotApplied, Queued, IndexingTypeOK
  <2> QED
    BY <1>2, <2>2 DEF NotApplied, IndexingTypeOK
<1>3. ASSUME UNCHANGED <<row, stored, calls, qVars, workerVars>>, faults' = faults \/ Fault
      PROVE  IndexingTypeOK' /\ UNCHANGED <<row, doneRow, mert, task>>
  BY <1>3 DEF IndexingTypeOK
<1>4. CASE UNCHANGED indexingVars
  BY <1>3, <1>4
<1>5. ASSUME NEW e \in Events, ListenerStep(e)
      PROVE  IndexingTypeOK' /\ UNCHANGED <<row, doneRow, mert, task>>
  <2>1. CASE AddLooks(e) \/ Record(e)
    BY <1>4, <2>1 DEF AddLooks, Record
  <2>2. CASE AddStores(e) \/ SaveEvent(e)
    BY <1>3, <2>2 DEF AddStores, SaveEvent, SaveFails
  <2> QED
    BY <1>5, <2>1, <2>2 DEF ListenerStep
<1>6. ASSUME NEW r \in Runners, Trial(r)
      PROVE  IndexingTypeOK' /\ UNCHANGED <<row, doneRow, mert, task>>
  <2>1. CASE Guard(r) \/ Retrieve(r) \/ WriteProfile(r) \/ MarkApplied(r)
    BY <1>4, <2>1 DEF Guard, Retrieve, WriteProfile, MarkApplied
  <2>2. CASE AppliedElsewhere(r) \/ TrialThrows(r)
    BY <1>3, <2>2 DEF AppliedElsewhere, TrialThrows
  <2> QED
    BY <1>2, <1>6, <2>1, <2>2 DEF Trial
<1>7. ASSUME NEW n \in Strays, StrayStep(n)
      PROVE  IndexingTypeOK' /\ UNCHANGED <<row, doneRow, mert, task>>
  <2>1. CASE StrayRetrieves(n) \/ StrayWrites(n)
    BY <1>4, <2>1 DEF StrayRetrieves, StrayWrites
  <2>2. CASE StrayEnds(n)
    BY <1>3, <2>2 DEF StrayEnds
  <2> QED
    BY <1>7, <2>1, <2>2 DEF StrayStep
<1>8. CASE \E u \in Users : NextInBatch(u) \/ \E t \in Tracks : RemoveDislike(u, t)
  BY <1>4, <1>8 DEF NextInBatch, RemoveDislike
<1> QED
  BY <1>1, <1>5, <1>6, <1>7, <1>8 DEF TasteStep, ConsumerStep

(* Whoever ends its trial gives the lock back, or goes on as the consumer.     *)
LEMMA EndTurnShape ==
    ASSUME TypeOK, LockInv, NEW r \in Runners, turn[r].at # "none", EndTurn(r)
    PROVE  /\ turn' = [turn EXCEPT ![r] = NoTurn]
           /\ turn' \in [Runners -> Turn] /\ turn'[r].at = "none"
           /\ lock' \in [Users -> Seq(Runners)]
           /\ \A q \in Runners \ {r} : turn[q].at # "none" => lock'[OwnerOf(q)] = lock[OwnerOf(q)]
<1>1. NoTurn \in Turn /\ NoTurn.at = "none"
  BY Defaults DEF Turn
<1>2. turn \in [Runners -> Turn] /\ lock \in [Users -> Seq(Runners)]
  BY DEF TypeOK, Turn
<1>3. /\ turn' = [turn EXCEPT ![r] = NoTurn]
      /\ turn' \in [Runners -> Turn] /\ turn'[r].at = "none"
  BY <1>1, <1>2 DEF EndTurn
<1>4. OwnerOf(r) \in Users /\ lock[OwnerOf(r)] # <<>> /\ Head(lock[OwnerOf(r)]) = r
  BY Owners DEF LockInv, InTurn
<1>5. Tail(lock[OwnerOf(r)]) \in Seq(Runners)
  BY <1>2, <1>4
<1>6. lock' \in [Users -> Seq(Runners)]
  BY <1>2, <1>4, <1>5 DEF EndTurn, Released
<1>7. ASSUME NEW q \in Runners \ {r}, turn[q].at # "none"
      PROVE  lock'[OwnerOf(q)] = lock[OwnerOf(q)]
  <2>1. OwnerOf(q) \in Users /\ OwnerOf(q) # OwnerOf(r)
    BY <1>4, <1>7, Owners DEF LockInv, InTurn
  <2> QED
    BY <1>2, <1>4, <2>1 DEF EndTurn, Released
<1> QED
  BY <1>3, <1>6, <1>7

(* LockInv survives a turn that ends, ...                                      *)
LEMMA EndTurnKeepsLock ==
    ASSUME TypeOK, LockInv, NEW r \in Runners, turn[r].at # "none", EndTurn(r)
    PROVE  LockInv'
<1>1. /\ turn' = [turn EXCEPT ![r] = NoTurn] /\ turn'[r].at = "none"
      /\ \A q \in Runners \ {r} : turn[q].at # "none" => lock'[OwnerOf(q)] = lock[OwnerOf(q)]
  BY EndTurnShape
<1>2. \A q \in Runners \ {r} : turn'[q] = turn[q]
  BY <1>1 DEF TypeOK
<1> QED
  BY <1>1, <1>2 DEF LockInv, InTurn, OwnerOf

(* ... a lock that somebody more asks for, ...                                 *)
LEMMA AskingKeepsLock ==
    ASSUME TypeOK, LockInv, UNCHANGED turn,
           \A u \in Users : lock'[u] = lock[u]
                            \/ \E x \in Runners : lock'[u] = Append(lock[u], x)
    PROVE  LockInv'
<1>1. ASSUME NEW r \in Runners, turn[r].at # "none"
      PROVE  lock'[OwnerOf(r)] # <<>> /\ Head(lock'[OwnerOf(r)]) = r
  <2> DEFINE u == OwnerOf(r)
  <2>1. u \in Users /\ lock[u] \in Seq(Runners) /\ lock[u] # <<>> /\ Head(lock[u]) = r
    BY <1>1, Owners DEF TypeOK, LockInv, InTurn
  <2>2. CASE lock'[u] = lock[u]
    BY <2>1, <2>2
  <2>3. ASSUME NEW x \in Runners, lock'[u] = Append(lock[u], x)
        PROVE  lock'[u] # <<>> /\ Head(lock'[u]) = r
    BY <2>1, <2>3
  <2> QED
    BY <2>1, <2>2, <2>3
<1> QED
  BY <1>1 DEF LockInv, InTurn, OwnerOf

(* ... one that its first runner gives up before it has begun a turn, ...      *)
LEMMA ReleaseKeepsLock ==
    ASSUME TypeOK, LockInv, NEW r \in Runners, InTurn(r), turn[r].at = "none",
           lock' = Released(r), UNCHANGED turn
    PROVE  lock' \in [Users -> Seq(Runners)] /\ LockInv'
<1>1. /\ OwnerOf(r) \in Users /\ lock \in [Users -> Seq(Runners)]
      /\ lock[OwnerOf(r)] # <<>> /\ Head(lock[OwnerOf(r)]) = r
  BY Owners DEF InTurn, TypeOK
<1>2. Tail(lock[OwnerOf(r)]) \in Seq(Runners)
  BY <1>1
<1>3. lock' = [lock EXCEPT ![OwnerOf(r)] = Tail(@)]
  <2>1. lock[OwnerOf(r)] \in Seq(Runners)
    BY <1>1
  <2>2. SubSeq(lock[OwnerOf(r)], 2, Len(lock[OwnerOf(r)])) = Tail(lock[OwnerOf(r)])
    BY <1>1, <2>1, TailIsSubSeq
  <2> QED
    BY <2>2 DEF Released
<1>4. lock' \in [Users -> Seq(Runners)]
  BY <1>1, <1>2, <1>3
<1>5. ASSUME NEW q \in Runners, turn[q].at # "none"
      PROVE  lock'[OwnerOf(q)] = lock[OwnerOf(q)]
  BY <1>1, <1>3, <1>5, Owners DEF LockInv, InTurn
<1> QED
  BY <1>4, <1>5, ZenonT(60) DEF LockInv, InTurn, OwnerOf

(* ... and a turn that begins or goes on.                                      *)
LEMMA TrialKeepsLock ==
    ASSUME TypeOK, LockInv, NEW r \in Runners, InTurn(r), NEW w \in Turn,
           turn' = [turn EXCEPT ![r] = w], UNCHANGED lock
    PROVE  turn' \in [Runners -> Turn] /\ LockInv'
<1>1. turn' \in [Runners -> Turn] /\ turn'[r] = w
  BY DEF TypeOK
<1>2. \A q \in Runners \ {r} : turn'[q] = turn[q]
  BY DEF TypeOK
<1> QED
  BY <1>1, <1>2 DEF LockInv, InTurn, OwnerOf

(* How far a trial comes without ending the turn.                              *)
GoesOn(r) ==
    /\ UNCHANGED <<lock, batch, saved, applied>>
    /\ turn' \in [Runners -> Turn] /\ turn'[r].event = turn[r].event
    /\ \A q \in Runners \ {r} : turn'[q] = turn[q]
    /\ \/ turn[r].at = "guard" /\ turn'[r].at \in {"retrieve", "mark"}
       \/ turn[r].at = "retrieve" /\ turn'[r].at \in {"write", "mark"}
       \/ turn[r].at = "write" /\ turn'[r].at = "mark"

LEMMA TrialGoesOn ==
    ASSUME TypeOK, NEW r \in Runners,
           Guard(r) \/ Retrieve(r) \/ AppliedElsewhere(r) \/ WriteProfile(r)
    PROVE  /\ GoesOn(r) /\ turn'[r].at # "none"
           /\ \E w \in Turn : turn' = [turn EXCEPT ![r] = w]
           /\ Guard(r) => turn'[r].at \in {"retrieve", "mark"} /\ turn[r].at = "guard"
           /\ Retrieve(r) => /\ turn'[r].at = "write" /\ turn'[r].base = count[OwnerOf(r)]
                             /\ turn[r].at = "retrieve"
           /\ AppliedElsewhere(r) => turn[r].at = "retrieve" /\ turn'[r].at = "mark"
           /\ WriteProfile(r) => turn'[r].at = "mark" /\ turn[r].at = "write"
<1>0. /\ turn \in [Runners -> Turn] /\ turn[r] \in Turn
      /\ count[OwnerOf(r)] \in Nat
  BY Owners DEF TypeOK
<1>1. UNCHANGED <<lock, batch, saved, applied>>
  BY DEF Guard, Retrieve, AppliedElsewhere, WriteProfile, eventVars
<1>2. CASE Guard(r)
  <2>1. PICK a \in {"mark", "retrieve"} : turn' = [turn EXCEPT ![r].at = a]
    BY <1>2 DEF Guard, Disliked
  <2> DEFINE w == [turn[r] EXCEPT !.at = a]
  <2>2. /\ w \in Turn /\ w.at = a /\ w.event = turn[r].event /\ turn[r].at = "guard"
        /\ turn' = [turn EXCEPT ![r] = w]
    BY <1>0, <1>2, <2>1 DEF Turn, Guard
  <2> QED
    BY <1>0, <1>1, <1>2, <2>2 DEF GoesOn, Retrieve, AppliedElsewhere, WriteProfile
<1>3. CASE Retrieve(r)
  <2> DEFINE w == [turn[r] EXCEPT !.at = "write", !.base = count[OwnerOf(r)]]
  <2>1. turn' = [turn EXCEPT ![r].at = "write", ![r].base = count[OwnerOf(r)]]
    BY <1>3 DEF Retrieve
  <2>2. /\ w \in Turn /\ w.at = "write" /\ w.event = turn[r].event
        /\ w.base = count[OwnerOf(r)] /\ turn[r].at = "retrieve"
        /\ turn' = [turn EXCEPT ![r] = w]
    BY <1>0, <1>3, <2>1 DEF Turn, Retrieve
  <2>3. turn'[r] = w /\ \A q \in Runners \ {r} : turn'[q] = turn[q]
    BY <1>0, <2>2
  <2>4. turn' \in [Runners -> Turn]
    BY <1>0, <2>2
  <2>5. GoesOn(r)
    BY <1>1, <2>2, <2>3, <2>4 DEF GoesOn
  <2>6. ~AppliedElsewhere(r)
    <3>1. AppliedElsewhere(r) => turn' = [turn EXCEPT ![r].at = "mark"]
      BY DEF AppliedElsewhere
    <3>2. turn' = [turn EXCEPT ![r].at = "mark"] => turn'[r].at = "mark"
      BY <1>0 DEF Turn
    <3> QED
      BY <2>2, <2>3, <3>1, <3>2
  <2>7. ~Guard(r) /\ ~WriteProfile(r)
    BY <2>2 DEF Guard, WriteProfile
  <2> HIDE DEF w
  <2> QED
    BY <1>3, <2>2, <2>3, <2>5, <2>6, <2>7
<1>4. CASE AppliedElsewhere(r)
  <2> DEFINE w == [turn[r] EXCEPT !.at = "mark"]
  <2>1. /\ w \in Turn /\ w.at = "mark" /\ w.event = turn[r].event /\ turn[r].at = "retrieve"
        /\ turn' = [turn EXCEPT ![r] = w]
    BY <1>0, <1>4 DEF Turn, AppliedElsewhere
  <2>2. turn'[r] = w /\ \A q \in Runners \ {r} : turn'[q] = turn[q]
    BY <1>0, <2>1
  <2>3. turn' \in [Runners -> Turn]
    BY <1>0, <2>1
  <2>4. GoesOn(r)
    BY <1>1, <2>1, <2>2, <2>3 DEF GoesOn
  <2>5. ~Retrieve(r)
    <3>1. Retrieve(r) =>
             turn' = [turn EXCEPT ![r].at = "write", ![r].base = count[OwnerOf(r)]]
      BY DEF Retrieve
    <3>2. turn' = [turn EXCEPT ![r].at = "write", ![r].base = count[OwnerOf(r)]]
          => turn'[r].at = "write"
      BY <1>0 DEF Turn
    <3> QED
      BY <2>1, <2>2, <3>1, <3>2
  <2>6. ~Guard(r) /\ ~WriteProfile(r)
    BY <2>1 DEF Guard, WriteProfile
  <2> HIDE DEF w
  <2> QED
    BY <1>4, <2>1, <2>2, <2>4, <2>5, <2>6
<1>5. CASE WriteProfile(r)
  <2> DEFINE w == [turn[r] EXCEPT !.at = "mark"]
  <2>1. /\ w \in Turn /\ w.at = "mark" /\ w.event = turn[r].event /\ turn[r].at = "write"
        /\ turn' = [turn EXCEPT ![r] = w]
    BY <1>0, <1>5 DEF Turn, WriteProfile
  <2> QED
    BY <1>0, <1>1, <1>5, <2>1 DEF GoesOn, Guard, AppliedElsewhere, Retrieve
<1> QED
  BY <1>2, <1>3, <1>4, <1>5

LEMMA ListenerSteps ==
    ASSUME TypeOK, LockInv, NEW e \in Events, ListenerStep(e)
    PROVE  TasteTypeOK' /\ LockInv'
<1> e \in Runners /\ UserOf[e] \in Users /\ TrackOf[e] \in Tracks /\ OwnerOf(e) = UserOf[e]
  BY TasteAssumption, Owners DEF Runners
<1> USE DEF eventVars, addVars, serialVars, profileVars, historyVars
<1>1. CASE Record(e)
  <2>1. lock' = [lock EXCEPT ![UserOf[e]] = Append(@, e)] /\ UNCHANGED turn
    BY <1>1 DEF Record
  <2>2. lock' \in [Users -> Seq(Runners)]
    BY <2>1 DEF TypeOK
  <2>3. LockInv'
    <3>1. \A u \in Users : lock'[u] = lock[u]
                           \/ \E x \in Runners : lock'[u] = Append(lock[u], x)
      BY <2>1 DEF TypeOK
    <3> QED
      BY <2>1, <3>1, AskingKeepsLock
  <2>4. adding' \in [Events -> {"none", "saving", "asking"}]
    BY <1>1 DEF Record, TypeOK
  <2> QED
    BY <1>1, <2>2, <2>3, <2>4 DEF Record, TypeOK, TasteTypeOK
<1>2. CASE SaveEvent(e)
  <2>0. turn[e].at = "none" /\ InTurn(e)
    BY <1>2 DEF SaveEvent, MayRun, InTurn
  <2>1. UNCHANGED <<applied, addVars, batch, profileVars, unlucky, late, overlapped>>
    BY <1>2 DEF SaveEvent
  <2>2. CASE saved' = Append(saved, e) /\ turn' = [turn EXCEPT ![e] = Trying(e)]
             /\ UNCHANGED <<lock, lost>>
    <3>1. Trying(e) \in Turn
      BY Defaults DEF Trying
    <3>2. turn' \in [Runners -> Turn] /\ LockInv'
      BY <2>0, <2>2, <3>1, TrialKeepsLock
    <3>3. saved' \in Seq(Events)
      BY <2>2 DEF TypeOK
    <3> QED
      BY <2>1, <2>2, <3>2, <3>3 DEF TypeOK, TasteTypeOK
  <2>3. CASE SaveFails(e)
    <3>1. lock' = Released(e) /\ lost' = lost \cup {e} /\ UNCHANGED <<saved, turn>>
      BY <2>3 DEF SaveFails
    <3>2. lock' \in [Users -> Seq(Runners)] /\ LockInv'
      BY <2>0, <3>1, ReleaseKeepsLock
    <3> QED
      BY <2>1, <3>1, <3>2 DEF TypeOK, TasteTypeOK
  <2> QED
    BY <1>2, <2>2, <2>3 DEF SaveEvent
<1>3. CASE AddLooks(e) \/ AddStores(e)
  <2>1. UNCHANGED <<eventVars, serialVars, profileVars, historyVars>>
    BY <1>3 DEF AddLooks, AddStores
  <2>2. /\ adding' \in [Events -> {"none", "saving", "asking"}]
        /\ disliked' \subseteq Users \X Tracks
    <3>1. CASE AddLooks(e)
      BY <3>1 DEF AddLooks, TypeOK
    <3>2. CASE AddStores(e)
      <4>1. \E a \in {"asking", "none"} : adding' = [adding EXCEPT ![e] = a]
        BY <3>2 DEF AddStores
      <4>2. UNCHANGED disliked \/ disliked' = disliked \cup {<<UserOf[e], TrackOf[e]>>}
        BY <3>2 DEF AddStores
      <4> QED
        BY <4>1, <4>2 DEF TypeOK
    <3> QED
      BY <1>3, <3>1, <3>2
  <2>3. LockInv'
    BY <2>1 DEF LockInv, InTurn, OwnerOf
  <2> QED
    BY <2>1, <2>2, <2>3 DEF TypeOK, TasteTypeOK
<1> QED
  BY <1>1, <1>2, <1>3 DEF ListenerStep

LEMMA ConsumerSteps ==
    ASSUME TypeOK, LockInv, ConsumerStep
    PROVE  TasteTypeOK' /\ LockInv'
<1> USE DEF eventVars, addVars, serialVars, profileVars, historyVars
<1>1. ASSUME NEW t \in Tracks, OnDoneTaste(t)
      PROVE  TasteTypeOK' /\ LockInv'
  <2>1. \A u \in Users : Pending(t, u) \subseteq Events /\ u \in Runners
    BY DEF Pending, TypeOK, Range, Runners
  <2>2. batch' \in [Users -> SUBSET Events] /\ unlucky' \subseteq Events
    BY <1>1, <2>1 DEF OnDoneTaste, TypeOK
  <2>3. /\ lock' \in [Users -> Seq(Runners)]
        /\ \A u \in Users : lock'[u] = lock[u]
                            \/ \E x \in Runners : lock'[u] = Append(lock[u], x)
    <3>1. CASE UNCHANGED lock
      BY <3>1 DEF TypeOK
    <3>2. CASE lock' = [u \in Users |->
                  IF Pending(t, u) = {} THEN lock[u] ELSE Append(lock[u], u)]
      <4>1. ASSUME NEW u \in Users
            PROVE  /\ lock'[u] = lock[u] \/ lock'[u] = Append(lock[u], u)
                   /\ lock[u] \in Seq(Runners) /\ u \in Runners
        BY <2>1, <3>2 DEF TypeOK
      <4>2. \A u \in Users : lock'[u] \in Seq(Runners)
        BY <4>1, SMTT(30)
      <4> QED
        BY <3>2, <4>1, <4>2
    <3> QED
      BY <1>1, <3>1, <3>2 DEF OnDoneTaste
  <2>4. LockInv'
    BY <1>1, <2>3, AskingKeepsLock DEF OnDoneTaste
  <2> QED
    BY <1>1, <2>2, <2>3, <2>4 DEF OnDoneTaste, TypeOK, TasteTypeOK, Turn
<1>2. ASSUME NEW u \in Users, NEW t \in Tracks, RemoveDislike(u, t)
      PROVE  TasteTypeOK' /\ LockInv'
  BY <1>2, AskingKeepsLock DEF RemoveDislike, TypeOK, TasteTypeOK, Turn
<1>3. ASSUME NEW u \in Users, NextInBatch(u)
      PROVE  TasteTypeOK' /\ LockInv'
  <2>1. u \in Runners /\ OwnerOf(u) = u /\ InTurn(u) /\ turn[u].at = "none"
        /\ lock[u] \in Seq(Runners) /\ lock[u] # <<>> /\ Head(lock[u]) = u
    BY <1>3, Owners DEF NextInBatch, MayRun, InTurn, Runners, TypeOK
  <2>2. CASE batch[u] = {}
    <3>1. lock' = Released(u) /\ UNCHANGED <<batch, turn>>
      BY <1>3, <2>2 DEF NextInBatch
    <3>2. lock' \in [Users -> Seq(Runners)] /\ LockInv'
      BY <2>1, <3>1, ReleaseKeepsLock
    <3> QED
      BY <1>3, <3>1, <3>2 DEF NextInBatch, TypeOK, TasteTypeOK
  <2>3. CASE batch[u] # {}
    <3>1. PICK e \in batch[u] : /\ turn' = [turn EXCEPT ![u] = Trying(e)]
                                /\ batch' = [batch EXCEPT ![u] = @ \ {e}]
                                /\ UNCHANGED lock
      BY <1>3, <2>3 DEF NextInBatch
    <3>2. e \in Events /\ batch' \in [Users -> SUBSET Events]
      BY <3>1 DEF TypeOK
    <3>3. Trying(e) \in Turn
      BY <3>2, Defaults DEF Trying
    <3>4. turn' \in [Runners -> Turn] /\ LockInv'
      BY <1>3, <2>1, <3>1, <3>3, TrialKeepsLock DEF NextInBatch
    <3> QED
      BY <1>3, <3>1, <3>2, <3>4 DEF NextInBatch, TypeOK, TasteTypeOK
  <2> QED
    BY <2>2, <2>3
<1> QED
  BY <1>1, <1>2, <1>3 DEF ConsumerStep

LEMMA TrialSteps ==
    ASSUME TypeOK, LockInv, NEW r \in Runners, Trial(r)
    PROVE  TasteTypeOK' /\ LockInv'
<1> USE DEF eventVars, addVars, serialVars, profileVars, historyVars
<1>a. turn[r].at # "none"
  BY DEF Trial, Guard, Retrieve, NotApplied, AppliedElsewhere, WriteProfile, MarkApplied,
         TrialThrows
<1>b. /\ turn[r] \in Turn /\ InTurn(r) /\ OwnerOf(r) \in Users
      /\ turn[r].event \in Events /\ turn[r].base \in Nat
  BY <1>a, Owners DEF TypeOK, Turn, LockInv
<1>1. CASE Guard(r) \/ Retrieve(r) \/ AppliedElsewhere(r) \/ WriteProfile(r)
  <2>1. PICK w \in Turn : turn' = [turn EXCEPT ![r] = w]
    BY <1>1, TrialGoesOn
  <2>2. UNCHANGED lock
    BY <1>1, TrialGoesOn DEF GoesOn
  <2>3. turn' \in [Runners -> Turn] /\ LockInv'
    BY <1>b, <2>1, <2>2, TrialKeepsLock
  <2>4. lost' \subseteq Events /\ overlapped' \subseteq Users
    BY <1>1, <1>b DEF Guard, Retrieve, AppliedElsewhere, WriteProfile, TypeOK
  <2>5. count' \in [Users -> Nat] /\ folded' \in [Users -> Seq(Events)]
    <3>1. CASE WriteProfile(r)
      <4>1. /\ turn[r].base + 1 \in Nat
            /\ Append(folded[OwnerOf(r)], turn[r].event) \in Seq(Events)
        BY <1>b DEF TypeOK
      <4>2. /\ count' = [count EXCEPT ![OwnerOf(r)] = turn[r].base + 1]
            /\ folded' = [folded EXCEPT ![OwnerOf(r)] =
                              Append(folded[OwnerOf(r)], turn[r].event)]
        BY <3>1 DEF WriteProfile
      <4> QED
        BY <4>1, <4>2 DEF TypeOK
    <3>2. CASE Guard(r) \/ Retrieve(r) \/ AppliedElsewhere(r)
      BY <3>2 DEF Guard, Retrieve, AppliedElsewhere, TypeOK
    <3> QED
      BY <1>1, <3>1, <3>2
  <2>6. UNCHANGED <<saved, applied, disliked, adding, lock, batch, stray, unlucky, late>>
    BY <1>1 DEF Guard, Retrieve, AppliedElsewhere, WriteProfile
  <2> QED
    BY <2>3, <2>4, <2>5, <2>6 DEF TypeOK, TasteTypeOK
<1>2. CASE NotApplied(r) \/ MarkApplied(r) \/ TrialThrows(r)
  <2>1. EndTurn(r) /\ UNCHANGED <<saved, disliked, adding, batch, count, folded, late, lost,
                                 overlapped>>
    BY <1>2 DEF NotApplied, MarkApplied, TrialThrows
  <2>2. applied' \subseteq Events /\ unlucky' \subseteq Events
    BY <1>2, <1>b DEF NotApplied, MarkApplied, TrialThrows, TypeOK
  <2>3. stray' \in [Strays -> Turn]
    BY <1>2, <1>b DEF NotApplied, MarkApplied, TrialThrows, TypeOK
  <2>4. turn' \in [Runners -> Turn] /\ lock' \in [Users -> Seq(Runners)]
    BY <1>a, <2>1, EndTurnShape
  <2>5. LockInv'
    BY <1>a, <2>1, EndTurnKeepsLock
  <2> QED
    BY <2>1, <2>2, <2>3, <2>4, <2>5 DEF TypeOK, TasteTypeOK
<1> QED
  BY <1>1, <1>2 DEF Trial

LEMMA StraySteps ==
    ASSUME TypeOK, LockInv, NEW n \in Strays, StrayStep(n)
    PROVE  TasteTypeOK' /\ LockInv'
<1> USE DEF eventVars, addVars, serialVars, profileVars, historyVars
<1>1. /\ stray[n] \in Turn /\ stray[n].event \in Events /\ UserOf[stray[n].event] \in Users
      /\ stray[n].base \in Nat /\ count[UserOf[stray[n].event]] \in Nat
      /\ NoTurn \in Turn
  BY Defaults, TasteAssumption DEF TypeOK, Turn
<1>2. UNCHANGED <<saved, applied, disliked, adding, lock, batch, turn, unlucky, lost>>
  BY DEF StrayStep, StrayRetrieves, StrayWrites, StrayEnds
<1>3. /\ count' \in [Users -> Nat] /\ folded' \in [Users -> Seq(Events)]
      /\ late' \subseteq Events /\ overlapped' \subseteq Users
  <2> DEFINE u == UserOf[stray[n].event]
  <2>1. CASE StrayWrites(n)
    <3>1. stray[n].base + 1 \in Nat /\ Append(folded[u], stray[n].event) \in Seq(Events)
      BY <1>1 DEF TypeOK
    <3>2. /\ count' = [count EXCEPT ![u] = stray[n].base + 1]
          /\ folded' = [folded EXCEPT ![u] = Append(folded[u], stray[n].event)]
          /\ late' = late \cup {stray[n].event} /\ UNCHANGED overlapped
      BY <2>1 DEF StrayWrites
    <3> QED
      BY <1>1, <3>1, <3>2 DEF TypeOK
  <2>2. CASE StrayRetrieves(n)
    BY <1>1, <2>2 DEF StrayRetrieves, TypeOK
  <2>3. CASE StrayEnds(n)
    BY <1>1, <2>3 DEF StrayEnds, TypeOK
  <2> QED
    BY <2>1, <2>2, <2>3 DEF StrayStep
<1>4. stray' \in [Strays -> Turn]
  <2>1. CASE StrayRetrieves(n)
    BY <1>1, <2>1 DEF StrayRetrieves, TypeOK, Turn
  <2>2. CASE StrayWrites(n) \/ StrayEnds(n)
    BY <1>1, <2>2 DEF StrayWrites, StrayEnds, TypeOK
  <2> QED
    BY <2>1, <2>2 DEF StrayStep
<1>5. LockInv'
  BY <1>2 DEF LockInv, InTurn, OwnerOf
<1> QED
  BY <1>2, <1>3, <1>4, <1>5 DEF TypeOK, TasteTypeOK

-------------------------------------------------------------------------------
(* Updates of a profile. *)

(* Where updates of a profile only come to an end, its count stays right.      *)
LEMMA FewerUpdates ==
    ASSUME NEW u \in Users, CountsOf(u), count'[u] = count[u], folded'[u] = folded[u],
           \A r \in Runners : TurnUpdates(r, u)' =>
              TurnUpdates(r, u) /\ turn'[r].base = turn[r].base,
           \A n \in Strays : StrayUpdates(n, u)' =>
              StrayUpdates(n, u) /\ stray'[n].base = stray[n].base
    PROVE  CountsOf(u)'
<1>1. count'[u] = Len(folded'[u])
  BY DEF CountsOf
<1>2. ASSUME NEW r \in Runners, TurnUpdates(r, u)'
      PROVE  turn'[r].base = count'[u] /\ \A n \in Strays : ~StrayUpdates(n, u)'
  BY <1>2 DEF CountsOf
<1>3. ASSUME NEW n \in Strays, StrayUpdates(n, u)'
      PROVE  stray'[n].base = count'[u] /\ \A m \in Strays : StrayUpdates(m, u)' => m = n
  BY <1>3 DEF CountsOf
<1> QED
  BY <1>1, <1>2, <1>3 DEF CountsOf

(* A turn that is about to write is the only one of its user.                  *)
LEMMA OneUpdates ==
    ASSUME LockInv, NEW r \in Runners, turn[r].at # "none"
    PROVE  \A q \in Runners : TurnUpdates(q, OwnerOf(r)) => q = r
BY DEF LockInv, InTurn, TurnUpdates

LEMMA QuietProfile ==
    ASSUME TypeOK, ProfileInv, UNCHANGED <<stray, count, folded, overlapped>>,
           \A q \in Runners : turn'[q].at = "write" => turn'[q] = turn[q]
    PROVE  ProfileInv'
<1> SUFFICES ASSUME NEW u \in Users, u \notin overlapped PROVE CountsOf(u)'
  BY DEF ProfileInv
<1>1. CountsOf(u)
  BY DEF ProfileInv
<1>2. \A r \in Runners : TurnUpdates(r, u)' =>
         TurnUpdates(r, u) /\ turn'[r].base = turn[r].base
  BY DEF TurnUpdates, OwnerOf
<1>3. \A n \in Strays : StrayUpdates(n, u)' =>
         StrayUpdates(n, u) /\ stray'[n].base = stray[n].base
  BY DEF StrayUpdates
<1> QED
  BY <1>1, <1>2, <1>3, FewerUpdates

(* An update by a turn: it reads the count, ...                                *)
LEMMA RetrieveKeepsProfile ==
    ASSUME TypeOK, LockInv, ProfileInv, NEW r \in Runners, Retrieve(r)
    PROVE  ProfileInv'
<1> SUFFICES ASSUME NEW u \in Users, u \notin overlapped' PROVE CountsOf(u)'
  BY DEF ProfileInv
<1>1. /\ UNCHANGED <<stray, count, folded>> /\ turn[r].at = "retrieve"
      /\ u = OwnerOf(r) => ~UpdatedByStray(u)
      /\ u \notin overlapped
  BY DEF Retrieve, profileVars
<1>2. /\ turn'[r].base = count[OwnerOf(r)]
      /\ \A q \in Runners \ {r} : turn'[q] = turn[q]
  BY TrialGoesOn DEF GoesOn
<1>3. CountsOf(u)
  BY <1>1 DEF ProfileInv
<1>4. \A n \in Strays : StrayUpdates(n, u)' <=> StrayUpdates(n, u)
  BY <1>1 DEF StrayUpdates
<1>5. CASE u = OwnerOf(r)
  <2>1. \A n \in Strays : ~StrayUpdates(n, u)'
    BY <1>1, <1>4, <1>5 DEF UpdatedByStray, StrayUpdates
  <2>2. \A q \in Runners : TurnUpdates(q, u)' => q = r
    BY <1>1, <1>2, <1>5, OneUpdates DEF TurnUpdates, OwnerOf
  <2>3. count'[u] = Len(folded'[u])
    BY <1>1, <1>3 DEF CountsOf
  <2> QED
    BY <1>1, <1>2, <1>5, <2>1, <2>2, <2>3 DEF CountsOf
<1>6. CASE u # OwnerOf(r)
  <2>1. \A q \in Runners : TurnUpdates(q, u)' =>
           TurnUpdates(q, u) /\ turn'[q].base = turn[q].base
    BY <1>2, <1>6 DEF TurnUpdates, OwnerOf
  <2>2. \A n \in Strays : StrayUpdates(n, u)' =>
           StrayUpdates(n, u) /\ stray'[n].base = stray[n].base
    BY <1>1 DEF StrayUpdates
  <2> QED
    BY <1>1, <1>3, <2>1, <2>2, FewerUpdates
<1> QED
  BY <1>5, <1>6

(* ... and writes it when it is still what it has read.                        *)
LEMMA WriteKeepsProfile ==
    ASSUME TypeOK, LockInv, ProfileInv, NEW r \in Runners, WriteProfile(r)
    PROVE  ProfileInv'
<1> SUFFICES ASSUME NEW u \in Users, u \notin overlapped' PROVE CountsOf(u)'
  BY DEF ProfileInv
<1> DEFINE v == OwnerOf(r)
<1>1. /\ UNCHANGED <<stray, overlapped>> /\ turn[r].at = "write"
      /\ count' = [count EXCEPT ![v] = turn[r].base + 1]
      /\ folded' = [folded EXCEPT ![v] = Append(@, turn[r].event)]
  BY DEF WriteProfile, historyVars
<1>2. turn'[r].at = "mark" /\ \A q \in Runners \ {r} : turn'[q] = turn[q]
  BY TrialGoesOn DEF GoesOn
<1>3. CountsOf(u) /\ v \in Users
  BY <1>1, Owners DEF ProfileInv
<1>4. \A n \in Strays : StrayUpdates(n, u)' <=> StrayUpdates(n, u)
  BY <1>1 DEF StrayUpdates
<1>5. CASE u = v
  <2>1. turn[r].base = count[u] /\ \A n \in Strays : ~StrayUpdates(n, u)'
    BY <1>1, <1>3, <1>4, <1>5 DEF CountsOf, TurnUpdates
  <2>2. \A q \in Runners : ~TurnUpdates(q, u)'
    BY <1>1, <1>2, <1>5, OneUpdates DEF TurnUpdates, OwnerOf
  <2>3. count'[u] = Len(folded'[u])
    <3>1. /\ turn[r].event \in Events /\ folded[u] \in Seq(Events)
          /\ count'[u] = turn[r].base + 1 /\ folded'[u] = Append(folded[u], turn[r].event)
      BY <1>1, <1>5 DEF TypeOK, Turn
    <3>2. Len(Append(folded[u], turn[r].event)) = Len(folded[u]) + 1
      BY <3>1
    <3> QED
      BY <1>3, <2>1, <3>1, <3>2 DEF CountsOf
  <2> QED
    BY <2>1, <2>2, <2>3 DEF CountsOf
<1>6. CASE u # v
  <2>1. count'[u] = count[u] /\ folded'[u] = folded[u]
    BY <1>1, <1>6 DEF TypeOK
  <2>2. \A q \in Runners : TurnUpdates(q, u)' =>
           TurnUpdates(q, u) /\ turn'[q].base = turn[q].base
    BY <1>2, <1>6 DEF TurnUpdates, OwnerOf
  <2>3. \A n \in Strays : StrayUpdates(n, u)' =>
           StrayUpdates(n, u) /\ stray'[n].base = stray[n].base
    BY <1>1 DEF StrayUpdates
  <2> QED
    BY <1>3, <2>1, <2>2, <2>3, FewerUpdates
<1> QED
  BY <1>5, <1>6

(* A turn that fails may leave its update behind: there is still one.          *)
LEMMA ThrowsKeepsProfile ==
    ASSUME TypeOK, LockInv, ProfileInv, OwnInv, NEW r \in Runners, TrialThrows(r)
    PROVE  ProfileInv'
<1> SUFFICES ASSUME NEW u \in Users, u \notin overlapped' PROVE CountsOf(u)'
  BY DEF ProfileInv
<1>1. /\ UNCHANGED <<count, folded, overlapped>> /\ turn[r].at # "none" /\ EndTurn(r)
  BY DEF TrialThrows
<1>2. turn'[r].at = "none" /\ \A q \in Runners \ {r} : turn'[q] = turn[q]
  <2>1. turn' = [turn EXCEPT ![r] = NoTurn] /\ turn'[r].at = "none"
    BY <1>1, EndTurnShape
  <2> QED
    BY <2>1 DEF TypeOK
<1>3. CountsOf(u)
  BY <1>1 DEF ProfileInv
<1>4. \A q \in Runners : TurnUpdates(q, u)' =>
         TurnUpdates(q, u) /\ turn'[q].base = turn[q].base
  BY <1>2 DEF TurnUpdates, OwnerOf
<1>5. ASSUME UNCHANGED stray
      PROVE  CountsOf(u)'
  <2>1. \A n \in Strays : StrayUpdates(n, u)' =>
           StrayUpdates(n, u) /\ stray'[n].base = stray[n].base
    BY <1>5 DEF StrayUpdates
  <2> QED
    BY <1>1, <1>3, <1>4, <2>1, FewerUpdates
<1>6. ASSUME NEW s, stray' = [stray EXCEPT ![s] = turn[r]]
      PROVE  CountsOf(u)'
  <2>1. \A n \in Strays : n # s => stray'[n] = stray[n]
    BY <1>6 DEF TypeOK
  <2>2. \A n \in Strays : n = s => stray'[n] = turn[r]
    BY <1>6 DEF TypeOK
  <2>3. CASE TurnUpdates(r, u)
    <3>1. turn[r].base = count[u] /\ \A n \in Strays : ~StrayUpdates(n, u)
      BY <1>3, <2>3 DEF CountsOf
    <3>2. ASSUME NEW n \in Strays, StrayUpdates(n, u)'
          PROVE  n = s
      BY <2>1, <3>1, <3>2 DEF StrayUpdates
    <3>3. ASSUME NEW n \in Strays, StrayUpdates(n, u)'
          PROVE  stray'[n].base = count'[u] /\ \A m \in Strays : StrayUpdates(m, u)' => m = n
      BY <1>1, <2>2, <3>1, <3>2, <3>3
    <3>4. \A q \in Runners : ~TurnUpdates(q, u)'
      BY <1>1, <1>2, <1>4, <2>3, OneUpdates DEF TurnUpdates
    <3> QED
      BY <1>1, <1>3, <3>3, <3>4 DEF CountsOf
  <2>4. CASE ~TurnUpdates(r, u)
    <3>1. UserOf[turn[r].event] = OwnerOf(r)
      BY <1>1 DEF OwnInv
    <3>2. ASSUME NEW n \in Strays, StrayUpdates(n, u)'
          PROVE  StrayUpdates(n, u) /\ stray'[n].base = stray[n].base
      BY <2>1, <2>2, <2>4, <3>1, <3>2 DEF StrayUpdates, TurnUpdates
    <3> QED
      BY <1>1, <1>3, <1>4, <3>2, FewerUpdates
  <2> QED
    BY <2>3, <2>4
<1> QED
  BY <1>5, <1>6 DEF TrialThrows

(* A stray update: it reads the count while nobody is about to write, ...      *)
LEMMA StrayRetrievesKeepsProfile ==
    ASSUME TypeOK, ProfileInv, NEW n \in Strays, StrayRetrieves(n)
    PROVE  ProfileInv'
<1> SUFFICES ASSUME NEW u \in Users, u \notin overlapped' PROVE CountsOf(u)'
  BY DEF ProfileInv
<1> DEFINE v == UserOf[stray[n].event]
<1>1. /\ UNCHANGED <<count, folded, turn>>
      /\ stray' = [stray EXCEPT ![n].at = "write", ![n].base = count[v]]
      /\ u \notin overlapped /\ (u = v => ~UpdatedByTurn(u) /\ ~UpdatedByStray(u))
  BY DEF StrayRetrieves, serialVars
<1>2. /\ stray'[n].event = stray[n].event /\ stray'[n].base = count[v]
      /\ \A m \in Strays \ {n} : stray'[m] = stray[m]
  BY <1>1 DEF TypeOK, Turn
<1>3. CountsOf(u)
  BY <1>1 DEF ProfileInv
<1>4. CASE u = v
  <2>1. \A r \in Runners : ~TurnUpdates(r, u)'
    BY <1>1, <1>4 DEF UpdatedByTurn, TurnUpdates, OwnerOf
  <2>2. \A m \in Strays : StrayUpdates(m, u)' => m = n
    BY <1>1, <1>2, <1>4 DEF UpdatedByStray, StrayUpdates
  <2>3. count'[u] = Len(folded'[u])
    BY <1>1, <1>3 DEF CountsOf
  <2> QED
    BY <1>1, <1>2, <1>4, <2>1, <2>2, <2>3 DEF CountsOf
<1>5. CASE u # v
  <2>1. \A q \in Runners : TurnUpdates(q, u)' =>
           TurnUpdates(q, u) /\ turn'[q].base = turn[q].base
    BY <1>1 DEF TurnUpdates, OwnerOf
  <2>2. \A m \in Strays : StrayUpdates(m, u)' =>
           StrayUpdates(m, u) /\ stray'[m].base = stray[m].base
    BY <1>2, <1>5 DEF StrayUpdates
  <2> QED
    BY <1>1, <1>3, <2>1, <2>2, FewerUpdates
<1> QED
  BY <1>4, <1>5

(* ... and writes it when it is still what it has read.                        *)
LEMMA StrayWritesKeepsProfile ==
    ASSUME TypeOK, ProfileInv, NEW n \in Strays, StrayWrites(n)
    PROVE  ProfileInv'
<1> SUFFICES ASSUME NEW u \in Users, u \notin overlapped' PROVE CountsOf(u)'
  BY DEF ProfileInv
<1> DEFINE v == UserOf[stray[n].event]
<1>1. /\ UNCHANGED <<turn, overlapped>> /\ stray[n].at = "write"
      /\ stray' = [stray EXCEPT ![n] = NoTurn]
      /\ count' = [count EXCEPT ![v] = stray[n].base + 1]
      /\ folded' = [folded EXCEPT ![v] = Append(@, stray[n].event)]
  BY DEF StrayWrites, serialVars
<1>2. /\ stray'[n].at = "none" /\ \A m \in Strays \ {n} : stray'[m] = stray[m]
      /\ v \in Users /\ stray[n].event \in Events
  BY <1>1, Defaults, TasteAssumption DEF TypeOK, Turn
<1>3. CountsOf(u)
  BY <1>1 DEF ProfileInv
<1>4. \A r \in Runners : TurnUpdates(r, u)' <=> TurnUpdates(r, u)
  BY <1>1 DEF TurnUpdates, OwnerOf
<1>5. CASE u = v
  <2>1. stray[n].base = count[u] /\ \A m \in Strays : ~StrayUpdates(m, u)'
    BY <1>1, <1>2, <1>3, <1>5 DEF CountsOf, StrayUpdates
  <2>2. \A q \in Runners : ~TurnUpdates(q, u)'
    BY <1>1, <1>3, <1>4, <1>5 DEF CountsOf, StrayUpdates
  <2>3. count'[u] = Len(folded'[u])
    <3>1. /\ folded[u] \in Seq(Events) /\ count'[u] = stray[n].base + 1
          /\ folded'[u] = Append(folded[u], stray[n].event)
      BY <1>1, <1>5 DEF TypeOK
    <3>2. Len(Append(folded[u], stray[n].event)) = Len(folded[u]) + 1
      BY <1>2, <3>1
    <3> QED
      BY <1>3, <2>1, <3>1, <3>2 DEF CountsOf
  <2> QED
    BY <2>1, <2>2, <2>3 DEF CountsOf
<1>6. CASE u # v
  <2>1. count'[u] = count[u] /\ folded'[u] = folded[u]
    BY <1>1, <1>6 DEF TypeOK
  <2>2. \A q \in Runners : TurnUpdates(q, u)' =>
           TurnUpdates(q, u) /\ turn'[q].base = turn[q].base
    BY <1>1 DEF TurnUpdates, OwnerOf
  <2>3. \A m \in Strays : StrayUpdates(m, u)' =>
           StrayUpdates(m, u) /\ stray'[m].base = stray[m].base
    BY <1>2 DEF StrayUpdates
  <2> QED
    BY <1>3, <2>1, <2>2, <2>3, FewerUpdates
<1> QED
  BY <1>5, <1>6

LEMMA StrayEndsKeepsProfile ==
    ASSUME TypeOK, ProfileInv, NEW n \in Strays, StrayEnds(n)
    PROVE  ProfileInv'
<1> SUFFICES ASSUME NEW u \in Users, u \notin overlapped' PROVE CountsOf(u)'
  BY DEF ProfileInv
<1>1. /\ UNCHANGED <<turn, count, folded, overlapped>>
      /\ stray' = [stray EXCEPT ![n] = NoTurn]
  BY DEF StrayEnds, serialVars, historyVars
<1>2. stray'[n].at = "none" /\ \A m \in Strays \ {n} : stray'[m] = stray[m]
  BY <1>1, Defaults DEF TypeOK
<1>3. CountsOf(u)
  BY <1>1 DEF ProfileInv
<1>4. \A q \in Runners : TurnUpdates(q, u)' =>
         TurnUpdates(q, u) /\ turn'[q].base = turn[q].base
  BY <1>1 DEF TurnUpdates, OwnerOf
<1>5. \A m \in Strays : StrayUpdates(m, u)' =>
         StrayUpdates(m, u) /\ stray'[m].base = stray[m].base
  BY <1>2 DEF StrayUpdates
<1> QED
  BY <1>1, <1>3, <1>4, <1>5, FewerUpdates

LEMMA ProfileNext ==
    ASSUME TypeOK, LockInv, ProfileInv, OwnInv, TasteStep
    PROVE  ProfileInv'
<1> USE DEF profileVars, historyVars, serialVars
<1>1. ASSUME NEW r \in Runners, NEW e, turn' = [turn EXCEPT ![r] = Trying(e)]
      PROVE  \A q \in Runners : turn'[q].at = "write" => turn'[q] = turn[q]
  BY <1>1 DEF Trying, TypeOK
<1>2. ASSUME NEW e \in Events, ListenerStep(e)
      PROVE  ProfileInv'
  <2>1. UNCHANGED <<stray, count, folded, overlapped>>
    BY <1>2 DEF ListenerStep, AddLooks, AddStores, Record, SaveEvent
  <2>2. UNCHANGED turn \/ (e \in Runners /\ turn' = [turn EXCEPT ![e] = Trying(e)])
    BY <1>2 DEF ListenerStep, AddLooks, AddStores, Record, SaveEvent, SaveFails, Runners
  <2> QED
    BY <1>1, <2>1, <2>2, QuietProfile
<1>3. CASE ConsumerStep
  <2>1. UNCHANGED <<stray, count, folded, overlapped>>
    BY <1>3 DEF ConsumerStep, OnDoneTaste, NextInBatch, RemoveDislike
  <2>2. UNCHANGED turn
        \/ \E u \in Users : u \in Runners /\ \E e \in batch[u] :
              turn' = [turn EXCEPT ![u] = Trying(e)]
    BY <1>3 DEF ConsumerStep, OnDoneTaste, NextInBatch, RemoveDislike, Runners
  <2> QED
    BY <1>1, <2>1, <2>2, QuietProfile
<1>4. ASSUME NEW r \in Runners, Guard(r) \/ AppliedElsewhere(r)
      PROVE  ProfileInv'
  <2>1. UNCHANGED <<stray, count, folded, overlapped>>
    BY <1>4 DEF Guard, AppliedElsewhere
  <2>2. GoesOn(r) /\ turn'[r].at \in {"retrieve", "mark"}
    BY <1>4, TrialGoesOn
  <2>3. \A q \in Runners : turn'[q].at = "write" => turn'[q] = turn[q]
    BY <2>2 DEF GoesOn
  <2> QED
    BY <2>1, <2>3, QuietProfile
<1>5. ASSUME NEW r \in Runners, NotApplied(r) \/ MarkApplied(r)
      PROVE  ProfileInv'
  <2>1. UNCHANGED <<stray, count, folded, overlapped>> /\ EndTurn(r) /\ turn[r].at # "none"
    BY <1>5 DEF NotApplied, MarkApplied
  <2>2. turn' = [turn EXCEPT ![r] = NoTurn] /\ turn'[r].at = "none"
    BY <2>1, EndTurnShape
  <2>3. \A q \in Runners : turn'[q].at = "write" => turn'[q] = turn[q]
    BY <2>2 DEF TypeOK
  <2> QED
    BY <2>1, <2>3, QuietProfile
<1>6. ASSUME NEW r \in Runners, Trial(r)
      PROVE  ProfileInv'
  BY <1>4, <1>5, <1>6, RetrieveKeepsProfile, WriteKeepsProfile, ThrowsKeepsProfile DEF Trial
<1>7. ASSUME NEW n \in Strays, StrayStep(n)
      PROVE  ProfileInv'
  BY <1>7, StrayRetrievesKeepsProfile, StrayWritesKeepsProfile, StrayEndsKeepsProfile
  DEF StrayStep
<1> QED
  BY <1>2, <1>3, <1>6, <1>7 DEF TasteStep

(* Vectors are not taken back: what is folded, or about to be, had one.        *)
LEMMA PipelineVectors ==
    ASSUME IndexingTypeOK, PipelineStep
    PROVE  mert \subseteq mert'
<1> USE DEF qVars, workerVars
<1>1. CASE \E t \in Tracks : EnsureTrackIndexed(t) \/ OnUploaded(t) \/ OnDone(t)
  BY <1>1 DEF EnsureTrackIndexed, OnUploaded, OnDone
<1>2. CASE \E t \in Tracks : TriggerCached(t) \/ TriggerUpload(t) \/ TriggerFails(t)
                                \/ StoredByStream(t) \/ Fetch(t)
  BY <1>2 DEF TriggerCached, TriggerUpload, TriggerFails, StoredByStream, Fetch
<1>3. CASE Reap \/ CheckVectors \/ UpsertMert \/ UpsertClap \/ TaskFails \/ PublishDone
  BY <1>3 DEF Reap, CheckVectors, UpsertMert, UpsertClap, TaskFails, PublishDone
<1> QED
  BY <1>1, <1>2, <1>3 DEF PipelineStep, WorkerStep

LEMMA FoldsKnown ==
    ASSUME TypeOK, FoldInv, UNCHANGED mert,
           \A u \in Users : folded'[u] = folded[u]
              \/ \E e \in Events : TrackOf[e] \in mert /\ folded'[u] = Append(folded[u], e),
           \A r \in Runners : turn'[r].at = "write" => TrackOf[turn'[r].event] \in mert,
           \A n \in Strays : stray'[n].at = "write" => TrackOf[stray'[n].event] \in mert
    PROVE  FoldInv'
<1>1. ASSUME NEW u \in Users, NEW i \in 1..Len(folded'[u])
      PROVE  TrackOf[folded'[u][i]] \in mert
  <2>1. CASE folded'[u] = folded[u]
    BY <1>1, <2>1 DEF FoldInv
  <2>2. ASSUME NEW e \in Events, TrackOf[e] \in mert, folded'[u] = Append(folded[u], e)
        PROVE  TrackOf[folded'[u][i]] \in mert
    <3>1. folded[u] \in Seq(Events)
      BY DEF TypeOK
    <3>2. CASE i = Len(folded[u]) + 1
      BY <2>2, <3>1, <3>2
    <3>3. CASE i # Len(folded[u]) + 1
      <4>1. i \in 1..Len(folded[u]) /\ folded'[u][i] = folded[u][i]
        BY <1>1, <2>2, <3>1, <3>3
      <4> QED
        BY <4>1 DEF FoldInv
    <3> QED
      BY <3>2, <3>3
  <2> QED
    BY <2>1, <2>2
<1> QED
  BY <1>1 DEF FoldInv

LEMMA FoldNext ==
    ASSUME TypeOK, LockInv, FoldInv, TasteStep
    PROVE  FoldInv'
<1> USE DEF profileVars, historyVars, serialVars
<1>0. UNCHANGED mert
  BY TasteStepOnPipeline
<1>1. ASSUME UNCHANGED folded,
             \A q \in Runners : turn'[q].at = "write" =>
                turn'[q] = turn[q] \/ TrackOf[turn'[q].event] \in mert,
             \A n \in Strays : stray'[n].at = "write" =>
                stray'[n] = stray[n] \/ TrackOf[stray'[n].event] \in mert
      PROVE  FoldInv'
  BY <1>0, <1>1, FoldsKnown DEF FoldInv
<1>2. ASSUME NEW r \in Runners, NEW e, turn' = [turn EXCEPT ![r] = Trying(e)]
      PROVE  \A q \in Runners : turn'[q].at = "write" => turn'[q] = turn[q]
  BY <1>2 DEF Trying, TypeOK
<1>3. ASSUME NEW e \in Events, ListenerStep(e)
      PROVE  FoldInv'
  <2>1. UNCHANGED <<stray, folded>>
    BY <1>3 DEF ListenerStep, AddLooks, AddStores, Record, SaveEvent
  <2>2. UNCHANGED turn \/ (e \in Runners /\ turn' = [turn EXCEPT ![e] = Trying(e)])
    BY <1>3 DEF ListenerStep, AddLooks, AddStores, Record, SaveEvent, SaveFails, Runners
  <2> QED
    BY <1>1, <1>2, <2>1, <2>2
<1>4. CASE ConsumerStep
  <2>1. UNCHANGED <<stray, folded>>
    BY <1>4 DEF ConsumerStep, OnDoneTaste, NextInBatch, RemoveDislike
  <2>2. UNCHANGED turn
        \/ \E u \in Users : u \in Runners /\ \E e \in batch[u] :
              turn' = [turn EXCEPT ![u] = Trying(e)]
    BY <1>4 DEF ConsumerStep, OnDoneTaste, NextInBatch, RemoveDislike, Runners
  <2> QED
    BY <1>1, <1>2, <2>1, <2>2
<1>5. ASSUME NEW r \in Runners, Guard(r) \/ Retrieve(r) \/ AppliedElsewhere(r)
      PROVE  FoldInv'
  <2>1. UNCHANGED <<stray, folded>>
    BY <1>5 DEF Guard, Retrieve, AppliedElsewhere
  <2>2. GoesOn(r) /\ (turn'[r].at = "write" => TrackOf[turn[r].event] \in mert)
    <3>1. Retrieve(r) => TrackOf[turn[r].event] \in mert
      BY DEF Retrieve
    <3>2. GoesOn(r) /\ (Guard(r) \/ AppliedElsewhere(r) => turn'[r].at \in {"retrieve", "mark"})
      BY <1>5, TrialGoesOn
    <3> QED
      BY <1>5, <3>1, <3>2
  <2>3. \A q \in Runners : turn'[q].at = "write" =>
           turn'[q] = turn[q] \/ TrackOf[turn'[q].event] \in mert
    BY <2>2 DEF GoesOn
  <2> QED
    BY <1>1, <2>1, <2>3
<1>6. ASSUME NEW r \in Runners, WriteProfile(r)
      PROVE  FoldInv'
  <2>1. /\ UNCHANGED stray /\ turn[r].at = "write" /\ turn[r].event \in Events
        /\ folded' = [folded EXCEPT ![OwnerOf(r)] = Append(@, turn[r].event)]
    BY <1>6 DEF WriteProfile, TypeOK, Turn
  <2>2. TrackOf[turn[r].event] \in mert
    BY <2>1 DEF FoldInv
  <2>3. \A u \in Users : folded'[u] = folded[u]
           \/ \E e \in Events : TrackOf[e] \in mert /\ folded'[u] = Append(folded[u], e)
    BY <2>1, <2>2 DEF TypeOK
  <2>4. \A q \in Runners : turn'[q].at = "write" => TrackOf[turn'[q].event] \in mert
    <3>1. GoesOn(r) /\ turn'[r].at = "mark"
      BY <1>6, TrialGoesOn
    <3> QED
      BY <3>1 DEF GoesOn, FoldInv
  <2> QED
    BY <1>0, <2>1, <2>3, <2>4, FoldsKnown DEF FoldInv
<1>7. ASSUME NEW r \in Runners, NotApplied(r) \/ MarkApplied(r) \/ TrialThrows(r)
      PROVE  FoldInv'
  <2>1. UNCHANGED folded /\ EndTurn(r) /\ turn[r].at # "none"
    BY <1>7 DEF NotApplied, MarkApplied, TrialThrows
  <2>2. turn' = [turn EXCEPT ![r] = NoTurn] /\ turn'[r].at = "none"
    BY <2>1, EndTurnShape
  <2>3. \A q \in Runners : turn'[q].at = "write" => turn'[q] = turn[q]
    BY <2>2 DEF TypeOK
  <2>4. UNCHANGED stray \/ \E n \in {faults'} : stray' = [stray EXCEPT ![n] = turn[r]]
    BY <1>7 DEF NotApplied, MarkApplied, TrialThrows
  <2>5. \A n \in Strays : stray'[n] = stray[n] \/ stray'[n] = turn[r]
    BY <2>4 DEF TypeOK
  <2>6. turn[r].at = "write" => TrackOf[turn[r].event] \in mert
    BY DEF FoldInv
  <2> QED
    BY <1>1, <2>1, <2>3, <2>5, <2>6
<1>8. ASSUME NEW n \in Strays, StrayStep(n)
      PROVE  FoldInv'
  <2>1. UNCHANGED turn
    BY <1>8 DEF StrayStep, StrayRetrieves, StrayWrites, StrayEnds
  <2>2. \A q \in Runners : turn'[q].at = "write" => TrackOf[turn'[q].event] \in mert
    BY <2>1 DEF FoldInv
  <2>3. CASE StrayRetrieves(n)
    <3>1. /\ stray' = [stray EXCEPT ![n].at = "write",
                                    ![n].base = count[UserOf[stray[n].event]]]
          /\ TrackOf[stray[n].event] \in mert /\ UNCHANGED folded
      BY <2>3 DEF StrayRetrieves
    <3>2. /\ stray'[n].event = stray[n].event
          /\ \A m \in Strays \ {n} : stray'[m] = stray[m]
      BY <3>1 DEF TypeOK, Turn
    <3> QED
      BY <1>1, <2>1, <3>1, <3>2
  <2>4. CASE StrayWrites(n) \/ StrayEnds(n)
    <3>1. stray' = [stray EXCEPT ![n] = NoTurn]
      BY <2>4 DEF StrayWrites, StrayEnds
    <3>2. stray'[n].at = "none" /\ \A m \in Strays \ {n} : stray'[m] = stray[m]
      BY <3>1, Defaults DEF TypeOK
    <3>3. \A u \in Users : folded'[u] = folded[u]
             \/ \E e \in Events : TrackOf[e] \in mert /\ folded'[u] = Append(folded[u], e)
      <4>1. CASE StrayEnds(n)
        BY <4>1 DEF StrayEnds
      <4>2. CASE StrayWrites(n)
        <5>1. /\ stray[n].at = "write" /\ stray[n].event \in Events
              /\ folded' = [folded EXCEPT ![UserOf[stray[n].event]] =
                               Append(@, stray[n].event)]
          BY <4>2 DEF StrayWrites, TypeOK, Turn
        <5>2. TrackOf[stray[n].event] \in mert
          BY <5>1 DEF FoldInv
        <5> QED
          BY <5>1, <5>2 DEF TypeOK
      <4> QED
        BY <2>4, <4>1, <4>2
    <3> QED
      BY <1>0, <2>2, <3>2, <3>3, FoldsKnown DEF FoldInv
  <2> QED
    BY <1>8, <2>3, <2>4 DEF StrayStep
<1>9. ASSUME NEW r \in Runners, Trial(r)
      PROVE  FoldInv'
  BY <1>5, <1>6, <1>7, <1>9 DEF Trial
<1> QED
  BY <1>3, <1>4, <1>8, <1>9 DEF TasteStep

-------------------------------------------------------------------------------
(* Events that wait. *)

LEMMA SeqShapes ==
    ASSUME NEW S, NEW s \in Seq(S)
    PROVE  /\ \A x \in S : /\ Append(s, x) # <<>> /\ Range(Append(s, x)) = Range(s) \cup {x}
                           /\ s # <<>> => Head(Append(s, x)) = Head(s)
                           /\ IsInjective(s) /\ x \notin Range(s) => IsInjective(Append(s, x))
           /\ s # <<>> => /\ Head(s) \in Range(s) /\ Head(s) \in S
                          /\ Range(Tail(s)) \subseteq Range(s)
           /\ s # <<>> /\ IsInjective(s) => IsInjective(Tail(s)) /\ Head(s) \notin Range(Tail(s))
<1>1. DOMAIN s = 1..Len(s) /\ Len(s) \in Nat /\ Range(s) = {s[i] : i \in 1..Len(s)}
  BY DEF Range
<1>2. ASSUME NEW x \in S
      PROVE  /\ Append(s, x) # <<>> /\ Range(Append(s, x)) = Range(s) \cup {x}
             /\ s # <<>> => Head(Append(s, x)) = Head(s)
             /\ IsInjective(s) /\ x \notin Range(s) => IsInjective(Append(s, x))
  <2> PICK z : z = Append(s, x)
    OBVIOUS
  <2>1. /\ DOMAIN z = 1..(Len(s) + 1) /\ z[Len(s) + 1] = x /\ z # <<>> /\ z \in Seq(S)
        /\ \A i \in 1..Len(s) : z[i] = s[i]
    BY <1>1
  <2>2. Range(z) = Range(s) \cup {x}
    <3>1. \A i \in DOMAIN z : i \in 1..Len(s) \/ i = Len(s) + 1
      BY <1>1, <2>1
    <3>2. 1..Len(s) \subseteq DOMAIN z /\ Len(s) + 1 \in DOMAIN z
      BY <1>1, <2>1
    <3> QED
      BY <1>1, <2>1, <3>1, <3>2 DEF Range
  <2>3. s # <<>> => Head(z) = Head(s)
    BY <1>1, <2>1
  <2>4. ASSUME IsInjective(s), x \notin Range(s)
        PROVE  IsInjective(z)
    BY <1>1, <2>1, <2>4 DEF IsInjective
  <2> QED
    BY <2>1, <2>2, <2>3, <2>4
<1>3. ASSUME s # <<>>
      PROVE  /\ Head(s) \in Range(s) /\ Head(s) \in S /\ Range(Tail(s)) \subseteq Range(s)
             /\ IsInjective(s) => IsInjective(Tail(s)) /\ Head(s) \notin Range(Tail(s))
  <2> PICK z : z = Tail(s)
    OBVIOUS
  <2>1. /\ DOMAIN z = 1..(Len(s) - 1) /\ \A i \in 1..(Len(s) - 1) : z[i] = s[i + 1]
        /\ Len(s) >= 1 /\ Head(s) = s[1]
    BY <1>1, <1>3
  <2>2. Head(s) \in Range(s) /\ Head(s) \in S
    BY <1>1, <2>1
  <2>3. Range(z) \subseteq Range(s)
    BY <1>1, <2>1 DEF Range
  <2>4. ASSUME IsInjective(s)
        PROVE  IsInjective(z) /\ Head(s) \notin Range(z)
    BY <1>1, <2>1, <2>4 DEF IsInjective, Range
  <2> QED
    BY <2>2, <2>3, <2>4
<1> QED
  BY <1>2, <1>3

LEMMA RangeAppend ==
    ASSUME NEW S, NEW s \in Seq(S), NEW x \in S
    PROVE  x \in Range(Append(s, x)) /\ Range(s) \subseteq Range(Append(s, x))
<1>1. /\ Append(s, x) \in Seq(S) /\ Len(Append(s, x)) = Len(s) + 1
      /\ Append(s, x)[Len(s) + 1] = x
      /\ \A i \in 1..Len(s) : Append(s, x)[i] = s[i]
  OBVIOUS
<1>2. DOMAIN s = 1..Len(s) /\ DOMAIN Append(s, x) = 1..(Len(s) + 1)
  BY <1>1
<1>3. Len(s) + 1 \in 1..(Len(s) + 1) /\ 1..Len(s) \subseteq 1..(Len(s) + 1)
  OBVIOUS
<1> QED
  BY <1>1, <1>2, <1>3 DEF Range

LEMMA RangeTail ==
    ASSUME NEW S, NEW s \in Seq(S), s # <<>>, NEW x \in Range(s), x # Head(s)
    PROVE  x \in Range(Tail(s))
<1>1. PICK i \in 1..Len(s) : s[i] = x
  BY DEF Range
<1>2. i # 1
  BY <1>1
<1>3. i - 1 \in 1..Len(Tail(s)) /\ Tail(s)[i - 1] = x /\ DOMAIN Tail(s) = 1..Len(Tail(s))
  BY <1>1, <1>2
<1> QED
  BY <1>3 DEF Range

(* The worker has told the consumers of a track, or did and the row knows.     *)
Told(t) == row[t] = "set" \/ t \in doneRow

Tries(r, e) == turn[r].at # "none" /\ turn[r].event = e

Waits(e) == IsSaved(e) /\ e \notin applied \cup unlucky

(* A waiting event of a track of which the worker has told has its done        *)
(* message still to come, is in the hands of the consumer, or is being tried.  *)
InSight(e) ==
    TrackOf[e] \in doneTaste \/ e \in batch[UserOf[e]]
        \/ Tries(e, e) \/ Tries(UserOf[e], e)

WaitInv ==
    /\ \A e \in Events : turn[e].at # "none" => turn[e].event = e
    /\ \A u \in Users : batch[u] # {} => u \in Range(lock[u])
    /\ \A e \in Events : Waits(e) /\ Told(TrackOf[e]) => InSight(e)

LEMMA PipelineTells ==
    ASSUME IndexingTypeOK, PipelineStep
    PROVE  doneTaste \subseteq doneTaste'
           /\ \A t \in Tracks : Told(t)' => Told(t) \/ t \in doneTaste'
<1> USE DEF Told, qVars, workerVars, IndexingTypeOK
<1>1. CASE \E t \in Tracks : EnsureTrackIndexed(t) \/ OnUploaded(t) \/ OnDone(t)
  BY <1>1 DEF EnsureTrackIndexed, OnUploaded, OnDone
<1>2. CASE \E t \in Tracks : TriggerCached(t) \/ TriggerUpload(t) \/ TriggerFails(t)
                                \/ StoredByStream(t) \/ Fetch(t)
  BY <1>2 DEF TriggerCached, TriggerUpload, TriggerFails, StoredByStream, Fetch
<1>3. CASE Reap \/ CheckVectors \/ UpsertMert \/ UpsertClap \/ TaskFails
  BY <1>3 DEF Reap, CheckVectors, UpsertMert, UpsertClap, TaskFails
<1>4. CASE PublishDone
  BY <1>4 DEF PublishDone
<1> QED
  BY <1>1, <1>2, <1>3, <1>4 DEF PipelineStep, WorkerStep

LEMMA PipelineWait ==
    ASSUME TypeOK, WaitInv, Pipeline(PipelineStep)
    PROVE  WaitInv'
<1>1. doneTaste \subseteq doneTaste'
      /\ \A t \in Tracks : Told(t)' => Told(t) \/ t \in doneTaste'
  BY PipelineTells, TypeParts DEF Pipeline
<1>2. UNCHANGED tasteVars
  BY DEF Pipeline
<1> QED
  BY <1>1, <1>2, TasteAssumption
  DEF tasteVars, eventVars, serialVars, historyVars, WaitInv, Waits, IsSaved, InSight, Tries

(* The consumer keeps its place in a line that a call leaves.                  *)
LEMMA BatchStays ==
    ASSUME TypeOK, WaitInv, NEW r \in Events, InTurn(r), lock' = Released(r), UNCHANGED batch
    PROVE  \A u \in Users : batch'[u] # {} => u \in Range(lock'[u])
<1> SUFFICES ASSUME NEW u \in Users, batch'[u] # {}
             PROVE  u \in Range(lock'[u])
  OBVIOUS
<1>1. /\ u \in Range(lock[u]) /\ lock[u] \in Seq(Runners) /\ r \in Runners /\ u # r
      /\ OwnerOf(r) \in Users
  BY TasteAssumption, Owners DEF WaitInv, TypeOK, Runners
<1>2. CASE OwnerOf(r) = u
  <2>1. lock[u] # <<>> /\ Head(lock[u]) = r
    BY <1>2 DEF InTurn
  <2>2. SubSeq(lock[u], 2, Len(lock[u])) = Tail(lock[u])
    BY <1>1, <2>1, TailIsSubSeq
  <2>3. lock'[u] = Tail(lock[u])
    BY <1>1, <1>2, <2>2 DEF Released, TypeOK
  <2> QED
    BY <1>1, <2>1, <2>3, RangeTail
<1>3. CASE OwnerOf(r) # u
  BY <1>1, <1>3 DEF Released, TypeOK
<1> QED
  BY <1>2, <1>3

LEMMA ListenersWait ==
    ASSUME TypeOK, WaitInv, NEW e \in Events, ListenerStep(e)
    PROVE  WaitInv'
<1> /\ e \in Runners /\ e \notin Users /\ UserOf[e] \in Users
    /\ \A f \in Events : UserOf[f] \in Users /\ UserOf[f] \in Runners
  BY TasteAssumption DEF Runners
<1>1. CASE Record(e)
  <2>1. /\ UNCHANGED <<row, doneRow, doneTaste, saved, applied, unlucky, batch, turn>>
        /\ lock' = [lock EXCEPT ![UserOf[e]] = Append(@, e)]
    BY <1>1 DEF Record, indexingVars, qVars, eventVars, historyVars
  <2>2. \A u \in Users : Range(lock[u]) \subseteq Range(lock'[u])
    <3>1. lock[UserOf[e]] \in Seq(Runners)
      BY DEF TypeOK
    <3>2. Range(lock[UserOf[e]]) \subseteq Range(Append(lock[UserOf[e]], e))
      BY <3>1, RangeAppend
    <3>3. /\ lock'[UserOf[e]] = Append(lock[UserOf[e]], e)
          /\ \A u \in Users \ {UserOf[e]} : lock'[u] = lock[u]
      BY <2>1 DEF TypeOK
    <3> QED
      BY <3>2, <3>3
  <2> QED
    BY <2>1, <2>2 DEF WaitInv, Waits, IsSaved, InSight, Tries, Told
<1>2. CASE SaveEvent(e) /\ UNCHANGED lock
  <2>0. lock' = Released(e) /\ MayRun(e) => lock'[OwnerOf(e)] # lock[OwnerOf(e)]
    <3> SUFFICES ASSUME lock' = Released(e), MayRun(e)
                 PROVE  lock'[OwnerOf(e)] # lock[OwnerOf(e)]
      OBVIOUS
    <3>1. /\ lock[UserOf[e]] \in Seq(Runners) /\ OwnerOf(e) = UserOf[e]
          /\ lock[UserOf[e]] # <<>>
      BY Owners DEF TypeOK, MayRun
    <3>2. lock'[UserOf[e]] = Tail(lock[UserOf[e]])
      BY <3>1, TailIsSubSeq DEF Released, TypeOK
    <3>3. Len(Tail(lock[UserOf[e]])) # Len(lock[UserOf[e]])
      BY <3>1
    <3> QED
      BY <3>1, <3>2, <3>3
  <2>1. /\ UNCHANGED <<row, doneRow, doneTaste, applied, unlucky, batch, lock>>
        /\ turn' = [turn EXCEPT ![e] = Trying(e)]
        /\ saved' = Append(saved, e)
    BY <1>2, <2>0 DEF SaveEvent, SaveFails, qVars
  <2>2. /\ turn'[e].at = "guard" /\ turn'[e].event = e
        /\ \A q \in Runners \ {e} : turn'[q] = turn[q]
    BY <2>1 DEF Trying, TypeOK
  <2>3. \A f \in Events : IsSaved(f)' => IsSaved(f) \/ f = e
    <3>1. /\ \A i \in DOMAIN saved' : (i \in DOMAIN saved /\ saved'[i] = saved[i]) \/ saved'[i] = e
      BY <2>1 DEF TypeOK
    <3> QED
      BY <3>1 DEF IsSaved, Range
  <2>4. \A f \in Events \ {e} : f \in Runners /\ UserOf[f] \in Runners \ {e}
    BY DEF Runners
  <2> QED
    BY <2>1, <2>2, <2>3, <2>4 DEF WaitInv, Waits, InSight, Tries, Told, Runners
<1>3. CASE SaveEvent(e) /\ SaveFails(e)
  <2>1. /\ UNCHANGED <<row, doneRow, doneTaste, applied, unlucky, batch, saved, turn>>
        /\ lock' = Released(e) /\ InTurn(e)
    BY <1>3 DEF SaveEvent, SaveFails, qVars, MayRun, InTurn
  <2>2. \A u \in Users : batch'[u] # {} => u \in Range(lock'[u])
    BY <2>1, BatchStays
  <2> QED
    BY <2>1, <2>2 DEF WaitInv, Waits, IsSaved, InSight, Tries, Told
<1>4. CASE AddLooks(e) \/ AddStores(e)
  <2>1. UNCHANGED <<row, doneRow, doneTaste, applied, unlucky, batch, saved, turn, lock>>
    BY <1>4 DEF AddLooks, AddStores, indexingVars, qVars, eventVars, serialVars, historyVars
  <2> QED
    BY <2>1 DEF WaitInv, Waits, IsSaved, InSight, Tries, Told
<1> QED
  BY <1>1, <1>2, <1>3, <1>4 DEF ListenerStep, SaveEvent

LEMMA ConsumerWaits ==
    ASSUME TypeOK, WaitInv, ConsumerStep
    PROVE  WaitInv'
<1> USE DEF eventVars, addVars, serialVars, profileVars, historyVars
<1> \A u \in Users : u \in Runners /\ lock[u] \in Seq(Runners)
  BY DEF Runners, TypeOK
<1> \A e \in Events : e \in Runners /\ e \notin Users /\ UserOf[e] \in Users
  BY TasteAssumption DEF Runners
<1>1. ASSUME NEW t \in Tracks, OnDoneTaste(t)
      PROVE  WaitInv'
  <2>1. /\ UNCHANGED <<row, doneRow, saved, applied, turn>> /\ doneTaste' = doneTaste \ {t}
    BY <1>1 DEF OnDoneTaste
  <2>2. \A u \in Users : u \notin Range(lock[u]) /\ batch[u] = {}
    BY <1>1 DEF OnDoneTaste, ConsumerIdle, WaitInv
  <2>3. CASE /\ batch' = [u \in Users |-> Pending(t, u)]
             /\ lock' = [u \in Users |->
                   IF Pending(t, u) = {} THEN lock[u] ELSE Append(lock[u], u)]
             /\ UNCHANGED <<faults, unlucky>>
    <3>1. ASSUME NEW u \in Users, batch'[u] # {}
          PROVE  u \in Range(lock'[u])
      <4>1. lock'[u] = Append(lock[u], u)
        BY <2>3, <3>1
      <4>2. u \in Range(Append(lock[u], u))
        BY RangeAppend
      <4> QED
        BY <4>1, <4>2
    <3>2. ASSUME NEW e \in Events, Waits(e), Told(TrackOf[e])
          PROVE  InSight(e)'
      <4>1. CASE TrackOf[e] = t
        BY <2>3, <3>2, <4>1 DEF InSight, Waits, IsSaved, Pending
      <4>2. CASE TrackOf[e] # t
        BY <2>1, <2>2, <3>2, <4>2 DEF InSight, WaitInv, Tries
      <4> QED
        BY <4>1, <4>2
    <3> QED
      BY <2>1, <2>3, <3>1, <3>2 DEF WaitInv, Waits, IsSaved, Told
  <2>4. CASE /\ unlucky' = unlucky \cup {e \in Events : IsSaved(e) /\ TrackOf[e] = t}
             /\ UNCHANGED <<batch, lock>>
    <3>1. ASSUME NEW e \in Events, Waits(e)'
          PROVE  Waits(e) /\ TrackOf[e] # t
      BY <2>1, <2>4, <3>1 DEF Waits, IsSaved
    <3> QED
      BY <2>1, <2>4, <3>1 DEF WaitInv, InSight, Tries, Told
  <2> QED
    BY <1>1, <2>3, <2>4 DEF OnDoneTaste
<1>2. ASSUME NEW u \in Users, NEW t \in Tracks, RemoveDislike(u, t)
      PROVE  WaitInv'
  BY <1>2 DEF RemoveDislike, indexingVars, qVars, WaitInv, Waits, IsSaved, InSight, Tries, Told
<1>3. ASSUME NEW u \in Users, NextInBatch(u)
      PROVE  WaitInv'
  <2>1. UNCHANGED <<row, doneRow, doneTaste, saved, applied, unlucky>>
        /\ turn[u].at = "none"
    BY <1>3 DEF NextInBatch, indexingVars, qVars
  <2>2. CASE batch[u] = {}
    <3>1. UNCHANGED <<batch, turn>> /\ lock' = Released(u) /\ OwnerOf(u) = u
      BY <1>3, <2>2, Owners DEF NextInBatch
    <3>2. \A v \in Users \ {u} : lock'[v] = lock[v]
      BY <3>1 DEF Released, TypeOK
    <3> QED
      BY <2>1, <2>2, <3>1, <3>2 DEF WaitInv, Waits, IsSaved, InSight, Tries, Told
  <2>3. CASE batch[u] # {}
    <3>1. PICK e \in batch[u] : /\ turn' = [turn EXCEPT ![u] = Trying(e)]
                                /\ batch' = [batch EXCEPT ![u] = @ \ {e}]
                                /\ UNCHANGED lock
      BY <1>3, <2>3 DEF NextInBatch
    <3>2. /\ batch'[u] = batch[u] \ {e}
          /\ \A v \in Users \ {u} : batch'[v] = batch[v]
      BY <3>1 DEF TypeOK
    <3>3. /\ turn'[u].at = "guard" /\ turn'[u].event = e
          /\ \A q \in Runners \ {u} : turn'[q] = turn[q]
      BY <3>1 DEF Trying, TypeOK
    <3>4. ASSUME NEW f \in Events, InSight(f)
          PROVE  InSight(f)'
      BY <2>1, <3>2, <3>3, <3>4 DEF InSight, Tries
    <3>5. \A v \in Users : batch'[v] # {} => v \in Range(lock'[v])
      BY <3>1, <3>2 DEF WaitInv
    <3>6. \A f \in Events : turn'[f].at # "none" => turn'[f].event = f
      BY <3>3 DEF WaitInv
    <3> QED
      BY <2>1, <3>4, <3>5, <3>6 DEF WaitInv, Waits, IsSaved, Told
  <2> QED
    BY <2>2, <2>3
<1> QED
  BY <1>1, <1>2, <1>3 DEF ConsumerStep

LEMMA TrialsWait ==
    ASSUME TypeOK, VectorInv, LockInv, WaitInv, NEW r \in Runners, Trial(r)
    PROVE  WaitInv'
<1> \A e \in Events : e \in Runners /\ e \notin Users /\ UserOf[e] \in Users
                      /\ UserOf[e] \in Runners /\ TrackOf[e] \in Tracks
  BY TasteAssumption DEF Runners
<1>a. turn[r].at # "none"
  BY DEF Trial, Guard, Retrieve, NotApplied, AppliedElsewhere, WriteProfile, MarkApplied,
         TrialThrows
<1>1. CASE Guard(r) \/ Retrieve(r) \/ AppliedElsewhere(r) \/ WriteProfile(r)
  <2>1. UNCHANGED <<row, doneRow, doneTaste, unlucky>>
    BY <1>1 DEF Guard, Retrieve, AppliedElsewhere, WriteProfile, indexingVars, qVars,
                historyVars
  <2>2. GoesOn(r) /\ turn'[r].at # "none"
    BY <1>1, TrialGoesOn
  <2>3. /\ UNCHANGED <<saved, applied, batch, lock>> /\ turn'[r].event = turn[r].event
        /\ \A q \in Runners \ {r} : turn'[q] = turn[q]
    BY <2>2 DEF GoesOn
  <2>4. ASSUME NEW e \in Events, InSight(e)
        PROVE  InSight(e)'
    BY <1>a, <2>1, <2>2, <2>3, <2>4 DEF InSight, Tries
  <2>5. \A e \in Events : turn'[e].at # "none" => turn'[e].event = e
    BY <1>a, <2>3 DEF WaitInv
  <2> QED
    BY <2>1, <2>3, <2>4, <2>5 DEF WaitInv, Waits, IsSaved, Told
<1>2. CASE NotApplied(r) \/ MarkApplied(r) \/ TrialThrows(r)
  <2> DEFINE e == turn[r].event
  <2>1. /\ UNCHANGED <<row, doneRow, doneTaste, saved, batch>> /\ EndTurn(r)
        /\ applied \subseteq applied' /\ unlucky \subseteq unlucky'
        /\ e \in applied' \cup unlucky' \/ TrackOf[e] \notin mert
    BY <1>2 DEF NotApplied, MarkApplied, TrialThrows, indexingVars, qVars, eventVars,
                historyVars
  <2>2. /\ turn'[r].at = "none" /\ turn' = [turn EXCEPT ![r] = NoTurn]
    BY <1>a, <2>1, EndTurnShape
  <2>3. \A q \in Runners \ {r} : turn'[q] = turn[q]
    BY <2>2 DEF TypeOK
  <2>4. e \in Events
    BY DEF TypeOK, Turn
  <2>5. \A u \in Users : batch'[u] # {} => u \in Range(lock'[u])
    <3>1. CASE r \in Users
      BY <2>1, <3>1 DEF EndTurn, WaitInv
    <3>2. CASE r \in Events /\ r \notin Users
      <4>1. lock' = Released(r) /\ InTurn(r)
        BY <1>a, <2>1, <3>2 DEF EndTurn, LockInv
      <4> QED
        BY <2>1, <3>2, <4>1, BatchStays
    <3> QED
      BY <3>1, <3>2 DEF Runners
  <2>6. ASSUME NEW f \in Events, Waits(f)', Told(TrackOf[f])
        PROVE  InSight(f)'
    <3>1. f # e
      <4>1. TrackOf[e] \notin mert => ~Told(TrackOf[e])
        BY <2>4 DEF VectorInv, IndexedHasVector, Told
      <4> QED
        BY <2>1, <2>6, <4>1 DEF Waits
    <3>2. InSight(f)
      BY <2>1, <2>6 DEF WaitInv, Waits, IsSaved
    <3> QED
      BY <2>1, <2>3, <3>1, <3>2 DEF InSight, Tries
  <2>7. \A f \in Events : turn'[f].at # "none" => turn'[f].event = f
    BY <2>2, <2>3 DEF WaitInv
  <2> QED
    BY <2>1, <2>5, <2>6, <2>7 DEF WaitInv, Told
<1> QED
  BY <1>1, <1>2 DEF Trial

LEMMA StraysWait ==
    ASSUME TypeOK, WaitInv, NEW n \in Strays, StrayStep(n)
    PROVE  WaitInv'
<1>1. UNCHANGED <<row, doneRow, doneTaste, saved, applied, unlucky, batch, turn, lock>>
  BY DEF StrayStep, StrayRetrieves, StrayWrites, StrayEnds, indexingVars, qVars, eventVars,
         serialVars, historyVars
<1> QED
  BY <1>1 DEF WaitInv, Waits, IsSaved, InSight, Tries, Told

-------------------------------------------------------------------------------
(* Events that are asked for. *)

(* A dislike whose row was stored is on its way: its call asks for the lock,   *)
(* stands in line, or has saved it.                                            *)
Pressed(d) == adding[d] = "asking" \/ IsSaved(d) \/ d \in Range(lock[UserOf[d]])

LEMMA ReleaseShape ==
    ASSUME TypeOK, NEW r \in Runners, InTurn(r), lock' = Released(r)
    PROVE  /\ lock'[OwnerOf(r)] = Tail(lock[OwnerOf(r)])
           /\ \A u \in Users \ {OwnerOf(r)} : lock'[u] = lock[u]
           /\ \A u \in Users : /\ Range(lock'[u]) \subseteq Range(lock[u])
                               /\ Range(lock[u]) \subseteq Range(lock'[u]) \cup {r}
<1> DEFINE v == OwnerOf(r)
<1>1. v \in Users /\ lock[v] \in Seq(Runners) /\ lock[v] # <<>> /\ Head(lock[v]) = r
  BY Owners DEF TypeOK, InTurn
<1>2. SubSeq(lock[v], 2, Len(lock[v])) = Tail(lock[v])
  BY <1>1, TailIsSubSeq
<1>3. lock'[v] = Tail(lock[v]) /\ \A u \in Users \ {v} : lock'[u] = lock[u]
  BY <1>1, <1>2 DEF Released, TypeOK
<1>4. Range(Tail(lock[v])) \subseteq Range(lock[v])
  BY <1>1, SeqShapes
<1>5. \A x \in Range(lock[v]) : x # r => x \in Range(Tail(lock[v]))
  BY <1>1, RangeTail
<1> QED
  BY <1>3, <1>4, <1>5

LEMMA AskedLines ==
    ASSUME TypeOK, NEW t \in Tracks, OnDoneTaste(t), NEW u \in Users
    PROVE  /\ Range(lock[u]) \subseteq Range(lock'[u])
           /\ Range(lock'[u]) \subseteq Range(lock[u]) \cup {u}
<1>1. lock[u] \in Seq(Runners) /\ u \in Runners
  BY DEF TypeOK, Runners
<1>2. lock'[u] = lock[u] \/ lock'[u] = Append(lock[u], u)
  BY DEF OnDoneTaste, TypeOK
<1>3. Range(Append(lock[u], u)) = Range(lock[u]) \cup {u}
  BY <1>1, SeqShapes
<1> QED
  BY <1>2, <1>3

(* Who leaves a line by the end of a turn was saved.                           *)
LEMMA TurnLines ==
    ASSUME TypeOK, LockInv, WaitInv, OwnInv, NEW r \in Runners, Trial(r)
    PROVE  /\ UNCHANGED <<saved, adding>>
           /\ \A u \in Users : Range(lock'[u]) \subseteq Range(lock[u])
           /\ \/ UNCHANGED lock
              \/ /\ \A u \in Users : Range(lock[u]) \subseteq Range(lock'[u]) \cup {r}
                 /\ r \in Events => IsSaved(r)
<1>1. turn[r].at # "none" /\ UNCHANGED <<saved, adding>>
  BY DEF Trial, Guard, Retrieve, NotApplied, AppliedElsewhere, WriteProfile, MarkApplied,
         TrialThrows, eventVars, addVars
<1>2. CASE UNCHANGED lock
  BY <1>1, <1>2
<1>3. CASE lock' = Released(r)
  <2>1. InTurn(r) /\ (r \in Events => IsSaved(r))
    BY <1>1 DEF LockInv, WaitInv, OwnInv
  <2> QED
    BY <1>1, <1>3, <2>1, ReleaseShape
<1>4. UNCHANGED lock \/ lock' = Released(r)
  BY DEF Trial, Guard, Retrieve, NotApplied, AppliedElsewhere, WriteProfile, MarkApplied,
         TrialThrows, EndTurn
<1> QED
  BY <1>2, <1>3, <1>4

(* Nobody is forgotten: an event that was asked for stays so, or an error lost *)
(* it, and what is saved stays saved.                                          *)
LEMMA PressedStays ==
    ASSUME TypeOK, LockInv, WaitInv, OwnInv, TasteStep
    PROVE  /\ \A e \in Events : (IsSaved(e) => IsSaved(e)')
                                /\ (Pressed(e) => Pressed(e)' \/ e \in lost')
           /\ lost \subseteq lost' /\ late \subseteq late'
<1> USE DEF eventVars, addVars, serialVars, profileVars, historyVars
<1> \A e \in Events : /\ UserOf[e] \in Users /\ e \in Runners /\ e \notin Users
                      /\ lock[UserOf[e]] \in Seq(Runners) /\ OwnerOf(e) = UserOf[e]
  BY TasteAssumption, Owners DEF Runners, TypeOK
<1> \A u \in Users : u \in Runners /\ lock[u] \in Seq(Runners) /\ OwnerOf(u) = u
  BY Owners DEF Runners, TypeOK
<1>0. lost \subseteq lost' /\ late \subseteq late'
  BY DEF TasteStep, ListenerStep, AddLooks, AddStores, Record, SaveEvent, SaveFails,
         ConsumerStep, OnDoneTaste, NextInBatch, RemoveDislike, Trial, Guard, Retrieve,
         NotApplied, AppliedElsewhere, WriteProfile, MarkApplied, TrialThrows, StrayStep,
         StrayRetrieves, StrayWrites, StrayEnds
<1> DEFINE Stays == \A e \in Events : (IsSaved(e) => IsSaved(e)')
                                      /\ (Pressed(e) => Pressed(e)' \/ e \in lost')
<1>1. ASSUME UNCHANGED saved, \A e \in Events : adding[e] = "asking" => adding'[e] = "asking",
             \A u \in Users : Range(lock[u]) \subseteq Range(lock'[u])
      PROVE  Stays
  BY <1>1 DEF Pressed, IsSaved
<1>2. ASSUME NEW f \in Events, AddLooks(f) \/ AddStores(f)
      PROVE  Stays
  <2>1. UNCHANGED <<saved, lock>>
    BY <1>2 DEF AddLooks, AddStores
  <2>2. \A e \in Events : adding[e] = "asking" => adding'[e] = "asking"
    BY <1>2 DEF AddLooks, AddStores, Asked, TypeOK
  <2> QED
    BY <1>1, <2>1, <2>2
<1>3. ASSUME NEW f \in Events, Record(f)
      PROVE  Stays
  <2>1. /\ UNCHANGED saved /\ lock' = [lock EXCEPT ![UserOf[f]] = Append(@, f)]
        /\ \A e \in Events \ {f} : adding'[e] = adding[e]
    BY <1>3 DEF Record, TypeOK
  <2>2. Range(Append(lock[UserOf[f]], f)) = Range(lock[UserOf[f]]) \cup {f}
    BY SeqShapes
  <2>3. /\ lock'[UserOf[f]] = Append(lock[UserOf[f]], f)
        /\ \A u \in Users \ {UserOf[f]} : lock'[u] = lock[u]
    BY <2>1 DEF TypeOK
  <2> QED
    BY <2>1, <2>2, <2>3 DEF Pressed, IsSaved
<1>4. ASSUME NEW f \in Events, SaveEvent(f)
      PROVE  Stays
  <2>1. UNCHANGED adding /\ InTurn(f)
    BY <1>4 DEF SaveEvent, MayRun, InTurn
  <2>2. CASE saved' = Append(saved, f) /\ UNCHANGED lock
    <3>1. Range(saved) \subseteq Range(saved')
      BY <2>2, RangeAppend DEF TypeOK
    <3> QED
      BY <2>1, <2>2, <3>1 DEF Pressed, IsSaved
  <2>3. CASE SaveFails(f)
    <3>1. UNCHANGED saved /\ f \in lost' /\ lock' = Released(f)
      BY <2>3 DEF SaveFails
    <3>2. \A u \in Users : Range(lock[u]) \subseteq Range(lock'[u]) \cup {f}
      BY <2>1, <3>1, ReleaseShape
    <3> QED
      BY <2>1, <3>1, <3>2 DEF Pressed, IsSaved
  <2> QED
    BY <1>4, <2>2, <2>3 DEF SaveEvent
<1>5. ASSUME ConsumerStep
      PROVE  Stays
  <2>1. ASSUME NEW t \in Tracks, OnDoneTaste(t)
        PROVE  Stays
    <3>1. UNCHANGED <<saved, adding>>
      BY <2>1 DEF OnDoneTaste
    <3> QED
      BY <1>1, <2>1, <3>1, AskedLines
  <2>2. ASSUME NEW u \in Users, NEW t \in Tracks, RemoveDislike(u, t)
        PROVE  Stays
    BY <1>1, <2>2 DEF RemoveDislike
  <2>3. ASSUME NEW u \in Users, NextInBatch(u)
        PROVE  Stays
    <3>1. UNCHANGED <<saved, adding>> /\ InTurn(u)
      BY <2>3 DEF NextInBatch, MayRun, InTurn
    <3>2. CASE UNCHANGED lock
      BY <1>1, <3>1, <3>2
    <3>3. CASE lock' = Released(u)
      <4>1. \A v \in Users : Range(lock[v]) \subseteq Range(lock'[v]) \cup {u}
        BY <3>1, <3>3, ReleaseShape
      <4> QED
        BY <3>1, <4>1 DEF Pressed, IsSaved
    <3> QED
      BY <2>3, <3>2, <3>3 DEF NextInBatch
  <2>4. \/ \E t \in Tracks : OnDoneTaste(t)
        \/ \E u \in Users : NextInBatch(u) \/ \E t \in Tracks : RemoveDislike(u, t)
    BY <1>5 DEF ConsumerStep
  <2> QED
    BY <2>1, <2>2, <2>3, <2>4
<1>6. ASSUME NEW r \in Runners, Trial(r)
      PROVE  Stays
  <2>1. UNCHANGED <<saved, adding>>
    BY <1>6, TurnLines
  <2>2. CASE UNCHANGED lock
    BY <1>1, <2>1, <2>2
  <2>3. CASE /\ \A u \in Users : Range(lock[u]) \subseteq Range(lock'[u]) \cup {r}
             /\ r \in Events => IsSaved(r)
    BY <2>1, <2>3 DEF Pressed, IsSaved
  <2> QED
    BY <1>6, <2>2, <2>3, TurnLines
<1>7. ASSUME NEW n \in Strays, StrayStep(n)
      PROVE  Stays
  <2>1. UNCHANGED <<saved, adding, lock>>
    BY <1>7 DEF StrayStep, StrayRetrieves, StrayWrites, StrayEnds
  <2> QED
    BY <1>1, <2>1
<1> QED
  BY <1>0, <1>2, <1>3, <1>4, <1>5, <1>6, <1>7 DEF TasteStep, ListenerStep

(* The call that stores a dislike has not come to its event yet.               *)
LEMMA AddingNext ==
    ASSUME TypeOK, LockInv, WaitInv, OwnInv, TasteStep, NEW e \in Events, adding'[e] # "none"
    PROVE  KindOf[e] = "dislike" /\ ~IsSaved(e)' /\ e \notin Range(lock'[UserOf[e]])
<1> USE DEF eventVars, addVars, serialVars, profileVars, historyVars
<1> /\ UserOf[e] \in Users /\ e \in Runners /\ e \notin Users /\ e \notin {UserOf[e]}
    /\ \A f \in Events : /\ f \in Runners /\ UserOf[f] \in Users /\ OwnerOf(f) = UserOf[f]
                         /\ lock[UserOf[f]] \in Seq(Runners)
    /\ \A u \in Users : u \in Runners
  BY TasteAssumption, Owners DEF Runners, TypeOK
<1> DEFINE Before == KindOf[e] = "dislike" /\ ~IsSaved(e) /\ e \notin Range(lock[UserOf[e]])
           After == KindOf[e] = "dislike" /\ ~IsSaved(e)' /\ e \notin Range(lock'[UserOf[e]])
<1>0. adding[e] # "none" => Before
  BY DEF OwnInv
<1>1. ASSUME UNCHANGED saved, Before, NEW u \in Users,
             Range(lock'[UserOf[e]]) \subseteq Range(lock[UserOf[e]]) \cup {u}
      PROVE  After
  BY <1>1 DEF IsSaved
<1>2. ASSUME NEW f \in Events, AddLooks(f) \/ AddStores(f)
      PROVE  After
  <2>1. UNCHANGED <<saved, lock>>
    BY <1>2 DEF AddLooks, AddStores
  <2>2. Before
    <3>1. CASE AddLooks(f) /\ f = e
      BY <3>1 DEF AddLooks, Asked
    <3>2. CASE AddLooks(f) /\ f # e
      BY <1>0, <3>2 DEF AddLooks, TypeOK
    <3>3. CASE AddStores(f)
      BY <1>0, <3>3 DEF AddStores, TypeOK
    <3> QED
      BY <1>2, <3>1, <3>2, <3>3
  <2> QED
    BY <2>1, <2>2 DEF IsSaved
<1>3. ASSUME NEW f \in Events, Record(f)
      PROVE  After
  <2>1. /\ UNCHANGED saved /\ lock' = [lock EXCEPT ![UserOf[f]] = Append(@, f)]
        /\ adding' = [adding EXCEPT ![f] = "none"]
    BY <1>3 DEF Record
  <2>2. e # f /\ adding[e] # "none"
    BY <2>1 DEF TypeOK
  <2>3. Range(Append(lock[UserOf[f]], f)) = Range(lock[UserOf[f]]) \cup {f}
    BY SeqShapes
  <2>4. /\ lock'[UserOf[f]] = Append(lock[UserOf[f]], f)
        /\ \A u \in Users \ {UserOf[f]} : lock'[u] = lock[u]
    BY <2>1 DEF TypeOK
  <2> QED
    BY <1>0, <2>1, <2>2, <2>3, <2>4 DEF IsSaved
<1>4. ASSUME NEW f \in Events, SaveEvent(f)
      PROVE  After
  <2>1. UNCHANGED adding /\ lock[UserOf[f]] # <<>> /\ Head(lock[UserOf[f]]) = f
    BY <1>4 DEF SaveEvent, MayRun
  <2>2. f \in Range(lock[UserOf[f]]) /\ Before
    BY <1>0, <2>1, SeqShapes
  <2>3. CASE saved' = Append(saved, f) /\ UNCHANGED lock
    <3>1. Range(Append(saved, f)) = Range(saved) \cup {f}
      BY SeqShapes DEF TypeOK
    <3> QED
      BY <2>2, <2>3, <3>1 DEF IsSaved
  <2>4. CASE SaveFails(f)
    <3>1. UNCHANGED saved /\ lock' = Released(f)
      BY <2>4 DEF SaveFails
    <3>2. Range(lock'[UserOf[e]]) \subseteq Range(lock[UserOf[e]])
      BY <2>1, <3>1, ReleaseShape DEF InTurn
    <3> QED
      BY <2>2, <3>1, <3>2 DEF IsSaved
  <2> QED
    BY <1>4, <2>3, <2>4 DEF SaveEvent
<1>5. CASE ConsumerStep
  <2>1. ASSUME NEW t \in Tracks, OnDoneTaste(t)
        PROVE  After
    <3>1. UNCHANGED <<saved, adding>>
      BY <2>1 DEF OnDoneTaste
    <3> QED
      BY <1>0, <1>1, <2>1, <3>1, AskedLines
  <2>2. ASSUME NEW u \in Users, NEW t \in Tracks, RemoveDislike(u, t)
        PROVE  After
    BY <1>0, <2>2 DEF RemoveDislike, IsSaved
  <2>3. ASSUME NEW u \in Users, NextInBatch(u)
        PROVE  After
    <3>1. UNCHANGED <<saved, adding>> /\ InTurn(u)
      BY <2>3, Owners DEF NextInBatch, MayRun, InTurn
    <3>2. CASE UNCHANGED lock
      BY <1>0, <3>1, <3>2 DEF IsSaved
    <3>3. CASE lock' = Released(u)
      <4>1. Range(lock'[UserOf[e]]) \subseteq Range(lock[UserOf[e]])
        BY <3>1, <3>3, ReleaseShape
      <4> QED
        BY <1>0, <3>1, <4>1 DEF IsSaved
    <3> QED
      BY <2>3, <3>2, <3>3 DEF NextInBatch
  <2> QED
    BY <1>5, <2>1, <2>2, <2>3 DEF ConsumerStep
<1>6. ASSUME NEW r \in Runners, Trial(r)
      PROVE  After
  <2>1. UNCHANGED <<saved, adding>> /\ Range(lock'[UserOf[e]]) \subseteq Range(lock[UserOf[e]])
    BY <1>6, TurnLines
  <2> QED
    BY <1>0, <2>1 DEF IsSaved
<1>7. ASSUME NEW n \in Strays, StrayStep(n)
      PROVE  After
  <2>1. UNCHANGED <<saved, adding, lock>>
    BY <1>7 DEF StrayStep, StrayRetrieves, StrayWrites, StrayEnds
  <2> QED
    BY <1>0, <2>1 DEF IsSaved
<1> QED
  BY <1>2, <1>3, <1>4, <1>5, <1>6, <1>7 DEF TasteStep, ListenerStep

LEMMA OwnNext ==
    ASSUME TypeOK, LockInv, WaitInv, OwnInv, TasteStep
    PROVE  OwnInv'
<1> USE DEF eventVars, addVars, serialVars, profileVars, historyVars
<1> \A e \in Events : /\ UserOf[e] \in Users /\ e \in Runners
                      /\ (IsSaved(e) => IsSaved(e)') /\ OwnerOf(e) = UserOf[e]
  BY TasteAssumption, PressedStays, Owners DEF Runners
<1> \A u \in Users : u \in Runners /\ OwnerOf(u) = u
  BY Owners DEF Runners
<1>1. \A e \in applied' : IsSaved(e)'
  <2>1. CASE UNCHANGED applied
    BY <2>1 DEF OwnInv, TypeOK
  <2>2. ASSUME NEW r \in Runners, MarkApplied(r)
        PROVE  \A e \in applied' : IsSaved(e)'
    <3>1. turn[r].event \in Events /\ IsSaved(turn[r].event)
      BY <2>2 DEF MarkApplied, OwnInv, TypeOK, Turn
    <3>2. \A e \in applied : e \in Events /\ IsSaved(e)
      BY DEF OwnInv, TypeOK
    <3> QED
      BY <2>2, <3>1, <3>2 DEF MarkApplied
  <2> QED
    BY <2>1, <2>2 DEF TasteStep, ListenerStep, AddLooks, AddStores, Record, SaveEvent,
       ConsumerStep, NextInBatch, RemoveDislike, OnDoneTaste, Trial, Guard, Retrieve,
       NotApplied, AppliedElsewhere, WriteProfile, TrialThrows, StrayStep, StrayRetrieves,
       StrayWrites, StrayEnds
<1>2. \A u \in Users : \A e \in batch'[u] : IsSaved(e)' /\ UserOf[e] = u
  <2>1. CASE UNCHANGED batch
    BY <2>1 DEF OwnInv, TypeOK
  <2>2. ASSUME NEW t \in Tracks, batch' = [u \in Users |-> Pending(t, u)], UNCHANGED saved
        PROVE  \A u \in Users : \A e \in batch'[u] : IsSaved(e)' /\ UserOf[e] = u
    BY <2>2 DEF Pending, IsSaved
  <2>3. ASSUME NEW v \in Users, NEW f \in batch[v], batch' = [batch EXCEPT ![v] = @ \ {f}]
        PROVE  \A u \in Users : \A e \in batch'[u] : IsSaved(e)' /\ UserOf[e] = u
    BY <2>3 DEF OwnInv, TypeOK
  <2>4. ASSUME NEW t \in Tracks, OnDoneTaste(t)
        PROVE  (batch' = [u \in Users |-> Pending(t, u)] \/ UNCHANGED batch)
               /\ UNCHANGED saved
    BY <2>4 DEF OnDoneTaste
  <2>5. ASSUME NEW v \in Users, NextInBatch(v)
        PROVE  UNCHANGED batch \/ \E f \in batch[v] : batch' = [batch EXCEPT ![v] = @ \ {f}]
    BY <2>5 DEF NextInBatch
  <2>6. \/ UNCHANGED batch
        \/ \E t \in Tracks : OnDoneTaste(t)
        \/ \E v \in Users : NextInBatch(v)
    BY DEF TasteStep, ListenerStep, AddLooks, AddStores, Record, SaveEvent, ConsumerStep,
       RemoveDislike, Trial, Guard, Retrieve, NotApplied, AppliedElsewhere, WriteProfile,
       MarkApplied, TrialThrows, StrayStep, StrayRetrieves, StrayWrites, StrayEnds
  <2> QED
    BY <2>1, <2>2, <2>3, <2>4, <2>5, <2>6
<1>3. ASSUME NEW q \in Runners, turn'[q].at # "none"
      PROVE  IsSaved(turn[q].event)' /\ UserOf[turn'[q].event] = OwnerOf(q)
  <2> DEFINE Owned == IsSaved(turn[q].event)' /\ UserOf[turn'[q].event] = OwnerOf(q)
  <2>1. ASSUME turn[q].at # "none" /\ turn'[q].event = turn[q].event
        PROVE  Owned
    BY <2>1 DEF OwnInv, TypeOK, Turn
  <2>2. ASSUME UNCHANGED turn
        PROVE  Owned
    BY <1>3, <2>1, <2>2
  <2>3. ASSUME NEW r \in Runners, turn[r].at # "none", EndTurn(r)
        PROVE  Owned
    <3>1. turn' = [turn EXCEPT ![r] = NoTurn] /\ turn'[r].at = "none"
      BY <2>3, EndTurnShape
    <3>2. turn'[q] = turn[q]
      BY <1>3, <3>1 DEF TypeOK
    <3> QED
      BY <1>3, <2>1, <3>2
  <2>4. ASSUME NEW r \in Runners,
               Guard(r) \/ Retrieve(r) \/ AppliedElsewhere(r) \/ WriteProfile(r)
        PROVE  Owned
    <3>1. GoesOn(r)
      BY <2>4, TrialGoesOn
    <3>2. turn[q].at # "none" /\ turn'[q].event = turn[q].event
      BY <1>3, <3>1 DEF GoesOn
    <3> QED
      BY <2>1, <3>2
  <2>5. ASSUME NEW r \in Runners, NEW e \in Events, turn' = [turn EXCEPT ![r] = Trying(e)],
               IsSaved(e)', UserOf[e] = OwnerOf(r)
        PROVE  Owned
    <3>1. turn'[r].event = e /\ \A s \in Runners \ {r} : turn'[s] = turn[s]
      BY <2>5 DEF Trying, TypeOK
    <3> QED
      BY <1>3, <2>1, <2>5, <3>1
  <2>6. ASSUME NEW e \in Events, SaveEvent(e)
        PROVE  Owned
    <3>1. CASE saved' = Append(saved, e) /\ turn' = [turn EXCEPT ![e] = Trying(e)]
      <4>1. IsSaved(e)'
        BY <3>1, RangeAppend DEF TypeOK, IsSaved
      <4> QED
        BY <2>5, <3>1, <4>1
    <3>2. CASE SaveFails(e)
      BY <2>2, <3>2 DEF SaveFails
    <3> QED
      BY <2>6, <3>1, <3>2 DEF SaveEvent
  <2>7. ASSUME NEW v \in Users, NextInBatch(v)
        PROVE  Owned
    <3>1. ASSUME NEW e \in batch[v], turn' = [turn EXCEPT ![v] = Trying(e)]
          PROVE  Owned
      <4>1. e \in Events /\ IsSaved(e)' /\ UserOf[e] = OwnerOf(v) /\ v \in Runners
        BY DEF OwnInv, TypeOK
      <4> QED
        BY <3>1, <4>1, <2>5
    <3>2. UNCHANGED turn \/ \E e \in batch[v] : turn' = [turn EXCEPT ![v] = Trying(e)]
      BY <2>7 DEF NextInBatch
    <3> QED
      BY <2>2, <3>1, <3>2
  <2>8. \/ UNCHANGED turn
        \/ \E e \in Events : SaveEvent(e)
        \/ \E u \in Users : NextInBatch(u)
        \/ \E r \in Runners : turn[r].at # "none" /\ EndTurn(r)
        \/ \E r \in Runners : Guard(r) \/ Retrieve(r) \/ AppliedElsewhere(r) \/ WriteProfile(r)
    BY DEF TasteStep, ListenerStep, AddLooks, AddStores, Record, ConsumerStep, OnDoneTaste,
       RemoveDislike, Trial, NotApplied, MarkApplied, TrialThrows, StrayStep, StrayRetrieves,
       StrayWrites, StrayEnds
  <2> HIDE DEF Owned
  <2>9. Owned
    BY <2>2, <2>3, <2>4, <2>6, <2>7, <2>8
  <2> QED
    BY <2>9 DEF Owned
<1>4. \A e \in Events : adding'[e] # "none" =>
         KindOf[e] = "dislike" /\ ~IsSaved(e)' /\ e \notin Range(lock'[UserOf[e]])
  BY AddingNext
<1> QED
  BY <1>1, <1>2, <1>3, <1>4 DEF OwnInv, OwnerOf

-------------------------------------------------------------------------------
(* Dislikes. *)

(* A dislike an error lost, or one on its way whose last trial is not past its *)
(* fold.                                                                       *)
Due(u, t) ==
    \E d \in Events :
        /\ IsDislikeOf(d, u, t)
        /\ d \in lost
           \/ /\ Pressed(d) /\ d \notin applied
              /\ \A r \in Runners : ~(turn[r].at = "mark" /\ turn[r].event = d)

(* Nor is a like of the track past the guard.                                  *)
Settled(u, t) ==
    /\ LastIsNoLike(u, t)
    /\ \A r \in Runners :
          /\ turn[r].at \in {"retrieve", "write"}
          /\ UserOf[turn[r].event] = u /\ TrackOf[turn[r].event] = t
          => KindOf[turn[r].event] # "like"

DislikeInv ==
    \A u \in Users, t \in Tracks : <<u, t>> \in disliked => Due(u, t) \/ Settled(u, t)

(* A dislike stays due while nobody marks it.                                  *)
LEMMA DueStays ==
    ASSUME TypeOK, LockInv, WaitInv, OwnInv, TasteStep, NEW u \in Users, NEW t \in Tracks,
           Due(u, t),
           \A d \in applied' : d \in applied \/ \E r \in Runners : turn[r].at = "mark"
                                                                   /\ turn[r].event = d,
           \A r \in Runners : turn'[r].at = "mark" /\ IsDislikeOf(turn'[r].event, u, t) =>
              turn[r].at = "mark" /\ turn[r].event = turn'[r].event
    PROVE  Due(u, t)'
<1>1. PICK d \in Events :
         /\ IsDislikeOf(d, u, t)
         /\ d \in lost
            \/ /\ Pressed(d) /\ d \notin applied
               /\ \A r \in Runners : ~(turn[r].at = "mark" /\ turn[r].event = d)
  BY DEF Due
<1>2. lost \subseteq lost' /\ (Pressed(d) => Pressed(d)' \/ d \in lost')
  BY PressedStays
<1>3. CASE d \in lost'
  BY <1>1, <1>3 DEF Due, IsDislikeOf
<1>4. CASE d \notin lost'
  <2>1. /\ Pressed(d)' /\ d \notin applied
        /\ \A r \in Runners : ~(turn[r].at = "mark" /\ turn[r].event = d)
    BY <1>1, <1>2, <1>4
  <2>2. d \notin applied'
    BY <2>1
  <2>3. \A r \in Runners : ~(turn'[r].at = "mark" /\ turn'[r].event = d)
    BY <1>1, <2>1
  <2> QED
    BY <1>1, <2>1, <2>2, <2>3 DEF Due, IsDislikeOf
<1> QED
  BY <1>3, <1>4

(* The last event stays no like when nothing is folded.                        *)
LEMMA LastStays ==
    ASSUME NEW u \in Users, NEW t \in Tracks, LastIsNoLike(u, t), folded'[u] = folded[u],
           late \subseteq late'
    PROVE  LastIsNoLike(u, t)'
BY DEF LastIsNoLike

(* After a fold the last event is the one folded, if it is of the track.       *)
LEMMA LastAfterFold ==
    ASSUME TypeOK, NEW u \in Users, NEW t \in Tracks, NEW e \in Events, late \subseteq late',
           folded'[u] = Append(folded[u], e),
           TrackOf[e] = t => KindOf[e] # "like" \/ e \in late',
           TrackOf[e] # t => LastIsNoLike(u, t)
    PROVE  LastIsNoLike(u, t)'
<1> DEFINE n == Len(folded[u])
<1>0. folded[u] \in Seq(Events) /\ n \in Nat
  BY DEF TypeOK
<1>1. /\ Len(folded'[u]) = n + 1 /\ folded'[u][n + 1] = e
      /\ \A i \in 1..n : folded'[u][i] = folded[u][i]
  BY <1>0
<1> SUFFICES ASSUME NEW i \in 1..(n + 1), TrackOf[folded'[u][i]] = t,
                    \A j \in 1..(n + 1) : j > i => TrackOf[folded'[u][j]] # t
             PROVE  KindOf[folded'[u][i]] # "like" \/ folded'[u][i] \in late'
  BY <1>1 DEF LastIsNoLike
<1>2. n + 1 \in 1..(n + 1) /\ 1..n \subseteq 1..(n + 1)
  BY <1>0
<1>3. CASE TrackOf[e] = t
  <2>1. ~(n + 1 > i)
    BY <1>1, <1>2, <1>3
  <2>2. i = n + 1
    BY <1>0, <2>1
  <2> QED
    BY <1>1, <1>3, <2>2
<1>4. CASE TrackOf[e] # t
  <2>1. i # n + 1
    BY <1>1, <1>4
  <2>2. i \in 1..n
    BY <1>0, <2>1
  <2>3. TrackOf[folded[u][i]] = t /\ \A j \in 1..n : j > i => TrackOf[folded[u][j]] # t
    BY <1>1, <1>2, <2>2
  <2>4. KindOf[folded[u][i]] # "like" \/ folded[u][i] \in late
    BY <1>4, <2>2, <2>3 DEF LastIsNoLike
  <2> QED
    BY <1>1, <2>2, <2>4
<1> QED
  BY <1>3, <1>4

(* Steps that neither fold nor mark an event nor take one past the guard leave *)
(* dislikes as they are.                                                       *)
LEMMA QuietStep ==
    ASSUME TypeOK, LockInv, WaitInv, OwnInv, DislikeInv, TasteStep,
           UNCHANGED <<applied, folded>>,
           \A r \in Runners : turn'[r] = turn[r] \/ turn'[r].at \in {"none", "guard"},
           \A u \in Users, t \in Tracks :
              <<u, t>> \in disliked' => <<u, t>> \in disliked \/ Due(u, t)'
    PROVE  DislikeInv'
<1> SUFFICES ASSUME NEW u \in Users, NEW t \in Tracks, <<u, t>> \in disliked'
             PROVE  Due(u, t)' \/ Settled(u, t)'
  BY DEF DislikeInv
<1>1. CASE <<u, t>> \in disliked /\ Due(u, t)
  <2>1. \A r \in Runners : turn'[r].at = "mark" => turn'[r] = turn[r]
    OBVIOUS
  <2> QED
    BY <1>1, <2>1, DueStays
<1>2. CASE <<u, t>> \in disliked /\ Settled(u, t)
  <2>1. LastIsNoLike(u, t)'
    BY <1>2, PressedStays, LastStays DEF Settled
  <2>2. \A r \in Runners : turn'[r].at \in {"retrieve", "write"} => turn'[r] = turn[r]
    OBVIOUS
  <2> QED
    BY <1>2, <2>1, <2>2 DEF Settled
<1> QED
  BY <1>1, <1>2 DEF DislikeInv

LEMMA QuietSteps ==
    ASSUME TypeOK, LockInv, WaitInv, OwnInv, DislikeInv, TasteStep,
           \/ \E e \in Events : ListenerStep(e)
           \/ ConsumerStep
           \/ \E r \in Runners : NotApplied(r) \/ TrialThrows(r)
           \/ \E n \in Strays : StrayRetrieves(n) \/ StrayEnds(n)
    PROVE  DislikeInv'
<1> USE DEF eventVars, addVars, serialVars, profileVars, historyVars
<1> \A e \in Events : e \in Runners /\ UserOf[e] \in Users /\ TrackOf[e] \in Tracks
  BY TasteAssumption DEF Runners
<1> \A u \in Users : u \in Runners
  BY DEF Runners
<1> DEFINE Calm == \A r \in Runners : turn'[r] = turn[r] \/ turn'[r].at \in {"none", "guard"}
           NoneNew == \A u \in Users, t \in Tracks :
                         <<u, t>> \in disliked' => <<u, t>> \in disliked \/ Due(u, t)'
<1>1. UNCHANGED <<applied, folded>>
  BY DEF ListenerStep, AddLooks, AddStores, Record, SaveEvent, ConsumerStep, OnDoneTaste,
         NextInBatch, RemoveDislike, NotApplied, TrialThrows, StrayRetrieves, StrayEnds
<1>2. ASSUME NEW r \in Runners, NEW e, turn' = [turn EXCEPT ![r] = Trying(e)]
      PROVE  Calm
  BY <1>2 DEF Trying, TypeOK
<1>3. Calm
  <2>1. ASSUME NEW e \in Events, ListenerStep(e)
        PROVE  Calm
    <3>1. UNCHANGED turn \/ turn' = [turn EXCEPT ![e] = Trying(e)]
      BY <2>1 DEF ListenerStep, AddLooks, AddStores, Record, SaveEvent, SaveFails
    <3> QED
      BY <1>2, <3>1
  <2>2. ASSUME ConsumerStep
        PROVE  Calm
    <3>1. UNCHANGED turn \/ \E u \in Users : \E e \in batch[u] :
                               turn' = [turn EXCEPT ![u] = Trying(e)]
      BY <2>2 DEF ConsumerStep, OnDoneTaste, NextInBatch, RemoveDislike
    <3> QED
      BY <1>2, <3>1
  <2>3. ASSUME NEW r \in Runners, NotApplied(r) \/ TrialThrows(r)
        PROVE  Calm
    <3>1. turn[r].at # "none" /\ EndTurn(r)
      BY <2>3 DEF NotApplied, TrialThrows
    <3>2. turn' = [turn EXCEPT ![r] = NoTurn] /\ turn'[r].at = "none"
      BY <3>1, EndTurnShape
    <3> QED
      BY <3>2 DEF TypeOK
  <2>4. ASSUME NEW n \in Strays, StrayRetrieves(n) \/ StrayEnds(n)
        PROVE  Calm
    BY <2>4 DEF StrayRetrieves, StrayEnds
  <2> HIDE DEF Calm
  <2> QED
    BY <2>1, <2>2, <2>3, <2>4
<1>4. NoneNew
  <2>1. ASSUME NEW e \in Events, AddStores(e)
        PROVE  NoneNew
    <3> SUFFICES ASSUME NEW u \in Users, NEW t \in Tracks, <<u, t>> \in disliked',
                        <<u, t>> \notin disliked
                 PROVE  Due(u, t)'
      OBVIOUS
    <3>1. /\ adding[e] = "saving" /\ UserOf[e] = u /\ TrackOf[e] = t
          /\ adding' = [adding EXCEPT ![e] = "asking"]
          /\ UNCHANGED <<applied, turn>>
      BY <2>1 DEF AddStores
    <3>2. KindOf[e] = "dislike" /\ ~IsSaved(e)
      BY <3>1 DEF OwnInv
    <3>3. Pressed(e)'
      BY <3>1 DEF Pressed, TypeOK
    <3>4. e \notin applied' /\ \A r \in Runners : ~(turn'[r].at = "mark" /\ turn'[r].event = e)
      BY <3>1, <3>2 DEF OwnInv
    <3> QED
      BY <3>1, <3>2, <3>3, <3>4 DEF Due, IsDislikeOf
  <2>2. CASE disliked' \subseteq disliked
    BY <2>2
  <2>3. disliked' \subseteq disliked \/ \E e \in Events : AddStores(e)
    BY DEF ListenerStep, AddLooks, Record, SaveEvent, ConsumerStep, OnDoneTaste,
           NextInBatch, RemoveDislike, NotApplied, TrialThrows, StrayRetrieves, StrayEnds
  <2> QED
    BY <2>1, <2>2, <2>3
<1> QED
  BY <1>1, <1>3, <1>4, QuietStep

(* The guard takes a like past it only when the track is not disliked, and     *)
(* turns a dislike away only when its row is gone.                             *)
LEMMA GuardStep ==
    ASSUME TypeOK, LockInv, WaitInv, OwnInv, DislikeInv, TasteStep,
           NEW r \in Runners, Guard(r),
           NEW u \in Users, NEW t \in Tracks, <<u, t>> \in disliked'
    PROVE  Due(u, t)' \/ Settled(u, t)'
<1> DEFINE e == turn[r].event
           mine == UserOf[e] = u /\ TrackOf[e] = t
<1>1. e \in Events /\ KindOf[e] \in {"like", "dislike"} /\ turn[r] \in Turn
      /\ e \in Runners
  BY TasteAssumption DEF TypeOK, Turn, Runners
<1>2. UNCHANGED <<applied, folded, disliked>>
  BY DEF Guard, eventVars, addVars, profileVars
<1>3. PICK a \in {"mark", "retrieve"} :
          /\ turn' = [turn EXCEPT ![r].at = a]
          /\ mine => (a = "mark" <=> KindOf[e] = "like")
  <2>1. PICK a \in {"mark", "retrieve"} :
            /\ turn' = [turn EXCEPT ![r].at = a]
            /\ a = "mark" <=> (KindOf[e] = "like" /\ Disliked(e))
                              \/ (KindOf[e] = "dislike" /\ ~Disliked(e))
    BY DEF Guard
  <2>2. mine => Disliked(e)
    BY <1>2 DEF Disliked
  <2> QED
    BY <1>1, <2>1, <2>2
<1>4. /\ turn'[r].at = a /\ turn'[r].event = e
      /\ \A q \in Runners \ {r} : turn'[q] = turn[q]
  BY <1>1, <1>3 DEF TypeOK, Turn
<1>5. CASE Due(u, t)
  <2>1. \A q \in Runners : turn'[q].at = "mark" /\ IsDislikeOf(turn'[q].event, u, t) =>
           turn[q].at = "mark" /\ turn[q].event = turn'[q].event
    BY <1>3, <1>4 DEF IsDislikeOf
  <2> QED
    BY <1>2, <1>5, <2>1, DueStays
<1>6. CASE Settled(u, t)
  <2>1. LastIsNoLike(u, t)'
    BY <1>2, <1>6, PressedStays, LastStays DEF Settled
  <2>2. turn'[r].at \in {"retrieve", "write"} /\ mine => KindOf[e] # "like"
    BY <1>3, <1>4
  <2> QED
    BY <1>4, <1>6, <2>1, <2>2 DEF Settled
<1> QED
  BY <1>2, <1>5, <1>6 DEF DislikeInv

LEMMA RetrieveStep ==
    ASSUME TypeOK, LockInv, WaitInv, OwnInv, DislikeInv, TasteStep,
           NEW r \in Runners, Retrieve(r),
           NEW u \in Users, NEW t \in Tracks, <<u, t>> \in disliked'
    PROVE  Due(u, t)' \/ Settled(u, t)'
<1>1. UNCHANGED <<applied, folded, disliked>> /\ turn[r].at = "retrieve"
  BY DEF Retrieve, eventVars, addVars, profileVars
<1>2. /\ turn'[r].at = "write" /\ turn'[r].event = turn[r].event
      /\ \A q \in Runners \ {r} : turn'[q] = turn[q]
  BY TrialGoesOn DEF GoesOn
<1>3. CASE Due(u, t)
  <2>1. \A q \in Runners : turn'[q].at = "mark" => turn'[q] = turn[q]
    BY <1>2
  <2> QED
    BY <1>1, <1>3, <2>1, DueStays
<1>4. CASE Settled(u, t)
  <2>1. LastIsNoLike(u, t)'
    BY <1>1, <1>4, PressedStays, LastStays DEF Settled
  <2> QED
    BY <1>1, <1>2, <1>4, <2>1 DEF Settled
<1> QED
  BY <1>1, <1>3, <1>4 DEF DislikeInv

(* Nobody else tries an event of the user.                                     *)
LEMMA OneTries ==
    ASSUME TypeOK, LockInv, OwnInv, NEW r \in Runners, turn[r].at # "none",
           NEW q \in Runners \ {r}, turn[q].at # "none"
    PROVE  UserOf[turn[q].event] # UserOf[turn[r].event]
<1>1. /\ UserOf[turn[q].event] = OwnerOf(q) /\ UserOf[turn[r].event] = OwnerOf(r)
      /\ InTurn(q) /\ InTurn(r)
  BY DEF OwnInv, LockInv
<1> QED
  BY <1>1 DEF InTurn

(* A dislike that another profile alone took: it was lost by an error, or the  *)
(* track has no vector yet and so no event of it was folded.                   *)
LEMMA ElsewhereStep ==
    ASSUME TypeOK, LockInv, FoldInv, WaitInv, OwnInv, DislikeInv, TasteStep,
           NEW r \in Runners, AppliedElsewhere(r),
           NEW u \in Users, NEW t \in Tracks, <<u, t>> \in disliked'
    PROVE  Due(u, t)' \/ Settled(u, t)'
<1> DEFINE e == turn[r].event
<1>1. /\ UNCHANGED <<applied, folded, disliked>> /\ turn[r].at = "retrieve"
      /\ TrackOf[e] \notin mert \/ e \in lost'
      /\ e \in Events
  BY DEF AppliedElsewhere, eventVars, addVars, profileVars, TypeOK, Turn
<1>2. /\ turn'[r].at = "mark" /\ turn'[r].event = e
      /\ \A q \in Runners \ {r} : turn'[q] = turn[q]
  BY TrialGoesOn DEF GoesOn
<1>3. CASE Due(u, t) /\ ~IsDislikeOf(e, u, t)
  <2>1. \A q \in Runners : turn'[q].at = "mark" /\ IsDislikeOf(turn'[q].event, u, t) =>
           turn[q].at = "mark" /\ turn[q].event = turn'[q].event
    BY <1>2, <1>3 DEF IsDislikeOf
  <2> QED
    BY <1>1, <1>3, <2>1, DueStays
<1>4. CASE IsDislikeOf(e, u, t) /\ e \in lost'
  BY <1>1, <1>4 DEF Due, IsDislikeOf
<1>5. CASE IsDislikeOf(e, u, t) /\ t \notin mert
  <2>1. LastIsNoLike(u, t)'
    BY <1>1, <1>5 DEF FoldInv, LastIsNoLike
  <2>2. ASSUME NEW q \in Runners, turn'[q].at \in {"retrieve", "write"}
        PROVE  UserOf[turn'[q].event] # u
    <3>1. q # r /\ turn'[q] = turn[q] /\ turn[q].at # "none"
      BY <1>2, <2>2
    <3> QED
      BY <1>1, <1>5, <3>1, OneTries DEF IsDislikeOf
  <2> QED
    BY <2>1, <2>2 DEF Settled
<1>6. CASE Settled(u, t)
  <2>1. LastIsNoLike(u, t)'
    BY <1>1, <1>6, PressedStays, LastStays DEF Settled
  <2> QED
    BY <1>2, <1>6, <2>1 DEF Settled
<1> QED
  BY <1>1, <1>3, <1>4, <1>5, <1>6 DEF DislikeInv, IsDislikeOf

LEMMA MarkStep ==
    ASSUME TypeOK, LockInv, WaitInv, OwnInv, DislikeInv, TasteStep,
           NEW r \in Runners, MarkApplied(r),
           NEW u \in Users, NEW t \in Tracks, <<u, t>> \in disliked'
    PROVE  Due(u, t)' \/ Settled(u, t)'
<1>1. UNCHANGED <<folded, disliked>> /\ applied' = applied \cup {turn[r].event}
      /\ turn[r].at = "mark" /\ EndTurn(r)
  BY DEF MarkApplied, addVars, profileVars
<1>2. turn'[r].at = "none" /\ \A q \in Runners \ {r} : turn'[q] = turn[q]
  <2>1. turn' = [turn EXCEPT ![r] = NoTurn] /\ turn'[r].at = "none"
    BY <1>1, EndTurnShape
  <2> QED
    BY <2>1 DEF TypeOK
<1>3. CASE Due(u, t)
  <2>1. \A q \in Runners : turn'[q].at = "mark" => turn'[q] = turn[q]
    BY <1>2
  <2>2. \A d \in applied' : d \in applied
           \/ \E q \in Runners : turn[q].at = "mark" /\ turn[q].event = d
    BY <1>1
  <2> QED
    BY <1>3, <2>1, <2>2, DueStays
<1>4. CASE Settled(u, t)
  <2>1. LastIsNoLike(u, t)'
    BY <1>1, <1>4, PressedStays, LastStays DEF Settled
  <2> QED
    BY <1>2, <1>4, <2>1 DEF Settled
<1> QED
  BY <1>1, <1>3, <1>4 DEF DislikeInv

(* A fold by a turn: a dislike is the last event now, a like finds its dislike *)
(* due, and an event of another track or user changes nothing.                 *)
LEMMA FoldStep ==
    ASSUME TypeOK, LockInv, WaitInv, OwnInv, DislikeInv, TasteStep,
           NEW r \in Runners, WriteProfile(r),
           NEW u \in Users, NEW t \in Tracks, <<u, t>> \in disliked'
    PROVE  Due(u, t)' \/ Settled(u, t)'
<1> DEFINE e == turn[r].event
           mine == UserOf[e] = u /\ TrackOf[e] = t
<1>1. /\ UNCHANGED <<applied, disliked>> /\ turn[r].at = "write"
      /\ folded' = [folded EXCEPT ![OwnerOf(r)] = Append(@, e)]
  BY DEF WriteProfile, eventVars, addVars
<1>2. /\ e \in Events /\ KindOf[e] \in {"like", "dislike"} /\ UserOf[e] = OwnerOf(r)
  BY <1>1, TasteAssumption DEF TypeOK, Turn, OwnInv
<1>3. /\ turn'[r].at = "mark" /\ turn'[r].event = e
      /\ \A q \in Runners \ {r} : turn'[q] = turn[q]
  BY TrialGoesOn DEF GoesOn
<1>4. CASE Due(u, t) /\ ~(mine /\ KindOf[e] = "dislike")
  <2>1. \A q \in Runners : turn'[q].at = "mark" /\ IsDislikeOf(turn'[q].event, u, t) =>
           turn[q].at = "mark" /\ turn[q].event = turn'[q].event
    BY <1>3, <1>4 DEF IsDislikeOf
  <2> QED
    BY <1>1, <1>4, <2>1, DueStays
<1>5. /\ UserOf[e] = u => folded'[u] = Append(folded[u], e)
      /\ UserOf[e] # u => folded'[u] = folded[u]
  BY <1>1, <1>2 DEF TypeOK
<1>6. CASE mine /\ KindOf[e] = "dislike"
  <2>1. LastIsNoLike(u, t)'
    BY <1>2, <1>5, <1>6, PressedStays, LastAfterFold
  <2>2. ASSUME NEW q \in Runners, turn'[q].at \in {"retrieve", "write"}
        PROVE  UserOf[turn'[q].event] # u
    <3>1. q # r /\ turn'[q] = turn[q] /\ turn[q].at # "none"
      BY <1>3, <2>2
    <3> QED
      BY <1>1, <1>6, <3>1, OneTries
  <2> QED
    BY <2>1, <2>2 DEF Settled
<1>7. CASE Settled(u, t) /\ ~mine
  <2>1. LastIsNoLike(u, t)'
    <3>1. CASE UserOf[e] # u
      BY <1>5, <1>7, <3>1, PressedStays, LastStays DEF Settled
    <3>2. CASE UserOf[e] = u /\ TrackOf[e] # t
      BY <1>2, <1>5, <1>7, <3>2, PressedStays, LastAfterFold DEF Settled
    <3> QED
      BY <1>7, <3>1, <3>2
  <2> QED
    BY <1>3, <1>7, <2>1 DEF Settled
<1>8. ~(Settled(u, t) /\ mine /\ KindOf[e] = "like")
  BY <1>1 DEF Settled
<1> QED
  BY <1>1, <1>2, <1>4, <1>6, <1>7, <1>8 DEF DislikeInv

(* A fold by a stray update: what it folds is late.                            *)
LEMMA LateFoldStep ==
    ASSUME TypeOK, LockInv, WaitInv, OwnInv, DislikeInv, TasteStep,
           NEW n \in Strays, StrayWrites(n),
           NEW u \in Users, NEW t \in Tracks, <<u, t>> \in disliked'
    PROVE  Due(u, t)' \/ Settled(u, t)'
<1> DEFINE e == stray[n].event
<1>1. /\ UNCHANGED <<applied, disliked, turn>> /\ e \in late' /\ e \in Events
      /\ folded' = [folded EXCEPT ![UserOf[e]] = Append(@, e)]
  BY DEF StrayWrites, eventVars, addVars, serialVars, TypeOK, Turn
<1>2. CASE Due(u, t)
  BY <1>1, <1>2, DueStays
<1>3. CASE Settled(u, t)
  <2>1. LastIsNoLike(u, t)'
    <3>1. CASE UserOf[e] # u
      <4>1. folded'[u] = folded[u]
        BY <1>1, <3>1 DEF TypeOK
      <4> QED
        BY <1>3, <4>1, PressedStays, LastStays DEF Settled
    <3>2. CASE UserOf[e] = u
      <4>1. folded'[u] = Append(folded[u], e)
        BY <1>1, <3>2 DEF TypeOK
      <4> QED
        BY <1>1, <1>3, <4>1, PressedStays, LastAfterFold DEF Settled
    <3> QED
      BY <3>1, <3>2
  <2> QED
    BY <1>1, <1>3, <2>1 DEF Settled
<1> QED
  BY <1>1, <1>2, <1>3 DEF DislikeInv

LEMMA DislikeNext ==
    ASSUME TypeOK, LockInv, FoldInv, WaitInv, OwnInv, DislikeInv, TasteStep
    PROVE  DislikeInv'
<1>1. ASSUME NEW r \in Runners, Guard(r) \/ Retrieve(r) \/ AppliedElsewhere(r)
                                   \/ WriteProfile(r) \/ MarkApplied(r)
      PROVE  DislikeInv'
  BY <1>1, GuardStep, RetrieveStep, ElsewhereStep, FoldStep, MarkStep DEF DislikeInv
<1>2. ASSUME NEW n \in Strays, StrayWrites(n)
      PROVE  DislikeInv'
  BY <1>2, LateFoldStep DEF DislikeInv
<1>3. \/ \E e \in Events : ListenerStep(e)
      \/ ConsumerStep
      \/ \E r \in Runners : NotApplied(r) \/ TrialThrows(r)
      \/ \E n \in Strays : StrayRetrieves(n) \/ StrayEnds(n)
      \/ \E r \in Runners : Guard(r) \/ Retrieve(r) \/ AppliedElsewhere(r)
                               \/ WriteProfile(r) \/ MarkApplied(r)
      \/ \E n \in Strays : StrayWrites(n)
  BY DEF TasteStep, Trial, StrayStep
<1> QED
  BY <1>1, <1>2, <1>3, QuietSteps

-------------------------------------------------------------------------------
(* The invariant. *)

IInv == TypeOK /\ VectorInv /\ FoldInv /\ LockInv /\ ProfileInv /\ OwnInv /\ WaitInv
            /\ DislikeInv

LEMMA IInvInit == Init => IInv
<1> SUFFICES ASSUME Init PROVE IInv
  OBVIOUS
<1>1. IndexingTypeOK /\ VectorInv
  BY Defaults, IndexingAssumption
  DEF Init, IndexingInit, IndexingTypeOK, VectorInv, IndexedHasVector
<1>2. NoTurn \in Turn /\ NoTurn.at = "none"
  BY Defaults DEF Turn
<1>3. TasteTypeOK
  BY <1>2 DEF Init, TasteTypeOK
<1>4. /\ \A r \in Runners : turn[r].at = "none"
      /\ \A n \in Strays : stray[n].at = "none"
  BY <1>2 DEF Init
<1>5. ProfileInv
  <2>1. \A u \in Users : count[u] = 0 /\ folded[u] = <<>>
    BY DEF Init
  <2> QED
    BY <1>4, <2>1 DEF ProfileInv, CountsOf, TurnUpdates, StrayUpdates
<1>6. FoldInv
  BY <1>4 DEF Init, FoldInv
<1>7. WaitInv
  BY <1>4 DEF Init, WaitInv, Waits, IsSaved, Range, Runners
<1>8. OwnInv /\ DislikeInv
  BY <1>4 DEF Init, DislikeInv, OwnInv
<1> QED
  BY <1>1, <1>3, <1>4, <1>5, <1>6, <1>7, <1>8, TypeParts DEF IInv, LockInv

(* The steps of the pipeline leave the rest alone.                             *)
LEMMA TasteUnmoved ==
    ASSUME UNCHANGED tasteVars, LockInv, ProfileInv, OwnInv, DislikeInv
    PROVE  LockInv' /\ ProfileInv' /\ OwnInv' /\ DislikeInv'
<1> UNCHANGED <<saved, applied, disliked, adding, lock, batch, turn, stray, count, folded,
                late, lost, overlapped>>
  BY DEF tasteVars, eventVars, addVars, serialVars, profileVars, historyVars
<1>1. LockInv'
  BY DEF LockInv, InTurn, OwnerOf
<1>2. ProfileInv'
  BY DEF ProfileInv, CountsOf, TurnUpdates, StrayUpdates, OwnerOf
<1>3. OwnInv'
  BY DEF OwnInv, IsSaved, OwnerOf
<1>4. DislikeInv'
  BY DEF DislikeInv, Due, Settled, IsDislikeOf, Pressed, IsSaved, LastIsNoLike
<1> QED
  BY <1>1, <1>2, <1>3, <1>4

LEMMA IInvNext == IInv /\ [Next]_vars => IInv'
<1> SUFFICES ASSUME IInv, [Next]_vars PROVE IInv'
  OBVIOUS
<1> USE DEF IInv
<1>1. CASE Pipeline(PipelineStep)
  <2>1. IndexingTypeOK' /\ VectorInv'
    BY <1>1, PipelineInv, TypeParts DEF Pipeline
  <2>2. UNCHANGED tasteVars
    BY <1>1 DEF Pipeline
  <2>3. TasteTypeOK'
    BY <2>2, TypeParts
    DEF tasteVars, eventVars, addVars, serialVars, profileVars, historyVars, TasteTypeOK
  <2>4. FoldInv'
    <3>1. mert \subseteq mert'
      BY <1>1, PipelineVectors, TypeParts DEF Pipeline
    <3>2. UNCHANGED <<turn, stray, folded>>
      BY <2>2 DEF tasteVars, serialVars, profileVars
    <3> QED
      BY <3>1, <3>2 DEF FoldInv
  <2>5. WaitInv'
    BY <1>1, PipelineWait
  <2> QED
    BY <2>1, <2>2, <2>3, <2>4, <2>5, TasteUnmoved, TypeParts DEF TypeOK, TasteTypeOK
<1>2. CASE TasteStep
  <2>1. IndexingTypeOK' /\ VectorInv'
    BY <1>2, TasteStepOnPipeline DEF VectorInv, IndexedHasVector
  <2>2. TasteTypeOK' /\ LockInv'
    BY <1>2, ListenerSteps, ConsumerSteps, TrialSteps, StraySteps DEF TasteStep
  <2>3. WaitInv'
    BY <1>2, ListenersWait, ConsumerWaits, TrialsWait, StraysWait DEF TasteStep
  <2>4. FoldInv' /\ ProfileInv' /\ OwnInv' /\ DislikeInv'
    BY <1>2, FoldNext, ProfileNext, OwnNext, DislikeNext
  <2> QED
    BY <2>1, <2>2, <2>3, <2>4 DEF TypeOK, TasteTypeOK
<1>3. CASE UNCHANGED vars
  <2>1. UNCHANGED tasteVars /\ UNCHANGED indexingVars
    BY <1>3 DEF vars
  <2>2. TypeOK' /\ VectorInv' /\ FoldInv'
    BY <2>1 DEF indexingVars, qVars, workerVars, tasteVars, eventVars, addVars, serialVars,
           profileVars, historyVars, TypeOK, IndexingTypeOK, VectorInv, IndexedHasVector,
           FoldInv
  <2>3. WaitInv'
    BY <2>1 DEF indexingVars, qVars, tasteVars, eventVars, serialVars, historyVars,
           WaitInv, Waits, IsSaved, InSight, Tries, Told
  <2> QED
    BY <2>1, <2>2, <2>3, TasteUnmoved
<1> QED
  BY <1>1, <1>2, <1>3, NextSteps

LEMMA IInvAlways == Spec => []IInv
<1> QED
  BY IInvInit, IInvNext, PTL DEF Spec

(* The variables of pipeline and profile keep their types.                     *)
THEOREM TasteTypeCorrect == Spec => []TypeOK
<1>1. IInv => TypeOK
  BY DEF IInv
<1> QED
  BY IInvAlways, <1>1, PTL

(* indexed_at is set on no track whose vector is missing, whatever is lost,    *)
(* repeated or killed on the way of the worker's done message.                 *)
THEOREM IndexedTracksHaveVectors == Spec => []IndexedHasVector
<1>1. IInv => IndexedHasVector
  BY DEF IInv, VectorInv
<1> QED
  BY IInvAlways, <1>1, PTL

(* event_count is the number of events folded into the profile: the lock of    *)
(* the user makes reading, folding and writing one, failed trials and the      *)
(* updates they leave behind included, until one of these overlaps with        *)
(* another update.                                                             *)
THEOREM ProfilesCountTheirEvents == Spec => []ProfileCountsEvents
<1>1. IInv => ProfileCountsEvents
  BY DEF IInv, ProfileInv, CountsOf, ProfileCountsEvents
<1> QED
  BY IInvAlways, <1>1, PTL

(* No event is left behind: of an indexed track whose done message has been    *)
(* consumed, every saved event was applied or met an error, once nobody holds  *)
(* its user's lock.                                                            *)
THEOREM NoEventIsLeftBehind == Spec => []NoEventLeftBehind
<1>1. ASSUME IInv, NEW e \in Events, IsSaved(e), row[TrackOf[e]] = "set",
             TrackOf[e] \notin doneTaste, lock[UserOf[e]] = <<>>, e \notin applied \cup unlucky
      PROVE  FALSE
  <2>1. /\ UserOf[e] \in Users /\ UserOf[e] \in Runners /\ e \in Runners
        /\ OwnerOf(e) = UserOf[e] /\ OwnerOf(UserOf[e]) = UserOf[e]
    BY TasteAssumption, Owners DEF Runners
  <2>2. InSight(e)
    BY <1>1 DEF IInv, WaitInv, Waits, Told
  <2>3. ~Tries(e, e) /\ ~Tries(UserOf[e], e)
    BY <1>1, <2>1 DEF IInv, LockInv, InTurn, Tries
  <2>4. batch[UserOf[e]] = {}
    BY <1>1, <2>1 DEF IInv, WaitInv, Range
  <2> QED
    BY <1>1, <2>2, <2>3, <2>4 DEF InSight
<1>2. IInv => NoEventLeftBehind
  BY <1>1 DEF NoEventLeftBehind
<1> QED
  BY IInvAlways, <1>2, PTL

(* The dislike has the last word: with nobody holding the lock of its user, no *)
(* dislike still to be applied and none lost by an error, the last event of a  *)
(* disliked track in the profile is not a like, but one that an update left    *)
(* behind by a failed trial folded late.                                       *)
THEOREM DislikesHaveTheLastWord == Spec => []DislikeHasLastWord
<1>1. ASSUME IInv, NEW u \in Users, NEW t \in Tracks, <<u, t>> \in disliked,
             \A d \in Events :
                IsDislikeOf(d, u, t) => d \notin lost /\ (Asked(d) => d \in applied)
      PROVE  LastIsNoLike(u, t)
  <2>1. \A d \in Events : Pressed(d) => Asked(d)
    BY DEF Pressed, Asked
  <2>2. ~Due(u, t)
    BY <1>1, <2>1 DEF Due
  <2> QED
    BY <1>1, <2>2 DEF IInv, DislikeInv, Settled
<1>2. IInv => DislikeHasLastWord
  BY <1>1 DEF DislikeHasLastWord
<1> QED
  BY IInvAlways, <1>2, PTL

-------------------------------------------------------------------------------
(* Where a track in the pipeline comes from. *)

(* A message, a vector and the task of the worker are about tracks that the    *)
(* storage has, each with a row; nothing that no source delivers gets there.   *)
SourceInv ==
    /\ stored \cap Unfetchable = {}
    /\ uploaded \cup index \cup mert \subseteq stored /\ clap \subseteq mert
    /\ \A t \in calls \cup index \cup mert \cup doneRow : row[t] # "none"
    /\ task.at # "idle" => task.track \in stored /\ row[task.track] # "none"

LEMMA PipelineSource ==
    ASSUME IndexingTypeOK, VectorInv, SourceInv, PipelineStep
    PROVE  SourceInv'
<1> USE DEF qVars, workerVars, IndexingTypeOK
<1>1. ASSUME NEW t \in Tracks, EnsureTrackIndexed(t)
      PROVE  SourceInv'
  BY <1>1 DEF EnsureTrackIndexed, SourceInv
<1>2. ASSUME NEW t \in Tracks, TriggerCached(t) \/ TriggerUpload(t) \/ TriggerFails(t)
                               \/ StoredByStream(t)
      PROVE  SourceInv'
  BY <1>2 DEF TriggerCached, TriggerUpload, TriggerFails, StoredByStream, Announce, SourceInv
<1>3. ASSUME NEW t \in Tracks, OnUploaded(t)
      PROVE  SourceInv'
  <2>1. /\ uploaded' \subseteq uploaded /\ index' \subseteq index \cup {t} /\ t \in stored
        /\ UNCHANGED <<stored, calls, doneRow, mert, clap, task>>
        /\ \A o \in Tracks : row[o] # "none" => row'[o] # "none"
        /\ index' # index => row'[t] # "none"
    BY <1>3 DEF OnUploaded, SourceInv
  <2> QED
    BY <2>1 DEF SourceInv
<1>4. ASSUME NEW t \in Tracks, OnDone(t)
      PROVE  SourceInv'
  <2>1. /\ doneRow' \subseteq doneRow
        /\ UNCHANGED <<stored, calls, uploaded, index, mert, clap, task>>
        /\ \A o \in Tracks : row[o] # "none" => row'[o] # "none"
    BY <1>4 DEF OnDone
  <2> QED
    BY <2>1 DEF SourceInv
<1>5. CASE Reap
  BY <1>5 DEF Reap, SourceInv
<1>6. ASSUME NEW t \in Tracks, Fetch(t)
      PROVE  SourceInv'
  BY <1>6 DEF Fetch, SourceInv
<1>7. CASE CheckVectors
  BY <1>7 DEF CheckVectors, SourceInv
<1>8. CASE UpsertMert \/ UpsertClap
  BY <1>8 DEF UpsertMert, UpsertClap, SourceInv, VectorInv
<1>9. CASE PublishDone
  <2>1. /\ task'.at = "idle" /\ doneRow' \subseteq doneRow \cup {task.track}
        /\ row[task.track] # "none"
        /\ UNCHANGED <<row, stored, calls, uploaded, index, mert, clap>>
    BY <1>9, Defaults DEF PublishDone, SourceInv
  <2> QED
    BY <2>1 DEF SourceInv
<1>10. CASE TaskFails
  <2>1. /\ task'.at = "idle" /\ index' \subseteq index \cup {task.track} /\ task.at # "idle"
        /\ UNCHANGED <<row, stored, calls, uploaded, doneRow, mert, clap>>
    BY <1>10, Defaults DEF TaskFails
  <2> QED
    BY <2>1 DEF SourceInv
<1> QED
  BY <1>1, <1>2, <1>3, <1>4, <1>5, <1>6, <1>7, <1>8, <1>9, <1>10
  DEF PipelineStep, WorkerStep

LEMMA TasteStepSource ==
    ASSUME TypeOK, SourceInv, TasteStep
    PROVE  SourceInv'
<1> USE DEF indexingVars, qVars, workerVars
<1>1. ASSUME NEW r \in Runners, NotApplied(r)
      PROVE  SourceInv'
  <2>1. calls' = calls \/ (calls' = calls \cup {TrackOf[turn[r].event]}
                             /\ row[TrackOf[turn[r].event]] = "null")
    BY <1>1 DEF NotApplied, Queued
  <2>2. UNCHANGED <<row, stored, uploaded, index, doneRow, mert, clap, task>>
    BY <1>1 DEF NotApplied
  <2> QED
    BY <2>1, <2>2 DEF SourceInv
<1>2. CASE UNCHANGED <<row, stored, calls, uploaded, index, doneRow, mert, clap, task>>
  BY <1>2 DEF SourceInv
<1> QED
  BY <1>1, <1>2
  DEF TasteStep, ListenerStep, AddLooks, AddStores, Record, SaveEvent, ConsumerStep,
      NextInBatch, RemoveDislike, OnDoneTaste, Trial, Guard, Retrieve, AppliedElsewhere,
      WriteProfile, MarkApplied, TrialThrows, StrayStep, StrayRetrieves, StrayWrites, StrayEnds

LEMMA SourceNext == IInv /\ SourceInv /\ [Next]_vars => SourceInv'
<1> SUFFICES ASSUME IInv, SourceInv, [Next]_vars PROVE SourceInv'
  OBVIOUS
<1>1. CASE Pipeline(PipelineStep)
  BY <1>1, PipelineSource, TypeParts DEF Pipeline, IInv
<1>2. CASE TasteStep
  BY <1>2, TasteStepSource DEF IInv
<1>3. CASE UNCHANGED vars
  BY <1>3 DEF vars, indexingVars, qVars, workerVars, SourceInv
<1> QED
  BY <1>1, <1>2, <1>3, NextSteps

(* The worker is never stuck with a track it was handed: the storage answers   *)
(* for it, so that the audio to embed can be had, and the row its done message *)
(* is to mark is there.  Nor does a message, lost or repeated as they may be,  *)
(* ever name a track that nobody asked for or that no source delivers.         *)
THEOREM MessagesKnowTheirTrack == Spec => []SourceInv
<1>1. Init => SourceInv
  BY Defaults DEF Init, IndexingInit, SourceInv
<1> QED
  BY <1>1, SourceNext, IInvAlways, PTL DEF Spec

-------------------------------------------------------------------------------
(* The lines before the locks. *)

(* Nobody stands in a line that is not his user's, or twice in his own, and an *)
(* event whose call waits has not been saved.                                  *)
LineInv ==
    /\ \A u \in Users : \A x \in Range(lock[u]) : OwnerOf(x) = u
    /\ \A u \in Users : IsInjective(lock[u])
    /\ \A e \in Events : e \in Range(lock[UserOf[e]]) /\ turn[e].at = "none" => ~IsSaved(e)
    /\ IsInjective(saved)

RunnerStep(r) == (r \in Events /\ SaveEvent(r)) \/ (r \in Users /\ NextInBatch(r)) \/ Trial(r)

GivesWay(u) == lock[u] # <<>> /\ lock'[u] = Tail(lock[u])

(* How a trial ends its turn or goes on with it.                               *)
LEMMA TrialShape ==
    ASSUME TypeOK, LockInv, NEW r \in Runners, Trial(r)
    PROVE  /\ InTurn(r) /\ turn[r].at # "none" /\ UNCHANGED <<saved, batch>>
           /\ \A q \in Runners \ {r} : turn'[q] = turn[q]
           /\ \/ /\ UNCHANGED lock
                 /\ \/ turn[r].at = "guard" /\ turn'[r].at \in {"retrieve", "mark"}
                    \/ turn[r].at = "retrieve" /\ turn'[r].at \in {"write", "mark"}
                    \/ turn[r].at = "write" /\ turn'[r].at = "mark"
              \/ turn'[r].at = "none" /\ r \in Users /\ UNCHANGED lock
              \/ /\ turn'[r].at = "none" /\ r \in Events /\ GivesWay(OwnerOf(r))
                 /\ \A u \in Users \ {OwnerOf(r)} : lock'[u] = lock[u]
<1>1. turn[r].at # "none" /\ InTurn(r) /\ turn \in [Runners -> Turn]
  BY DEF Trial, Guard, Retrieve, NotApplied, AppliedElsewhere, WriteProfile, MarkApplied,
         TrialThrows, TypeOK, LockInv
<1>2. CASE Guard(r) \/ Retrieve(r) \/ AppliedElsewhere(r) \/ WriteProfile(r)
  <2>1. GoesOn(r)
    BY <1>2, TrialGoesOn
  <2> QED
    BY <1>1, <2>1 DEF GoesOn
<1>3. CASE NotApplied(r) \/ MarkApplied(r) \/ TrialThrows(r)
  <2>1. EndTurn(r) /\ UNCHANGED <<saved, batch>>
    BY <1>3 DEF NotApplied, MarkApplied, TrialThrows, eventVars
  <2>2. turn' = [turn EXCEPT ![r] = NoTurn] /\ turn'[r].at = "none"
    BY <1>1, <2>1, EndTurnShape
  <2>3. \A q \in Runners \ {r} : turn'[q] = turn[q]
    BY <1>1, <2>2
  <2>4. CASE r \in Users
    BY <1>1, <2>1, <2>2, <2>3, <2>4 DEF EndTurn
  <2>5. CASE r \in Events
    <3>1. lock' = Released(r)
      BY <2>1, <2>5, TasteAssumption DEF EndTurn
    <3>2. GivesWay(OwnerOf(r)) /\ \A u \in Users \ {OwnerOf(r)} : lock'[u] = lock[u]
      BY <1>1, <3>1, ReleaseShape DEF GivesWay, InTurn
    <3> QED
      BY <1>1, <2>1, <2>2, <2>3, <2>5, <3>2
  <2> QED
    BY <2>4, <2>5 DEF Runners
<1> QED
  BY <1>2, <1>3 DEF Trial

(* How a line changes: nobody joins it twice, and only its first runner leaves *)
(* it, when his turn is over.                                                  *)
QueueMoves(u) ==
    \/ lock'[u] = lock[u]
    \/ \E x \in Runners : /\ lock'[u] = Append(lock[u], x) /\ x \notin Range(lock[u])
                          /\ OwnerOf(x) = u /\ UNCHANGED <<turn, saved>>
                          /\ x \in Events => ~IsSaved(x)
    \/ /\ GivesWay(u) /\ UNCHANGED saved
       /\ LET r == Head(lock[u]) IN
             /\ turn'[r].at = "none" /\ (r \in Events => IsSaved(r) \/ r \in lost')
             /\ \A q \in Runners \ {r} : turn'[q] = turn[q]

(* What a turn may do to an event's claim to be saved.                         *)
EventMoves(e) ==
    \/ turn'[e] = turn[e] /\ (IsSaved(e)' => IsSaved(e))
    \/ turn'[e].at # "none"
    \/ turn'[e].at = "none" /\ GivesWay(UserOf[e]) /\ Head(lock[UserOf[e]]) = e

LEMMA TasteMoves ==
    ASSUME IInv, LineInv, TasteStep
    PROVE  /\ \A u \in Users : QueueMoves(u)
           /\ \A e \in Events : EventMoves(e)
           /\ \/ UNCHANGED saved
              \/ \E e \in Events : saved' = Append(saved, e) /\ ~IsSaved(e)
<1> /\ \A u \in Users : u \in Runners /\ OwnerOf(u) = u /\ lock[u] \in Seq(Runners)
    /\ \A e \in Events : /\ e \in Runners /\ e \notin Users /\ OwnerOf(e) = UserOf[e]
                         /\ UserOf[e] \in Users
    /\ lock \in [Users -> Seq(Runners)] /\ turn \in [Runners -> Turn] /\ saved \in Seq(Events)
    /\ TypeOK /\ LockInv
  BY Owners, TasteAssumption DEF Runners, IInv, TypeOK
<1> USE DEF eventVars, addVars, serialVars, profileVars, historyVars
<1>1. ASSUME NEW e \in Events, Record(e)
      PROVE  /\ UNCHANGED <<turn, saved>> /\ \A u \in Users : QueueMoves(u)
  <2>1. /\ UNCHANGED <<turn, saved>> /\ ~IsSaved(e) /\ e \notin Range(lock[UserOf[e]])
        /\ lock' = [lock EXCEPT ![UserOf[e]] = Append(@, e)]
    BY <1>1 DEF Record, Asked, IInv, OwnInv
  <2> QED
    BY <2>1 DEF QueueMoves
<1>2. ASSUME NEW t \in Tracks, OnDoneTaste(t)
      PROVE  UNCHANGED <<turn, saved>> /\ \A u \in Users : QueueMoves(u)
  <2>1. UNCHANGED <<turn, saved>> /\ \A u \in Users : u \notin Range(lock[u])
    BY <1>2 DEF OnDoneTaste, ConsumerIdle
  <2>2. ASSUME NEW u \in Users
        PROVE  lock'[u] = lock[u] \/ lock'[u] = Append(lock[u], u)
    BY <1>2 DEF OnDoneTaste
  <2>3. \A u \in Users : u \notin Events
    OBVIOUS
  <2> QED
    BY <2>1, <2>2, <2>3 DEF QueueMoves
<1>3. ASSUME NEW e \in Events, SaveEvent(e), ~SaveFails(e)
      PROVE  /\ UNCHANGED lock /\ saved' = Append(saved, e) /\ ~IsSaved(e)
             /\ turn'[e].at # "none" /\ \A f \in Events \ {e} : EventMoves(f)
  <2>1. /\ UNCHANGED lock /\ saved' = Append(saved, e) /\ turn[e].at = "none"
        /\ turn' = [turn EXCEPT ![e] = Trying(e)]
        /\ lock[UserOf[e]] # <<>> /\ Head(lock[UserOf[e]]) = e
    BY <1>3 DEF SaveEvent, MayRun
  <2>2. ~IsSaved(e)
    <3>1. e \in Range(lock[UserOf[e]])
      BY <2>1, SeqShapes
    <3> QED
      BY <2>1, <3>1 DEF LineInv
  <2>3. turn'[e].at # "none" /\ \A f \in Events \ {e} : turn'[f] = turn[f]
    BY <2>1 DEF Trying
  <2>4. Range(saved') = Range(saved) \cup {e}
    BY <2>1, SeqShapes
  <2> QED
    BY <2>1, <2>2, <2>3, <2>4 DEF EventMoves, IsSaved
<1>14. ASSUME NEW e \in Events, SaveEvent(e), SaveFails(e)
       PROVE  UNCHANGED <<turn, saved>> /\ \A u \in Users : QueueMoves(u)
  <2>1. /\ UNCHANGED <<turn, saved>> /\ e \in lost' /\ lock' = Released(e)
        /\ turn[e].at = "none" /\ InTurn(e)
    BY <1>14 DEF SaveEvent, SaveFails, MayRun, InTurn
  <2>2. GivesWay(UserOf[e]) /\ \A w \in Users \ {UserOf[e]} : lock'[w] = lock[w]
    BY <2>1, ReleaseShape DEF GivesWay, InTurn
  <2> QED
    BY <2>1, <2>2 DEF QueueMoves, InTurn
<1>4. ASSUME NEW u \in Users, NextInBatch(u)
      PROVE  /\ UNCHANGED saved /\ \A w \in Users : QueueMoves(w)
             /\ \A e \in Events : turn'[e] = turn[e]
  <2>1. /\ lock[u] # <<>> /\ Head(lock[u]) = u /\ turn[u].at = "none" /\ UNCHANGED saved
        /\ (lock' = Released(u) /\ UNCHANGED turn)
               \/ (UNCHANGED lock /\ \E e \in Events : turn' = [turn EXCEPT ![u] = Trying(e)])
    BY <1>4 DEF NextInBatch, MayRun, IInv, TypeOK
  <2>2. lock' = Released(u) => GivesWay(u) /\ \A w \in Users \ {u} : lock'[w] = lock[w]
    BY <2>1, TailIsSubSeq DEF Released, GivesWay
  <2>3. \A e \in Events : turn'[e] = turn[e]
    BY <2>1
  <2>4. u \notin Events
    OBVIOUS
  <2> QED
    BY <2>1, <2>2, <2>3, <2>4 DEF QueueMoves
<1>5. ASSUME NEW r \in Runners, Trial(r)
      PROVE  /\ UNCHANGED saved /\ \A u \in Users : QueueMoves(u)
             /\ \A e \in Events : EventMoves(e)
  <2>1. /\ InTurn(r) /\ turn[r].at # "none" /\ UNCHANGED <<saved, batch>>
        /\ \A q \in Runners \ {r} : turn'[q] = turn[q]
        /\ \/ UNCHANGED lock /\ turn'[r].at # "none"
           \/ turn'[r].at = "none" /\ r \in Users /\ UNCHANGED lock
           \/ /\ turn'[r].at = "none" /\ r \in Events /\ GivesWay(OwnerOf(r))
              /\ \A u \in Users \ {OwnerOf(r)} : lock'[u] = lock[u]
    BY <1>5, TrialShape
  <2>2. r \in Events => IsSaved(r)
    BY <2>1 DEF IInv, WaitInv, OwnInv
  <2>3. \A u \in Users : QueueMoves(u)
    BY <2>1, <2>2 DEF QueueMoves, InTurn
  <2>4. \A e \in Events : EventMoves(e)
    BY <2>1 DEF EventMoves, InTurn, IsSaved
  <2> QED
    BY <2>1, <2>3, <2>4
<1>6. ASSUME NEW u \in Users, NEW t \in Tracks, RemoveDislike(u, t)
      PROVE  UNCHANGED <<lock, turn, saved>>
  BY <1>6 DEF RemoveDislike
<1>7. ASSUME UNCHANGED saved, \A e \in Events : turn'[e] = turn[e]
      PROVE  \A e \in Events : EventMoves(e)
  BY <1>7 DEF EventMoves, IsSaved
<1>8. UNCHANGED lock => \A u \in Users : QueueMoves(u)
  BY DEF QueueMoves
<1>9. ASSUME NEW e \in Events, AddLooks(e) \/ AddStores(e)
      PROVE  UNCHANGED <<lock, turn, saved>>
  BY <1>9 DEF AddLooks, AddStores
<1>10. ASSUME NEW n \in Strays, StrayStep(n)
       PROVE  UNCHANGED <<lock, turn, saved>>
  BY <1>10 DEF StrayStep, StrayRetrieves, StrayWrites, StrayEnds
<1>11. CASE \E e \in Events : ListenerStep(e)
  <2>1. ASSUME NEW e \in Events, SaveEvent(e), ~SaveFails(e)
        PROVE  /\ \A u \in Users : QueueMoves(u)
               /\ \A f \in Events : EventMoves(f)
               /\ saved' = Append(saved, e) /\ ~IsSaved(e)
    BY <1>3, <1>8, <2>1 DEF EventMoves
  <2> QED
    BY <1>1, <1>7, <1>8, <1>9, <1>11, <1>14, <2>1 DEF ListenerStep
<1>12. CASE ConsumerStep
  BY <1>2, <1>4, <1>6, <1>7, <1>8, <1>12 DEF ConsumerStep
<1>13. CASE \E r \in Runners : Trial(r)
  BY <1>5, <1>13
<1> QED
  BY <1>7, <1>8, <1>10, <1>11, <1>12, <1>13 DEF TasteStep

LEMMA LineStep == IInv /\ LineInv /\ [Next]_vars => LineInv'
<1> SUFFICES ASSUME IInv, LineInv, [Next]_vars PROVE LineInv'
  OBVIOUS
<1>1. CASE UNCHANGED tasteVars
  BY <1>1 DEF tasteVars, eventVars, serialVars, LineInv, IsSaved, OwnerOf
<1>2. CASE TasteStep
  <2> /\ \A u \in Users : u \in Runners /\ lock[u] \in Seq(Runners)
      /\ \A e \in Events : e \in Runners /\ OwnerOf(e) = UserOf[e] /\ UserOf[e] \in Users
      /\ saved \in Seq(Events)
    BY Owners, TasteAssumption DEF Runners, IInv, TypeOK
  <2>1. /\ \A u \in Users : QueueMoves(u)
        /\ \A e \in Events : EventMoves(e)
        /\ \/ UNCHANGED saved
           \/ \E e \in Events : saved' = Append(saved, e) /\ ~IsSaved(e)
    BY <1>2, TasteMoves
  <2>2. ASSUME NEW u \in Users
        PROVE  /\ \A x \in Range(lock'[u]) : OwnerOf(x) = u
               /\ IsInjective(lock'[u])
               /\ \/ Range(lock'[u]) \subseteq Range(lock[u])
                  \/ \E x \in Runners : /\ Range(lock'[u]) = Range(lock[u]) \cup {x}
                                        /\ UNCHANGED <<turn, saved>>
                                        /\ x \in Events => ~IsSaved(x)
               /\ GivesWay(u) => Head(lock[u]) \notin Range(lock'[u])
    <3>1. IsInjective(lock[u]) /\ \A x \in Range(lock[u]) : OwnerOf(x) = u
      BY DEF LineInv
    <3>2. CASE GivesWay(u)
      BY <3>1, <3>2, SeqShapes DEF GivesWay
    <3>3. CASE lock'[u] = lock[u] /\ ~GivesWay(u)
      BY <3>1, <3>3
    <3>4. ASSUME NEW x \in Runners, lock'[u] = Append(lock[u], x), x \notin Range(lock[u]),
                 OwnerOf(x) = u, UNCHANGED <<turn, saved>>, x \in Events => ~IsSaved(x),
                 ~GivesWay(u)
          PROVE  /\ \A y \in Range(lock'[u]) : OwnerOf(y) = u
                 /\ IsInjective(lock'[u])
                 /\ Range(lock'[u]) = Range(lock[u]) \cup {x}
      BY <3>1, <3>4, SeqShapes
    <3> QED
      BY <2>1, <3>2, <3>3, <3>4 DEF QueueMoves
  <2>3. ASSUME NEW e \in Events, e \in Range(lock'[UserOf[e]]), turn'[e].at = "none"
        PROVE  ~IsSaved(e)'
    <3> PICK u \in Users : u = UserOf[e]
      OBVIOUS
    <3>1. turn'[e] = turn[e] /\ (IsSaved(e)' => IsSaved(e))
      BY <2>1, <2>2, <2>3 DEF EventMoves
    <3>2. CASE e \in Range(lock[u])
      BY <2>3, <3>1, <3>2 DEF LineInv
    <3>3. CASE e \notin Range(lock[u])
      <4> PICK R, S : R = Range(lock[u]) /\ S = Range(lock'[u])
        OBVIOUS
      <4>1. e \in S /\ e \notin R
        BY <2>3, <3>3
      <4>2. PICK x : S = R \cup {x} /\ (x \in Events => ~IsSaved(x))
        <5>1. ~(Range(lock'[u]) \subseteq Range(lock[u]))
          BY <4>1, Zenon
        <5> QED
          BY <2>2, <5>1, Zenon
      <4>3. x = e
        BY <4>1, <4>2, Zenon
      <4>4. ~IsSaved(e)
        BY <4>2, <4>3, Zenon
      <4> QED
        BY <3>1, <4>4, Zenon
    <3> QED
      BY <3>2, <3>3
  <2>4. IsInjective(saved')
    <3>1. IsInjective(saved)
      BY DEF LineInv
    <3>2. ASSUME NEW e \in Events, saved' = Append(saved, e), ~IsSaved(e)
          PROVE  IsInjective(saved')
      <4>1. e \notin Range(saved)
        BY <3>2 DEF IsSaved
      <4> QED
        BY <3>1, <3>2, <4>1, SeqShapes
    <3>3. CASE UNCHANGED saved
      BY <3>1, <3>3
    <3> QED
      BY <2>1, <3>2, <3>3
  <2> QED
    BY <2>2, <2>3, <2>4 DEF LineInv
<1>3. CASE UNCHANGED vars
  BY <1>1, <1>3 DEF vars
<1> QED
  BY <1>1, <1>2, <1>3, NextSteps DEF Pipeline

LEMMA LineAlways == Spec => []LineInv
<1>1. Init => LineInv
  <2> SUFFICES ASSUME Init PROVE LineInv
    OBVIOUS
  <2>1. saved = <<>> /\ \A u \in Users : lock[u] = <<>>
    BY DEF Init
  <2>2. \A e \in Events : UserOf[e] \in Users
    BY TasteAssumption
  <2>3. IsInjective(<<>>) /\ Range(<<>>) = {}
    BY DEF IsInjective, Range
  <2> QED
    BY <2>1, <2>2, <2>3 DEF LineInv
<1> QED
  BY <1>1, LineStep, IInvAlways, PTL DEF Spec

(* The earliest of the events the consumer has to try is there to be taken.    *)
LEMMA LeastOf == ASSUME NEW S \in SUBSET Nat, S # {} PROVE \E i \in S : \A j \in S : i <= j
<1> DEFINE less == {ss \in Nat \X Nat : ss[1] < ss[2]}
<1>1. IsWellFoundedOn(less, Nat)
  BY NatLessThanWellFounded, Zenon DEF OpToRel
<1>2. \A i, j \in Nat : <<j, i>> \notin less => ~(j < i)
  OBVIOUS
<1> HIDE DEF less
<1>3. PICK i \in S : \A j \in S : <<j, i>> \notin less
  BY <1>1, WFMin
<1>4. \A j \in S : ~(j < i)
  BY <1>2, <1>3
<1> QED
  BY <1>4

LEMMA BatchShape ==
    ASSUME IInv, NEW u \in Users
    PROVE  /\ IsFiniteSet(batch[u]) /\ Cardinality(batch[u]) \in Nat
           /\ batch[u] # {} => \E e \in batch[u] : \A f \in batch[u] : SavedBefore(e, f)
<1>1. saved \in Seq(Events) /\ batch[u] \subseteq Range(saved)
  BY DEF IInv, TypeOK, OwnInv, IsSaved
<1>2. /\ Len(saved) \in Nat /\ DOMAIN saved = 1..Len(saved)
      /\ saved \in [1..Len(saved) -> Range(saved)]
      /\ \A e \in Range(saved) : \E i \in 1..Len(saved) : saved[i] = e
  BY <1>1 DEF Range
<1>3. IsFiniteSet(Range(saved))
  <2>1. saved \in Surjection(1..Len(saved), Range(saved))
    BY <1>2 DEF Surjection
  <2>2. IsFiniteSet(1..Len(saved))
    <3>1. Len(saved) \in Nat
      BY <1>2
    <3> QED
      BY <3>1, FS_Interval
  <2> QED
    BY <2>1, <2>2, FS_Surjection
<1>4. IsFiniteSet(batch[u]) /\ Cardinality(batch[u]) \in Nat
  BY <1>1, <1>3, FS_Subset, FS_CardinalityType
<1>5. ASSUME batch[u] # {}
      PROVE  \E e \in batch[u] : \A f \in batch[u] : SavedBefore(e, f)
  <2> DEFINE I == {i \in 1..Len(saved) : saved[i] \in batch[u]}
  <2>1. I # {} /\ I \in SUBSET Nat
    BY <1>1, <1>2, <1>5
  <2>2. PICK i \in I : \A j \in I : i <= j
    BY <2>1, LeastOf
  <2>3. saved[i] \in batch[u] /\ \A f \in batch[u] : SavedBefore(saved[i], f)
    BY <1>1, <1>2, <2>2 DEF SavedBefore
  <2> QED
    BY <2>3
<1> QED
  BY <1>4, <1>5

(* What the order of a lock leaves its first runner to do.                     *)
MayGoOn(r) ==
    \/ turn[r].at # "none"
    \/ r \in Events /\ ~IsSaved(r)
    \/ r \in Users /\ (batch[r] = {} \/ \E e \in batch[r] : \A f \in batch[r] : SavedBefore(e, f))

HeadsMayGoOn ==
    \A u \in Users : lock[u] # <<>> => OwnerOf(Head(lock[u])) = u /\ MayGoOn(Head(lock[u]))

(* No line stands still for want of its first runner: it is one of its user's, *)
(* and it is trying an event, or a call whose event is still to be saved, or   *)
(* the consumer, whose list is empty or has an earliest event to take next.    *)
THEOREM LinesDoNotStall == Spec => []HeadsMayGoOn
<1>1. IInv /\ LineInv => HeadsMayGoOn
  <2> SUFFICES ASSUME IInv, LineInv, NEW u \in Users, lock[u] # <<>>
               PROVE  OwnerOf(Head(lock[u])) = u /\ MayGoOn(Head(lock[u]))
    BY DEF HeadsMayGoOn
  <2> PICK r : r = Head(lock[u])
    OBVIOUS
  <2>1. r \in Range(lock[u]) /\ r \in Runners
    <3>1. lock[u] \in Seq(Runners)
      BY DEF IInv, TypeOK
    <3> QED
      BY <3>1, SeqShapes
  <2>2. OwnerOf(r) = u
    BY <2>1 DEF LineInv
  <2>3. r \in Events /\ turn[r].at = "none" => ~IsSaved(r)
    BY <2>1, <2>2, Owners DEF LineInv
  <2>4. MayGoOn(r)
    BY <2>1, <2>3, BatchShape DEF MayGoOn, Runners
  <2> QED
    BY <2>2, <2>4
<1> QED
  BY <1>1, IInvAlways, LineAlways, PTL

(* The steps a runner has at most before it while it holds the lock: five for  *)
(* each event it has not begun to try, and those left of the trial under way.  *)
Untried(r) == IF r \in Users THEN 5 * Cardinality(batch[r]) ELSE IF IsSaved(r) THEN 0 ELSE 5

TrialLeft(r) ==
    CASE turn[r].at = "guard" -> 4
      [] turn[r].at = "retrieve" -> 3
      [] turn[r].at = "write" -> 2
      [] turn[r].at = "mark" -> 1
      [] OTHER -> 0

StepsToGo(r) == Untried(r) + TrialLeft(r)

LEMMA Untrieds ==
    ASSUME IInv, NEW r \in Runners
    PROVE  /\ r \in Users => r \notin Events /\ Untried(r) = 5 * Cardinality(batch[r])
                             /\ Cardinality(batch[r]) \in Nat /\ IsFiniteSet(batch[r])
           /\ r \in Events => r \notin Users /\ (IsSaved(r) => Untried(r) = 0)
                              /\ (~IsSaved(r) => Untried(r) = 5)
           /\ Untried(r) \in Nat
<1>1. r \in Users \/ r \in Events
  BY DEF Runners
<1>2. CASE r \in Users
  <2>1. Cardinality(batch[r]) \in Nat /\ IsFiniteSet(batch[r])
    BY <1>2, BatchShape
  <2>2. Untried(r) = 5 * Cardinality(batch[r])
    BY <1>2 DEF Untried
  <2>3. Untried(r) \in Nat
    BY <2>1, <2>2
  <2>4. r \notin Events
    BY <1>2, TasteAssumption
  <2> QED
    BY <1>2, <2>1, <2>2, <2>3, <2>4
<1>3. CASE r \in Events
  <2>1. r \notin Users
    BY <1>3, TasteAssumption
  <2>2. CASE IsSaved(r)
    BY <1>3, <2>1, <2>2 DEF Untried
  <2>3. CASE ~IsSaved(r)
    BY <1>3, <2>1, <2>3 DEF Untried
  <2> QED
    BY <2>2, <2>3
<1> QED
  BY <1>1, <1>2, <1>3

LEMMA TrialsLeft ==
    ASSUME TypeOK, NEW r \in Runners
    PROVE  /\ TrialLeft(r) \in 0..4
           /\ turn[r].at = "guard" => TrialLeft(r) = 4
           /\ turn[r].at = "retrieve" => TrialLeft(r) = 3
           /\ turn[r].at = "write" => TrialLeft(r) = 2
           /\ turn[r].at = "mark" => TrialLeft(r) = 1
           /\ turn[r].at = "none" => TrialLeft(r) = 0
<1>1. turn[r].at \in {"none", "guard", "retrieve", "write", "mark"}
  BY DEF TypeOK, Turn
<1> QED
  BY <1>1 DEF TrialLeft

StepsOK == \A r \in Runners : Untried(r) \in Nat /\ TrialLeft(r) \in 0..4 /\ StepsToGo(r) \in Nat

LEMMA StepsAreCounted == IInv => StepsOK
<1> SUFFICES ASSUME IInv, NEW r \in Runners
             PROVE  Untried(r) \in Nat /\ TrialLeft(r) \in 0..4 /\ StepsToGo(r) \in Nat
  BY DEF StepsOK
<1>1. Untried(r) \in Nat /\ TrialLeft(r) \in 0..4
  BY Untrieds, TrialsLeft DEF IInv
<1> QED
  BY <1>1 DEF StepsToGo

(* The two lemmas, in the state that a step leads to.                          *)
UntriedsOf(r) ==
    /\ r \in Users => Untried(r) = 5 * Cardinality(batch[r]) /\ Cardinality(batch[r]) \in Nat
    /\ r \in Events => (IsSaved(r) => Untried(r) = 0) /\ (~IsSaved(r) => Untried(r) = 5)
    /\ turn[r].at = "guard" => TrialLeft(r) = 4
    /\ turn[r].at = "retrieve" => TrialLeft(r) = 3
    /\ turn[r].at = "write" => TrialLeft(r) = 2
    /\ turn[r].at = "mark" => TrialLeft(r) = 1
    /\ turn[r].at = "none" => TrialLeft(r) = 0
Counted == \A r \in Runners : UntriedsOf(r)

LEMMA CountedLater == IInv' => Counted' /\ StepsOK'
<1>1. IInv => Counted
  BY Untrieds, TrialsLeft DEF Counted, UntriedsOf, IInv
<1> QED
  BY <1>1, StepsAreCounted, PTL

(* The turn of r ends: the event, saved by its call if no error lost it, is    *)
(* left to the consumer or done with, and the next in the line goes on.        *)
EndsInTurn(r) ==
    /\ GivesWay(OwnerOf(r)) /\ turn'[r].at = "none"
    /\ r \in Events => IsSaved(r) \/ r \in lost'

(* Whoever is first stays so till then, and comes nearer with each of its      *)
(* steps, whatever the others do.                                              *)
TurnKept(r) ==
    InTurn(r) =>
        \/ EndsInTurn(r)
        \/ /\ InTurn(r)' /\ StepsToGo(r)' <= StepsToGo(r)
           /\ RunnerStep(r) => StepsToGo(r)' < StepsToGo(r)

LEMMA FirstNears ==
    ASSUME IInv, LineInv, IInv', NEW r \in Runners, RunnerStep(r)
    PROVE  EndsInTurn(r) \/ (InTurn(r)' /\ StepsToGo(r)' < StepsToGo(r))
<1>0. /\ TypeOK /\ LockInv /\ saved \in Seq(Events)
      /\ turn \in [Runners -> Turn] /\ batch \in [Users -> SUBSET Events]
  BY DEF IInv, TypeOK, Turn
<1>1. UntriedsOf(r) /\ UntriedsOf(r)' /\ TrialLeft(r) \in 0..4 /\ Untried(r) \in Nat
  BY Untrieds, TrialsLeft, CountedLater DEF Counted, UntriedsOf, IInv
<1>2. \A v \in Nat, n \in 0..4 : Untried(r) = v /\ TrialLeft(r) = n => StepsToGo(r) = v + n
  BY DEF StepsToGo
<1>3. \A v \in Nat, n \in 0..4 : Untried(r)' = v /\ TrialLeft(r)' = n => StepsToGo(r)' = v + n
  BY DEF StepsToGo
<1>4. CASE r \in Events /\ SaveEvent(r) /\ ~SaveFails(r)
  <2>1. /\ saved' = Append(saved, r) /\ UNCHANGED lock /\ InTurn(r)
        /\ turn[r].at = "none" /\ turn'[r].at = "guard"
    BY <1>0, <1>4, Owners DEF SaveEvent, MayRun, Trying, InTurn
  <2>2. ~IsSaved(r)
    <3>1. r \in Range(lock[UserOf[r]])
      BY <1>0, <1>4, <2>1, Owners, SeqShapes DEF InTurn, TypeOK
    <3> QED
      BY <1>4, <2>1, <3>1 DEF LineInv
  <2>3. IsSaved(r)'
    BY <1>0, <1>4, <2>1, SeqShapes DEF IsSaved
  <2>4. Untried(r) = 5 /\ TrialLeft(r) = 0 /\ Untried(r)' = 0 /\ TrialLeft(r)' = 4
    BY <1>1, <1>4, <2>1, <2>2, <2>3 DEF UntriedsOf
  <2>5. StepsToGo(r) = 5 /\ StepsToGo(r)' = 4
    BY <1>2, <1>3, <2>4
  <2> QED
    BY <2>1, <2>5 DEF InTurn
<1>7. CASE r \in Events /\ SaveEvent(r) /\ SaveFails(r)
  <2>1. /\ r \in lost' /\ lock' = Released(r) /\ InTurn(r) /\ UNCHANGED turn
        /\ turn[r].at = "none"
    BY <1>7 DEF SaveEvent, SaveFails, MayRun, InTurn
  <2>2. GivesWay(OwnerOf(r))
    BY <1>0, <2>1, ReleaseShape DEF GivesWay, InTurn
  <2> QED
    BY <2>1, <2>2 DEF EndsInTurn
<1>5. CASE r \in Users /\ NextInBatch(r)
  <2>1. r \notin Events /\ OwnerOf(r) = r /\ InTurn(r) /\ turn[r].at = "none"
    BY <1>5, Owners, TasteAssumption DEF NextInBatch, MayRun, InTurn
  <2>2. CASE batch[r] = {}
    <3>1. lock' = Released(r) /\ UNCHANGED turn
      BY <1>5, <2>1, <2>2 DEF NextInBatch
    <3>2. GivesWay(r)
      BY <1>0, <2>1, <3>1, ReleaseShape DEF GivesWay, InTurn
    <3> QED
      BY <2>1, <3>1, <3>2 DEF EndsInTurn
  <2>3. CASE batch[r] # {}
    <3>1. PICK e \in batch[r] : /\ turn' = [turn EXCEPT ![r] = Trying(e)]
                                /\ batch' = [batch EXCEPT ![r] = @ \ {e}] /\ UNCHANGED lock
      BY <1>5, <2>3 DEF NextInBatch
    <3>2. turn'[r].at = "guard" /\ batch'[r] = batch[r] \ {e}
      BY <1>0, <1>5, <3>1 DEF Trying
    <3>3. IsFiniteSet(batch[r]) /\ Cardinality(batch[r]) \in Nat
      BY <1>5, BatchShape
    <3>4. Cardinality(batch'[r]) = Cardinality(batch[r]) - 1
      BY <3>1, <3>2, <3>3, FS_RemoveElement
    <3> PICK n \in Nat : n = Cardinality(batch[r])
      BY <3>3
    <3>5. n - 1 \in Nat
      BY <1>1, <1>5, <3>4 DEF UntriedsOf
    <3>6. Untried(r) = 5 * n /\ TrialLeft(r) = 0
      BY <1>1, <1>5, <2>1 DEF UntriedsOf
    <3>7. Untried(r)' = 5 * (n - 1) /\ TrialLeft(r)' = 4
      BY <1>1, <1>5, <3>2, <3>4 DEF UntriedsOf
    <3>8. StepsToGo(r) = 5 * n /\ StepsToGo(r)' = 5 * (n - 1) + 4
      BY <1>2, <1>3, <3>5, <3>6, <3>7
    <3>9. InTurn(r)'
      BY <2>1, <3>1 DEF InTurn
    <3> QED
      BY <3>5, <3>8, <3>9
  <2> QED
    BY <2>2, <2>3
<1>6. CASE Trial(r)
  <2>1. /\ InTurn(r) /\ turn[r].at # "none" /\ UNCHANGED <<saved, batch>>
        /\ \/ /\ UNCHANGED lock
              /\ \/ turn[r].at = "guard" /\ turn'[r].at \in {"retrieve", "mark"}
                 \/ turn[r].at = "retrieve" /\ turn'[r].at \in {"write", "mark"}
                 \/ turn[r].at = "write" /\ turn'[r].at = "mark"
           \/ turn'[r].at = "none" /\ r \in Users /\ UNCHANGED lock
           \/ turn'[r].at = "none" /\ r \in Events /\ GivesWay(OwnerOf(r))
    BY <1>0, <1>6, TrialShape
  <2>2. r \in Events => IsSaved(r)
    BY <2>1 DEF IInv, WaitInv, OwnInv
  <2>3. CASE GivesWay(OwnerOf(r)) /\ turn'[r].at = "none"
    BY <2>2, <2>3 DEF EndsInTurn
  <2>4. CASE UNCHANGED lock
    <3>1. InTurn(r)'
      BY <2>1, <2>4 DEF InTurn
    <3>2. Untried(r)' = Untried(r)
      BY <2>1 DEF Untried, IsSaved
    <3>3. turn[r].at \in {"guard", "retrieve", "write", "mark"}
      BY <1>0, <2>1 DEF Turn
    <3>4. /\ TrialLeft(r) \in 1..4 /\ TrialLeft(r)' \in 0..4
          /\ TrialLeft(r)' < TrialLeft(r)
      <4>1. CASE turn'[r].at = "none"
        BY <1>1, <3>3, <4>1 DEF UntriedsOf
      <4>2. CASE turn'[r].at # "none"
        <5>1. \/ turn[r].at = "guard" /\ turn'[r].at \in {"retrieve", "mark"}
              \/ turn[r].at = "retrieve" /\ turn'[r].at \in {"write", "mark"}
              \/ turn[r].at = "write" /\ turn'[r].at = "mark"
          BY <2>1, <4>2
        <5> QED
          BY <1>1, <5>1 DEF UntriedsOf
      <4> QED
        BY <4>1, <4>2
    <3> PICK v \in Nat : v = Untried(r)
      BY <1>1
    <3>5. StepsToGo(r) = v + TrialLeft(r) /\ StepsToGo(r)' = v + TrialLeft(r)'
      BY <1>1, <1>2, <1>3, <3>2, <3>4
    <3> QED
      BY <3>1, <3>4, <3>5
  <2> QED
    BY <2>1, <2>3, <2>4
<1> QED
  BY <1>4, <1>5, <1>6, <1>7 DEF RunnerStep

(* What the first of a line has before it does not change under him: the steps *)
(* of the others touch neither its trial nor its place.                        *)
Unmoved(r) == /\ lock[OwnerOf(r)] # <<>> => lock'[OwnerOf(r)] # <<>>
              /\ Head(lock'[OwnerOf(r)]) = Head(lock[OwnerOf(r)])
              /\ turn'[r] = turn[r]
              /\ r \in Users => batch'[r] = batch[r]
              /\ r \in Events => (IsSaved(r)' <=> IsSaved(r))

LEMMA OthersLeaveUnmoved ==
    ASSUME IInv, NEW r \in Runners, InTurn(r), TasteStep, ~RunnerStep(r)
    PROVE  Unmoved(r)
<1>0. /\ TypeOK /\ LockInv /\ saved \in Seq(Events) /\ turn \in [Runners -> Turn]
      /\ batch \in [Users -> SUBSET Events] /\ lock \in [Users -> Seq(Runners)]
      /\ OwnerOf(r) \in Users /\ lock[OwnerOf(r)] \in Seq(Runners)
      /\ lock[OwnerOf(r)] # <<>> /\ Head(lock[OwnerOf(r)]) = r
  BY Owners DEF IInv, TypeOK, InTurn
<1> USE DEF eventVars, addVars, serialVars, profileVars, historyVars
<1>1. ASSUME NEW e \in Events, Record(e)
      PROVE  Unmoved(r)
  <2>1. /\ UNCHANGED <<turn, saved, batch>> /\ UserOf[e] \in Users /\ e \in Runners
        /\ lock' = [lock EXCEPT ![UserOf[e]] = Append(@, e)]
    BY <1>1, TasteAssumption DEF Record, Runners
  <2>2. lock'[OwnerOf(r)] \in {lock[OwnerOf(r)], Append(lock[OwnerOf(r)], e)}
    BY <1>0, <2>1
  <2>3. /\ lock'[OwnerOf(r)] # <<>>
        /\ Head(lock'[OwnerOf(r)]) = Head(lock[OwnerOf(r)])
    BY <1>0, <2>1, <2>2, SeqShapes
  <2> QED
    BY <2>1, <2>3 DEF Unmoved, IsSaved
<1>2. ASSUME NEW t \in Tracks, OnDoneTaste(t)
      PROVE  Unmoved(r)
  <2>1. UNCHANGED <<turn, saved>> /\ \A u \in Users : u \notin Range(lock[u])
    BY <1>2 DEF OnDoneTaste, ConsumerIdle
  <2>2. r \in Range(lock[OwnerOf(r)])
    BY <1>0, SeqShapes
  <2>3. r \notin Users
    BY <2>1, <2>2, Owners
  <2>4. lock'[OwnerOf(r)] \in {lock[OwnerOf(r)], Append(lock[OwnerOf(r)], OwnerOf(r))}
    BY <1>0, <1>2 DEF OnDoneTaste
  <2>5. /\ lock'[OwnerOf(r)] # <<>>
        /\ Head(lock'[OwnerOf(r)]) = Head(lock[OwnerOf(r)])
    BY <1>0, <2>4, SeqShapes DEF Runners
  <2> QED
    BY <2>1, <2>3, <2>5 DEF Unmoved, IsSaved
<1>3. ASSUME NEW e \in Events, SaveEvent(e), ~SaveFails(e)
      PROVE  Unmoved(r)
  <2>1. e # r
    BY <1>3 DEF RunnerStep
  <2>2. /\ UNCHANGED <<lock, batch>> /\ saved' = Append(saved, e)
        /\ turn' = [turn EXCEPT ![e] = Trying(e)]
    BY <1>3 DEF SaveEvent
  <2>3. turn'[r] = turn[r]
    BY <1>0, <2>1, <2>2
  <2>4. Range(saved') = Range(saved) \cup {e}
    BY <1>0, <2>2, SeqShapes
  <2>5. IsSaved(r)' <=> IsSaved(r)
    BY <2>1, <2>4 DEF IsSaved
  <2> QED
    BY <1>0, <2>2, <2>3, <2>5 DEF Unmoved
<1>4. ASSUME NEW u \in Users, NextInBatch(u)
      PROVE  Unmoved(r)
  <2>1. u # r /\ OwnerOf(u) = u
    BY <1>4, Owners DEF RunnerStep
  <2>2. u # OwnerOf(r)
    BY <1>0, <1>4, <2>1 DEF NextInBatch, MayRun
  <2>3. /\ UNCHANGED saved /\ lock' \in {lock, Released(u)}
        /\ turn' = turn \/ \E e \in Events : turn' = [turn EXCEPT ![u] = Trying(e)]
        /\ batch' = batch \/ \E e \in Events : batch' = [batch EXCEPT ![u] = @ \ {e}]
    BY <1>0, <1>4 DEF NextInBatch
  <2>4. lock'[OwnerOf(r)] = lock[OwnerOf(r)]
    BY <1>0, <2>1, <2>2, <2>3 DEF Released
  <2>5. turn'[r] = turn[r] /\ (r \in Users => batch'[r] = batch[r])
    BY <1>0, <2>1, <2>3
  <2> QED
    BY <1>0, <2>3, <2>4, <2>5 DEF Unmoved, IsSaved
<1>5. ASSUME NEW q \in Runners, Trial(q)
      PROVE  Unmoved(r)
  <2>1. q # r
    BY <1>5 DEF RunnerStep
  <2>2. /\ InTurn(q) /\ UNCHANGED <<saved, batch>> /\ turn'[r] = turn[r]
        /\ \/ UNCHANGED lock
           \/ \A u \in Users \ {OwnerOf(q)} : lock'[u] = lock[u]
    BY <1>0, <1>5, <2>1, TrialShape
  <2>3. OwnerOf(r) # OwnerOf(q)
    BY <1>0, <2>1, <2>2 DEF InTurn
  <2>4. lock'[OwnerOf(r)] = lock[OwnerOf(r)]
    BY <1>0, <2>2, <2>3
  <2> QED
    BY <1>0, <2>2, <2>4 DEF Unmoved, IsSaved
<1>6. ASSUME NEW e \in Events, SaveEvent(e), SaveFails(e)
      PROVE  Unmoved(r)
  <2>1. e # r /\ e \in Runners
    BY <1>6 DEF RunnerStep, Runners
  <2>2. /\ UNCHANGED <<saved, turn, batch>> /\ lock' = Released(e) /\ InTurn(e)
    BY <1>6 DEF SaveEvent, SaveFails, MayRun, InTurn
  <2>3. OwnerOf(r) # OwnerOf(e)
    BY <1>0, <2>1, <2>2 DEF InTurn
  <2>4. lock'[OwnerOf(r)] = lock[OwnerOf(r)]
    BY <1>0, <2>1, <2>2, <2>3, ReleaseShape
  <2> QED
    BY <1>0, <2>2, <2>4 DEF Unmoved, IsSaved
<1>7. ASSUME UNCHANGED <<lock, turn, batch, saved>>
      PROVE  Unmoved(r)
  BY <1>0, <1>7 DEF Unmoved, IsSaved
<1>8. ASSUME NEW e \in Events, AddLooks(e) \/ AddStores(e)
      PROVE  Unmoved(r)
  BY <1>7, <1>8 DEF AddLooks, AddStores
<1>9. ASSUME NEW u \in Users, NEW t \in Tracks, RemoveDislike(u, t)
      PROVE  Unmoved(r)
  BY <1>7, <1>9 DEF RemoveDislike
<1>10. ASSUME NEW n \in Strays, StrayStep(n)
       PROVE  Unmoved(r)
  BY <1>7, <1>10 DEF StrayStep, StrayRetrieves, StrayWrites, StrayEnds
<1> QED
  BY <1>1, <1>2, <1>3, <1>4, <1>5, <1>6, <1>8, <1>9, <1>10
  DEF TasteStep, ListenerStep, ConsumerStep

TurnsServed ==
    /\ \A u \in Users : QueueMoves(u)
    /\ \A r \in Runners : StepsToGo(r) \in Nat /\ TurnKept(r)

LEMMA TurnsServedStep == IInv /\ LineInv /\ IInv' /\ [Next]_vars => TurnsServed
<1> SUFFICES ASSUME IInv, LineInv, IInv', [Next]_vars PROVE TurnsServed
  OBVIOUS
<1>0. StepsOK /\ StepsOK'
  BY StepsAreCounted, CountedLater
<1>1. CASE UNCHANGED tasteVars
  <2>1. \A u \in Users : QueueMoves(u)
    BY <1>1 DEF tasteVars, serialVars, QueueMoves
  <2>2. ASSUME NEW r \in Runners, InTurn(r)
        PROVE  TurnKept(r)
    <3>1. InTurn(r)' /\ StepsToGo(r)' = StepsToGo(r) /\ StepsToGo(r) \in Nat
      BY <1>0, <1>1, <2>2
      DEF tasteVars, eventVars, serialVars, InTurn, StepsToGo, Untried, TrialLeft, IsSaved, StepsOK
    <3>2. RunnerStep(r) => EndsInTurn(r) \/ (InTurn(r)' /\ StepsToGo(r)' < StepsToGo(r))
      BY FirstNears
    <3> QED
      BY <3>1, <3>2 DEF TurnKept
  <2> QED
    BY <1>0, <2>1, <2>2 DEF TurnsServed, TurnKept, StepsOK
<1>2. CASE TasteStep
  <2>1. \A u \in Users : QueueMoves(u)
    BY <1>2, TasteMoves
  <2>2. ASSUME NEW r \in Runners, InTurn(r)
        PROVE  TurnKept(r)
    <3>1. CASE RunnerStep(r)
      <4>1. StepsToGo(r) \in Nat /\ StepsToGo(r)' \in Nat
        BY <1>0 DEF StepsOK
      <4>2. EndsInTurn(r) \/ (InTurn(r)' /\ StepsToGo(r)' < StepsToGo(r))
        BY <3>1, FirstNears
      <4> QED
        BY <4>1, <4>2 DEF TurnKept
    <3>2. CASE ~RunnerStep(r)
      <4>1. Unmoved(r)
        BY <1>2, <2>2, <3>2, OthersLeaveUnmoved
      <4>2. InTurn(r)'
        BY <2>2, <4>1 DEF Unmoved, InTurn
      <4>3. TrialLeft(r)' = TrialLeft(r)
        BY <4>1 DEF Unmoved, TrialLeft
      <4>4. Untried(r)' = Untried(r)
        <5>1. CASE r \in Users
          BY <4>1, <5>1 DEF Unmoved, Untried
        <5>2. CASE r \in Events
          <6>1. UntriedsOf(r)' /\ (IsSaved(r)' <=> IsSaved(r)) /\ r \notin Users
            BY <4>1, <5>2, CountedLater, TasteAssumption DEF Unmoved, Counted
          <6>2. (IsSaved(r) => Untried(r) = 0) /\ (~IsSaved(r) => Untried(r) = 5)
            BY <5>2, Untrieds
          <6> QED
            BY <5>2, <6>1, <6>2 DEF UntriedsOf
        <5> QED
          BY <5>1, <5>2 DEF Runners
      <4>5. StepsToGo(r)' = StepsToGo(r) /\ StepsToGo(r) \in Nat
        BY <1>0, <4>3, <4>4 DEF StepsToGo, StepsOK
      <4> QED
        BY <3>2, <4>2, <4>5 DEF TurnKept
    <3> QED
      BY <3>1, <3>2
  <2> QED
    BY <1>0, <2>1, <2>2 DEF TurnsServed, TurnKept, StepsOK
<1> QED
  BY <1>1, <1>2, NextSteps DEF Pipeline, vars

(* First come, first served: nobody enters a line but at its end, nobody       *)
(* leaves it but from its front, at the end of his turn, and the first in it   *)
(* needs at most five more steps for each event it has to try; each of its     *)
(* steps lowers that number and no step of anybody else raises it.  Under weak *)
(* fairness of the runners this is what makes every call come to its turn,     *)
(* however many others ask, throw or find the vectors missing.                 *)
THEOREM TurnsAreServed == Spec => [][TurnsServed]_vars
<1>1. IInv /\ LineInv /\ IInv' /\ [Next]_vars => [TurnsServed]_vars
  BY TurnsServedStep
<1> QED
  BY <1>1, IInvAlways, LineAlways, PTL DEF Spec

===============================================================================
