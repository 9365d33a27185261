-------------------------------- MODULE Taste ---------------------------------
(* Listening events and the taste profile (EventsService, UserTasteService,    *)
(* DislikesService), over the pipeline of Indexing.  A user's work runs under  *)
(* his lock, in the order the calls asked for it; the consumer of the done     *)
(* messages reads the events still to be applied before it takes any lock.     *)
(*                                                                             *)
(* Every event of a behaviour is one of Events, with its user, track and kind  *)
(* fixed; kind "like" stands for the four positive types.  Of the three        *)
(* collections of a profile the one of the audio embedding is modelled; its    *)
(* vector is abstracted to the sequence of the events folded into it, and its  *)
(* event_count is kept apart.                                                  *)
EXTENDS Indexing, SequencesExt

CONSTANTS Users, Events,
          UserOf, TrackOf, KindOf  \* functions on Events

ASSUME TasteAssumption ==
    /\ Tracks # {} /\ Events # {} /\ Events \cap Users = {}
    /\ UserOf \in [Events -> Users] /\ TrackOf \in [Events -> Tracks]
    /\ KindOf \in [Events -> {"like", "dislike"}]

VARIABLES saved,     \* rows of user_events, in the order of created_at
          applied,   \* events with taste_applied_at
          disliked,  \* rows of disliked_tracks, as <<user, track>>
          adding,    \* per event, how far the call that stores its dislike is
          lock,      \* per user the runners that asked for the lock, in order
          batch,     \* the events the consumer read and has still to try, per user
          turn,      \* per runner the event being tried, and how far it is
          stray,     \* updates that go on after the trial they were part of failed
          count,     \* event_count of the user's profile
          folded     \* per user, the events folded in, in order (history)

VARIABLES unlucky,   \* events whose trial met an error of the database or qdrant
          late,      \* events folded by a stray update
          lost,      \* events not saved, or applied but not folded, by an error
          overlapped \* users a stray update of whom overlapped with another update

eventVars == <<saved, applied>>
addVars == <<disliked, adding>>
serialVars == <<lock, batch, turn>>
profileVars == <<stray, count, folded>>
historyVars == <<unlucky, late, lost, overlapped>>
tasteVars == <<eventVars, addVars, serialVars, profileVars, historyVars>>
vars == <<indexingVars, tasteVars>>

(* What runs under a lock: the call of an event, or the consumer for a user.   *)
Runners == Events \cup Users
OwnerOf(r) == IF r \in Users THEN r ELSE UserOf[r]

(* An update can go astray once for each failure.                              *)
Strays == 1..MaxFaults

Turn == [event : Events, base : Nat,
         at : {"none", "guard", "retrieve", "write", "mark"}]
NoTurn == [event |-> CHOOSE e \in Events : TRUE, at |-> "none", base |-> 0]

IsSaved(e) == e \in Range(saved)
Disliked(e) == <<UserOf[e], TrackOf[e]>> \in disliked
Asked(e) == adding[e] # "none" \/ IsSaved(e) \/ e \in Range(lock[UserOf[e]])

TypeOK ==
    /\ IndexingTypeOK
    /\ saved \in Seq(Events) /\ applied \subseteq Events
    /\ disliked \subseteq Users \X Tracks
    /\ adding \in [Events -> {"none", "saving", "asking"}]
    /\ lock \in [Users -> Seq(Runners)] /\ batch \in [Users -> SUBSET Events]
    /\ turn \in [Runners -> Turn] /\ stray \in [Strays -> Turn]
    /\ count \in [Users -> Nat] /\ folded \in [Users -> Seq(Events)]
    /\ unlucky \subseteq Events /\ late \subseteq Events /\ lost \subseteq Events
    /\ overlapped \subseteq Users

Init ==
    /\ IndexingInit
    /\ saved = <<>> /\ applied = {} /\ disliked = {}
    /\ unlucky = {} /\ late = {} /\ lost = {} /\ overlapped = {}
    /\ adding = [e \in Events |-> "none"]
    /\ lock = [u \in Users |-> <<>>] /\ batch = [u \in Users |-> {}]
    /\ turn = [r \in Runners |-> NoTurn] /\ stray = [n \in Strays |-> NoTurn]
    /\ count = [u \in Users |-> 0] /\ folded = [u \in Users |-> <<>>]

-------------------------------------------------------------------------------
(* Calls. *)

(* add of a dislike: nothing when the row is there ...                         *)
AddLooks(e) ==
    /\ KindOf[e] = "dislike" /\ ~Asked(e) /\ ~Disliked(e)
    /\ adding' = [adding EXCEPT ![e] = "saving"]
    /\ UNCHANGED <<indexingVars, eventVars, disliked, serialVars, profileVars,
                   historyVars>>

(* ... otherwise the row is inserted.  An error, or another call that was      *)
(* first, ends the call.                                                       *)
AddStores(e) ==
    /\ adding[e] = "saving"
    /\ \/ /\ ~Disliked(e)
          /\ disliked' = disliked \cup {<<UserOf[e], TrackOf[e]>>}
          /\ adding' = [adding EXCEPT ![e] = "asking"]
          /\ UNCHANGED faults
       \/ /\ FaultIf(~Disliked(e))
          /\ adding' = [adding EXCEPT ![e] = "none"]
          /\ UNCHANGED disliked
    /\ UNCHANGED <<row, stored, calls, qVars, workerVars, eventVars, serialVars,
                   profileVars, historyVars>>

(* record asks for the user's lock, for a dislike after its row was stored.    *)
Record(e) ==
    /\ IF KindOf[e] = "dislike" THEN adding[e] = "asking" ELSE ~Asked(e)
    /\ adding' = [adding EXCEPT ![e] = "none"]
    /\ lock' = [lock EXCEPT ![UserOf[e]] = Append(@, e)]
    /\ UNCHANGED <<indexingVars, eventVars, disliked, batch, turn, profileVars,
                   historyVars>>

RemoveDislike(u, t) ==
    /\ <<u, t>> \in disliked
    /\ disliked' = disliked \ {<<u, t>>}
    /\ UNCHANGED <<indexingVars, eventVars, adding, serialVars, profileVars, historyVars>>

\* Mutant: runSerially does not await the runner before.
MayRunAtOnce(r) == r \in Range(lock[OwnerOf(r)])

(* runSerially: a runner goes on when everyone before it has given way.        *)
MayRun(r) == LET queue == lock[OwnerOf(r)] IN queue # <<>> /\ Head(queue) = r

(* It gives way to the next one.                                               *)
Released(r) == [lock EXCEPT ![OwnerOf(r)] = SubSeq(@, 2, Len(@))]

Trying(e) == [event |-> e, at |-> "guard", base |-> 0]

(* The insert fails: the call ends, and a dislike has a row without an event.  *)
SaveFails(e) ==
    /\ Fault
    /\ lock' = Released(e) /\ lost' = lost \cup {e}
    /\ UNCHANGED <<saved, turn>>

\* Mutant: the event of a track not yet indexed is left to the consumer untried.
SaveEventUntried(e) ==
    /\ MayRun(e) /\ turn[e].at = "none"
    /\ \/ /\ saved' = Append(saved, e)
          /\ IF row[TrackOf[e]] = "null"
               THEN lock' = Released(e) /\ UNCHANGED turn
               ELSE turn' = [turn EXCEPT ![e] = Trying(e)] /\ UNCHANGED lock
          /\ UNCHANGED <<faults, lost>>
       \/ SaveFails(e)
    /\ UNCHANGED <<row, stored, calls, qVars, workerVars, applied, addVars, batch,
                   profileVars, unlucky, late, overlapped>>

(* A call saves its event and begins to try it.                                *)
SaveEvent(e) ==
    /\ MayRun(e) /\ turn[e].at = "none"
    /\ \/ /\ saved' = Append(saved, e)
          /\ turn' = [turn EXCEPT ![e] = Trying(e)]
          /\ UNCHANGED <<faults, lock, lost>>
       \/ SaveFails(e)
    /\ UNCHANGED <<row, stored, calls, qVars, workerVars, applied, addVars, batch,
                   profileVars, unlucky, late, overlapped>>

(* The consumer takes one done message at a time: it reads the events of the   *)
(* track not yet applied and asks for the lock of each of their users.  An     *)
(* error is logged and the message acked all the same.                         *)
ConsumerIdle == \A u \in Users : u \notin Range(lock[u])

Pending(t, u) ==
    {e \in Range(saved) : TrackOf[e] = t /\ UserOf[e] = u /\ e \notin applied}

OnDoneTaste(t) ==
    /\ t \in doneTaste /\ ConsumerIdle
    /\ doneTaste' = doneTaste \ {t}
    /\ \/ /\ batch' = [u \in Users |-> Pending(t, u)]
          /\ lock' = [u \in Users |->
                IF Pending(t, u) = {} THEN lock[u] ELSE Append(lock[u], u)]
          /\ UNCHANGED <<faults, unlucky>>
       \/ /\ Fault
          /\ unlucky' = unlucky \cup {e \in Events : IsSaved(e) /\ TrackOf[e] = t}
          /\ UNCHANGED <<batch, lock>>
    /\ UNCHANGED <<row, stored, calls, uploaded, index, doneRow, workerVars, eventVars,
                   addVars, turn, profileVars, late, lost, overlapped>>

(* The events it read come in the order of created_at.                         *)
SavedBefore(e, f) ==
    \E i, j \in 1..Len(saved) : i <= j /\ saved[i] = e /\ saved[j] = f

NextInBatch(u) ==
    /\ MayRun(u) /\ turn[u].at = "none"
    /\ IF batch[u] = {}
         THEN lock' = Released(u) /\ UNCHANGED <<batch, turn>>
         ELSE \E e \in batch[u] :
                 /\ \A f \in batch[u] : SavedBefore(e, f)
                 /\ turn' = [turn EXCEPT ![u] = Trying(e)]
                 /\ batch' = [batch EXCEPT ![u] = @ \ {e}]
                 /\ UNCHANGED lock
    /\ UNCHANGED <<indexingVars, eventVars, addVars, profileVars, historyVars>>

-------------------------------------------------------------------------------
(* tryApply by runner r, one await after the other. *)

(* The trial is over: a call gives the lock back, the consumer goes on.        *)
EndTurn(r) ==
    /\ turn' = [turn EXCEPT ![r] = NoTurn]
    /\ lock' = IF r \in Users THEN lock ELSE Released(r)

\* Mutant: a like of a disliked track is not skipped.
GuardDislikesOnly(r) ==
    LET e == turn[r].event IN
    /\ turn[r].at = "guard"
    /\ turn' = [turn EXCEPT ![r].at =
                  IF KindOf[e] = "dislike" /\ ~Disliked(e) THEN "mark" ELSE "retrieve"]
    /\ UNCHANGED <<indexingVars, eventVars, addVars, lock, batch, profileVars,
                   historyVars>>

(* The current state of the dislike decides whether the event still counts.    *)
Guard(r) ==
    LET e == turn[r].event
        deliberatelySkipped == \/ KindOf[e] = "like" /\ Disliked(e)
                               \/ KindOf[e] = "dislike" /\ ~Disliked(e)
    IN
    /\ turn[r].at = "guard"
    /\ turn' = [turn EXCEPT ![r].at = IF deliberatelySkipped THEN "mark" ELSE "retrieve"]
    /\ UNCHANGED <<indexingVars, eventVars, addVars, lock, batch, profileVars,
                   historyVars>>

(* Of the three updates of onUserEvent, which run together, the one of the     *)
(* audio profile reads the track's vector, then the profile, and writes it.    *)
UpdatedByTurn(u) == \E r \in Runners : OwnerOf(r) = u /\ turn[r].at = "write"
UpdatedByStray(u) == \E n \in Strays : UserOf[stray[n].event] = u /\ stray[n].at = "write"

Retrieve(r) ==
    /\ turn[r].at = "retrieve" /\ TrackOf[turn[r].event] \in mert
    /\ turn' = [turn EXCEPT ![r].at = "write", ![r].base = count[OwnerOf(r)]]
    /\ overlapped' = overlapped \cup {u \in {OwnerOf(r)} : UpdatedByStray(u)}
    /\ UNCHANGED <<indexingVars, eventVars, addVars, lock, batch, profileVars,
                   unlucky, late, lost>>

(* No update finds a vector, or an error that counts as none: the trial is     *)
(* over, and a call has the track queued.                                      *)
NotApplied(r) ==
    LET e == turn[r].event IN
    /\ turn[r].at = "retrieve"
    /\ \/ TrackOf[e] \notin mert /\ UNCHANGED <<faults, unlucky>>
       \/ Fault /\ unlucky' = unlucky \cup {e}
    /\ calls' = IF r \in Users THEN calls ELSE Queued(TrackOf[e])
    /\ EndTurn(r)
    /\ UNCHANGED <<row, stored, qVars, workerVars, eventVars, addVars, batch, profileVars,
                   late, lost, overlapped>>

(* The audio update finds none, but another one, of the lyrics perhaps, does:  *)
(* that is enough for the event to count as applied.                           *)
AppliedElsewhere(r) ==
    LET e == turn[r].event IN
    /\ turn[r].at = "retrieve"
    /\ \/ TrackOf[e] \notin mert /\ UNCHANGED <<faults, lost>>
       \/ Fault /\ lost' = lost \cup {e}
    /\ turn' = [turn EXCEPT ![r].at = "mark"]
    /\ UNCHANGED <<row, stored, calls, qVars, workerVars, eventVars, addVars, lock, batch,
                   profileVars, unlucky, late, overlapped>>

WriteProfile(r) ==
    /\ turn[r].at = "write"
    /\ count' = [count EXCEPT ![OwnerOf(r)] = turn[r].base + 1]
    /\ folded' = [folded EXCEPT ![OwnerOf(r)] = Append(@, turn[r].event)]
    /\ turn' = [turn EXCEPT ![r].at = "mark"]
    /\ UNCHANGED <<indexingVars, eventVars, addVars, lock, batch, stray, historyVars>>

MarkApplied(r) ==
    /\ turn[r].at = "mark"
    /\ applied' = applied \cup {turn[r].event}
    /\ EndTurn(r)
    /\ UNCHANGED <<indexingVars, saved, addVars, batch, profileVars, historyVars>>

(* An exception of the guard's query, of an update or of the last query: the   *)
(* call fails, the consumer logs it; the event stays.  When it was another     *)
(* update that failed, the one of the audio profile goes on by itself.         *)
TrialThrows(r) ==
    /\ turn[r].at # "none" /\ Fault
    /\ unlucky' = unlucky \cup {turn[r].event}
    /\ \/ turn[r].at \in {"retrieve", "write"}
             /\ stray' = [stray EXCEPT ![faults'] = turn[r]]
       \/ UNCHANGED stray
    /\ EndTurn(r)
    /\ UNCHANGED <<row, stored, calls, qVars, workerVars, eventVars, addVars, batch,
                   count, folded, late, lost, overlapped>>

-------------------------------------------------------------------------------
(* A stray update runs beside the turns of its user, under no lock. *)

StrayRetrieves(n) ==
    LET u == UserOf[stray[n].event] IN
    /\ stray[n].at = "retrieve" /\ TrackOf[stray[n].event] \in mert
    /\ stray' = [stray EXCEPT ![n].at = "write", ![n].base = count[u]]
    /\ overlapped' = IF UpdatedByTurn(u) \/ UpdatedByStray(u)
                       THEN overlapped \cup {u} ELSE overlapped
    /\ UNCHANGED <<indexingVars, eventVars, addVars, serialVars, count, folded,
                   unlucky, late, lost>>

StrayWrites(n) ==
    LET u == UserOf[stray[n].event] IN
    /\ stray[n].at = "write"
    /\ count' = [count EXCEPT ![u] = stray[n].base + 1]
    /\ folded' = [folded EXCEPT ![u] = Append(@, stray[n].event)]
    /\ late' = late \cup {stray[n].event}
    /\ stray' = [stray EXCEPT ![n] = NoTurn]
    /\ UNCHANGED <<indexingVars, eventVars, addVars, serialVars, unlucky, lost,
                   overlapped>>

(* No vector, or an error nobody hears of.                                     *)
StrayEnds(n) ==
    /\ stray[n].at # "none"
    /\ FaultIf(stray[n].at = "write" \/ TrackOf[stray[n].event] \in mert)
    /\ stray' = [stray EXCEPT ![n] = NoTurn]
    /\ UNCHANGED <<row, stored, calls, qVars, workerVars, eventVars, addVars, serialVars,
                   count, folded, historyVars>>

(* A step of Indexing. *)
Pipeline(A) == A /\ UNCHANGED tasteVars

Next ==
    \/ Pipeline(PipelineStep)
    \/ \E e \in Events : AddLooks(e) \/ AddStores(e) \/ Record(e) \/ SaveEvent(e)
    \/ \E u \in Users : NextInBatch(u) \/ \E t \in Tracks : RemoveDislike(u, t)
    \/ \E t \in Tracks : OnDoneTaste(t)
    \/ \E r \in Runners : Guard(r) \/ Retrieve(r) \/ NotApplied(r)
                             \/ AppliedElsewhere(r) \/ WriteProfile(r)
                             \/ MarkApplied(r) \/ TrialThrows(r)
    \/ \E n \in Strays : StrayRetrieves(n) \/ StrayWrites(n) \/ StrayEnds(n)

Spec == Init /\ [][Next]_vars

-------------------------------------------------------------------------------
(* Properties. *)

(* No update of a profile is lost: event_count, read before two awaits and     *)
(* written after them, is the number of events folded in, save for a user with *)
(* whom an update that a failed trial left behind overlapped with another one. *)
ProfileCountsEvents ==
    \A u \in Users \ overlapped : count[u] = Len(folded[u])

IsDislikeOf(e, u, t) == UserOf[e] = u /\ TrackOf[e] = t /\ KindOf[e] = "dislike"

(* The last of the track's events in the profile, if any, is not a like, or    *)
(* one that a stray update folded late.                                        *)
LastIsNoLike(u, t) ==
    \A i \in 1..Len(folded[u]) :
        /\ TrackOf[folded[u][i]] = t
        /\ \A j \in 1..Len(folded[u]) : j > i => TrackOf[folded[u][j]] # t
        => KindOf[folded[u][i]] # "like" \/ folded[u][i] \in late

(* The dislike has the last word.  At rest, when the row of a dislike stands,  *)
(* no dislike of that track is still to be applied and no error lost one, the  *)
(* last of the track's events in the profile is not a like, although the       *)
(* consumer's list is read before the lock and the guard before the fold, and  *)
(* although an event counts as applied when another profile alone took it.     *)
DislikeHasLastWord ==
    \A u \in Users, t \in Tracks :
        /\ <<u, t>> \in disliked /\ lock[u] = <<>>
        /\ \A d \in Events :
              IsDislikeOf(d, u, t) => d \notin lost /\ (Asked(d) => d \in applied)
        => LastIsNoLike(u, t)

(* No event is left behind: once the row of its track is indexed and the done  *)
(* message is consumed, a saved event was applied, by its call or by the       *)
(* consumer, whichever came second, unless its own trial met an error.         *)
(* Nothing would come back for it: an indexed track is never queued again.     *)
NoEventLeftBehind ==
    \A e \in Events :
        IsSaved(e) /\ row[TrackOf[e]] = "set" /\ TrackOf[e] \notin doneTaste
            /\ lock[UserOf[e]] = <<>>
        => e \in applied \cup unlucky

===============================================================================
