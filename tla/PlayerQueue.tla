----------------------------- MODULE PlayerQueue -----------------------------
(***************************************************************************)
(* The player queue of the desktop application: desktop/src/stores/        *)
(* player.ts, with the callers that reach it: the rows and the drag and    *)
(* drop of QueuePanel, the media keys, the tray, the end of a track and    *)
(* its autoplay (lib/audio.ts), the refill of the endless wave, and the    *)
(* two ways the library plays the liked tracks.                            *)
(*                                                                         *)
(* The store is one object that each operation replaces; so is player      *)
(* here, and an operation is a function from the store to the stores it    *)
(* may leave.  JavaScript runs an operation to its end, so operations do   *)
(* not interleave; the requests that end in one do: what autoplay, the     *)
(* library and the wave asked for is applied to the queue of another time. *)
(*                                                                         *)
(* A track is its urn.  Indices are the code's: the entry at index i is    *)
(* queue[i + 1], and -1 stands for no entry.                               *)
(***************************************************************************)
EXTENDS Integers, FiniteSets, Sequences, SequencesExt, TLC

CONSTANTS
    Track,
    None,
    MaxQueue,   \* bound: the length of a queue
    MaxGiven    \* bound: the length of a list that a caller hands over

ASSUME PlayerQueueAssumption ==
    /\ None \notin Track /\ \A s \in SUBSET Track : s # None
    /\ MaxQueue \in Nat /\ MaxGiven \in 1..MaxQueue

VARIABLES
    player,      \* the store
    expanding,   \* the library will put all liked tracks into the queue
    asked,       \* the urns autoplay found in the queue when it asked, or None
    alone        \* auxiliary: played without a list since originalQueue was recorded

vars == <<player, expanding, asked, alone>>

Lists == SeqOf(Track, MaxGiven)
Queues == SeqOf(Track, MaxQueue)

Store == [current : Track \cup {None}, queue : Queues, original : Queues \cup {None},
          index : -1..MaxQueue, playing : BOOLEAN, shuffle : BOOLEAN,
          repeat : {"off", "one", "all"}]

\* The types of the variables; the index is never below -1 nor above the bound.
TypeOK ==
    /\ player \in Store
    /\ expanding \in BOOLEAN
    /\ asked \in (SUBSET Track) \cup {None}
    /\ alone \in SUBSET Track

Init ==
    /\ player = [current |-> None, queue |-> <<>>, original |-> None, index |-> -1,
                 playing |-> FALSE, shuffle |-> FALSE, repeat |-> "off"]
    /\ expanding = FALSE
    /\ asked = None
    /\ alone = {}

-----------------------------------------------------------------------------
(* Lists as the store handles them.                                        *)

\* queue[i], which is undefined outside the list.
At(s, i) == IF i \in 0..(Len(s) - 1) THEN s[i + 1] ELSE None

\* findIndex by urn: the first, or -1.
FindIndex(s, t) == SelectInSeq(s, LAMBDA u : u = t) - 1

\* shuffleArray leaves any order.
Shuffled(s) == {[i \in DOMAIN s |-> s[f[i]]] : f \in Bijection(DOMAIN s, DOMAIN s)}

\* The current track first, the others in any order.
ShuffledFrom(s, i, t) == {<<t>> \o r : r \in Shuffled(RemoveAt(s, i + 1))}

\* slice(0, n) and slice(n), which take an n past the end for the end.
Taken(s, n) == SubSeq(s, 1, IF n > Len(s) THEN Len(s) ELSE n)
Dropped(s, n) == SubSeq(s, n + 1, Len(s))

\* splice(i, 0, ...ts)
Spliced(s, i, ts) == Taken(s, i) \o ts \o Dropped(s, i)

\* Where a track added under shuffle may land.
Positions(s, index) == IF index < Len(s) THEN (index + 1)..Len(s) ELSE {Len(s)}
Scattered(s, index, ts) ==
    LET landed[n \in 0..Len(ts)] ==
            IF n = 0 THEN {s}
            ELSE UNION {{Spliced(q, i, <<ts[n]>>) : i \in Positions(q, index)} : q \in landed[n - 1]}
    IN  landed[Len(ts)]

WithTracks(original, ts) == IF original = None THEN None ELSE original \o ts

-----------------------------------------------------------------------------
(* The operations, as the stores that they may leave.                      *)

\* play(track, queue)
PlayedFrom(p, t, list) ==
    LET found == FindIndex(list, t)
        i     == IF found >= 0 THEN found ELSE 0
        q     == [p EXCEPT !.current = t, !.playing = TRUE]
    IN  IF p.shuffle
        THEN {[q EXCEPT !.queue = s, !.index = 0, !.original = list] : s \in ShuffledFrom(list, i, t)}
        ELSE {[q EXCEPT !.queue = list, !.index = i, !.original = None]}

\* play(track)
PlayedAlone(p, t) ==
    [p EXCEPT !.current = t, !.queue = Append(@, t), !.index = Len(p.queue), !.playing = TRUE]

Selected(p, i) == [p EXCEPT !.current = At(p.queue, i), !.index = i, !.playing = TRUE]

\* Mutant: the end of the queue is seen one entry late.
AdvancedLate(p) ==
    IF p.queue = <<>> THEN p
    ELSE IF p.index + 1 <= Len(p.queue) THEN Selected(p, p.index + 1)
    ELSE IF p.repeat = "all" THEN Selected(p, 0)
    ELSE [p EXCEPT !.playing = FALSE]

\* next
Advanced(p) ==
    IF p.queue = <<>> THEN p
    ELSE IF p.index + 1 < Len(p.queue) THEN Selected(p, p.index + 1)
    ELSE IF p.repeat = "all" THEN Selected(p, 0)
    ELSE [p EXCEPT !.playing = FALSE]

\* prev, which does not look whether there is such an entry.
Retreated(p) == Selected(p, IF p.index > 0 THEN p.index - 1 ELSE 0)

\* setQueue
Replaced(p, list) ==
    LET i == FindIndex(list, p.current)
    IN  IF p.shuffle /\ i >= 0
        THEN {[p EXCEPT !.queue = s, !.index = 0, !.original = list] :
                  s \in ShuffledFrom(list, i, p.current)}
        ELSE {[p EXCEPT !.queue = list, !.index = IF i >= 0 THEN i ELSE @,
                        !.original = IF p.shuffle THEN list ELSE None]}

\* addToQueue
Added(p, ts) ==
    {[p EXCEPT !.queue = s, !.original = WithTracks(@, ts)] :
        s \in IF p.shuffle /\ p.index >= 0 THEN Scattered(p.queue, p.index, ts)
                                          ELSE {p.queue \o ts}}

\* addToQueueNext
AddedNext(p, ts) ==
    [p EXCEPT !.queue = Spliced(@, p.index + 1, ts), !.original = WithTracks(@, ts)]

\* Mutant: the original order keeps the track.
RemovedHere(p, i) == [p EXCEPT !.queue = RemoveAt(@, i + 1), !.index = IF i < @ THEN @ - 1 ELSE @]

\* removeFromQueue: the track also leaves the original order, by its urn.
Removed(p, i) ==
    LET rest == RemoveAt(p.queue, i + 1)
    IN  [p EXCEPT !.queue = rest,
                  !.index = IF i < @ THEN @ - 1
                            ELSE IF i = @ /\ @ > Len(rest) - 1 THEN Len(rest) - 1
                            ELSE @,
                  !.original = IF @ = None THEN None ELSE RemoveFirst(@, p.queue[i + 1])]

\* Mutant: a track dropped on the current one leaves the index where it is.
MovedPast(p, from, to) ==
    [p EXCEPT !.queue = Spliced(RemoveAt(@, from + 1), to, <<p.queue[from + 1]>>),
              !.index = IF @ = from THEN to
                        ELSE IF from < @ /\ to >= @ THEN @ - 1
                        ELSE IF from > @ /\ to < @ THEN @ + 1
                        ELSE @]

\* moveInQueue
Moved(p, from, to) ==
    [p EXCEPT !.queue = Spliced(RemoveAt(@, from + 1), to, <<p.queue[from + 1]>>),
              !.index = IF @ = from THEN to
                        ELSE IF from < @ /\ to >= @ THEN @ - 1
                        ELSE IF from > @ /\ to <= @ THEN @ + 1
                        ELSE @]

\* toggleShuffle, on: the entries up to the current one stay.
ShuffleOn(p) ==
    {[p EXCEPT !.shuffle = TRUE, !.original = p.queue,
               !.queue = Taken(@, p.index + 1) \o s] :
        s \in Shuffled(Dropped(p.queue, p.index + 1))}

\* toggleShuffle, off: the original order comes back, if there is one.
ShuffleOff(p) ==
    LET i == FindIndex(p.original, p.current)
    IN  IF p.original # None /\ p.current # None
        THEN [p EXCEPT !.shuffle = FALSE, !.queue = p.original, !.original = None,
                       !.index = IF i >= 0 THEN i ELSE 0]
        ELSE [p EXCEPT !.shuffle = FALSE, !.original = None]

-----------------------------------------------------------------------------
(* The user.                                                               *)

\* The store becomes p; the original order, if any, is still the one recorded.
Become(p) ==
    /\ player' = p
    /\ alone' = IF p.original = None THEN {} ELSE alone

\* The store becomes p, with an original order recorded now or none.
BecomeAnew(p) == player' = p /\ alone' = {}

\* A card, a playlist or a station starts a list; a row of the liked tracks also
\* asks for all of them (onPlay).
Play(t, list, fromLikes) ==
    /\ t \in ToSet(list)
    /\ fromLikes => t # player.current
    /\ \E p \in PlayedFrom(player, t, list) : BecomeAnew(p)
    /\ expanding' = (expanding \/ fromLikes)
    /\ UNCHANGED asked

\* The page of a track that has no related tracks.
PlayAlone(t) ==
    /\ t # player.current
    /\ Len(player.queue) < MaxQueue
    /\ player' = PlayedAlone(player, t)
    /\ alone' = IF player.original = None THEN {} ELSE alone \cup {t}
    /\ UNCHANGED <<expanding, asked>>

\* The answer to "shuffle my likes": shuffle is set by itself, then the list plays.
ShuffleLikes(t, list) ==
    /\ t \in ToSet(list)
    /\ \E p \in PlayedFrom([player EXCEPT !.shuffle = TRUE], t, list) : BecomeAnew(p)
    /\ UNCHANGED <<expanding, asked>>

\* The rows that QueuePanel shows are the entries after the current one.
Rows == (player.index + 1)..(Len(player.queue) - 1)

PlayFromQueue(i) == i \in Rows /\ Become(Selected(player, i)) /\ UNCHANGED <<expanding, asked>>

RemoveFromQueue(i) == i \in Rows /\ Become(Removed(player, i)) /\ UNCHANGED <<expanding, asked>>

\* The rows of a drag keep their indices while the queue advances past them, so that
\* either may be the current one, or an earlier one, when it ends.
MoveInQueue(from, to) ==
    /\ {from, to} \subseteq 0..(Len(player.queue) - 1) /\ from # to
    /\ Become(Moved(player, from, to))
    /\ UNCHANGED <<expanding, asked>>

ClearQueue ==
    /\ player.queue # <<>>
    /\ Become([player EXCEPT !.queue = <<>>, !.index = -1, !.original = None])
    /\ UNCHANGED <<expanding, asked>>

QueueNext(t) ==
    /\ Len(player.queue) < MaxQueue
    /\ player.original # None => Len(player.original) < MaxQueue
    /\ Become(AddedNext(player, <<t>>))
    /\ UNCHANGED <<expanding, asked>>

Skip == Become(Advanced(player)) /\ UNCHANGED <<expanding, asked>>

Prev == Become(Retreated(player)) /\ UNCHANGED <<expanding, asked>>

ToggleShuffle ==
    /\ IF player.shuffle THEN BecomeAnew(ShuffleOff(player))
                         ELSE \E p \in ShuffleOn(player) : BecomeAnew(p)
    /\ UNCHANGED <<expanding, asked>>

ToggleRepeat ==
    /\ Become([player EXCEPT !.repeat = CASE @ = "off" -> "all"
                                          [] @ = "all" -> "one"
                                          [] @ = "one" -> "off"])
    /\ UNCHANGED <<expanding, asked>>

\* pause and resume, of the media keys too; togglePlay is one of them.
SetPlaying(on) == Become([player EXCEPT !.playing = on]) /\ UNCHANGED <<expanding, asked>>
TogglePlay == player.current # None /\ SetPlaying(~player.playing)

-----------------------------------------------------------------------------
(* The end of a track, the answers, and a restart.                         *)

\* handleTrackEnd.  Past the last track autoplay asks for related ones; it finds
\* no last track when the index is outside the queue, and then pauses.
AtLast(p) == p.index >= Len(p.queue) - 1

TrackEnded ==
    /\ player.playing /\ player.current # None
    /\ \/ /\ player.repeat = "one"
          /\ UNCHANGED <<player, alone, asked>>
       \/ /\ player.repeat = "off" /\ AtLast(player) /\ player.queue # <<>>
          /\ IF asked # None THEN UNCHANGED <<player, alone, asked>>
             ELSE IF At(player.queue, player.index) = None
                  THEN Become([player EXCEPT !.playing = FALSE]) /\ UNCHANGED asked
                  ELSE asked' = ToSet(player.queue) /\ UNCHANGED <<player, alone>>
       \/ /\ player.repeat # "one"
          /\ player.repeat = "off" => ~AtLast(player) \/ player.queue = <<>>
          /\ Become(Advanced(player))
          /\ UNCHANGED asked
    /\ UNCHANGED expanding

\* The bound on the lengths that adding n tracks leaves.
RoomFor(n) ==
    /\ Len(player.queue) + n <= MaxQueue
    /\ player.original # None => Len(player.original) + n <= MaxQueue

\* autoplayRelated after its await: what was not in the queue when it asked is added
\* and next() is called, on whatever is played by now; nothing new, or a failure,
\* pauses.
AutoplayAnswer(fresh) ==
    /\ asked # None /\ ToSet(fresh) \cap asked = {} /\ RoomFor(Len(fresh))
    /\ IF fresh = <<>> THEN Become([player EXCEPT !.playing = FALSE])
                       ELSE \E p \in Added(player, fresh) : Become(Advanced(p))
    /\ asked' = None
    /\ UNCHANGED expanding

\* The endless wave adds what is not in the queue at the answer.
WaveRefill(fresh) ==
    /\ ToSet(fresh) \cap ToSet(player.queue) = {} /\ RoomFor(Len(fresh))
    /\ \E p \in Added(player, fresh) : Become(p)
    /\ UNCHANGED <<expanding, asked>>

\* All liked tracks have come: setQueue, whatever is played by now.
ExpandAnswer(list) ==
    /\ expanding
    /\ expanding' \in BOOLEAN   \* another row may have been clicked meanwhile
    /\ \E p \in Replaced(player, list) : BecomeAnew(p)
    /\ UNCHANGED asked

ExpandFails == expanding /\ expanding' = FALSE /\ UNCHANGED <<player, asked, alone>>

\* What is persisted comes back, paused; requests under way are lost.
Restart ==
    /\ Become([player EXCEPT !.playing = FALSE])
    /\ expanding' = FALSE
    /\ asked' = None

Next ==
    \/ \E t \in Track :
          \/ \E list \in Lists :
                \/ \E fromLikes \in BOOLEAN : Play(t, list, fromLikes)
                \/ ShuffleLikes(t, list)
          \/ PlayAlone(t)
          \/ QueueNext(t)
    \/ \E i \in 0..(MaxQueue - 1) :
          \/ PlayFromQueue(i)
          \/ RemoveFromQueue(i)
          \/ \E to \in 0..(MaxQueue - 1) : MoveInQueue(i, to)
    \/ \E list \in Lists : AutoplayAnswer(list) \/ WaveRefill(list) \/ ExpandAnswer(list)
    \/ ClearQueue \/ Skip \/ Prev \/ ToggleShuffle \/ ToggleRepeat
    \/ \E on \in BOOLEAN : SetPlaying(on)
    \/ TogglePlay \/ TrackEnded \/ ExpandFails \/ Restart

Spec == Init /\ [][Next]_vars

-----------------------------------------------------------------------------
(* Properties                                                              *)

Times(s, t) == Cardinality({i \in DOMAIN s : s[i] = t})

PointsAtCurrent(p) == p.current # None /\ At(p.queue, p.index) = p.current

\* Turning shuffle off loses and doubles nothing the user has put into the queue:
\* while an original order is kept, the queue holds every track of it as often as
\* it does, and no other tracks than those played without a list (play(track) does
\* not add to the original order).  Adding, removing and moving entries, answers
\* that come late and restarts are all to keep the two lists together.
ShuffleLosesNothing ==
    player.original # None =>
        \A t \in Track :
            /\ Times(player.original, t) <= Times(player.queue, t)
            /\ t \notin alone => Times(player.original, t) = Times(player.queue, t)

\* queueIndex follows the current track through every edit: when it points at the
\* current track and an operation leaves that track current and in the queue, it
\* still points at it, wherever entries were added, removed, moved or shuffled.
PointerFollowsTrack ==
    [][ (/\ PointsAtCurrent(player)
         /\ player'.current = player.current
         /\ player.current \in ToSet(player'.queue))
        => PointsAtCurrent(player') ]_vars

\* Under repeat "all", as many next() as the queue is long make every entry of it
\* current once, from every state the operations can leave, an index outside the
\* queue (after prev on an empty queue, or a list that lacks the current track)
\* included.
RepeatAllCoversQueue ==
    player.repeat = "all" =>
        LET turn[n \in 0..Len(player.queue)] == IF n = 0 THEN player ELSE Advanced(turn[n - 1])
        IN  \A i \in 0..(Len(player.queue) - 1) :
                \E n \in 1..Len(player.queue) :
                    /\ turn[n].index = i
                    /\ turn[n].current = At(player.queue, i)

=============================================================================
