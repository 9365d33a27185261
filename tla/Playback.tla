------------------------------- MODULE Playback -------------------------------
(* From the player queue to the sound: lib/audio.ts, which loads the track the *)
(* store shows, and the engine in src-tauri/src/audio, which plays it and says *)
(* when it is over.  The store is that of PlayerQueue, its queue only cleared  *)
(* and extended by autoplay here.                                              *)
(*                                                                             *)
(* A step of JavaScript runs to its next await, with the subscriber of the     *)
(* store inside it.  Its synchronous commands take effect with the step: they  *)
(* run in the order they were sent and give nothing back, and what the engine  *)
(* reports is queued.  audio_load_file runs beside them, one task per load.    *)
(* A load is named by its generation (loadGen).                                *)
(*                                                                             *)
(* mishaps records which of the races of the code have happened, so that a     *)
(* property can say which of them it does not survive.  Failing streams and    *)
(* stalls, with the reconnection they cause, are left out.                     *)
EXTENDS PlayerQueue

CONSTANTS MaxLoads,  \* bound on the loads of a behaviour
          MaxEnded,  \* bound on the events on their way
          Lineups    \* the queues a behaviour may begin with

ASSUME PlaybackAssumption ==
    /\ MaxLoads \in Nat \ {0} /\ MaxEnded \in Nat \ {0}
    /\ Lineups \subseteq Queues \ {<<>>}

VARIABLES js,      \* currentUrn, hasTrack and loadGen of audio.ts
          load,    \* per generation: where the load is, its track, how it starts
          engine,  \* AudioState: the player, and the flags about it
          ended,   \* audio:ended events on their way, as the tracks that ended
          mishaps

queueVars == <<expanding, asked, alone>>
playbackVars == <<vars, js, load, engine, ended, mishaps>>

Gens == 1..MaxLoads
NoLoad == [at |-> "none", urn |-> None, paused |-> FALSE, pauseAfter |-> FALSE]
InEngine(g) == load[g].at \in {"read", "decode"}

PlaybackTypeOK ==
    /\ player \in Store /\ asked \in (SUBSET Track) \cup {None}
    /\ js \in [urn : Track \cup {None}, has : BOOLEAN, gen : 0..MaxLoads]
    /\ load \in [Gens -> [at : {"none", "fetch", "read", "decode", "loaded", "failed", "end"},
                          urn : Track \cup {None}, paused : BOOLEAN, pauseAfter : BOOLEAN]]
    /\ engine \in [player : Track \cup {None}, bytes : Track \cup {None}, paused : BOOLEAN,
                   over : BOOLEAN, has : BOOLEAN, notified : BOOLEAN, quiet : BOOLEAN,
                   switching : BOOLEAN]
    /\ ended \in Seq(Track)
    /\ mishaps \subseteq {"overtaken", "dropped", "missed", "switch", "reload", "same"}

(* The application starts with the store as it was persisted, paused.          *)
PlaybackInit ==
    /\ \E q \in Lineups, mode \in {"off", "one", "all"} :
          player = [current |-> q[1], queue |-> q, original |-> None, index |-> 0,
                    playing |-> FALSE, shuffle |-> FALSE, repeat |-> mode]
    /\ expanding = FALSE /\ asked = None /\ alone = {}
    /\ js = [urn |-> None, has |-> FALSE, gen |-> 0]
    /\ load = [g \in Gens |-> NoLoad]
    /\ engine = [player |-> None, bytes |-> None, paused |-> FALSE, over |-> FALSE,
                 has |-> FALSE, notified |-> FALSE, quiet |-> FALSE, switching |-> FALSE]
    /\ ended = <<>> /\ mishaps = {}

-------------------------------------------------------------------------------
(* Commands to the engine. *)

(* play, pause and stop try the lock of the player and give up when the tick   *)
(* thread holds it, as it does while it reports a position.  Once at most.     *)
Miss(more) ==
    /\ engine.has /\ engine.player # None
    /\ "missed" \notin mishaps /\ mishaps' = mishaps \cup {"missed"} \cup more

(* audio_play, audio_pause                                                     *)
SetPaused(paused, races) ==
    \/ engine' = [engine EXCEPT !.paused = IF engine.player = None THEN @ ELSE paused]
       /\ mishaps' = mishaps \cup races
    \/ Miss(races) /\ UNCHANGED engine

(* audio_stop, which ends loadTrack's first step: a load that the engine is at *)
(* work on goes on there.                                                      *)
Stop(races, ifMissed) ==
    LET overtaken == IF \E g \in Gens : InEngine(g) THEN {"overtaken"} ELSE {} IN
    \/ engine' = [engine EXCEPT !.has = FALSE, !.player = None, !.bytes = None]
       /\ mishaps' = mishaps \cup races \cup overtaken
    \/ Miss(races \cup ifMissed \cup overtaken)
       /\ engine' = [engine EXCEPT !.has = FALSE, !.bytes = None]

-------------------------------------------------------------------------------
(* audio.ts *)

(* loadTrack up to its first await.                                            *)
LoadTrack(t, pauseAfter, loads) ==
    /\ js.gen < MaxLoads
    /\ js' = [urn |-> t, has |-> FALSE, gen |-> js.gen + 1]
    /\ load' = [loads EXCEPT ![js.gen + 1] =
                  [NoLoad EXCEPT !.at = "fetch", !.urn = t, !.pauseAfter = pauseAfter]]
    /\ Stop({}, {})

(* The store becomes p, and the subscriber, finding currentUrn and hasTrack as *)
(* in j, loads another track, stops the last for want of another, loads this   *)
(* one for want of a loaded one, passes on play or pause, or does nothing,     *)
(* also for another entry of the same track when this one is no longer played. *)
SetStore(p, j, loads) ==
    LET changed == p.current # j.urn
        toggled == p.playing # player.playing
        fetches == \E g \in Gens : g = j.gen /\ loads[g].at = "fetch"
        dropped == IF player.current # None /\ p.current = None /\ (changed => fetches)
                     THEN {"dropped"} ELSE {}
        same    == IF p.index # player.index /\ p.current # None /\ ~j.has
                     THEN {"same"} ELSE {}
    IN
    /\ player' = p
    /\ \/ /\ p.current # None
          /\ changed \/ (toggled /\ p.playing /\ ~j.has)
          /\ LoadTrack(p.current, FALSE, loads)
       \/ /\ changed /\ p.current = None
          /\ Stop(dropped, {"dropped"})
          /\ js' = [j EXCEPT !.urn = None, !.has = FALSE] /\ load' = loads
       \/ /\ ~changed /\ toggled /\ (p.playing => j.has \/ p.current = None)
          /\ SetPaused(~p.playing, dropped)
          /\ js' = j /\ load' = loads
       \/ /\ ~changed /\ ~toggled
          /\ js' = j /\ load' = loads /\ UNCHANGED engine
          /\ mishaps' = mishaps \cup dropped \cup same

(* The user, the media keys, and a change of the volume, which is a change of  *)
(* the store that concerns no track.  prev() on a cleared queue shows nothing. *)
Use ==
    /\ \/ \E i \in 0..(Len(player.queue) - 1) :
             i # player.index /\ SetStore(Selected(player, i), js, load)
       \/ player.queue # <<>> /\ SetStore(Advanced(player), js, load)
       \/ SetStore(Retreated(player), js, load)
       \/ \E on \in BOOLEAN : SetStore([player EXCEPT !.playing = on], js, load)
       \/ SetStore([player EXCEPT !.queue = <<>>, !.index = -1], js, load)
    /\ UNCHANGED <<queueVars, ended>>

(* reloadCurrentTrack, when normalization is switched: what it read of the     *)
(* store before the await decides whether it pauses after it.  Its seek to the *)
(* old position, made when that is not 0, is a Seek that follows at once.      *)
Reload ==
    /\ player.current # None
    /\ LoadTrack(player.current, ~player.playing, load)
    /\ UNCHANGED <<player, queueVars, ended>>

EndLoad(g) == [load EXCEPT ![g] = [NoLoad EXCEPT !.at = "end"]]

(* The reload that ends here had read a paused store, and pauses the engine.   *)
PauseAfterReload ==
    \/ engine' = [engine EXCEPT !.paused = IF engine.player = None THEN @ ELSE TRUE]
       /\ mishaps' = IF player.playing THEN mishaps \cup {"reload"} ELSE mishaps
    \/ Miss({}) /\ UNCHANGED engine

(* A load that is no longer the current one ends, but a reload goes on.        *)
Superseded(g) ==
    /\ g # js.gen
    /\ load' = EndLoad(g)
    /\ IF load[g].pauseAfter THEN PauseAfterReload ELSE UNCHANGED <<engine, mishaps>>
    /\ UNCHANGED <<player, js>>

\* Mutant: the load goes on without asking whether it is still the current one.
FetchedUnchecked(g) ==
    /\ load[g].at = "fetch"
    /\ load' = [load EXCEPT ![g].at = "read", ![g].paused = ~player.playing]
    /\ UNCHANGED <<player, js, engine, mishaps, queueVars, ended>>

(* The cache has answered, with a file it had or has downloaded; a load that   *)
(* is still current goes to the engine, which may be at work on another one.   *)
Fetched(g) ==
    /\ load[g].at = "fetch"
    /\ \/ Superseded(g)
       \/ /\ g = js.gen
          /\ load' = [load EXCEPT ![g].at = "read", ![g].paused = ~player.playing]
          /\ UNCHANGED <<player, js, engine, mishaps>>
    /\ UNCHANGED <<queueVars, ended>>

FetchFails(g) ==
    /\ load[g].at = "fetch"
    /\ load' = [load EXCEPT ![g].at = "failed"]
    /\ UNCHANGED <<player, js, engine, mishaps, queueVars, ended>>

\* Mutant: afterLoad trusts what the load was started with.
LoadedAsStarted(g) ==
    /\ load[g].at = "loaded"
    /\ \/ Superseded(g)
       \/ /\ g = js.gen
          /\ load' = EndLoad(g) /\ js' = [js EXCEPT !.has = TRUE]
          /\ IF load[g].pauseAfter THEN PauseAfterReload ELSE UNCHANGED <<engine, mishaps>>
          /\ UNCHANGED player
    /\ UNCHANGED <<queueVars, ended>>

(* The engine's answer arrives: afterLoad tells it what the store says now.    *)
Loaded(g) ==
    /\ load[g].at = "loaded"
    /\ \/ Superseded(g)
       \/ /\ g = js.gen
          /\ load' = EndLoad(g) /\ js' = [js EXCEPT !.has = TRUE]
          /\ IF load[g].pauseAfter THEN PauseAfterReload ELSE SetPaused(~player.playing, {})
          /\ UNCHANGED player
    /\ UNCHANGED <<queueVars, ended>>

(* A load that failed pauses the store; a reload of a paused one, the engine.  *)
Failed(g) ==
    LET reload == load[g].pauseAfter /\ ~player.playing IN
    /\ load[g].at = "failed"
    /\ \/ Superseded(g)
       \/ g = js.gen /\ ~reload /\ SetStore([player EXCEPT !.playing = FALSE], js, EndLoad(g))
       \/ g = js.gen /\ reload /\ PauseAfterReload /\ load' = EndLoad(g)
          /\ UNCHANGED <<player, js>>
    /\ UNCHANGED <<queueVars, ended>>

(* audio:ended, which names no track, and handleTrackEnd, which leaves urn as  *)
(* currentUrn when it calls next().                                            *)
HandleTrackEnd(urn) ==
    LET j == [js EXCEPT !.has = FALSE]
        autoplay == player.repeat = "off" /\ AtLast(player) /\ player.queue # <<>>
    IN
    /\ ended # <<>> /\ ended' = Tail(ended)
    /\ \/ /\ player.repeat = "one" /\ player.current # None
          /\ LoadTrack(player.current, FALSE, load) /\ UNCHANGED <<player, asked>>
       \/ /\ player.repeat = "one" /\ player.current = None
          /\ js' = j /\ UNCHANGED <<player, asked, load, engine, mishaps>>
       \/ /\ autoplay
          /\ js' = j /\ asked' = IF asked = None THEN ToSet(player.queue) ELSE asked
          /\ UNCHANGED <<player, load, engine, mishaps>>
       \/ /\ player.repeat # "one" /\ ~autoplay /\ player.queue # <<>>
          /\ SetStore(Advanced(player), [j EXCEPT !.urn = urn], load) /\ UNCHANGED asked
       \/ /\ player.repeat # "one" /\ player.queue = <<>>
          /\ js' = [j EXCEPT !.urn = urn]
          /\ UNCHANGED <<player, asked, load, engine, mishaps>>
    /\ UNCHANGED <<expanding, alone>>

\* Mutant: currentUrn is not cleared before next().
EndedKeepsUrn == HandleTrackEnd(js.urn)

Ended == HandleTrackEnd(None)

(* The related tracks have come, or none, or the request failed.               *)
Autoplay ==
    /\ asked # None /\ asked' = None
    /\ \/ \E t \in Track \ asked : \E p \in Added(player, <<t>>) :
             RoomFor(1) /\ SetStore(Advanced(p), js, load)
       \/ SetStore([player EXCEPT !.playing = FALSE], js, load)
    /\ UNCHANGED <<expanding, alone, ended>>

(* seek(): to the start the player is built anew, elsewhere it is moved, which *)
(* has no effect on a player that has run out.                                 *)
Seek ==
    /\ js.has
    /\ \/ engine.player # None /\ engine' = [engine EXCEPT !.quiet = TRUE, !.notified = FALSE]
       \/ engine.bytes = None /\ engine' = [engine EXCEPT !.quiet = TRUE]
       \/ engine.bytes # None
          /\ engine' = [engine EXCEPT !.quiet = TRUE, !.notified = FALSE, !.over = FALSE,
                          !.player = engine.bytes,
                          !.paused = engine.player # None /\ @]
    /\ UNCHANGED <<player, js, load, mishaps, queueVars, ended>>

-------------------------------------------------------------------------------
(* The engine. *)

(* load_file has read the file and stops the player there is.                  *)
Read(g) ==
    /\ load[g].at = "read"
    /\ load' = [load EXCEPT ![g].at = "decode"]
    /\ engine' = [engine EXCEPT !.player = None, !.quiet = TRUE]
    /\ UNCHANGED <<player, js, mishaps, queueVars, ended>>

(* commit_loaded_track, which asks nobody whether the load is still wanted.    *)
Commit(g) ==
    /\ load[g].at = "decode"
    /\ load' = [load EXCEPT ![g].at = "loaded"]
    /\ engine' = [engine EXCEPT !.player = load[g].urn, !.bytes = load[g].urn,
                    !.paused = load[g].paused, !.over = FALSE, !.has = TRUE,
                    !.notified = FALSE]
    /\ UNCHANGED <<player, js, mishaps, queueVars, ended>>

(* The file cannot be read or decoded.                                         *)
LoadFileFails(g) ==
    /\ InEngine(g)
    /\ load' = [load EXCEPT ![g].at = "failed"]
    /\ UNCHANGED <<engine, player, js, mishaps, queueVars, ended>>

(* A track lasts longer than the answer to audio_load_file is on its way.      *)
RunsOut ==
    /\ engine.player # None /\ ~engine.paused /\ ~engine.over
    /\ \A g \in Gens : load[g].at # "loaded"
    /\ engine' = [engine EXCEPT !.over = TRUE]
    /\ UNCHANGED <<player, js, load, mishaps, queueVars, ended>>

(* ENDED_SUPPRESS_MS have passed.                                              *)
SuppressionEnds ==
    /\ engine.quiet /\ engine' = [engine EXCEPT !.quiet = FALSE]
    /\ UNCHANGED <<player, js, load, mishaps, queueVars, ended>>

(* The tick thread finds the player empty.                                     *)
Tick ==
    /\ engine.has /\ engine.player # None /\ engine.over
    /\ ~engine.quiet /\ ~engine.notified /\ Len(ended) < MaxEnded
    /\ engine' = [engine EXCEPT !.notified = TRUE]
    /\ ended' = Append(ended, engine.player)
    /\ UNCHANGED <<player, js, load, mishaps, queueVars>>

(* The output device is changed by the user or by the system: the player is    *)
(* taken away (once at most) ...                                               *)
SwitchDevice ==
    /\ ~engine.switching /\ "switch" \notin mishaps
    /\ engine' = [engine EXCEPT !.player = None, !.has = FALSE, !.switching = TRUE]
    /\ mishaps' = mishaps \cup {"switch"}
    /\ UNCHANGED <<player, js, load, queueVars, ended>>

(* ... and reload_current_track finds none to go by, unless a load has brought *)
(* one in between.                                                             *)
DeviceSwitched ==
    /\ engine.switching
    /\ engine' = IF engine.player = None \/ engine.bytes = None
                   THEN [engine EXCEPT !.switching = FALSE, !.quiet = TRUE]
                   ELSE [engine EXCEPT !.switching = FALSE, !.quiet = TRUE, !.has = TRUE,
                           !.player = engine.bytes, !.notified = FALSE]
    /\ UNCHANGED <<player, js, load, mishaps, queueVars, ended>>

PlaybackNext ==
    \/ Use \/ Reload \/ Ended \/ Autoplay \/ Seek
    \/ \E g \in Gens : Fetched(g) \/ FetchFails(g) \/ Loaded(g) \/ Failed(g)
                          \/ Read(g) \/ Commit(g) \/ LoadFileFails(g)
    \/ RunsOut \/ SuppressionEnds \/ Tick \/ SwitchDevice \/ DeviceSwitched

PlaybackSpec == PlaybackInit /\ [][PlaybackNext]_playbackVars

-------------------------------------------------------------------------------
(* Properties, of the states in which nothing is under way: no load, no event, *)
(* no answer, no end of a track still to be noticed.                           *)

AtRest ==
    /\ \A g \in Gens : load[g].at \in {"none", "end"}
    /\ ended = <<>> /\ asked = None /\ ~engine.switching
    /\ ~(engine.player # None /\ engine.over /\ engine.has /\ ~engine.notified)

Heard == engine.player # None /\ ~engine.over /\ ~engine.paused

(* What is heard is the track the store shows, through any sequence of         *)
(* selections, ends of tracks, failed loads, late answers and switched         *)
(* devices, unless a track was given up, for another or for none, when the     *)
(* engine was at work on its load, or it was given up for none when its load   *)
(* was being fetched, for then loadGen is not raised, or with a stop that      *)
(* missed the lock.                                                            *)
HeardIsShown ==
    AtRest /\ Heard /\ mishaps \cap {"overtaken", "dropped"} = {} =>
        engine.player = player.current

(* Nothing is heard while the store says paused, unless a command missed the   *)
(* lock, a load was superseded in the engine, or a seek after a switch of the  *)
(* device made a new player, unpaused.                                         *)
PausedIsSilent ==
    AtRest /\ ~player.playing /\ mishaps \cap {"missed", "overtaken", "switch"} = {} => ~Heard

(* The store says playing: then something is heard, unless the queue was       *)
(* cleared, or prev() on a cleared queue has left no track to show, or one of  *)
(* the races of mishaps took it away.                                          *)
SilenceIsMeant ==
    AtRest /\ player.playing /\ player.queue # <<>> /\ player.current # None /\ mishaps = {}
        => Heard

===============================================================================
