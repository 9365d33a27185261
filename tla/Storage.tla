------------------------------ MODULE Storage ------------------------------
(***************************************************************************)
(* The storage service: what becomes of an uploaded track in               *)
(* storage/src/routes/upload.rs, pipeline.rs, transcode.rs and backend/.   *)
(*                                                                         *)
(* A received upload takes the lock of its file name, queues its .input    *)
(* file and waits for the answer.  A dispatcher gathers queued jobs into   *)
(* batches; a batch holds a permit while it is probed and goes through one *)
(* ffmpeg process, and falls apart into single runs when that fails.  The  *)
(* two results of a job, high and standard quality, are committed to the   *)
(* backend by a pool of writers.  Deletions and restarts may come between. *)
(* A file is known by its duration alone.  TmpQuota has the receiving.     *)
(***************************************************************************)
EXTENDS FiniteSets, Naturals, Sequences

CONSTANTS Upload,          \* the upload requests, each made once
          File,            \* the file names they give
          Length,          \* the durations of the tracks
          Short,           \* MIN_UPLOAD_DURATION_SECS
          Epsilon,         \* DURATION_EPSILON_SECS
          Backends,        \* the backends a host may be configured with
          BatchSize,       \* transcode_batch_size
          MaxTranscodes,   \* max_transcodes
          Writers,         \* upload_concurrency
          Retries,         \* upload_retries
          MaxMishaps,      \* bound: failing tools and operations, restarts, clients that go
                           \* away and DELETE requests, in all
          None             \* no upload, no answer

ASSUME StorageAssumption ==
    /\ Length \subseteq Nat \ {0} /\ Short \in Nat /\ Epsilon \in Nat
    /\ Backends \subseteq {"local", "s3"}
    /\ {BatchSize, MaxTranscodes, Writers} \subseteq Nat \ {0}
    /\ {Retries, MaxMishaps} \subseteq Nat
    /\ None \notin Upload
    /\ None \notin {"ok", "short", "ffmpeg", "backend"}

Quality == {"hq", "sq"}

VARIABLES backend,    \* the one of this host
          pc,         \* where the upload handler stands
          name,       \* the name its request gives
          length,     \* the duration of the track it brings
          source,     \* the uploads whose .input file is on disk
          lock,       \* the upload that holds the lock of a name
          queue,      \* the jobs sent to the dispatcher
          forming,    \* the batch it is gathering
          sealed,     \* the batch is complete and waits for a permit
          running,    \* the batches that hold a permit
          stage,      \* where a job stands
          part,       \* and, from the commit on, each of its two results
          tries,      \* the failed attempts of a writer at one
          reply,      \* what the pipeline answered
          file,       \* the duration of what the backend has under a key, 0: nothing
          announced,  \* the names published as uploaded
          removed,    \* the names a file of which was deleted
          deleting,   \* the names whose DELETE has still to delete the sq file
          faults, hangups, deletes

handler == <<backend, pc, name, length, lock>>
jobs    == <<queue, forming, sealed, running, stage>>
store   == <<file, announced, removed>>
bounds  == <<faults, hangups, deletes>>
vars    == <<handler, source, jobs, part, tries, reply, store, deleting, bounds>>

Over   == {"ok", "err"}
Active == {"queued", "forming", "probe", "ffmpeg", "single", "commit"}

TypeOK ==
    /\ backend \in Backends
    /\ pc \in [Upload -> {"idle", "lock", "waiting", "done", "gone"}]
    /\ name \in [Upload -> File \cup {None}]
    /\ length \in [Upload -> Length \cup {0}]
    /\ source \in SUBSET Upload
    /\ lock \in [File -> Upload \cup {None}]
    /\ queue \in Seq(Upload)
    /\ forming \in SUBSET Upload /\ sealed \in BOOLEAN
    /\ running \in SUBSET SUBSET Upload
    /\ stage \in [Upload -> {"none", "over"} \cup Active]
    /\ part \in [Upload -> [Quality ->
                    {"none", "waiting", "check", "replace", "put"} \cup Over]]
    /\ tries \in [Upload -> [Quality -> 0..Retries]]
    /\ reply \in [Upload -> {"ok", "short", "ffmpeg", "backend", None}]
    /\ file \in [File -> [Quality -> Length \cup {0}]]
    /\ announced \in SUBSET File /\ removed \in SUBSET File /\ deleting \in SUBSET File
    /\ faults \in Nat /\ hangups \in Nat /\ deletes \in Nat
    /\ faults + hangups + deletes <= MaxMishaps

Init ==
    /\ backend \in Backends
    /\ pc = [u \in Upload |-> "idle"]
    /\ name = [u \in Upload |-> None] /\ length = [u \in Upload |-> 0]
    /\ source = {}
    /\ lock = [f \in File |-> None]
    /\ queue = <<>> /\ forming = {} /\ sealed = FALSE /\ running = {}
    /\ stage = [u \in Upload |-> "none"]
    /\ part = [u \in Upload |-> [q \in Quality |-> "none"]]
    /\ tries = [u \in Upload |-> [q \in Quality |-> 0]]
    /\ reply = [u \in Upload |-> None]
    /\ file = [f \in File |-> [q \in Quality |-> 0]]
    /\ announced = {} /\ removed = {} /\ deleting = {}
    /\ faults = 0 /\ hangups = 0 /\ deletes = 0

Mishap == faults + hangups + deletes < MaxMishaps
Fault  == Mishap /\ faults' = faults + 1 /\ UNCHANGED <<hangups, deletes>>
Stage(us, label) == stage' = [u \in Upload |-> IF u \in us THEN label ELSE stage[u]]

-----------------------------------------------------------------------------
(* The upload handler, once the .input file is complete.                   *)

Received(u) ==
    /\ pc[u] = "idle" /\ pc' = [pc EXCEPT ![u] = "lock"]
    /\ \E f \in File, d \in Length :
           name' = [name EXCEPT ![u] = f] /\ length' = [length EXCEPT ![u] = d]
    /\ source' = source \cup {u}
    /\ UNCHANGED <<backend, lock, jobs, part, tries, reply, store, deleting, bounds>>

\* Mutant: the lock of the name is not taken.
SubmitUnlocked(u) ==
    /\ pc[u] = "lock" /\ pc' = [pc EXCEPT ![u] = "waiting"]
    /\ lock' = [lock EXCEPT ![name[u]] = u]
    /\ queue' = Append(queue, u) /\ Stage({u}, "queued")
    /\ UNCHANGED <<backend, name, length, source, forming, sealed, running, part, tries, reply,
                   store, deleting, bounds>>

\* The lock of the name is free: the handler takes it and submits the job.
Submit(u) ==
    /\ pc[u] = "lock" /\ pc' = [pc EXCEPT ![u] = "waiting"]
    /\ lock[name[u]] = None /\ lock' = [lock EXCEPT ![name[u]] = u]
    /\ queue' = Append(queue, u) /\ Stage({u}, "queued")
    /\ UNCHANGED <<backend, name, length, source, forming, sealed, running, part, tries, reply,
                   store, deleting, bounds>>

\* The reply arrives: it is the answer, and the guard of the lock is dropped.
Answer(u) ==
    /\ pc[u] = "waiting" /\ reply[u] # None
    /\ pc' = [pc EXCEPT ![u] = "done"]
    /\ lock' = [lock EXCEPT ![name[u]] = None]
    /\ UNCHANGED <<backend, name, length, source, jobs, part, tries, reply, store, deleting,
                   bounds>>

\* The client goes away and the handler is dropped at its await.  A file that was not
\* submitted stays on disk; a job that was submitted goes on, without its lock.
HangUp(u) ==
    /\ pc[u] \in {"lock", "waiting"} /\ pc' = [pc EXCEPT ![u] = "gone"]
    /\ Mishap /\ hangups' = hangups + 1
    /\ lock' = [f \in File |-> IF lock[f] = u THEN None ELSE lock[f]]
    /\ UNCHANGED <<backend, name, length, source, jobs, part, tries, reply, store, deleting,
                   faults, deletes>>

-----------------------------------------------------------------------------
(* dispatcher_loop.                                                        *)

Collect ==
    /\ ~sealed /\ queue # <<>>
    /\ queue' = Tail(queue)
    /\ forming' = forming \cup {Head(queue)}
    /\ sealed' = (Cardinality(forming') >= BatchSize)
    /\ Stage({Head(queue)}, "forming")
    /\ UNCHANGED <<handler, source, running, part, tries, reply, store, deleting, bounds>>

\* transcode_batch_wait_ms is over; a queued job comes first (biased).
BatchTimeout ==
    /\ ~sealed /\ forming # {} /\ queue = <<>>
    /\ sealed' = TRUE
    /\ UNCHANGED <<handler, source, queue, forming, running, stage, part, tries, reply, store,
                   deleting, bounds>>

Acquire ==
    /\ sealed /\ Cardinality(running) < MaxTranscodes
    /\ running' = running \cup {forming}
    /\ forming' = {} /\ sealed' = FALSE
    /\ Stage(forming, "probe")
    /\ UNCHANGED <<handler, source, queue, part, tries, reply, store, deleting, bounds>>

-----------------------------------------------------------------------------
(* run_batch.                                                              *)

\* The jobs us end with this reply: the source is removed first.
Finish(us, outcome) ==
    /\ source' = source \ us
    /\ reply' = [u \in Upload |-> IF u \in us THEN outcome ELSE reply[u]]

\* Short tracks are turned away.  One that ffprobe cannot read is let through.
Probe(b) ==
    /\ b \in running /\ \A u \in b : stage[u] = "probe"
    /\ \E unread \in SUBSET b :
           LET short == {u \in b \ unread : length[u] <= Short}
           IN  /\ \/ unread = {} /\ UNCHANGED bounds
                  \/ Cardinality(unread) = 1 /\ Fault
               /\ Finish(short, "short")
               /\ stage' = [u \in Upload |-> IF u \in short THEN "over"
                                             ELSE IF u \in b THEN "ffmpeg" ELSE stage[u]]
               /\ running' = (running \ {b}) \cup ({b \ short} \ {{}})
    /\ UNCHANGED <<handler, queue, forming, sealed, part, tries, store, deleting>>

Commit(us) ==
    /\ Stage(us, "commit")
    /\ part' = [u \in Upload |-> IF u \in us THEN [q \in Quality |-> "waiting"] ELSE part[u]]

\* Mutant: the permit of a batch that failed is kept.
TranscodeKeeping(b) ==
    /\ b \in running /\ \A u \in b : stage[u] = "ffmpeg"
    /\ \/ Commit(b) /\ running' = running \ {b} /\ UNCHANGED <<source, reply, bounds>>
       \/ /\ Fault /\ Cardinality(b) > 1
          /\ Stage(b, "single") /\ UNCHANGED <<running, source, reply, part>>
       \/ /\ Fault /\ Cardinality(b) = 1
          /\ Stage(b, "over") /\ Finish(b, "ffmpeg") /\ UNCHANGED <<running, part>>
    /\ UNCHANGED <<handler, queue, forming, sealed, tries, store, deleting>>

\* One ffmpeg process for the batch; the permit goes when it ends.
Transcode(b) ==
    /\ b \in running /\ \A u \in b : stage[u] = "ffmpeg"
    /\ running' = running \ {b}
    /\ \/ Commit(b) /\ UNCHANGED <<source, reply, bounds>>
       \/ /\ Fault /\ Cardinality(b) > 1
          /\ Stage(b, "single") /\ UNCHANGED <<source, reply, part>>
       \/ /\ Fault /\ Cardinality(b) = 1
          /\ Stage(b, "over") /\ Finish(b, "ffmpeg") /\ UNCHANGED part
    /\ UNCHANGED <<handler, queue, forming, sealed, tries, store, deleting>>

\* Mutant: the error of the fallback forgets the file.
SingleLeaving(u) ==
    /\ stage[u] = "single"
    /\ \/ Commit({u}) /\ UNCHANGED <<source, reply, bounds>>
       \/ /\ Fault /\ Stage({u}, "over") /\ reply' = [reply EXCEPT ![u] = "ffmpeg"]
          /\ UNCHANGED <<source, part>>
    /\ UNCHANGED <<handler, queue, forming, sealed, running, tries, store, deleting>>

\* The fallback of a batch that failed: a process for each job, without a permit.
Single(u) ==
    /\ stage[u] = "single"
    /\ \/ Commit({u}) /\ UNCHANGED <<source, reply, bounds>>
       \/ Fault /\ Stage({u}, "over") /\ Finish({u}, "ffmpeg") /\ UNCHANGED part
    /\ UNCHANGED <<handler, queue, forming, sealed, running, tries, store, deleting>>

-----------------------------------------------------------------------------
(* The writer pool and the backends.                                       *)

Writing(u, q) == part[u][q] \in {"check", "replace", "put"}
Part(u, q, label) == part' = [part EXCEPT ![u][q] = label]
Put(u, q, d) == file' = [file EXCEPT ![name[u]][q] = d] /\ UNCHANGED announced
restOfWriter == <<handler, source, jobs, reply, deleting>>

Take(u, q) ==
    /\ part[u][q] = "waiting"
    /\ Cardinality({w \in Upload \X Quality : Writing(w[1], w[2])}) < Writers
    /\ Part(u, q, IF backend = "local" THEN "check" ELSE "put")
    /\ UNCHANGED <<restOfWriter, tries, store, bounds>>

\* Mutant: the comparison with the existing file is dropped.
CheckNothing(u, q) ==
    /\ part[u][q] = "check"
    /\ Part(u, q, "replace") /\ UNCHANGED bounds
    /\ UNCHANGED <<restOfWriter, tries, store>>

\* should_keep_existing, which says no when it cannot tell.
Check(u, q) ==
    /\ part[u][q] = "check"
    /\ LET existing == file[name[u]][q]
       IN  \/ /\ Part(u, q, IF existing # 0 /\ existing + Epsilon >= length[u]
                            THEN "ok" ELSE "replace")
              /\ UNCHANGED bounds
           \/ existing # 0 /\ Part(u, q, "replace") /\ Fault
    /\ UNCHANGED <<restOfWriter, tries, store>>

\* move_or_copy_file and replace_file.
Replace(u, q) ==
    /\ part[u][q] = "replace"
    /\ Put(u, q, length[u]) /\ Part(u, q, "ok")
    /\ UNCHANGED <<restOfWriter, removed, tries, bounds>>

Retry(u, q, label) ==
    IF tries[u][q] < Retries
    THEN Part(u, q, label) /\ tries' = [tries EXCEPT ![u][q] = @ + 1]
    ELSE Part(u, q, "err") /\ UNCHANGED tries

\* The move fails, and is tried again from the start.
MoveFails(u, q) ==
    /\ part[u][q] = "replace" /\ Fault
    /\ Retry(u, q, "check")
    /\ UNCHANGED <<restOfWriter, store>>

\* The renaming fails, perhaps once the old file has been removed.  The new one is
\* removed too, so that the attempts that are left cannot succeed.
RenameFails(u, q) ==
    /\ part[u][q] = "replace" /\ Fault
    /\ Part(u, q, "err")
    /\ \/ UNCHANGED <<file, announced, removed>>
       \/ file[name[u]][q] # 0 /\ Put(u, q, 0) /\ removed' = removed \cup {name[u]}
    /\ UNCHANGED <<restOfWriter, tries>>

\* put_file of the S3 backend, which overwrites.  A request may fail after it was served.
PutObject(u, q) ==
    /\ part[u][q] = "put"
    /\ \/ Put(u, q, length[u]) /\ Part(u, q, "ok") /\ UNCHANGED <<tries, bounds>>
       \/ /\ Fault /\ Retry(u, q, "put")
          /\ (Put(u, q, length[u]) \/ UNCHANGED <<file, announced>>)
    /\ UNCHANGED <<restOfWriter, removed>>

\* Mutant: the high quality file is enough.
CommitDoneHq(u) ==
    /\ stage[u] = "commit" /\ part[u]["hq"] \in Over
    /\ LET ok == part[u]["hq"] = "ok"
       IN  /\ Finish({u}, IF ok THEN "ok" ELSE "backend")
           /\ announced' = IF ok THEN announced \cup {name[u]} ELSE announced
    /\ Stage({u}, "over")
    /\ UNCHANGED <<handler, queue, forming, sealed, running, part, tries, file, removed,
                   deleting, bounds>>

\* The end of spawn_commit: the source is removed, the upload published, the reply sent.
CommitDone(u) ==
    /\ stage[u] = "commit" /\ \A q \in Quality : part[u][q] \in Over
    /\ LET ok == \A q \in Quality : part[u][q] = "ok"
       IN  /\ Finish({u}, IF ok THEN "ok" ELSE "backend")
           /\ announced' = IF ok THEN announced \cup {name[u]} ELSE announced
    /\ Stage({u}, "over")
    /\ UNCHANGED <<handler, queue, forming, sealed, running, part, tries, file, removed,
                   deleting, bounds>>

-----------------------------------------------------------------------------
(* DELETE /files/{filename}, and restarts.                                 *)

Erase(f, q) == file' = [file EXCEPT ![f][q] = 0] /\ removed' = removed \cup {f}

DeleteHq(f) ==
    /\ f \notin deleting
    /\ Mishap /\ deletes' = deletes + 1
    /\ Erase(f, "hq")
    /\ deleting' = deleting \cup {f}
    /\ UNCHANGED <<handler, source, jobs, part, tries, reply, announced, faults, hangups>>

\* Or it fails, and the file stays.
DeleteSq(f) ==
    /\ f \in deleting /\ deleting' = deleting \ {f}
    /\ \/ Erase(f, "sq") /\ UNCHANGED bounds
       \/ Fault /\ UNCHANGED <<file, removed>>
    /\ UNCHANGED <<handler, source, jobs, part, tries, reply, announced>>

\* main purges both temporary directories; the clients lose their connections.
Restart ==
    /\ Fault
    /\ pc' = [u \in Upload |-> IF pc[u] \in {"lock", "waiting"} THEN "gone" ELSE pc[u]]
    /\ source' = {} /\ lock' = [f \in File |-> None]
    /\ queue' = <<>> /\ forming' = {} /\ sealed' = FALSE /\ running' = {}
    /\ stage' = [u \in Upload |-> IF stage[u] \in Active THEN "none" ELSE stage[u]]
    /\ part' = [u \in Upload |-> [q \in Quality |-> "none"]]
    /\ deleting' = {}
    /\ UNCHANGED <<backend, name, length, tries, reply, store>>

Handle(u) == Submit(u) \/ Answer(u)
Dispatch  == Collect \/ BatchTimeout \/ Acquire
Run(b)    == Probe(b) \/ Transcode(b)
Write(u, q) == Take(u, q) \/ Check(u, q) \/ Replace(u, q) \/ PutObject(u, q)

\* What the tasks of the service do by themselves.
Service ==
    \/ \E u \in Upload : Handle(u) \/ Single(u) \/ CommitDone(u)
    \/ \E u \in Upload, q \in Quality : Write(u, q)
    \/ \E b \in running : Run(b)
    \/ Dispatch

Next ==
    \/ Service
    \/ \E u \in Upload : Received(u) \/ HangUp(u)
    \/ \E u \in Upload, q \in Quality : MoveFails(u, q) \/ RenameFails(u, q)
    \/ \E f \in File : DeleteHq(f) \/ DeleteSq(f)
    \/ Restart

Spec == Init /\ [][Next]_vars

-----------------------------------------------------------------------------
(* Properties.                                                             *)

\* The lock of a name is held from submit to the reply (upload.rs:214-218), so that the
\* jobs of one name never overlap in the pipeline, whatever the batches, unless a client
\* hangs up.
OneJobPerFile ==
    hangups = 0 =>
        \A u, v \in Upload :
            u # v /\ stage[u] \in Active /\ stage[v] \in Active => name[u] # name[v]

\* "For local backend, also honors keep existing if longer semantics" (backend/mod.rs:38):
\* a stored file is never replaced by a shorter one, though each writer compares the two
\* long before it renames, as long as clients wait and tools work.
KeepsLongest ==
    [][backend = "local" /\ hangups' = 0 /\ faults' = 0 =>
           \A f \in File, q \in Quality :
               file'[f][q] = 0 \/ file'[f][q] >= file[f][q]]_vars

\* A name is announced to the indexer (publish_uploaded), and its upload answered with the
\* two paths, once both files are in the backend, and they stay there through later
\* uploads, failures and restarts until something deletes one.
AnnouncedIsStored ==
    \A u \in Upload :
        /\ reply[u] = "ok" => name[u] \in announced
        /\ name[u] \in announced \ removed => \A q \in Quality : file[name[u]][q] # 0

\* "It deletes the file on disk when done (success OR failure)" (pipeline.rs:51): no .input
\* file outlives its job.
SourceReclaimed ==
    \A u \in Upload : stage[u] = "over" => u \notin source

\* Nobody waits for one who waits: while an upload waits for its lock or its answer, the lock
\* is free, the answer there, or some job, batch or writer has what its next step needs
\* (the guards of Service, an action of it on each line).
Ready ==
    \/ \E u \in Upload : pc[u] = "lock" /\ lock[name[u]] = None
    \/ \E u \in Upload : pc[u] = "waiting" /\ reply[u] # None
    \/ ~sealed /\ (queue # <<>> \/ forming # {})
    \/ sealed /\ Cardinality(running) < MaxTranscodes
    \/ \E b \in running, label \in {"probe", "ffmpeg"} : \A u \in b : stage[u] = label
    \/ \E u \in Upload : stage[u] = "single"
    \/ /\ \E u \in Upload, q \in Quality : part[u][q] = "waiting"
       /\ Cardinality({w \in Upload \X Quality : Writing(w[1], w[2])}) < Writers
    \/ \E u \in Upload, q \in Quality : Writing(u, q)
    \/ \E u \in Upload : stage[u] = "commit" /\ \A q \in Quality : part[u][q] \in Over

SomeoneIsReady == (\E u \in Upload : pc[u] \in {"lock", "waiting"}) => Ready

\* No permit, writer, lock or batch is kept for ever, whatever fails: while an upload waits,
\* some task of the service can go on.  (An upload is made once and every task ends, so
\* that each upload is then answered if the tasks run.)
NoStandstill == SomeoneIsReady /\ (Ready => ENABLED Service)

=============================================================================
