------------------------------ MODULE TmpQuota ------------------------------
(***************************************************************************)
(* The quota of the storage service's source directory: the receiving part *)
(* of the upload handler of storage/src/routes/upload.rs.                  *)
(*                                                                         *)
(* A counter shared by all the uploads, tmp_used_bytes, is charged before  *)
(* each chunk is written to the upload's .input file and credited when the *)
(* handler ends.  An upload that finds it full first reconciles it with    *)
(* the sizes of the files on disk.  The handlers run on several threads;   *)
(* a step is one atomic operation on the counter, or one await.  Bytes are *)
(* counted in units, and the counter is an unsigned word of Word values.   *)
(* What the pipeline does with a received file is Storage's.               *)
(***************************************************************************)
EXTENDS FiniteSets, Naturals

CONSTANTS Upload,       \* the requests, each made once
          Chunk,        \* the sizes of a chunk
          Limit,        \* tmp_max_bytes
          Word,         \* the number of values of the counter, 2^64 in the code
          Leftover,     \* bytes of an earlier run that purge_dir could not remove
          MaxBytes,     \* bound: the bytes of an upload
          MaxLeaks,     \* bound: failures and hang-ups that leave a file to nobody
          MaxRescans,   \* bound: walks of the directory
          None          \* no upload

ASSUME QuotaAssumption ==
    /\ Chunk \subseteq Nat \ {0} /\ MaxBytes \in Nat
    /\ Limit \in Nat /\ Leftover \in Nat /\ Word \in Nat \ {0}
    /\ IsFiniteSet(Upload)
    /\ Limit < Word
    /\ Leftover + Cardinality(Upload) * MaxBytes < Word   \* less than 2^64 bytes
    /\ MaxLeaks \in Nat /\ MaxRescans \in Nat
    /\ None \notin Upload

VARIABLES pc,        \* where a handler stands
          chunk,     \* the size of the chunk it has in hand
          charged,   \* the bytes of its TmpReservation
          size,      \* the size of its .input file
          stray,     \* the bytes of the files of the directory that no handler knows
          owned,     \* the .input files the pipeline has
          used,      \* tmp_used_bytes
          walker,    \* the holder of tmp_rescan_lock
          pre,       \* the counter it has read
          unread,    \* the files its walk has still to stat
          found,     \* the bytes it has counted
          cooled,    \* TMP_RESCAN_COOLDOWN has passed since the last walk
          leaks, rescans

walk == <<walker, pre, unread, found, cooled, rescans>>
vars == <<pc, chunk, charged, size, stray, owned, used, walk, leaks>>

PC == {"idle", "next", "add", "undo", "rescan", "retry", "refuse", "write", "received",
       "pipeline", "remove", "drop", "done"}

\* The bytes of an upload are numbered, so that those of all uploads can be counted.
Bytes(f) == {b \in Upload \X (1..MaxBytes) : b[2] <= f[b[1]]}
Total(f) == Cardinality(Bytes(f))

TypeOK ==
    /\ pc \in [Upload -> PC]
    /\ chunk \in [Upload -> Chunk \cup {0}]
    /\ charged \in [Upload -> 0..MaxBytes] /\ size \in [Upload -> 0..MaxBytes]
    /\ stray \in Nat
    /\ owned \in SUBSET Upload
    /\ used \in 0..Word - 1 /\ pre \in 0..Word - 1
    /\ walker \in Upload \cup {None}
    /\ unread \in SUBSET (Upload \cup {None})
    /\ found \in Nat
    /\ cooled \in BOOLEAN
    /\ leaks \in 0..MaxLeaks /\ rescans \in 0..MaxRescans

\* main seeds the counter with what is on disk, and the lock with the present.
Init ==
    /\ pc = [u \in Upload |-> "idle"]
    /\ chunk = [u \in Upload |-> 0]
    /\ charged = [u \in Upload |-> 0] /\ size = [u \in Upload |-> 0]
    /\ stray = Leftover /\ used = Leftover
    /\ owned = {}
    /\ walker = None /\ pre = 0 /\ unread = {} /\ found = 0 /\ cooled = FALSE
    /\ leaks = 0 /\ rescans = 0

Goto(u, label) == pc' = [pc EXCEPT ![u] = label]
Sub(n) == used' = (used + Word - n) % Word        \* fetch_sub wraps around

-----------------------------------------------------------------------------
(* Receiving the file.                                                     *)

Begin(u) ==
    /\ pc[u] = "idle" /\ Goto(u, "next")
    /\ UNCHANGED <<chunk, charged, size, stray, owned, used, walk, leaks>>

ReadChunk(u) ==
    /\ pc[u] = "next"
    /\ \E n \in Chunk :
           /\ charged[u] + n <= MaxBytes
           /\ chunk' = [chunk EXCEPT ![u] = n]
    /\ Goto(u, "add")
    /\ UNCHANGED <<charged, size, stray, owned, used, walk, leaks>>

\* Mutant: two handlers read the counter before either adds to it.
TryAddUnchecked(u) ==
    /\ pc[u] \in {"add", "retry"}
    /\ used' = (used + chunk[u]) % Word
    /\ charged' = [charged EXCEPT ![u] = @ + chunk[u]]
    /\ Goto(u, "write")
    /\ UNCHANGED <<chunk, size, stray, owned, walk, leaks>>

\* try_add up to its test: the counter goes up before it is compared.
TryAdd(u) ==
    /\ pc[u] \in {"add", "retry"}
    /\ used' = (used + chunk[u]) % Word
    /\ \/ /\ used + chunk[u] <= Limit
          /\ charged' = [charged EXCEPT ![u] = @ + chunk[u]]
          /\ Goto(u, "write")
       \/ /\ used + chunk[u] > Limit
          /\ Goto(u, IF pc[u] = "add" THEN "undo" ELSE "refuse")
          /\ UNCHANGED charged
    /\ UNCHANGED <<chunk, size, stray, owned, walk, leaks>>

\* The rest of a try_add that failed; after the second the upload is refused with 507.
RollBack(u) ==
    /\ pc[u] \in {"undo", "refuse"}
    /\ Sub(chunk[u])
    /\ Goto(u, IF pc[u] = "undo" THEN "rescan" ELSE "remove")
    /\ UNCHANGED <<chunk, charged, size, stray, owned, walk, leaks>>

Write(u) ==
    /\ pc[u] = "write"
    /\ size' = [size EXCEPT ![u] = @ + chunk[u]]
    /\ chunk' = [chunk EXCEPT ![u] = 0]
    /\ Goto(u, "next")
    /\ UNCHANGED <<charged, stray, owned, used, walk, leaks>>

\* The body ends, or cannot be read any further, or the file is empty.
BodyEnds(u) ==
    /\ pc[u] = "next"
    /\ \/ charged[u] > 0 /\ Goto(u, "received")
       \/ Goto(u, "remove")
    /\ UNCHANGED <<chunk, charged, size, stray, owned, used, walk, leaks>>

\* The rest of the form is read; the file name may be refused.
Submit(u) ==
    /\ pc[u] = "received"
    /\ \/ Goto(u, "pipeline") /\ owned' = owned \cup {u}
       \/ Goto(u, "remove") /\ UNCHANGED owned
    /\ UNCHANGED <<chunk, charged, size, stray, used, walk, leaks>>

Remove(u) ==
    /\ pc[u] = "remove"
    /\ size' = [size EXCEPT ![u] = 0]
    /\ Goto(u, "drop")
    /\ UNCHANGED <<chunk, charged, stray, owned, used, walk, leaks>>

\* A write fails halfway, or the rest of the form cannot be read: an error is returned,
\* and the file is left where it is.
Leak(u) ==
    /\ leaks < MaxLeaks /\ leaks' = leaks + 1
    /\ \E part \in 0..chunk[u] :
           /\ \/ pc[u] = "write"
              \/ pc[u] = "received" /\ part = 0
           /\ stray' = stray + size[u] + part
    /\ size' = [size EXCEPT ![u] = 0]
    /\ Goto(u, "drop")
    /\ UNCHANGED <<chunk, charged, owned, used, walk>>

\* Mutant: an early return forgets the reservation.
DropKeeping(u) ==
    /\ pc[u] = "drop"
    /\ charged' = [charged EXCEPT ![u] = 0]
    /\ Goto(u, "done")
    /\ UNCHANGED <<chunk, size, stray, owned, used, walk, leaks>>

\* TmpReservation::drop.
Drop(u) ==
    /\ pc[u] = "drop"
    /\ Sub(charged[u])
    /\ charged' = [charged EXCEPT ![u] = 0] /\ chunk' = [chunk EXCEPT ![u] = 0]
    /\ Goto(u, "done")
    /\ UNCHANGED <<size, stray, owned, walk, leaks>>

\* The client goes away: the handler is dropped at its await, and its reservation with it.
\* A file that was handed over stays with the pipeline; any other is left behind.
HangUp(u) ==
    /\ pc[u] \in {"next", "write", "rescan", "received", "pipeline"}
    /\ Sub(charged[u])
    /\ charged' = [charged EXCEPT ![u] = 0] /\ chunk' = [chunk EXCEPT ![u] = 0]
    /\ Goto(u, "done")
    /\ \/ pc[u] = "pipeline" /\ UNCHANGED <<stray, size, leaks>>
       \/ /\ pc[u] # "pipeline"
          /\ leaks < MaxLeaks /\ leaks' = leaks + 1
          /\ \E part \in 0..chunk[u] :
                 /\ part > 0 => pc[u] = "write"
                 /\ stray' = stray + size[u] + part
          /\ size' = [size EXCEPT ![u] = 0]
    /\ walker' = IF walker = u THEN None ELSE walker
    /\ UNCHANGED <<owned, pre, unread, found, cooled, rescans>>

-----------------------------------------------------------------------------
(* The pipeline removes the file, whatever became of it, and then replies. *)

PipelineRemoves(u) ==
    /\ u \in owned
    /\ owned' = owned \ {u}
    /\ size' = [size EXCEPT ![u] = 0]
    /\ UNCHANGED <<pc, chunk, charged, stray, used, walk, leaks>>

PipelineReplies(u) ==
    /\ pc[u] = "pipeline" /\ u \notin owned
    /\ Goto(u, "drop")
    /\ UNCHANGED <<chunk, charged, size, stray, owned, used, walk, leaks>>

-----------------------------------------------------------------------------
(* rescan_tmp_usage.                                                       *)

Cool ==
    /\ ~cooled /\ cooled' = TRUE
    /\ UNCHANGED <<pc, chunk, charged, size, stray, owned, used, walker, pre, unread, found,
                   rescans, leaks>>

\* Another handler walks, or one has lately.
SkipRescan(u) ==
    /\ pc[u] = "rescan" /\ walker # u
    /\ walker # None \/ ~cooled
    /\ Goto(u, "retry")
    /\ UNCHANGED <<chunk, charged, size, stray, owned, used, walk, leaks>>

StartRescan(u) ==
    /\ pc[u] = "rescan" /\ walker = None /\ cooled
    /\ rescans < MaxRescans /\ rescans' = rescans + 1
    /\ walker' = u
    /\ pre' = used
    /\ unread' = Upload \cup {None} /\ found' = 0
    /\ UNCHANGED <<pc, chunk, charged, size, stray, owned, used, cooled, leaks>>

\* dir_size_bytes stats one file after another; None stands for the files no handler knows.
StatFile(f) ==
    /\ walker # None /\ f \in unread
    /\ found' = found + (IF f = None THEN stray ELSE size[f])
    /\ unread' = unread \ {f}
    /\ UNCHANGED <<pc, chunk, charged, size, stray, owned, used, walker, pre, cooled, rescans,
                   leaks>>

EndRescan(u) ==
    /\ walker = u /\ unread = {}
    /\ IF pre > found THEN Sub(pre - found) ELSE UNCHANGED used
    /\ walker' = None /\ cooled' = FALSE /\ pre' = 0 /\ found' = 0
    /\ Goto(u, "retry")
    /\ UNCHANGED <<chunk, charged, size, stray, owned, unread, rescans, leaks>>

\* The walk fails: the directory, or an entry of it, cannot be read.
RescanFails(u) ==
    /\ walker = u /\ unread # {}
    /\ walker' = None /\ cooled' = FALSE /\ pre' = 0 /\ unread' = {} /\ found' = 0
    /\ Goto(u, "retry")
    /\ UNCHANGED <<chunk, charged, size, stray, owned, used, rescans, leaks>>

\* Somebody empties the directory of the files no handler knows (rm, a cron janitor).
Janitor ==
    /\ stray > 0 /\ stray' = 0
    /\ UNCHANGED <<pc, chunk, charged, size, owned, used, walk, leaks>>

Receive(u) ==
    \/ Begin(u) \/ ReadChunk(u) \/ TryAdd(u) \/ RollBack(u) \/ Write(u) \/ BodyEnds(u)
    \/ Submit(u) \/ Remove(u) \/ Leak(u) \/ Drop(u) \/ HangUp(u)
    \/ PipelineRemoves(u) \/ PipelineReplies(u)
Rescan(u) ==
    SkipRescan(u) \/ StartRescan(u) \/ EndRescan(u) \/ RescanFails(u)

Next ==
    \/ \E u \in Upload : Receive(u) \/ Rescan(u)
    \/ \E f \in Upload \cup {None} : StatFile(f)
    \/ Cool \/ Janitor

Spec == Init /\ [][Next]_vars

-----------------------------------------------------------------------------
(* Properties.                                                             *)

\* The bytes of an upload, unless the pipeline has them and its client has gone.
Attended == [u \in Upload |-> IF u \in owned /\ pc[u] = "done" THEN 0 ELSE size[u]]

\* The directory never outgrows the quota (tmp_max_bytes, config.rs:43), or what it held
\* when the service started, however the chunks of several uploads interleave and whatever
\* is refused, as long as no file is left to nobody and the counter is not "reconciled":
\* but for the files the pipeline still has of uploads whose client has gone, for these
\* were credited when the handler was dropped.
QuotaHolds ==
    leaks = 0 /\ rescans = 0 =>
        stray + Total(Attended) <= Limit \/ stray + Total(Attended) <= Leftover

\* Every byte that is charged is credited again, once, on each way out of the handler
\* (TmpReservation is dropped "even on panic / early return", upload.rs:25), hang-ups and
\* failures included: with no upload under way the counter is back where main seeded it.
ChargesAreCredited ==
    (\A u \in Upload : pc[u] \in {"idle", "done"}) /\ rescans = 0 => used = Leftover

=============================================================================
