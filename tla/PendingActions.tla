---------------------------- MODULE PendingActions ----------------------------
(* The queue of what SoundCloud's firewall refused (PendingActionsService) and *)
(* its callers: a like or unlike of a playlist, and the creation of playlists, *)
(* of one session.  A caller tries SoundCloud first and queues the action when *)
(* it is banned; a timer, and the user, carry the queued actions out.          *)
(*                                                                             *)
(* The rows are a sequence in the order of created_at; a run keeps the copies  *)
(* it read, by row, of the actions it has not settled yet.  A save writes the  *)
(* whole entity that was read before.  The other action types differ from      *)
(* these three only in the request that carries them out.                      *)
EXTENDS Naturals, Sequences, FiniteSets

CONSTANTS MaxCalls,    \* bound on the HTTP requests, named in the order they are made
          MaxSyncs,    \* bound on the runs of syncAll and syncForSession at a time
          MaxRetries,  \* MAX_RETRIES
          Batch,       \* rows that syncAll takes at once
          MaxBans,     \* bound on the bans of a behaviour
          MaxFaults    \* bound on its lost answers, failed queries and restarts

ASSUME PendingActionsAssumption ==
    /\ MaxCalls \in Nat \ {0} /\ MaxSyncs \in Nat \ {0}
    /\ MaxRetries \in Nat \ {0} /\ Batch \in Nat \ {0}
    /\ MaxBans \in Nat /\ MaxFaults \in Nat

Call == 1..MaxCalls
Sync == 1..MaxSyncs

VARIABLES rows,     \* pending_actions
          liked,    \* SoundCloud: the playlist is liked
          posted,   \* SoundCloud: playlists created from a call's body, 2 for more
          bans, banned,
          call, sync,
          faults,
          wanted,   \* what the last like or unlike that was accepted asked for
          mishaps   \* whether actions may have been reordered, repeated or dropped

queueVars == <<rows, liked, posted, bans, banned, call, sync, faults, wanted, mishaps>>

Likes == {"like", "unlike"}
Kinds == Likes \cup {"create"}
NoRow == [kind |-> "create", body |-> 1, status |-> "none", retry |-> 0]
NoCall == [at |-> "idle", kind |-> "create", id |-> 0, copy |-> NoRow]

Row == [kind : Kinds, body : Call, status : {"none", "pending", "done", "failed"},
        retry : 0..MaxRetries]

PendingTypeOK ==
    /\ rows \in Seq(Row) /\ liked \in BOOLEAN /\ posted \in [Call -> 0..2]
    /\ bans \in 0..MaxBans /\ banned \in BOOLEAN /\ wanted \in BOOLEAN
    /\ call \in [Call -> [at : {"idle", "find", "save", "insert", "ok", "error"},
                          kind : Kinds, id : Nat, copy : Row]]
    /\ sync \in [Sync -> [at : {"idle", "execute", "save"},
                         todo : UNION {[ids -> Row] : ids \in SUBSET DOMAIN rows}]]
    /\ faults \in 0..MaxFaults /\ mishaps \subseteq {"reordered", "repeated", "dropped"}

PendingInit ==
    /\ rows = <<>> /\ liked = FALSE /\ wanted = FALSE
    /\ posted = [c \in Call |-> 0]
    /\ bans = 0 /\ banned = FALSE
    /\ call = [c \in Call |-> NoCall]
    /\ sync = [s \in Sync |-> [at |-> "idle", todo |-> <<>>]]
    /\ faults = 0 /\ mishaps = {}

Fault == faults < MaxFaults /\ faults' = faults + 1
If(condition, some) == IF condition THEN some ELSE {}

InSync(kinds) == \E s \in Sync : \E i \in DOMAIN sync[s].todo : sync[s].todo[i].kind \in kinds
Outstanding(kinds) ==
    InSync(kinds) \/ \E i \in DOMAIN rows : rows[i].kind \in kinds /\ rows[i].status = "pending"
Opposite(kind) == CASE kind = "like" -> {"unlike"} [] kind = "unlike" -> {"like"} [] OTHER -> {}

(* SoundCloud carries out an action.                                           *)
Apply(kind, body) ==
    /\ liked' = CASE kind = "like" -> TRUE [] kind = "unlike" -> FALSE [] OTHER -> liked
    /\ posted' = IF kind = "create" /\ posted[body] < 2
                   THEN [posted EXCEPT ![body] = @ + 1] ELSE posted

(* The call is answered, and with the last word on the like.                   *)
Accept(c, kind) ==
    /\ call' = [call EXCEPT ![c] = [NoCall EXCEPT !.at = "ok", !.kind = kind]]
    /\ wanted' = IF kind \in Likes THEN kind = "like" ELSE wanted

Ban == ~banned /\ bans < MaxBans /\ banned' = TRUE /\ bans' = bans + 1
       /\ UNCHANGED <<rows, liked, posted, call, sync, faults, wanted, mishaps>>
Unban == banned /\ banned' = FALSE
         /\ UNCHANGED <<rows, liked, posted, bans, call, sync, faults, wanted, mishaps>>

-------------------------------------------------------------------------------
(* likePlaylist, unlikePlaylist and create, up to the answer of SoundCloud.    *)
Request(c, kind) ==
    /\ call[c].at = "idle" /\ \A d \in Call : d < c => call[d].at # "idle"
    /\ \/ /\ ~banned /\ Apply(kind, c) /\ Accept(c, kind)
          /\ mishaps' = mishaps \cup If(kind \in Likes /\ Outstanding(Likes), {"reordered"})
          /\ UNCHANGED faults
       \/ /\ ~banned /\ Apply(kind, c) /\ Fault
          /\ call' = [call EXCEPT ![c].at = "error"] /\ UNCHANGED wanted
          /\ mishaps' = mishaps \cup If(kind \in Likes, {"reordered"})
       \/ /\ banned /\ call' = [call EXCEPT ![c].at = "find", ![c].kind = kind]
          /\ UNCHANGED <<liked, posted, faults, wanted, mishaps>>
    /\ UNCHANGED <<rows, bans, banned, sync>>

(* enqueue looks for a pending row of the same type and target ...             *)
EnqueueFind(c) ==
    LET same == {i \in DOMAIN rows : rows[i].kind = call[c].kind /\ rows[i].status = "pending"} IN
    /\ call[c].at = "find"
    /\ IF same = {} THEN call' = [call EXCEPT ![c].at = "insert"]
                    ELSE \E i \in same : call' = [call EXCEPT ![c].at = "save", ![c].id = i,
                                                              ![c].copy = rows[i]]
    /\ UNCHANGED <<rows, liked, posted, bans, banned, sync, faults, wanted, mishaps>>

(* ... which it takes over, wherever it stands in the order ...                *)
EnqueueSave(c) ==
    LET i == call[c].id IN
    /\ call[c].at = "save"
    /\ rows' = [rows EXCEPT ![i] = [call[c].copy EXCEPT !.retry = 0,
                  !.body = IF call[c].kind = "create" THEN c ELSE @]]
    /\ Accept(c, call[c].kind)
    /\ mishaps' = mishaps
         \cup If(call[c].kind = "create", {"dropped"})
         \cup If(call[c].kind \in Likes /\ \E s \in Sync : sync[s].at # "idle", {"reordered"})
         \cup If(\E j \in DOMAIN rows : j > i /\ rows[j].status = "pending"
                     /\ rows[j].kind \in Opposite(call[c].kind), {"reordered"})
    /\ UNCHANGED <<liked, posted, bans, banned, sync, faults>>

(* ... or inserts one.                                                         *)
EnqueueInsert(c) ==
    /\ call[c].at = "insert"
    /\ rows' = Append(rows, [kind |-> call[c].kind, body |-> c, status |-> "pending", retry |-> 0])
    /\ Accept(c, call[c].kind)
    /\ UNCHANGED <<liked, posted, bans, banned, sync, faults, mishaps>>

-------------------------------------------------------------------------------
(* syncAll and syncForSession, of which the first takes Batch rows at most.    *)

\* Mutant: the query forgets the status.
AllRows == DOMAIN rows

PendingRows == {i \in DOMAIN rows : rows[i].status = "pending"}
First(n, ids) == {i \in ids : Cardinality({j \in ids : j < i}) < n}

\* Mutant: the query sorts the last first.
IsTurnBackwards(s, i) == i \in DOMAIN sync[s].todo /\ \A j \in DOMAIN sync[s].todo : i >= j

(* The run has come to row i.                                                  *)
IsTurn(s, i) == i \in DOMAIN sync[s].todo /\ \A j \in DOMAIN sync[s].todo : i <= j

SyncStart(s) ==
    /\ sync[s].at = "idle" /\ \A r \in Sync : r < s => sync[r].at # "idle"
    /\ PendingRows # {}
    /\ \E n \in {Batch, Len(rows)} :
          sync' = [sync EXCEPT ![s] = [at |-> "execute",
                                       todo |-> [i \in First(n, PendingRows) |-> rows[i]]]]
    /\ mishaps' = mishaps \cup If(\E r \in Sync : sync[r].at # "idle",
                                  {"reordered", "repeated"})
    /\ UNCHANGED <<rows, liked, posted, bans, banned, call, faults, wanted>>

SyncEnds(s) == sync' = [sync EXCEPT ![s] = [at |-> "idle", todo |-> <<>>]]
NowSave(s, i, row) ==
    sync' = [sync EXCEPT ![s] = [at |-> "save", todo |-> [@.todo EXCEPT ![i] = row]]]

\* Mutant: an attempt is not counted.
AttemptUncounted(action) ==
    [action EXCEPT !.status = IF action.retry + 1 >= MaxRetries THEN "failed" ELSE @]

(* What an attempt that failed makes of the entity.                            *)
Attempt(action) ==
    [action EXCEPT !.retry = @ + 1,
                   !.status = IF action.retry + 1 >= MaxRetries THEN "failed" ELSE @]

(* executeAction: done, or another attempt used up, or still banned, which     *)
(* ends the run and leaves the rows as they are.                               *)
SyncExecute(s, i) ==
    LET action == sync[s].todo[i]
        again == Attempt(action)
    IN
    /\ sync[s].at = "execute" /\ IsTurn(s, i)
    /\ \/ banned /\ SyncEnds(s) /\ UNCHANGED <<liked, posted, faults, mishaps>>
       \/ /\ ~banned /\ Apply(action.kind, action.body)
          /\ NowSave(s, i, [action EXCEPT !.status = "done"])
          /\ UNCHANGED <<faults, mishaps>>
       \/ /\ ~banned /\ NowSave(s, i, again)
          /\ \E lost \in BOOLEAN :
                /\ IF lost THEN Apply(action.kind, action.body) /\ Fault
                           ELSE UNCHANGED <<liked, posted, faults>>
                /\ mishaps' = mishaps \cup {"reordered"} \cup If(lost, {"repeated"})
                                \cup If(again.status = "failed", {"dropped"})
    /\ UNCHANGED <<rows, bans, banned, call, wanted>>

(* The entity is saved, as it was read but for what became of it; an error of  *)
(* the database ends the run.                                                  *)
SyncSave(s, i) ==
    LET left == DOMAIN sync[s].todo \ {i} IN
    /\ sync[s].at = "save" /\ IsTurn(s, i)
    /\ \/ /\ rows' = [rows EXCEPT ![i] = sync[s].todo[i]]
          /\ sync' = [sync EXCEPT ![s] = [at |-> IF left = {} THEN "idle" ELSE "execute",
                                         todo |-> [j \in left |-> sync[s].todo[j]]]]
          /\ UNCHANGED <<faults, mishaps>>
       \/ /\ Fault /\ SyncEnds(s) /\ mishaps' = mishaps \cup {"repeated"}
          /\ UNCHANGED rows
    /\ UNCHANGED <<liked, posted, bans, banned, call, wanted>>

(* The backend is restarted.                                                   *)
Restart ==
    /\ Fault /\ mishaps' = mishaps \cup {"repeated"}
    /\ call' = [c \in Call |-> IF call[c].at = "idle" THEN call[c]
                               ELSE IF call[c].at = "ok" THEN call[c]
                               ELSE [NoCall EXCEPT !.at = "error"]]
    /\ sync' = [s \in Sync |-> [at |-> "idle", todo |-> <<>>]]
    /\ UNCHANGED <<rows, liked, posted, bans, banned, wanted>>

PendingNext ==
    \/ Ban \/ Unban \/ Restart
    \/ \E c \in Call : EnqueueFind(c) \/ EnqueueSave(c) \/ EnqueueInsert(c)
                         \/ \E kind \in Kinds : Request(c, kind)
    \/ \E s \in Sync : SyncStart(s) \/ \E i \in DOMAIN rows : SyncExecute(s, i) \/ SyncSave(s, i)

PendingSpec == PendingInit /\ [][PendingNext]_queueVars

-------------------------------------------------------------------------------
(* Properties. *)

QueueAtRest == ~Outstanding(Kinds)

(* The user's last word on a like stands in the end: queued likes and unlikes  *)
(* are carried out in the order they were accepted.  They may be reordered     *)
(* where the actions above say so: when SoundCloud takes a request directly    *)
(* while older ones are queued, a row is taken over that stands before an      *)
(* opposite one or that a run holds, two runs overlap, an answer is lost, or   *)
(* an action is retried after its successor.                                   *)
LastRequestStands == QueueAtRest /\ "reordered" \notin mishaps => liked = wanted

(* An accepted creation is posted exactly once by the time nothing is queued.  *)
(* It may be repeated when two runs overlap, an answer is lost or a run ends   *)
(* between posting and saving, and dropped when another creation takes its row *)
(* over or the retries are used up.                                            *)
PostedOnce ==
    /\ "repeated" \notin mishaps => \A c \in Call : posted[c] < 2
    /\ QueueAtRest /\ "dropped" \notin mishaps =>
         \A c \in Call : call[c].at = "ok" /\ call[c].kind = "create" => posted[c] > 0

(* Whatever is queued is settled, done or given up, once bans end: neither     *)
(* errors, nor overlapping runs that save over each other's counts, nor older  *)
(* rows that fill the batch keep an action pending for good.                   *)
ActionsSettle ==
    \A i \in Call :
        (i \in DOMAIN rows /\ rows[i].status = "pending")
            ~> (i \in DOMAIN rows /\ rows[i].status # "pending")

===============================================================================
