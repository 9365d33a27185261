---------------------------- MODULE ApiCacheProofs ----------------------------
(* Theorems about PendingActions, the queue of what SoundCloud's firewall      *)
(* refused, and about ApiCache over it.  The last section is what the settling *)
(* of an action rests on: a rank that each step of a run lowers, and counts of *)
(* attempts that runs which save over each other do not bring down.            *)
EXTENDS ApiCache, SequenceTheorems, FiniteSetTheorems, WellFoundedInduction, TLAPS

(* The inductive invariant of the queue.                                       *)
Unsettled(row) == row.status = "pending" => row.retry < MaxRetries

(* What a run, or a call that took a row over, holds is a copy of that row: of *)
(* the same kind, and pending but for the one action that awaits its save.     *)
RowsOK == \A i \in DOMAIN rows : Unsettled(rows[i])
RunsOK ==
    \A s \in Sync :
        /\ sync[s].at = "idle" => DOMAIN sync[s].todo = {}
        /\ \A i \in DOMAIN sync[s].todo :
              /\ sync[s].todo[i].kind = rows[i].kind
              /\ Unsettled(sync[s].todo[i])
              /\ sync[s].todo[i].status # "pending" => sync[s].at = "save" /\ IsTurn(s, i)
CallsOK ==
    \A c \in Call : call[c].at = "save" =>
        /\ call[c].id \in DOMAIN rows /\ rows[call[c].id].kind = call[c].kind
        /\ call[c].copy.kind = call[c].kind /\ call[c].copy.status = "pending"

Alone == \A r \in Sync, s \in Sync : sync[r].at # "idle" /\ sync[s].at # "idle" => r = s

(* Nothing was reordered: a run holds every pending like before one it holds,  *)
(* and the last pending like, or SoundCloud once there is none, is what was    *)
(* asked for last.                                                             *)
PendingLike(i) == i \in DOMAIN rows /\ rows[i].kind \in Likes /\ rows[i].status = "pending"
HeldLike(s, i) == i \in DOMAIN sync[s].todo /\ sync[s].todo[i].kind \in Likes
HeldInOrder ==
    \A s \in Sync : \A i \in DOMAIN rows : HeldLike(s, i) =>
        /\ PendingLike(i)
        /\ \A j \in DOMAIN rows : j < i /\ PendingLike(j) => j \in DOMAIN sync[s].todo
        /\ sync[s].at = "save" /\ IsTurn(s, i) =>
              sync[s].todo[i].status = "done" /\ liked = (rows[i].kind = "like")
LastIsWanted ==
    /\ \A i \in DOMAIN rows :
          PendingLike(i) /\ (\A j \in DOMAIN rows : PendingLike(j) => j <= i) =>
              wanted = (rows[i].kind = "like")
    /\ (\A i \in DOMAIN rows : ~PendingLike(i)) => liked = wanted
OrderOK == "reordered" \notin mishaps => Alone /\ HeldInOrder /\ LastIsWanted

(* Nothing was repeated: the creation of a call is in one row, and in the      *)
(* copies of that row, and it is not posted before a run has come to it.       *)
HasBody(row, b) == row.kind = "create" /\ row.body = b
Names(i, b) ==
    \/ HasBody(rows[i], b)
    \/ \E s \in Sync : i \in DOMAIN sync[s].todo /\ HasBody(sync[s].todo[i], b)
Executed(s, i, b) ==
    /\ sync[s].at = "save" /\ IsTurn(s, i)
    /\ HasBody(sync[s].todo[i], b) /\ sync[s].todo[i].status = "done"
OneRowEach ==
    /\ \A b \in Call : \A i \in DOMAIN rows : Names(i, b) =>
          call[b].at = "ok" /\ \A j \in DOMAIN rows : Names(j, b) => i = j
    /\ \A c \in Call : posted[c] < 2 /\ (call[c].at \notin {"ok", "error"} => posted[c] = 0)
NotYetPosted ==
    /\ \A b \in Call : \A i \in DOMAIN rows :
          HasBody(rows[i], b) /\ rows[i].status = "pending" /\ posted[b] # 0 =>
              \E s \in Sync : Executed(s, i, b)
    /\ \A b \in Call : \A s \in Sync : \A i \in DOMAIN sync[s].todo :
          HasBody(sync[s].todo[i], b) /\ sync[s].todo[i].status = "pending" => posted[b] = 0
PostsOK == "repeated" \notin mishaps => Alone /\ OneRowEach /\ NotYetPosted

(* Nothing was dropped: an accepted creation is posted or in a pending row,    *)
(* which a run saves with the body it has and settles only when it was posted. *)
Queued(c) == \E i \in DOMAIN rows : HasBody(rows[i], c) /\ rows[i].status = "pending"
AcceptedIsKept ==
    \A c \in Call : call[c].at = "ok" /\ call[c].kind = "create" => posted[c] > 0 \/ Queued(c)
CopiesAgree ==
    \A s \in Sync : \A i \in DOMAIN sync[s].todo : \A b \in Call :
        HasBody(sync[s].todo[i], b) =>
            /\ rows[i].body = b
            /\ sync[s].todo[i].status # "pending" => posted[b] > 0
KeptOK == "dropped" \notin mishaps => AcceptedIsKept /\ CopiesAgree

QueueInv == PendingTypeOK /\ RowsOK /\ RunsOK /\ CallsOK /\ OrderOK /\ PostsOK /\ KeptOK

(* The cache adds that an answer which is not stale is in the index.           *)
CacheInv ==
    /\ TypeOK
    /\ data # "none" /\ ~stale => indexed
    /\ CachedAnswerIsCurrent

-------------------------------------------------------------------------------
(* What a save, an insertion and a run's progress make of the queue, in terms  *)
(* of its rows and copies.                                                     *)

(* The types of a run, a call and a row.                                       *)
LEMMA Parts ==
    ASSUME PendingTypeOK
    PROVE /\ \A i \in DOMAIN rows : rows[i] \in Row
          /\ DOMAIN rows = 1..Len(rows) /\ Len(rows) \in Nat
          /\ \A s \in Sync : /\ sync[s].at \in {"idle", "execute", "save"}
                            /\ DOMAIN sync[s].todo \subseteq DOMAIN rows
                            /\ \A i \in DOMAIN sync[s].todo : sync[s].todo[i] \in Row
                            /\ sync[s].todo \in [DOMAIN sync[s].todo -> Row]
          /\ \A c \in Call : call[c].kind \in Kinds /\ call[c].copy \in Row /\ call[c].id \in Nat
  <1>1. rows \in Seq(Row) BY DEF PendingTypeOK
  <1>2. /\ DOMAIN rows = 1..Len(rows) /\ Len(rows) \in Nat
        /\ \A i \in DOMAIN rows : rows[i] \in Row
    BY <1>1
  <1>3. ASSUME NEW s \in Sync
        PROVE /\ sync[s].at \in {"idle", "execute", "save"}
              /\ DOMAIN sync[s].todo \subseteq DOMAIN rows
              /\ \A i \in DOMAIN sync[s].todo : sync[s].todo[i] \in Row
              /\ sync[s].todo \in [DOMAIN sync[s].todo -> Row]
    <2>1. sync[s] \in [at : {"idle", "execute", "save"},
                       todo : UNION {[ids -> Row] : ids \in SUBSET DOMAIN rows}]
      BY DEF PendingTypeOK
    <2>2. PICK ids \in SUBSET DOMAIN rows : sync[s].todo \in [ids -> Row]
      BY <2>1
    <2> QED BY <2>1, <2>2
  <1>4. \A c \in Call : call[c].kind \in Kinds /\ call[c].copy \in Row /\ call[c].id \in Nat
    BY DEF PendingTypeOK
  <1> QED BY <1>2, <1>3, <1>4

(* One run's copies are replaced.                                              *)
LEMMA RunBecomes ==
    ASSUME PendingTypeOK, NEW s \in Sync, NEW at \in {"idle", "execute", "save"},
           NEW ids \in SUBSET DOMAIN rows, NEW todo \in [ids -> Row],
           sync' = [sync EXCEPT ![s] = [at |-> at, todo |-> todo]]
    PROVE /\ sync' \in [Sync -> [at : {"idle", "execute", "save"},
                                 todo : UNION {[is -> Row] : is \in SUBSET DOMAIN rows}]]
          /\ sync'[s].at = at /\ sync'[s].todo = todo /\ DOMAIN sync'[s].todo = ids
          /\ \A r \in Sync : r # s => sync'[r] = sync[r]
  <1>1. sync \in [Sync -> [at : {"idle", "execute", "save"},
                          todo : UNION {[is -> Row] : is \in SUBSET DOMAIN rows}]]
    BY DEF PendingTypeOK
  <1>2. [at |-> at, todo |-> todo] \in [at : {"idle", "execute", "save"},
                                      todo : UNION {[is -> Row] : is \in SUBSET DOMAIN rows}]
    OBVIOUS
  <1> QED BY <1>1, <1>2

(* A run stops, or changes the copy it has come to and awaits its save.        *)
LEMMA RunStops ==
    ASSUME PendingTypeOK, NEW s \in Sync, SyncEnds(s)
    PROVE /\ sync' \in [Sync -> [at : {"idle", "execute", "save"},
                                 todo : UNION {[is -> Row] : is \in SUBSET DOMAIN rows}]]
          /\ sync'[s].at = "idle" /\ DOMAIN sync'[s].todo = {}
          /\ \A r \in Sync : r # s => sync'[r] = sync[r]
  <1>1. <<>> \in [{} -> Row] OBVIOUS
  <1> QED BY <1>1, RunBecomes DEF SyncEnds

LEMMA RunAwaitsSave ==
    ASSUME PendingTypeOK, NEW s \in Sync, NEW i \in DOMAIN sync[s].todo, NEW row \in Row,
           NowSave(s, i, row)
    PROVE /\ sync' \in [Sync -> [at : {"idle", "execute", "save"},
                                 todo : UNION {[is -> Row] : is \in SUBSET DOMAIN rows}]]
          /\ sync'[s].at = "save" /\ DOMAIN sync'[s].todo = DOMAIN sync[s].todo
          /\ sync'[s].todo[i] = row
          /\ \A j \in DOMAIN sync[s].todo : j # i => sync'[s].todo[j] = sync[s].todo[j]
          /\ \A r \in Sync : r # s => sync'[r] = sync[r]
  <1> DEFINE ids == DOMAIN sync[s].todo
             todo == [sync[s].todo EXCEPT ![i] = row]
  <1>1. sync[s].todo \in [ids -> Row] /\ ids \in SUBSET DOMAIN rows BY Parts
  <1>2. todo \in [ids -> Row] BY <1>1
  <1>3. sync' = [sync EXCEPT ![s] = [at |-> "save", todo |-> todo]]
    BY DEF NowSave
  <1>4. todo[i] = row /\ \A j \in ids : j # i => todo[j] = sync[s].todo[j]
    BY <1>1
  <1> HIDE DEF todo
  <1> QED BY <1>1, <1>2, <1>3, <1>4, RunBecomes

(* A row is saved, or inserted.                                                *)
LEMMA RowSaved ==
    ASSUME PendingTypeOK, NEW i \in DOMAIN rows, NEW row \in Row, rows' = [rows EXCEPT ![i] = row]
    PROVE /\ rows' \in Seq(Row) /\ DOMAIN rows' = DOMAIN rows /\ rows'[i] = row
          /\ \A j \in DOMAIN rows : j # i => rows'[j] = rows[j]
  <1>1. rows \in Seq(Row) BY DEF PendingTypeOK
  <1>2. i \in 1..Len(rows) BY <1>1
  <1> QED BY <1>1, <1>2, ExceptSeq

LEMMA RowInserted ==
    ASSUME PendingTypeOK, NEW row \in Row, rows' = Append(rows, row)
    PROVE /\ rows' \in Seq(Row) /\ DOMAIN rows' = DOMAIN rows \cup {Len(rows) + 1}
          /\ Len(rows) \in Nat /\ \A j \in DOMAIN rows : j \in Nat /\ j < Len(rows) + 1
          /\ rows'[Len(rows) + 1] = row
          /\ \A j \in DOMAIN rows : rows'[j] = rows[j]
  <1>1. rows \in Seq(Row) BY DEF PendingTypeOK
  <1>2. /\ rows' \in Seq(Row) /\ Len(rows') = Len(rows) + 1 /\ rows'[Len(rows) + 1] = row
        /\ \A j \in 1..Len(rows) : rows'[j] = rows[j]
    BY <1>1, AppendProperties
  <1>3. DOMAIN rows = 1..Len(rows) /\ Len(rows) \in Nat /\ DOMAIN rows' = 1..Len(rows')
    BY <1>1, <1>2
  <1> QED BY <1>2, <1>3

(* A call changes, and the others do not.                                      *)
LEMMA CallBecomes ==
    ASSUME PendingTypeOK, NEW c \in Call,
           NEW new \in [at : {"idle", "find", "save", "insert", "ok", "error"},
                        kind : Kinds, id : Nat, copy : Row],
           call' = [call EXCEPT ![c] = new]
    PROVE /\ call' \in [Call -> [at : {"idle", "find", "save", "insert", "ok", "error"},
                                 kind : Kinds, id : Nat, copy : Row]]
          /\ call'[c] = new /\ \A d \in Call : d # c => call'[d] = call[d]
  BY DEF PendingTypeOK

(* Requests are numbered from one.                                             *)
LEMMA Values ==
    /\ NoRow \in Row /\ NoCall.copy \in Row /\ Call \subseteq Nat /\ Sync \subseteq Nat
    /\ MaxRetries \in Nat \ {0} /\ MaxFaults \in Nat /\ MaxBans \in Nat /\ 1 \in Call
    /\ NoCall \in [at : {"idle", "find", "save", "insert", "ok", "error"},
                    kind : Kinds, id : Nat, copy : Row]
  BY PendingActionsAssumption DEF PendingActionsAssumption, NoRow, NoCall, Row, Kinds, Likes, Call, Sync

(* What SoundCloud carries out.                                                *)
LEMMA Applied ==
    ASSUME PendingTypeOK, NEW kind \in Kinds, NEW b \in Call, Apply(kind, b)
    PROVE /\ liked' \in BOOLEAN /\ posted' \in [Call -> 0..2]
          /\ kind \in Likes => liked' = (kind = "like") /\ posted' = posted
          /\ kind = "create" => liked' = liked /\ posted'[b] > 0
          /\ posted[b] = 0 => posted'[b] < 2
          /\ \A d \in Call : posted'[d] >= posted[d] /\ (d # b => posted'[d] = posted[d])
  <1>1. posted \in [Call -> 0..2] /\ liked \in BOOLEAN BY DEF PendingTypeOK
  <1>2. kind \in {"like", "unlike", "create"} BY DEF Kinds, Likes
  <1>3. posted[b] \in 0..2 BY <1>1
  <1>4. CASE kind = "create"
    <2>1. liked' = liked BY <1>4 DEF Apply
    <2>2. posted' = IF posted[b] < 2 THEN [posted EXCEPT ![b] = posted[b] + 1] ELSE posted
      BY <1>4 DEF Apply
    <2>3. CASE posted[b] < 2
      <3>1. posted' = [posted EXCEPT ![b] = posted[b] + 1] BY <2>2, <2>3
      <3> QED BY <1>1, <1>3, <1>4, <2>1, <2>3, <3>1 DEF Likes
    <2>4. CASE ~(posted[b] < 2)
      <3>1. posted' = posted BY <2>2, <2>4
      <3> QED BY <1>1, <1>3, <1>4, <2>1, <2>4, <3>1 DEF Likes
    <2> QED BY <2>3, <2>4
  <1>5. CASE kind \in Likes
    <2>1. liked' = (kind = "like") /\ posted' = posted
      BY <1>5 DEF Apply, Likes
    <2>2. liked' \in BOOLEAN BY <2>1
    <2> QED BY <1>1, <1>5, <2>1, <2>2 DEF Likes
  <1> QED BY <1>2, <1>4, <1>5 DEF Likes

-------------------------------------------------------------------------------
(* The initial state, and the steps that leave the rows and the copies alone.  *)

LEMMA QueueInit == PendingInit => QueueInv
  <1> SUFFICES ASSUME PendingInit PROVE QueueInv OBVIOUS
  <1>1. rows = <<>> /\ rows \in Seq(Row) /\ DOMAIN rows = {} BY DEF PendingInit
  <1>2. \A s \in Sync : sync[s] = [at |-> "idle", todo |-> <<>>] BY DEF PendingInit
  <1>3. <<>> \in UNION {[ids -> Row] : ids \in SUBSET DOMAIN rows} /\ DOMAIN <<>> = {} OBVIOUS
  <1>4. sync \in [Sync -> [at : {"idle", "execute", "save"},
                          todo : UNION {[ids -> Row] : ids \in SUBSET DOMAIN rows}]]
    BY <1>3 DEF PendingInit
  <1>5. call = [c \in Call |-> NoCall] BY DEF PendingInit
  <1>6. call \in [Call -> [at : {"idle", "find", "save", "insert", "ok", "error"},
                          kind : Kinds, id : Nat, copy : Row]]
    BY <1>5, Values
  <1>7. posted \in [Call -> 0..2] /\ \A c \in Call : posted[c] = 0 BY DEF PendingInit
  <1>8. PendingTypeOK
    <2>1. liked \in BOOLEAN /\ banned \in BOOLEAN /\ wanted \in BOOLEAN BY DEF PendingInit
    <2>2. bans \in 0..MaxBans /\ faults \in 0..MaxFaults BY Values DEF PendingInit
    <2>3. mishaps \subseteq {"reordered", "repeated", "dropped"} BY DEF PendingInit
    <2> QED BY <1>1, <1>4, <1>6, <1>7, <2>1, <2>2, <2>3 DEF PendingTypeOK
  <1>9. \A c \in Call : call[c].at = "idle" BY <1>5 DEF NoCall
  <1>10. RowsOK /\ RunsOK /\ CallsOK
    BY <1>1, <1>2, <1>3, <1>9 DEF RowsOK, RunsOK, CallsOK
  <1>11. Alone BY <1>2 DEF Alone
  <1>12. OrderOK
    BY <1>1, <1>2, <1>11 DEF PendingInit, OrderOK, HeldInOrder, LastIsWanted, PendingLike, HeldLike
  <1>13. PostsOK BY <1>1, <1>2, <1>3, <1>7, <1>9, <1>11 DEF PostsOK, OneRowEach, NotYetPosted
  <1>14. KeptOK BY <1>2, <1>3, <1>9 DEF KeptOK, AcceptedIsKept, CopiesAgree
  <1> QED BY <1>8, <1>10, <1>12, <1>13, <1>14 DEF QueueInv

(* No call is accepted.                                                        *)
SameAnswers ==
    \A c \in Call :
        /\ call'[c].at = "ok" <=> call[c].at = "ok"
        /\ call'[c].at = "ok" => call'[c].kind = call[c].kind
        /\ call[c].at = "error" => call'[c].at = "error"

LEMMA Unmoved ==
    ASSUME QueueInv, UNCHANGED <<rows, liked, posted, sync, wanted>>, mishaps \subseteq mishaps',
           SameAnswers
    PROVE RowsOK' /\ RunsOK' /\ OrderOK' /\ PostsOK' /\ KeptOK'
  <1>1. RowsOK' /\ RunsOK' BY DEF QueueInv, RowsOK, RunsOK, IsTurn
  <1>2. OrderOK'
    BY DEF QueueInv, OrderOK, Alone, HeldInOrder, LastIsWanted, PendingLike, HeldLike, IsTurn
  <1>3. PostsOK'
    <2> SUFFICES ASSUME "repeated" \notin mishaps' PROVE (Alone /\ OneRowEach /\ NotYetPosted)'
      BY DEF PostsOK
    <2>1. Alone /\ OneRowEach /\ NotYetPosted BY DEF QueueInv, PostsOK
    <2>2. Alone' BY <2>1 DEF Alone
    <2>3. OneRowEach' BY <2>1 DEF OneRowEach, Names, SameAnswers
    <2>4. NotYetPosted' BY <2>1 DEF NotYetPosted, Executed, IsTurn
    <2> QED BY <2>2, <2>3, <2>4
  <1>4. KeptOK'
    BY DEF QueueInv, KeptOK, AcceptedIsKept, CopiesAgree, Queued, SameAnswers
  <1> QED BY <1>1, <1>2, <1>3, <1>4

LEMMA BanInv == ASSUME QueueInv, Ban \/ Unban PROVE QueueInv'
  <1>1. UNCHANGED <<rows, liked, posted, sync, wanted, mishaps, call, faults>>
    BY DEF Ban, Unban
  <1>2. banned' \in BOOLEAN BY DEF Ban, Unban
  <1>3. bans' \in 0..MaxBans BY Values DEF Ban, Unban, QueueInv, PendingTypeOK
  <1>4. PendingTypeOK' BY <1>1, <1>2, <1>3 DEF QueueInv, PendingTypeOK
  <1>5. SameAnswers BY <1>1 DEF SameAnswers
  <1>6. CallsOK' BY <1>1 DEF QueueInv, CallsOK
  <1> QED BY <1>1, <1>4, <1>5, <1>6, Unmoved DEF QueueInv

LEMMA EnqueueFindInv == ASSUME QueueInv, NEW c \in Call, EnqueueFind(c) PROVE QueueInv'
  <1> DEFINE same == {i \in DOMAIN rows : rows[i].kind = call[c].kind /\ rows[i].status = "pending"}
  <1>1. PendingTypeOK BY DEF QueueInv
  <1>2. UNCHANGED <<rows, liked, posted, sync, wanted, mishaps, faults, bans, banned>>
        /\ call[c].at = "find"
    BY DEF EnqueueFind
  <1>3. \E new \in [at : {"idle", "find", "save", "insert", "ok", "error"},
                    kind : Kinds, id : Nat, copy : Row] :
          /\ call' = [call EXCEPT ![c] = new]
          /\ \/ new.at = "insert"
             \/ /\ new.at = "save" /\ new.id \in DOMAIN rows /\ rows[new.id].kind = new.kind
                /\ new.copy = rows[new.id] /\ new.copy.status = "pending"
    <2>1. CASE same = {}
      <3> DEFINE new == [call[c] EXCEPT !.at = "insert"]
      <3>1. call' = [call EXCEPT ![c] = new] BY <2>1 DEF EnqueueFind
      <3>2. new \in [at : {"idle", "find", "save", "insert", "ok", "error"},
                    kind : Kinds, id : Nat, copy : Row] /\ new.at = "insert"
        BY <1>1 DEF PendingTypeOK
      <3> QED BY <3>1, <3>2
    <2>2. CASE same # {}
      <3>1. PICK i \in same : call' = [call EXCEPT ![c].at = "save", ![c].id = i, ![c].copy = rows[i]]
        BY <2>2 DEF EnqueueFind
      <3> DEFINE new == [call[c] EXCEPT !.at = "save", !.id = i, !.copy = rows[i]]
      <3>2. call \in [Call -> [at : {"idle", "find", "save", "insert", "ok", "error"},
                              kind : Kinds, id : Nat, copy : Row]]
        BY <1>1 DEF PendingTypeOK
      <3>3. call' = [call EXCEPT ![c] = new] BY <3>1, <3>2
      <3>4. rows[i] \in Row /\ i \in Nat BY <1>1, Parts
      <3>5. /\ new \in [at : {"idle", "find", "save", "insert", "ok", "error"},
                        kind : Kinds, id : Nat, copy : Row]
            /\ new.at = "save" /\ new.id = i /\ new.kind = call[c].kind /\ new.copy = rows[i]
        BY <3>2, <3>4
      <3> HIDE DEF new
      <3> QED BY <3>3, <3>5
    <2> QED BY <2>1, <2>2
  <1>4. PICK new \in [at : {"idle", "find", "save", "insert", "ok", "error"},
                     kind : Kinds, id : Nat, copy : Row] :
          /\ call' = [call EXCEPT ![c] = new]
          /\ \/ new.at = "insert"
             \/ /\ new.at = "save" /\ new.id \in DOMAIN rows /\ rows[new.id].kind = new.kind
                /\ new.copy = rows[new.id] /\ new.copy.status = "pending"
    BY <1>3
  <1>5. /\ call' \in [Call -> [at : {"idle", "find", "save", "insert", "ok", "error"},
                               kind : Kinds, id : Nat, copy : Row]]
        /\ call'[c] = new /\ \A d \in Call : d # c => call'[d] = call[d]
    BY <1>1, <1>4, CallBecomes
  <1>6. PendingTypeOK' BY <1>2, <1>5 DEF QueueInv, PendingTypeOK
  <1>7. SameAnswers BY <1>2, <1>4, <1>5 DEF SameAnswers
  <1>8. CallsOK' BY <1>2, <1>4, <1>5 DEF QueueInv, CallsOK
  <1> QED BY <1>2, <1>6, <1>7, <1>8, Unmoved DEF QueueInv

-------------------------------------------------------------------------------
(* The steps of a call.                                                        *)

(* An answer of SoundCloud to the call itself.                                 *)
LEMMA RequestInv ==
    ASSUME QueueInv, NEW c \in Call, NEW kind \in Kinds, Request(c, kind) PROVE QueueInv'
  <1>1. PendingTypeOK BY DEF QueueInv
  <1>2. call[c].at = "idle" /\ UNCHANGED <<rows, bans, banned, sync>> BY DEF Request
  <1> DEFINE Calls == [at : {"idle", "find", "save", "insert", "ok", "error"},
                       kind : Kinds, id : Nat, copy : Row]
  <1>3. call \in [Call -> Calls] BY <1>1 DEF PendingTypeOK
  <1>4. CASE /\ banned /\ call' = [call EXCEPT ![c].at = "find", ![c].kind = kind]
             /\ UNCHANGED <<liked, posted, faults, wanted, mishaps>>
    <2> DEFINE new == [call[c] EXCEPT !.at = "find", !.kind = kind]
    <2>1. call' = [call EXCEPT ![c] = new] BY <1>3, <1>4
    <2>2. new \in Calls /\ new.at = "find" BY <1>3
    <2> HIDE DEF new
    <2>3. call' \in [Call -> Calls] /\ call'[c] = new /\ \A d \in Call : d # c => call'[d] = call[d]
      BY <1>1, <2>1, <2>2, CallBecomes
    <2>4. PendingTypeOK' BY <1>2, <1>4, <2>3 DEF QueueInv, PendingTypeOK
    <2>5. SameAnswers BY <1>2, <2>2, <2>3 DEF SameAnswers
    <2>6. CallsOK' BY <1>2, <2>2, <2>3 DEF QueueInv, CallsOK
    <2> QED BY <1>2, <1>4, <2>4, <2>5, <2>6, Unmoved DEF QueueInv
  <1>5. ASSUME Apply(kind, c), mishaps' \in {mishaps, mishaps \cup {"reordered"}},
               kind \in Likes /\ Outstanding(Likes) => mishaps' = mishaps \cup {"reordered"},
               faults' \in 0..MaxFaults, wanted' \in BOOLEAN,
               NEW new \in Calls, call' = [call EXCEPT ![c] = new],
               \/ /\ new.at = "ok" /\ new.kind = kind
                  /\ wanted' = IF kind \in Likes THEN kind = "like" ELSE wanted
               \/ /\ new.at = "error" /\ wanted' = wanted
                  /\ kind \in Likes => mishaps' = mishaps \cup {"reordered"}
        PROVE QueueInv'
    <2>1. /\ liked' \in BOOLEAN /\ posted' \in [Call -> 0..2]
          /\ kind \in Likes => liked' = (kind = "like") /\ posted' = posted
          /\ kind = "create" => liked' = liked /\ posted'[c] > 0
          /\ posted[c] = 0 => posted'[c] < 2
          /\ \A d \in Call : posted'[d] >= posted[d] /\ (d # c => posted'[d] = posted[d])
      BY <1>1, <1>5, Applied
    <2>2. call' \in [Call -> Calls] /\ call'[c] = new /\ \A d \in Call : d # c => call'[d] = call[d]
      BY <1>1, <1>5, CallBecomes
    <2>3. mishaps \subseteq mishaps' /\ mishaps' \subseteq {"reordered", "repeated", "dropped"}
      BY <1>1, <1>5 DEF PendingTypeOK
    <2>4. PendingTypeOK' BY <1>1, <1>2, <1>5, <2>1, <2>2, <2>3 DEF PendingTypeOK
    <2>5. RowsOK' /\ RunsOK' BY <1>2 DEF QueueInv, RowsOK, RunsOK, IsTurn
    <2>6. CallsOK' BY <1>2, <1>5, <2>2 DEF QueueInv, CallsOK
    <2>7. OrderOK'
      <3> SUFFICES ASSUME "reordered" \notin mishaps' PROVE (Alone /\ HeldInOrder /\ LastIsWanted)'
        BY DEF OrderOK
      <3>1. Alone /\ HeldInOrder /\ LastIsWanted BY <2>3 DEF QueueInv, OrderOK
      <3>2. Alone' BY <1>2, <3>1 DEF Alone
      <3>3. CASE kind \in Likes
        <4>1. ~Outstanding(Likes) BY <1>5, <3>3
        <4>2. \A i \in DOMAIN rows : ~PendingLike(i)
          BY <4>1 DEF Outstanding, PendingLike
        <4>3. \A s \in Sync : \A i \in DOMAIN rows : ~HeldLike(s, i)
          BY <4>1 DEF Outstanding, InSync, HeldLike
        <4>4. HeldInOrder' BY <1>2, <4>3 DEF HeldInOrder, HeldLike
        <4>5. liked' = wanted' BY <1>5, <2>1, <3>3
        <4>6. LastIsWanted' BY <1>2, <4>2, <4>5 DEF LastIsWanted, PendingLike
        <4> QED BY <3>2, <4>4, <4>6
      <3>4. CASE kind \notin Likes
        <4>1. liked' = liked /\ wanted' = wanted BY <1>5, <2>1, <3>4 DEF Kinds
        <4>2. HeldInOrder' BY <1>2, <3>1, <4>1 DEF HeldInOrder, HeldLike, PendingLike, IsTurn
        <4>3. LastIsWanted' BY <1>2, <3>1, <4>1 DEF LastIsWanted, PendingLike
        <4> QED BY <3>2, <4>2, <4>3
      <3> QED BY <3>3, <3>4
    <2>8. PostsOK'
      <3> SUFFICES ASSUME "repeated" \notin mishaps' PROVE (Alone /\ OneRowEach /\ NotYetPosted)'
        BY DEF PostsOK
      <3>1. Alone /\ OneRowEach /\ NotYetPosted BY <2>3 DEF QueueInv, PostsOK
      <3>2. Alone' BY <1>2, <3>1 DEF Alone
      <3>3. posted[c] = 0 /\ \A i \in DOMAIN rows : ~Names(i, c)
        BY <1>2, <3>1 DEF OneRowEach
      <3>4. posted'[c] < 2 BY <2>1, <3>3
      <3>5. \A b \in Call : \A i \in DOMAIN rows : Names(i, b)' <=> Names(i, b)
        BY <1>2 DEF Names
      <3>6. OneRowEach'
        BY <1>2, <1>5, <2>1, <2>2, <3>1, <3>3, <3>4, <3>5 DEF OneRowEach
      <3>7. NotYetPosted'
        <4>1. ASSUME NEW b \in Call, NEW i \in DOMAIN rows, HasBody(rows[i], b),
                     rows[i].status = "pending", posted'[b] # 0
              PROVE \E s \in Sync : Executed(s, i, b)'
          <5>1. b # c BY <3>3, <4>1 DEF Names
          <5>2. PICK s \in Sync : Executed(s, i, b) BY <2>1, <3>1, <4>1, <5>1 DEF NotYetPosted
          <5> QED BY <1>2, <5>2 DEF Executed, IsTurn
        <4>2. ASSUME NEW b \in Call, NEW s \in Sync, NEW i \in DOMAIN sync[s].todo,
                     HasBody(sync[s].todo[i], b), sync[s].todo[i].status = "pending"
              PROVE posted'[b] = 0
          <5>1. i \in DOMAIN rows BY <1>1, Parts
          <5>2. b # c BY <3>3, <4>2, <5>1 DEF Names
          <5> QED BY <2>1, <3>1, <4>2, <5>2 DEF NotYetPosted
        <4> QED BY <1>2, <4>1, <4>2 DEF NotYetPosted
      <3> QED BY <3>2, <3>6, <3>7
    <2>9. KeptOK'
      <3> SUFFICES ASSUME "dropped" \notin mishaps' PROVE (AcceptedIsKept /\ CopiesAgree)'
        BY DEF KeptOK
      <3>1. AcceptedIsKept /\ CopiesAgree BY <2>3 DEF QueueInv, KeptOK
      <3>2. \A d \in Call : posted[d] > 0 => posted'[d] > 0
        <4>1. \A d \in Call : posted[d] \in 0..2 /\ posted'[d] \in 0..2
          BY <1>1, <2>1 DEF PendingTypeOK
        <4>2. \A d \in Call : posted'[d] >= posted[d] BY <2>1
        <4> QED BY <4>1, <4>2
      <3>3. AcceptedIsKept' BY <1>2, <1>5, <2>1, <2>2, <3>1, <3>2 DEF AcceptedIsKept, Queued
      <3>4. CopiesAgree' BY <1>2, <3>1, <3>2 DEF CopiesAgree
      <3> QED BY <3>3, <3>4
    <2> QED BY <2>4, <2>5, <2>6, <2>7, <2>8, <2>9 DEF QueueInv
  <1>6. CASE /\ ~banned /\ Apply(kind, c) /\ Accept(c, kind)
             /\ mishaps' = mishaps \cup If(kind \in Likes /\ Outstanding(Likes), {"reordered"})
             /\ UNCHANGED faults
    <2> DEFINE new == [NoCall EXCEPT !.at = "ok", !.kind = kind]
    <2>1. call' = [call EXCEPT ![c] = new]
          /\ wanted' = IF kind \in Likes THEN kind = "like" ELSE wanted
      BY <1>6 DEF Accept
    <2>2. new \in Calls /\ new.at = "ok" /\ new.kind = kind BY Values DEF NoCall
    <2>3. wanted' \in BOOLEAN BY <1>1, <2>1 DEF PendingTypeOK
    <2>4. faults' \in 0..MaxFaults BY <1>1, <1>6 DEF PendingTypeOK
    <2>5. mishaps' \in {mishaps, mishaps \cup {"reordered"}}
          /\ (kind \in Likes /\ Outstanding(Likes) => mishaps' = mishaps \cup {"reordered"})
      BY <1>6 DEF If
    <2> HIDE DEF new, Calls
    <2> QED BY <1>5, <1>6, <2>1, <2>2, <2>3, <2>4, <2>5
  <1>7. CASE /\ ~banned /\ Apply(kind, c) /\ Fault
             /\ call' = [call EXCEPT ![c].at = "error"] /\ UNCHANGED wanted
             /\ mishaps' = mishaps \cup If(kind \in Likes, {"reordered"})
    <2> DEFINE new == [call[c] EXCEPT !.at = "error"]
    <2>1. call' = [call EXCEPT ![c] = new] BY <1>7
    <2>2. new \in Calls /\ new.at = "error" BY <1>3
    <2>3. wanted' \in BOOLEAN BY <1>1, <1>7 DEF PendingTypeOK
    <2>4. faults' \in 0..MaxFaults BY <1>1, <1>7, Values DEF PendingTypeOK, Fault
    <2>5. mishaps' \in {mishaps, mishaps \cup {"reordered"}}
          /\ (kind \in Likes => mishaps' = mishaps \cup {"reordered"})
      BY <1>7 DEF If
    <2> HIDE DEF new, Calls
    <2> QED BY <1>5, <1>7, <2>1, <2>2, <2>3, <2>4, <2>5
  <1> QED BY <1>4, <1>6, <1>7 DEF Request

(* A row is taken over, or inserted: row k is pending now, and names call c if *)
(* it is a creation.                                                           *)
LEMMA EnqueuedInv ==
    ASSUME QueueInv, NEW c \in Call, call[c].at \in {"save", "insert"}, NEW k \in Nat \ {0},
           rows' \in Seq(Row), DOMAIN rows \subseteq DOMAIN rows', DOMAIN rows' = DOMAIN rows \cup {k},
           \A j \in DOMAIN rows : j # k => rows'[j] = rows[j],
           rows'[k].status = "pending", rows'[k].kind = call[c].kind, rows'[k].retry = 0,
           call[c].kind = "create" => rows'[k].body = c,
           k \in DOMAIN rows => rows[k].kind = call[c].kind,
           k \notin DOMAIN rows => \A j \in DOMAIN rows : j < k,
           Accept(c, call[c].kind), UNCHANGED <<liked, posted, bans, banned, sync, faults>>,
           mishaps \subseteq mishaps', mishaps' \subseteq {"reordered", "repeated", "dropped"},
           k \in DOMAIN rows /\ call[c].kind = "create" => "dropped" \in mishaps',
           k \in DOMAIN rows /\ call[c].kind \in Likes /\ "reordered" \notin mishaps' =>
              /\ \A s \in Sync : sync[s].at = "idle"
              /\ \A j \in DOMAIN rows : j > k /\ PendingLike(j) => rows[j].kind = call[c].kind
    PROVE QueueInv'
  <1>1. PendingTypeOK BY DEF QueueInv
  <1> DEFINE Calls == [at : {"idle", "find", "save", "insert", "ok", "error"},
                       kind : Kinds, id : Nat, copy : Row]
             new == [NoCall EXCEPT !.at = "ok", !.kind = call[c].kind]
  <1>2. call \in [Call -> Calls] /\ call[c].kind \in Kinds BY <1>1 DEF PendingTypeOK
  <1>3. new \in Calls /\ new.at = "ok" /\ new.kind = call[c].kind BY <1>2, Values DEF NoCall
  <1>4. call' = [call EXCEPT ![c] = new]
        /\ wanted' = IF call[c].kind \in Likes THEN call[c].kind = "like" ELSE wanted
    BY DEF Accept
  <1> HIDE DEF new
  <1>5. call' \in [Call -> Calls] /\ call'[c] = new /\ \A d \in Call : d # c => call'[d] = call[d]
    BY <1>1, <1>3, <1>4, CallBecomes
  <1>6. PendingTypeOK'
    <2>1. wanted' \in BOOLEAN BY <1>1, <1>4 DEF PendingTypeOK
    <2>2. sync' \in [Sync -> [at : {"idle", "execute", "save"},
                             todo : UNION {[ids -> Row] : ids \in SUBSET DOMAIN rows'}]]
      <3>1. UNION {[ids -> Row] : ids \in SUBSET DOMAIN rows}
              \subseteq UNION {[ids -> Row] : ids \in SUBSET DOMAIN rows'}
        OBVIOUS
      <3> QED BY <1>1, <3>1 DEF PendingTypeOK
    <2> QED BY <1>1, <1>5, <2>1, <2>2 DEF PendingTypeOK
  <1>7. DOMAIN rows \subseteq Nat
        /\ \A s \in Sync : DOMAIN sync[s].todo \subseteq DOMAIN rows BY <1>1, Parts
  <1>8. RowsOK' BY Values DEF QueueInv, RowsOK, Unsettled
  <1>9. RunsOK' BY <1>7 DEF QueueInv, RunsOK, IsTurn
  <1>10. CallsOK'
    <2>1. ASSUME NEW d \in Call, call'[d].at = "save"
          PROVE /\ call'[d].id \in DOMAIN rows' /\ rows'[call'[d].id].kind = call'[d].kind
                /\ call'[d].copy.kind = call'[d].kind /\ call'[d].copy.status = "pending"
      <3>1. call'[d] = call[d] BY <1>3, <1>5, <2>1
      <3>2. call[d].id \in DOMAIN rows /\ rows[call[d].id].kind = call[d].kind
            /\ call[d].copy.kind = call[d].kind /\ call[d].copy.status = "pending"
        BY <2>1, <3>1 DEF QueueInv, CallsOK
      <3>3. rows'[call[d].id].kind = rows[call[d].id].kind BY <3>2
      <3> QED BY <3>1, <3>2, <3>3
    <2> QED BY <2>1 DEF CallsOK
  <1>11. OrderOK'
    <2> SUFFICES ASSUME "reordered" \notin mishaps' PROVE (Alone /\ HeldInOrder /\ LastIsWanted)'
      BY DEF OrderOK
    <2>1. Alone /\ HeldInOrder /\ LastIsWanted BY DEF QueueInv, OrderOK
    <2>2. Alone' BY <2>1 DEF Alone
    <2>3. \A i \in Nat : i # k => (PendingLike(i)' <=> PendingLike(i))
      BY DEF PendingLike
    <2>4. CASE call[c].kind \in Likes
      <3>1. PendingLike(k)' BY <2>4 DEF PendingLike
      <3>2. HeldInOrder'
        <4>1. CASE k \in DOMAIN rows
          <5>1. \A s \in Sync : DOMAIN sync[s].todo = {}
            BY <2>4, <4>1 DEF QueueInv, RunsOK
          <5> QED BY <5>1 DEF HeldInOrder, HeldLike
        <4>2. CASE k \notin DOMAIN rows
          <5>1. ASSUME NEW s \in Sync, NEW i \in DOMAIN rows', HeldLike(s, i)
                PROVE /\ PendingLike(i)'
                      /\ \A j \in DOMAIN rows' : j < i /\ PendingLike(j)' => j \in DOMAIN sync[s].todo
                      /\ sync[s].at = "save" /\ IsTurn(s, i) =>
                            sync[s].todo[i].status = "done" /\ liked = (rows'[i].kind = "like")
            <6>1. i \in DOMAIN rows /\ i # k BY <1>7, <4>2, <5>1 DEF HeldLike
            <6>2. ~(k < i) BY <1>7, <4>2, <6>1
            <6> QED BY <1>7, <2>1, <2>3, <5>1, <6>1, <6>2 DEF HeldInOrder
          <5> QED BY <5>1 DEF HeldInOrder, HeldLike, IsTurn
        <4> QED BY <4>1, <4>2
      <3>3. LastIsWanted'
        <4>1. ASSUME NEW i \in DOMAIN rows', PendingLike(i)', \A j \in DOMAIN rows' : PendingLike(j)' => j <= i
              PROVE rows'[i].kind = call[c].kind
          <5>1. k <= i BY <3>1, <4>1
          <5>2. CASE k = i BY <5>2
          <5>3. CASE k # i
            <6>1. i \in DOMAIN rows /\ i > k /\ PendingLike(i) BY <1>7, <2>3, <4>1, <5>1, <5>3
            <6> QED BY <2>4, <6>1, <1>7
          <5> QED BY <5>2, <5>3
        <4>2. wanted' = (call[c].kind = "like") BY <1>4, <2>4
        <4> QED BY <3>1, <4>1, <4>2 DEF LastIsWanted
      <3> QED BY <2>2, <3>2, <3>3
    <2>5. CASE call[c].kind \notin Likes
      <3>1. ~PendingLike(k)' /\ ~PendingLike(k) BY <2>5 DEF PendingLike
      <3>2. \A i \in Nat : PendingLike(i)' <=> PendingLike(i) BY <2>3, <3>1
      <3>3. wanted' = wanted BY <1>4, <2>5
      <3>4. \A i \in Nat : PendingLike(i) => i \in DOMAIN rows /\ rows'[i] = rows[i]
        BY <3>1 DEF PendingLike
      <3>5. HeldInOrder'
        <4>1. ASSUME NEW s \in Sync, NEW i \in DOMAIN rows', HeldLike(s, i)
              PROVE /\ PendingLike(i)'
                    /\ \A j \in DOMAIN rows' : j < i /\ PendingLike(j)' => j \in DOMAIN sync[s].todo
                    /\ sync[s].at = "save" /\ IsTurn(s, i) =>
                          sync[s].todo[i].status = "done" /\ liked = (rows'[i].kind = "like")
          <5>1. i \in DOMAIN rows BY <1>7, <4>1 DEF HeldLike
          <5>2. PendingLike(i) BY <2>1, <4>1, <5>1 DEF HeldInOrder
          <5> QED BY <1>7, <2>1, <3>2, <3>4, <4>1, <5>1, <5>2 DEF HeldInOrder
        <4> QED BY <4>1 DEF HeldInOrder, HeldLike, IsTurn
      <3>6. LastIsWanted' BY <1>7, <2>1, <3>2, <3>3, <3>4 DEF LastIsWanted
      <3> QED BY <2>2, <3>5, <3>6
    <2> QED BY <2>4, <2>5
  <1>12. PostsOK'
    <2> SUFFICES ASSUME "repeated" \notin mishaps' PROVE (Alone /\ OneRowEach /\ NotYetPosted)'
      BY DEF PostsOK
    <2>1. Alone /\ OneRowEach /\ NotYetPosted BY DEF QueueInv, PostsOK
    <2>2. Alone' BY <2>1 DEF Alone
    <2>3. posted[c] = 0 /\ \A i \in DOMAIN rows : ~Names(i, c)
      BY <2>1 DEF OneRowEach
    <2>4. \A b \in Call : \A i \in DOMAIN rows' :
             Names(i, b)' => (i \in DOMAIN rows /\ Names(i, b)) \/ (i = k /\ b = c)
      BY <1>7 DEF Names, HasBody
    <2>5. OneRowEach'
      <3>1. ASSUME NEW b \in Call, NEW i \in DOMAIN rows', Names(i, b)'
            PROVE call'[b].at = "ok" /\ \A j \in DOMAIN rows' : Names(j, b)' => i = j
        BY <1>3, <1>5, <2>1, <2>3, <2>4, <3>1 DEF OneRowEach
      <3>2. \A d \in Call : posted[d] < 2 /\ (call'[d].at \notin {"ok", "error"} => posted[d] = 0)
        BY <1>3, <1>5, <2>1 DEF OneRowEach
      <3> QED BY <3>1, <3>2 DEF OneRowEach
    <2>6. NotYetPosted'
      <3>1. ASSUME NEW b \in Call, NEW i \in DOMAIN rows', HasBody(rows'[i], b),
                   rows'[i].status = "pending", posted[b] # 0
            PROVE \E s \in Sync : Executed(s, i, b)
        <4>1. i # k BY <2>3, <3>1 DEF HasBody
        <4> QED BY <2>1, <3>1, <4>1 DEF NotYetPosted
      <3> QED BY <2>1, <3>1 DEF NotYetPosted, Executed, IsTurn
    <2> QED BY <2>2, <2>5, <2>6
  <1>13. KeptOK'
    <2> SUFFICES ASSUME "dropped" \notin mishaps' PROVE (AcceptedIsKept /\ CopiesAgree)'
      BY DEF KeptOK
    <2>1. AcceptedIsKept /\ CopiesAgree BY DEF QueueInv, KeptOK
    <2>2. k \in DOMAIN rows => call[c].kind # "create" OBVIOUS
    <2>3. \A d \in Call : Queued(d) => Queued(d)' BY <2>2 DEF Queued, HasBody
    <2>4. call[c].kind = "create" => Queued(c)' BY DEF Queued, HasBody
    <2>5. AcceptedIsKept' BY <1>3, <1>5, <2>1, <2>3, <2>4 DEF AcceptedIsKept
    <2>6. \A s \in Sync : \A i \in DOMAIN sync[s].todo : sync[s].todo[i].kind = rows[i].kind
      BY DEF QueueInv, RunsOK
    <2>7. CopiesAgree' BY <1>7, <2>1, <2>2, <2>6 DEF CopiesAgree, HasBody
    <2> QED BY <2>5, <2>7
  <1> QED BY <1>6, <1>8, <1>9, <1>10, <1>11, <1>12, <1>13 DEF QueueInv

LEMMA EnqueueSaveInv == ASSUME QueueInv, NEW c \in Call, EnqueueSave(c) PROVE QueueInv'
  <1> DEFINE k == call[c].id
             body == IF call[c].kind = "create" THEN c ELSE call[c].copy.body
             row == [call[c].copy EXCEPT !.retry = 0, !.body = body]
  <1>1. PendingTypeOK BY DEF QueueInv
  <1>2. call[c].at = "save" /\ rows' = [rows EXCEPT ![k] = row] /\ Accept(c, call[c].kind)
        /\ UNCHANGED <<liked, posted, bans, banned, sync, faults>>
    BY DEF EnqueueSave
  <1>3. /\ k \in DOMAIN rows /\ rows[k].kind = call[c].kind
        /\ call[c].copy.kind = call[c].kind /\ call[c].copy.status = "pending"
    BY <1>2 DEF QueueInv, CallsOK
  <1>4. call[c].copy \in Row /\ DOMAIN rows \subseteq Nat \ {0} BY <1>1, Parts
  <1>5. /\ row \in Row /\ row.kind = call[c].kind /\ row.status = "pending" /\ row.retry = 0
        /\ call[c].kind = "create" => row.body = c
    <2>1. body \in Call /\ (call[c].kind = "create" => body = c) BY <1>4 DEF Row
    <2> HIDE DEF body
    <2>2. 0 \in 0..MaxRetries BY Values
    <2>3. row \in Row BY <1>4, <2>1, <2>2 DEF Row
    <2>4. row.kind = call[c].copy.kind /\ row.status = call[c].copy.status /\ row.retry = 0 /\ row.body = body
      BY <1>4 DEF Row
    <2> QED BY <1>3, <2>1, <2>3, <2>4
  <1> HIDE DEF row
  <1>6. /\ rows' \in Seq(Row) /\ DOMAIN rows' = DOMAIN rows /\ rows'[k] = row
        /\ \A j \in DOMAIN rows : j # k => rows'[j] = rows[j]
    BY <1>1, <1>2, <1>3, <1>5, RowSaved
  <1>7. mishaps' = mishaps
         \cup If(call[c].kind = "create", {"dropped"})
         \cup If(call[c].kind \in Likes /\ \E s \in Sync : sync[s].at # "idle", {"reordered"})
         \cup If(\E j \in DOMAIN rows : j > k /\ rows[j].status = "pending"
                     /\ rows[j].kind \in Opposite(call[c].kind), {"reordered"})
    BY DEF EnqueueSave
  <1>8. mishaps \subseteq mishaps' /\ mishaps' \subseteq {"reordered", "repeated", "dropped"}
        /\ (call[c].kind = "create" => "dropped" \in mishaps')
    BY <1>1, <1>7 DEF If, PendingTypeOK
  <1>9. ASSUME call[c].kind \in Likes, "reordered" \notin mishaps'
        PROVE /\ \A s \in Sync : sync[s].at = "idle"
              /\ \A j \in DOMAIN rows : j > k /\ PendingLike(j) => rows[j].kind = call[c].kind
    <2>1. \A s \in Sync : sync[s].at = "idle" BY <1>7, <1>9 DEF If
    <2>2. \A j \in DOMAIN rows :
             ~(j > k /\ rows[j].status = "pending" /\ rows[j].kind \in Opposite(call[c].kind))
      BY <1>7, <1>9 DEF If
    <2>3. \A kind \in Likes : kind # call[c].kind => kind \in Opposite(call[c].kind)
      BY <1>9 DEF Opposite, Likes
    <2> QED BY <2>1, <2>2, <2>3 DEF PendingLike
  <1> HIDE DEF k
  <1> QED BY <1>2, <1>3, <1>4, <1>5, <1>6, <1>8, <1>9, EnqueuedInv

LEMMA EnqueueInsertInv == ASSUME QueueInv, NEW c \in Call, EnqueueInsert(c) PROVE QueueInv'
  <1> DEFINE k == Len(rows) + 1
             row == [kind |-> call[c].kind, body |-> c, status |-> "pending", retry |-> 0]
  <1>1. PendingTypeOK BY DEF QueueInv
  <1>2. call[c].at = "insert" /\ rows' = Append(rows, row) /\ Accept(c, call[c].kind)
        /\ UNCHANGED <<liked, posted, bans, banned, sync, faults, mishaps>>
    BY DEF EnqueueInsert
  <1>3. call[c].kind \in Kinds BY <1>1, Parts
  <1>4. row \in Row BY <1>3, Values DEF Row
  <1>5. /\ rows' \in Seq(Row) /\ DOMAIN rows' = DOMAIN rows \cup {k}
        /\ Len(rows) \in Nat /\ \A j \in DOMAIN rows : j \in Nat /\ j < k
        /\ rows'[k] = row
        /\ \A j \in DOMAIN rows : rows'[j] = rows[j]
    BY <1>1, <1>2, <1>4, RowInserted
  <1>6. mishaps' \subseteq {"reordered", "repeated", "dropped"} BY <1>1, <1>2 DEF PendingTypeOK
  <1>7. k \in Nat \ {0} BY <1>5
  <1>8. k \notin DOMAIN rows BY <1>5
  <1> HIDE DEF k
  <1> QED BY <1>2, <1>3, <1>5, <1>6, <1>7, <1>8, EnqueuedInv

-------------------------------------------------------------------------------
(* The steps of a run, and a restart.                                          *)

(* Runs stop, between a post and its save only if an action may be repeated.   *)
LEMMA RunsStop ==
    ASSUME QueueInv, UNCHANGED <<rows, liked, posted, wanted>>, SameAnswers, mishaps \subseteq mishaps',
           \A s \in Sync : \/ sync'[s] = sync[s]
                          \/ /\ sync'[s].at = "idle" /\ DOMAIN sync'[s].todo = {}
                             /\ sync[s].at = "save" => "repeated" \in mishaps'
    PROVE RowsOK' /\ RunsOK' /\ OrderOK' /\ PostsOK' /\ KeptOK'
  <1>1. RowsOK' BY DEF QueueInv, RowsOK
  <1>2. RunsOK' BY DEF QueueInv, RunsOK, IsTurn
  <1>3. \A s \in Sync : sync'[s].at # "idle" => sync[s].at # "idle" OBVIOUS
  <1>4. \A s \in Sync : \A i \in DOMAIN sync'[s].todo : sync'[s] = sync[s] OBVIOUS
  <1>5. OrderOK'
    <2> SUFFICES ASSUME "reordered" \notin mishaps' PROVE (Alone /\ HeldInOrder /\ LastIsWanted)'
      BY DEF OrderOK
    <2>1. Alone /\ HeldInOrder /\ LastIsWanted BY DEF QueueInv, OrderOK
    <2>2. Alone' BY <1>3, <2>1 DEF Alone
    <2>3. \A i : PendingLike(i)' <=> PendingLike(i) BY DEF PendingLike
    <2>4. HeldInOrder' BY <1>4, <2>1, <2>3 DEF HeldInOrder, HeldLike, IsTurn
    <2>5. LastIsWanted' BY <2>1, <2>3 DEF LastIsWanted
    <2> QED BY <2>2, <2>4, <2>5
  <1>6. PostsOK'
    <2> SUFFICES ASSUME "repeated" \notin mishaps' PROVE (Alone /\ OneRowEach /\ NotYetPosted)'
      BY DEF PostsOK
    <2>1. Alone /\ OneRowEach /\ NotYetPosted BY DEF QueueInv, PostsOK
    <2>2. Alone' BY <1>3, <2>1 DEF Alone
    <2>3. \A b \in Call : \A i \in DOMAIN rows : Names(i, b)' => Names(i, b) BY <1>4 DEF Names
    <2>4. OneRowEach' BY <2>1, <2>3 DEF OneRowEach, SameAnswers
    <2>5. \A s \in Sync, i \in DOMAIN rows, b \in Call : Executed(s, i, b) => Executed(s, i, b)'
      BY DEF Executed, IsTurn
    <2>6. NotYetPosted' BY <1>4, <2>1, <2>5 DEF NotYetPosted
    <2> QED BY <2>2, <2>4, <2>6
  <1>7. KeptOK' BY <1>4 DEF QueueInv, KeptOK, AcceptedIsKept, CopiesAgree, Queued, SameAnswers
  <1> QED BY <1>1, <1>2, <1>5, <1>6, <1>7

LEMMA SyncEndsInv ==
    ASSUME QueueInv, NEW s \in Sync, SyncEnds(s), faults' \in 0..MaxFaults,
           UNCHANGED <<rows, liked, posted, bans, banned, call, wanted>>,
           mishaps \subseteq mishaps', mishaps' \subseteq {"reordered", "repeated", "dropped"},
           sync[s].at = "save" => "repeated" \in mishaps'
    PROVE QueueInv'
  <1>1. PendingTypeOK BY DEF QueueInv
  <1>2. /\ sync' \in [Sync -> [at : {"idle", "execute", "save"},
                               todo : UNION {[is -> Row] : is \in SUBSET DOMAIN rows}]]
        /\ sync'[s].at = "idle" /\ DOMAIN sync'[s].todo = {}
        /\ \A r \in Sync : r # s => sync'[r] = sync[r]
    BY <1>1, RunStops
  <1>3. PendingTypeOK' BY <1>1, <1>2 DEF PendingTypeOK
  <1>4. CallsOK' BY DEF QueueInv, CallsOK
  <1>5. SameAnswers BY DEF SameAnswers
  <1> QED BY <1>2, <1>3, <1>4, <1>5, RunsStop DEF QueueInv

LEMMA RestartInv == ASSUME QueueInv, Restart PROVE QueueInv'
  <1>1. PendingTypeOK BY DEF QueueInv
  <1>2. UNCHANGED <<rows, liked, posted, bans, banned, wanted>> /\ "repeated" \in mishaps'
        /\ mishaps \subseteq mishaps' /\ mishaps' \subseteq {"reordered", "repeated", "dropped"}
    BY <1>1 DEF Restart, PendingTypeOK
  <1>3. faults' \in 0..MaxFaults BY <1>1, Values DEF Restart, Fault, PendingTypeOK
  <1>4. sync' = [s \in Sync |-> [at |-> "idle", todo |-> <<>>]] BY DEF Restart
  <1>5. <<>> \in UNION {[ids -> Row] : ids \in SUBSET DOMAIN rows} /\ DOMAIN <<>> = {} OBVIOUS
  <1>6. /\ sync' \in [Sync -> [at : {"idle", "execute", "save"},
                               todo : UNION {[is -> Row] : is \in SUBSET DOMAIN rows}]]
        /\ \A s \in Sync : sync'[s].at = "idle" /\ DOMAIN sync'[s].todo = {}
    BY <1>4, <1>5
  <1> DEFINE Calls == [at : {"idle", "find", "save", "insert", "ok", "error"},
                       kind : Kinds, id : Nat, copy : Row]
             stopped == [NoCall EXCEPT !.at = "error"]
  <1>7. stopped \in Calls /\ stopped.at = "error" BY Values DEF NoCall
  <1>8. call' = [c \in Call |-> IF call[c].at = "idle" THEN call[c]
                               ELSE IF call[c].at = "ok" THEN call[c] ELSE stopped]
    BY DEF Restart
  <1> HIDE DEF stopped
  <1>9. call' \in [Call -> Calls]
        /\ \A c \in Call : call'[c] = call[c] \/ (call'[c].at = "error" /\ call[c].at \notin {"idle", "ok"})
    BY <1>1, <1>7, <1>8 DEF PendingTypeOK
  <1>10. PendingTypeOK' BY <1>1, <1>2, <1>3, <1>6, <1>9 DEF PendingTypeOK
  <1>11. SameAnswers BY <1>7, <1>8, <1>9 DEF SameAnswers
  <1>12. CallsOK' BY <1>2, <1>9 DEF QueueInv, CallsOK
  <1> QED BY <1>2, <1>6, <1>10, <1>11, <1>12, RunsStop DEF QueueInv

(* The first rows of the query come before the others.                         *)
LEMMA FirstRows ==
    ASSUME PendingTypeOK, NEW n \in Nat, NEW ids \in SUBSET DOMAIN rows
    PROVE /\ First(n, ids) \subseteq ids
          /\ \A i \in First(n, ids) : \A j \in ids : j < i => j \in First(n, ids)
  <1>1. DOMAIN rows = 1..Len(rows) /\ Len(rows) \in Nat BY Parts
  <1>2. IsFiniteSet(ids)
    <2>1. IsFiniteSet(1..Len(rows)) BY <1>1, FS_Interval
    <2> QED BY <1>1, <2>1, FS_Subset
  <1>3. ASSUME NEW i \in First(n, ids), NEW j \in ids, j < i PROVE j \in First(n, ids)
    <2> DEFINE below(k) == {m \in ids : m < k}
    <2>1. Cardinality(below(i)) < n BY DEF First
    <2>2. i \in Nat /\ j \in Nat /\ ids \subseteq Nat BY <1>1 DEF First
    <2>3. below(j) \subseteq below(i) /\ below(i) \subseteq ids BY <1>3, <2>2
    <2>4. IsFiniteSet(below(i)) BY <1>2, <2>3, FS_Subset
    <2>5. Cardinality(below(j)) <= Cardinality(below(i)) BY <2>3, <2>4, FS_Subset
    <2>6. Cardinality(below(i)) \in Nat /\ Cardinality(below(j)) \in Nat
      BY <2>3, <2>4, FS_Subset, FS_CardinalityType
    <2> HIDE DEF below
    <2>7. Cardinality(below(j)) < n BY <2>1, <2>5, <2>6
    <2> USE DEF below
    <2> QED BY <2>7 DEF First
  <1> QED BY <1>3 DEF First

LEMMA SyncStartInv == ASSUME QueueInv, NEW s \in Sync, SyncStart(s) PROVE QueueInv'
  <1>1. PendingTypeOK BY DEF QueueInv
  <1>2. /\ sync[s].at = "idle"
        /\ mishaps' = mishaps \cup If(\E r \in Sync : sync[r].at # "idle", {"reordered", "repeated"})
        /\ UNCHANGED <<rows, liked, posted, bans, banned, call, faults, wanted>>
    BY DEF SyncStart
  <1>3. PICK n \in {Batch, Len(rows)} :
          sync' = [sync EXCEPT ![s] = [at |-> "execute",
                                       todo |-> [i \in First(n, PendingRows) |-> rows[i]]]]
    BY DEF SyncStart
  <1>4. n \in Nat BY <1>1, Parts, PendingActionsAssumption DEF PendingActionsAssumption
  <1> DEFINE ids == First(n, PendingRows)
             todo == [i \in ids |-> rows[i]]
  <1>5. ids \in SUBSET DOMAIN rows
        /\ \A i \in ids : /\ rows[i].status = "pending"
                         /\ \A j \in DOMAIN rows : j < i /\ rows[j].status = "pending" => j \in ids
    <2>1. PendingRows \in SUBSET DOMAIN rows BY DEF PendingRows
    <2>2. /\ ids \subseteq PendingRows
          /\ \A i \in ids : \A j \in PendingRows : j < i => j \in ids
      BY <1>1, <1>4, <2>1, FirstRows
    <2> QED BY <2>2 DEF PendingRows
  <1> HIDE DEF ids
  <1>6. todo \in [ids -> Row] BY <1>1, <1>5, Parts
  <1>7. sync' = [sync EXCEPT ![s] = [at |-> "execute", todo |-> todo]] BY <1>3 DEF ids
  <1>8. \A i \in ids : todo[i] = rows[i] OBVIOUS
  <1> HIDE DEF todo
  <1>9. /\ sync' \in [Sync -> [at : {"idle", "execute", "save"},
                               todo : UNION {[is -> Row] : is \in SUBSET DOMAIN rows}]]
        /\ sync'[s].at = "execute" /\ sync'[s].todo = todo /\ DOMAIN sync'[s].todo = ids
        /\ \A r \in Sync : r # s => sync'[r] = sync[r]
    BY <1>1, <1>5, <1>6, <1>7, RunBecomes
  <1>10. mishaps \subseteq mishaps' /\ mishaps' \subseteq {"reordered", "repeated", "dropped"}
         /\ ("reordered" \notin mishaps' \/ "repeated" \notin mishaps'
               => \A r \in Sync : sync[r].at = "idle")
    BY <1>1, <1>2 DEF If, PendingTypeOK
  <1>11. PendingTypeOK' BY <1>1, <1>2, <1>9, <1>10 DEF PendingTypeOK
  <1>12. RowsOK' /\ CallsOK' BY <1>2 DEF QueueInv, RowsOK, CallsOK
  <1>13. RunsOK'
    BY <1>2, <1>5, <1>8, <1>9 DEF QueueInv, RowsOK, RunsOK, IsTurn
  <1>14. ASSUME \A r \in Sync : sync[r].at = "idle"
         PROVE /\ Alone' /\ \A r \in Sync : r # s => DOMAIN sync'[r].todo = {}
               /\ \A r \in Sync : DOMAIN sync[r].todo = {}
    <2>1. \A r \in Sync : DOMAIN sync[r].todo = {} BY <1>14 DEF QueueInv, RunsOK
    <2> QED BY <1>9, <1>14, <2>1 DEF Alone
  <1>15. OrderOK'
    <2> SUFFICES ASSUME "reordered" \notin mishaps' PROVE (Alone /\ HeldInOrder /\ LastIsWanted)'
      BY DEF OrderOK
    <2>1. Alone /\ HeldInOrder /\ LastIsWanted BY <1>10 DEF QueueInv, OrderOK
    <2>2. \A i : PendingLike(i)' <=> PendingLike(i) BY <1>2 DEF PendingLike
    <2>3. LastIsWanted' BY <1>2, <2>1, <2>2 DEF LastIsWanted
    <2>4. HeldInOrder'
      BY <1>2, <1>5, <1>8, <1>9, <1>10, <1>14, <2>2 DEF HeldInOrder, HeldLike, PendingLike
    <2> QED BY <1>10, <1>14, <2>3, <2>4
  <1>16. PostsOK'
    <2> SUFFICES ASSUME "repeated" \notin mishaps' PROVE (Alone /\ OneRowEach /\ NotYetPosted)'
      BY DEF PostsOK
    <2>1. Alone /\ OneRowEach /\ NotYetPosted BY <1>10 DEF QueueInv, PostsOK
    <2>2. \A b \in Call : \A i \in DOMAIN rows : Names(i, b)' <=> Names(i, b)
      BY <1>2, <1>8, <1>9, <1>10, <1>14 DEF Names
    <2>3. OneRowEach' BY <1>2, <2>1, <2>2 DEF OneRowEach
    <2>4. \A b \in Call : \A i \in DOMAIN rows :
             HasBody(rows[i], b) /\ rows[i].status = "pending" => posted[b] = 0
      BY <1>10, <2>1 DEF NotYetPosted, Executed
    <2>5. NotYetPosted' BY <1>2, <1>5, <1>8, <1>9, <1>10, <1>14, <2>4 DEF NotYetPosted
    <2> QED BY <1>10, <1>14, <2>3, <2>5
  <1>17. KeptOK'
    <2> SUFFICES ASSUME "dropped" \notin mishaps' PROVE (AcceptedIsKept /\ CopiesAgree)'
      BY DEF KeptOK
    <2>1. AcceptedIsKept /\ CopiesAgree BY <1>10 DEF QueueInv, KeptOK
    <2>2. AcceptedIsKept' BY <1>2, <2>1 DEF AcceptedIsKept, Queued
    <2>3. CopiesAgree' BY <1>2, <1>5, <1>8, <1>9, <2>1 DEF CopiesAgree, HasBody
    <2> QED BY <2>2, <2>3
  <1> QED BY <1>11, <1>12, <1>13, <1>15, <1>16, <1>17 DEF QueueInv

(* An action was carried out, or an attempt at it failed: the copy becomes row.*)
LEMMA ExecutedInv ==
    ASSUME QueueInv, NEW s \in Sync, NEW i \in DOMAIN sync[s].todo, NEW row \in Row,
           sync[s].at = "execute", IsTurn(s, i), NowSave(s, i, row), Unsettled(row),
           row.kind = sync[s].todo[i].kind, row.body = sync[s].todo[i].body,
           \/ /\ Apply(row.kind, row.body) /\ UNCHANGED mishaps /\ row.status = "done"
           \/ /\ "reordered" \in mishaps'
              /\ \/ Apply(row.kind, row.body) /\ "repeated" \in mishaps'
                 \/ UNCHANGED <<liked, posted>>
              /\ row.status = "pending" \/ "dropped" \in mishaps',
           faults' \in 0..MaxFaults, UNCHANGED <<rows, bans, banned, call, wanted>>,
           mishaps \subseteq mishaps', mishaps' \subseteq {"reordered", "repeated", "dropped"}
    PROVE QueueInv'
  <1>1. PendingTypeOK BY DEF QueueInv
  <1>2. /\ sync' \in [Sync -> [at : {"idle", "execute", "save"},
                               todo : UNION {[is -> Row] : is \in SUBSET DOMAIN rows}]]
        /\ sync'[s].at = "save" /\ DOMAIN sync'[s].todo = DOMAIN sync[s].todo
        /\ sync'[s].todo[i] = row
        /\ \A j \in DOMAIN sync[s].todo : j # i => sync'[s].todo[j] = sync[s].todo[j]
        /\ \A r \in Sync : r # s => sync'[r] = sync[r]
    BY <1>1, RunAwaitsSave
  <1>3. row.kind \in Kinds /\ row.body \in Call BY DEF Row
  <1>4. /\ liked' \in BOOLEAN /\ posted' \in [Call -> 0..2]
        /\ \A d \in Call : posted[d] > 0 => posted'[d] > 0
        /\ \A d \in Call : ~(row.kind = "create" /\ row.body = d) /\ posted[d] = 0 => posted'[d] = 0
    <2>1. CASE Apply(row.kind, row.body)
      <3>1. /\ liked' \in BOOLEAN /\ posted' \in [Call -> 0..2]
            /\ row.kind \in Likes => posted' = posted
            /\ \A d \in Call : posted'[d] >= posted[d] /\ (d # row.body => posted'[d] = posted[d])
        BY <1>1, <1>3, <2>1, Applied
      <3>2. row.kind \in Likes \/ row.kind = "create" BY <1>3 DEF Kinds
      <3>3. \A d \in Call : posted[d] \in 0..2 /\ posted'[d] \in 0..2 BY <1>1, <3>1 DEF PendingTypeOK
      <3> QED BY <3>1, <3>2, <3>3
    <2>2. CASE UNCHANGED <<liked, posted>> BY <1>1, <2>2 DEF PendingTypeOK
    <2> QED BY <2>1, <2>2
  <1>5. PendingTypeOK' BY <1>1, <1>2, <1>4 DEF PendingTypeOK
  <1>6. \A r \in Sync, j \in DOMAIN rows : IsTurn(r, j)' <=> IsTurn(r, j)
    BY <1>2 DEF IsTurn
  <1>7. \A r \in Sync : DOMAIN sync[r].todo \subseteq DOMAIN rows BY <1>1, Parts
  <1>8. RowsOK' /\ CallsOK' BY DEF QueueInv, RowsOK, CallsOK
  <1>9. RunsOK'
    <2>1. ASSUME NEW r \in Sync
          PROVE /\ sync'[r].at = "idle" => DOMAIN sync'[r].todo = {}
                /\ \A j \in DOMAIN sync'[r].todo :
                      /\ sync'[r].todo[j].kind = rows[j].kind
                      /\ Unsettled(sync'[r].todo[j])
                      /\ sync'[r].todo[j].status # "pending" => sync'[r].at = "save" /\ IsTurn(r, j)'
      <3>1. CASE r # s BY <1>2, <1>6, <1>7, <3>1 DEF QueueInv, RunsOK
      <3>2. CASE r = s BY <1>2, <1>6, <1>7, <3>2 DEF QueueInv, RunsOK
      <3> QED BY <3>1, <3>2
    <2> QED BY <2>1 DEF RunsOK
  <1>10. Alone => Alone' BY <1>2 DEF Alone
  <1>11. OrderOK'
    <2> SUFFICES ASSUME "reordered" \notin mishaps' PROVE (Alone /\ HeldInOrder /\ LastIsWanted)'
      BY DEF OrderOK
    <2>1. Alone /\ HeldInOrder /\ LastIsWanted BY DEF QueueInv, OrderOK
    <2>2. Apply(row.kind, row.body) /\ row.status = "done" OBVIOUS
    <2>3. /\ row.kind \in Likes => liked' = (row.kind = "like")
          /\ row.kind = "create" => liked' = liked
      BY <1>1, <1>3, <2>2, Applied
    <2>4. \A j : PendingLike(j)' <=> PendingLike(j) BY DEF PendingLike
    <2>5. i \in DOMAIN rows /\ row.kind = rows[i].kind BY <1>7 DEF QueueInv, RunsOK
    <2>6. row.kind \in Likes => PendingLike(i)
      BY <2>1, <2>5 DEF HeldInOrder, HeldLike
    <2>7. LastIsWanted'
      <3>1. CASE row.kind \in Likes BY <2>1, <2>4, <2>5, <2>6, <3>1 DEF LastIsWanted
      <3>2. CASE row.kind \notin Likes BY <1>3, <2>1, <2>3, <2>4, <3>2 DEF LastIsWanted, Kinds
      <3> QED BY <3>1, <3>2
    <2>8. \A r \in Sync, j \in DOMAIN rows : HeldLike(r, j)' <=> HeldLike(r, j)
      BY <1>2, <2>5, ZenonT(60) DEF HeldLike
    <2>9. \A r \in Sync : r # s => sync[r].at = "idle" /\ DOMAIN sync[r].todo = {}
      BY <2>1 DEF Alone, QueueInv, RunsOK
    <2>10. HeldInOrder'
      <3>1. ASSUME NEW r \in Sync, NEW j \in DOMAIN rows, HeldLike(r, j)
            PROVE /\ PendingLike(j)
                  /\ \A m \in DOMAIN rows : m < j /\ PendingLike(m) => m \in DOMAIN sync'[r].todo
                  /\ sync'[r].at = "save" /\ IsTurn(r, j) =>
                        sync'[r].todo[j].status = "done" /\ liked' = (rows[j].kind = "like")
        <4>1. r = s BY <2>9, <3>1 DEF HeldLike
        <4>2. /\ PendingLike(j)
              /\ \A m \in DOMAIN rows : m < j /\ PendingLike(m) => m \in DOMAIN sync'[r].todo
          BY <1>2, <2>1, <3>1, <4>1 DEF HeldInOrder
        <4>3. IsTurn(s, j) => j = i
          <5>1. i \in Nat /\ j \in Nat BY <1>1, <1>7, Parts
          <5> QED BY <5>1 DEF IsTurn
        <4> QED BY <1>2, <2>2, <2>3, <2>5, <3>1, <4>1, <4>2, <4>3 DEF PendingLike
      <3> QED BY <1>6, <2>4, <2>8, <3>1 DEF HeldInOrder
    <2> QED BY <1>10, <2>1, <2>7, <2>10
  <1>12. PostsOK'
    <2> SUFFICES ASSUME "repeated" \notin mishaps' PROVE (Alone /\ OneRowEach /\ NotYetPosted)'
      BY DEF PostsOK
    <2>1. Alone /\ OneRowEach /\ NotYetPosted BY DEF QueueInv, PostsOK
    <2>2. \A r \in Sync, j \in DOMAIN rows, b \in Call :
             j \in DOMAIN sync'[r].todo =>
                /\ j \in DOMAIN sync[r].todo
                /\ HasBody(sync'[r].todo[j], b) <=> HasBody(sync[r].todo[j], b)
      BY <1>2 DEF HasBody
    <2>3. \A b \in Call : \A j \in DOMAIN rows : Names(j, b)' => Names(j, b)
      BY <2>2 DEF Names
    <2>4. sync[s].todo[i].status = "pending" BY DEF QueueInv, RunsOK
    <2>5. \A b \in Call : HasBody(row, b) => posted[b] = 0 /\ Names(i, b) /\ i \in DOMAIN rows
      BY <1>7, <2>1, <2>4 DEF NotYetPosted, HasBody, Names
    <2>6. \A b \in Call : posted'[b] = posted[b] \/ (HasBody(row, b) /\ posted'[b] < 2 /\ row.status = "done")
      <3>1. CASE Apply(row.kind, row.body) /\ row.status = "done"
        <4>1. /\ row.kind \in Likes => posted' = posted
              /\ posted[row.body] = 0 => posted'[row.body] < 2
              /\ \A d \in Call : d # row.body => posted'[d] = posted[d]
          BY <1>1, <1>3, <3>1, Applied
        <4>2. row.kind \in Likes \/ row.kind = "create" BY <1>3 DEF Kinds
        <4> QED BY <2>5, <3>1, <4>1, <4>2 DEF HasBody
      <3>2. CASE UNCHANGED <<liked, posted>> BY <3>2
      <3> QED BY <3>1, <3>2
    <2>7. OneRowEach'
      <3>1. \A b \in Call : \A j \in DOMAIN rows : Names(j, b)' =>
               call[b].at = "ok" /\ \A m \in DOMAIN rows : Names(m, b)' => j = m
        BY <2>1, <2>3 DEF OneRowEach
      <3>2. ASSUME NEW d \in Call
            PROVE posted'[d] < 2 /\ (call[d].at \notin {"ok", "error"} => posted'[d] = 0)
        BY <2>1, <2>5, <2>6 DEF OneRowEach
      <3> QED BY <3>1, <3>2 DEF OneRowEach
    <2>8. NotYetPosted'
      <3>1. ASSUME NEW b \in Call, NEW j \in DOMAIN rows,
                   HasBody(rows[j], b), rows[j].status = "pending", posted'[b] # 0
            PROVE \E r \in Sync : Executed(r, j, b)'
        <4>1. CASE posted'[b] = posted[b]
          <5>1. PICK r \in Sync : Executed(r, j, b) BY <2>1, <3>1, <4>1 DEF NotYetPosted
          <5>2. r # s BY <5>1 DEF Executed
          <5> QED BY <1>2, <1>6, <5>1, <5>2 DEF Executed
        <4>2. CASE HasBody(row, b) /\ row.status = "done"
          <5>1. j = i BY <2>1, <2>5, <3>1, <4>2 DEF OneRowEach, Names
          <5> QED BY <1>2, <1>6, <4>2, <5>1 DEF Executed
        <4> QED BY <2>6, <4>1, <4>2
      <3>2. ASSUME NEW b \in Call, NEW r \in Sync, NEW j \in DOMAIN sync'[r].todo,
                   HasBody(sync'[r].todo[j], b), sync'[r].todo[j].status = "pending"
            PROVE posted'[b] = 0
        <4>1. j \in DOMAIN sync[r].todo /\ j \in DOMAIN rows /\ HasBody(sync[r].todo[j], b)
          BY <1>2, <1>7, <2>2, <3>2
        <4>2. sync[r].todo[j].status = "pending"
          BY <1>2, <2>4, <3>2, <4>1
        <4>3. posted[b] = 0 BY <2>1, <4>1, <4>2 DEF NotYetPosted
        <4>4. ASSUME HasBody(row, b), row.status = "done" PROVE FALSE
          <5>1. Names(j, b) BY <4>1 DEF Names
          <5>2. j = i BY <2>1, <2>5, <4>1, <4>4, <5>1 DEF OneRowEach
          <5>3. r # s BY <1>2, <3>2, <4>4, <5>2
          <5>4. sync[r].at = "idle" BY <2>1, <5>3 DEF Alone
          <5> QED BY <4>1, <5>4 DEF QueueInv, RunsOK
        <4> QED BY <2>6, <4>3, <4>4
      <3> QED BY <3>1, <3>2 DEF NotYetPosted
    <2> QED BY <1>10, <2>1, <2>7, <2>8
  <1>13. KeptOK'
    <2> SUFFICES ASSUME "dropped" \notin mishaps' PROVE (AcceptedIsKept /\ CopiesAgree)'
      BY DEF KeptOK
    <2>1. AcceptedIsKept /\ CopiesAgree BY DEF QueueInv, KeptOK
    <2>2. AcceptedIsKept' BY <1>4, <2>1 DEF AcceptedIsKept, Queued
    <2>3. \A b \in Call : HasBody(row, b) /\ row.status # "pending" => posted'[b] > 0
      <3>1. row.status # "pending" => Apply(row.kind, row.body) OBVIOUS
      <3>2. Apply(row.kind, row.body) /\ row.kind = "create" => posted'[row.body] > 0
        BY <1>1, <1>3, Applied
      <3> QED BY <3>1, <3>2 DEF HasBody
    <2>4. CopiesAgree'
      <3>1. ASSUME NEW r \in Sync, NEW j \in DOMAIN sync'[r].todo, NEW b \in Call,
                   HasBody(sync'[r].todo[j], b)
            PROVE rows[j].body = b /\ (sync'[r].todo[j].status # "pending" => posted'[b] > 0)
        <4>1. CASE r = s /\ j = i
          BY <1>2, <2>1, <2>3, <3>1, <4>1 DEF CopiesAgree, HasBody
        <4>2. CASE ~(r = s /\ j = i)
          <5>1. j \in DOMAIN sync[r].todo /\ sync'[r].todo[j] = sync[r].todo[j] BY <1>2, <4>2
          <5> QED BY <1>4, <2>1, <3>1, <5>1 DEF CopiesAgree
        <4> QED BY <4>1, <4>2
      <3> QED BY <3>1 DEF CopiesAgree
    <2> QED BY <2>2, <2>4
  <1> QED BY <1>5, <1>8, <1>9, <1>11, <1>12, <1>13 DEF QueueInv

LEMMA SyncExecuteInv ==
    ASSUME QueueInv, NEW s \in Sync, NEW i \in DOMAIN rows, SyncExecute(s, i) PROVE QueueInv'
  <1> DEFINE action == sync[s].todo[i]
             again == Attempt(action)
             done == [action EXCEPT !.status = "done"]
  <1>1. PendingTypeOK BY DEF QueueInv
  <1>2. sync[s].at = "execute" /\ IsTurn(s, i) /\ i \in DOMAIN sync[s].todo
        /\ UNCHANGED <<rows, bans, banned, call, wanted>>
    BY DEF SyncExecute, IsTurn
  <1>3. action \in Row /\ action.status = "pending" /\ action.retry < MaxRetries
    BY <1>1, <1>2, Parts DEF QueueInv, RunsOK, Unsettled
  <1>4. /\ done \in Row /\ done.kind = action.kind /\ done.body = action.body
        /\ done.status = "done" /\ Unsettled(done)
    BY <1>3 DEF Row, Unsettled
  <1>5. /\ again \in Row /\ again.kind = action.kind /\ again.body = action.body
        /\ again.status \in {"pending", "failed"} /\ Unsettled(again)
    <2>1. action.retry \in Nat /\ action.retry + 1 \in 0..MaxRetries
      BY <1>3, Values DEF Row
    <2>2. CASE action.retry + 1 >= MaxRetries
      <3>1. again = [action EXCEPT !.retry = action.retry + 1, !.status = "failed"]
        BY <2>2 DEF Attempt
      <3> QED BY <1>3, <2>1, <3>1 DEF Row, Unsettled
    <2>3. CASE ~(action.retry + 1 >= MaxRetries)
      <3>1. again = [action EXCEPT !.retry = action.retry + 1, !.status = "pending"]
        BY <1>3, <2>3 DEF Attempt
      <3>2. action.retry + 1 < MaxRetries BY <2>1, <2>3, Values
      <3>3. /\ again \in Row /\ again.kind = action.kind /\ again.body = action.body
            /\ again.status = "pending" /\ again.retry = action.retry + 1
        BY <1>3, <2>1, <3>1 DEF Row
      <3> QED BY <3>2, <3>3 DEF Unsettled
    <2> QED BY <2>2, <2>3
  <1>6. mishaps \subseteq {"reordered", "repeated", "dropped"} /\ faults \in 0..MaxFaults
    BY <1>1 DEF PendingTypeOK
  <1>7. CASE banned /\ SyncEnds(s) /\ UNCHANGED <<liked, posted, faults, mishaps>>
    BY <1>2, <1>6, <1>7, SyncEndsInv
  <1>8. CASE /\ ~banned /\ Apply(action.kind, action.body) /\ NowSave(s, i, done)
             /\ UNCHANGED <<faults, mishaps>>
    <2> HIDE DEF done
    <2> QED BY <1>2, <1>4, <1>6, <1>8, ExecutedInv
  <1>9. CASE /\ ~banned /\ NowSave(s, i, again)
             /\ \E lost \in BOOLEAN :
                   /\ IF lost THEN Apply(action.kind, action.body) /\ Fault
                              ELSE UNCHANGED <<liked, posted, faults>>
                   /\ mishaps' = mishaps \cup {"reordered"} \cup If(lost, {"repeated"})
                                   \cup If(again.status = "failed", {"dropped"})
    <2>1. \/ Apply(action.kind, action.body) /\ Fault /\ "repeated" \in mishaps'
          \/ UNCHANGED <<liked, posted, faults>>
      BY <1>9 DEF If
    <2>2. /\ "reordered" \in mishaps' /\ mishaps \subseteq mishaps'
          /\ mishaps' \subseteq {"reordered", "repeated", "dropped"}
          /\ again.status = "failed" => "dropped" \in mishaps'
      BY <1>6, <1>9 DEF If
    <2>3. faults' \in 0..MaxFaults BY <1>6, <2>1, Values DEF Fault
    <2>4. again.status = "pending" \/ "dropped" \in mishaps' BY <1>5, <2>2
    <2>5. \/ Apply(again.kind, again.body) /\ "repeated" \in mishaps'
          \/ UNCHANGED <<liked, posted>>
      BY <1>5, <2>1
    <2> HIDE DEF again
    <2> QED BY <1>2, <1>5, <1>9, <2>2, <2>3, <2>4, <2>5, ExecutedInv
  <1> HIDE DEF done, again, action
  <1> QED BY <1>7, <1>8, <1>9 DEF SyncExecute, action, again, done

LEMMA SyncSaveInv ==
    ASSUME QueueInv, NEW s \in Sync, NEW i \in DOMAIN rows, SyncSave(s, i) PROVE QueueInv'
  <1> DEFINE row == sync[s].todo[i]
             left == DOMAIN sync[s].todo \ {i}
             todo == [j \in left |-> sync[s].todo[j]]
             at == IF left = {} THEN "idle" ELSE "execute"
  <1>1. PendingTypeOK BY DEF QueueInv
  <1>2. sync[s].at = "save" /\ IsTurn(s, i) /\ i \in DOMAIN sync[s].todo
        /\ UNCHANGED <<liked, posted, bans, banned, call, wanted>>
    BY DEF SyncSave, IsTurn
  <1>3. mishaps \subseteq {"reordered", "repeated", "dropped"} /\ faults \in 0..MaxFaults
    BY <1>1 DEF PendingTypeOK
  <1>4. CASE Fault /\ SyncEnds(s) /\ mishaps' = mishaps \cup {"repeated"} /\ UNCHANGED rows
    <2>1. faults' \in 0..MaxFaults BY <1>3, <1>4, Values DEF Fault
    <2>2. mishaps \subseteq mishaps' /\ mishaps' \subseteq {"reordered", "repeated", "dropped"}
          /\ "repeated" \in mishaps'
      BY <1>3, <1>4
    <2> QED BY <1>2, <1>4, <2>1, <2>2, SyncEndsInv
  <1>5. CASE /\ rows' = [rows EXCEPT ![i] = row]
             /\ sync' = [sync EXCEPT ![s] = [at |-> at, todo |-> todo]]
             /\ UNCHANGED <<faults, mishaps>>
    <2>1. row \in Row /\ DOMAIN sync[s].todo \subseteq DOMAIN rows /\ DOMAIN rows \subseteq Nat
          /\ (\A r \in Sync : DOMAIN sync[r].todo \subseteq DOMAIN rows)
          /\ sync[s].todo \in [DOMAIN sync[s].todo -> Row]
      BY <1>1, <1>2, Parts
    <2>2. /\ rows' \in Seq(Row) /\ DOMAIN rows' = DOMAIN rows /\ rows'[i] = row
          /\ \A j \in DOMAIN rows : j # i => rows'[j] = rows[j]
      BY <1>1, <1>5, <2>1, RowSaved
    <2>3. todo \in [left -> Row] /\ left \in SUBSET DOMAIN rows /\ at \in {"idle", "execute", "save"}
          /\ at \in {"idle", "execute"} /\ (at = "idle" <=> left = {})
          /\ \A j \in left : todo[j] = sync[s].todo[j]
      BY <2>1
    <2> HIDE DEF todo, at
    <2>4. /\ sync' \in [Sync -> [at : {"idle", "execute", "save"},
                                 todo : UNION {[is -> Row] : is \in SUBSET DOMAIN rows}]]
          /\ sync'[s].at = at /\ sync'[s].todo = todo /\ DOMAIN sync'[s].todo = left
          /\ \A r \in Sync : r # s => sync'[r] = sync[r]
      BY <1>1, <1>5, <2>3, RunBecomes
    <2>5. PendingTypeOK' BY <1>1, <1>2, <1>5, <2>2, <2>4 DEF PendingTypeOK
    <2>6. /\ row.kind = rows[i].kind /\ Unsettled(row)
          /\ \A j \in left : /\ sync[s].todo[j].kind = rows[j].kind
                            /\ Unsettled(sync[s].todo[j]) /\ sync[s].todo[j].status = "pending"
      <3>1. \A j \in left : ~IsTurn(s, j) BY <1>2, <2>1 DEF IsTurn
      <3> QED BY <1>2, <3>1 DEF QueueInv, RunsOK
    <2>7. RowsOK' BY <2>2, <2>6 DEF QueueInv, RowsOK
    <2>8. RunsOK'
      <3>1. ASSUME NEW r \in Sync
            PROVE /\ sync'[r].at = "idle" => DOMAIN sync'[r].todo = {}
                  /\ \A j \in DOMAIN sync'[r].todo :
                        /\ sync'[r].todo[j].kind = rows'[j].kind
                        /\ Unsettled(sync'[r].todo[j])
                        /\ sync'[r].todo[j].status # "pending" => sync'[r].at = "save" /\ IsTurn(r, j)'
        <4>1. CASE r = s BY <2>2, <2>3, <2>4, <2>6, <4>1
        <4>2. CASE r # s
          <5>1. sync'[r] = sync[r] BY <2>4, <4>2
          <5> QED BY <2>1, <2>2, <2>6, <5>1 DEF QueueInv, RunsOK, IsTurn
        <4> QED BY <4>1, <4>2
      <3> QED BY <3>1 DEF RunsOK
    <2>9. CallsOK' BY <1>2, <2>2, <2>6 DEF QueueInv, CallsOK
    <2>10. Alone => Alone' BY <1>2, <2>4 DEF Alone
    <2>11. ASSUME Alone PROVE \A r \in Sync : r # s => sync[r].at = "idle" /\ DOMAIN sync[r].todo = {}
      BY <1>2, <2>11 DEF Alone, QueueInv, RunsOK
    <2>12. OrderOK'
      <3> SUFFICES ASSUME "reordered" \notin mishaps' PROVE (Alone /\ HeldInOrder /\ LastIsWanted)'
        BY DEF OrderOK
      <3>1. Alone /\ HeldInOrder /\ LastIsWanted BY <1>5 DEF QueueInv, OrderOK
      <3>2. \A r \in Sync : r # s => DOMAIN sync'[r].todo = {} BY <2>4, <2>11, <3>1
      <3>3. \A j : j # i => (PendingLike(j)' <=> PendingLike(j)) BY <2>2 DEF PendingLike
      <3>4. CASE rows[i].kind \notin Likes
        <4>1. \A j : PendingLike(j)' <=> PendingLike(j)
          BY <2>2, <2>6, <3>3, <3>4 DEF PendingLike
        <4>2. \A j \in DOMAIN rows : rows'[j].kind = rows[j].kind BY <2>2, <2>6
        <4>3. LastIsWanted' BY <1>2, <2>2, <3>1, <4>1, <4>2 DEF LastIsWanted
        <4>4. ASSUME NEW j \in DOMAIN rows, j \in left, sync[s].todo[j].kind \in Likes
              PROVE PendingLike(j) /\ \A m \in DOMAIN rows : m < j /\ PendingLike(m) => m \in left
          <5>1. /\ PendingLike(j)
                /\ \A m \in DOMAIN rows : m < j /\ PendingLike(m) => m \in DOMAIN sync[s].todo
            BY <3>1, <4>4 DEF HeldInOrder, HeldLike
          <5>2. ~PendingLike(i) BY <3>4 DEF PendingLike
          <5> QED BY <5>1, <5>2
        <4>5. HeldInOrder' BY <2>2, <2>3, <2>4, <3>2, <4>1, <4>4 DEF HeldInOrder, HeldLike
        <4> QED BY <2>10, <3>1, <4>3, <4>5
      <3>5. CASE rows[i].kind \in Likes
        <4>1. /\ HeldLike(s, i) /\ PendingLike(i)
              /\ \A j \in DOMAIN rows : j < i /\ PendingLike(j) => j \in DOMAIN sync[s].todo
              /\ row.status = "done" /\ liked = (rows[i].kind = "like")
          BY <1>2, <2>6, <3>1, <3>5 DEF HeldInOrder, HeldLike
        <4>2. ~PendingLike(i)' BY <2>2, <4>1 DEF PendingLike
        <4>3. \A j \in DOMAIN rows : PendingLike(j)' => j > i
          BY <1>2, <2>1, <3>3, <4>1, <4>2 DEF IsTurn
        <4>4. LastIsWanted'
          <5>1. ASSUME NEW j \in DOMAIN rows, PendingLike(j)', \A m \in DOMAIN rows : PendingLike(m)' => m <= j
                PROVE wanted = (rows'[j].kind = "like")
            <6>1. j > i /\ PendingLike(j) /\ rows'[j] = rows[j] BY <2>1, <2>2, <3>3, <4>2, <4>3, <5>1
            <6>2. \A m \in DOMAIN rows : PendingLike(m) => m <= j BY <2>1, <3>3, <5>1, <6>1
            <6> QED BY <3>1, <6>1, <6>2 DEF LastIsWanted
          <5>2. ASSUME \A j \in DOMAIN rows : ~PendingLike(j)' PROVE liked = wanted
            <6>1. \A j \in DOMAIN rows : PendingLike(j) => j <= i BY <2>1, <3>3, <5>2
            <6> QED BY <3>1, <4>1, <6>1 DEF LastIsWanted
          <5> QED BY <1>2, <2>2, <5>1, <5>2 DEF LastIsWanted
        <4>5. ASSUME NEW j \in DOMAIN rows, j \in left, sync[s].todo[j].kind \in Likes
              PROVE PendingLike(j)' /\ \A m \in DOMAIN rows : m < j /\ PendingLike(m)' => m \in left
          <5>1. /\ PendingLike(j)
                /\ \A m \in DOMAIN rows : m < j /\ PendingLike(m) => m \in DOMAIN sync[s].todo
            BY <3>1, <4>5 DEF HeldInOrder, HeldLike
          <5>2. j # i BY <4>5
          <5> QED BY <3>3, <4>2, <5>1, <5>2
        <4>6. HeldInOrder' BY <2>2, <2>3, <2>4, <3>2, <4>5 DEF HeldInOrder, HeldLike
        <4> QED BY <2>10, <3>1, <4>4, <4>6
      <3> QED BY <3>4, <3>5
    <2>13. PostsOK'
      <3> SUFFICES ASSUME "repeated" \notin mishaps' PROVE (Alone /\ OneRowEach /\ NotYetPosted)'
        BY DEF PostsOK
      <3>1. Alone /\ OneRowEach /\ NotYetPosted BY <1>5 DEF QueueInv, PostsOK
      <3>2. \A r \in Sync : r # s => DOMAIN sync'[r].todo = {} BY <2>4, <2>11, <3>1
      <3>3. \A b \in Call : \A j \in DOMAIN rows : Names(j, b)' => Names(j, b)
        BY <1>2, <2>2, <2>3, <2>4, <3>2 DEF Names
      <3>4. OneRowEach' BY <1>2, <2>2, <3>1, <3>3 DEF OneRowEach
      <3>5. NotYetPosted'
        <4>1. ASSUME NEW b \in Call, NEW j \in DOMAIN rows,
                     HasBody(rows'[j], b), rows'[j].status = "pending"
              PROVE posted[b] = 0
          <5>1. CASE j = i BY <1>2, <2>2, <3>1, <4>1, <5>1 DEF NotYetPosted
          <5>2. CASE j # i
            <6>1. \A r \in Sync : ~Executed(r, j, b)
              <7>1. ~IsTurn(s, j) BY <1>2, <2>1, <5>2 DEF IsTurn
              <7> QED BY <2>11, <3>1, <7>1 DEF Executed
            <6> QED BY <2>2, <3>1, <4>1, <5>2, <6>1 DEF NotYetPosted
          <5> QED BY <5>1, <5>2
        <4>2. ASSUME NEW b \in Call, NEW r \in Sync, NEW j \in DOMAIN sync'[r].todo,
                     HasBody(sync'[r].todo[j], b), sync'[r].todo[j].status = "pending"
              PROVE posted[b] = 0
          <5>1. r = s BY <3>2, <4>2
          <5> QED BY <2>3, <2>4, <3>1, <4>2, <5>1 DEF NotYetPosted
        <4> QED BY <1>2, <2>2, <4>1, <4>2 DEF NotYetPosted
      <3> QED BY <2>10, <3>1, <3>4, <3>5
    <2>14. KeptOK'
      <3> SUFFICES ASSUME "dropped" \notin mishaps' PROVE (AcceptedIsKept /\ CopiesAgree)'
        BY DEF KeptOK
      <3>1. AcceptedIsKept /\ CopiesAgree BY <1>5 DEF QueueInv, KeptOK
      <3>2. \A b \in Call : HasBody(rows[i], b) => HasBody(row, b) /\ row.body = b
        <4>1. row.body \in Call BY <2>1 DEF Row
        <4>2. HasBody(row, row.body) => rows[i].body = row.body
          BY <1>2, <3>1, <4>1 DEF CopiesAgree
        <4> QED BY <2>6, <4>2 DEF HasBody
      <3>3. \A b \in Call : HasBody(row, b) /\ row.status # "pending" => posted[b] > 0
        BY <1>2, <3>1 DEF CopiesAgree
      <3>4. \A c \in Call : Queued(c) => posted[c] > 0 \/ Queued(c)'
        <4>1. ASSUME NEW c \in Call, NEW j \in DOMAIN rows, HasBody(rows[j], c), rows[j].status = "pending"
              PROVE posted[c] > 0 \/ Queued(c)'
          <5>1. CASE j # i BY <2>2, <4>1, <5>1 DEF Queued
          <5>2. CASE j = i /\ row.status = "pending" BY <2>2, <3>2, <4>1, <5>2 DEF Queued
          <5>3. CASE j = i /\ row.status # "pending" BY <3>2, <3>3, <4>1, <5>3
          <5> QED BY <5>1, <5>2, <5>3
        <4> QED BY <4>1 DEF Queued
      <3>5. AcceptedIsKept' BY <1>2, <3>1, <3>4 DEF AcceptedIsKept
      <3>6. CopiesAgree'
        <4>1. ASSUME NEW r \in Sync, NEW j \in DOMAIN sync'[r].todo, NEW b \in Call,
                     HasBody(sync'[r].todo[j], b)
              PROVE rows'[j].body = b /\ (sync'[r].todo[j].status # "pending" => posted[b] > 0)
          <5>1. j \in DOMAIN sync[r].todo /\ sync'[r].todo[j] = sync[r].todo[j] /\ j \in DOMAIN rows
            BY <2>1, <2>3, <2>4
          <5>2. rows[j].body = b /\ (sync'[r].todo[j].status # "pending" => posted[b] > 0)
            BY <3>1, <4>1, <5>1 DEF CopiesAgree
          <5>3. HasBody(rows[j], b)
            BY <4>1, <5>1, <5>2 DEF QueueInv, RunsOK, HasBody
          <5> QED BY <2>2, <3>2, <5>1, <5>2, <5>3
        <4> QED BY <1>2, <4>1 DEF CopiesAgree
      <3> QED BY <3>5, <3>6
    <2> QED BY <2>5, <2>7, <2>8, <2>9, <2>12, <2>13, <2>14 DEF QueueInv
  <1> HIDE DEF row, todo, at, left
  <1> QED BY <1>4, <1>5 DEF SyncSave, row, todo, at, left

-------------------------------------------------------------------------------
(* The theorems about the queue.                                               *)

LEMMA QueueNext == ASSUME QueueInv, PendingNext PROVE QueueInv'
  <1>1. CASE Ban \/ Unban BY <1>1, BanInv
  <1>2. CASE Restart BY <1>2, RestartInv
  <1>3. ASSUME NEW c \in Call, EnqueueFind(c) \/ EnqueueSave(c) \/ EnqueueInsert(c) PROVE QueueInv'
    BY <1>3, EnqueueFindInv, EnqueueSaveInv, EnqueueInsertInv
  <1>4. ASSUME NEW c \in Call, NEW kind \in Kinds, Request(c, kind) PROVE QueueInv'
    BY <1>4, RequestInv
  <1>5. ASSUME NEW s \in Sync, SyncStart(s) PROVE QueueInv' BY <1>5, SyncStartInv
  <1>6. ASSUME NEW s \in Sync, NEW i \in DOMAIN rows, SyncExecute(s, i) \/ SyncSave(s, i) PROVE QueueInv'
    BY <1>6, SyncExecuteInv, SyncSaveInv
  <1> QED BY <1>1, <1>2, <1>3, <1>4, <1>5, <1>6 DEF PendingNext

LEMMA QueueStutter == ASSUME QueueInv, UNCHANGED queueVars PROVE QueueInv'
  <1>1. UNCHANGED <<rows, liked, posted, bans, banned, call, sync, faults, wanted, mishaps>>
    BY DEF queueVars
  <1>2. PendingTypeOK' BY <1>1 DEF QueueInv, PendingTypeOK
  <1>3. CallsOK' BY <1>1 DEF QueueInv, CallsOK
  <1>4. SameAnswers BY <1>1 DEF SameAnswers
  <1> QED BY <1>1, <1>2, <1>3, <1>4, Unmoved DEF QueueInv

(* What the invariant says once nothing is queued.                             *)
LEMMA QueueConclusions == ASSUME QueueInv PROVE LastRequestStands /\ PostedOnce
  <1>1. ASSUME QueueAtRest PROVE \A i \in DOMAIN rows : rows[i].status # "pending"
    <2>1. PendingTypeOK BY DEF QueueInv
    <2> QED BY <1>1, <2>1, Parts DEF QueueAtRest, Outstanding, Row
  <1>2. LastRequestStands
    BY <1>1 DEF LastRequestStands, QueueInv, OrderOK, LastIsWanted, PendingLike
  <1>3. PostedOnce
    BY <1>1 DEF PostedOnce, QueueInv, PostsOK, OneRowEach, KeptOK, AcceptedIsKept, Queued
  <1> QED BY <1>2, <1>3

(* The invariant of the queue holds whether or not a cache is kept over it.    *)
THEOREM QueueInvariant == PendingSpec => []QueueInv
  <1>1. PendingInit => QueueInv BY QueueInit
  <1>2. QueueInv /\ [PendingNext]_queueVars => QueueInv' BY QueueNext, QueueStutter
  <1> QED BY <1>1, <1>2, PTL DEF PendingSpec

-------------------------------------------------------------------------------
(* The cache over the queue.                                                   *)

(* A step of the queue forgets no fault and no overlap of runs.                *)
LEMMA MishapsStay ==
    ASSUME QueueInv, PendingNext
    PROVE faults' >= faults /\ mishaps \subseteq mishaps'
  <1>1. faults \in Nat BY Values DEF QueueInv, PendingTypeOK
  <1>2. CASE Ban \/ Unban BY <1>1, <1>2 DEF Ban, Unban
  <1>3. CASE Restart BY <1>1, <1>3 DEF Restart, Fault
  <1>4. ASSUME NEW c \in Call, EnqueueFind(c) \/ EnqueueSave(c) \/ EnqueueInsert(c)
        PROVE faults' >= faults /\ mishaps \subseteq mishaps'
    <2>1. UNCHANGED faults BY <1>4 DEF EnqueueFind, EnqueueSave, EnqueueInsert
    <2>2. mishaps \subseteq mishaps' BY <1>4 DEF EnqueueFind, EnqueueSave, EnqueueInsert
    <2> QED BY <1>1, <2>1, <2>2
  <1>5. ASSUME NEW c \in Call, NEW kind \in Kinds, Request(c, kind)
        PROVE faults' >= faults /\ mishaps \subseteq mishaps'
    <2>1. faults' = faults \/ faults' = faults + 1 BY <1>5 DEF Request, Fault
    <2>2. mishaps \subseteq mishaps' BY <1>5 DEF Request
    <2> QED BY <1>1, <2>1, <2>2
  <1>6. ASSUME NEW s \in Sync, SyncStart(s) PROVE faults' >= faults /\ mishaps \subseteq mishaps'
    <2>1. UNCHANGED faults BY <1>6 DEF SyncStart
    <2>2. mishaps \subseteq mishaps' BY <1>6 DEF SyncStart
    <2> QED BY <1>1, <2>1, <2>2
  <1>7. ASSUME NEW s \in Sync, NEW i \in DOMAIN rows, SyncExecute(s, i) \/ SyncSave(s, i)
        PROVE faults' >= faults /\ mishaps \subseteq mishaps'
    <2>1. faults' = faults \/ faults' = faults + 1 BY <1>7 DEF SyncExecute, SyncSave, Fault
    <2>2. mishaps \subseteq mishaps' BY <1>7 DEF SyncExecute, SyncSave
    <2> QED BY <1>1, <2>1, <2>2
  <1> QED BY <1>2, <1>3, <1>4, <1>5, <1>6, <1>7 DEF PendingNext

LEMMA QueueStepInv == ASSUME QueueInv, CacheInv, QueueStep PROVE QueueInv' /\ CacheInv'
  <1>1. QueueInv' BY QueueNext DEF QueueStep
  <1>2. /\ Untouched \/ Watched'
        /\ clear' = [c \in Call |-> BeginClear(c)]
        /\ stale' = (stale \/ (data # "none" /\ liked' # liked /\ ~\E c \in Call : Answers(c)))
        /\ UNCHANGED <<data, indexed, reader>>
    BY DEF QueueStep, Observed
  <1>3. clear \in [Call -> {"none", "answer", "index"}] BY DEF CacheInv, TypeOK
  <1>4. \A c \in Call : BeginClear(c) \in {"none", "answer", "index"} BY <1>3 DEF BeginClear
  <1>5. stale' \in BOOLEAN BY <1>2 DEF CacheInv, TypeOK
  <1>6. TypeOK' BY <1>1, <1>2, <1>4, <1>5 DEF CacheInv, TypeOK, QueueInv
  <1>7. ASSUME data # "none", ~stale' PROVE ~stale /\ indexed
    BY <1>2, <1>7 DEF CacheInv
  <1>8. ASSUME data # "none", ~stale', \A c \in Call : clear'[c] = "none" PROVE data = Answer(liked')
    <2>1. Watched' BY <1>2, <1>8 DEF Untouched
    <2>2. Watched
      <3>1. faults' >= faults /\ mishaps \subseteq mishaps' BY MishapsStay DEF QueueStep
      <3>2. faults \in Nat BY Values DEF QueueInv, PendingTypeOK
      <3> QED BY <2>1, <3>1, <3>2 DEF Watched
    <2>3. \A c \in Call : BeginClear(c) = "none" BY <1>2, <1>8
    <2>4. \A c \in Call : ~Answers(c) /\ clear[c] = "none"
      <3>1. ASSUME NEW c \in Call PROVE ~Answers(c) /\ clear[c] = "none"
        <4>1. CASE Answers(c) BY <2>2, <2>3, <4>1 DEF BeginClear
        <4>2. CASE ~Answers(c) BY <2>3, <4>2 DEF BeginClear
        <4> QED BY <4>1, <4>2
      <3> QED BY <3>1
    <2>5. liked' = liked BY <1>2, <1>8, <2>4
    <2> QED BY <1>7, <1>8, <2>4, <2>5 DEF CacheInv, CachedAnswerIsCurrent
  <1>9. CachedAnswerIsCurrent' BY <1>2, <1>8 DEF CachedAnswerIsCurrent, Answer
  <1> QED BY <1>1, <1>2, <1>6, <1>7, <1>9 DEF CacheInv

LEMMA CacheStepInv ==
    ASSUME QueueInv, CacheInv, NEW c \in Call, IsPlaylistLiked \/ Set \/ Expire \/ ClearDelete(c)
    PROVE QueueInv' /\ CacheInv'
  <1>1. UNCHANGED queueVars BY DEF IsPlaylistLiked, Set, Expire, ClearDelete
  <1>2. QueueInv' BY <1>1, QueueStutter
  <1>3. liked' = liked BY <1>1 DEF queueVars
  <1>4. PendingTypeOK' BY <1>2 DEF QueueInv
  <1>5. /\ data \in {"none", "liked", "not liked"} /\ reader \in {"none", "liked", "not liked"}
        /\ clear \in [Call -> {"none", "answer", "index"}] /\ indexed \in BOOLEAN /\ stale \in BOOLEAN
    BY DEF CacheInv, TypeOK
  <1>6. CASE IsPlaylistLiked
    <2>1. reader' \in {"none", "liked", "not liked"} BY <1>6 DEF IsPlaylistLiked, Answer
    <2>2. UNCHANGED <<data, indexed, clear, stale>> BY <1>6 DEF IsPlaylistLiked
    <2>3. TypeOK' BY <1>4, <1>5, <2>1, <2>2 DEF TypeOK
    <2> QED BY <1>2, <1>3, <2>2, <2>3 DEF CacheInv, CachedAnswerIsCurrent, Answer
  <1>7. CASE Set
    <2>1. /\ data' = reader /\ indexed' = TRUE /\ reader' = "none"
          /\ stale' = (reader # Answer(liked)) /\ clear' = clear
      BY <1>7 DEF Set
    <2>2. stale' \in BOOLEAN BY <2>1
    <2>3. TypeOK' BY <1>4, <1>5, <2>1, <2>2 DEF TypeOK
    <2> QED BY <1>2, <1>3, <2>1, <2>3 DEF CacheInv, CachedAnswerIsCurrent, Answer
  <1>8. CASE Expire
    <2>1. data' = "none" /\ stale' = FALSE /\ UNCHANGED <<indexed, reader, clear>>
      BY <1>8 DEF Expire
    <2>2. stale' \in BOOLEAN BY <2>1
    <2>3. TypeOK' BY <1>4, <1>5, <2>1, <2>2 DEF TypeOK
    <2> QED BY <1>2, <2>1, <2>3 DEF CacheInv, CachedAnswerIsCurrent
  <1>9. CASE ClearDelete(c)
    <2>1. /\ clear' = [clear EXCEPT ![c] = "none"] /\ indexed' = FALSE /\ reader' = reader
          /\ data' = IF clear[c] = "answer" THEN "none" ELSE data
          /\ stale' = (clear[c] = "index" /\ (stale \/ indexed) /\ data # "none")
          /\ clear[c] # "none"
      BY <1>9 DEF ClearDelete
    <2>2. clear' \in [Call -> {"none", "answer", "index"}] /\ clear[c] \in {"answer", "index"}
      BY <1>5, <2>1
    <2>3. stale' \in BOOLEAN BY <2>1
    <2>4. TypeOK' BY <1>4, <1>5, <2>1, <2>2, <2>3 DEF TypeOK
    <2>5. data' # "none" => stale'
      BY <2>1, <2>2 DEF CacheInv
    <2> QED BY <1>2, <2>4, <2>5 DEF CacheInv, CachedAnswerIsCurrent
  <1> QED BY <1>6, <1>7, <1>8, <1>9

LEMMA CacheNext ==
    ASSUME QueueInv /\ CacheInv, [Next]_vars PROVE (QueueInv /\ CacheInv)'
  <1>1. CASE QueueStep BY <1>1, QueueStepInv
  <1>2. CASE IsPlaylistLiked \/ Set \/ Expire BY <1>2, CacheStepInv, Values
  <1>3. ASSUME NEW c \in Call, ClearDelete(c) PROVE (QueueInv /\ CacheInv)'
    BY <1>3, CacheStepInv
  <1>4. CASE UNCHANGED vars
    <2>1. UNCHANGED queueVars /\ UNCHANGED <<data, indexed, reader, clear, stale>>
      BY <1>4 DEF vars, cacheVars
    <2>2. QueueInv' BY <2>1, QueueStutter
    <2>3. liked' = liked BY <2>1 DEF queueVars
    <2>4. TypeOK' BY <2>1, <2>2 DEF CacheInv, TypeOK, QueueInv
    <2> QED BY <2>1, <2>2, <2>3, <2>4 DEF CacheInv, CachedAnswerIsCurrent, Answer
  <1> QED BY <1>1, <1>2, <1>3, <1>4 DEF Next

LEMMA CacheInit == Init => QueueInv /\ CacheInv
  <1> SUFFICES ASSUME Init PROVE QueueInv /\ CacheInv OBVIOUS
  <1>1. QueueInv BY QueueInit DEF Init
  <1>2. data = "none" /\ reader = "none" /\ clear \in [Call -> {"none", "answer", "index"}] BY DEF Init
  <1>3. indexed \in BOOLEAN /\ stale \in BOOLEAN BY DEF Init
  <1>4. TypeOK BY <1>1, <1>2, <1>3 DEF TypeOK, QueueInv
  <1> QED BY <1>1, <1>2, <1>4 DEF CacheInv, CachedAnswerIsCurrent

(* The variables of the queue and of the cache keep their types.               *)
THEOREM TypeCorrect == Spec => []TypeOK
  <1>1. QueueInv /\ CacheInv => TypeOK BY DEF CacheInv
  <1> QED BY <1>1, CacheInit, CacheNext, PTL DEF Spec

(* The user's last word on a like stands once the queue is at rest, unless a   *)
(* step of enqueue or syncAll reordered the actions.                           *)
THEOREM TheLastWordStands == Spec => []LastRequestStands
  <1>1. QueueInv /\ CacheInv => LastRequestStands BY QueueConclusions
  <1> QED BY <1>1, CacheInit, CacheNext, PTL DEF Spec

(* An accepted creation has been posted exactly once when the queue is at      *)
(* rest, unless one was repeated or dropped.                                   *)
THEOREM CreationsArePostedOnce == Spec => []PostedOnce
  <1>1. QueueInv /\ CacheInv => PostedOnce BY QueueConclusions
  <1> QED BY <1>1, CacheInit, CacheNext, PTL DEF Spec

(* The interceptor's cached answer is SoundCloud's once every clearing of the  *)
(* index has ended, unless it went stale in one of the ways stale names.       *)
THEOREM CachedAnswersAreCurrent == Spec => []CachedAnswerIsCurrent
  <1>1. QueueInv /\ CacheInv => CachedAnswerIsCurrent BY DEF CacheInv
  <1> QED BY <1>1, CacheInit, CacheNext, PTL DEF Spec

-------------------------------------------------------------------------------
(* What settles an action in the end: the runs end, and what a run has tried   *)
(* is not undone by the others.                                                *)

(* What a step may make of a run: it reads its rows, tries the one it has come *)
(* to, saves it, or ends before its time.                                      *)
RunReads(s) ==
    /\ sync[s].at = "idle" /\ sync'[s].at = "execute" /\ DOMAIN sync'[s].todo # {}
    /\ \A i \in DOMAIN sync'[s].todo : i \in PendingRows /\ sync'[s].todo[i] = rows[i]
RunTries(s, i) ==
    /\ sync[s].at = "execute" /\ sync'[s].at = "save" /\ IsTurn(s, i)
    /\ DOMAIN sync'[s].todo = DOMAIN sync[s].todo
    /\ \A j \in DOMAIN sync[s].todo : j # i => sync'[s].todo[j] = sync[s].todo[j]
    /\ \/ sync'[s].todo[i].status = "done" /\ sync'[s].todo[i].retry = sync[s].todo[i].retry
       \/ sync'[s].todo[i].retry = sync[s].todo[i].retry + 1
RunSaves(s, i) ==
    /\ sync[s].at = "save" /\ IsTurn(s, i)
    /\ DOMAIN rows' = DOMAIN rows /\ rows'[i] = sync[s].todo[i]
    /\ \A j \in DOMAIN rows : j # i => rows'[j] = rows[j]
    /\ DOMAIN sync'[s].todo = DOMAIN sync[s].todo \ {i}
    /\ \A j \in DOMAIN sync'[s].todo : sync'[s].todo[j] = sync[s].todo[j]
    /\ sync'[s].at = IF DOMAIN sync[s].todo \ {i} = {} THEN "idle" ELSE "execute"
RunEnds(s) == sync'[s].at = "idle" /\ DOMAIN sync'[s].todo = {}

TakenOver(i) == \E c \in Call : call[c].id = i /\ EnqueueSave(c)

RunMoves(s) ==
    \/ RunReads(s) /\ UNCHANGED rows
    \/ \E i \in DOMAIN sync[s].todo : (RunTries(s, i) /\ UNCHANGED rows) \/ RunSaves(s, i)
    \/ RunEnds(s) /\ UNCHANGED rows

LEMMA LeastOf == ASSUME NEW S \in SUBSET Nat, S # {} PROVE \E i \in S : \A j \in S : i <= j
  <1> DEFINE less == {ss \in Nat \X Nat : ss[1] < ss[2]}
  <1>1. IsWellFoundedOn(less, Nat) BY NatLessThanWellFounded, Zenon DEF OpToRel
  <1>2. \A i, j \in Nat : <<j, i>> \notin less => ~(j < i) OBVIOUS
  <1> HIDE DEF less
  <1>3. PICK i \in S : \A j \in S : <<j, i>> \notin less BY <1>1, WFMin
  <1>4. \A j \in S : ~(j < i) BY <1>2, <1>3
  <1> QED BY <1>4

LEMMA ReadsRows == ASSUME QueueInv, NEW s \in Sync, SyncStart(s) PROVE RunReads(s)
  <1>1. PendingTypeOK BY DEF QueueInv
  <1>2. PICK n \in {Batch, Len(rows)} :
          sync' = [sync EXCEPT ![s] = [at |-> "execute",
                                       todo |-> [i \in First(n, PendingRows) |-> rows[i]]]]
    BY ZenonT(30) DEF SyncStart
  <1>3. /\ sync[s].at = "idle" /\ PendingRows # {} /\ PendingRows \subseteq DOMAIN rows
        /\ DOMAIN rows = 1..Len(rows) /\ Len(rows) \in Nat
    BY <1>1, Parts DEF SyncStart, PendingRows
  <1>4. n \in Nat /\ n > 0
    <2>1. Batch \in Nat \ {0} BY PendingActionsAssumption DEF PendingActionsAssumption
    <2>2. PICK i : i \in 1..Len(rows) BY <1>3
    <2>3. CASE n = Batch BY <2>1, <2>3
    <2>4. CASE n = Len(rows) BY <1>3, <2>2, <2>4
    <2> QED BY <2>3, <2>4
  <1>5. PICK i \in PendingRows : \A j \in PendingRows : i <= j
    BY <1>3, LeastOf
  <1>6. i \in First(n, PendingRows)
    <2>1. {j \in PendingRows : j < i} = {} BY <1>3, <1>5
    <2>2. Cardinality({j \in PendingRows : j < i}) = 0 BY <2>1, FS_EmptySet
    <2> QED BY <1>4, <2>2 DEF First
  <1>7. First(n, PendingRows) \subseteq PendingRows BY DEF First
  <1> DEFINE ids == First(n, PendingRows)
             todo == [j \in ids |-> rows[j]]
  <1>8. todo \in [ids -> Row] /\ ids \in SUBSET DOMAIN rows BY <1>1, <1>3, <1>7, Parts
  <1>9. ids # {} /\ \A j \in ids : j \in PendingRows /\ todo[j] = rows[j] BY <1>6, <1>7
  <1>10. sync' = [sync EXCEPT ![s] = [at |-> "execute", todo |-> todo]] BY <1>2
  <1> HIDE DEF todo, ids
  <1>11. sync'[s].at = "execute" /\ sync'[s].todo = todo /\ DOMAIN sync'[s].todo = ids
    BY <1>1, <1>8, <1>10, RunBecomes
  <1> QED BY <1>3, <1>9, <1>11 DEF RunReads

LEMMA TriesRow ==
    ASSUME QueueInv, NEW s \in Sync, NEW i \in DOMAIN rows, SyncExecute(s, i)
    PROVE UNCHANGED rows /\ (RunTries(s, i) \/ RunEnds(s))
  <1> DEFINE action == sync[s].todo[i]
             again == Attempt(action)
             done == [action EXCEPT !.status = "done"]
  <1>1. PendingTypeOK BY DEF QueueInv
  <1>2. sync[s].at = "execute" /\ IsTurn(s, i) /\ i \in DOMAIN sync[s].todo /\ UNCHANGED rows
    BY DEF SyncExecute, IsTurn
  <1>3. action \in Row /\ action.status = "pending" /\ action.retry < MaxRetries
    BY <1>1, <1>2, Parts DEF QueueInv, RunsOK, Unsettled
  <1>4. done \in Row /\ done.status = "done" /\ done.retry = action.retry
    BY <1>3 DEF Row
  <1>5. again \in Row /\ again.retry = action.retry + 1
    <2>1. action.retry \in Nat /\ action.retry + 1 \in 0..MaxRetries
      BY <1>3, Values DEF Row
    <2>2. PICK st \in {"pending", "failed"} :
             again = [action EXCEPT !.retry = action.retry + 1, !.status = st]
      BY <1>3 DEF Attempt
    <2> QED BY <1>3, <2>1, <2>2 DEF Row
  <1>6. SyncEnds(s) \/ NowSave(s, i, done) \/ NowSave(s, i, again) BY DEF SyncExecute
  <1> HIDE DEF again, done, action
  <1>7. CASE SyncEnds(s)
    BY <1>1, <1>2, <1>7, RunStops DEF RunEnds
  <1> QED BY <1>1, <1>2, <1>4, <1>5, <1>6, <1>7, RunAwaitsSave DEF RunTries, action

LEMMA SavesRow ==
    ASSUME QueueInv, NEW s \in Sync, NEW i \in DOMAIN rows, SyncSave(s, i)
    PROVE \/ RunSaves(s, i) /\ UNCHANGED <<faults, mishaps>>
          \/ RunEnds(s) /\ UNCHANGED rows /\ faults' # faults
  <1> DEFINE row == sync[s].todo[i]
             left == DOMAIN sync[s].todo \ {i}
             todo == [j \in left |-> sync[s].todo[j]]
             at == IF left = {} THEN "idle" ELSE "execute"
  <1>1. PendingTypeOK BY DEF QueueInv
  <1>2. sync[s].at = "save" /\ IsTurn(s, i) /\ i \in DOMAIN sync[s].todo
    BY DEF SyncSave, IsTurn
  <1>3. CASE Fault /\ SyncEnds(s) /\ UNCHANGED rows
    <2>1. faults' # faults BY <1>1, <1>3, Values DEF Fault, PendingTypeOK
    <2> QED BY <1>1, <1>3, <2>1, RunStops DEF RunEnds
  <1>4. CASE /\ rows' = [rows EXCEPT ![i] = row]
             /\ sync' = [sync EXCEPT ![s] = [at |-> at, todo |-> todo]]
             /\ UNCHANGED <<faults, mishaps>>
    <2>1. row \in Row /\ DOMAIN sync[s].todo \subseteq DOMAIN rows
          /\ sync[s].todo \in [DOMAIN sync[s].todo -> Row]
      BY <1>1, <1>2, Parts
    <2>2. /\ DOMAIN rows' = DOMAIN rows /\ rows'[i] = row
          /\ \A j \in DOMAIN rows : j # i => rows'[j] = rows[j]
      BY <1>1, <1>4, <2>1, RowSaved
    <2>3. todo \in [left -> Row] /\ left \in SUBSET DOMAIN rows /\ at \in {"idle", "execute", "save"}
          /\ \A j \in left : todo[j] = sync[s].todo[j]
      BY <2>1
    <2> HIDE DEF todo, at
    <2>4. sync'[s].at = at /\ sync'[s].todo = todo /\ DOMAIN sync'[s].todo = left
      BY <1>1, <1>4, <2>3, RunBecomes
    <2> USE DEF at
    <2> QED BY <1>2, <1>4, <2>2, <2>3, <2>4 DEF RunSaves
  <1> HIDE DEF row, todo, at, left
  <1> QED BY <1>3, <1>4 DEF SyncSave, row, todo, at, left

(* A step of the queue changes one run at most, unless the backend restarts,   *)
(* and the rows by a save, an insertion or a call that takes one over.         *)
QueueMoves ==
    \/ UNCHANGED sync /\ \A i \in DOMAIN rows : rows'[i] = rows[i]
    \/ UNCHANGED sync /\ \E c \in Call : /\ EnqueueSave(c) /\ rows'[call[c].id].status = "pending"
                                         /\ \A i \in DOMAIN rows : i # call[c].id => rows'[i] = rows[i]
    \/ UNCHANGED rows /\ \A s \in Sync : RunEnds(s)
    \/ \E s \in Sync : RunMoves(s) /\ \A r \in Sync : r # s => sync'[r] = sync[r]

LEMMA QueueSteps == ASSUME QueueInv, PendingNext PROVE QueueMoves /\ DOMAIN rows \subseteq DOMAIN rows'
  <1>1. PendingTypeOK BY DEF QueueInv
  <1>2. CASE Ban \/ Unban BY <1>2 DEF Ban, Unban, QueueMoves
  <1>3. CASE Restart
    <2>1. \A s \in Sync : sync'[s] = [at |-> "idle", todo |-> <<>>] BY <1>3 DEF Restart
    <2>2. DOMAIN <<>> = {} OBVIOUS
    <2>3. \A s \in Sync : RunEnds(s) BY <2>1, <2>2 DEF RunEnds
    <2> QED BY <1>3, <2>3 DEF Restart, QueueMoves
  <1>4. ASSUME NEW c \in Call, NEW kind \in Kinds, Request(c, kind)
        PROVE QueueMoves /\ DOMAIN rows \subseteq DOMAIN rows'
    BY <1>4 DEF Request, QueueMoves
  <1>5. ASSUME NEW c \in Call, EnqueueFind(c)
        PROVE QueueMoves /\ DOMAIN rows \subseteq DOMAIN rows'
    <2>1. UNCHANGED <<rows, sync>> BY <1>5, Zenon DEF EnqueueFind
    <2> QED BY <2>1 DEF QueueMoves
  <1>6. ASSUME NEW c \in Call, EnqueueInsert(c)
        PROVE QueueMoves /\ DOMAIN rows \subseteq DOMAIN rows'
    <2> DEFINE row == [kind |-> call[c].kind, body |-> c, status |-> "pending", retry |-> 0]
    <2>1. rows' = Append(rows, row) /\ UNCHANGED sync BY <1>6 DEF EnqueueInsert
    <2>2. row \in Row BY <1>1, Parts, Values DEF Row
    <2> HIDE DEF row
    <2> QED BY <1>1, <2>1, <2>2, RowInserted DEF QueueMoves
  <1>7. ASSUME NEW c \in Call, EnqueueSave(c)
        PROVE QueueMoves /\ DOMAIN rows \subseteq DOMAIN rows'
    <2> DEFINE body == IF call[c].kind = "create" THEN c ELSE call[c].copy.body
               row == [call[c].copy EXCEPT !.retry = 0, !.body = body]
    <2>1. UNCHANGED sync /\ rows' = [rows EXCEPT ![call[c].id] = row] /\ call[c].at = "save"
      BY <1>7 DEF EnqueueSave
    <2>2. /\ call[c].id \in DOMAIN rows /\ call[c].copy.status = "pending" /\ call[c].copy \in Row
      BY <1>1, <2>1, Parts DEF QueueInv, CallsOK
    <2>3. body \in Call /\ 0 \in 0..MaxRetries BY <2>2, Values DEF Row
    <2> HIDE DEF body
    <2>4. row \in Row /\ row.status = "pending" BY <2>2, <2>3 DEF Row
    <2> HIDE DEF row
    <2> QED BY <1>1, <1>7, <2>1, <2>2, <2>4, RowSaved DEF QueueMoves
  <1>8. ASSUME NEW s \in Sync, SyncStart(s)
        PROVE QueueMoves /\ DOMAIN rows \subseteq DOMAIN rows'
    <2>1. UNCHANGED rows /\ \A r \in Sync : r # s => sync'[r] = sync[r] BY <1>8 DEF SyncStart, PendingTypeOK
    <2> QED BY <1>8, <2>1, ReadsRows DEF QueueMoves, RunMoves
  <1>9. ASSUME NEW s \in Sync, NEW i \in DOMAIN rows, SyncExecute(s, i) \/ SyncSave(s, i)
        PROVE QueueMoves /\ DOMAIN rows \subseteq DOMAIN rows'
    <2>1. \A r \in Sync : r # s => sync'[r] = sync[r]
      <3>1. sync \in [Sync -> [at : {"idle", "execute", "save"},
                                todo : UNION {[is -> Row] : is \in SUBSET DOMAIN rows}]]
        BY <1>1 DEF PendingTypeOK
      <3>2. \E new : sync' = [sync EXCEPT ![s] = new]
        <4>1. CASE SyncExecute(s, i) BY <4>1, Zenon DEF SyncExecute, SyncEnds, NowSave
        <4>2. CASE SyncSave(s, i) BY <4>2, Zenon DEF SyncSave, SyncEnds
        <4> QED BY <1>9, <4>1, <4>2
      <3> QED BY <3>1, <3>2
    <2>2. i \in DOMAIN sync[s].todo BY <1>9 DEF SyncExecute, SyncSave, IsTurn
    <2>3. RunMoves(s) /\ DOMAIN rows' = DOMAIN rows
      BY <1>9, <2>2, TriesRow, SavesRow DEF RunMoves, RunSaves
    <2> QED BY <2>1, <2>3 DEF QueueMoves
  <1> QED BY <1>2, <1>3, <1>4, <1>5, <1>6, <1>7, <1>8, <1>9 DEF PendingNext

LEMMA QueueOrStutter ==
    ASSUME QueueInv, [Next]_vars
    PROVE (PendingNext /\ QueueMoves /\ DOMAIN rows \subseteq DOMAIN rows') \/ UNCHANGED queueVars
  <1>1. CASE QueueStep BY <1>1, QueueSteps DEF QueueStep
  <1>2. CASE IsPlaylistLiked \/ Set \/ Expire \/ (\E c \in Call : ClearDelete(c)) \/ UNCHANGED vars
    BY <1>2 DEF IsPlaylistLiked, Set, Expire, ClearDelete, vars
  <1> QED BY <1>1, <1>2 DEF Next

(* A run that has not ended holds a row, and, while runs have not overlapped   *)
(* nor been cut short, every row it holds is pending still.                    *)
RunsHold == \A s \in Sync : sync[s].at # "idle" => DOMAIN sync[s].todo # {}
HeldIsPending ==
    "repeated" \notin mishaps =>
        \A s \in Sync : \A i \in DOMAIN sync[s].todo : rows[i].status = "pending"
HoldInv == RunsHold /\ HeldIsPending

LEMMA HoldNext == ASSUME QueueInv, HoldInv, [Next]_vars PROVE HoldInv'
  <1>1. CASE UNCHANGED queueVars BY <1>1 DEF queueVars, HoldInv, RunsHold, HeldIsPending
  <1>2. CASE PendingNext /\ QueueMoves
    <2> PendingTypeOK /\ \A s \in Sync : DOMAIN sync[s].todo \subseteq DOMAIN rows
      BY Parts DEF QueueInv
    <2>1. RunsHold /\ mishaps \subseteq mishaps' BY <1>2, MishapsStay DEF HoldInv
    <2>2. ASSUME UNCHANGED sync PROVE RunsHold' BY <2>1, <2>2 DEF RunsHold
    <2>3. CASE UNCHANGED sync /\ \A i \in DOMAIN rows : rows'[i] = rows[i]
      BY <2>1, <2>2, <2>3 DEF HoldInv, HeldIsPending
    <2>4. CASE UNCHANGED sync /\ \E c \in Call :
                  /\ EnqueueSave(c) /\ rows'[call[c].id].status = "pending"
                  /\ \A i \in DOMAIN rows : i # call[c].id => rows'[i] = rows[i]
      BY <2>1, <2>2, <2>4 DEF HoldInv, HeldIsPending
    <2>5. CASE UNCHANGED rows /\ \A s \in Sync : RunEnds(s)
      BY <2>5 DEF RunEnds, HoldInv, RunsHold, HeldIsPending
    <2>6. ASSUME NEW s \in Sync, RunMoves(s), \A r \in Sync : r # s => sync'[r] = sync[r]
          PROVE HoldInv'
      <3>1. sync'[s].at # "idle" => DOMAIN sync'[s].todo # {}
        BY <2>6 DEF RunMoves, RunReads, RunTries, RunSaves, RunEnds
      <3>2. RunsHold' BY <2>1, <2>6, <3>1 DEF RunsHold
      <3>3. ASSUME "repeated" \notin mishaps', NEW r \in Sync, NEW i \in DOMAIN sync'[r].todo
            PROVE rows'[i].status = "pending"
        <4>1. /\ \A q \in Sync : \A j \in DOMAIN sync[q].todo : rows[j].status = "pending"
              /\ Alone
          BY <2>1, <3>3 DEF HoldInv, HeldIsPending, QueueInv, PostsOK
        <4>2. CASE UNCHANGED rows
          <5>1. CASE r = s
            BY <2>6, <3>3, <4>1, <4>2, <5>1
            DEF RunMoves, RunReads, RunTries, RunSaves, RunEnds, PendingRows
          <5>2. CASE r # s BY <2>6, <3>3, <4>1, <4>2, <5>2
          <5> QED BY <5>1, <5>2
        <4>3. ASSUME NEW k \in DOMAIN sync[s].todo, RunSaves(s, k) PROVE rows'[i].status = "pending"
          <5>1. r = s
            <6>1. ASSUME r # s PROVE FALSE
              <7>1. sync[r].at # "idle" /\ sync[s].at # "idle"
                BY <2>6, <3>3, <4>3, <6>1 DEF QueueInv, RunsOK, RunSaves
              <7> QED BY <4>1, <6>1, <7>1 DEF Alone
            <6> QED BY <6>1
          <5>2. i \in DOMAIN sync[s].todo /\ i # k /\ i \in DOMAIN rows BY <3>3, <4>3, <5>1 DEF RunSaves
          <5> QED BY <4>1, <4>3, <5>2 DEF RunSaves
        <4> QED BY <2>6, <4>2, <4>3 DEF RunMoves
      <3> QED BY <3>2, <3>3 DEF HoldInv, HeldIsPending
    <2> QED BY <1>2, <2>3, <2>4, <2>5, <2>6 DEF QueueMoves
  <1> QED BY <1>1, <1>2, QueueOrStutter

LEMMA HoldAlways == Spec => [](QueueInv /\ CacheInv /\ HoldInv)
  <1>1. Init => HoldInv
    <2>1. DOMAIN <<>> = {} OBVIOUS
    <2> QED BY <2>1 DEF Init, PendingInit, HoldInv, RunsHold, HeldIsPending
  <1>2. QueueInv /\ CacheInv /\ HoldInv /\ [Next]_vars => HoldInv' BY HoldNext
  <1> QED BY <1>1, <1>2, CacheInit, CacheNext, PTL DEF Spec

(* The steps a run has still to take: two for each row it holds, the trial and *)
(* the save.                                                                   *)
RunStep(s) == \E i \in DOMAIN rows : SyncExecute(s, i) \/ SyncSave(s, i)
RunLeft(s) ==
    CASE sync[s].at = "execute" -> 2 * Cardinality(DOMAIN sync[s].todo)
      [] sync[s].at = "save" -> 2 * Cardinality(DOMAIN sync[s].todo) - 1
      [] OTHER -> 0

(* A run that has not ended has come to a row, and ends within two steps for   *)
(* each row there is.                                                          *)
RunsGoOn ==
    \A s \in Sync : /\ sync[s].at # "idle" => \E i \in DOMAIN rows : IsTurn(s, i)
                    /\ RunLeft(s) \in 0..(2 * Len(rows))

LEMMA HeldRows ==
    ASSUME QueueInv, NEW s \in Sync
    PROVE /\ IsFiniteSet(DOMAIN sync[s].todo) /\ Cardinality(DOMAIN sync[s].todo) \in 0..Len(rows)
          /\ DOMAIN sync[s].todo # {} => Cardinality(DOMAIN sync[s].todo) > 0
          /\ DOMAIN sync[s].todo # {} => \E i \in DOMAIN rows : IsTurn(s, i)
          /\ sync[s].at \in {"idle", "execute", "save"} /\ Len(rows) \in Nat
  <1>1. PendingTypeOK BY DEF QueueInv
  <1>2. /\ DOMAIN sync[s].todo \subseteq DOMAIN rows /\ DOMAIN rows = 1..Len(rows) /\ Len(rows) \in Nat
        /\ sync[s].at \in {"idle", "execute", "save"}
    BY <1>1, Parts
  <1> DEFINE ids == DOMAIN sync[s].todo
  <1>3. IsFiniteSet(1..Len(rows)) /\ Cardinality(1..Len(rows)) = Len(rows)
    <2>1. Len(rows) \in Nat BY <1>2
    <2>2. Len(rows) \in Int /\ 1 \in Int BY <2>1
    <2>3. IsFiniteSet(1..Len(rows)) BY <2>2, FS_Interval
    <2>4. Cardinality(1..Len(rows)) = IF 1 > Len(rows) THEN 0 ELSE Len(rows) - 1 + 1
      BY <2>2, FS_Interval
    <2> QED BY <2>1, <2>3, <2>4
  <1>4. IsFiniteSet(ids) /\ Cardinality(ids) <= Len(rows) /\ Cardinality(ids) \in Nat
    BY <1>2, <1>3, FS_Subset, FS_CardinalityType
  <1>5. ids # {} => Cardinality(ids) # 0 BY <1>4, FS_EmptySet
  <1>6. ASSUME ids # {} PROVE \E i \in DOMAIN rows : IsTurn(s, i)
    <2>1. PICK i \in ids : \A j \in ids : i <= j BY <1>2, <1>6, LeastOf
    <2> QED BY <1>2, <2>1 DEF IsTurn
  <1> QED BY <1>2, <1>4, <1>5, <1>6

(* A run of the queue never stops short of a row: while it has not ended there *)
(* is a row it has come to, the oldest it holds.                               *)
THEOREM RunsDoNotStall == Spec => []RunsGoOn
  <1>1. QueueInv /\ HoldInv => RunsGoOn
    <2> SUFFICES ASSUME QueueInv, HoldInv, NEW s \in Sync
                 PROVE /\ sync[s].at # "idle" => \E i \in DOMAIN rows : IsTurn(s, i)
                       /\ RunLeft(s) \in 0..(2 * Len(rows))
      BY DEF RunsGoOn
    <2>1. sync[s].at # "idle" => DOMAIN sync[s].todo # {} BY DEF HoldInv, RunsHold
    <2> PICK n, m : n = Cardinality(DOMAIN sync[s].todo) /\ m = Len(rows) OBVIOUS
    <2>2. /\ n \in 0..m /\ m \in Nat /\ sync[s].at \in {"idle", "execute", "save"}
          /\ sync[s].at # "idle" => n > 0
      BY <2>1, HeldRows
    <2>3. RunLeft(s) \in {0, 2 * n, 2 * n - 1} /\ (RunLeft(s) = 2 * n - 1 => sync[s].at = "save")
      BY <2>2 DEF RunLeft
    <2>4. sync[s].at = "idle" => RunLeft(s) = 0 BY DEF RunLeft
    <2>5. RunLeft(s) \in 0..(2 * m) BY <2>2, <2>3, <2>4
    <2> QED BY <2>1, <2>5, HeldRows
  <1> QED BY <1>1, HoldAlways, PTL

RunNearsEnd(s) ==
    /\ RunStep(s) => RunLeft(s)' < RunLeft(s)
    /\ sync[s].at # "idle" => RunLeft(s)' <= RunLeft(s)
RunsNearEnd == \A s \in Sync : RunNearsEnd(s)

Sizes == \A r \in Sync : Cardinality(DOMAIN sync[r].todo) \in Nat

LEMMA SizesLater == QueueInv' => Sizes'
  <1>1. QueueInv => Sizes BY HeldRows DEF Sizes
  <1> QED BY <1>1, PTL

(* What is left of a run before and after one of its moves.                    *)
LEMMA RunLess ==
    ASSUME QueueInv, HoldInv, QueueInv', NEW s \in Sync, sync[s].at # "idle", RunMoves(s)
    PROVE RunLeft(s)' < RunLeft(s)
  <1>1. DOMAIN sync[s].todo # {} BY DEF HoldInv, RunsHold
  <1> PICK n : n = Cardinality(DOMAIN sync[s].todo) OBVIOUS
  <1>2. /\ n \in Nat /\ n > 0 /\ sync[s].at \in {"execute", "save"}
        /\ IsFiniteSet(DOMAIN sync[s].todo)
    BY <1>1, HeldRows
  <1>3. /\ sync[s].at = "execute" => RunLeft(s) = 2 * n
        /\ sync[s].at = "save" => RunLeft(s) = 2 * n - 1
    BY DEF RunLeft
  <1>4. /\ sync'[s].at = "execute" => RunLeft(s)' = 2 * Cardinality(DOMAIN sync'[s].todo)
        /\ sync'[s].at = "save" => RunLeft(s)' = 2 * Cardinality(DOMAIN sync'[s].todo) - 1
        /\ sync'[s].at = "idle" => RunLeft(s)' = 0
    BY DEF RunLeft
  <1>5. CASE RunEnds(s)
    <2>1. RunLeft(s)' = 0 BY <1>4, <1>5 DEF RunEnds
    <2> QED BY <1>2, <1>3, <2>1
  <1>6. ASSUME NEW i, RunTries(s, i) PROVE RunLeft(s)' < RunLeft(s)
    <2>1. RunLeft(s) = 2 * n /\ RunLeft(s)' = 2 * n - 1 BY <1>3, <1>4, <1>6 DEF RunTries
    <2> QED BY <1>2, <2>1
  <1>7. ASSUME NEW i \in DOMAIN sync[s].todo, RunSaves(s, i) PROVE RunLeft(s)' < RunLeft(s)
    <2>1. RunLeft(s) = 2 * n - 1 BY <1>3, <1>7 DEF RunSaves
    <2>2. Cardinality(DOMAIN sync'[s].todo) = n - 1 BY <1>2, <1>7, FS_RemoveElement DEF RunSaves
    <2>3. sync'[s].at \in {"idle", "execute"} BY <1>7 DEF RunSaves
    <2>4. RunLeft(s)' = 0 \/ RunLeft(s)' = 2 * (n - 1) BY <1>4, <2>2, <2>3
    <2> QED BY <1>2, <2>1, <2>4
  <1>8. ~RunReads(s) BY <1>2 DEF RunReads
  <1> QED BY <1>5, <1>6, <1>7, <1>8 DEF RunMoves

(* Every step of a run of the queue, a trial, a save or what cuts it short,    *)
(* brings it nearer to its end, two steps at most for each row it read; no     *)
(* call, ban or other run takes it back, whatever they insert meanwhile.       *)
THEOREM RunsApproachTheirEnd == Spec => [][RunsNearEnd]_vars
  <1>1. QueueInv /\ HoldInv /\ QueueInv' /\ [Next]_vars => RunsNearEnd
    <2> SUFFICES ASSUME QueueInv, HoldInv, QueueInv', [Next]_vars, NEW s \in Sync PROVE RunNearsEnd(s)
      BY DEF RunsNearEnd
    <2>1. ASSUME RunStep(s) PROVE RunLeft(s)' < RunLeft(s)
      <3>1. PICK i \in DOMAIN rows : SyncExecute(s, i) \/ SyncSave(s, i) BY <2>1 DEF RunStep
      <3>2. i \in DOMAIN sync[s].todo /\ sync[s].at # "idle"
        BY <3>1 DEF SyncExecute, SyncSave, IsTurn
      <3>3. RunMoves(s) BY <3>1, <3>2, TriesRow, SavesRow DEF RunMoves
      <3> QED BY <3>2, <3>3, RunLess
    <2>2. ASSUME sync[s].at # "idle" PROVE RunLeft(s)' <= RunLeft(s)
      <3>1. RunLeft(s) \in Nat
        <4> PICK n : n = Cardinality(DOMAIN sync[s].todo) OBVIOUS
        <4>1. n \in Nat /\ n > 0 /\ sync[s].at \in {"execute", "save"}
          BY <2>2, HeldRows DEF HoldInv, RunsHold
        <4>2. RunLeft(s) = 2 * n \/ RunLeft(s) = 2 * n - 1 BY <4>1 DEF RunLeft
        <4> QED BY <4>1, <4>2
      <3>2. ASSUME sync'[s] = sync[s] PROVE RunLeft(s)' <= RunLeft(s)
        <4>1. RunLeft(s)' = RunLeft(s) BY <3>2 DEF RunLeft
        <4> QED BY <3>1, <4>1
      <3>3. ASSUME RunMoves(s) PROVE RunLeft(s)' <= RunLeft(s)
        <4> PICK n : n = RunLeft(s)' OBVIOUS
        <4>1. n < RunLeft(s) BY <2>2, <3>3, RunLess
        <4>2. n \in Int
          <5> PICK k : k = Cardinality(DOMAIN sync'[s].todo) OBVIOUS
          <5>1. k \in Nat BY SizesLater DEF Sizes
          <5>2. n \in {2 * k, 2 * k - 1, 0} BY DEF RunLeft
          <5> QED BY <5>1, <5>2
        <4> QED BY <3>1, <4>1, <4>2
      <3>4. UNCHANGED queueVars => sync'[s] = sync[s] BY DEF queueVars
      <3>5. RunEnds(s) /\ UNCHANGED rows => RunMoves(s) BY DEF RunMoves
      <3> QED BY <3>2, <3>3, <3>4, <3>5, QueueOrStutter DEF QueueMoves
    <2> QED BY <2>1, <2>2 DEF RunNearsEnd
  <1>2. QueueInv /\ HoldInv /\ QueueInv' /\ [Next]_vars => [RunsNearEnd]_vars BY <1>1
  <1> QED BY <1>2, HoldAlways, PTL DEF Spec

(* An action that is settled, done or given up, is not tried again, unless a   *)
(* call takes its row over that it found pending, or two runs overlapped or    *)
(* one was cut short, so that an older copy may be saved over the row.         *)
SettledStays ==
    \A i \in DOMAIN rows :
        rows[i].status # "pending" /\ rows'[i].status = "pending" =>
            TakenOver(i) \/ "repeated" \in mishaps'

(* In every behaviour of queue and cache a settled action stays settled but   *)
(* for those two, a call that takes its row over and a repetition.             *)
THEOREM SettledActionsStay == Spec => [][SettledStays]_vars
  <1>1. QueueInv /\ HoldInv /\ [Next]_vars => SettledStays
    <2> SUFFICES ASSUME QueueInv, HoldInv, [Next]_vars, NEW i \in DOMAIN rows,
                        rows[i].status # "pending", rows'[i].status = "pending",
                        "repeated" \notin mishaps'
                 PROVE TakenOver(i)
      BY DEF SettledStays
    <2>1. PendingNext /\ QueueMoves BY QueueOrStutter DEF queueVars
    <2>2. "repeated" \notin mishaps BY <2>1, MishapsStay
    <2>3. rows'[i] # rows[i] OBVIOUS
    <2>4. ASSUME NEW s \in Sync, NEW k \in DOMAIN sync[s].todo, RunSaves(s, k) PROVE FALSE
      <3>1. rows[k].status = "pending" BY <2>2 DEF HoldInv, HeldIsPending
      <3>2. i # k BY <3>1
      <3> QED BY <2>3, <2>4, <3>2 DEF RunSaves
    <2> QED BY <2>1, <2>3, <2>4 DEF QueueMoves, RunMoves, TakenOver
  <1>2. QueueInv /\ HoldInv /\ [Next]_vars => [SettledStays]_vars BY <1>1
  <1> QED BY <1>2, HoldAlways, PTL DEF Spec

(* Row i and every copy of it that a run holds have at least n attempts, one   *)
(* more if the copy is that of an attempt that failed and is to be saved.      *)
CopyTried(s, i, n) ==
    LET copy == sync[s].todo[i] IN
    /\ copy.retry >= n
    /\ sync[s].at = "save" /\ IsTurn(s, i) /\ copy.status # "done" => copy.retry >= n + 1
TriedAtLeast(i, n) ==
    /\ rows[i].status = "pending" => rows[i].retry >= n
    /\ \A s \in Sync : i \in DOMAIN sync[s].todo => CopyTried(s, i, n)
TriedAgain(i, n) == rows[i].status = "pending" => rows[i].retry >= n + 1

CountsKept ==
    \A i \in DOMAIN rows : \A n \in 0..MaxRetries : TriedAtLeast(i, n) =>
        \/ TakenOver(i)
        \/ /\ TriedAtLeast(i, n)'
           /\ \A s \in Sync : SyncSave(s, i) /\ UNCHANGED faults => TriedAgain(i, n)'

LEMMA SavedCopies ==
    ASSUME QueueInv, NEW s \in Sync, NEW i \in DOMAIN sync[s].todo
    PROVE sync[s].todo[i] \in Row /\ sync[s].todo[i].retry \in Nat /\ i \in DOMAIN rows /\ i \in Nat
  <1>1. sync[s].todo[i] \in Row /\ i \in DOMAIN rows /\ i \in Nat BY Parts DEF QueueInv
  <1>2. sync[s].todo[i].retry \in 0..MaxRetries BY <1>1 DEF Row
  <1> QED BY <1>1, <1>2, Values

LEMMA CopiesKeep ==
    ASSUME QueueInv, NEW s \in Sync, RunMoves(s), NEW i \in DOMAIN rows, NEW n \in Nat,
           TriedAtLeast(i, n), i \in DOMAIN sync'[s].todo
    PROVE CopyTried(s, i, n)'
  <1> DEFINE copy == sync'[s].todo[i]
  <1>1. i \in DOMAIN sync[s].todo => CopyTried(s, i, n) BY DEF TriedAtLeast
  <1>2. CASE RunReads(s)
    <2>1. copy = rows[i] /\ rows[i].status = "pending" /\ sync'[s].at = "execute"
      BY <1>2 DEF RunReads, PendingRows
    <2> QED BY <2>1 DEF TriedAtLeast, CopyTried
  <1>3. ASSUME NEW k \in DOMAIN sync[s].todo, RunSaves(s, k) PROVE CopyTried(s, i, n)'
    <2>1. i \in DOMAIN sync[s].todo /\ copy = sync[s].todo[i] /\ sync'[s].at # "save"
      BY <1>3 DEF RunSaves
    <2> QED BY <1>1, <2>1 DEF CopyTried
  <1>4. ASSUME NEW k \in DOMAIN sync[s].todo, RunTries(s, k) PROVE CopyTried(s, i, n)'
    <2>1. /\ DOMAIN sync'[s].todo = DOMAIN sync[s].todo /\ i \in DOMAIN sync[s].todo
          /\ sync[s].todo[i].retry \in Nat /\ k \in Nat /\ i \in Nat
      BY <1>4, SavedCopies DEF RunTries
    <2>2. sync[s].todo[i].retry >= n BY <1>1, <2>1 DEF CopyTried
    <2>3. CASE k # i
      <3>1. copy = sync[s].todo[i] BY <1>4, <2>1, <2>3 DEF RunTries
      <3>2. ~IsTurn(s, i)' BY <1>4, <2>1, <2>3 DEF RunTries, IsTurn
      <3> QED BY <2>2, <3>1, <3>2 DEF CopyTried
    <2>4. CASE k = i
      <3>1. \/ copy.status = "done" /\ copy.retry = sync[s].todo[i].retry
            \/ copy.retry = sync[s].todo[i].retry + 1
        BY <1>4, <2>4 DEF RunTries
      <3> PICK old : old = sync[s].todo[i].retry OBVIOUS
      <3>2. old \in Nat /\ old >= n BY <2>1, <2>2
      <3>3. (copy.status = "done" /\ copy.retry = old) \/ copy.retry = old + 1 BY <3>1
      <3>4. copy.retry >= n /\ (copy.status # "done" => copy.retry >= n + 1) BY <3>2, <3>3
      <3> QED BY <3>4 DEF CopyTried
    <2> QED BY <2>3, <2>4
  <1>5. ~RunEnds(s) BY DEF RunEnds
  <1> QED BY <1>2, <1>3, <1>4, <1>5 DEF RunMoves

(* No attempt is forgotten: although runs that overlap save over each other's  *)
(* counts, no save brings a row below the least that the row and the copies of *)
(* it had, and each save of a trial leaves the action settled or with one more *)
(* attempt than that.  Only a call that takes the row over starts it again.    *)
(* So the least count rises with the trials, up to MaxRetries, whatever the    *)
(* runs interleave.                                                            *)
THEOREM AttemptsAreNotForgotten == Spec => [][CountsKept]_vars
  <1>1. QueueInv /\ [Next]_vars => CountsKept
    <2> SUFFICES ASSUME QueueInv, [Next]_vars, NEW i \in DOMAIN rows, NEW n \in 0..MaxRetries,
                        TriedAtLeast(i, n), ~TakenOver(i)
                 PROVE /\ TriedAtLeast(i, n)'
                       /\ \A s \in Sync : SyncSave(s, i) /\ UNCHANGED faults => TriedAgain(i, n)'
      BY DEF CountsKept
    <2>1. n \in Nat BY Values
    <2>2. ASSUME NEW s \in Sync, SyncSave(s, i), UNCHANGED faults PROVE TriedAgain(i, n)'
      <3>1. RunSaves(s, i) /\ i \in DOMAIN sync[s].todo BY <2>2, SavesRow DEF SyncSave, IsTurn
      <3>2. CopyTried(s, i, n) BY <3>1 DEF TriedAtLeast
      <3> QED BY <3>1, <3>2 DEF RunSaves, CopyTried, TriedAgain
    <2>3. CASE UNCHANGED queueVars
      <3>1. UNCHANGED <<rows, sync>> BY <2>3 DEF queueVars
      <3>2. TriedAtLeast(i, n)' BY <3>1 DEF TriedAtLeast, CopyTried, IsTurn
      <3> QED BY <2>2, <3>2
    <2>4. CASE PendingNext /\ QueueMoves
      <3>1. rows'[i].status = "pending" => rows'[i].retry >= n
        <4>1. ASSUME NEW s \in Sync, NEW k \in DOMAIN sync[s].todo, RunSaves(s, k)
              PROVE rows'[i].status = "pending" => rows'[i].retry >= n
          <5>1. CASE k = i
            <6>1. CopyTried(s, i, n) /\ rows'[i] = sync[s].todo[i]
              BY <4>1, <5>1 DEF TriedAtLeast, RunSaves
            <6> QED BY <6>1 DEF CopyTried
          <5>2. CASE k # i
            <6>1. rows'[i] = rows[i] BY <4>1, <5>2 DEF RunSaves
            <6> QED BY <6>1 DEF TriedAtLeast
          <5> QED BY <5>1, <5>2
        <4>2. rows'[i] = rows[i] \/ \E s \in Sync : \E k \in DOMAIN sync[s].todo : RunSaves(s, k)
          BY <2>4 DEF QueueMoves, RunMoves, TakenOver
        <4> QED BY <4>1, <4>2 DEF TriedAtLeast
      <3>2. ASSUME NEW s \in Sync, i \in DOMAIN sync'[s].todo PROVE CopyTried(s, i, n)'
        <4>1. CASE sync'[s] = sync[s]
          BY <3>2, <4>1 DEF TriedAtLeast, CopyTried, IsTurn
        <4>2. CASE RunMoves(s) BY <2>1, <3>2, <4>2, CopiesKeep
        <4>3. ~RunEnds(s) BY <3>2 DEF RunEnds
        <4> QED BY <2>4, <4>1, <4>2, <4>3 DEF QueueMoves
      <3> QED BY <2>2, <3>1, <3>2 DEF TriedAtLeast
    <2> QED BY <2>3, <2>4, QueueOrStutter
  <1>2. QueueInv /\ [Next]_vars => [CountsKept]_vars BY <1>1
  <1> QED BY <1>2, HoldAlways, PTL DEF Spec

===============================================================================
