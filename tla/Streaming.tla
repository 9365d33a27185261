------------------------------ MODULE Streaming -------------------------------
(* A request of a listener or of the backend to the streaming service: the     *)
(* storage first, behind a breaker, then one source after the other, and the   *)
(* upload of what was fetched in the background, with its two rows of          *)
(* cdn_tracks.                                                                 *)
(*                                                                             *)
(* Each request may spawn one upload, so both are named by the request; the    *)
(* fresh id an insert draws is that name too.  The storage, the sources and    *)
(* the database are outside: what the sources offer is fixed in a behaviour,   *)
(* the other two fail at most MaxFaults times, refusals not counted.           *)
EXTENDS Naturals, Sequences

CONSTANTS Tracks, Requests,
          Kinds,      \* the kinds of request of this instance
          Threshold,  \* UNAVAILABLE_THRESHOLD
          MaxFaults

ASSUME StreamingAssumption ==
    /\ Kinds \subseteq {"normal", "normalHq", "premium", "premiumHq", "internal"}
    /\ Threshold \in Nat \ {0} /\ MaxFaults \in Nat
    /\ Tracks # {} /\ "none" \notin Requests

VARIABLES req,      \* per request: track, kind, step, sources left, row to verify
          reply,    \* per request: its answer
          up,       \* per request: the step of the upload it spawned
          rows,     \* cdn_tracks: per track and quality, id and status
          stored,   \* tracks whose files the storage has
          vanished, \* tracks whose files it has lost (history)
          offers,   \* what the sources can deliver
          consec,   \* consecutive_unavailable, counted up to Threshold
          open,     \* unavailable_until lies ahead
          faults

vars == <<req, reply, up, rows, stored, vanished, offers, consec, open, faults>>

Qualities == {"hq", "sq"}
Offers == {"oauthHq", "oauthSq", "cookiesHq", "cookiesSq", "anon"}
NoRow == [id |-> "none", status |-> "none"]
ATrack == CHOOSE t \in Tracks : TRUE
NoReq == [track |-> ATrack, kind |-> "normal", at |-> "new", left |-> <<>>,
          row |-> NoRow, q |-> "sq"]
NoReply == [what |-> "none", q |-> "sq"]

\* Mutant: a premium listener's HQ request takes what OAuth has first.
CascadeOauthFirst(kind) ==
    CASE kind \in {"normal", "normalHq"} -> <<"oauth", "anon">>
      [] kind = "premium"   -> <<"oauth", "anon", "cookies">>
      [] kind = "premiumHq" -> <<"oauth", "cookiesHq", "oauthHq", "cookies", "anon">>
      [] kind = "internal"  -> <<"cookiesHq", "cookies", "anon">>

(* The sources a request of each kind tries, in order.                         *)
Cascade(kind) ==
    CASE kind \in {"normal", "normalHq"} -> <<"oauth", "anon">>
      [] kind = "premium"   -> <<"oauth", "anon", "cookies">>
      [] kind = "premiumHq" -> <<"cookiesHq", "oauthHq", "oauth", "cookies", "anon">>
      [] kind = "internal"  -> <<"cookiesHq", "cookies", "anon">>

(* What a source yields: without hq_only it takes its best format first.       *)
Yield(source) ==
    CASE source = "oauth"   -> IF "oauthHq" \in offers THEN {"hq"}
                               ELSE IF "oauthSq" \in offers THEN {"sq"} ELSE {}
      [] source = "cookies" -> IF "cookiesHq" \in offers THEN {"hq"}
                               ELSE IF "cookiesSq" \in offers THEN {"sq"} ELSE {}
      [] source = "anon"    -> IF "anon" \in offers THEN {"sq"} ELSE {}
      [] OTHER              -> IF source \in offers THEN {"hq"} ELSE {}

TypeOK ==
    /\ req \in [Requests -> [track : Tracks, kind : Kinds \cup {"normal"},
                  at : {"new", "find", "verify", "mark", "fetch", "again", "end"},
                  left : Seq({"oauth", "cookies", "anon", "oauthHq", "cookiesHq"}),
                  row : [id : Requests \cup {"none"},
                         status : {"none", "pending", "ok", "error"}],
                  q : Qualities]]
    /\ reply \in [Requests -> [q : Qualities,
                    what : {"none", "redirect", "data", "nostream", "cached"}]]
    /\ up \in [Requests -> {"none", "insertHq", "insertSq", "post", "okHq", "okSq", "okSqOnly",
                            "errorHq", "errorSq", "stored", "end"}]
    /\ rows \in [Tracks \X Qualities -> [id : Requests \cup {"none"},
                    status : {"none", "pending", "ok", "error"}]]
    /\ stored \subseteq Tracks /\ vanished \subseteq Tracks /\ offers \subseteq Offers
    /\ consec \in 0..Threshold /\ open \in BOOLEAN /\ faults \in 0..MaxFaults

Init ==
    /\ req = [r \in Requests |-> NoReq] /\ reply = [r \in Requests |-> NoReply]
    /\ up = [r \in Requests |-> "none"]
    /\ rows = [k \in Tracks \X Qualities |-> NoRow]
    /\ stored = {} /\ vanished = {} /\ offers \in SUBSET Offers
    /\ consec = 0 /\ open = FALSE /\ faults = 0

Fault == faults < MaxFaults /\ faults' = faults + 1
FaultIf(bad) == IF bad THEN Fault ELSE UNCHANGED faults

-------------------------------------------------------------------------------
(* The breaker. *)

MarkAvailable == consec' = 0 /\ open' = FALSE

MarkUnavailable ==
    LET n == IF consec < Threshold THEN consec + 1 ELSE Threshold
    IN consec' = n /\ open' = (open \/ n = Threshold)

(* UNAVAILABLE_COOLDOWN_MS has passed; the count stays.                        *)
Cooldown ==
    /\ open /\ open' = FALSE
    /\ UNCHANGED <<req, reply, up, rows, stored, vanished, offers, consec, faults>>

-------------------------------------------------------------------------------
(* A request, whose session and subscription are in order. *)

Begin(r, t, kind) ==
    /\ req[r].at = "new"
    /\ req' = [req EXCEPT ![r].track = t, ![r].kind = kind, ![r].left = Cascade(kind),
                          ![r].at = IF kind = "internal" THEN "verify" ELSE "find"]
    /\ UNCHANGED <<reply, up, rows, stored, vanished, offers, consec, open, faults>>

Goto(r, at) == req' = [req EXCEPT ![r].at = at]

Answer(r, what, q) ==
    /\ reply' = [reply EXCEPT ![r] = [what |-> what, q |-> q]]
    /\ Goto(r, "end")

(* find_cached_track: the preferred quality, else any that is ok.              *)
OkRows(t) == {q \in Qualities : rows[t, q].status = "ok"}
Cached(t, kind) ==
    LET preferred == OkRows(t) \cap {IF kind \in {"normalHq", "premiumHq"} THEN "hq" ELSE "sq"}
    IN IF preferred # {} THEN preferred ELSE OkRows(t)

(* try_serve up to the HEAD request.                                           *)
Find(r) ==
    LET t == req[r].track IN
    /\ req[r].at = "find"
    /\ \/ /\ ~open
          /\ \E q \in Cached(t, req[r].kind) :
                req' = [req EXCEPT ![r].at = "verify", ![r].q = q, ![r].row = rows[t, q]]
          /\ UNCHANGED faults
       \/ (open \/ OkRows(t) = {}) /\ Goto(r, "fetch") /\ UNCHANGED faults
       \/ Goto(r, "fetch") /\ Fault  \* the database failed
    /\ UNCHANGED <<reply, up, rows, stored, vanished, offers, consec, open>>

(* An update by id reaches the row only if the row still has that id.          *)
UpdateStatus(t, q, id, status) ==
    rows' = [rows EXCEPT ![<<t, q>>] = IF @.id = id THEN [@ EXCEPT !.status = status] ELSE @]

(* The HEAD request: the file is there, it is missing, or the storage does not *)
(* answer.                                                                     *)
Verify(r) ==
    LET t == req[r].track IN
    /\ req[r].at = "verify" /\ req[r].kind # "internal"
    /\ \/ /\ ~open /\ t \in stored
          /\ MarkAvailable /\ Answer(r, "redirect", req[r].q)
          /\ UNCHANGED faults
       \/ /\ ~open /\ t \notin stored
          /\ MarkAvailable /\ Goto(r, "mark")
          /\ UNCHANGED <<reply, faults>>
       \/ /\ ~open /\ Fault /\ MarkUnavailable /\ Goto(r, "fetch")
          /\ UNCHANGED reply
       \/ /\ open /\ Goto(r, "fetch")
          /\ UNCHANGED <<reply, consec, open, faults>>
    /\ UNCHANGED <<up, rows, stored, vanished, offers>>

(* The row of a file that was missing, by the id it had; an error is ignored.  *)
MarkMissing(r) ==
    /\ req[r].at = "mark" /\ Goto(r, "fetch")
    /\ \/ /\ UpdateStatus(req[r].track, req[r].q, req[r].row.id, "error")
          /\ UNCHANGED faults
       \/ Fault /\ UNCHANGED rows
    /\ UNCHANGED <<reply, up, stored, vanished, offers, consec, open>>

(* transcode_upload looks for the file without the breaker, first of all and   *)
(* again after a failed fetch or upload.                                       *)
VerifyInternal(r) ==
    /\ req[r].kind = "internal" /\ req[r].at \in {"verify", "again"} /\ up[r] # "post"
    /\ \/ req[r].track \in stored /\ Answer(r, "cached", "hq") /\ UNCHANGED faults
       \/ /\ IF req[r].track \in stored THEN Fault ELSE UNCHANGED faults
          /\ IF req[r].at = "verify"
               THEN Goto(r, "fetch") /\ UNCHANGED reply
               ELSE Answer(r, "nostream", "hq")
    /\ UNCHANGED <<up, rows, stored, vanished, offers, consec, open>>

(* One source is tried.  What is fetched is answered, and uploaded in the      *)
(* background unless the breaker is open or it is a few bytes only; the        *)
(* backend's request waits for its upload instead and keeps no rows.           *)
TrySource(r) ==
    LET source == Head(req[r].left)  inside == req[r].kind = "internal" IN
    /\ req[r].at = "fetch" /\ req[r].left # <<>>
    /\ \/ /\ Yield(source) = {}
          /\ req' = [req EXCEPT ![r].left = Tail(@)]
          /\ UNCHANGED <<reply, up>>
       \/ \E q \in Yield(source) :
             IF inside
               THEN /\ up' = [up EXCEPT ![r] = "post"]
                    /\ Goto(r, "again") /\ UNCHANGED reply
               ELSE /\ \E at \in IF open THEN {"end"} ELSE {"insertHq", "end"} :
                          up' = [up EXCEPT ![r] = at]
                    /\ Answer(r, "data", q)
    /\ UNCHANGED <<rows, stored, vanished, offers, consec, open, faults>>

NoSource(r) ==
    /\ req[r].at = "fetch" /\ req[r].left = <<>>
    /\ IF req[r].kind = "internal" THEN Goto(r, "again") /\ UNCHANGED reply
                                   ELSE Answer(r, "nostream", "sq")
    /\ UNCHANGED <<up, rows, stored, vanished, offers, consec, open, faults>>

-------------------------------------------------------------------------------
(* The upload of request r. *)

UpGoto(r, at) == up' = [up EXCEPT ![r] = at]

(* The insert of a pending row; on conflict the row keeps its id.              *)
Insert(r, q) ==
    LET key == <<req[r].track, q>> IN
    /\ up[r] = IF q = "hq" THEN "insertHq" ELSE "insertSq"
    /\ \/ /\ rows' = [rows EXCEPT ![key] =
                [id |-> IF @.id = "none" THEN r ELSE @.id, status |-> "pending"]]
          /\ UpGoto(r, IF q = "hq" THEN "insertSq" ELSE "post")
          /\ UNCHANGED faults
       \/ Fault /\ UpGoto(r, "end") /\ UNCHANGED rows
    /\ UNCHANGED <<req, reply, stored, vanished, offers, consec, open>>

\* Mutant: the refusal of a short track, which is no failure, counts as success.
PostRefusedIsOk(r) ==
    /\ up[r] = "post"
    /\ \/ /\ stored' = stored \cup {req[r].track}
          /\ IF req[r].kind = "internal"
               THEN /\ UpGoto(r, "end") /\ Answer(r, "data", "hq")
                    /\ UNCHANGED <<consec, open>>
               ELSE UpGoto(r, "okHq") /\ MarkAvailable /\ UNCHANGED <<req, reply>>
          /\ UNCHANGED faults
       \/ /\ UpGoto(r, IF req[r].kind = "internal" THEN "end" ELSE "okHq")
          /\ UNCHANGED <<stored, req, reply, consec, open, faults>>
    /\ UNCHANGED <<rows, vanished, offers>>

(* The storage answers 200 when both qualities are in place.  It refuses a     *)
(* track that is too short, which counts as a failure here, or fails; or no    *)
(* answer comes although the upload has been carried out.                      *)
Post(r) ==
    LET inside == req[r].kind = "internal" IN
    /\ up[r] = "post"
    /\ \/ /\ stored' = stored \cup {req[r].track}
          /\ IF inside
               THEN /\ UpGoto(r, "end") /\ Answer(r, "data", "hq")
                    /\ UNCHANGED <<consec, open>>
               ELSE /\ UpGoto(r, "okHq") /\ MarkAvailable
                    /\ UNCHANGED <<req, reply>>
          /\ UNCHANGED faults
       \/ /\ \/ UNCHANGED <<stored, faults>>
             \/ Fault /\ stored' = stored \cup {req[r].track}
          /\ IF inside THEN UpGoto(r, "end") /\ UNCHANGED <<consec, open>>
                       ELSE UpGoto(r, "errorHq") /\ MarkUnavailable
          /\ UNCHANGED <<req, reply>>
    /\ UNCHANGED <<rows, vanished, offers>>

SetsStatus(r, q) ==
    up[r] \in IF q = "hq" THEN {"okHq", "errorHq"} ELSE {"okSq", "okSqOnly", "errorSq"}

\* Mutant: the row of sq is never brought up to date.
SetStatusHqOnly(r, q) ==
    /\ q = "hq" /\ SetsStatus(r, q)
    /\ UpdateStatus(req[r].track, q, r, IF up[r] = "okHq" THEN "ok" ELSE "error")
    /\ UpGoto(r, IF up[r] = "okHq" THEN "stored" ELSE "end")
    /\ UNCHANGED <<req, reply, stored, vanished, offers, consec, open, faults>>

(* The two status updates.  An error of one is ignored, and the other made.    *)
SetStatus(r, q) ==
    LET ok == up[r] \in {"okHq", "okSq", "okSqOnly"} IN
    /\ SetsStatus(r, q)
    /\ \E fails \in BOOLEAN :
          /\ FaultIf(fails)
          /\ IF fails THEN UNCHANGED rows
                      ELSE UpdateStatus(req[r].track, q, r, IF ok THEN "ok" ELSE "error")
          /\ UpGoto(r, CASE q = "hq" /\ ok -> IF fails THEN "okSqOnly" ELSE "okSq"
                         [] q = "hq" /\ ~ok -> "errorSq"
                         [] OTHER -> IF up[r] = "okSq" /\ ~fails THEN "stored" ELSE "end")
    /\ UNCHANGED <<req, reply, stored, vanished, offers, consec, open>>

(* The storage loses the files of a track.                                     *)
Vanish(t) ==
    /\ t \in stored /\ Fault
    /\ stored' = stored \ {t} /\ vanished' = vanished \cup {t}
    /\ UNCHANGED <<req, reply, up, rows, offers, consec, open>>

Next ==
    \/ Cooldown
    \/ \E r \in Requests :
          \/ \E t \in Tracks, kind \in Kinds : Begin(r, t, kind)
          \/ Find(r) \/ Verify(r) \/ MarkMissing(r) \/ VerifyInternal(r)
          \/ TrySource(r) \/ NoSource(r)
          \/ Post(r) \/ \E q \in Qualities : Insert(r, q) \/ SetStatus(r, q)
    \/ \E t \in Tracks : Vanish(t)

Spec == Init /\ [][Next]_vars

-------------------------------------------------------------------------------
(* Properties. *)

(* A row says ok only of files the storage has, or has lost since: whatever    *)
(* uploads of the track run at once, fail, are refused or end out of order.    *)
OkRowWasStored ==
    \A t \in Tracks, q \in Qualities : rows[t, q].status = "ok" => t \in stored \cup vanished

(* "No stream" is answered only when none of the sources open to the listener  *)
(* has the track, and a premium listener who asks for HQ hears SQ only when no *)
(* source has HQ, unless the storage's own copy was at hand.                   *)
BestSourceServed ==
    \A r \in Requests :
        /\ reply[r].what = "nostream" /\ req[r].kind # "internal"
             => \A i \in DOMAIN Cascade(req[r].kind) : Yield(Cascade(req[r].kind)[i]) = {}
        /\ reply[r] = [what |-> "data", q |-> "sq"] /\ req[r].kind = "premiumHq"
             => offers \cap {"oauthHq", "cookiesHq"} = {}

Uploaded(r) == up[r] = "stored" /\ req[r].track \notin vanished

(* The only upload a track ever had leaves both rows ok when it succeeds (and  *)
(* the database takes both updates): the id each insert drew is its row's, and *)
(* no listener's HEAD in between marks the row of a file that is there.        *)
SingleUploadIsRecorded ==
    \A r \in Requests :
        Uploaded(r) /\ (\A s \in Requests \ {r} : up[s] = "none")
        => \A q \in Qualities : rows[req[r].track, q] = [id |-> r, status |-> "ok"]

===============================================================================
