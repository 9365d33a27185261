---------------------------- MODULE StreamingProofs ----------------------------
(* Proofs about Streaming, for any tracks, requests, faults and thresholds.      *)
(*                                                                               *)
(* The inductive invariant: the types; PhaseOK, which tells an upload's phase    *)
(* from its request's; Tried, a request has left the sources that come after     *)
(* those it has tried in vain; Best, what its answer says of the sources; RowsOK, *)
(* a row was drawn by an upload that has begun, and says ok of files that were   *)
(* stored; HeadOK, a HEAD finds missing only what the storage has lost; AloneOK, *)
(* what the rows of a track are while one upload only has run.                   *)
(* The last section tells that a request is answered once, and adds a measure    *)
(* that its steps and those of its upload lower.                                 *)
EXTENDS Streaming, SequenceTheorems, TLAPS

Ats   == {"new", "find", "verify", "mark", "fetch", "again", "end"}
Rows  == [id : Requests \cup {"none"}, status : {"none", "pending", "ok", "error"}]
Names == {"oauth", "cookies", "anon", "oauthHq", "cookiesHq"}
Reqs  == [track : Tracks, kind : Kinds \cup {"normal"}, at : Ats, left : Seq(Names),
          row : Rows, q : Qualities]
Replies == [q : Qualities, what : {"none", "redirect", "data", "nostream", "cached"}]
Ups == {"none", "insertHq", "insertSq", "post", "okHq", "okSq", "okSqOnly", "errorHq", "errorSq",
        "stored", "end"}

LEMMA TypeParts ==
    TypeOK <=> /\ req \in [Requests -> Reqs] /\ reply \in [Requests -> Replies]
               /\ up \in [Requests -> Ups] /\ rows \in [Tracks \X Qualities -> Rows]
               /\ stored \subseteq Tracks /\ vanished \subseteq Tracks /\ offers \subseteq Offers
               /\ consec \in 0..Threshold /\ open \in BOOLEAN /\ faults \in 0..MaxFaults
BY DEF TypeOK, Reqs, Replies, Ups, Rows, Ats, Names

LEMMA TypePartsNext ==
    ASSUME req' \in [Requests -> Reqs], reply' \in [Requests -> Replies],
           up' \in [Requests -> Ups], rows' \in [Tracks \X Qualities -> Rows],
           stored' \subseteq Tracks, vanished' \subseteq Tracks, offers' \subseteq Offers,
           consec' \in 0..Threshold, open' \in BOOLEAN, faults' \in 0..MaxFaults
    PROVE  TypeOK'
BY DEF TypeOK, Reqs, Replies, Ups, Rows, Ats, Names

LEMMA Fields ==
    /\ \A e \in Reqs : /\ e.track \in Tracks /\ e.kind \in Kinds \cup {"normal"} /\ e.at \in Ats
                       /\ e.left \in Seq(Names) /\ e.row \in Rows /\ e.q \in Qualities
    /\ \A e \in Rows : /\ e.id \in Requests \cup {"none"}
                       /\ e.status \in {"none", "pending", "ok", "error"}
BY DEF Reqs, Rows

-----------------------------------------------------------------------------
(* The cascade.                                                              *)

LEMMA CascadeNames ==
    ASSUME NEW kind \in {"normal", "normalHq", "premium", "premiumHq", "internal"}
    PROVE  Cascade(kind) \in Seq(Names)
<1>1. /\ <<"oauth", "anon">> \in Seq(Names) /\ <<"oauth", "anon", "cookies">> \in Seq(Names)
      /\ <<"cookiesHq", "oauthHq", "oauth", "cookies", "anon">> \in Seq(Names)
      /\ <<"cookiesHq", "cookies", "anon">> \in Seq(Names)
  BY DEF Names
<1> QED
  BY <1>1 DEF Cascade

LEMMA KindsOK == Kinds \cup {"normal"} \subseteq {"normal", "normalHq", "premium", "premiumHq", "internal"}
BY StreamingAssumption

\* The first n sources of the cascade have nothing, the others are left.
TriedSome(r, n) ==
    LET all == Cascade(req[r].kind)
    IN  /\ req[r].left = SubSeq(all, n + 1, Len(all))
        /\ \A i \in 1..n : Yield(all[i]) = {}

LEMMA NothingTried ==
    ASSUME NEW all \in Seq(Names)
    PROVE  SubSeq(all, 0 + 1, Len(all)) = all /\ Len(all) \in Nat
BY SubSeqFull

LEMMA TriesNext ==
    ASSUME NEW all \in Seq(Names), NEW n \in 0..Len(all), SubSeq(all, n + 1, Len(all)) # <<>>
    PROVE  /\ n + 1 \in 1..Len(all)
           /\ Head(SubSeq(all, n + 1, Len(all))) = all[n + 1]
           /\ Tail(SubSeq(all, n + 1, Len(all))) = SubSeq(all, (n + 1) + 1, Len(all))
<1>1. Len(all) \in Nat /\ n \in Nat
  OBVIOUS
<1>2. n + 1 <= Len(all)
  BY <1>1, SubSeqEmpty
<1> QED
  BY <1>1, <1>2, HeadTailOfSubSeq

LEMMA AllTried ==
    ASSUME NEW all \in Seq(Names), NEW n \in 0..Len(all), SubSeq(all, n + 1, Len(all)) = <<>>
    PROVE  n = Len(all)
<1>1. Len(SubSeq(all, n + 1, Len(all))) = IF n + 1 <= Len(all) THEN Len(all) - (n + 1) + 1 ELSE 0
  BY SubSeqProperties
<1> QED
  BY <1>1

-----------------------------------------------------------------------------
(* Types.                                                                    *)

LEMMA UpdateStatusFacts ==
    ASSUME rows \in [Tracks \X Qualities -> Rows], NEW t \in Tracks, NEW q \in Qualities,
           NEW id \in Requests \cup {"none"}, NEW status \in {"ok", "error"},
           UpdateStatus(t, q, id, status)
    PROVE  /\ rows' \in [Tracks \X Qualities -> Rows]
           /\ \A k \in Tracks \X Qualities : rows'[k].id = rows[k].id
           /\ \A k \in Tracks \X Qualities : k # <<t, q>> => rows'[k] = rows[k]
           /\ rows'[<<t, q>>].status = IF rows[<<t, q>>].id = id THEN status
                                       ELSE rows[<<t, q>>].status
<1> DEFINE old == rows[<<t, q>>]
<1>1. <<t, q>> \in Tracks \X Qualities /\ old \in Rows
  OBVIOUS
<1>2. /\ [old EXCEPT !.status = status] \in Rows
      /\ [old EXCEPT !.status = status].status = status
      /\ [old EXCEPT !.status = status].id = old.id
  BY <1>1 DEF Rows
<1>3. rows' = [rows EXCEPT ![<<t, q>>] =
                  IF old.id = id THEN [old EXCEPT !.status = status] ELSE old]
  BY DEF UpdateStatus
<1> HIDE DEF old
<1>4. rows'[<<t, q>>] = IF old.id = id THEN [old EXCEPT !.status = status] ELSE old
  BY <1>1, <1>3
<1>5. \A k \in Tracks \X Qualities : k # <<t, q>> => rows'[k] = rows[k]
  BY <1>3
<1>6. rows' \in [Tracks \X Qualities -> Rows]
  BY <1>1, <1>2, <1>3
<1>7. old = rows[<<t, q>>]
  BY DEF old
<1> QED
  BY <1>2, <1>4, <1>5, <1>6, <1>7

LEMMA EntryTypes ==
    ASSUME NEW e \in Reqs
    PROVE  /\ \A at \in Ats : /\ [e EXCEPT !.at = at] \in Reqs
                              /\ [e EXCEPT !.at = at].at = at
                              /\ [e EXCEPT !.at = at].track = e.track
                              /\ [e EXCEPT !.at = at].kind = e.kind
                              /\ [e EXCEPT !.at = at].left = e.left
                              /\ [e EXCEPT !.at = at].row = e.row /\ [e EXCEPT !.at = at].q = e.q
           /\ \A l \in Seq(Names) : /\ [e EXCEPT !.left = l] \in Reqs
                                    /\ [e EXCEPT !.left = l].at = e.at
                                    /\ [e EXCEPT !.left = l].track = e.track
                                    /\ [e EXCEPT !.left = l].kind = e.kind
                                    /\ [e EXCEPT !.left = l].left = l
BY DEF Reqs

\* Where a request goes, and what it answers.
LEMMA GotoFacts ==
    ASSUME req \in [Requests -> Reqs], NEW r \in Requests, NEW at \in Ats, Goto(r, at)
    PROVE  /\ req' \in [Requests -> Reqs] /\ req'[r].at = at
           /\ req'[r].track = req[r].track /\ req'[r].kind = req[r].kind
           /\ req'[r].left = req[r].left
           /\ \A s \in Requests \ {r} : req'[s] = req[s]
<1>1. req[r] \in Reqs /\ req' = [req EXCEPT ![r] = [req[r] EXCEPT !.at = at]]
  BY DEF Goto
<1>2. req'[r] = [req[r] EXCEPT !.at = at]
  BY <1>1
<1> QED
  BY <1>1, <1>2, EntryTypes

LEMMA AnswerFacts ==
    ASSUME req \in [Requests -> Reqs], reply \in [Requests -> Replies], NEW r \in Requests,
           NEW what \in {"redirect", "data", "nostream", "cached"}, NEW q \in Qualities,
           Answer(r, what, q)
    PROVE  /\ Goto(r, "end") /\ reply' \in [Requests -> Replies]
           /\ reply'[r] = [what |-> what, q |-> q]
           /\ \A s \in Requests \ {r} : reply'[s] = reply[s]
BY DEF Answer, Replies

LEMMA BreakerTypes ==
    ASSUME consec \in 0..Threshold, open \in BOOLEAN, MarkAvailable \/ MarkUnavailable
    PROVE  consec' \in 0..Threshold /\ open' \in BOOLEAN
<1>1. consec' \in 0..Threshold
  BY StreamingAssumption DEF MarkAvailable, MarkUnavailable
<1>2. open' \in BOOLEAN
  BY DEF MarkAvailable, MarkUnavailable
<1> QED
  BY <1>1, <1>2

LEMMA FaultTypes ==
    ASSUME faults \in 0..MaxFaults, Fault \/ UNCHANGED faults
    PROVE  faults' \in 0..MaxFaults
BY StreamingAssumption DEF Fault

\* A step in which request r goes on, with the sources it had.
Proceeds(r) ==
    /\ req' \in [Requests -> Reqs] /\ reply' \in [Requests -> Replies]
    /\ req[r].at # "new" /\ req'[r].at # "new"
    /\ req'[r].track = req[r].track /\ req'[r].kind = req[r].kind /\ req'[r].left = req[r].left
    /\ \A s \in Requests \ {r} : req'[s] = req[s] /\ reply'[s] = reply[s]

LEMMA ProceedsByGoto ==
    ASSUME TypeOK, NEW r \in Requests, NEW at \in Ats \ {"new"}, Goto(r, at), UNCHANGED reply,
           req[r].at # "new"
    PROVE  Proceeds(r) /\ req'[r].at = at
BY TypeParts, GotoFacts DEF Proceeds

LEMMA ProceedsByAnswer ==
    ASSUME TypeOK, NEW r \in Requests, req[r].at # "new",
           NEW what \in {"redirect", "data", "nostream", "cached"}, NEW q \in Qualities,
           Answer(r, what, q)
    PROVE  Proceeds(r) /\ req'[r].at = "end" /\ reply'[r] = [what |-> what, q |-> q]
BY TypeParts, AnswerFacts, GotoFacts DEF Proceeds, Ats

LEMMA BeginFacts ==
    ASSUME TypeOK, NEW r \in Requests, NEW t \in Tracks, NEW kind \in Kinds, Begin(r, t, kind)
    PROVE  /\ TypeOK' /\ req[r].at = "new" /\ req'[r].at \in {"find", "verify"}
           /\ req'[r].kind = kind /\ req'[r].left = Cascade(kind)
           /\ kind # "internal" => req'[r].at = "find"
           /\ \A s \in Requests \ {r} : req'[s] = req[s]
<1> DEFINE old == req[r]
           new == [old EXCEPT !.track = t, !.kind = kind, !.left = Cascade(kind),
                              !.at = IF kind = "internal" THEN "verify" ELSE "find"]
<1>1. old \in Reqs /\ Cascade(kind) \in Seq(Names)
  BY TypeParts, CascadeNames, KindsOK
<1>2. /\ new \in Reqs /\ new.kind = kind /\ new.left = Cascade(kind)
      /\ new.at \in {"find", "verify"} /\ (kind # "internal" => new.at = "find")
  BY <1>1 DEF Reqs, Ats
<1>3. req' = [req EXCEPT ![r] = new]
  BY DEF Begin
<1> HIDE DEF new, old
<1>4. req' \in [Requests -> Reqs] /\ req'[r] = new /\ \A s \in Requests \ {r} : req'[s] = req[s]
  BY <1>2, <1>3, TypeParts
<1>5. TypeOK'
  BY <1>4, TypeParts, TypePartsNext DEF Begin
<1> QED
  BY <1>2, <1>4, <1>5 DEF Begin

LEMMA FindFacts ==
    ASSUME TypeOK, NEW r \in Requests, Find(r)
    PROVE  /\ TypeOK' /\ Proceeds(r) /\ req[r].at = "find" /\ req'[r].at \in {"verify", "fetch"}
           /\ req'[r].at = "verify" => \E q \in Qualities : rows[<<req[r].track, q>>].status = "ok"
<1> DEFINE t == req[r].track
<1>1. req[r] \in Reqs /\ t \in Tracks /\ req[r].at = "find" /\ UNCHANGED reply
  BY TypeParts, Fields DEF Find
<1>2. faults' \in 0..MaxFaults
  BY FaultTypes, TypeParts DEF Find
<1>3. CASE Goto(r, "fetch")
  <2>1. Proceeds(r) /\ req'[r].at = "fetch"
    BY <1>1, <1>3, ProceedsByGoto DEF Ats
  <2> QED
    BY <1>1, <1>2, <2>1, TypeParts, TypePartsNext DEF Find, Proceeds
<1>4. ASSUME NEW q \in Cached(t, req[r].kind),
             req' = [req EXCEPT ![r].at = "verify", ![r].q = q, ![r].row = rows[t, q]]
      PROVE  /\ TypeOK' /\ Proceeds(r) /\ req'[r].at = "verify"
             /\ \E p \in Qualities : rows[<<t, p>>].status = "ok"
  <2>1. q \in Qualities /\ rows[<<t, q>>] \in Rows /\ rows[<<t, q>>].status = "ok"
    BY <1>1, TypeParts DEF Cached, OkRows
  <2> DEFINE e == req[r]
             new == [e EXCEPT !.at = "verify", !.q = q, !.row = rows[<<t, q>>]]
  <2>2. \A x \in Rows : LET n == [e EXCEPT !.at = "verify", !.q = q, !.row = x]
                         IN  n \in Reqs /\ n.at = "verify" /\ n.track = e.track
                             /\ n.kind = e.kind /\ n.left = e.left
    BY <1>1, <2>1 DEF Reqs, Ats
  <2>3. req' = [req EXCEPT ![r] = new]
    BY <1>4
  <2> HIDE DEF e, new
  <2>4. new \in Reqs /\ new.at = "verify" /\ new.track = e.track /\ new.kind = e.kind
        /\ new.left = e.left
    BY <2>1, <2>2 DEF new
  <2>5. req' \in [Requests -> Reqs] /\ req'[r] = new /\ \A s \in Requests \ {r} : req'[s] = req[s]
    BY <2>3, <2>4, TypeParts
  <2>6. Proceeds(r)
    BY <1>1, <2>4, <2>5, TypeParts DEF Proceeds, e
  <2> QED
    BY <1>2, <2>1, <2>4, <2>5, <2>6, TypeParts, TypePartsNext DEF Find
<1> QED
  BY <1>1, <1>3, <1>4 DEF Find

LEMMA VerifyFacts ==
    ASSUME TypeOK, NEW r \in Requests, Verify(r)
    PROVE  /\ TypeOK' /\ Proceeds(r) /\ req[r].at = "verify" /\ req[r].kind # "internal"
           /\ \/ req'[r].at = "fetch" /\ UNCHANGED reply
              \/ req'[r].at = "mark" /\ UNCHANGED reply /\ req[r].track \notin stored
              \/ req'[r].at = "end" /\ reply'[r].what = "redirect"
<1>1. /\ req[r].q \in Qualities /\ req[r].at = "verify" /\ req[r].kind # "internal"
  BY TypeParts, Fields DEF Verify
<1>2. faults' \in 0..MaxFaults
  BY FaultTypes, TypeParts DEF Verify
<1>3. consec' \in 0..Threshold /\ open' \in BOOLEAN
  <2>1. MarkAvailable \/ MarkUnavailable \/ UNCHANGED <<consec, open>>
    BY DEF Verify
  <2> QED
    BY <2>1, BreakerTypes, TypeParts
<1>4. /\ Proceeds(r)
      /\ \/ req'[r].at = "fetch" /\ UNCHANGED reply
         \/ req'[r].at = "mark" /\ UNCHANGED reply /\ req[r].track \notin stored
         \/ req'[r].at = "end" /\ reply'[r].what = "redirect"
  <2>1. CASE Goto(r, "fetch") /\ UNCHANGED reply
    BY <1>1, <2>1, ProceedsByGoto DEF Ats
  <2>2. CASE Goto(r, "mark") /\ UNCHANGED reply /\ req[r].track \notin stored
    BY <1>1, <2>2, ProceedsByGoto DEF Ats
  <2>3. CASE Answer(r, "redirect", req[r].q)
    <3>1. /\ Proceeds(r) /\ req'[r].at = "end"
          /\ reply'[r] = [what |-> "redirect", q |-> req[r].q]
      BY <1>1, <2>3, ProceedsByAnswer
    <3> QED
      BY <3>1
  <2> QED
    BY <2>1, <2>2, <2>3 DEF Verify
<1>5. TypeOK'
  BY <1>2, <1>3, <1>4, TypeParts, TypePartsNext DEF Proceeds, Verify
<1> QED
  BY <1>1, <1>4, <1>5

LEMMA MarkMissingFacts ==
    ASSUME TypeOK, NEW r \in Requests, MarkMissing(r)
    PROVE  /\ TypeOK' /\ Proceeds(r) /\ req[r].at = "mark" /\ req'[r].at = "fetch"
           /\ UNCHANGED <<reply, up>>
           /\ \/ UNCHANGED rows
              \/ UpdateStatus(req[r].track, req[r].q, req[r].row.id, "error")
<1>1. /\ req[r].track \in Tracks /\ req[r].q \in Qualities
      /\ req[r].row.id \in Requests \cup {"none"} /\ req[r].at = "mark" /\ UNCHANGED reply
  BY TypeParts, Fields DEF MarkMissing
<1>2. faults' \in 0..MaxFaults
  BY FaultTypes, TypeParts DEF MarkMissing
<1>3. \/ UNCHANGED rows
      \/ UpdateStatus(req[r].track, req[r].q, req[r].row.id, "error")
  BY DEF MarkMissing
<1>4. rows' \in [Tracks \X Qualities -> Rows]
  BY <1>1, <1>3, UpdateStatusFacts, TypeParts
<1>5. Proceeds(r) /\ req'[r].at = "fetch"
  BY <1>1, ProceedsByGoto DEF MarkMissing, Ats
<1>6. TypeOK'
  BY <1>2, <1>4, <1>5, TypeParts, TypePartsNext DEF Proceeds, MarkMissing
<1> QED
  BY <1>1, <1>3, <1>5, <1>6 DEF MarkMissing

LEMMA VerifyInternalFacts ==
    ASSUME TypeOK, NEW r \in Requests, VerifyInternal(r)
    PROVE  /\ TypeOK' /\ Proceeds(r) /\ req[r].kind = "internal" /\ up[r] # "post"
           /\ \/ req[r].at = "verify" /\ req'[r].at = "fetch"
              \/ req[r].at \in {"verify", "again"} /\ req'[r].at = "end"
<1>1. req[r].at \in {"verify", "again"} /\ req[r].kind = "internal" /\ up[r] # "post"
  BY DEF VerifyInternal
<1>2. faults' \in 0..MaxFaults
  BY FaultTypes, TypeParts DEF VerifyInternal
<1>3. CASE req[r].at = "verify" /\ Goto(r, "fetch") /\ UNCHANGED reply
  <2>1. Proceeds(r) /\ req'[r].at = "fetch"
    BY <1>3, ProceedsByGoto DEF Ats
  <2> QED
    BY <1>1, <1>2, <1>3, <2>1, TypeParts, TypePartsNext DEF VerifyInternal, Proceeds
<1>4. CASE \E what \in {"cached", "nostream"} : Answer(r, what, "hq")
  <2>1. Proceeds(r) /\ req'[r].at = "end"
    BY <1>1, <1>4, ProceedsByAnswer DEF Qualities
  <2> QED
    BY <1>1, <1>2, <2>1, TypeParts, TypePartsNext DEF VerifyInternal, Proceeds
<1> QED
  BY <1>3, <1>4 DEF VerifyInternal

\* A source has nothing, or something that is answered or uploaded.
SourceFails(r) ==
    /\ Yield(Head(req[r].left)) = {}
    /\ req'[r].left = Tail(req[r].left)
    /\ req'[r].at = "fetch" /\ req'[r].kind = req[r].kind /\ req'[r].track = req[r].track
    /\ \A s \in Requests \ {r} : req'[s] = req[s]
    /\ UNCHANGED <<reply, up>>

SourceDelivers(r) ==
    \E q \in Yield(Head(req[r].left)) :
        /\ Proceeds(r)
        /\ \/ /\ req[r].kind = "internal" /\ req'[r].at = "again" /\ UNCHANGED reply
              /\ up' = [up EXCEPT ![r] = "post"]
           \/ /\ req[r].kind # "internal" /\ req'[r].at = "end"
              /\ reply'[r] = [what |-> "data", q |-> q]
              /\ \E at \in {"insertHq", "end"} : up' = [up EXCEPT ![r] = at]

LEMMA YieldQualities == \A source : Yield(source) \subseteq Qualities
BY DEF Yield, Qualities

LEMMA TrySourceFacts ==
    ASSUME TypeOK, NEW r \in Requests, TrySource(r)
    PROVE  TypeOK' /\ (SourceFails(r) \/ SourceDelivers(r))
<1> DEFINE left == req[r].left
<1>1. /\ req[r] \in Reqs /\ left \in Seq(Names) /\ left # <<>> /\ req[r].at = "fetch"
      /\ UNCHANGED <<rows, stored, vanished, offers, consec, open, faults>>
  BY TypeParts, Fields DEF TrySource
<1>2. CASE /\ Yield(Head(left)) = {}
           /\ req' = [req EXCEPT ![r].left = Tail(@)] /\ UNCHANGED <<reply, up>>
  <2>1. Tail(left) \in Seq(Names)
    BY <1>1, HeadTailProperties
  <2> DEFINE e == req[r]
             new == [e EXCEPT !.left = Tail(left)]
  <2>2. req' = [req EXCEPT ![r] = new]
    BY <1>2
  <2>3. /\ new \in Reqs /\ new.left = Tail(left) /\ new.at = e.at /\ new.kind = e.kind
        /\ new.track = e.track
    BY <1>1, <2>1, EntryTypes
  <2> HIDE DEF new
  <2>4. req' \in [Requests -> Reqs] /\ req'[r] = new /\ \A s \in Requests \ {r} : req'[s] = req[s]
    BY <2>2, <2>3, TypeParts
  <2>5. TypeOK'
    BY <1>1, <1>2, <2>4, TypeParts, TypePartsNext
  <2> QED
    BY <1>1, <1>2, <2>3, <2>4, <2>5 DEF SourceFails
<1>3. ASSUME NEW q \in Yield(Head(left)), req[r].kind = "internal",
             up' = [up EXCEPT ![r] = "post"], Goto(r, "again") /\ UNCHANGED reply
      PROVE  TypeOK' /\ SourceDelivers(r)
  <2>1. Proceeds(r) /\ req'[r].at = "again"
    BY <1>1, <1>3, ProceedsByGoto DEF Ats
  <2>2. TypeOK'
    BY <1>1, <1>3, <2>1, TypeParts, TypePartsNext DEF Proceeds, Ups
  <2> QED
    BY <1>3, <2>1, <2>2 DEF SourceDelivers
<1>4. ASSUME NEW q \in Yield(Head(left)), req[r].kind # "internal",
             NEW at \in {"insertHq", "end"}, up' = [up EXCEPT ![r] = at], Answer(r, "data", q)
      PROVE  TypeOK' /\ SourceDelivers(r)
  <2>1. Proceeds(r) /\ req'[r].at = "end" /\ reply'[r] = [what |-> "data", q |-> q]
    BY <1>1, <1>4, ProceedsByAnswer, YieldQualities
  <2>2. TypeOK'
    BY <1>1, <1>4, <2>1, TypeParts, TypePartsNext DEF Proceeds, Ups
  <2> QED
    BY <1>4, <2>1, <2>2 DEF SourceDelivers
<1>5. \A at \in (IF open THEN {"end"} ELSE {"insertHq", "end"}) : at \in {"insertHq", "end"}
  OBVIOUS
<1> QED
  BY <1>2, <1>3, <1>4, <1>5 DEF TrySource

LEMMA NoSourceFacts ==
    ASSUME TypeOK, NEW r \in Requests, NoSource(r)
    PROVE  /\ TypeOK' /\ Proceeds(r) /\ req[r].at = "fetch" /\ req[r].left = <<>>
           /\ \/ req[r].kind = "internal" /\ req'[r].at = "again" /\ UNCHANGED reply
              \/ /\ req[r].kind # "internal" /\ req'[r].at = "end"
                 /\ reply'[r] = [what |-> "nostream", q |-> "sq"]
<1>1. /\ req[r].at = "fetch" /\ req[r].left = <<>>
      /\ UNCHANGED <<up, rows, stored, vanished, offers, consec, open, faults>>
  BY DEF NoSource
<1>2. CASE req[r].kind = "internal" /\ Goto(r, "again") /\ UNCHANGED reply
  <2>1. Proceeds(r) /\ req'[r].at = "again"
    BY <1>1, <1>2, ProceedsByGoto DEF Ats
  <2> QED
    BY <1>1, <1>2, <2>1, TypeParts, TypePartsNext DEF Proceeds
<1>3. CASE req[r].kind # "internal" /\ Answer(r, "nostream", "sq")
  <2>1. Proceeds(r) /\ req'[r].at = "end" /\ reply'[r] = [what |-> "nostream", q |-> "sq"]
    BY <1>1, <1>3, ProceedsByAnswer DEF Qualities
  <2> QED
    BY <1>1, <1>3, <2>1, TypeParts, TypePartsNext DEF Proceeds
<1> QED
  BY <1>2, <1>3 DEF NoSource

LEMMA InsertFacts ==
    ASSUME TypeOK, NEW r \in Requests, NEW q \in Qualities, Insert(r, q)
    PROVE  LET k == <<req[r].track, q>> IN
           /\ TypeOK' /\ UNCHANGED <<req, reply, stored, vanished, offers>>
           /\ up[r] = IF q = "hq" THEN "insertHq" ELSE "insertSq"
           /\ \A s \in Requests \ {r} : up'[s] = up[s]
           /\ \A j \in Tracks \X Qualities : j # k => rows'[j] = rows[j]
           /\ \/ UNCHANGED rows /\ up'[r] = "end"
              \/ /\ rows'[k].id = IF rows[k].id = "none" THEN r ELSE rows[k].id
                 /\ rows'[k].status = "pending"
                 /\ up'[r] = IF q = "hq" THEN "insertSq" ELSE "post"
<1> DEFINE k == <<req[r].track, q>>
<1>1. k \in Tracks \X Qualities /\ rows[k] \in Rows
  BY TypeParts, Fields
<1>2. faults' \in 0..MaxFaults
  BY FaultTypes, TypeParts DEF Insert
<1>3. CASE Fault /\ UpGoto(r, "end") /\ UNCHANGED rows
  <2>1. /\ up' \in [Requests -> Ups] /\ up'[r] = "end" /\ \A s \in Requests \ {r} : up'[s] = up[s]
    BY <1>3, TypeParts DEF UpGoto, Ups
  <2> QED
    BY <1>2, <1>3, <2>1, TypeParts, TypePartsNext DEF Insert
<1>4. CASE /\ rows' = [rows EXCEPT ![k] = [id |-> IF @.id = "none" THEN r ELSE @.id,
                                          status |-> "pending"]]
           /\ UpGoto(r, IF q = "hq" THEN "insertSq" ELSE "post")
  <2> DEFINE id == IF rows[k].id = "none" THEN r ELSE rows[k].id
             new == [id |-> id, status |-> "pending"]
  <2>1. id \in Requests \cup {"none"}
    BY <1>1, Fields
  <2>2. rows' = [rows EXCEPT ![k] = new]
    BY <1>4
  <2> HIDE DEF id
  <2>3. new \in Rows /\ new.id = id /\ new.status = "pending"
    BY <2>1 DEF Rows
  <2> HIDE DEF new, k
  <2>4. /\ rows' \in [Tracks \X Qualities -> Rows] /\ rows'[k] = new
        /\ \A j \in Tracks \X Qualities : j # k => rows'[j] = rows[j]
    BY <1>1, <2>2, <2>3, TypeParts
  <2>5. /\ up' \in [Requests -> Ups] /\ up'[r] = (IF q = "hq" THEN "insertSq" ELSE "post")
        /\ \A s \in Requests \ {r} : up'[s] = up[s]
    BY <1>4, TypeParts DEF UpGoto, Ups
  <2>6. TypeOK'
    BY <1>2, <2>4, <2>5, TypeParts, TypePartsNext DEF Insert
  <2> USE DEF k, id
  <2> QED
    BY <2>3, <2>4, <2>5, <2>6 DEF Insert
<1> QED
  BY <1>3, <1>4 DEF Insert

LEMMA PostFacts ==
    ASSUME TypeOK, NEW r \in Requests, req[r].at # "new", Post(r)
    PROVE  /\ TypeOK' /\ UNCHANGED <<rows, vanished, offers>> /\ stored \subseteq stored'
           /\ up[r] = "post" /\ \A s \in Requests \ {r} : up'[s] = up[s]
           /\ \/ /\ req[r].kind = "internal" /\ up'[r] = "end"
                 /\ \/ UNCHANGED <<req, reply>>
                    \/ Proceeds(r) /\ req'[r].at = "end"
              \/ /\ req[r].kind # "internal" /\ UNCHANGED <<req, reply>>
                 /\ (up'[r] = "okHq" /\ req[r].track \in stored') \/ up'[r] = "errorHq"
<1>1. /\ UNCHANGED <<rows, vanished, offers>> /\ up[r] = "post" /\ req[r].track \in Tracks
      /\ stored' = stored \/ stored' = stored \cup {req[r].track}
  BY TypeParts, Fields DEF Post
<1>2. faults' \in 0..MaxFaults
  BY FaultTypes, TypeParts DEF Post
<1>3. consec' \in 0..Threshold /\ open' \in BOOLEAN
  <2>1. MarkAvailable \/ MarkUnavailable \/ UNCHANGED <<consec, open>>
    BY DEF Post
  <2> QED
    BY <2>1, BreakerTypes, TypeParts
<1>4. stored \subseteq stored' /\ stored' \subseteq Tracks
  BY <1>1, TypeParts
<1>u. ASSUME NEW at \in {"end", "okHq", "errorHq"}, UpGoto(r, at)
      PROVE  /\ up' \in [Requests -> Ups] /\ up'[r] = at
             /\ \A s \in Requests \ {r} : up'[s] = up[s]
  BY <1>u, TypeParts DEF UpGoto, Ups
<1>5. CASE req[r].kind = "internal" /\ UpGoto(r, "end") /\ Answer(r, "data", "hq")
  <2>1. Proceeds(r) /\ req'[r].at = "end"
    BY <1>5, ProceedsByAnswer DEF Qualities
  <2>2. up' \in [Requests -> Ups] /\ up'[r] = "end" /\ \A s \in Requests \ {r} : up'[s] = up[s]
    BY <1>5, <1>u
  <2>3. TypeOK'
    BY <1>1, <1>2, <1>3, <1>4, <2>1, <2>2, TypeParts, TypePartsNext DEF Proceeds
  <2> QED
    BY <1>1, <1>4, <1>5, <2>1, <2>2, <2>3
<1>6. CASE req[r].kind = "internal" /\ UpGoto(r, "end") /\ UNCHANGED <<req, reply>>
  <2>1. up' \in [Requests -> Ups] /\ up'[r] = "end" /\ \A s \in Requests \ {r} : up'[s] = up[s]
    BY <1>6, <1>u
  <2>2. TypeOK'
    BY <1>1, <1>2, <1>3, <1>4, <1>6, <2>1, TypeParts, TypePartsNext
  <2> QED
    BY <1>1, <1>4, <1>6, <2>1, <2>2
<1>7. CASE /\ req[r].kind # "internal" /\ UNCHANGED <<req, reply>>
           /\ \/ UpGoto(r, "okHq") /\ stored' = stored \cup {req[r].track}
              \/ UpGoto(r, "errorHq")
  <2>1. /\ up' \in [Requests -> Ups] /\ \A s \in Requests \ {r} : up'[s] = up[s]
        /\ (up'[r] = "okHq" /\ req[r].track \in stored') \/ up'[r] = "errorHq"
    BY <1>1, <1>7, <1>u
  <2>2. TypeOK'
    BY <1>1, <1>2, <1>3, <1>4, <1>7, <2>1, TypeParts, TypePartsNext
  <2> QED
    BY <1>1, <1>4, <1>7, <2>1, <2>2
<1> QED
  BY <1>5, <1>6, <1>7 DEF Post

LEMMA SetStatusFacts ==
    ASSUME TypeOK, NEW r \in Requests, NEW q \in Qualities, SetStatus(r, q)
    PROVE  /\ TypeOK' /\ UNCHANGED <<req, reply, stored, vanished, offers>>
           /\ \A s \in Requests \ {r} : up'[s] = up[s]
           /\ \/ /\ up[r] \in {"okHq", "okSq", "okSqOnly"} /\ UpdateStatus(req[r].track, q, r, "ok")
                 /\ \/ up[r] = "okHq" /\ q = "hq" /\ up'[r] = "okSq"
                    \/ up[r] = "okSq" /\ q = "sq" /\ up'[r] = "stored"
                    \/ up[r] = "okSqOnly" /\ q = "sq" /\ up'[r] = "end"
              \/ /\ up[r] \in {"okHq", "okSq", "okSqOnly"} /\ UNCHANGED rows
                 /\ \/ up[r] = "okHq" /\ up'[r] = "okSqOnly"
                    \/ up[r] # "okHq" /\ up'[r] = "end"
              \/ /\ \/ up[r] = "errorHq" /\ up'[r] = "errorSq"
                    \/ up[r] = "errorSq" /\ up'[r] = "end"
                 /\ UNCHANGED rows \/ UpdateStatus(req[r].track, q, r, "error")
<1> DEFINE ok == up[r] \in {"okHq", "okSq", "okSqOnly"}
<1>1. /\ up[r] \in IF q = "hq" THEN {"okHq", "errorHq"} ELSE {"okSq", "okSqOnly", "errorSq"}
      /\ UNCHANGED <<req, reply, stored, vanished, offers, consec, open>>
      /\ req[r].track \in Tracks
  BY TypeParts, Fields DEF SetStatus, SetsStatus
<1>2. PICK fails \in BOOLEAN :
          /\ FaultIf(fails)
          /\ IF fails THEN UNCHANGED rows
                      ELSE UpdateStatus(req[r].track, q, r, IF ok THEN "ok" ELSE "error")
          /\ UpGoto(r, CASE q = "hq" /\ ok -> IF fails THEN "okSqOnly" ELSE "okSq"
                         [] q = "hq" /\ ~ok -> "errorSq"
                         [] OTHER -> IF up[r] = "okSq" /\ ~fails THEN "stored" ELSE "end")
  BY DEF SetStatus
<1>3. faults' \in 0..MaxFaults
  BY <1>2, FaultTypes, TypeParts DEF FaultIf
<1>4. rows' \in [Tracks \X Qualities -> Rows]
  BY <1>1, <1>2, UpdateStatusFacts, TypeParts
<1>5. ASSUME NEW at \in {"okSqOnly", "okSq", "errorSq", "stored", "end"}, UpGoto(r, at)
      PROVE  TypeOK' /\ up'[r] = at /\ \A s \in Requests \ {r} : up'[s] = up[s]
  <2>1. /\ up' \in [Requests -> Ups] /\ up'[r] = at
        /\ \A s \in Requests \ {r} : up'[s] = up[s]
    BY <1>5, TypeParts DEF UpGoto, Ups
  <2> QED
    BY <1>1, <1>3, <1>4, <2>1, TypeParts, TypePartsNext
<1>6. CASE ok /\ ~fails
  <2>1. UpdateStatus(req[r].track, q, r, "ok")
    BY <1>2, <1>6
  <2>2. \/ up[r] = "okHq" /\ q = "hq" /\ UpGoto(r, "okSq")
        \/ up[r] = "okSq" /\ q = "sq" /\ UpGoto(r, "stored")
        \/ up[r] = "okSqOnly" /\ q = "sq" /\ UpGoto(r, "end")
    BY <1>1, <1>2, <1>6 DEF Qualities
  <2> QED
    BY <1>1, <1>5, <1>6, <2>1, <2>2
<1>7. CASE ok /\ fails
  <2>1. UNCHANGED rows
    BY <1>2, <1>7
  <2>2. \/ up[r] = "okHq" /\ UpGoto(r, "okSqOnly")
        \/ up[r] # "okHq" /\ UpGoto(r, "end")
    BY <1>1, <1>2, <1>7 DEF Qualities
  <2> QED
    BY <1>1, <1>5, <1>7, <2>1, <2>2
<1>8. CASE ~ok
  <2>1. UNCHANGED rows \/ UpdateStatus(req[r].track, q, r, "error")
    BY <1>2, <1>8
  <2>2. \/ up[r] = "errorHq" /\ UpGoto(r, "errorSq")
        \/ up[r] = "errorSq" /\ UpGoto(r, "end")
    BY <1>1, <1>2, <1>8 DEF Qualities
  <2> QED
    BY <1>1, <1>5, <1>8, <2>1, <2>2
<1> QED
  BY <1>6, <1>7, <1>8

-----------------------------------------------------------------------------
(* Phases: an upload begins when its request has ended, or waits for it.     *)

PhaseOK ==
    \A r \in Requests :
        /\ req[r].at = "new" => up[r] = "none" /\ reply[r].what = "none"
        /\ req[r].at = "again" => req[r].kind = "internal"
        /\ up[r] # "none" => req[r].at \in {"again", "end"}
        /\ up[r] # "none" /\ req[r].kind = "internal" => up[r] \in {"post", "end"}

RequestStep(r) ==
    \/ \E t \in Tracks, kind \in Kinds : Begin(r, t, kind)
    \/ Find(r) \/ Verify(r) \/ MarkMissing(r) \/ VerifyInternal(r)
    \/ TrySource(r) \/ NoSource(r)

UploadStep(r) == Post(r) \/ \E q \in Qualities : Insert(r, q) \/ SetStatus(r, q)

LEMMA NextSplit ==
    Next => \/ Cooldown \/ \E t \in Tracks : Vanish(t)
            \/ \E r \in Requests : RequestStep(r) \/ UploadStep(r)
BY DEF Next, RequestStep, UploadStep

\* Requests leave the storage alone, and the uploads but for the one they begin.
LEMMA RequestStepPhase ==
    ASSUME TypeOK, PhaseOK, NEW r \in Requests, RequestStep(r)
    PROVE  PhaseOK' /\ TypeOK' /\ UNCHANGED <<stored, vanished, offers>>
           /\ (\A s \in Requests \ {r} : req'[s] = req[s] /\ up'[s] = up[s])
<1>1. ASSUME NEW t \in Tracks, NEW kind \in Kinds, Begin(r, t, kind)
      PROVE  PhaseOK' /\ TypeOK' /\ UNCHANGED <<stored, vanished, offers>>
             /\ (\A s \in Requests \ {r} : req'[s] = req[s] /\ up'[s] = up[s])
  <2>1. UNCHANGED <<stored, vanished, offers, up, reply>>
    BY <1>1 DEF Begin
  <2> QED
    BY <1>1, <2>1, BeginFacts DEF PhaseOK
<1>2. CASE Find(r)
  <2>1. UNCHANGED <<up, reply, stored, vanished, offers>>
    BY <1>2 DEF Find
  <2> QED
    BY <1>2, <2>1, FindFacts DEF PhaseOK, Proceeds
<1>3. CASE Verify(r)
  BY <1>3, VerifyFacts DEF PhaseOK, Proceeds, Verify
<1>7. CASE MarkMissing(r)
  BY <1>7, MarkMissingFacts DEF PhaseOK, Proceeds, MarkMissing
<1>4. CASE VerifyInternal(r)
  BY <1>4, VerifyInternalFacts DEF PhaseOK, Proceeds, VerifyInternal
<1>5. CASE TrySource(r)
  <2>1. UNCHANGED <<stored, vanished, offers>> /\ TypeOK' /\ req[r].at = "fetch"
    BY <1>5, TrySourceFacts DEF TrySource
  <2>2. CASE SourceFails(r)
    BY <2>1, <2>2 DEF SourceFails, PhaseOK
  <2>3. CASE SourceDelivers(r)
    <3>1. up \in [Requests -> Ups]
      BY TypeParts
    <3> QED
      BY <2>1, <2>3, <3>1 DEF SourceDelivers, PhaseOK, Proceeds
  <2> QED
    BY <1>5, <2>2, <2>3, TrySourceFacts
<1>6. CASE NoSource(r)
  BY <1>6, NoSourceFacts DEF PhaseOK, Proceeds, NoSource
<1> QED
  BY <1>1, <1>2, <1>3, <1>4, <1>5, <1>6, <1>7 DEF RequestStep

LEMMA UploadStepPhase ==
    ASSUME TypeOK, PhaseOK, NEW r \in Requests, UploadStep(r)
    PROVE  /\ PhaseOK' /\ TypeOK' /\ UNCHANGED <<vanished, offers>> /\ stored \subseteq stored'
           /\ up[r] # "none" /\ req[r].at # "new"
           /\ req'[r].track = req[r].track /\ req'[r].kind = req[r].kind
           /\ \A s \in Requests \ {r} : req'[s] = req[s] /\ up'[s] = up[s]
<1>1. CASE Post(r)
  <2>1. req[r].at # "new" /\ up[r] # "none"
    BY <1>1 DEF PhaseOK, Post
  <2> QED
    BY <1>1, <2>1, PostFacts DEF PhaseOK, Proceeds
<1>2. ASSUME NEW q \in Qualities, Insert(r, q)
      PROVE  /\ PhaseOK' /\ TypeOK' /\ UNCHANGED <<vanished, offers>> /\ stored \subseteq stored'
             /\ up[r] # "none" /\ req[r].at # "new"
             /\ req'[r].track = req[r].track /\ req'[r].kind = req[r].kind
             /\ \A s \in Requests \ {r} : req'[s] = req[s] /\ up'[s] = up[s]
  <2>1. /\ TypeOK' /\ UNCHANGED <<req, reply, stored, vanished, offers>>
        /\ up[r] \in {"insertHq", "insertSq"} /\ up'[r] \in {"end", "insertSq", "post"}
        /\ \A s \in Requests \ {r} : up'[s] = up[s]
    BY <1>2, InsertFacts
  <2> QED
    BY <2>1 DEF PhaseOK
<1>3. ASSUME NEW q \in Qualities, SetStatus(r, q)
      PROVE  /\ PhaseOK' /\ TypeOK' /\ UNCHANGED <<vanished, offers>> /\ stored \subseteq stored'
             /\ up[r] # "none" /\ req[r].at # "new"
             /\ req'[r].track = req[r].track /\ req'[r].kind = req[r].kind
             /\ \A s \in Requests \ {r} : req'[s] = req[s] /\ up'[s] = up[s]
  BY <1>3, SetStatusFacts DEF PhaseOK
<1> QED
  BY <1>1, <1>2, <1>3 DEF UploadStep

-----------------------------------------------------------------------------
(* Sources: each is tried before the next.                                   *)

Best(r) ==
    /\ reply[r].what = "nostream" /\ req[r].kind # "internal"
         => \A i \in DOMAIN Cascade(req[r].kind) : Yield(Cascade(req[r].kind)[i]) = {}
    /\ reply[r] = [what |-> "data", q |-> "sq"] /\ req[r].kind = "premiumHq"
         => offers \cap {"oauthHq", "cookiesHq"} = {}

Tried(r) ==
    req[r].at # "new" => \E n \in 0..Len(Cascade(req[r].kind)) : TriedSome(r, n)

LEMMA TriedStays ==
    ASSUME UNCHANGED offers, NEW r \in Requests, Tried(r), req[r].at # "new",
           req'[r].kind = req[r].kind, req'[r].left = req[r].left
    PROVE  Tried(r)'
BY DEF Tried, TriedSome, Yield

LEMMA AllOfCascade ==
    ASSUME TypeOK, NEW r \in Requests
    PROVE  /\ Cascade(req[r].kind) \in Seq(Names) /\ Len(Cascade(req[r].kind)) \in Nat
           /\ DOMAIN Cascade(req[r].kind) = 1..Len(Cascade(req[r].kind))
<1>1. req[r].kind \in Kinds \cup {"normal"}
  BY TypeParts, Fields
<1>2. req[r].kind \in {"normal", "normalHq", "premium", "premiumHq", "internal"}
  BY <1>1, KindsOK
<1>3. Cascade(req[r].kind) \in Seq(Names)
  BY <1>2, CascadeNames
<1> QED
  BY <1>3

LEMMA TrySourceBest ==
    ASSUME TypeOK, NEW r \in Requests, Tried(r), Best(r), TrySource(r)
    PROVE  Tried(r)' /\ Best(r)'
<1> DEFINE all == Cascade(req[r].kind)
<1>1. /\ all \in Seq(Names) /\ Len(all) \in Nat /\ req[r].left # <<>> /\ req[r].at = "fetch"
      /\ UNCHANGED offers
  BY AllOfCascade DEF TrySource
<1>2. PICK n \in 0..Len(all) : TriedSome(r, n)
  BY <1>1 DEF Tried
<1>3. req[r].left = SubSeq(all, n + 1, Len(all)) /\ \A i \in 1..n : Yield(all[i]) = {}
  BY <1>2 DEF TriedSome
<1>4. /\ n + 1 \in 1..Len(all) /\ Head(req[r].left) = all[n + 1]
      /\ Tail(req[r].left) = SubSeq(all, (n + 1) + 1, Len(all))
  <2> HIDE DEF all
  <2> QED
    BY <1>1, <1>3, TriesNext
<1>y. \A source : Yield(source)' = Yield(source)
  BY <1>1 DEF Yield
<1>5. CASE SourceFails(r)
  <2>1. n + 1 \in 0..Len(all) /\ \A i \in 1..(n + 1) : Yield(all[i]) = {}
    <3>1. Yield(all[n + 1]) = {}
      BY <1>4, <1>5 DEF SourceFails
    <3> HIDE DEF all
    <3>2. ASSUME NEW i \in 1..(n + 1)
          PROVE  Yield(all[i]) = {}
      <4>1. i \in 1..n \/ i = n + 1
        BY <1>1
      <4> QED
        BY <1>3, <3>1, <4>1
    <3>3. n + 1 \in 0..Len(all)
      BY <1>1, <1>4
    <3> QED
      BY <3>2, <3>3
  <2>2. req'[r].left = SubSeq(all, (n + 1) + 1, Len(all)) /\ req'[r].kind = req[r].kind
    BY <1>4, <1>5 DEF SourceFails
  <2>3. TriedSome(r, n + 1)'
    BY <1>1, <2>1, <2>2 DEF TriedSome, Yield
  <2>4. Tried(r)'
    BY <2>1, <2>2, <2>3 DEF Tried
  <2>5. Best(r)'
    BY <1>1, <1>5 DEF SourceFails, Best, Yield
  <2> QED
    BY <2>4, <2>5
<1>6. CASE SourceDelivers(r)
  <2>1. PICK q \in Yield(all[n + 1]) :
            /\ Proceeds(r)
            /\ \/ req[r].kind = "internal" /\ UNCHANGED reply
               \/ req[r].kind # "internal" /\ reply'[r] = [what |-> "data", q |-> q]
    BY <1>4, <1>6 DEF SourceDelivers
  <2>2. Tried(r)'
    BY <1>1, <2>1, TriedStays DEF Proceeds
  <2>3. ASSUME req[r].kind = "premiumHq", q = "sq"
        PROVE  offers \cap {"oauthHq", "cookiesHq"} = {}
    <3>1. all = <<"cookiesHq", "oauthHq", "oauth", "cookies", "anon">>
      BY <2>3 DEF Cascade
    <3>2. /\ Yield("cookiesHq") = IF "cookiesHq" \in offers THEN {"hq"} ELSE {}
          /\ Yield("oauthHq") = IF "oauthHq" \in offers THEN {"hq"} ELSE {}
      BY DEF Yield
    <3>3. /\ Len(all) = 5 /\ all[1] = "cookiesHq" /\ all[2] = "oauthHq"
      BY <3>1
    <3> HIDE DEF all
    <3>4. n + 1 # 1 /\ n + 1 # 2
      BY <2>1, <2>3, <3>2, <3>3
    <3>5. 1 \in 1..n /\ 2 \in 1..n
      BY <1>1, <1>4, <3>3, <3>4
    <3>6. Yield("cookiesHq") = {} /\ Yield("oauthHq") = {}
      BY <1>3, <3>3, <3>5
    <3> QED
      BY <3>2, <3>6
  <2>4. Best(r)'
    <3>1. req'[r].kind = req[r].kind
      BY <2>1 DEF Proceeds
    <3>2. CASE req[r].kind = "internal" /\ UNCHANGED reply
      BY <1>1, <3>1, <3>2 DEF Best
    <3>3. CASE req[r].kind # "internal" /\ reply'[r] = [what |-> "data", q |-> q]
      BY <1>1, <2>3, <3>1, <3>3 DEF Best
    <3> QED
      BY <2>1, <3>2, <3>3
  <2> QED
    BY <2>2, <2>4
<1> QED
  BY <1>5, <1>6, TrySourceFacts

\* A request that goes on with the sources it had, and answers none of the two.
LEMMA ProceedsBest ==
    ASSUME NEW r \in Requests, Tried(r), Best(r), UNCHANGED offers, Proceeds(r),
           \/ UNCHANGED reply \/ req[r].kind = "internal" \/ reply'[r].what = "redirect"
    PROVE  Tried(r)' /\ Best(r)'
<1>1. Tried(r)'
  BY TriedStays DEF Proceeds
<1>2. reply'[r] = [what |-> "data", q |-> "sq"] => reply'[r].what = "data"
  OBVIOUS
<1>3. \A source : Yield(source)' = Yield(source)
  BY DEF Yield
<1>4. Best(r)'
  BY <1>2, <1>3 DEF Best, Proceeds
<1> QED
  BY <1>1, <1>4

LEMMA RequestStepBest ==
    ASSUME TypeOK, PhaseOK, NEW r \in Requests, Tried(r), Best(r), RequestStep(r)
    PROVE  Tried(r)' /\ Best(r)'
<1>o. UNCHANGED offers
  BY RequestStepPhase
<1>1. ASSUME NEW t \in Tracks, NEW kind \in Kinds, Begin(r, t, kind)
      PROVE  Tried(r)' /\ Best(r)'
  <2> DEFINE all == Cascade(kind)
  <2>1. all \in Seq(Names)
    BY CascadeNames, KindsOK
  <2>0. req'[r].kind = kind /\ req'[r].left = all /\ req[r].at = "new"
    BY <1>1, BeginFacts
  <2>2. req'[r].kind = kind /\ req'[r].left = all /\ reply'[r].what = "none"
    BY <1>1, <2>0 DEF Begin, PhaseOK
  <2>3. TriedSome(r, 0)'
    <3>1. SubSeq(all, 0 + 1, Len(all)) = all /\ 1..0 = {}
      BY <2>1, NothingTried
    <3> QED
      BY <2>2, <3>1 DEF TriedSome
  <2>4. 0 \in 0..Len(all)
    BY <2>1, NothingTried
  <2>5. Tried(r)'
    BY <2>2, <2>3, <2>4 DEF Tried
  <2>6. Best(r)'
    BY <2>2 DEF Best
  <2> QED
    BY <2>5, <2>6
<1>2. CASE Find(r)
  BY <1>o, <1>2, FindFacts, ProceedsBest DEF Find
<1>3. CASE Verify(r)
  BY <1>o, <1>3, VerifyFacts, ProceedsBest
<1>7. CASE MarkMissing(r)
  BY <1>o, <1>7, MarkMissingFacts, ProceedsBest
<1>4. CASE VerifyInternal(r)
  BY <1>o, <1>4, VerifyInternalFacts, ProceedsBest
<1>5. CASE TrySource(r)
  BY <1>5, TrySourceBest
<1>6. CASE NoSource(r)
  <2>1. Proceeds(r) /\ req[r].at = "fetch" /\ req[r].left = <<>>
    BY <1>6, NoSourceFacts
  <2>2. CASE req[r].kind = "internal"
    BY <1>o, <2>1, <2>2, ProceedsBest
  <2>3. CASE reply'[r] = [what |-> "nostream", q |-> "sq"]
    <3> DEFINE all == Cascade(req[r].kind)
    <3>1. all \in Seq(Names) /\ Len(all) \in Nat /\ DOMAIN all = 1..Len(all)
      BY AllOfCascade
    <3>2. PICK n \in 0..Len(all) : TriedSome(r, n)
      BY <2>1 DEF Tried
    <3>3. SubSeq(all, n + 1, Len(all)) = <<>> /\ \A i \in 1..n : Yield(all[i]) = {}
      BY <2>1, <3>2 DEF TriedSome
    <3>4. n = Len(all)
      <4> HIDE DEF all
      <4> QED
        BY <3>1, <3>3, AllTried
    <3>5. \A i \in DOMAIN all : Yield(all[i]) = {}
      BY <3>1, <3>3, <3>4
    <3>6. req'[r].kind = req[r].kind /\ reply'[r].what = "nostream"
      BY <2>1, <2>3 DEF Proceeds
    <3>y. \A source : Yield(source)' = Yield(source)
      BY <1>o DEF Yield
    <3>n. reply'[r] # [what |-> "data", q |-> "sq"]
      BY <2>3
    <3>7. Best(r)'
      BY <3>y, <3>n, <3>5, <3>6 DEF Best
    <3>8. Tried(r)'
      BY <1>o, <2>1, TriedStays DEF Proceeds
    <3> QED
      BY <3>7, <3>8
  <2> QED
    BY <1>6, <2>2, <2>3, NoSourceFacts
<1> QED
  BY <1>1, <1>2, <1>3, <1>4, <1>5, <1>6, <1>7 DEF RequestStep

LEMMA UploadStepBest ==
    ASSUME TypeOK, PhaseOK, NEW r \in Requests, Tried(r), Best(r), UploadStep(r)
    PROVE  Tried(r)' /\ Best(r)'
<1>1. UNCHANGED offers /\ req[r].at # "new"
  BY UploadStepPhase
<1>2. CASE UNCHANGED <<req, reply>>
  BY <1>1, <1>2 DEF Tried, TriedSome, Best, Yield
<1>3. CASE Post(r)
  BY <1>1, <1>2, <1>3, PostFacts, ProceedsBest
<1> QED
  BY <1>2, <1>3, InsertFacts, SetStatusFacts DEF UploadStep

LEMMA OthersBest ==
    ASSUME TypeOK, PhaseOK, NEW r \in Requests, RequestStep(r) \/ UploadStep(r),
           NEW s \in Requests \ {r}, Tried(s), Best(s)
    PROVE  Tried(s)' /\ Best(s)'
<1>1. req'[s] = req[s] /\ UNCHANGED offers
  BY RequestStepPhase, UploadStepPhase
<1>2. reply'[s] = reply[s]
  <2>1. CASE TrySource(r)
    BY <2>1, TrySourceFacts DEF SourceFails, SourceDelivers, Proceeds
  <2>2. CASE Post(r)
    BY <2>2, PostFacts DEF PhaseOK, Proceeds, Post
  <2>3. CASE Verify(r) \/ MarkMissing(r) \/ VerifyInternal(r) \/ NoSource(r) \/ Find(r)
    BY <2>3, VerifyFacts, MarkMissingFacts, VerifyInternalFacts, NoSourceFacts, FindFacts
       DEF Proceeds
  <2>4. CASE \E q \in Qualities : Insert(r, q) \/ SetStatus(r, q)
    BY <2>4, InsertFacts, SetStatusFacts
  <2> QED
    BY <2>1, <2>2, <2>3, <2>4 DEF RequestStep, UploadStep, Begin
<1> QED
  BY <1>1, <1>2 DEF Tried, TriedSome, Best, Yield

-----------------------------------------------------------------------------
(* Rows.                                                                     *)

RowsOK ==
    /\ \A k \in Tracks \X Qualities : rows[k].id = "none" \/ up[rows[k].id] # "none"
    /\ \A r \in Requests : up[r] \in {"okHq", "okSq", "okSqOnly", "stored"}
                             => req[r].track \in stored \cup vanished
    /\ OkRowWasStored

\* A listener's HEAD asks for a file the storage has had, and finds missing what it lost.
HeadFine(e) ==
    /\ e.at = "verify" /\ e.kind # "internal" => e.track \in stored \cup vanished
    /\ e.at = "mark" => e.track \in vanished
HeadOK == \A r \in Requests : HeadFine(req[r])

\* No upload but r's has begun, and the storage still has its track.
Alone(r) ==
    /\ req[r].kind # "internal" /\ req[r].track \notin vanished
    /\ \A s \in Requests \ {r} : up[s] = "none"

\* How far the two rows of r's track have come.
Recorded(r) ==
    LET hq == rows[<<req[r].track, "hq">>]  sq == rows[<<req[r].track, "sq">>] IN
    /\ up[r] \notin {"none", "insertHq", "end"} => hq.id = r
    /\ up[r] \notin {"none", "insertHq", "insertSq", "end"} => sq.id = r
    /\ up[r] \in {"okSq", "stored"} => hq.status = "ok"
    /\ up[r] = "stored" => sq.status = "ok"

AloneOK == \A r \in Requests : Alone(r) => Recorded(r)

\* What a step of request r does to the rows and to its upload.
LEMMA RequestStepRows ==
    ASSUME TypeOK, PhaseOK, HeadOK, NEW r \in Requests, RequestStep(r)
    PROVE  /\ \A k \in Tracks \X Qualities :
                 /\ rows'[k].id = rows[k].id
                 /\ \/ rows'[k] = rows[k]
                    \/ k[1] = req[r].track /\ req[r].track \in vanished
                       /\ rows'[k].status \in {rows[k].status, "error"}
           /\ \/ up[r] = "none" /\ up'[r] \in {"none", "insertHq", "end"}
              \/ up[r] = "none" /\ up'[r] = "post" /\ req'[r].kind = "internal"
              \/ up'[r] = up[r] /\ req'[r].kind = "internal" /\ req'[r].track = req[r].track
<1>u. up \in [Requests -> Ups]
  BY TypeParts
<1>1. CASE \E t \in Tracks, kind \in Kinds : Begin(r, t, kind)
  BY <1>1 DEF Begin, PhaseOK
<1>2. CASE Find(r)
  BY <1>2 DEF Find, PhaseOK
<1>3. CASE Verify(r)
  BY <1>3 DEF Verify, PhaseOK
<1>7. CASE MarkMissing(r)
  <2>1. req[r].track \in vanished /\ UNCHANGED up /\ up[r] = "none"
    BY <1>7 DEF MarkMissing, PhaseOK, HeadOK, HeadFine
  <2>2. CASE UNCHANGED rows
    BY <2>1, <2>2
  <2>3. CASE UpdateStatus(req[r].track, req[r].q, req[r].row.id, "error")
    <3>1. /\ req[r].track \in Tracks /\ req[r].q \in Qualities
          /\ req[r].row.id \in Requests \cup {"none"} /\ rows \in [Tracks \X Qualities -> Rows]
      BY TypeParts, Fields
    <3>2. /\ \A k \in Tracks \X Qualities : rows'[k].id = rows[k].id
          /\ \A k \in Tracks \X Qualities : k # <<req[r].track, req[r].q>> => rows'[k] = rows[k]
          /\ rows'[<<req[r].track, req[r].q>>].status \in
                {rows[<<req[r].track, req[r].q>>].status, "error"}
      BY <2>3, <3>1, UpdateStatusFacts
    <3>3. <<req[r].track, req[r].q>>[1] = req[r].track
      OBVIOUS
    <3> QED
      BY <2>1, <2>3, <3>2, <3>3
  <2> QED
    BY <1>7, <2>2, <2>3, MarkMissingFacts
<1>4. CASE VerifyInternal(r)
  BY <1>4, VerifyInternalFacts DEF VerifyInternal, Proceeds
<1>5. CASE TrySource(r)
  <2>1. UNCHANGED rows /\ up[r] = "none"
    BY <1>5 DEF TrySource, PhaseOK
  <2>2. CASE SourceFails(r)
    BY <2>1, <2>2 DEF SourceFails
  <2>3. CASE SourceDelivers(r)
    BY <1>u, <2>1, <2>3 DEF SourceDelivers, Proceeds
  <2> QED
    BY <1>5, <2>2, <2>3, TrySourceFacts
<1>6. CASE NoSource(r)
  BY <1>6 DEF NoSource, PhaseOK
<1> QED
  BY <1>1, <1>2, <1>3, <1>4, <1>5, <1>6, <1>7 DEF RequestStep

LEMMA UploadGoesOn ==
    ASSUME TypeOK, PhaseOK, NEW r \in Requests, UploadStep(r)
    PROVE  up'[r] # "none"
<1>1. CASE Post(r)
  <2>1. req[r].at # "new"
    BY <1>1 DEF Post, PhaseOK
  <2> QED
    BY <1>1, <2>1, PostFacts
<1>2. ASSUME NEW q \in Qualities, Insert(r, q)
      PROVE  up'[r] # "none"
  BY <1>2, InsertFacts
<1>3. ASSUME NEW q \in Qualities, SetStatus(r, q)
      PROVE  up'[r] # "none"
  BY <1>3, SetStatusFacts
<1> QED
  BY <1>1, <1>2, <1>3 DEF UploadStep

LEMMA RequestStepRowsOK ==
    ASSUME TypeOK, PhaseOK, RowsOK, HeadOK, NEW r \in Requests, RequestStep(r)
    PROVE  RowsOK'
<1>1. /\ UNCHANGED <<stored, vanished>> /\ rows \in [Tracks \X Qualities -> Rows]
      /\ \A s \in Requests \ {r} : req'[s] = req[s] /\ up'[s] = up[s]
  BY RequestStepPhase, TypeParts
<1>2. up[r] # "none" => up'[r] # "none"
  BY RequestStepRows
<1>3. ASSUME NEW k \in Tracks \X Qualities
      PROVE  rows'[k].id = "none" \/ up'[rows'[k].id] # "none"
  <2>1. rows'[k].id = rows[k].id /\ rows[k].id \in Requests \cup {"none"}
    BY <1>1, RequestStepRows, Fields
  <2>2. rows[k].id = "none" \/ up[rows[k].id] # "none"
    BY DEF RowsOK
  <2> QED
    BY <1>1, <1>2, <2>1, <2>2
<1>4. ASSUME NEW s \in Requests, up'[s] \in {"okHq", "okSq", "okSqOnly", "stored"}
      PROVE  req'[s].track \in stored' \cup vanished'
  <2>1. CASE s = r
    <3>1. up'[r] = up[r] /\ req'[r].track = req[r].track
      BY <1>4, <2>1, RequestStepRows
    <3> QED
      BY <1>1, <1>4, <2>1, <3>1 DEF RowsOK
  <2>2. CASE s # r
    BY <1>1, <1>4, <2>2 DEF RowsOK
  <2> QED
    BY <2>1, <2>2
<1>5. OkRowWasStored'
  <2>1. ASSUME NEW t \in Tracks, NEW q \in Qualities, rows'[<<t, q>>].status = "ok"
        PROVE  t \in stored' \cup vanished'
    <3>1. rows[<<t, q>>].status = "ok"
      BY <2>1, RequestStepRows
    <3> QED
      BY <1>1, <3>1 DEF RowsOK, OkRowWasStored
  <2> QED
    BY <2>1 DEF OkRowWasStored
<1> QED
  BY <1>3, <1>4, <1>5 DEF RowsOK

LEMMA UploadStepRowsOK ==
    ASSUME TypeOK, PhaseOK, RowsOK, NEW r \in Requests, UploadStep(r)
    PROVE  RowsOK'
<1> DEFINE t == req[r].track
<1>1. /\ UNCHANGED vanished /\ stored \subseteq stored' /\ up[r] # "none" /\ req[r].at # "new"
      /\ rows \in [Tracks \X Qualities -> Rows] /\ t \in Tracks
      /\ \A s \in Requests : req'[s].track = req[s].track
      /\ \A s \in Requests \ {r} : up'[s] = up[s]
      /\ up'[r] # "none"
  <2>1. t \in Tracks /\ rows \in [Tracks \X Qualities -> Rows]
    BY TypeParts, Fields
  <2>2. \A s \in Requests : req'[s].track = req[s].track
    BY UploadStepPhase
  <2> QED
    BY <2>1, <2>2, UploadStepPhase, UploadGoesOn
<1>a. \A s \in Requests : up[s] # "none" => up'[s] # "none"
  BY <1>1
\* The rows whose status the step leaves, or makes ok for a file that is stored.
<1>b. ASSUME \A k \in Tracks \X Qualities :
                 /\ rows'[k].id = rows[k].id \/ rows'[k].id = r
                 /\ \/ rows'[k].status # "ok"
                    \/ rows'[k].status = rows[k].status
                    \/ k[1] = t /\ t \in stored \cup vanished,
             up'[r] \in {"okHq", "okSq", "okSqOnly", "stored"} => t \in stored' \cup vanished
      PROVE  RowsOK'
  <2>1. ASSUME NEW k \in Tracks \X Qualities
        PROVE  rows'[k].id = "none" \/ up'[rows'[k].id] # "none"
    <3>1. rows[k].id \in Requests \cup {"none"} /\ (rows[k].id = "none" \/ up[rows[k].id] # "none")
      BY <1>1, Fields DEF RowsOK
    <3> QED
      BY <1>1, <1>a, <1>b, <3>1
  <2>2. ASSUME NEW s \in Requests, up'[s] \in {"okHq", "okSq", "okSqOnly", "stored"}
        PROVE  req'[s].track \in stored' \cup vanished'
    BY <1>1, <1>b, <2>2 DEF RowsOK
  <2>3. ASSUME NEW x \in Tracks, NEW q \in Qualities, rows'[<<x, q>>].status = "ok"
        PROVE  x \in stored' \cup vanished'
    <3>1. <<x, q>> \in Tracks \X Qualities /\ <<x, q>>[1] = x
      OBVIOUS
    <3>2. rows[<<x, q>>].status = "ok" \/ (x = t /\ t \in stored \cup vanished)
      BY <1>b, <2>3, <3>1
    <3>3. rows[<<x, q>>].status = "ok" => x \in stored \cup vanished
      BY DEF RowsOK, OkRowWasStored
    <3> QED
      BY <1>1, <3>2, <3>3
  <2> QED
    BY <2>1, <2>2, <2>3 DEF RowsOK, OkRowWasStored
<1>s. up[r] \in {"okHq", "okSq", "okSqOnly"} => t \in stored \cup vanished
  BY DEF RowsOK
<1>2. CASE Post(r)
  <2>1. UNCHANGED rows /\ (up'[r] \in {"okHq", "okSq", "okSqOnly", "stored"} => t \in stored')
    BY <1>1, <1>2, PostFacts
  <2> QED
    BY <1>b, <2>1
<1>3. ASSUME NEW q \in Qualities, Insert(r, q)
      PROVE  RowsOK'
  <2> DEFINE k == <<t, q>>
  <2>1. /\ \A j \in Tracks \X Qualities : j # k => rows'[j] = rows[j]
        /\ \/ UNCHANGED rows
           \/ rows'[k].id \in {r, rows[k].id} /\ rows'[k].status = "pending"
        /\ up'[r] \in {"end", "insertSq", "post"}
    BY <1>3, InsertFacts
  <2> HIDE DEF k
  <2> QED
    BY <1>b, <2>1
<1>4. ASSUME NEW q \in Qualities, SetStatus(r, q)
      PROVE  RowsOK'
  <2>u. ASSUME NEW status \in {"ok", "error"}, UpdateStatus(t, q, r, status),
               status = "ok" => t \in stored \cup vanished
        PROVE  \A k \in Tracks \X Qualities :
                 /\ rows'[k].id = rows[k].id
                 /\ \/ rows'[k].status # "ok"
                    \/ rows'[k].status = rows[k].status
                    \/ k[1] = t /\ t \in stored \cup vanished
    <3>1. /\ \A k \in Tracks \X Qualities : rows'[k].id = rows[k].id
          /\ \A k \in Tracks \X Qualities : k # <<t, q>> => rows'[k] = rows[k]
          /\ rows'[<<t, q>>].status \in {status, rows[<<t, q>>].status}
      BY <1>1, <2>u, UpdateStatusFacts
    <3>2. <<t, q>>[1] = t
      OBVIOUS
    <3> QED
      BY <2>u, <3>1, <3>2
  <2>1. CASE UNCHANGED rows
    <3>1. up'[r] \in {"okHq", "okSq", "okSqOnly", "stored"} => t \in stored \cup vanished
      BY <1>4, <1>s, SetStatusFacts
    <3> QED
      BY <1>1, <1>b, <2>1, <3>1
  <2>2. CASE up[r] \in {"okHq", "okSq", "okSqOnly"} /\ UpdateStatus(t, q, r, "ok")
    BY <1>1, <1>b, <1>s, <2>2, <2>u
  <2>3. CASE /\ up[r] \in {"errorHq", "errorSq"} /\ up'[r] \in {"errorSq", "end"}
             /\ UpdateStatus(t, q, r, "error")
    BY <1>b, <2>3, <2>u
  <2> QED
    BY <1>4, <2>1, <2>2, <2>3, SetStatusFacts
<1> QED
  BY <1>2, <1>3, <1>4 DEF UploadStep

LEMMA RequestStepHead ==
    ASSUME TypeOK, PhaseOK, RowsOK, HeadOK, NEW r \in Requests, RequestStep(r)
    PROVE  HeadOK'
<1>1. /\ UNCHANGED <<stored, vanished>> /\ \A s \in Requests \ {r} : req'[s] = req[s]
      /\ req[r].track \in Tracks
  BY RequestStepPhase, TypeParts, Fields
<1>2. ASSUME NEW t \in Tracks, NEW kind \in Kinds, Begin(r, t, kind)
      PROVE  HeadFine(req'[r])
  BY <1>2, BeginFacts DEF HeadFine
<1>3. ASSUME Find(r)
      PROVE  HeadFine(req'[r])
  <2>1. req'[r].at = "verify" => req[r].track \in stored \cup vanished
    BY <1>1, <1>3, FindFacts DEF RowsOK, OkRowWasStored
  <2> QED
    BY <1>3, <2>1, FindFacts DEF HeadFine, Proceeds
<1>4. ASSUME Verify(r)
      PROVE  HeadFine(req'[r])
  BY <1>4, VerifyFacts DEF HeadOK, HeadFine, Proceeds
<1>5. ASSUME MarkMissing(r) \/ VerifyInternal(r) \/ NoSource(r)
      PROVE  HeadFine(req'[r])
  <2>1. req'[r].at \notin {"verify", "mark"}
    BY <1>5, MarkMissingFacts, VerifyInternalFacts, NoSourceFacts
  <2> QED
    BY <2>1 DEF HeadFine
<1>6. ASSUME TrySource(r)
      PROVE  HeadFine(req'[r])
  <2>1. req'[r].at \notin {"verify", "mark"}
    BY <1>6, TrySourceFacts DEF SourceFails, SourceDelivers
  <2> QED
    BY <2>1 DEF HeadFine
<1>7. HeadFine(req'[r])
  BY <1>2, <1>3, <1>4, <1>5, <1>6 DEF RequestStep
<1> QED
  BY <1>1, <1>7 DEF HeadOK, HeadFine

LEMMA UploadStepHead ==
    ASSUME TypeOK, PhaseOK, HeadOK, NEW r \in Requests, UploadStep(r)
    PROVE  HeadOK'
<1>1. /\ UNCHANGED vanished /\ stored \subseteq stored'
      /\ \A s \in Requests : req'[s].track = req[s].track /\ req'[s].kind = req[s].kind
      /\ \A s \in Requests \ {r} : req'[s] = req[s]
      /\ req[r].at \notin {"verify", "mark"} /\ req'[r].at \notin {"verify", "mark"}
  BY UploadStepPhase, UploadGoesOn DEF PhaseOK
<1> QED
  BY <1>1 DEF HeadOK, HeadFine

-----------------------------------------------------------------------------
(* The rows of a track only one upload has run for.                          *)

LEMMA RequestStepAlone ==
    ASSUME TypeOK, PhaseOK, RowsOK, AloneOK, HeadOK, NEW r \in Requests, RequestStep(r)
    PROVE  AloneOK'
<1>1. /\ UNCHANGED <<stored, vanished>>
      /\ \A s \in Requests \ {r} : req'[s] = req[s] /\ up'[s] = up[s]
  BY RequestStepPhase
<1>2. SUFFICES ASSUME NEW s \in Requests, Alone(s)'
               PROVE  Recorded(s)'
  BY DEF AloneOK
<1>3. CASE s = r
  <2>1. up'[r] \in {"none", "insertHq", "end"}
    BY <1>2, <1>3, RequestStepRows DEF Alone
  <2> QED
    BY <1>3, <2>1 DEF Recorded
<1>4. CASE s # r
  <2> DEFINE t == req[s].track
             hq == <<t, "hq">>
             sq == <<t, "sq">>
  <2>1. req'[s] = req[s] /\ up'[s] = up[s] /\ t \in Tracks /\ t \notin vanished
    BY <1>1, <1>2, <1>4, TypeParts, Fields DEF Alone
  <2>2. Alone(s)
    <3>1. \A x \in Requests \ {s} : up[x] = "none"
      <4>1. up'[r] = "none" /\ \A x \in Requests \ {s} : up'[x] = "none"
        BY <1>2, <1>4 DEF Alone
      <4>2. up[r] = "none"
        BY <4>1, RequestStepRows
      <4> QED
        BY <1>1, <4>1, <4>2
    <3> QED
      BY <1>1, <1>2, <2>1, <3>1 DEF Alone
  <2>3. Recorded(s)
    BY <2>2 DEF AloneOK
  <2>4. hq \in Tracks \X Qualities /\ sq \in Tracks \X Qualities /\ hq[1] = t /\ sq[1] = t
    BY <2>1 DEF Qualities
  <2>5. rows'[hq].id = rows[hq].id /\ rows'[sq].id = rows[sq].id
    BY <2>4, RequestStepRows
  <2>6. rows'[hq] = rows[hq] /\ rows'[sq] = rows[sq]
    BY <2>1, <2>4, RequestStepRows
  <2>7. /\ up[s] \notin {"none", "insertHq", "end"} => rows[hq].id = s
        /\ up[s] \notin {"none", "insertHq", "insertSq", "end"} => rows[sq].id = s
        /\ up[s] \in {"okSq", "stored"} => rows[hq].status = "ok"
        /\ up[s] = "stored" => rows[sq].status = "ok"
    BY <2>3 DEF Recorded
  <2> QED
    BY <2>1, <2>5, <2>6, <2>7 DEF Recorded
<1> QED
  BY <1>3, <1>4

LEMMA UploadStepAlone ==
    ASSUME TypeOK, PhaseOK, RowsOK, AloneOK, NEW r \in Requests, UploadStep(r)
    PROVE  AloneOK'
<1> DEFINE t == req[r].track
           hq == <<t, "hq">>
           sq == <<t, "sq">>
<1>1. /\ UNCHANGED vanished /\ up[r] # "none" /\ up'[r] # "none" /\ req[r].at # "new"
      /\ req'[r].track = t /\ req'[r].kind = req[r].kind
      /\ \A s \in Requests \ {r} : req'[s] = req[s] /\ up'[s] = up[s]
      /\ t \in Tracks /\ rows \in [Tracks \X Qualities -> Rows]
  BY UploadStepPhase, UploadGoesOn, TypeParts, Fields
<1>2. SUFFICES ASSUME NEW s \in Requests, Alone(s)'
               PROVE  Recorded(s)'
  BY DEF AloneOK
<1>3. s = r
  BY <1>1, <1>2 DEF Alone
<1>4. Alone(r) /\ Recorded(r)
  BY <1>1, <1>2, <1>3 DEF Alone, AloneOK
<1>5. /\ hq \in Tracks \X Qualities /\ sq \in Tracks \X Qualities /\ hq # sq
      /\ rows[hq] \in Rows /\ rows[sq] \in Rows
  BY <1>1 DEF Qualities
<1>6. /\ up[r] \notin {"none", "insertHq", "end"} => rows[hq].id = r
      /\ up[r] \notin {"none", "insertHq", "insertSq", "end"} => rows[sq].id = r
      /\ up[r] \in {"okSq", "stored"} => rows[hq].status = "ok"
  BY <1>4 DEF Recorded
<1>7. SUFFICES /\ up'[r] \notin {"none", "insertHq", "end"} => rows'[hq].id = r
               /\ up'[r] \notin {"none", "insertHq", "insertSq", "end"} => rows'[sq].id = r
               /\ up'[r] \in {"okSq", "stored"} => rows'[hq].status = "ok"
               /\ up'[r] = "stored" => rows'[sq].status = "ok"
  BY <1>1, <1>3 DEF Recorded
\* A row without an id is drawn by r, the only upload that has begun.
<1>8. \A k \in Tracks \X Qualities : rows[k].id \in {"none", r}
  <2> TAKE k \in Tracks \X Qualities
  <2>1. rows[k].id \in Requests \cup {"none"} /\ (rows[k].id = "none" \/ up[rows[k].id] # "none")
    BY <1>1, Fields DEF RowsOK
  <2> QED
    BY <1>4, <2>1 DEF Alone
<1> HIDE DEF hq, sq
<1>9. CASE Post(r)
  <2>1. UNCHANGED rows /\ up[r] = "post" /\ up'[r] \in {"end", "okHq", "errorHq"}
    BY <1>1, <1>9, PostFacts
  <2> QED
    BY <1>6, <2>1
<1>10. CASE Insert(r, "hq")
  <2>1. \/ UNCHANGED rows /\ up'[r] = "end"
        \/ rows'[hq].id = (IF rows[hq].id = "none" THEN r ELSE rows[hq].id) /\ up'[r] = "insertSq"
    BY <1>10, InsertFacts DEF Qualities, hq
  <2> QED
    BY <1>5, <1>8, <2>1
<1>11. CASE Insert(r, "sq")
  <2>1. \/ UNCHANGED rows /\ up'[r] = "end"
        \/ /\ rows'[sq].id = (IF rows[sq].id = "none" THEN r ELSE rows[sq].id)
           /\ rows'[hq] = rows[hq] /\ up'[r] = "post" /\ up[r] = "insertSq"
    BY <1>5, <1>11, InsertFacts, ZenonT(60) DEF Qualities, sq
  <2> QED
    BY <1>5, <1>6, <1>8, <2>1
<1>12. ASSUME NEW q \in Qualities, SetStatus(r, q)
       PROVE  /\ up'[r] \notin {"none", "insertHq", "end"} => rows'[hq].id = r
              /\ up'[r] \notin {"none", "insertHq", "insertSq", "end"} => rows'[sq].id = r
              /\ up'[r] \in {"okSq", "stored"} => rows'[hq].status = "ok"
              /\ up'[r] = "stored" => rows'[sq].status = "ok"
  <2>1. \/ /\ up[r] = "okHq" /\ q = "hq" /\ up'[r] = "okSq" /\ UpdateStatus(t, q, r, "ok")
        \/ /\ up[r] = "okSq" /\ q = "sq" /\ up'[r] = "stored" /\ UpdateStatus(t, q, r, "ok")
        \/ /\ up[r] \in {"okHq", "okSq", "okSqOnly", "errorHq", "errorSq"}
           /\ up'[r] \in {"okSqOnly", "errorSq", "end"}
           /\ \/ UNCHANGED rows
              \/ \E status \in {"ok", "error"} : UpdateStatus(t, q, r, status)
    BY <1>12, SetStatusFacts
  <2>2. ASSUME NEW status \in {"ok", "error"}, UpdateStatus(t, q, r, status)
        PROVE  /\ \A k \in Tracks \X Qualities : rows'[k].id = rows[k].id
               /\ \A k \in Tracks \X Qualities : k # <<t, q>> => rows'[k] = rows[k]
               /\ rows'[<<t, q>>].status = IF rows[<<t, q>>].id = r THEN status
                                           ELSE rows[<<t, q>>].status
    BY <1>1, <2>2, UpdateStatusFacts
  <2>3. CASE up[r] = "okHq" /\ q = "hq" /\ up'[r] = "okSq" /\ UpdateStatus(t, q, r, "ok")
    <3>1. rows'[hq].id = r /\ rows'[sq].id = r
      BY <1>5, <1>6, <2>2, <2>3
    <3>2. rows'[hq].status = "ok"
      BY <1>6, <2>2, <2>3 DEF hq
    <3> QED
      BY <2>3, <3>1, <3>2
  <2>4. CASE up[r] = "okSq" /\ q = "sq" /\ up'[r] = "stored" /\ UpdateStatus(t, q, r, "ok")
    <3>1. rows'[hq].id = r /\ rows'[sq].id = r
      BY <1>5, <1>6, <2>2, <2>4
    <3>2. rows'[hq].status = "ok"
      BY <1>5, <1>6, <2>2, <2>4 DEF sq
    <3>3. rows'[sq].status = "ok"
      BY <1>6, <2>2, <2>4 DEF sq
    <3> QED
      BY <2>4, <3>1, <3>2, <3>3
  <2>5. CASE /\ up[r] \in {"okHq", "okSq", "okSqOnly", "errorHq", "errorSq"}
             /\ up'[r] \in {"okSqOnly", "errorSq", "end"}
             /\ \/ UNCHANGED rows
                \/ \E status \in {"ok", "error"} : UpdateStatus(t, q, r, status)
    <3>1. rows'[hq].id = rows[hq].id /\ rows'[sq].id = rows[sq].id
      BY <1>5, <2>2, <2>5
    <3> QED
      BY <1>6, <2>5, <3>1
  <2> QED
    BY <2>1, <2>3, <2>4, <2>5
<1> QED
  BY <1>9, <1>10, <1>11, <1>12 DEF UploadStep, Qualities

-----------------------------------------------------------------------------
(* The inductive invariant.                                                  *)

IInv == /\ TypeOK /\ PhaseOK /\ RowsOK /\ HeadOK /\ AloneOK
        /\ \A r \in Requests : Tried(r) /\ Best(r)

LEMMA Initially == Init => IInv
<1> SUFFICES ASSUME Init PROVE IInv
  OBVIOUS
<1>1. \A k \in Tracks \X Qualities : rows[k] = NoRow
  BY DEF Init
<1>2. \A r \in Requests : req[r] = NoReq /\ reply[r] = NoReply /\ up[r] = "none"
  BY DEF Init
<1>3. TypeOK
  <2>1. ATrack \in Tracks
    BY StreamingAssumption DEF ATrack
  <2>2. NoRow \in Rows /\ NoReply \in Replies
    BY DEF NoRow, NoReply, Rows, Replies, Qualities
  <2>3. <<>> \in Seq(Names)
    OBVIOUS
  <2>4. NoReq \in Reqs
    BY <2>1, <2>2, <2>3 DEF NoReq, Reqs, Ats, Qualities
  <2>5. req \in [Requests -> Reqs] /\ reply \in [Requests -> Replies]
    BY <2>2, <2>4 DEF Init
  <2>6. up \in [Requests -> Ups] /\ rows \in [Tracks \X Qualities -> Rows]
    BY <2>2 DEF Init, Ups
  <2>7. /\ stored \subseteq Tracks /\ vanished \subseteq Tracks /\ offers \subseteq Offers
        /\ consec \in 0..Threshold /\ faults \in 0..MaxFaults
    BY StreamingAssumption DEF Init
  <2>8. open \in BOOLEAN
    BY DEF Init
  <2> QED
    BY <2>5, <2>6, <2>7, <2>8, TypeParts
<1>4. PhaseOK
  BY <1>2 DEF PhaseOK, NoReq, NoReply
<1>5. RowsOK
  <2>1. \A t \in Tracks, q \in Qualities : rows[<<t, q>>].status # "ok"
    BY <1>1 DEF NoRow
  <2>2. \A k \in Tracks \X Qualities : rows[k].id = "none"
    BY <1>1 DEF NoRow
  <2>3. OkRowWasStored
    BY <2>1 DEF OkRowWasStored
  <2> QED
    BY <1>2, <2>2, <2>3 DEF RowsOK
<1>6. AloneOK
  BY <1>2 DEF AloneOK, Recorded
<1>7. \A r \in Requests : Tried(r) /\ Best(r)
  BY <1>2 DEF Tried, Best, NoReq, NoReply
<1>8. HeadOK
  BY <1>2 DEF HeadOK, HeadFine, NoReq
<1> QED
  BY <1>3, <1>4, <1>5, <1>6, <1>7, <1>8 DEF IInv

\* What leaves requests, uploads, rows and sources alone, and only moves files
\* from the storage to what it has lost.
LEMMA QuietStep ==
    ASSUME IInv, UNCHANGED <<req, reply, up, rows, offers>>, TypeOK', vanished \subseteq vanished',
           stored' \cup vanished' = stored \cup vanished
    PROVE  IInv'
<1>1. PhaseOK'
  BY DEF IInv, PhaseOK
<1>2. RowsOK'
  BY DEF IInv, RowsOK, OkRowWasStored
<1>3. AloneOK'
  <2> SUFFICES ASSUME NEW r \in Requests, Alone(r)'
               PROVE  Recorded(r)'
    BY DEF AloneOK
  <2>1. Alone(r)
    BY DEF Alone
  <2> QED
    BY <2>1 DEF IInv, AloneOK, Recorded
<1>4. ASSUME NEW r \in Requests
      PROVE  Tried(r)' /\ Best(r)'
  <2>1. Tried(r) /\ Best(r)
    BY DEF IInv
  <2>2. Tried(r)'
    BY <2>1 DEF Tried, TriedSome, Yield
  <2>3. Best(r)'
    BY <2>1 DEF Best, Yield
  <2> QED
    BY <2>2, <2>3
<1>5. HeadOK'
  BY DEF IInv, HeadOK, HeadFine
<1> QED
  BY <1>1, <1>2, <1>3, <1>4, <1>5 DEF IInv

LEMMA Inductive == IInv /\ [Next]_vars => IInv'
<1> SUFFICES ASSUME IInv, [Next]_vars PROVE IInv'
  OBVIOUS
<1>t. TypeOK /\ PhaseOK /\ RowsOK /\ HeadOK /\ AloneOK /\ \A r \in Requests : Tried(r) /\ Best(r)
  BY DEF IInv
<1>1. ASSUME NEW r \in Requests, RequestStep(r)
      PROVE  IInv'
  <2>1. \A s \in Requests : Tried(s)' /\ Best(s)'
    BY <1>t, <1>1, RequestStepBest, OthersBest
  <2> QED
    BY <1>t, <1>1, <2>1, RequestStepPhase, RequestStepRowsOK, RequestStepHead,
       RequestStepAlone DEF IInv
<1>2. ASSUME NEW r \in Requests, UploadStep(r)
      PROVE  IInv'
  <2>1. \A s \in Requests : Tried(s)' /\ Best(s)'
    BY <1>t, <1>2, UploadStepBest, OthersBest
  <2> QED
    BY <1>t, <1>2, <2>1, UploadStepPhase, UploadStepRowsOK, UploadStepHead,
       UploadStepAlone DEF IInv
<1>3. CASE Cooldown
  <2>1. TypeOK'
    BY <1>t, <1>3, TypeParts, TypePartsNext DEF Cooldown
  <2> QED
    BY <1>3, <2>1, QuietStep DEF Cooldown
<1>4. ASSUME NEW t \in Tracks, Vanish(t)
      PROVE  IInv'
  <2>1. TypeOK'
    <3>1. faults' \in 0..MaxFaults
      BY <1>t, <1>4, FaultTypes, TypeParts DEF Vanish
    <3> QED
      BY <1>t, <1>4, <3>1, TypeParts, TypePartsNext DEF Vanish
  <2> QED
    BY <1>4, <2>1, QuietStep DEF Vanish
<1>5. CASE UNCHANGED vars
  <2>1. TypeOK'
    BY <1>t, <1>5, TypeParts, TypePartsNext DEF vars
  <2> QED
    BY <1>5, <2>1, QuietStep DEF vars
<1> QED
  BY <1>1, <1>2, <1>3, <1>4, <1>5, NextSplit

-----------------------------------------------------------------------------
(* A request is answered once, and it and its upload come to an end.         *)

\* A request has ended when it was answered, and waits for its upload if it is to answer
\* with its outcome.
AnswerOK ==
    \A r \in Requests :
        /\ req[r].at = "end" <=> reply[r].what # "none"
        /\ up[r] = "post" /\ req[r].kind = "internal" => req[r].at = "again"

AnswersStay ==
    \A r \in Requests : reply[r].what # "none" => req'[r] = req[r] /\ reply'[r] = reply[r]

\* The steps a request has at most before it, with n sources left: its look-up, its HEAD,
\* the update of its row, one for every source, and the last look of the backend's request.
AtLeft(at, n) ==
    CASE at = "new"    -> 11
      [] at = "find"   -> 5 + n
      [] at = "verify" -> 4 + n
      [] at = "mark"   -> 3 + n
      [] at = "fetch"  -> 2 + n
      [] at = "again"  -> 1
      [] OTHER         -> 0
RequestLeft(r) == AtLeft(req[r].at, Len(req[r].left))

\* The steps its upload has at most: two inserts, the POST, two updates.
PhaseLeft(at) ==
    CASE at = "none"     -> 6
      [] at = "insertHq" -> 5
      [] at = "insertSq" -> 4
      [] at = "post"     -> 3
      [] at \in {"okHq", "errorHq"} -> 2
      [] at \in {"okSq", "okSqOnly", "errorSq"} -> 1
      [] OTHER -> 0
UploadLeft(r) == PhaseLeft(up[r])

RequestNearsEnd(r) ==
    /\ RequestLeft(r) \in 0..11 /\ UploadLeft(r) \in 0..6
    /\ RequestLeft(r)' <= RequestLeft(r) /\ UploadLeft(r)' <= UploadLeft(r)
    /\ RequestStep(r) => RequestLeft(r)' < RequestLeft(r)
    /\ UploadStep(r) => UploadLeft(r)' < UploadLeft(r)
RequestsNearEnd == \A r \in Requests : RequestNearsEnd(r)

\* What a request step does to the answer.
Speaks(r) ==
    /\ req[r].at # "end" /\ up[r] # "post"
    /\ \A s \in Requests \ {r} : req'[s] = req[s] /\ reply'[s] = reply[s] /\ up'[s] = up[s]
    /\ \/ req'[r].at # "end" /\ reply'[r] = reply[r]
       \/ req'[r].at = "end" /\ reply'[r].what # "none"
    /\ \/ up'[r] = up[r]
       \/ req'[r].kind = "internal" /\ up'[r] = "post" /\ req'[r].at = "again"
       \/ up'[r] # "post"

LEMMA VerifyInternalSpeaks ==
    ASSUME TypeOK, NEW r \in Requests, VerifyInternal(r)
    PROVE  \/ req'[r].at = "fetch" /\ UNCHANGED reply
           \/ req'[r].at = "end" /\ reply'[r].what # "none"
<1>1. /\ req[r].at \in {"verify", "again"}
      /\ \/ Goto(r, "fetch") /\ UNCHANGED reply
         \/ Answer(r, "cached", "hq") \/ Answer(r, "nostream", "hq")
  BY DEF VerifyInternal
<1>2. CASE Goto(r, "fetch") /\ UNCHANGED reply
  <2>1. req[r].at # "new" /\ "fetch" \in Ats \ {"new"}
    BY <1>1 DEF Ats
  <2> QED
    BY <1>2, <2>1, ProceedsByGoto
<1>3. ASSUME NEW what \in {"cached", "nostream"}, Answer(r, what, "hq")
      PROVE  req'[r].at = "end" /\ reply'[r].what # "none"
  <2>1. /\ req'[r].at = "end" /\ reply'[r] = [what |-> what, q |-> "hq"]
    BY <1>1, <1>3, ProceedsByAnswer DEF Qualities
  <2> QED
    BY <2>1
<1> QED
  BY <1>1, <1>2, <1>3

LEMMA RequestSpeaks ==
    ASSUME TypeOK, PhaseOK, NEW r \in Requests, RequestStep(r)
    PROVE  Speaks(r)
<1>1. ASSUME NEW t \in Tracks, NEW kind \in Kinds, Begin(r, t, kind)
      PROVE  Speaks(r)
  <2>1. UNCHANGED <<reply, up>>
    BY <1>1 DEF Begin
  <2> QED
    BY <1>1, <2>1, BeginFacts DEF Speaks, PhaseOK
<1>2. CASE Find(r)
  <2>1. UNCHANGED <<reply, up>>
    BY <1>2 DEF Find
  <2> QED
    BY <1>2, <2>1, FindFacts DEF Speaks, PhaseOK, Proceeds
<1>3. CASE Verify(r)
  <2>1. UNCHANGED up
    BY <1>3 DEF Verify
  <2> QED
    BY <1>3, <2>1, VerifyFacts DEF Speaks, PhaseOK, Proceeds
<1>7. CASE MarkMissing(r)
  BY <1>7, MarkMissingFacts DEF Speaks, PhaseOK, Proceeds
<1>4. CASE VerifyInternal(r)
  <2>1. UNCHANGED up
    BY <1>4 DEF VerifyInternal
  <2> QED
    BY <1>4, <2>1, VerifyInternalFacts, VerifyInternalSpeaks DEF Speaks, PhaseOK, Proceeds
<1>5. CASE TrySource(r)
  <2>1. req[r].at = "fetch"
    BY <1>5 DEF TrySource
  <2>2. CASE SourceFails(r)
    BY <2>1, <2>2 DEF SourceFails, Speaks, PhaseOK
  <2>3. CASE SourceDelivers(r)
    <3>1. up \in [Requests -> Ups]
      BY TypeParts
    <3> QED
      BY <2>1, <2>3, <3>1 DEF SourceDelivers, Speaks, PhaseOK, Proceeds
  <2> QED
    BY <1>5, <2>2, <2>3, TrySourceFacts
<1>6. CASE NoSource(r)
  <2>1. UNCHANGED up
    BY <1>6 DEF NoSource
  <2> QED
    BY <1>6, <2>1, NoSourceFacts DEF Speaks, PhaseOK, Proceeds
<1> QED
  BY <1>1, <1>2, <1>3, <1>4, <1>5, <1>6, <1>7 DEF RequestStep

\* An upload answers only the backend's request, which waits for it.
LEMMA UploadSpeaks ==
    ASSUME TypeOK, PhaseOK, AnswerOK, NEW r \in Requests, UploadStep(r)
    PROVE  /\ \A s \in Requests \ {r} : req'[s] = req[s] /\ reply'[s] = reply[s] /\ up'[s] = up[s]
           /\ \/ UNCHANGED <<req, reply>>
              \/ req[r].at = "again" /\ req'[r].at = "end" /\ reply'[r].what # "none"
           /\ req[r].kind = "internal" => up'[r] # "post"
           /\ req'[r].kind = req[r].kind
<1>1. CASE Post(r)
  <2>1. up[r] = "post" /\ req[r].at # "new"
    BY <1>1 DEF PhaseOK, Post
  <2>2. /\ \A s \in Requests \ {r} : up'[s] = up[s]
        /\ req[r].kind = "internal" => up'[r] = "end"
    BY <1>1, <2>1, PostFacts
  <2>3. CASE UNCHANGED <<req, reply>>
    BY <2>2, <2>3
  <2>4. CASE req[r].kind = "internal" /\ Answer(r, "data", "hq")
    <3>1. Proceeds(r) /\ req'[r].at = "end" /\ reply'[r] = [what |-> "data", q |-> "hq"]
      BY <2>1, <2>4, ProceedsByAnswer DEF Qualities
    <3>2. req[r].at = "again"
      BY <2>1, <2>4 DEF AnswerOK
    <3> QED
      BY <2>2, <3>1, <3>2 DEF Proceeds
  <2> QED
    BY <1>1, <2>3, <2>4 DEF Post
<1>2. ASSUME NEW q \in Qualities, Insert(r, q)
      PROVE  /\ UNCHANGED <<req, reply>> /\ req[r].kind # "internal"
             /\ \A s \in Requests \ {r} : up'[s] = up[s]
  <2>1. /\ UNCHANGED <<req, reply>> /\ up[r] \in {"insertHq", "insertSq"}
        /\ \A s \in Requests \ {r} : up'[s] = up[s]
    BY <1>2, InsertFacts
  <2> QED
    BY <2>1 DEF PhaseOK
<1>3. ASSUME NEW q \in Qualities, SetStatus(r, q)
      PROVE  /\ UNCHANGED <<req, reply>> /\ req[r].kind # "internal"
             /\ \A s \in Requests \ {r} : up'[s] = up[s]
  <2>1. /\ UNCHANGED <<req, reply>> /\ \A s \in Requests \ {r} : up'[s] = up[s]
        /\ up[r] \in {"okHq", "okSq", "okSqOnly", "errorHq", "errorSq"}
    BY <1>3, SetStatusFacts
  <2> QED
    BY <2>1 DEF PhaseOK
<1> QED
  BY <1>1, <1>2, <1>3 DEF UploadStep

LEMMA AnswerStep == IInv /\ AnswerOK /\ [Next]_vars => AnswerOK' /\ AnswersStay
<1> SUFFICES ASSUME IInv, AnswerOK, [Next]_vars PROVE AnswerOK' /\ AnswersStay
  OBVIOUS
<1>t. TypeOK /\ PhaseOK
  BY DEF IInv
<1>1. ASSUME NEW r \in Requests, RequestStep(r)
      PROVE  AnswerOK' /\ AnswersStay
  <2>1. Speaks(r)
    BY <1>t, <1>1, RequestSpeaks
  <2>2. reply[r].what = "none"
    BY <2>1 DEF Speaks, AnswerOK
  <2> QED
    BY <2>1, <2>2 DEF Speaks, AnswerOK, AnswersStay
<1>2. ASSUME NEW r \in Requests, UploadStep(r)
      PROVE  AnswerOK' /\ AnswersStay
  <2>1. /\ \A s \in Requests \ {r} : req'[s] = req[s] /\ reply'[s] = reply[s] /\ up'[s] = up[s]
        /\ \/ UNCHANGED <<req, reply>>
           \/ req[r].at = "again" /\ req'[r].at = "end" /\ reply'[r].what # "none"
        /\ req[r].kind = "internal" => up'[r] # "post"
        /\ req'[r].kind = req[r].kind
    BY <1>t, <1>2, UploadSpeaks
  <2> QED
    BY <2>1 DEF AnswerOK, AnswersStay
<1>3. CASE UNCHANGED <<req, reply, up>>
  BY <1>3 DEF AnswerOK, AnswersStay
<1> QED
  BY <1>1, <1>2, <1>3, NextSplit DEF Cooldown, Vanish, vars

LEMMA AnswersInvariant == Spec => [](IInv /\ AnswerOK)
<1>1. Init => AnswerOK
  BY DEF Init, AnswerOK, NoReq, NoReply
<1> QED
  BY <1>1, Initially, Inductive, AnswerStep, PTL DEF Spec

\* The measure.
LEMMA CascadeLength ==
    ASSUME NEW kind \in {"normal", "normalHq", "premium", "premiumHq", "internal"}
    PROVE  Len(Cascade(kind)) \in 0..5
<1>1. /\ Len(<<"oauth", "anon">>) = 2 /\ Len(<<"oauth", "anon", "cookies">>) = 3
      /\ Len(<<"cookiesHq", "oauthHq", "oauth", "cookies", "anon">>) = 5
      /\ Len(<<"cookiesHq", "cookies", "anon">>) = 3
  OBVIOUS
<1> QED
  BY <1>1 DEF Cascade

LEMMA LeftLength ==
    ASSUME IInv, NEW r \in Requests, req[r].at # "new"
    PROVE  Len(req[r].left) \in 0..5
<1> DEFINE all == Cascade(req[r].kind)
<1>1. all \in Seq(Names) /\ Len(all) \in 0..5
  BY AllOfCascade, CascadeLength, KindsOK, TypeParts, Fields DEF IInv
<1>2. PICK n \in 0..Len(all) : req[r].left = SubSeq(all, n + 1, Len(all))
  BY DEF IInv, Tried, TriedSome
<1> HIDE DEF all
<1>3. PICK m \in 0..5 : m = Len(all)
  BY <1>1
<1>4. Len(SubSeq(all, n + 1, m)) = IF n + 1 <= m THEN m - (n + 1) + 1 ELSE 0
  BY <1>1, <1>3, SubSeqProperties
<1>5. (IF n + 1 <= m THEN m - (n + 1) + 1 ELSE 0) \in 0..5
  BY <1>2, <1>3
<1> QED
  BY <1>2, <1>3, <1>4, <1>5

LEMMA AtLeftRange ==
    ASSUME NEW at, NEW n \in Nat
    PROVE  AtLeft(at, n) \in Nat /\ (n <= 5 => AtLeft(at, n) \in 0..11)
BY DEF AtLeft

LEMMA LeftRange ==
    ASSUME IInv, NEW r \in Requests
    PROVE  RequestLeft(r) \in 0..11 /\ UploadLeft(r) \in 0..6
<1>1. UploadLeft(r) \in 0..6
  BY DEF UploadLeft, PhaseLeft
<1>2. CASE req[r].at = "new"
  BY <1>1, <1>2 DEF RequestLeft, AtLeft
<1>3. ASSUME req[r].at # "new", NEW n \in 0..5, n = Len(req[r].left)
      PROVE  AtLeft(req[r].at, n) \in 0..11
  <2>1. n \in Nat /\ n <= 5
    OBVIOUS
  <2> QED
    BY <2>1, AtLeftRange, Zenon
<1> QED
  BY <1>1, <1>2, <1>3, LeftLength DEF RequestLeft

LEMMA Lower ==
    ASSUME NEW n \in Nat
    PROVE  /\ AtLeft("fetch", n) < AtLeft("mark", n) /\ AtLeft("mark", n) < AtLeft("verify", n)
           /\ AtLeft("fetch", n) < AtLeft("verify", n) /\ AtLeft("verify", n) < AtLeft("find", n)
           /\ AtLeft("fetch", n) < AtLeft("find", n)
           /\ \A at \in {"again", "end"} : AtLeft(at, n) < AtLeft("fetch", n)
           /\ AtLeft("end", n) < AtLeft("again", n) /\ AtLeft("end", n) < AtLeft("verify", n)
           /\ n <= 5 => \A at \in {"find", "verify"} : AtLeft(at, n) < AtLeft("new", 0)
           /\ \A m \in Nat : m < n => AtLeft("fetch", m) < AtLeft("fetch", n)
BY DEF AtLeft

LEMMA RequestNears ==
    ASSUME IInv, NEW r \in Requests, RequestStep(r)
    PROVE  RequestLeft(r)' < RequestLeft(r) /\ UploadLeft(r)' <= UploadLeft(r)
<1>t. /\ TypeOK /\ PhaseOK /\ req[r].left \in Seq(Names) /\ Len(req[r].left) \in Nat
      /\ req[r].at \in Ats
  BY TypeParts, Fields DEF IInv
<1>n. PICK n \in Nat : n = Len(req[r].left)
  BY <1>t
<1>s. ASSUME UNCHANGED up
      PROVE  UploadLeft(r)' <= UploadLeft(r)
  BY <1>s, LeftRange DEF UploadLeft
<1>p. ASSUME Proceeds(r)
      PROVE  RequestLeft(r)' = AtLeft(req'[r].at, n)
  BY <1>n, <1>p DEF RequestLeft, Proceeds
<1>r. RequestLeft(r) = AtLeft(req[r].at, n)
  BY <1>n DEF RequestLeft
<1>1. ASSUME NEW t \in Tracks, NEW kind \in Kinds, Begin(r, t, kind)
      PROVE  RequestLeft(r)' < RequestLeft(r) /\ UNCHANGED up
  <2>1. req[r].at = "new" /\ req'[r].at \in {"find", "verify"} /\ req'[r].left = Cascade(kind)
    BY <1>t, <1>1, BeginFacts
  <2>2. PICK m \in 0..5 : m = Len(Cascade(kind))
    BY CascadeLength, KindsOK
  <2>3. RequestLeft(r)' = AtLeft(req'[r].at, m) /\ RequestLeft(r) = AtLeft("new", n)
    BY <1>r, <2>1, <2>2 DEF RequestLeft
  <2>4. AtLeft("new", n) = AtLeft("new", 0)
    BY DEF AtLeft
  <2> QED
    BY <1>1, <2>1, <2>3, <2>4, Lower DEF Begin
<1>2. CASE Find(r)
  <2>1. UNCHANGED up
    BY <1>2 DEF Find
  <2>2. Proceeds(r) /\ req[r].at = "find" /\ req'[r].at \in {"verify", "fetch"}
    BY <1>t, <1>2, FindFacts
  <2> QED
    BY <1>s, <1>p, <1>r, <2>1, <2>2, Lower
<1>3. CASE Verify(r)
  <2>1. UNCHANGED up
    BY <1>3 DEF Verify
  <2>2. Proceeds(r) /\ req[r].at = "verify" /\ req'[r].at \in {"mark", "fetch", "end"}
    BY <1>t, <1>3, VerifyFacts
  <2> QED
    BY <1>s, <1>p, <1>r, <2>1, <2>2, Lower
<1>7. CASE MarkMissing(r)
  <2>1. UNCHANGED up /\ Proceeds(r) /\ req[r].at = "mark" /\ req'[r].at = "fetch"
    BY <1>t, <1>7, MarkMissingFacts
  <2> QED
    BY <1>s, <1>p, <1>r, <2>1, Lower
<1>4. CASE VerifyInternal(r)
  <2>1. UNCHANGED up
    BY <1>4 DEF VerifyInternal
  <2>2. /\ Proceeds(r)
        /\ \/ req[r].at = "verify" /\ req'[r].at = "fetch"
           \/ req[r].at \in {"verify", "again"} /\ req'[r].at = "end"
    BY <1>t, <1>4, VerifyInternalFacts
  <2> QED
    BY <1>s, <1>p, <1>r, <2>1, <2>2, Lower
<1>5. CASE TrySource(r)
  <2>1. req[r].at = "fetch" /\ req[r].left # <<>>
    BY <1>5 DEF TrySource
  <2>2. CASE SourceFails(r)
    <3>1. UNCHANGED up /\ req'[r].at = "fetch" /\ req'[r].left = Tail(req[r].left)
      BY <2>2 DEF SourceFails
    <3>2. Tail(req[r].left) \in Seq(Names) /\ Len(Tail(req[r].left)) = n - 1
      BY <1>t, <1>n, <2>1, HeadTailProperties
    <3>3. PICK m \in Nat : m = Len(Tail(req[r].left))
      BY <3>2
    <3>4. m < n
      BY <3>2, <3>3
    <3>5. RequestLeft(r)' = AtLeft("fetch", m)
      BY <3>1, <3>3 DEF RequestLeft
    <3> QED
      BY <1>s, <1>r, <2>1, <3>1, <3>4, <3>5, Lower
  <2>3. CASE SourceDelivers(r)
    <3>1. /\ Proceeds(r) /\ req'[r].at \in {"again", "end"}
          /\ up'[r] \in {"post", "insertHq", "end"}
      BY <2>3, TypeParts, <1>t DEF SourceDelivers
    <3>2. up[r] = "none"
      BY <1>t, <2>1 DEF PhaseOK
    <3>3. UploadLeft(r)' <= UploadLeft(r)
      BY <3>1, <3>2 DEF UploadLeft, PhaseLeft
    <3> QED
      BY <1>p, <1>r, <2>1, <3>1, <3>3, Lower
  <2> QED
    BY <1>t, <1>5, <2>2, <2>3, TrySourceFacts
<1>6. CASE NoSource(r)
  <2>1. UNCHANGED up
    BY <1>6 DEF NoSource
  <2>2. Proceeds(r) /\ req[r].at = "fetch" /\ req'[r].at \in {"again", "end"}
    BY <1>t, <1>6, NoSourceFacts
  <2> QED
    BY <1>s, <1>p, <1>r, <2>1, <2>2, Lower
<1> QED
  BY <1>s, <1>1, <1>2, <1>3, <1>4, <1>5, <1>6, <1>7 DEF RequestStep

LEMMA UploadNears ==
    ASSUME IInv, AnswerOK, NEW r \in Requests, UploadStep(r)
    PROVE  UploadLeft(r)' < UploadLeft(r) /\ RequestLeft(r)' <= RequestLeft(r)
<1>t. TypeOK /\ PhaseOK /\ Len(req[r].left) \in Nat
  BY TypeParts, Fields DEF IInv
<1>s. ASSUME UNCHANGED req
      PROVE  RequestLeft(r)' <= RequestLeft(r)
  BY <1>s, LeftRange DEF RequestLeft
<1>1. CASE Post(r)
  <2>1. up[r] = "post" /\ req[r].at # "new"
    BY <1>1, <1>t DEF PhaseOK, Post
  <2>2. /\ up'[r] \in {"end", "okHq", "errorHq"}
        /\ UNCHANGED req \/ (Proceeds(r) /\ req'[r].at = "end")
    BY <1>1, <1>t, <2>1, PostFacts
  <2>3. UploadLeft(r)' < UploadLeft(r)
    BY <2>1, <2>2 DEF UploadLeft, PhaseLeft
  <2>4. ASSUME Proceeds(r), req'[r].at = "end"
        PROVE  RequestLeft(r)' <= RequestLeft(r)
    <3>1. RequestLeft(r)' = 0
      BY <2>4 DEF RequestLeft, AtLeft
    <3> QED
      BY <3>1, LeftRange
  <2> QED
    BY <1>s, <2>2, <2>3, <2>4
<1>2. ASSUME NEW q \in Qualities, Insert(r, q)
      PROVE  UploadLeft(r)' < UploadLeft(r) /\ UNCHANGED req
  <2>1. /\ UNCHANGED req
        /\ up[r] = IF q = "hq" THEN "insertHq" ELSE "insertSq"
        /\ up'[r] \in {"end", IF q = "hq" THEN "insertSq" ELSE "post"}
    BY <1>t, <1>2, InsertFacts
  <2> QED
    BY <2>1 DEF UploadLeft, PhaseLeft
<1>3. ASSUME NEW q \in Qualities, SetStatus(r, q)
      PROVE  UploadLeft(r)' < UploadLeft(r) /\ UNCHANGED req
  <2>1. /\ UNCHANGED req
        /\ \/ up[r] \in {"okHq", "errorHq"} /\ up'[r] \in {"okSq", "okSqOnly", "errorSq"}
           \/ up[r] \in {"okSq", "okSqOnly", "errorSq"} /\ up'[r] \in {"stored", "end"}
    BY <1>t, <1>3, SetStatusFacts
  <2> QED
    BY <2>1 DEF UploadLeft, PhaseLeft
<1> QED
  BY <1>s, <1>1, <1>2, <1>3 DEF UploadStep

\* The rank of a request does not move with the steps of others.
LEMMA OthersLeft ==
    ASSUME IInv, NEW r \in Requests, req'[r] = req[r], up'[r] = up[r]
    PROVE  RequestLeft(r)' <= RequestLeft(r) /\ UploadLeft(r)' <= UploadLeft(r)
BY LeftRange DEF RequestLeft, UploadLeft

LEMMA LeftNext ==
    ASSUME TypeOK', NEW r \in Requests
    PROVE  RequestLeft(r)' \in Nat /\ UploadLeft(r)' \in Nat
<1>1. Len(req'[r].left) \in Nat
  BY DEF TypeOK
<1>2. PICK n \in Nat : n = Len(req'[r].left)
  BY <1>1
<1>3. AtLeft(req'[r].at, n) \in Nat
  BY AtLeftRange
<1>4. UploadLeft(r)' \in Nat
  BY DEF UploadLeft, PhaseLeft
<1> QED
  BY <1>2, <1>3, <1>4 DEF RequestLeft

LEMMA RequestsNear == IInv /\ AnswerOK /\ [Next]_vars => RequestsNearEnd
<1> SUFFICES ASSUME IInv, AnswerOK, [Next]_vars, NEW o \in Requests
             PROVE  RequestLeft(o)' <= RequestLeft(o) /\ UploadLeft(o)' <= UploadLeft(o)
  BY LeftRange, RequestNears, UploadNears DEF RequestsNearEnd, RequestNearsEnd
<1>t. TypeOK /\ PhaseOK
  BY DEF IInv
<1>n. RequestLeft(o)' \in Nat /\ UploadLeft(o)' \in Nat
  BY Inductive, LeftNext DEF IInv
<1>1. ASSUME NEW r \in Requests, RequestStep(r)
      PROVE  RequestLeft(o)' <= RequestLeft(o) /\ UploadLeft(o)' <= UploadLeft(o)
  <2>1. CASE o = r
    BY <1>1, <1>n, <2>1, RequestNears, LeftRange
  <2>2. CASE o # r
    BY <1>t, <1>1, <2>2, RequestStepPhase, OthersLeft
  <2> QED
    BY <2>1, <2>2
<1>2. ASSUME NEW r \in Requests, UploadStep(r)
      PROVE  RequestLeft(o)' <= RequestLeft(o) /\ UploadLeft(o)' <= UploadLeft(o)
  <2>1. CASE o = r
    BY <1>2, <1>n, <2>1, UploadNears, LeftRange
  <2>2. CASE o # r
    BY <1>t, <1>2, <2>2, UploadStepPhase, OthersLeft
  <2> QED
    BY <2>1, <2>2
<1>3. CASE UNCHANGED <<req, up>>
  BY <1>3, OthersLeft
<1> QED
  BY <1>1, <1>2, <1>3, NextSplit DEF Cooldown, Vanish, vars

-----------------------------------------------------------------------------
(* Theorems.                                                                 *)

\* Rows, requests, uploads and storage agree in every reachable state (the conjuncts of
\* IInv), whatever two plays of a track do to the same row of cdn_tracks.
THEOREM Invariant == Spec => []IInv
BY Initially, Inductive, PTL DEF Spec

\* No step takes a request, an answer, an upload, a row, the breaker's count or
\* what the storage has out of its type.
THEOREM TypeCorrect == Spec => []TypeOK
<1>1. IInv => TypeOK
  BY DEF IInv
<1> QED
  BY <1>1, Invariant, PTL

\* However the uploads of a track overlap, fail, are refused or update rows that
\* another one drew, a row of cdn_tracks that says ok is of files the storage has
\* or has lost since.
THEOREM OkRowsAreOfStoredFiles == Spec => []OkRowWasStored
<1>1. IInv => OkRowWasStored
  BY DEF IInv, RowsOK
<1> QED
  BY <1>1, Invariant, PTL

\* For every set of sources: "no stream" is answered only if none open to the
\* listener has the track, and a premium HQ request is answered with fetched SQ
\* only if none has HQ.
THEOREM TheBestSourceIsServed == Spec => []BestSourceServed
<1>1. IInv => BestSourceServed
  BY DEF IInv, Best, BestSourceServed
<1> QED
  BY <1>1, Invariant, PTL

\* An upload nothing competed with, which succeeded, has left both its rows ok
\* under the id its inserts drew, unless the file has been lost since.
THEOREM SingleUploadsAreRecorded == Spec => []SingleUploadIsRecorded
<1>1. IInv => SingleUploadIsRecorded
  <2> SUFFICES ASSUME IInv, NEW r \in Requests, Uploaded(r),
                      \A s \in Requests \ {r} : up[s] = "none", NEW q \in Qualities
               PROVE  rows[<<req[r].track, q>>] = [id |-> r, status |-> "ok"]
    BY DEF SingleUploadIsRecorded
  <2>1. up[r] = "stored" /\ req[r].track \notin vanished
    BY DEF Uploaded
  <2>2. Alone(r)
    BY <2>1 DEF IInv, PhaseOK, Alone
  <2>3. Recorded(r)
    BY <2>2 DEF IInv, AloneOK
  <2>4. rows[<<req[r].track, q>>].id = r /\ rows[<<req[r].track, q>>].status = "ok"
    BY <2>1, <2>3 DEF Recorded, Qualities
  <2>5. rows[<<req[r].track, q>>] \in Rows
    BY TypeParts, Fields DEF IInv
  <2>6. \A e \in Rows : e.id = r /\ e.status = "ok" => e = [id |-> r, status |-> "ok"]
    BY DEF Rows
  <2> QED
    BY <2>4, <2>5, <2>6
<1> QED
  BY <1>1, Invariant, PTL

\* A request ends with its answer and is answered once: neither the look at the storage
\* that follows a failed upload nor the upload that goes on behind the answer changes it.
THEOREM RequestsAreAnsweredOnce == Spec => []AnswerOK /\ [][AnswersStay]_vars
BY AnswersInvariant, AnswerStep, PTL DEF Spec

\* Every step of a request and of the upload it began brings it nearer to its end, at most
\* ten steps and six, and nothing that others do takes it back.
THEOREM RequestsApproachTheirEnd == Spec => [][RequestsNearEnd]_vars
BY AnswersInvariant, RequestsNear, PTL DEF Spec
===============================================================================
