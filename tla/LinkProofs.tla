------------------------------ MODULE LinkProofs ------------------------------
(***************************************************************************)
(* Proofs about Sessions, and about Link which adds calls to it, for any   *)
(* calls, sessions, links, users and tokens.                               *)
(*                                                                         *)
(* The inductive invariant of Sessions has four parts: StoreOK (the        *)
(* types), Standing (what a call has, by where it stands), MapOK (what an  *)
(* entry of refreshInFlight says of its leader) and OwnOK (every copy of a *)
(* session that is not torn, in the table or in a call, has tokens of its  *)
(* user).  The lemmas about the steps of a call do not fix the set of      *)
(* labels, so that they serve for the calls of Link too.                   *)
(*                                                                         *)
(* What Link adds to it is where a claim stands (ClaimStanding), which a   *)
(* step of Sessions keeps because it leaves the links alone, and that the  *)
(* entity a claim has read never says claimed.                             *)
(*                                                                         *)
(* The last sections are about every behaviour of both: a call that rides  *)
(* on a refresh is carried (its leader is at work, or has landed and left  *)
(* the map), calls of one refresh answer alike, and every call of tokens   *)
(* comes nearer to its end with each step.                                 *)
(***************************************************************************)
EXTENDS Link, TLAPS

TokenPC == {"lookup", "coalesce", "riding", "closing"} \cup Refreshing

Standing(c) ==
    /\ pc[c] = "idle" => /\ op[c] = "none" /\ sid[c] = None /\ ride[c] = None
                         /\ landed[c] = None /\ answer[c] = None
    /\ pc[c] \in TokenPC => op[c] \in {"token", "claim"} /\ sid[c] \in Session /\ answer[c] = None
    /\ pc[c] \in {"lookup", "coalesce"} => ride[c] = None /\ landed[c] = None
    /\ pc[c] \in Refreshing \cup {"closing"} => ride[c] = c /\ refreshInFlight[sid[c]] = c
    /\ pc[c] \in Refreshing => landed[c] = None
    /\ pc[c] = "closing" => landed[c] # None
    /\ pc[c] = "riding" => /\ ride[c] \in Call
                           /\ landed[ride[c]] # None \/ refreshInFlight[sid[c]] = ride[c]
    /\ pc[c] \in {"logout", "signout", "remove"} => op[c] = "logout" /\ sid[c] \in Session
    /\ pc[c] \in {"target", "store", "storing"} => op[c] = "login"
    /\ pc[c] = "storing" => sid[c] \in Session
    /\ pc[c] \in {"send", "save", "write", "signout", "remove", "target", "store", "storing"} =>
           copy[c] # Gone

MapOK ==
    \A s \in Session : LET f == refreshInFlight[s] IN
        f # None => pc[f] \in Refreshing \cup {"closing"} /\ sid[f] = s

Issued(e) == e # Gone => e.access \in issued /\ e.refresh \in issued
Owned(e)  == e # Gone => owner[e.access] = e.user /\ owner[e.refresh] = e.user
RowOwn(s) == Issued(row[s]) /\ (s \notin torn => Owned(row[s]))
CallOwn(c) ==
    /\ Issued(copy[c])
    /\ sid[c] \notin torn \/ op[c] = "login" => Owned(copy[c])
    /\ pc[c] \in {"write", "storing"} =>
           Issued(seen[c]) /\ (sid[c] \notin torn => Owned(seen[c]))
OwnOK == (\A s \in Session : RowOwn(s)) /\ (\A c \in Call : CallOwn(c))

\* What Sessions does but for a restart, whatever labels there are.
StoreStep ==
    \/ \E c \in Call : Begins(c) \/ CallStep(c)
    \/ \E n \in Token : Expire(n)

-----------------------------------------------------------------------------
(* Types.                                                                  *)

LEMMA Entities ==
    /\ Gone \notin Row
    /\ \A e \in Row \cup {Gone} : e # Gone => e \in Row
    /\ \A e \in Row : /\ e = [access |-> e.access, refresh |-> e.refresh, user |-> e.user]
                      /\ e.access \in Token /\ e.refresh \in Token /\ e.user \in User
    /\ \A a, r \in Token, u \in User : [access |-> a, refresh |-> r, user |-> u] \in Row
BY SessionsAssumption DEF Row, Gone

LEMMA UpdatedRow ==
    ASSUME NEW now \in Row, NEW was \in Row, NEW e \in Row
    PROVE  LET new == Updated(now, was, e) IN
           /\ new \in Row
           /\ new.access = IF e.access # was.access THEN e.access ELSE now.access
           /\ new.refresh = IF e.refresh # was.refresh THEN e.refresh ELSE now.refresh
           /\ new.user = IF e.user # was.user THEN e.user ELSE now.user
BY DEF Updated, Row

\* What a save leaves in the table.
LEMMA WrittenRow ==
    ASSUME StoreOK, NEW c \in Call, sid[c] \in Session, copy[c] # Gone, Written(c)
    PROVE  \E e \in Row \cup {Gone} :
              /\ row' = [row EXCEPT ![sid[c]] = e]
              /\ \/ row[sid[c]] = Gone /\ e \in {Gone, copy[c]} /\ UNCHANGED torn
                 \/ /\ row[sid[c]] \in Row /\ seen[c] \in Row
                    /\ e = Updated(row[sid[c]], seen[c], copy[c]) /\ e \in Row
                    /\ torn' = IF e.user # copy[c].user THEN torn \cup {sid[c]} ELSE torn
<1>1. copy[c] \in Row /\ row[sid[c]] \in Row \cup {Gone} /\ seen[c] \in Row \cup {Gone}
  BY Entities DEF StoreOK
<1>2. CASE row[sid[c]] = Gone
  BY <1>1, <1>2 DEF Written
<1>3. CASE row[sid[c]] # Gone
  <2>1. row[sid[c]] \in Row /\ seen[c] \in Row
    BY <1>1, <1>3, Entities DEF Written
  <2>2. Updated(row[sid[c]], seen[c], copy[c]) \in Row
    BY <1>1, <2>1, UpdatedRow
  <2> QED
    BY <1>3, <2>1, <2>2 DEF Written
<1> QED
  BY <1>2, <1>3

LEMMA WrittenType ==
    ASSUME StoreOK, NEW c \in Call, sid[c] \in Session, copy[c] # Gone, Written(c)
    PROVE  row' \in [Session -> Row \cup {Gone}] /\ torn' \in SUBSET Session
BY WrittenRow DEF StoreOK

LEMMA BeginsType ==
    ASSUME NEW Labels, PC \subseteq Labels, pc \in [Call -> Labels], StoreOK,
           NEW c \in Call, Begins(c)
    PROVE  StoreOK' /\ pc' \in [Call -> Labels]
<1> USE DEF StoreOK, Begin, Goto, PC, Refreshing, cloud, saving
<1>1. ASSUME NEW s \in used, GetToken(c, s)
      PROVE  StoreOK' /\ pc' \in [Call -> Labels]
  BY <1>1 DEF GetToken
<1>2. ASSUME NEW s \in used, Logout(c, s)
      PROVE  StoreOK' /\ pc' \in [Call -> Labels]
  BY <1>2 DEF Logout
<1>3. ASSUME NEW s \in used \cup {None}, NEW u \in User, NEW n \in Token, LoginReturns(c, s, u, n)
      PROVE  StoreOK' /\ pc' \in [Call -> Labels]
  BY <1>3, Entities DEF LoginReturns, Issue
<1> QED
  BY <1>1, <1>2, <1>3 DEF Begins

LEMMA TokenStepType ==
    ASSUME NEW Labels, PC \subseteq Labels, pc \in [Call -> Labels], StoreOK,
           NEW c \in Call, Standing(c), TokenStep(c)
    PROVE  StoreOK' /\ pc' \in [Call -> Labels]
<1> USE DEF StoreOK, Goto, PC, Refreshing, cloud, saving, TokenPC
<1>s. sid[c] \in Session /\ row[sid[c]] \in Row \cup {Gone}
  BY DEF Standing, TokenStep, Lookup, JoinRefresh, LeadRefresh, Find, SoundCloudRefreshes,
         SaveSelects, Save, Close, Answer
<1>1. CASE Lookup(c)
  BY <1>s, <1>1, Entities DEF Lookup, Return
<1>2. CASE JoinRefresh(c)
  BY <1>s, <1>2 DEF JoinRefresh
<1>3. CASE LeadRefresh(c)
  BY <1>s, <1>3 DEF LeadRefresh
<1>4. CASE Find(c)
  BY <1>s, <1>4 DEF Find, Land
<1>5. CASE SoundCloudRefreshes(c)
  <2>1. copy[c] \in Row
    BY <1>5, Entities DEF SoundCloudRefreshes, Standing
  <2>2. CASE Land(c, Err) /\ UNCHANGED <<copy, issued, owner, live, mishaps>>
    BY <1>5, <2>2 DEF SoundCloudRefreshes, Land
  <2>3. ASSUME NEW n \in Token, NEW rotates \in BOOLEAN,
               Issue(n, owner[copy[c].refresh]),
               live' = IF rotates THEN (live \ {copy[c].refresh}) \cup {n} ELSE live,
               copy' = [copy EXCEPT ![c] =
                               [access |-> n, user |-> copy[c].user,
                                refresh |-> IF rotates THEN n ELSE copy[c].refresh]],
               \/ Goto(c, "save") /\ UNCHANGED <<landed, mishaps>>
               \/ Land(c, Err) /\ mishaps < MaxMishaps /\ mishaps' = mishaps + 1
        PROVE  StoreOK' /\ pc' \in [Call -> Labels]
    <3>1. copy' \in [Call -> Row \cup {Gone}]
      <4>1. (IF rotates THEN n ELSE copy[c].refresh) \in Token
        BY <2>1, Entities
      <4>2. [access |-> n, user |-> copy[c].user,
             refresh |-> IF rotates THEN n ELSE copy[c].refresh] \in Row
        BY <2>1, <4>1, Entities DEF Row
      <4> QED
        BY <2>3, <4>2
    <3>2. issued' \in SUBSET Token /\ live' \in SUBSET issued' /\ expired' \in SUBSET issued'
      BY <1>5, <2>3 DEF Issue, SoundCloudRefreshes
    <3>3. owner' \in [Token -> User \cup {None}]
      BY <2>1, <2>3, Entities DEF Issue
    <3>4. pc' \in [Call -> Labels] /\ landed' \in [Call -> Token \cup {Err, None}]
          /\ mishaps' \in 0..MaxMishaps
      BY <2>3, SessionsAssumption DEF Land
    <3> QED
      BY <1>5, <3>1, <3>2, <3>3, <3>4 DEF SoundCloudRefreshes
  <2> QED
    BY <1>5, <2>2, <2>3 DEF SoundCloudRefreshes
<1>6. CASE Save(c)
  <2>1. copy[c] \in Row /\ copy[c].access \in Token
    BY <1>6, Entities DEF Save, Standing
  <2>2. row' \in [Session -> Row \cup {Gone}] /\ torn' \in SUBSET Session
    <3>1. CASE Written(c)
      BY <1>s, <2>1, <3>1, Entities, WrittenType
    <3> QED
      BY <1>6, <3>1 DEF Save
  <2>3. landed' \in [Call -> Token \cup {Err, None}] /\ pc' \in [Call -> Labels]
        /\ mishaps' \in 0..MaxMishaps
    BY <1>6, <2>1, SessionsAssumption DEF Save, Land
  <2> QED
    BY <1>6, <2>2, <2>3, Entities DEF Save
<1>7. CASE Close(c)
  BY <1>s, <1>7 DEF Close
<1>8. CASE Answer(c)
  BY <1>s, <1>8 DEF Answer, Return, Standing
<1>9. CASE SaveSelects(c)
  BY <1>s, <1>9 DEF SaveSelects
<1> QED
  BY <1>1, <1>2, <1>3, <1>4, <1>5, <1>6, <1>7, <1>8, <1>9 DEF TokenStep

LEMMA OtherStepType ==
    ASSUME NEW Labels, PC \subseteq Labels, pc \in [Call -> Labels], StoreOK,
           NEW c \in Call, Standing(c),
           \/ LogoutFind(c) \/ SignOut(c) \/ LogoutRemove(c)
           \/ LoginFindsTarget(c) \/ LoginStores(c) \/ LoginWrites(c)
    PROVE  StoreOK' /\ pc' \in [Call -> Labels]
<1> USE DEF StoreOK, Goto, PC, Refreshing, cloud, saving
<1>1. CASE LogoutFind(c)
  BY <1>1 DEF LogoutFind, Standing
<1>2. CASE SignOut(c)
  BY <1>2 DEF SignOut
<1>3. CASE LogoutRemove(c)
  BY <1>3, SessionsAssumption DEF LogoutRemove, QueryFails, Standing
<1>4. CASE LoginFindsTarget(c)
  BY <1>4 DEF LoginFindsTarget
<1>5. CASE LoginStores(c)
  <2>1. CASE QueryFails(c) /\ UNCHANGED <<row, sid, used, seen>>
    BY <1>5, <2>1, SessionsAssumption DEF LoginStores, QueryFails
  <2>2. ASSUME NEW s \in Session \ used, row' = [row EXCEPT ![s] = copy[c]],
               sid' = [sid EXCEPT ![c] = s], used' = used \cup {s}, Goto(c, "done"),
               UNCHANGED <<seen, mishaps>>
        PROVE  StoreOK' /\ pc' \in [Call -> Labels]
    BY <1>5, <2>2 DEF LoginStores
  <2>3. CASE sid[c] # None /\ seen' = [seen EXCEPT ![c] = row[sid[c]]] /\ Goto(c, "storing")
             /\ UNCHANGED <<row, sid, used, mishaps>>
    BY <1>5, <2>3 DEF LoginStores
  <2> QED
    BY <1>5, <2>1, <2>2, <2>3 DEF LoginStores
<1>6. CASE LoginWrites(c)
  <2>1. sid[c] \in Session /\ copy[c] # Gone
    BY <1>6 DEF LoginWrites, Standing
  <2>2. row' \in [Session -> Row \cup {Gone}] /\ torn' \in SUBSET Session
    <3>1. CASE Written(c)
      BY <2>1, <3>1, WrittenType
    <3> QED
      BY <1>6, <3>1 DEF LoginWrites
  <2>3. pc' \in [Call -> Labels] /\ mishaps' \in 0..MaxMishaps
    BY <1>6, SessionsAssumption DEF LoginWrites, QueryFails
  <2> QED
    BY <1>6, <2>2, <2>3 DEF LoginWrites
<1> QED
  BY <1>1, <1>2, <1>3, <1>4, <1>5, <1>6

LEMMA StoreStepType ==
    ASSUME NEW Labels, PC \subseteq Labels, pc \in [Call -> Labels], StoreOK,
           \A c \in Call : Standing(c), StoreStep
    PROVE  StoreOK' /\ pc' \in [Call -> Labels]
<1>1. ASSUME NEW n \in Token, Expire(n)
      PROVE  StoreOK' /\ pc' \in [Call -> Labels]
  BY <1>1 DEF Expire, StoreOK, callVars, saving
<1> QED
  BY <1>1, BeginsType, TokenStepType, OtherStepType DEF StoreStep, CallStep

-----------------------------------------------------------------------------
(* Where the calls stand.                                                  *)

\* A step of call c touches the locals of no other call, and refreshInFlight only to
\* enter c where nobody is, or to take c out.
OnlyOf(c) ==
    /\ \A o \in Call \ {c} : /\ pc'[o] = pc[o] /\ op'[o] = op[o] /\ sid'[o] = sid[o]
                             /\ copy'[o] = copy[o] /\ ride'[o] = ride[o]
                             /\ landed'[o] = landed[o] /\ answer'[o] = answer[o]
                             /\ seen'[o] = seen[o]
    /\ landed'[c] = landed[c] \/ landed'[c] # None
    /\ \/ UNCHANGED refreshInFlight
       \/ /\ refreshInFlight[sid[c]] = None
          /\ refreshInFlight' = [refreshInFlight EXCEPT ![sid[c]] = c]
       \/ /\ refreshInFlight[sid[c]] = c /\ landed[c] # None
          /\ refreshInFlight' = [refreshInFlight EXCEPT ![sid[c]] = None]

LEMMA CallStepShape ==
    ASSUME NEW Labels, pc \in [Call -> Labels], StoreOK,
           NEW c \in Call, Standing(c), Begins(c) \/ CallStep(c)
    PROVE  OnlyOf(c)
<1> USE SessionsAssumption DEF StoreOK, OnlyOf, Goto, Return, Begin, QueryFails, saving
<1>1. CASE Begins(c)
  BY <1>1 DEF Begins, GetToken, Logout, LoginReturns
<1>2. CASE Lookup(c) \/ JoinRefresh(c) \/ LeadRefresh(c) \/ Find(c) \/ Close(c) \/ Answer(c)
  BY <1>2 DEF Lookup, JoinRefresh, LeadRefresh, Find, Land, Close, Answer, Standing
<1>3. CASE SoundCloudRefreshes(c)
  BY <1>3 DEF SoundCloudRefreshes, Land
<1>4. CASE Save(c)
  BY <1>4, Entities DEF Save, Land, Standing
<1>5. CASE LogoutFind(c) \/ SignOut(c) \/ LogoutRemove(c) \/ LoginFindsTarget(c) \/ LoginStores(c)
  BY <1>5 DEF LogoutFind, SignOut, LogoutRemove, LoginFindsTarget, LoginStores
<1>6. CASE SaveSelects(c) \/ LoginWrites(c)
  BY <1>6 DEF SaveSelects, LoginWrites
<1> QED
  BY <1>1, <1>2, <1>3, <1>4, <1>5, <1>6 DEF CallStep, TokenStep

\* The other calls do not notice.
LEMMA OthersStand ==
    ASSUME StoreOK, MapOK, \A o \in Call : Standing(o), NEW c \in Call, OnlyOf(c),
           NEW o \in Call \ {c}
    PROVE  Standing(o)'
<1>1. Standing(o)
  OBVIOUS
<1>2. sid[o] \in Session /\ refreshInFlight[sid[o]] = o => refreshInFlight'[sid[o]] = o
  BY SessionsAssumption DEF OnlyOf, StoreOK
<1>3. /\ sid[o] \in Session /\ ride[o] \in Call
      /\ landed[ride[o]] # None \/ refreshInFlight[sid[o]] = ride[o]
      => landed'[ride[o]] # None \/ refreshInFlight'[sid[o]] = ride[o]
  <2>1. landed[ride[o]] # None /\ ride[o] \in Call => landed'[ride[o]] # None
    BY DEF OnlyOf
  <2>2. ASSUME sid[o] \in Session, ride[o] \in Call, refreshInFlight[sid[o]] = ride[o]
        PROVE  landed'[ride[o]] # None \/ refreshInFlight'[sid[o]] = ride[o]
    BY <2>2, <2>1, SessionsAssumption DEF OnlyOf, StoreOK
  <2> QED
    BY <2>1, <2>2
<1> QED
  BY <1>1, <1>2, <1>3 DEF Standing, OnlyOf, TokenPC, Refreshing

LEMMA CallStands ==
    ASSUME NEW Labels, pc \in [Call -> Labels], StoreOK, MapOK,
           NEW c \in Call, Standing(c), Begins(c) \/ CallStep(c)
    PROVE  Standing(c)'
<1> USE SessionsAssumption DEF StoreOK, Standing, Goto, Return, Begin, QueryFails, TokenPC,
        Refreshing
<1>1. CASE Begins(c)
  <2>1. ASSUME NEW s \in used, GetToken(c, s) \/ Logout(c, s)
        PROVE  Standing(c)'
    BY <2>1 DEF GetToken, Logout
  <2>2. ASSUME NEW s \in used \cup {None}, NEW u \in User, NEW n \in Token, LoginReturns(c, s, u, n)
        PROVE  Standing(c)'
    BY <2>2, Entities DEF LoginReturns
  <2> QED
    BY <1>1, <2>1, <2>2 DEF Begins
<1>2. CASE Lookup(c)
  BY <1>2 DEF Lookup
<1>3. CASE JoinRefresh(c)
  BY <1>3 DEF JoinRefresh
<1>4. CASE LeadRefresh(c)
  BY <1>4 DEF LeadRefresh
<1>5. CASE Find(c)
  BY <1>5 DEF Find, Land
<1>6. CASE SoundCloudRefreshes(c)
  <2>1. copy[c] \in Row
    BY <1>6, Entities DEF SoundCloudRefreshes
  <2>2. copy'[c] # Gone \/ pc'[c] = "closing"
    <3>1. ASSUME NEW n \in Token, NEW rotates \in BOOLEAN,
                 copy' = [copy EXCEPT ![c] =
                               [access |-> n, user |-> copy[c].user,
                                refresh |-> IF rotates THEN n ELSE copy[c].refresh]]
          PROVE  copy'[c] # Gone
      BY <3>1, <2>1 DEF Gone
    <3> QED
      BY <1>6, <3>1 DEF SoundCloudRefreshes, Land
  <2>3. \/ pc'[c] = "save" /\ landed' = landed
        \/ pc'[c] = "closing" /\ landed'[c] = Err
    <3>1. Land(c, Err) \/ (Goto(c, "save") /\ UNCHANGED landed)
      BY <1>6 DEF SoundCloudRefreshes
    <3> QED
      BY <3>1 DEF Land
  <2>4. UNCHANGED <<op, sid, ride, answer, refreshInFlight>>
    BY <1>6 DEF SoundCloudRefreshes
  <2> QED
    BY <1>6, <2>2, <2>3, <2>4 DEF SoundCloudRefreshes
<1>7. CASE Save(c)
  BY <1>7, Entities DEF Save, Land
<1>8. CASE Close(c)
  BY <1>8 DEF Close
<1>9. CASE Answer(c)
  BY <1>9 DEF Answer
<1>10. CASE LogoutFind(c) \/ SignOut(c) \/ LogoutRemove(c) \/ LoginFindsTarget(c)
  BY <1>10 DEF LogoutFind, SignOut, LogoutRemove, LoginFindsTarget
<1>11. CASE LoginStores(c) \/ LoginWrites(c)
  BY <1>11 DEF LoginStores, LoginWrites
<1>12. CASE SaveSelects(c)
  BY <1>12 DEF SaveSelects
<1> QED
  BY <1>1, <1>2, <1>3, <1>4, <1>5, <1>6, <1>7, <1>8, <1>9, <1>10, <1>11, <1>12
     DEF CallStep, TokenStep

\* The entry of a call stays as long as the call runs its refresh.
LEMMA MapStands ==
    ASSUME NEW Labels, pc \in [Call -> Labels], StoreOK, MapOK, \A o \in Call : Standing(o),
           NEW c \in Call, Begins(c) \/ CallStep(c)
    PROVE  MapOK'
<1> USE SessionsAssumption DEF StoreOK, Goto, Refreshing
<1>o. OnlyOf(c)
  BY CallStepShape
<1>1. CASE pc[c] \notin Refreshing \cup {"closing", "coalesce"}
  <2>1. UNCHANGED refreshInFlight
    BY <1>1 DEF Begins, CallStep, TokenStep, GetToken, Logout, LoginReturns, Lookup, JoinRefresh,
       LeadRefresh, Find, SoundCloudRefreshes, SaveSelects, Save, Close, Answer,
       LogoutFind, SignOut, LogoutRemove, LoginFindsTarget, LoginStores, LoginWrites
  <2> QED
    BY <1>o, <1>1, <2>1 DEF MapOK, OnlyOf
<1>2. CASE pc[c] \in Refreshing
  <2>1. UNCHANGED <<refreshInFlight, sid>> /\ pc'[c] \in Refreshing \cup {"closing"}
    BY <1>2 DEF Begins, Begin, CallStep, TokenStep, GetToken, Logout, LoginReturns, Lookup,
       JoinRefresh, LeadRefresh, Find, SoundCloudRefreshes, SaveSelects, Save, Close, Answer,
       LogoutFind, SignOut, LogoutRemove, LoginFindsTarget, LoginStores, LoginWrites, Land
  <2> QED
    BY <1>o, <2>1 DEF MapOK, OnlyOf
<1>3. CASE pc[c] = "closing"
  <2>1. Close(c)
    BY <1>3 DEF Begins, Begin, CallStep, TokenStep, GetToken, Logout, LoginReturns, Lookup,
       JoinRefresh, LeadRefresh, Find, SoundCloudRefreshes, SaveSelects, Save, Answer, LogoutFind,
       SignOut, LogoutRemove, LoginFindsTarget, LoginStores, LoginWrites
  <2> QED
    BY <1>o, <2>1 DEF MapOK, OnlyOf, Close
<1>4. CASE pc[c] = "coalesce"
  <2>1. JoinRefresh(c) \/ LeadRefresh(c)
    BY <1>4 DEF Begins, Begin, CallStep, TokenStep, GetToken, Logout, LoginReturns, Lookup,
       Find, SoundCloudRefreshes, SaveSelects, Save, Close, Answer, LogoutFind,
       SignOut, LogoutRemove, LoginFindsTarget, LoginStores, LoginWrites
  <2> QED
    BY <1>o, <1>4, <2>1 DEF MapOK, OnlyOf, JoinRefresh, LeadRefresh, Standing
<1> QED
  BY <1>1, <1>2, <1>3, <1>4

LEMMA StoreStepStands ==
    ASSUME NEW Labels, pc \in [Call -> Labels], StoreOK, MapOK, \A c \in Call : Standing(c),
           StoreStep
    PROVE  MapOK' /\ \A c \in Call : Standing(c)'
<1>1. ASSUME NEW n \in Token, Expire(n)
      PROVE  MapOK' /\ \A c \in Call : Standing(c)'
  BY <1>1 DEF Expire, callVars, MapOK, Standing
<1>2. ASSUME NEW c \in Call, Begins(c) \/ CallStep(c)
      PROVE  MapOK' /\ \A o \in Call : Standing(o)'
  <2>1. \A o \in Call \ {c} : Standing(o)'
    BY <1>2, CallStepShape, OthersStand
  <2> QED
    BY <1>2, <2>1, CallStands, MapStands
<1> QED
  BY <1>1, <1>2 DEF StoreStep

-----------------------------------------------------------------------------
(* Whose tokens a copy of a session has.                                   *)

\* What is issued stays issued, and to the same user.
LEMMA IssuedStays ==
    ASSUME StoreOK, StoreStep
    PROVE  issued \subseteq issued' /\ \A n \in issued : owner'[n] = owner[n]
<1>1. UNCHANGED <<issued, owner>> \/ \E n \in Token, u \in User \cup {None} : Issue(n, u)
  <2>1. ASSUME NEW c \in Call, Begins(c)
        PROVE  UNCHANGED <<issued, owner>> \/ \E n \in Token, u \in User \cup {None} : Issue(n, u)
    BY <2>1 DEF Begins, GetToken, Logout, LoginReturns, cloud
  <2>2. ASSUME NEW c \in Call, SoundCloudRefreshes(c)
        PROVE  UNCHANGED <<issued, owner>> \/ \E n \in Token, u \in User \cup {None} : Issue(n, u)
    BY <2>2 DEF SoundCloudRefreshes, StoreOK
  <2> QED
    BY <2>1, <2>2 DEF StoreStep, CallStep, TokenStep, Lookup, JoinRefresh, LeadRefresh, Find,
       SaveSelects, Save, Close, Answer, LogoutFind, SignOut, LogoutRemove, LoginFindsTarget,
       LoginStores, LoginWrites, Expire, cloud
<1>2. owner \in [Token -> User \cup {None}] /\ issued \in SUBSET Token
  BY DEF StoreOK
<1> QED
  BY <1>1, <1>2 DEF Issue

\* An entity that was issued its tokens, and owns them, still does.
LEMMA TokensStay ==
    ASSUME StoreOK, StoreStep, NEW e, Issued(e)
    PROVE  Issued(e)' /\ (Owned(e) => Owned(e)')
BY IssuedStays DEF Issued, Owned

\* A save of a call leaves tokens of one user in the session, or the session torn: where the
\* entity has changed its user it has changed both tokens too.
LEMMA WrittenOwns ==
    ASSUME StoreOK, OwnOK, NEW c \in Call, sid[c] \in Session, copy[c] # Gone, Written(c),
           pc[c] \in {"write", "storing"}
    PROVE  /\ torn \subseteq torn'
           /\ \A s \in Session : /\ Issued(row'[s])
                                 /\ s \notin torn' => Owned(row'[s])
<1> DEFINE s == sid[c]
<1>1. PICK e \in Row \cup {Gone} :
          /\ row' = [row EXCEPT ![s] = e]
          /\ \/ row[s] = Gone /\ e \in {Gone, copy[c]} /\ UNCHANGED torn
             \/ /\ row[s] \in Row /\ seen[c] \in Row
                /\ e = Updated(row[s], seen[c], copy[c]) /\ e \in Row
                /\ torn' = IF e.user # copy[c].user THEN torn \cup {s} ELSE torn
  BY WrittenRow
<1>2. torn \subseteq torn' /\ row'[s] = e /\ \A t \in Session \ {s} : row'[t] = row[t]
  BY <1>1 DEF StoreOK
<1>3. Issued(row[s]) /\ Issued(copy[c]) /\ Issued(seen[c])
  BY DEF OwnOK, RowOwn, CallOwn
<1>4. s \notin torn => Owned(row[s]) /\ Owned(copy[c]) /\ Owned(seen[c])
  BY DEF OwnOK, RowOwn, CallOwn
<1>5. Issued(e) /\ (s \notin torn' => Owned(e))
  <2>1. CASE row[s] = Gone /\ e \in {Gone, copy[c]}
    BY <1>2, <1>3, <1>4, <2>1 DEF Issued, Owned
  <2>2. CASE /\ row[s] \in Row /\ seen[c] \in Row
             /\ e = Updated(row[s], seen[c], copy[c]) /\ e \in Row
             /\ torn' = IF e.user # copy[c].user THEN torn \cup {s} ELSE torn
    <3>1. copy[c] \in Row /\ row[s] # Gone /\ seen[c] # Gone /\ copy[c] # Gone
      BY <2>2, Entities DEF StoreOK
    <3>2. /\ e.access = IF copy[c].access # seen[c].access THEN copy[c].access ELSE row[s].access
          /\ e.refresh = IF copy[c].refresh # seen[c].refresh THEN copy[c].refresh
                         ELSE row[s].refresh
          /\ e.user = IF copy[c].user # seen[c].user THEN copy[c].user ELSE row[s].user
      BY <2>2, <3>1, UpdatedRow
    <3>3. Issued(e)
      BY <1>3, <3>1, <3>2 DEF Issued
    <3>4. s \notin torn' => s \notin torn /\ e.user = copy[c].user
      BY <2>2
    <3>5. ASSUME s \notin torn, e.user = copy[c].user
          PROVE  owner[e.access] = e.user /\ owner[e.refresh] = e.user
      <4>1. /\ owner[copy[c].access] = copy[c].user /\ owner[copy[c].refresh] = copy[c].user
            /\ owner[seen[c].access] = seen[c].user /\ owner[seen[c].refresh] = seen[c].user
            /\ owner[row[s].access] = row[s].user /\ owner[row[s].refresh] = row[s].user
        BY <1>4, <3>1, <3>5 DEF Owned
      <4>2. CASE copy[c].user # seen[c].user
        BY <3>2, <4>1, <4>2
      <4>3. CASE copy[c].user = seen[c].user
        BY <3>2, <3>5, <4>1, <4>3
      <4> QED
        BY <4>2, <4>3
    <3> QED
      BY <3>3, <3>4, <3>5 DEF Owned
  <2> QED
    BY <1>1, <2>1, <2>2
<1> QED
  BY <1>2, <1>5 DEF OwnOK, RowOwn

\* The rows after a step.
LEMMA RowsOwn ==
    ASSUME NEW Labels, pc \in [Call -> Labels], StoreOK, OwnOK, \A c \in Call : Standing(c),
           StoreStep
    PROVE  /\ torn \subseteq torn'
           /\ \A s \in Session : RowOwn(s)'
<1> DEFINE RowsKept == /\ torn \subseteq torn'
                       /\ \A s \in Session : Issued(row'[s]) /\ (s \notin torn' => Owned(row'[s]))
<1>1. RowsKept
  <2>1. CASE UNCHANGED <<row, torn>>
    BY <2>1 DEF OwnOK, RowOwn
  <2>2. ASSUME NEW c \in Call, Save(c) \/ LoginWrites(c), Written(c)
        PROVE  RowsKept
    <3>1. sid[c] \in Session /\ copy[c] # Gone /\ pc[c] \in {"write", "storing"}
      BY <2>2 DEF Save, LoginWrites, Standing, TokenPC, Refreshing
    <3> QED
      BY <2>2, <3>1, WrittenOwns
  <2>3. ASSUME NEW c \in Call, LogoutRemove(c)
        PROVE  RowsKept
    BY <2>3 DEF LogoutRemove, OwnOK, RowOwn, StoreOK, saving, Issued, Owned
  <2>4. ASSUME NEW c \in Call, LoginStores(c)
        PROVE  RowsKept
    <3>1. Issued(copy[c]) /\ Owned(copy[c])
      BY <2>4 DEF LoginStores, OwnOK, CallOwn, Standing
    <3>2. UNCHANGED torn /\ \A s \in Session : row'[s] = row[s] \/ row'[s] = copy[c]
      BY <2>4 DEF LoginStores, StoreOK
    <3> QED
      BY <3>1, <3>2 DEF OwnOK, RowOwn
  <2>5. ASSUME NEW c \in Call, Begins(c)
        PROVE  UNCHANGED <<row, torn>>
    BY <2>5 DEF Begins, GetToken, Logout, LoginReturns, saving
  <2> QED
    BY <2>1, <2>2, <2>3, <2>4, <2>5 DEF StoreStep, CallStep, TokenStep, Lookup, JoinRefresh,
       LeadRefresh, Find, SoundCloudRefreshes, SaveSelects, Save, Close, Answer, LogoutFind,
       SignOut, LoginFindsTarget, LoginWrites, Expire, saving
<1> QED
  BY <1>1, TokensStay DEF RowOwn

\* A call that keeps its copy.
LEMMA CopyStays ==
    ASSUME StoreOK, StoreStep, NEW c \in Call, CallOwn(c), torn \subseteq torn',
           copy'[c] = copy[c],
           sid'[c] \notin torn' \/ op'[c] = "login" => sid[c] \notin torn \/ op[c] = "login",
           pc'[c] \in {"write", "storing"} =>
               pc'[c] = pc[c] /\ seen'[c] = seen[c] /\ sid'[c] = sid[c]
    PROVE  CallOwn(c)'
<1>1. Issued(copy[c])' /\ (Owned(copy[c]) => Owned(copy[c])')
  BY TokensStay DEF CallOwn, Issued, Owned
<1>2. ASSUME pc'[c] \in {"write", "storing"}
      PROVE  Issued(seen[c])' /\ (Owned(seen[c]) => Owned(seen[c])')
  BY <1>2, TokensStay DEF CallOwn, Issued, Owned
<1> QED
  BY <1>1, <1>2 DEF CallOwn

\* A call that reads the row of its session, into its copy or for its save.
LEMMA CopyRead ==
    ASSUME StoreOK, OwnOK, StoreStep, NEW c \in Call, sid[c] \in Session, torn \subseteq torn',
           sid'[c] = sid[c], op'[c] = op[c],
           \/ copy'[c] = row[sid[c]] /\ op[c] # "login" /\ pc'[c] \notin {"write", "storing"}
           \/ copy'[c] = copy[c] /\ seen'[c] = row[sid[c]]
    PROVE  CallOwn(c)'
<1>1. /\ Issued(row[sid[c]]) /\ (sid[c] \notin torn => Owned(row[sid[c]]))
      /\ Issued(copy[c]) /\ (sid[c] \notin torn \/ op[c] = "login" => Owned(copy[c]))
  BY DEF OwnOK, RowOwn, CallOwn
<1>2. CASE copy'[c] = row[sid[c]] /\ op[c] # "login" /\ pc'[c] \notin {"write", "storing"}
  <2>1. Issued(copy[c])' /\ (Owned(row[sid[c]]) => Owned(copy[c])')
    BY <1>1, <1>2, TokensStay DEF Issued, Owned
  <2> QED
    BY <1>1, <1>2, <2>1 DEF CallOwn
<1>3. CASE copy'[c] = copy[c] /\ seen'[c] = row[sid[c]]
  <2>1. Issued(copy[c])' /\ (Owned(copy[c]) => Owned(copy[c])')
    BY <1>1, <1>3, TokensStay DEF Issued, Owned
  <2>2. Issued(seen[c])' /\ (Owned(row[sid[c]]) => Owned(seen[c])')
    BY <1>1, <1>3, TokensStay DEF Issued, Owned
  <2> QED
    BY <1>1, <1>3, <2>1, <2>2 DEF CallOwn
<1> QED
  BY <1>2, <1>3

\* A refresh has new tokens of the same user.
LEMMA RefreshOwns ==
    ASSUME NEW Labels, pc \in [Call -> Labels], StoreOK, OwnOK, StoreStep, NEW c \in Call,
           Standing(c), SoundCloudRefreshes(c), torn \subseteq torn'
    PROVE  CallOwn(c)'
<1> USE DEF StoreOK, Goto
<1>0. copy[c] \in Row /\ CallOwn(c) /\ pc[c] = "send"
  BY Entities DEF SoundCloudRefreshes, Standing, OwnOK
<1>1. /\ copy[c] # Gone /\ copy[c].user \in User /\ copy[c].refresh \in Token
      /\ copy[c].refresh \in issued
      /\ sid[c] \notin torn \/ op[c] = "login" => owner[copy[c].refresh] = copy[c].user
  BY <1>0, Entities DEF Owned, Issued, CallOwn
<1>2. UNCHANGED <<sid, op>> /\ pc'[c] \notin {"write", "storing"}
  <2>1. Land(c, Err) \/ Goto(c, "save")
    BY DEF SoundCloudRefreshes
  <2> QED
    BY <2>1 DEF SoundCloudRefreshes, Land
<1>3. CASE UNCHANGED copy
  BY <1>0, <1>2, <1>3, CopyStays
<1>4. ASSUME NEW n \in Token, NEW r \in Token, Issue(n, owner[copy[c].refresh]),
             r = n \/ r = copy[c].refresh,
             copy' = [copy EXCEPT ![c] = [access |-> n, user |-> copy[c].user, refresh |-> r]]
      PROVE  CallOwn(c)'
  <2>1. /\ n \in issued' /\ r \in issued'
        /\ owner'[n] = owner[copy[c].refresh] /\ owner'[r] = owner[copy[c].refresh]
    BY <1>1, <1>4, IssuedStays DEF Issue
  <2>2. copy'[c] = [access |-> n, user |-> copy[c].user, refresh |-> r]
    BY <1>4
  <2>3. Issued(copy[c])'
    BY <2>1, <2>2 DEF Issued
  <2>4. sid'[c] \notin torn' \/ op'[c] = "login" => Owned(copy[c])'
    BY <1>1, <1>2, <2>1, <2>2 DEF Owned
  <2> QED
    BY <1>2, <2>3, <2>4 DEF CallOwn
<1> QED
  BY <1>1, <1>3, <1>4 DEF SoundCloudRefreshes

LEMMA CallOwns ==
    ASSUME NEW Labels, pc \in [Call -> Labels], StoreOK, OwnOK, StoreStep, NEW c \in Call,
           Standing(c), Begins(c) \/ CallStep(c), torn \subseteq torn'
    PROVE  CallOwn(c)'
<1> USE SessionsAssumption DEF StoreOK, Goto, Begin, Return
<1>0. CallOwn(c)
  BY DEF OwnOK
<1>1. ASSUME NEW s \in used, GetToken(c, s) \/ Logout(c, s)
      PROVE  CallOwn(c)'
  <2>1. /\ UNCHANGED copy /\ pc'[c] \notin {"write", "storing"} /\ sid[c] \notin torn
    BY <1>1 DEF GetToken, Logout, Standing
  <2> QED
    BY <1>0, <2>1, CopyStays
<1>2. ASSUME NEW s \in used \cup {None}, NEW u \in User, NEW n \in Token, LoginReturns(c, s, u, n)
      PROVE  CallOwn(c)'
  <2>1. /\ copy'[c] = [access |-> n, refresh |-> n, user |-> u] /\ owner'[n] = u /\ n \in issued'
        /\ pc'[c] = "target"
    BY <1>2 DEF LoginReturns, Issue
  <2> QED
    BY <2>1 DEF CallOwn, Issued, Owned
<1>3. CASE Lookup(c) \/ JoinRefresh(c) \/ LeadRefresh(c) \/ Close(c) \/ Answer(c) \/ SignOut(c)
           \/ LogoutRemove(c) \/ LoginFindsTarget(c) \/ LoginWrites(c)
  <2>1. /\ UNCHANGED copy /\ pc'[c] \notin {"write", "storing"}
        /\ UNCHANGED sid \/ (op[c] = "login" /\ UNCHANGED op)
    BY <1>3 DEF Lookup, JoinRefresh, LeadRefresh, Close, Answer, SignOut, LogoutRemove,
       LoginFindsTarget, LoginWrites, QueryFails, Standing
  <2> QED
    BY <1>0, <1>3, <2>1, CopyStays DEF Lookup, JoinRefresh, LeadRefresh, Close, Answer, SignOut,
       LogoutRemove, LoginFindsTarget, LoginWrites
<1>4. CASE Save(c)
  <2>1. UNCHANGED <<copy, sid, op>> /\ pc'[c] = "closing"
    BY <1>4 DEF Save, Land
  <2> QED
    BY <1>0, <2>1, CopyStays
<1>5. CASE Find(c) \/ LogoutFind(c)
  <2>1. /\ sid[c] \in Session /\ UNCHANGED <<sid, op>> /\ op[c] # "login"
        /\ pc'[c] \notin {"write", "storing"} /\ copy'[c] \in {copy[c], row[sid[c]]}
    BY <1>5 DEF Find, LogoutFind, Land, Standing, TokenPC, Refreshing
  <2> QED
    BY <1>0, <2>1, CopyStays, CopyRead
<1>6. CASE SaveSelects(c)
  BY <1>6, CopyRead DEF SaveSelects, Standing, TokenPC, Refreshing
<1>7. CASE LoginStores(c)
  <2>1. /\ UNCHANGED <<copy, op>> /\ op[c] = "login"
        /\ \/ pc'[c] \notin {"write", "storing"}
           \/ UNCHANGED sid /\ sid[c] \in Session /\ seen'[c] = row[sid[c]]
    BY <1>7 DEF LoginStores, QueryFails, Standing
  <2> QED
    BY <1>0, <2>1, CopyStays, CopyRead
<1> QED
  BY <1>1, <1>2, <1>3, <1>4, <1>5, <1>6, <1>7, RefreshOwns DEF Begins, CallStep, TokenStep

LEMMA StoreStepOwns ==
    ASSUME NEW Labels, pc \in [Call -> Labels], StoreOK, OwnOK, \A c \in Call : Standing(c),
           StoreStep
    PROVE  OwnOK'
<1>1. torn \subseteq torn' /\ \A s \in Session : RowOwn(s)'
  BY RowsOwn
<1>2. ASSUME NEW c \in Call, NEW d \in Call, Begins(d) \/ CallStep(d)
      PROVE  CallOwn(c)'
  <2>1. CASE c = d
    BY <1>1, <1>2, <2>1, CallOwns
  <2>2. CASE c # d
    <3>1. OnlyOf(d) /\ CallOwn(c)
      BY <1>2, CallStepShape DEF OwnOK
    <3> QED
      BY <1>1, <2>2, <3>1, CopyStays DEF OnlyOf
  <2> QED
    BY <2>1, <2>2
<1>3. ASSUME NEW c \in Call, NEW n \in Token, Expire(n)
      PROVE  CallOwn(c)'
  BY <1>1, <1>3, CopyStays DEF Expire, callVars, saving, OwnOK
<1> QED
  BY <1>1, <1>2, <1>3 DEF OwnOK, StoreStep

-----------------------------------------------------------------------------
(* Refreshes are single flights.                                           *)

\* A step of a call is one of the abstract flight steps, or none of them.
LEMMA StoreStepFlies ==
    ASSUME NEW Labels, PC \subseteq Labels, pc \in [Call -> Labels], StoreOK, MapOK,
           \A c \in Call : Standing(c), StoreStep
    PROVE  [Flights!Next]_(Flights!vars)
<1> USE SessionsAssumption DEF Flights!vars, Flights!Next, TokenPC, Refreshing
<1> DEFINE Key == [c \in Call |-> IF op[c] \in {"token", "claim"} THEN sid[c] ELSE None]
<1>k. \A c \in Call : Standing(c) /\ (pc[c] \in TokenPC => Key[c] = sid[c] /\ sid[c] \in Session)
  BY DEF Standing
<1>1. ASSUME NEW c \in Call, NEW s \in used, GetToken(c, s)
      PROVE  [Flights!Next]_(Flights!vars)
  <2>1. Flights!Ask(c, s)
    <3>1. Key[c] = None
      BY <1>1, <1>k DEF GetToken, Begin, Standing
    <3>2. Key' = [Key EXCEPT ![c] = s]
      BY <1>1 DEF GetToken, Begin, StoreOK
    <3> QED
      BY <1>1, <3>1, <3>2 DEF GetToken, Flights!Ask
  <2> QED
    BY <2>1 DEF StoreOK
<1>2. ASSUME NEW c \in Call, Lookup(c)
      PROVE  [Flights!Next]_(Flights!vars)
  <2>1. /\ Key[c] # None /\ ride[c] = None /\ answer[c] = None
        /\ UNCHANGED <<Key, ride, refreshInFlight, landed>>
    BY <1>2, <1>k DEF Lookup, Standing
  <2>2. ASSUME NEW o \in Token \cup {Err}, answer' = [answer EXCEPT ![c] = o]
        PROVE  [Flights!Next]_(Flights!vars)
    <3>1. Flights!Hit(c, o)
      BY <2>1, <2>2 DEF Flights!Hit
    <3> QED
      BY <3>1
  <2>3. row[sid[c]] # Gone => row[sid[c]].access \in Token
    BY <1>2, <1>k, Entities DEF Lookup, StoreOK
  <2>4. UNCHANGED answer \/ \E o \in Token \cup {Err} : answer' = [answer EXCEPT ![c] = o]
    BY <1>2, <2>3 DEF Lookup, Return
  <2> QED
    BY <2>1, <2>2, <2>4
<1>3. ASSUME NEW c \in Call, JoinRefresh(c)
      PROVE  [Flights!Next]_(Flights!vars)
  <2>1. Flights!Join(c)
    BY <1>3, <1>k DEF JoinRefresh, Standing, Flights!Join
  <2> QED
    BY <2>1
<1>4. ASSUME NEW c \in Call, LeadRefresh(c)
      PROVE  [Flights!Next]_(Flights!vars)
  <2>1. Flights!Lead(c)
    BY <1>4, <1>k DEF LeadRefresh, Standing, Flights!Lead
  <2> QED
    BY <2>1
<1>5. ASSUME NEW c \in Call, Find(c) \/ SoundCloudRefreshes(c) \/ Save(c)
      PROVE  [Flights!Next]_(Flights!vars)
  <2>1. /\ Key[c] # None /\ refreshInFlight[Key[c]] = c /\ landed[c] = None
        /\ UNCHANGED <<Key, ride, refreshInFlight, answer>>
    BY <1>5, <1>k DEF Find, SoundCloudRefreshes, Save, Standing
  <2>2. ASSUME NEW o \in Token \cup {Err}, landed' = [landed EXCEPT ![c] = o]
        PROVE  [Flights!Next]_(Flights!vars)
    <3>1. Flights!Land(c, o)
      BY <2>1, <2>2 DEF Flights!Land
    <3> QED
      BY <3>1
  <2>3. UNCHANGED landed \/ \E o \in Token \cup {Err} : landed' = [landed EXCEPT ![c] = o]
    <3>1. CASE Find(c)
      BY <3>1 DEF Find, Land
    <3>2. CASE SoundCloudRefreshes(c)
      BY <3>2 DEF SoundCloudRefreshes, Land
    <3>3. CASE Save(c)
      BY <3>3, <1>k, Entities DEF Save, Land, Standing, StoreOK
    <3> QED
      BY <1>5, <3>1, <3>2, <3>3
  <2> QED
    BY <2>1, <2>2, <2>3
<1>6. ASSUME NEW c \in Call, Close(c)
      PROVE  [Flights!Next]_(Flights!vars)
  <2>1. Flights!Close(c)
    BY <1>6, <1>k DEF Close, Standing, Flights!Close
  <2> QED
    BY <2>1
<1>7. ASSUME NEW c \in Call, Answer(c)
      PROVE  [Flights!Next]_(Flights!vars)
  <2>1. ride[c] # None /\ answer[c] = None /\ landed[ride[c]] # None
    BY <1>7, <1>k DEF Answer, Standing
  <2>2. Flights!Deliver(c)
    BY <1>7, <2>1 DEF Answer, Return, Flights!Deliver
  <2> QED
    BY <2>2
<1>8. ASSUME NEW c \in Call, NEW s \in used, Logout(c, s)
      PROVE  UNCHANGED Flights!vars
  <2>1. Key' = Key
    BY <1>8, <1>k DEF Logout, Begin, StoreOK, Standing
  <2> QED
    BY <1>8, <2>1 DEF Logout
<1>9. ASSUME NEW c \in Call, NEW s \in used \cup {None}, NEW u \in User, NEW n \in Token,
             LoginReturns(c, s, u, n)
      PROVE  UNCHANGED Flights!vars
  <2>1. Key' = Key
    BY <1>9, <1>k DEF LoginReturns, Begin, StoreOK, Standing
  <2> QED
    BY <1>9, <2>1 DEF LoginReturns
<1>10. ASSUME NEW c \in Call, LoginFindsTarget(c) \/ LoginStores(c)
       PROVE  UNCHANGED Flights!vars
  <2>1. Key' = Key
    BY <1>10, <1>k DEF LoginFindsTarget, LoginStores, StoreOK, Standing
  <2> QED
    BY <1>10, <2>1 DEF LoginFindsTarget, LoginStores
<1>11. ASSUME NEW c \in Call, \/ LogoutFind(c) \/ SignOut(c) \/ LogoutRemove(c)
                              \/ SaveSelects(c) \/ LoginWrites(c)
       PROVE  UNCHANGED Flights!vars
  BY <1>11 DEF LogoutFind, SignOut, LogoutRemove, SaveSelects, LoginWrites
<1>12. ASSUME NEW n \in Token, Expire(n)
       PROVE  UNCHANGED Flights!vars
  BY <1>12 DEF Expire, callVars
<1> QED
  BY <1>1, <1>2, <1>3, <1>4, <1>5, <1>6, <1>7, <1>8, <1>9, <1>10, <1>11, <1>12
     DEF StoreStep, Begins, CallStep, TokenStep

-----------------------------------------------------------------------------
(* Which refresh tokens are in use.                                        *)

Undisturbed == mishaps = 0 /\ used = SignedIn /\ \A c \in Call : op[c] # "logout"

\* The entity the call has read, or made, may still be sent or saved.
Holds(c) == pc[c] \in {"send", "save", "write", "target", "store", "storing"}

\* It is about to write a new refresh token.
Renews(c) == \/ pc[c] = "save"
             \/ pc[c] = "write" /\ seen[c].refresh # copy[c].refresh

LiveOK ==
    /\ \A c \in Call : Holds(c) => copy[c].refresh \in live
    /\ \A s \in Session : row[s] # Gone /\ row[s].refresh \notin live =>
           \E c \in Call : Renews(c) /\ sid[c] = s

\* A session that is being refreshed or overwritten is there.
KeptOK ==
    \A c \in Call :
        /\ \/ pc[c] \in {"send", "save", "write", "storing"}
           \/ pc[c] = "store" /\ sid[c] # None
           => row[sid[c]] # Gone
        /\ pc[c] \in {"write", "storing"} => seen[c] # Gone

\* No refresh token is in two places, but for a session and the call refreshing it.
ApartOK ==
    /\ \A s, t \in Session :
           row[s] # Gone /\ row[t] # Gone /\ row[s].refresh = row[t].refresh => s = t
    /\ \A c, d \in Call : Holds(c) /\ Holds(d) /\ copy[c].refresh = copy[d].refresh => c = d
    /\ \A c \in Call, s \in Session :
           Holds(c) /\ row[s] # Gone /\ row[s].refresh = copy[c].refresh =>
               pc[c] \in {"send", "save", "write"} /\ sid[c] = s

LiveInv ==
    /\ SignedIn \subseteq used
    /\ Undisturbed => LiveOK /\ KeptOK /\ ApartOK

\* A session that was disturbed stays so.
LEMMA DisturbedStays ==
    ASSUME NEW Labels, pc \in [Call -> Labels], StoreOK, \A c \in Call : Standing(c),
           LiveInv, StoreStep
    PROVE  SignedIn \subseteq used' /\ (Undisturbed' => Undisturbed)
<1> USE SessionsAssumption DEF LiveInv, StoreOK
<1>1. used \subseteq used' /\ mishaps' >= mishaps
  <2>1. ASSUME NEW c \in Call, Begins(c)
        PROVE  UNCHANGED <<used, mishaps>>
    BY <2>1 DEF Begins, GetToken, Logout, LoginReturns
  <2>2. ASSUME NEW c \in Call, CallStep(c)
        PROVE  used \subseteq used' /\ (mishaps' = mishaps \/ mishaps' = mishaps + 1)
    BY <2>2 DEF CallStep, TokenStep, Lookup, JoinRefresh, LeadRefresh, Find, SoundCloudRefreshes,
       SaveSelects, Save, Close, Answer, LogoutFind, SignOut, LogoutRemove, LoginFindsTarget,
       LoginStores, LoginWrites, QueryFails
  <2> QED
    BY <2>1, <2>2 DEF StoreStep, Expire
<1>2. ASSUME NEW c \in Call, op[c] = "logout"
      PROVE  op'[c] = "logout"
  <2>1. ASSUME NEW d \in Call, Begins(d) \/ CallStep(d)
        PROVE  op'[c] = "logout"
    BY <1>2, <2>1 DEF Begins, Begin, GetToken, Logout, LoginReturns, CallStep, TokenStep, Lookup,
       JoinRefresh, LeadRefresh, Find, SoundCloudRefreshes, SaveSelects, Save, Close, Answer,
       LogoutFind, SignOut, LogoutRemove, LoginFindsTarget, LoginStores, LoginWrites, Standing
  <2> QED
    BY <1>2, <2>1 DEF StoreStep, Expire, callVars
<1> QED
  BY <1>1, <1>2 DEF Undisturbed

\* A step that moves no token.
LEMMA LiveQuiet ==
    ASSUME LiveOK, ApartOK, UNCHANGED <<row, copy, live>>,
           \A c \in Call : /\ Holds(c)' <=> Holds(c)
                           /\ Renews(c) => Renews(c)'
                           /\ pc[c] \in {"send", "save", "write"} =>
                                  pc'[c] \in {"send", "save", "write"} /\ sid'[c] = sid[c]
    PROVE  LiveOK' /\ ApartOK'
<1>1. LiveOK'
  BY DEF LiveOK, Renews
<1>2. ApartOK'
  BY DEF ApartOK
<1> QED
  BY <1>1, <1>2

LEMMA TokensHeld ==
    ASSUME StoreOK, OwnOK, \A c \in Call : Standing(c)
    PROVE  /\ \A c \in Call : Holds(c) => copy[c] # Gone /\ copy[c].refresh \in issued
           /\ \A s \in Session : row[s] # Gone => row[s].refresh \in issued
BY DEF OwnOK, RowOwn, CallOwn, Issued, Standing, Holds

LEMMA LiveBegins ==
    ASSUME NEW Labels, pc \in [Call -> Labels], StoreOK, OwnOK, \A c \in Call : Standing(c),
           LiveOK, ApartOK, Undisturbed', NEW c \in Call, Begins(c)
    PROVE  LiveOK' /\ ApartOK'
<1> USE DEF StoreOK, Begin, Goto, cloud, saving
<1>1. ASSUME NEW s \in used, GetToken(c, s)
      PROVE  LiveOK' /\ ApartOK'
  BY <1>1, LiveQuiet DEF GetToken, Holds, Renews
<1>2. ASSUME NEW s \in used, Logout(c, s)
      PROVE  FALSE
  BY <1>2 DEF Logout, Undisturbed
<1>3. ASSUME NEW s \in used \cup {None}, NEW u \in User, NEW n \in Token, LoginReturns(c, s, u, n)
      PROVE  LiveOK' /\ ApartOK'
  <2>1. /\ n \notin issued /\ live' = live \cup {n} /\ UNCHANGED row /\ pc'[c] = "target"
        /\ pc[c] = "idle" /\ copy'[c] = [access |-> n, refresh |-> n, user |-> u]
        /\ \A d \in Call \ {c} : /\ pc'[d] = pc[d] /\ copy'[d] = copy[d] /\ sid'[d] = sid[d]
                                 /\ seen'[d] = seen[d]
    BY <1>3 DEF LoginReturns, Issue
  <2>2. copy'[c].refresh = n
    BY <2>1
  <2>3. LiveOK'
    BY <2>1, <2>2 DEF LiveOK, Holds, Renews
  <2>4. /\ \A d \in Call : Holds(d) => copy[d].refresh # n
        /\ \A t \in Session : row[t] # Gone => row[t].refresh # n
    BY <2>1, TokensHeld
  <2>5. \A d \in Call : Holds(d)' => d = c \/ (Holds(d) /\ copy'[d] = copy[d])
    BY <2>1 DEF Holds
  <2>6. \A d \in Call : Holds(d) => d # c
    BY <2>1 DEF Holds
  <2>7. ApartOK'
    <3>1. \A s1, t1 \in Session :
              row'[s1] # Gone /\ row'[t1] # Gone /\ row'[s1].refresh = row'[t1].refresh => s1 = t1
      BY <2>1 DEF ApartOK
    <3>2. \A d, e \in Call :
              Holds(d)' /\ Holds(e)' /\ copy'[d].refresh = copy'[e].refresh => d = e
      BY <2>2, <2>4, <2>5 DEF ApartOK
    <3>3. \A d \in Call, t \in Session :
              Holds(d)' /\ row'[t] # Gone /\ row'[t].refresh = copy'[d].refresh =>
                  pc'[d] \in {"send", "save", "write"} /\ sid'[d] = t
      BY <2>1, <2>2, <2>4, <2>5, <2>6 DEF ApartOK
    <3> QED
      BY <3>1, <3>2, <3>3 DEF ApartOK
  <2> QED
    BY <2>3, <2>7
<1> QED
  BY <1>1, <1>2, <1>3 DEF Begins

LEMMA LiveFind ==
    ASSUME NEW Labels, pc \in [Call -> Labels], StoreOK, OwnOK, \A c \in Call : Standing(c),
           LiveOK, ApartOK, NEW c \in Call, Find(c)
    PROVE  LiveOK' /\ ApartOK'
<1> USE DEF StoreOK, Goto, cloud, saving
<1> DEFINE s == sid[c]
<1>1. /\ s \in Session /\ UNCHANGED <<row, live, sid, seen>> /\ pc[c] = "find"
      /\ \A d \in Call \ {c} : pc'[d] = pc[d] /\ copy'[d] = copy[d]
  BY DEF Find, Land, Standing, TokenPC, Refreshing
<1>2. CASE pc'[c] = "closing"
  <2>1. UNCHANGED copy
    BY <1>2 DEF Find
  <2> QED
    BY <1>1, <1>2, <2>1, LiveQuiet DEF Holds, Renews
<1>3. CASE pc'[c] = "send" /\ row[s] # Gone /\ copy'[c] = row[s]
  <2>1. \A d \in Call \ {c} : pc[d] \in {"send", "save", "write"} => sid[d] # s
    BY <1>1, SessionsAssumption DEF Standing, Refreshing
  <2>2. row[s].refresh \in live
    BY <1>1, <1>3, <2>1 DEF LiveOK, Renews
  <2>3. LiveOK'
    BY <1>1, <1>3, <2>2 DEF LiveOK, Holds, Renews
  <2>4. \A d \in Call \ {c} : Holds(d) => copy[d].refresh # row[s].refresh
    BY <1>1, <1>3, <2>1 DEF ApartOK
  <2>5. ApartOK'
    BY <1>1, <1>3, <2>4 DEF ApartOK, Holds
  <2> QED
    BY <2>3, <2>5
<1> QED
  BY <1>1, <1>2, <1>3 DEF Find, Land

LEMMA LiveRefresh ==
    ASSUME NEW Labels, pc \in [Call -> Labels], StoreOK, OwnOK, \A c \in Call : Standing(c),
           LiveOK, ApartOK, Undisturbed', NEW c \in Call, SoundCloudRefreshes(c)
    PROVE  LiveOK' /\ ApartOK'
<1> USE DEF StoreOK, Goto, saving
<1>1. /\ sid[c] \in Session /\ UNCHANGED <<row, sid, seen>> /\ pc[c] = "send" /\ copy[c] # Gone
      /\ \A d \in Call \ {c} : pc'[d] = pc[d] /\ copy'[d] = copy[d]
  BY DEF SoundCloudRefreshes, Land, Standing, TokenPC, Refreshing
<1>2. CASE Land(c, Err) /\ UNCHANGED <<copy, issued, owner, live, mishaps>>
  <2>1. LiveOK'
    BY <1>1, <1>2 DEF LiveOK, Holds, Renews, Land
  <2>2. ApartOK'
    BY <1>1, <1>2 DEF ApartOK, Holds, Land
  <2> QED
    BY <2>1, <2>2
<1>3. ASSUME NEW n \in Token, NEW rotates \in BOOLEAN, n \notin issued,
             live' = IF rotates THEN (live \ {copy[c].refresh}) \cup {n} ELSE live,
             copy' = [copy EXCEPT ![c] =
                             [access |-> n, user |-> copy[c].user,
                              refresh |-> IF rotates THEN n ELSE copy[c].refresh]],
             Goto(c, "save")
      PROVE  LiveOK' /\ ApartOK'
  <2>1. pc'[c] = "save" /\ copy'[c].refresh = IF rotates THEN n ELSE copy[c].refresh
    BY <1>3
  <2>2. CASE ~rotates
    <3>1. live' = live /\ copy'[c].refresh = copy[c].refresh
      BY <1>3, <2>1, <2>2
    <3>2. LiveOK'
      BY <1>1, <2>1, <3>1 DEF LiveOK, Holds, Renews
    <3>3. ApartOK'
      BY <1>1, <2>1, <3>1 DEF ApartOK, Holds
    <3> QED
      BY <3>2, <3>3
  <2>3. CASE rotates
    <3>1. live' = (live \ {copy[c].refresh}) \cup {n} /\ copy'[c].refresh = n
      BY <1>3, <2>1, <2>3
    <3>2. \A d \in Call \ {c} : Holds(d) => copy[d].refresh # copy[c].refresh
      BY <1>1 DEF ApartOK, Holds
    <3>3. \A t \in Session : row[t] # Gone /\ row[t].refresh = copy[c].refresh => sid[c] = t
      BY <1>1 DEF ApartOK, Holds
    <3>4. LiveOK'
      <4>1. \A d \in Call : Holds(d)' => copy'[d].refresh \in live'
        BY <1>1, <2>1, <3>1, <3>2 DEF LiveOK, Holds
      <4>2. \A t \in Session : row'[t] # Gone /\ row'[t].refresh \notin live' =>
                \E d \in Call : Renews(d)' /\ sid'[d] = t
        BY <1>1, <2>1, <3>1, <3>3 DEF LiveOK, Renews
      <4> QED
        BY <4>1, <4>2 DEF LiveOK
    <3>5. ApartOK'
      BY <1>1, <1>3, <2>1, <3>1, TokensHeld DEF ApartOK, Holds
    <3> QED
      BY <3>4, <3>5
  <2> QED
    BY <2>2, <2>3
<1>4. ~(mishaps < MaxMishaps /\ mishaps' = mishaps + 1)
  BY SessionsAssumption DEF Undisturbed
<1> QED
  BY <1>2, <1>3, <1>4 DEF SoundCloudRefreshes, Issue

\* The select of a save: what the row has lost its refresh to, the call still has to write.
LEMMA LiveSelects ==
    ASSUME NEW Labels, pc \in [Call -> Labels], StoreOK, \A c \in Call : Standing(c),
           LiveOK, ApartOK, NEW c \in Call, SaveSelects(c)
    PROVE  LiveOK' /\ ApartOK'
<1> USE DEF StoreOK, Goto, cloud
<1>1. /\ sid[c] \in Session /\ UNCHANGED <<row, live, sid, copy>> /\ pc[c] = "save"
      /\ pc'[c] = "write" /\ seen'[c] = row[sid[c]]
      /\ \A d \in Call \ {c} : pc'[d] = pc[d] /\ seen'[d] = seen[d]
  BY DEF SaveSelects, Standing, TokenPC, Refreshing
<1>2. LiveOK'
  <2>1. copy[c].refresh \in live
    BY <1>1 DEF LiveOK, Holds
  <2>2. \A d \in Call : Renews(d) /\ d # c => Renews(d)'
    BY <1>1 DEF Renews
  <2>3. row[sid[c]].refresh \notin live => Renews(c)'
    BY <1>1, <2>1 DEF Renews
  <2> QED
    BY <1>1, <2>1, <2>2, <2>3 DEF LiveOK, Holds
<1>3. ApartOK'
  BY <1>1 DEF ApartOK, Holds
<1> QED
  BY <1>2, <1>3

\* What a call holds becomes the row of a session, which no other holder has; or the session
\* keeps its refresh token, and the call had no other to write.
LEMMA LiveStores ==
    ASSUME LiveOK, ApartOK, NEW c \in Call, NEW s \in Session, Holds(c), ~Holds(c)', NEW e,
           row \in [Session -> Row \cup {Gone}], row' = [row EXCEPT ![s] = e], row[s] # Gone,
           \/ e.refresh = copy[c].refresh
           \/ e.refresh = row[s].refresh /\ ~Renews(c),
           sid[c] = s, UNCHANGED <<copy, live>>,
           \A d \in Call \ {c} : pc'[d] = pc[d] /\ sid'[d] = sid[d] /\ seen'[d] = seen[d]
    PROVE  LiveOK' /\ ApartOK'
<1>1. row'[s] = e /\ \A t \in Session \ {s} : row'[t] = row[t]
  OBVIOUS
<1>2. \A d \in Call \ {c} : (Holds(d)' <=> Holds(d)) /\ (Renews(d)' <=> Renews(d))
  BY DEF Holds, Renews
<1>3. LiveOK'
  <2>1. \A d \in Call : Holds(d)' => copy'[d].refresh \in live'
    BY <1>2 DEF LiveOK
  <2>2. ASSUME NEW t \in Session, row'[t] # Gone, row'[t].refresh \notin live'
        PROVE  \E d \in Call : Renews(d)' /\ sid'[d] = t
    <3>1. copy[c].refresh \in live
      BY DEF LiveOK
    <3>2. row[t] # Gone /\ row[t].refresh \notin live /\ (t = s => ~Renews(c))
      BY <1>1, <2>2, <3>1
    <3>3. PICK d \in Call : Renews(d) /\ sid[d] = t
      BY <3>2 DEF LiveOK
    <3>4. d # c
      BY <3>2, <3>3
    <3> QED
      BY <1>2, <3>3, <3>4
  <2> QED
    BY <2>1, <2>2 DEF LiveOK
<1>4. ApartOK'
  <2>1. \A t \in Session \ {s} : row[t] # Gone => row[t].refresh # copy[c].refresh
    BY DEF ApartOK
  <2>2. \A t \in Session \ {s} : row[t] # Gone => row[t].refresh # e.refresh
    BY <2>1 DEF ApartOK
  <2>3. \A d \in Call \ {c} : Holds(d) => copy[d].refresh # copy[c].refresh
    BY DEF ApartOK
  <2>4. \A d \in Call \ {c} : Holds(d) /\ e.refresh = copy[d].refresh =>
            pc[d] \in {"send", "save", "write"} /\ sid[d] = s
    BY <2>3 DEF ApartOK
  <2>5. \A t, u \in Session :
            row'[t] # Gone /\ row'[u] # Gone /\ row'[t].refresh = row'[u].refresh => t = u
    BY <1>1, <2>2 DEF ApartOK
  <2>6. \A d, f \in Call :
            Holds(d)' /\ Holds(f)' /\ copy'[d].refresh = copy'[f].refresh => d = f
    BY <1>2 DEF ApartOK
  <2>7. ASSUME NEW d \in Call, NEW t \in Session,
               Holds(d)', row'[t] # Gone, row'[t].refresh = copy'[d].refresh
        PROVE  pc'[d] \in {"send", "save", "write"} /\ sid'[d] = t
    <3>1. d # c /\ Holds(d)
      BY <1>2, <2>7
    <3> QED
      BY <1>1, <2>4, <2>7, <3>1 DEF ApartOK
  <2> QED
    BY <2>5, <2>6, <2>7 DEF ApartOK
<1> QED
  BY <1>3, <1>4

\* Undisturbed, a save finds the row it has selected, and is written.
LEMMA LiveWrites ==
    ASSUME StoreOK, LiveOK, KeptOK, ApartOK, NEW c \in Call, pc[c] \in {"write", "storing"},
           sid[c] \in Session, copy[c] # Gone, Written(c), ~Holds(c)', UNCHANGED <<copy, live>>,
           \A d \in Call \ {c} : pc'[d] = pc[d] /\ sid'[d] = sid[d] /\ seen'[d] = seen[d]
    PROVE  LiveOK' /\ ApartOK' /\ \A s \in Session : row[s] # Gone => row'[s] # Gone
<1>1. row[sid[c]] # Gone /\ seen[c] # Gone /\ copy[c] \in Row
  BY Entities DEF KeptOK, StoreOK
<1>2. PICK e \in Row : /\ row' = [row EXCEPT ![sid[c]] = e] /\ row[sid[c]] \in Row
                       /\ seen[c] \in Row /\ e = Updated(row[sid[c]], seen[c], copy[c])
  BY <1>1, WrittenRow
<1>3. e.refresh = copy[c].refresh \/ (e.refresh = row[sid[c]].refresh /\ ~Renews(c))
  <2>1. e.refresh = IF copy[c].refresh # seen[c].refresh THEN copy[c].refresh
                    ELSE row[sid[c]].refresh
    BY <1>1, <1>2, UpdatedRow
  <2> QED
    BY <2>1 DEF Renews
<1>4. LiveOK' /\ ApartOK'
  BY <1>1, <1>2, <1>3, LiveStores DEF StoreOK, Holds
<1>5. \A s \in Session : row[s] # Gone => row'[s] # Gone
  BY <1>2, Entities DEF StoreOK
<1> QED
  BY <1>4, <1>5

\* No session goes while none is logged out.
LEMMA RowsStay ==
    ASSUME StoreOK, NEW c \in Call, Standing(c), KeptOK, Undisturbed, Begins(c) \/ CallStep(c),
           ~(mishaps < MaxMishaps /\ mishaps' = mishaps + 1)
    PROVE  \A s \in Session : row[s] # Gone => row'[s] # Gone
<1>1. CASE Save(c) \/ LoginWrites(c)
  <2>1. sid[c] \in Session /\ copy[c] # Gone /\ row[sid[c]] # Gone /\ seen[c] # Gone
    BY <1>1 DEF Save, LoginWrites, Standing, KeptOK, TokenPC, Refreshing
  <2>2. CASE Written(c)
    BY <2>1, <2>2, WrittenRow, Entities DEF StoreOK
  <2>3. CASE UNCHANGED row
    BY <2>3
  <2> QED
    BY <1>1, <2>2, <2>3 DEF Save, LoginWrites
<1>2. CASE LoginStores(c)
  <2>1. copy[c] # Gone
    BY <1>2 DEF LoginStores, Standing
  <2> QED
    BY <1>2, <2>1 DEF LoginStores, StoreOK
<1>3. CASE LogoutRemove(c)
  BY <1>3 DEF LogoutRemove, Standing, Undisturbed
<1>4. CASE Begins(c)
  BY <1>4 DEF Begins, GetToken, Logout, LoginReturns
<1> QED
  BY <1>1, <1>2, <1>3, <1>4 DEF CallStep, TokenStep, Lookup, JoinRefresh, LeadRefresh, Find,
     SoundCloudRefreshes, SaveSelects, Close, Answer, LogoutFind, SignOut, LoginFindsTarget

LEMMA CallKept ==
    ASSUME NEW Labels, pc \in [Call -> Labels], StoreOK, \A d \in Call : Standing(d), KeptOK,
           Undisturbed, Undisturbed', NEW c \in Call, Begins(c) \/ CallStep(c),
           ~(mishaps < MaxMishaps /\ mishaps' = mishaps + 1)
    PROVE  KeptOK'
<1> USE SessionsAssumption DEF StoreOK, Goto, Begin, Return
<1>1. \A s \in Session : row[s] # Gone => row'[s] # Gone
  BY RowsStay
<1>2. OnlyOf(c)
  BY CallStepShape
<1>3. \A d \in Call : pc[d] \in {"send", "save", "write", "storing"} => sid[d] \in Session
  BY DEF Standing, TokenPC, Refreshing
<1>4. ASSUME NEW d \in Call \ {c}
      PROVE  /\ \/ pc'[d] \in {"send", "save", "write", "storing"}
                \/ pc'[d] = "store" /\ sid'[d] # None
                => row'[sid'[d]] # Gone
             /\ pc'[d] \in {"write", "storing"} => seen'[d] # Gone
  BY <1>1, <1>2, <1>3 DEF KeptOK, OnlyOf
<1>5. /\ \/ pc'[c] \in {"send", "save", "write", "storing"}
         \/ pc'[c] = "store" /\ sid'[c] # None
         => row'[sid'[c]] # Gone
      /\ pc'[c] \in {"write", "storing"} => seen'[c] # Gone
  <2>1. CASE Begins(c)
    BY <2>1 DEF Begins, GetToken, Logout, LoginReturns
  <2>2. CASE Lookup(c) \/ JoinRefresh(c) \/ LeadRefresh(c) \/ Close(c) \/ Answer(c)
             \/ LogoutFind(c) \/ SignOut(c) \/ LogoutRemove(c)
    BY <2>2 DEF Lookup, JoinRefresh, LeadRefresh, Close, Answer, LogoutFind, SignOut, LogoutRemove,
       QueryFails
  <2>3. CASE Find(c)
    BY <2>3 DEF Find, Land
  <2>4. CASE SoundCloudRefreshes(c)
    <3>1. Land(c, Err) \/ Goto(c, "save")
      BY <2>4 DEF SoundCloudRefreshes
    <3>2. pc[c] = "send" /\ UNCHANGED <<row, sid>> /\ pc'[c] \in {"closing", "save"}
      BY <2>4, <3>1 DEF SoundCloudRefreshes, Land
    <3> QED
      BY <3>2 DEF KeptOK
  <2>5. CASE SaveSelects(c)
    BY <2>5 DEF SaveSelects, KeptOK
  <2>6. CASE Save(c) \/ LoginWrites(c)
    BY <2>6 DEF Save, LoginWrites, Land, QueryFails
  <2>7. CASE LoginFindsTarget(c)
    BY <2>7 DEF LoginFindsTarget
  <2>8. CASE LoginStores(c)
    BY <2>8 DEF LoginStores, QueryFails, KeptOK
  <2> QED
    BY <2>1, <2>2, <2>3, <2>4, <2>5, <2>6, <2>7, <2>8 DEF CallStep, TokenStep
<1> QED
  BY <1>4, <1>5 DEF KeptOK

LEMMA StoreStepLive ==
    ASSUME NEW Labels, pc \in [Call -> Labels], StoreOK, OwnOK, \A c \in Call : Standing(c),
           LiveInv, StoreStep
    PROVE  LiveInv'
<1>1. SignedIn \subseteq used' /\ (Undisturbed' => Undisturbed)
  BY DisturbedStays
<1> SUFFICES ASSUME Undisturbed, Undisturbed', LiveOK, KeptOK, ApartOK
             PROVE  LiveOK' /\ KeptOK' /\ ApartOK'
  BY <1>1 DEF LiveInv
<1>m. ~(mishaps < MaxMishaps /\ mishaps' = mishaps + 1)
  BY SessionsAssumption DEF Undisturbed, StoreOK
<1>k. KeptOK'
  <2>1. ASSUME NEW n \in Token, Expire(n)
        PROVE  KeptOK'
    BY <2>1 DEF Expire, callVars, saving, KeptOK
  <2> QED
    BY <1>m, <2>1, CallKept DEF StoreStep
<1> USE DEF StoreOK, Goto, Return, cloud
<1>2. ASSUME NEW c \in Call, Lookup(c) \/ JoinRefresh(c) \/ LeadRefresh(c) \/ Close(c) \/ Answer(c)
      PROVE  LiveOK' /\ ApartOK'
  BY <1>2, LiveQuiet DEF Lookup, JoinRefresh, LeadRefresh, Close, Answer, Holds, Renews, saving
<1>3. ASSUME NEW c \in Call, Save(c) \/ LoginWrites(c)
      PROVE  LiveOK' /\ ApartOK'
  <2>1. /\ pc[c] \in {"write", "storing"} /\ sid[c] \in Session /\ copy[c] # Gone
        /\ UNCHANGED <<copy, live, sid>>
        /\ \A d \in Call \ {c} : pc'[d] = pc[d] /\ seen'[d] = seen[d]
        /\ ~Holds(c)'
    BY <1>3 DEF Save, LoginWrites, Land, QueryFails, Standing, Holds, TokenPC, Refreshing
  <2>2. Written(c)
    <3>1. ~Conflicts(c)
      BY <2>1 DEF Conflicts, KeptOK
    <3> QED
      BY <1>3, <1>m, <3>1 DEF Save, LoginWrites, QueryFails
  <2> QED
    BY <2>1, <2>2, LiveWrites
<1>4. ASSUME NEW c \in Call, LogoutFind(c) \/ SignOut(c) \/ LogoutRemove(c)
      PROVE  FALSE
  BY <1>4 DEF LogoutFind, SignOut, LogoutRemove, Standing, Undisturbed
<1>5. ASSUME NEW c \in Call, LoginFindsTarget(c)
      PROVE  LiveOK' /\ ApartOK'
  BY <1>5, LiveQuiet DEF LoginFindsTarget, Holds, Renews, saving
<1>6. ASSUME NEW c \in Call, LoginStores(c)
      PROVE  LiveOK' /\ ApartOK'
  <2>1. sid[c] # None /\ seen' = [seen EXCEPT ![c] = row[sid[c]]] /\ Goto(c, "storing")
        /\ UNCHANGED <<row, sid>>
    BY <1>6, <1>m DEF LoginStores, QueryFails, Undisturbed
  <2> QED
    BY <1>6, <2>1, LiveQuiet DEF LoginStores, Holds, Renews
<1>7. ASSUME NEW n \in Token, Expire(n)
      PROVE  LiveOK' /\ ApartOK'
  BY <1>7, LiveQuiet DEF Expire, callVars, Holds, Renews, saving
<1> QED
  BY <1>k, <1>2, <1>3, <1>4, <1>5, <1>6, <1>7, LiveBegins, LiveFind, LiveRefresh, LiveSelects
     DEF StoreStep, CallStep, TokenStep

-----------------------------------------------------------------------------
(* The theorems.                                                           *)

IInv == TypeOK /\ MapOK /\ (\A c \in Call : Standing(c)) /\ OwnOK /\ LiveInv

LEMMA InitOwner ==
    ASSUME Init
    PROVE  /\ issued \in SUBSET Token /\ owner \in [Token -> User \cup {None}]
           /\ \A s \in SignedIn : FirstToken[s] \in issued /\ owner[FirstToken[s]] = FirstUser[s]
<1> USE SessionsAssumption DEF Init
<1>1. ASSUME NEW n \in issued
      PROVE  LET s == CHOOSE s \in SignedIn : FirstToken[s] = n
             IN  s \in SignedIn /\ FirstToken[s] = n
  BY <1>1
<1>2. issued \in SUBSET Token
  OBVIOUS
<1>3. owner \in [Token -> User \cup {None}]
  BY <1>1
<1>4. ASSUME NEW s \in SignedIn
      PROVE  FirstToken[s] \in issued /\ owner[FirstToken[s]] = FirstUser[s]
  <2>1. FirstToken[s] \in issued
    OBVIOUS
  <2>2. (CHOOSE t \in SignedIn : FirstToken[t] = FirstToken[s]) = s
    BY <1>1, <2>1
  <2> QED
    BY <2>1, <2>2
<1> QED
  BY <1>2, <1>3, <1>4

LEMMA IInvInit == Init => IInv
<1> SUFFICES ASSUME Init PROVE IInv
  OBVIOUS
<1> USE SessionsAssumption DEF Init
<1>1. \A s \in Session :
          \/ s \notin SignedIn /\ row[s] = Gone
          \/ /\ s \in SignedIn
             /\ row[s] = [access |-> FirstToken[s], refresh |-> FirstToken[s], user |-> FirstUser[s]]
             /\ row[s] \in Row /\ row[s] # Gone
             /\ row[s].access = FirstToken[s] /\ row[s].refresh = FirstToken[s]
             /\ row[s].user = FirstUser[s]
  BY Entities
<1>2. StoreOK
  BY <1>1, InitOwner, Entities DEF StoreOK
<1>3. pc \in [Call -> PC] /\ MapOK /\ \A c \in Call : Standing(c)
  BY DEF PC, MapOK, Standing, TokenPC, Refreshing
<1>4. OwnOK
  BY <1>1, InitOwner DEF OwnOK, RowOwn, CallOwn, Owned, Issued
<1>5. LiveInv
  <2>1. \A c \in Call : ~Holds(c)
    BY DEF Holds
  <2>2. LiveOK
    BY <1>1, <2>1, InitOwner DEF LiveOK
  <2>3. ApartOK
    BY <1>1, <2>1 DEF ApartOK
  <2>4. KeptOK
    BY DEF KeptOK
  <2> QED
    BY <2>2, <2>3, <2>4 DEF LiveInv
<1> QED
  BY <1>2, <1>3, <1>4, <1>5 DEF IInv, TypeOK

LEMMA RestartKeeps ==
    ASSUME IInv, Restart
    PROVE  IInv' /\ Flights!Abort
<1> USE SessionsAssumption DEF IInv, TypeOK, Restart, cloud, saving
<1>1. StoreOK'
  BY DEF StoreOK
<1>2. \A c \in Call : pc'[c] = pc[c] \/ pc'[c] = "dead"
  BY DEF StoreOK
<1>3. \A c \in Call : pc'[c] \in {"idle", "done", "dead"}
  BY DEF StoreOK
<1>4. pc' \in [Call -> PC] /\ MapOK'
  BY DEF PC, MapOK
<1>5. \A c \in Call : Standing(c)'
  BY <1>2, <1>3 DEF Standing, TokenPC, Refreshing
<1>6. OwnOK'
  BY <1>3 DEF OwnOK, RowOwn, CallOwn, Owned, Issued
<1>7. LiveInv'
  BY DEF LiveInv, Undisturbed, StoreOK
<1>8. Flights!Abort
  BY DEF Flights!Abort
<1> QED
  BY <1>1, <1>4, <1>5, <1>6, <1>7, <1>8

LEMMA NextSplit == Next => StoreStep \/ Restart
BY DEF Next, StoreStep

LEMMA IInvNext == IInv /\ [Next]_vars => IInv'
<1> SUFFICES ASSUME IInv, [Next]_vars PROVE IInv'
  OBVIOUS
<1>1. CASE StoreStep
  <2>1. StoreOK /\ pc \in [Call -> PC] /\ MapOK /\ (\A c \in Call : Standing(c)) /\ OwnOK /\ LiveInv
    BY DEF IInv, TypeOK
  <2>2. StoreOK' /\ pc' \in [Call -> PC]
    BY <1>1, <2>1, StoreStepType
  <2>3. MapOK' /\ \A c \in Call : Standing(c)'
    BY <1>1, <2>1, StoreStepStands
  <2>4. OwnOK' /\ LiveInv'
    BY <1>1, <2>1, StoreStepOwns, StoreStepLive
  <2> QED
    BY <2>2, <2>3, <2>4 DEF IInv, TypeOK
<1>2. CASE Restart
  BY <1>2, RestartKeeps
<1>3. CASE UNCHANGED vars
  BY <1>3 DEF vars, callVars, saving, cloud, IInv, TypeOK, StoreOK, MapOK, Standing, OwnOK, RowOwn,
     CallOwn, Owned, Issued, LiveInv, Undisturbed, LiveOK, KeptOK, ApartOK, Holds, Renews
<1> QED
  BY <1>1, <1>2, <1>3, NextSplit

LEMMA IInvAlways == Spec => []IInv
BY IInvInit, IInvNext, PTL DEF Spec

\* Every variable keeps its type.
THEOREM TypeCorrect == Spec => []TypeOK
BY IInvAlways, PTL DEF IInv

\* The tokens a session holds are its user's, whichever refreshes and logins overlap, but
\* where a save that had seen the user its entity has writes its tokens alone after a login
\* as somebody else: the only way in which two saves of a session mix.
THEOREM SessionsKeepTheirUser == Spec => []SessionBelongsToItsUser
<1>1. IInv => SessionBelongsToItsUser
  BY DEF IInv, OwnOK, RowOwn, Owned, SessionBelongsToItsUser
<1> QED
  BY <1>1, IInvAlways, PTL

\* While nothing has replaced or ended a session, no refresh is sent with a token that
\* an earlier one has ended.
THEOREM NoTokenIsSentTwice == Spec => []RefreshSendsLiveToken
<1>1. IInv => RefreshSendsLiveToken
  BY DEF IInv, LiveInv, LiveOK, Undisturbed, Holds, RefreshSendsLiveToken
<1> QED
  BY <1>1, IInvAlways, PTL

\* The refreshes of a session are single flights, whatever logins and logouts do.
THEOREM RefreshesAreSingleFlights == Spec => ImplementsSingleFlight
<1>1. Init => Flights!Init
  BY DEF Init, Flights!Init
<1>2. IInv /\ [Next]_vars => [Flights!Next]_(Flights!vars)
  <2> SUFFICES ASSUME IInv, [Next]_vars PROVE [Flights!Next]_(Flights!vars)
    OBVIOUS
  <2>1. CASE StoreStep
    <3>1. StoreOK /\ pc \in [Call -> PC] /\ MapOK /\ \A c \in Call : Standing(c)
      BY DEF IInv, TypeOK
    <3> QED
      BY <2>1, <3>1, StoreStepFlies
  <2>2. CASE Restart
    BY <2>2, RestartKeeps DEF Flights!Next
  <2>3. CASE UNCHANGED vars
    BY <2>3 DEF vars, callVars, Flights!vars
  <2> QED
    BY <2>1, <2>2, <2>3, NextSplit
<1> QED
  BY <1>1, <1>2, IInvAlways, PTL DEF Spec, ImplementsSingleFlight, Flights!Spec

-------------------------------------------------------------------------------
(* Link.                                                                       *)

\* A claim that has found its source session: it reads and copies that one.
HasSource == TokenPC \cup {"done", "copy", "link", "linking"}

ClaimStanding(c) ==
    /\ pc[c] \in {"claim", "lapse", "lapsing", "source"} =>
           /\ op[c] = "claim" /\ sid[c] = None /\ ride[c] = None /\ landed[c] = None
           /\ answer[c] = None /\ claims[c] \in Link
    /\ pc[c] \in {"lapse", "lapsing", "source"} => entity[c] \in LinkRow
    /\ pc[c] = "source" => entity[c].source \in Session
    /\ pc[c] \in HasSource /\ op[c] = "claim" =>
           /\ claims[c] \in Link /\ entity[c] \in LinkRow /\ sid[c] = entity[c].source
           /\ sid[c] \in Session
    /\ pc[c] \in {"copy", "link", "linking"} => op[c] = "claim" /\ copy[c] # Gone
    /\ entity[c].status # "claimed"

\* A step that leaves the calls of Sessions, and the sessions, where they are.
LinksAlone == \E l \in Link : \/ \E mode \in {"pull", "push"}, s \in used \cup {None} :
                                     CreateLink(l, mode, s)
                              \/ Lapse(l) \/ Cleanup(l)

Claims(c) == ClaimStep(c) \/ \E l \in Link, s \in used \cup {None} : Claim(c, l, s)

LEMMA LinkNextSplit ==
    LinkNext => \/ LinksAlone \/ \E c \in Call : Claims(c)
                \/ StoreStep /\ UNCHANGED linkVars
                \/ LinkRestart
BY DEF LinkNext, LinksAlone, Claims, StoreStep

LEMMA LinkRows ==
    /\ NoLink \notin LinkRow /\ NoLink.status = "none"
    /\ \A r \in LinkRow : /\ r.source \in Session \cup {None} /\ r.target \in Session \cup {None}
                          /\ r.status \in {"pending", "claimed", "failed"}
                          /\ [r EXCEPT !.status = "failed"] \in LinkRow
                          /\ [r EXCEPT !.status = "failed"].status = "failed"
    /\ \A r \in LinkRow, s \in Session :
           /\ [r EXCEPT !.source = s] \in LinkRow
           /\ [r EXCEPT !.source = s].source = s /\ [r EXCEPT !.source = s].status = r.status
    /\ \A r \in LinkRow, t \in Session \cup {None} :
           /\ [r EXCEPT !.status = "claimed", !.target = t] \in LinkRow
           /\ [r EXCEPT !.status = "claimed", !.target = t].source = r.source
           /\ [r EXCEPT !.status = "claimed", !.target = t].target = t
<1>1. NoLink.status = "none" /\ \A r \in LinkRow : r.status # "none"
  BY DEF NoLink, LinkRow
<1> QED
  BY <1>1 DEF LinkRow

LEMMA ClaimedRow ==
    ASSUME NEW c \in Call, entity[c] \in LinkRow, target[c] \in Session \cup {None}
    PROVE  /\ AsClaimed(c) \in LinkRow
           /\ AsClaimed(c).source = entity[c].source /\ AsClaimed(c).target = target[c]
BY DEF AsClaimed, LinkRow

\* What a save leaves of its link: the entity, or what was there, or a mixture of the two
\* that is counted as one if it says claimed.
LEMMA LinkWrittenRow ==
    ASSUME LinkTypeOK, NEW c \in Call, claims[c] \in Link, NEW e \in LinkRow, LinkWritten(c, e)
    PROVE  LET l == claims[c] IN
           /\ link' \in [Link -> LinkRow \cup {NoLink}]
           /\ mixed' \in SUBSET Link /\ mixed \subseteq mixed'
           /\ \A k \in Link \ {l} : link'[k] = link[k]
           /\ \/ link'[l] \in {NoLink, e, link[l]}
              \/ link'[l].status # "claimed" \/ l \in mixed'
<1> DEFINE l == claims[c]
<1>1. CASE link[l] = NoLink
  BY <1>1 DEF LinkWritten, LinkTypeOK
<1>2. CASE link[l] # NoLink
  <2> DEFINE new == LinkUpdated(link[l], linkSeen[c], e)
  <2>1. link[l] \in LinkRow /\ linkSeen[c] \in LinkRow
    BY <1>2 DEF LinkWritten, LinkTypeOK
  <2>2. new \in LinkRow
    BY <2>1 DEF LinkUpdated, LinkRow
  <2>3. /\ link' = [link EXCEPT ![l] = new]
        /\ mixed' = IF new.status = "claimed" /\ new \notin {e, link[l]}
                    THEN mixed \cup {l} ELSE mixed
    BY <1>2 DEF LinkWritten
  <2> HIDE DEF new
  <2> QED
    BY <2>2, <2>3 DEF LinkTypeOK
<1> QED
  BY <1>1, <1>2

LEMMA LinksAloneTypes ==
    ASSUME LinkTypeOK, LinksAlone
    PROVE  LinkTypeOK' /\ UNCHANGED vars
<1> USE DEF LinkTypeOK
<1>1. ASSUME NEW l \in Link, NEW mode \in {"pull", "push"}, NEW s \in used \cup {None},
             CreateLink(l, mode, s)
      PROVE  /\ link' \in [Link -> LinkRow \cup {NoLink}]
             /\ UNCHANGED <<vars, lapsed, claims, entity, target, linkSeen, mixed>>
  <2>1. [status |-> "pending", mode |-> mode, source |-> s, target |-> None] \in LinkRow
    BY DEF LinkRow, StoreOK
  <2> QED
    BY <1>1, <2>1 DEF CreateLink
<1>2. ASSUME NEW l \in Link, Lapse(l) \/ Cleanup(l)
      PROVE  /\ link' \in [Link -> LinkRow \cup {NoLink}] /\ lapsed' \in SUBSET Link
             /\ UNCHANGED <<vars, claims, entity, target, linkSeen, mixed>>
  BY <1>2 DEF Lapse, Cleanup
<1> QED
  BY <1>1, <1>2 DEF LinksAlone, vars, callVars, saving, cloud, StoreOK

\* What a claim has read when it goes on.
LEMMA ClaimReadsFacts ==
    ASSUME LinkTypeOK, NEW c \in Call, ClaimStanding(c), ClaimReads(c)
    PROVE  /\ pc' \in [Call -> LinkPC] /\ entity' \in [Call -> LinkRow \cup {NoLink}]
           /\ target' \in [Call -> Session \cup {None}]
           /\ \/ pc'[c] = "refused" /\ UNCHANGED entity
              \/ pc'[c] = "lapse" /\ entity'[c] \in LinkRow /\ entity'[c].status = "failed"
              \/ /\ pc'[c] = "source" /\ entity'[c] \in LinkRow
                 /\ entity'[c].status = "pending" /\ entity'[c].source \in Session
<1> USE DEF LinkTypeOK, LinkPC, PC, Refreshing, Goto
<1> DEFINE found == link[claims[c]]
           from  == IF found.mode = "pull" THEN target[c] ELSE found.source
<1>1. claims[c] \in Link /\ found \in LinkRow \cup {NoLink}
  BY DEF ClaimReads, ClaimStanding
<1>2. found.status = "pending" => found \in LinkRow /\ from \in Session \cup {None}
  BY <1>1, LinkRows
<1>3. \/ Goto(c, "refused") /\ UNCHANGED <<entity, target>>
      \/ /\ found.status = "pending"
         /\ entity' = [entity EXCEPT ![c] = [found EXCEPT !.status = "failed"]]
         /\ Goto(c, "lapse") /\ UNCHANGED target
      \/ /\ found.status = "pending" /\ from # None
         /\ entity' = [entity EXCEPT ![c] = [found EXCEPT !.source = from]]
         /\ target' = [target EXCEPT ![c] = None]
         /\ Goto(c, "source")
  BY DEF ClaimReads
<1> HIDE DEF found, from
<1>4. CASE Goto(c, "refused") /\ UNCHANGED <<entity, target>>
  BY <1>4
<1>5. CASE /\ found.status = "pending"
           /\ entity' = [entity EXCEPT ![c] = [found EXCEPT !.status = "failed"]]
           /\ Goto(c, "lapse") /\ UNCHANGED target
  <2>1. /\ [found EXCEPT !.status = "failed"] \in LinkRow
        /\ [found EXCEPT !.status = "failed"].status = "failed"
    BY <1>2, <1>5, LinkRows
  <2> QED
    BY <1>5, <2>1
<1>6. CASE /\ found.status = "pending" /\ from # None
           /\ entity' = [entity EXCEPT ![c] = [found EXCEPT !.source = from]]
           /\ target' = [target EXCEPT ![c] = None]
           /\ Goto(c, "source")
  <2>1. /\ [found EXCEPT !.source = from] \in LinkRow /\ from \in Session
        /\ [found EXCEPT !.source = from].source = from
        /\ [found EXCEPT !.source = from].status = "pending"
    BY <1>2, <1>6, LinkRows, ZenonT(60)
  <2> QED
    BY <1>6, <2>1
<1> QED
  BY <1>3, <1>4, <1>5, <1>6

LEMMA ClaimTypes ==
    ASSUME LinkTypeOK, NEW c \in Call, ClaimStanding(c), Claims(c)
    PROVE  LinkTypeOK'
<1> USE SessionsAssumption DEF LinkTypeOK, StoreOK, Goto, cloud, saving, LinkPC, PC, Refreshing
<1>1. ASSUME NEW l \in Link, NEW s \in used \cup {None}, Claim(c, l, s)
      PROVE  LinkTypeOK'
  BY <1>1 DEF Claim, Begin
<1>2. CASE ClaimReads(c)
  BY <1>2, ClaimReadsFacts DEF ClaimReads, SessionFrame
<1>3. CASE ClaimLapses(c)
  <2>1. entity[c] \in LinkRow /\ claims[c] \in Link
    BY <1>3 DEF ClaimLapses, ClaimStanding
  <2>2. link' \in [Link -> LinkRow \cup {NoLink}] /\ mixed' \in SUBSET Link
    <3>1. CASE LinkWritten(c, entity[c])
      BY <2>1, <3>1, LinkWrittenRow
    <3> QED
      BY <1>3, <3>1 DEF ClaimLapses
  <2> QED
    BY <1>3, <2>2 DEF ClaimLapses, SessionFrame
<1>4. CASE ClaimFindsSource(c)
  BY <1>4 DEF ClaimFindsSource, ClaimStanding, linkVars
<1>5. CASE ClaimRereads(c)
  <2>1. sid[c] \in Session
    BY <1>5 DEF ClaimRereads, ClaimStanding, HasSource
  <2> QED
    BY <1>5, <2>1 DEF ClaimRereads, linkVars
<1>6. CASE ClaimCopies(c)
  BY <1>6 DEF ClaimCopies
<1>7. CASE ClaimSaves(c)
  <2>1. entity[c] \in LinkRow /\ claims[c] \in Link
    BY <1>7 DEF ClaimSaves, ClaimStanding, HasSource
  <2>2. AsClaimed(c) \in LinkRow
    BY <2>1, LinkRows DEF AsClaimed
  <2>3. link' \in [Link -> LinkRow \cup {NoLink}] /\ mixed' \in SUBSET Link
    <3>1. CASE LinkWritten(c, AsClaimed(c))
      BY <2>1, <2>2, <3>1, LinkWrittenRow
    <3> QED
      BY <1>7, <3>1 DEF ClaimSaves
  <2>4. pc' \in [Call -> LinkPC] /\ mishaps' \in 0..MaxMishaps
    BY <1>7 DEF ClaimSaves, QueryFails
  <2> QED
    BY <1>7, <2>3, <2>4 DEF ClaimSaves
<1>8. CASE LinkSelects(c)
  <2>1. claims[c] \in Link
    BY <1>8 DEF LinkSelects, ClaimStanding, HasSource
  <2> QED
    BY <1>8, <2>1 DEF LinkSelects, SessionFrame
<1> QED
  BY <1>1, <1>2, <1>3, <1>4, <1>5, <1>6, <1>7, <1>8 DEF Claims, ClaimStep

-----------------------------------------------------------------------------
(* What a claim's own steps leave of the invariant.                        *)

LEMMA ClaimStands ==
    ASSUME LinkTypeOK, NEW c \in Call, Standing(c), ClaimStanding(c), Claims(c)
    PROVE  Standing(c)' /\ ClaimStanding(c)'
<1> USE SessionsAssumption DEF LinkTypeOK, StoreOK, Goto, Standing, ClaimStanding, TokenPC,
        Refreshing, HasSource
<1>1. ASSUME NEW l \in Link, NEW s \in used \cup {None}, Claim(c, l, s)
      PROVE  Standing(c)' /\ ClaimStanding(c)'
  BY <1>1 DEF Claim, Begin
<1>2. CASE ClaimReads(c)
  <2>1. /\ SessionFrame /\ UNCHANGED claims /\ pc[c] = "claim"
        /\ pc'[c] \in {"refused", "lapse", "source"}
    BY <1>2, ClaimReadsFacts DEF ClaimReads
  <2>2. /\ pc'[c] \in {"lapse", "source"} => entity'[c] \in LinkRow
        /\ pc'[c] = "source" => entity'[c].source \in Session
        /\ entity'[c].status # "claimed"
    BY <1>2, ClaimReadsFacts
  <2> QED
    BY <2>1, <2>2 DEF SessionFrame
<1>3. CASE ClaimLapses(c)
  BY <1>3 DEF ClaimLapses, SessionFrame
<1>4. CASE ClaimFindsSource(c)
  BY <1>4 DEF ClaimFindsSource, linkVars
<1>5. CASE ClaimRereads(c)
  BY <1>5 DEF ClaimRereads, linkVars
<1>6. CASE ClaimCopies(c)
  BY <1>6 DEF ClaimCopies
<1>7. CASE ClaimSaves(c)
  BY <1>7 DEF ClaimSaves, QueryFails
<1>8. CASE LinkSelects(c)
  BY <1>8 DEF LinkSelects, SessionFrame
<1> QED
  BY <1>1, <1>2, <1>3, <1>4, <1>5, <1>6, <1>7, <1>8 DEF Claims, ClaimStep

LEMMA ClaimOthers ==
    ASSUME LinkTypeOK, NEW c \in Call, Claims(c), ClaimStanding(c)
    PROVE  /\ \A o \in Call \ {c} :
                 /\ pc'[o] = pc[o] /\ op'[o] = op[o] /\ sid'[o] = sid[o] /\ copy'[o] = copy[o]
                 /\ claims'[o] = claims[o] /\ entity'[o] = entity[o] /\ target'[o] = target[o]
                 /\ seen'[o] = seen[o]
           /\ UNCHANGED <<ride, landed, answer, refreshInFlight, cloud>>
           /\ pc[c] \notin Refreshing \cup {"closing", "claimed", "dead"}
<1> USE DEF LinkTypeOK, StoreOK, Goto, Refreshing, saving
<1>1. ASSUME NEW l \in Link, NEW s \in used \cup {None}, Claim(c, l, s)
      PROVE  /\ \A o \in Call \ {c} :
                   /\ pc'[o] = pc[o] /\ op'[o] = op[o] /\ sid'[o] = sid[o] /\ copy'[o] = copy[o]
                   /\ claims'[o] = claims[o] /\ entity'[o] = entity[o] /\ target'[o] = target[o]
                   /\ seen'[o] = seen[o]
             /\ UNCHANGED <<ride, landed, answer, refreshInFlight, cloud>>
             /\ pc[c] \notin Refreshing \cup {"closing", "claimed", "dead"}
  BY <1>1 DEF Claim, Begin
<1>2. CASE ClaimStep(c)
  BY <1>2 DEF ClaimStep, ClaimReads, SessionFrame, ClaimLapses, ClaimFindsSource, ClaimRereads,
     ClaimCopies, LinkSelects, ClaimSaves, QueryFails, linkVars
<1> QED
  BY <1>1, <1>2 DEF Claims

LEMMA ClaimOwns ==
    ASSUME LinkTypeOK, OwnOK, NEW c \in Call, Standing(c), ClaimStanding(c), Claims(c)
    PROVE  OwnOK'
<1> USE SessionsAssumption DEF LinkTypeOK, StoreOK, Goto
<1>1. /\ UNCHANGED <<issued, owner>>
      /\ \A d \in Call \ {c} : /\ pc'[d] = pc[d] /\ op'[d] = op[d] /\ sid'[d] = sid[d]
                               /\ copy'[d] = copy[d] /\ seen'[d] = seen[d]
  BY ClaimOthers DEF cloud
<1>2. torn \subseteq torn' /\ \A s \in Session : RowOwn(s)'
  <2>1. CASE ClaimCopies(c)
    <3>1. Issued(copy[c]) /\ (sid[c] \notin torn => Owned(copy[c]))
      BY DEF OwnOK, CallOwn
    <3>2. PICK t \in Session \ used :
              /\ row' = [row EXCEPT ![t] = copy[c]]
              /\ torn' = IF sid[c] \in torn THEN torn \cup {t} ELSE torn
      BY <2>1 DEF ClaimCopies
    <3> QED
      BY <1>1, <3>1, <3>2 DEF OwnOK, RowOwn, Issued, Owned
  <2>2. CASE UNCHANGED <<row, torn>>
    BY <1>1, <2>2 DEF OwnOK, RowOwn, Issued, Owned
  <2> QED
    BY <2>1, <2>2 DEF Claims, ClaimStep, Claim, ClaimReads, SessionFrame, ClaimLapses,
       ClaimFindsSource, ClaimRereads, LinkSelects, ClaimSaves, saving
<1>3. CallOwn(c)'
  <2>1. Issued(copy[c]) /\ (sid[c] \notin torn => Owned(copy[c]))
    BY DEF OwnOK, CallOwn
  <2>2. pc'[c] \notin {"write", "storing"} /\ op'[c] # "login"
    BY ClaimOthers DEF Claims, ClaimStep, Claim, Begin, ClaimReads, SessionFrame, ClaimLapses,
       ClaimFindsSource, ClaimRereads, ClaimCopies, LinkSelects, ClaimSaves, QueryFails,
       ClaimStanding, HasSource
  <2>3. CASE ClaimRereads(c)
    <3>1. sid[c] \in Session /\ UNCHANGED sid
      BY <2>3 DEF ClaimRereads, ClaimStanding, HasSource
    <3>2. Issued(row[sid[c]]) /\ (sid[c] \notin torn => Owned(row[sid[c]]))
      BY <3>1 DEF OwnOK, RowOwn
    <3>3. copy'[c] = copy[c] \/ copy'[c] = row[sid[c]]
      BY <2>3 DEF ClaimRereads
    <3> QED
      BY <1>1, <1>2, <2>1, <2>2, <3>1, <3>2, <3>3 DEF CallOwn, Issued, Owned
  <2>4. CASE UNCHANGED copy /\ (UNCHANGED sid \/ sid[c] = None)
    BY <1>1, <1>2, <2>1, <2>2, <2>4 DEF CallOwn, Issued, Owned
  <2> QED
    BY <2>3, <2>4 DEF Claims, ClaimStep, Claim, ClaimReads, SessionFrame, ClaimLapses,
       ClaimFindsSource, ClaimCopies, LinkSelects, ClaimSaves, ClaimStanding
<1>4. ASSUME NEW d \in Call \ {c}
      PROVE  CallOwn(d)'
  BY <1>1, <1>2 DEF OwnOK, CallOwn, Issued, Owned
<1> QED
  BY <1>2, <1>3, <1>4 DEF OwnOK

-----------------------------------------------------------------------------
(* What a step of Sessions does to the claims.                             *)

ClaimOnly == {"claim", "lapse", "lapsing", "source", "copy", "link", "linking", "claimed",
               "refused"}

LEMMA StoreStepClaims ==
    ASSUME LinkTypeOK, \A c \in Call : Standing(c), StoreStep, NEW c \in Call
    PROVE  \/ /\ pc'[c] = pc[c] /\ op'[c] = op[c] /\ sid'[c] = sid[c] /\ copy'[c] = copy[c]
              /\ ride'[c] = ride[c] /\ landed'[c] = landed[c] /\ answer'[c] = answer[c]
           \/ /\ pc[c] \notin ClaimOnly \cup {"dead"} /\ pc'[c] \notin ClaimOnly
              /\ op'[c] = "claim" => op[c] = "claim" /\ pc[c] \in TokenPC /\ sid'[c] = sid[c]
<1>0. pc \in [Call -> LinkPC] /\ StoreOK
  BY DEF LinkTypeOK
<1>1. ASSUME NEW d \in Call \ {c}, Begins(d) \/ CallStep(d)
      PROVE  /\ pc'[c] = pc[c] /\ op'[c] = op[c] /\ sid'[c] = sid[c] /\ copy'[c] = copy[c]
             /\ ride'[c] = ride[c] /\ landed'[c] = landed[c] /\ answer'[c] = answer[c]
  <2>1. OnlyOf(d)
    BY <1>0, <1>1, CallStepShape
  <2> QED
    BY <2>1 DEF OnlyOf
<1>2. ASSUME Begins(c)
      PROVE  /\ pc[c] = "idle" /\ pc'[c] \in {"lookup", "coalesce", "logout", "target"}
             /\ op'[c] # "claim"
  BY <1>0, <1>2 DEF Begins, Begin, GetToken, Logout, LoginReturns, Goto, StoreOK
<1>3. ASSUME TokenStep(c)
      PROVE  /\ pc[c] \in TokenPC /\ UNCHANGED <<op, sid>> /\ pc'[c] \in TokenPC \cup {"done"}
  BY <1>0, <1>3 DEF TokenStep, Lookup, JoinRefresh, LeadRefresh, Find, SoundCloudRefreshes,
     SaveSelects, Save, Close, Answer, Land, Return, Goto, TokenPC, Refreshing
<1>4. ASSUME \/ LogoutFind(c) \/ SignOut(c) \/ LogoutRemove(c)
             \/ LoginFindsTarget(c) \/ LoginStores(c) \/ LoginWrites(c)
      PROVE  /\ pc[c] \in {"logout", "signout", "remove", "target", "store", "storing"}
             /\ pc'[c] \in {"done", "dead", "signout", "remove", "store", "storing"}
             /\ UNCHANGED op /\ op[c] # "claim"
  BY <1>0, <1>4 DEF LogoutFind, SignOut, LogoutRemove, LoginFindsTarget, LoginStores, LoginWrites,
     Goto, QueryFails, Standing
<1>5. ASSUME NEW n \in Token, Expire(n)
      PROVE  UNCHANGED callVars
  BY <1>5 DEF Expire
<1> USE DEF ClaimOnly, TokenPC, Refreshing
<1>6. CASE Begins(c) \/ CallStep(c)
  BY <1>6, <1>2, <1>3, <1>4 DEF CallStep
<1> QED
  BY <1>1, <1>5, <1>6 DEF StoreStep, callVars

LEMMA StoreStepClaimStands ==
    ASSUME LinkTypeOK, \A c \in Call : Standing(c), StoreStep, UNCHANGED linkVars,
           NEW c \in Call, ClaimStanding(c)
    PROVE  ClaimStanding(c)'
<1>1. CASE /\ pc'[c] = pc[c] /\ op'[c] = op[c] /\ sid'[c] = sid[c] /\ copy'[c] = copy[c]
           /\ ride'[c] = ride[c] /\ landed'[c] = landed[c] /\ answer'[c] = answer[c]
  BY <1>1 DEF ClaimStanding, linkVars
<1>2. CASE /\ pc[c] \notin ClaimOnly \cup {"dead"} /\ pc'[c] \notin ClaimOnly
           /\ op'[c] = "claim" => op[c] = "claim" /\ pc[c] \in TokenPC /\ sid'[c] = sid[c]
  BY <1>2 DEF ClaimStanding, ClaimOnly, HasSource, linkVars
<1> QED
  BY <1>1, <1>2, StoreStepClaims

-----------------------------------------------------------------------------
(* The record of a claim.                                                  *)

\* Who has claimed link l, by what the call knows.
ClaimedBy(c, l) ==
    /\ claims[c] = l /\ pc[c] \in {"claimed", "dead"}
    /\ target[c] = link[l].target /\ sid[c] = link[l].source

\* A call that is done keeps what it knows.
LEMMA ClaimedStays ==
    ASSUME LinkTypeOK, NEW c \in Call, NEW l \in Link, ClaimedBy(c, l), link'[l] = link[l],
           pc'[c] = pc[c] /\ sid'[c] = sid[c] /\ claims'[c] = claims[c] /\ target'[c] = target[c]
    PROVE  ClaimedBy(c, l)'
BY DEF ClaimedBy

LEMMA ClaimRecords ==
    ASSUME LinkTypeOK, ClaimedLinkIsOneClaim, NEW c \in Call, ClaimStanding(c), Claims(c)
    PROVE  ClaimedLinkIsOneClaim'
<1> SUFFICES ASSUME NEW l \in Link \ mixed', link'[l].status = "claimed"
             PROVE  \E d \in Call : ClaimedBy(d, l)'
  BY DEF ClaimedLinkIsOneClaim, ClaimedBy
<1>0. mixed \subseteq mixed' /\ (ClaimLapses(c) \/ ClaimSaves(c) => claims[c] \in Link
                                                       /\ entity[c] \in LinkRow)
  <2>1. ASSUME ClaimLapses(c) \/ ClaimSaves(c)
        PROVE  claims[c] \in Link /\ entity[c] \in LinkRow
    BY <2>1 DEF ClaimLapses, ClaimSaves, ClaimStanding, HasSource
  <2>2. ASSUME NEW e \in LinkRow, claims[c] \in Link, LinkWritten(c, e)
        PROVE  mixed \subseteq mixed'
    BY <2>2, LinkWrittenRow
  <2>3. AsClaimed(c) \in LinkRow \/ ~ClaimSaves(c)
    BY <2>1, LinkRows DEF AsClaimed, LinkTypeOK
  <2> QED
    BY <2>1, <2>2, <2>3 DEF Claims, ClaimStep, Claim, ClaimReads, ClaimFindsSource, ClaimRereads,
       ClaimCopies, LinkSelects, ClaimLapses, ClaimSaves, linkVars
<1>1. CASE link'[l] = link[l]
  <2>1. PICK d \in Call : ClaimedBy(d, l)
    BY <1>0, <1>1 DEF ClaimedLinkIsOneClaim, ClaimedBy
  <2>2. d # c
    BY <2>1, ClaimOthers DEF ClaimedBy
  <2> QED
    BY <1>1, <2>1, <2>2, ClaimOthers, ClaimedStays
<1>2. CASE link'[l] # link[l]
  <2>1. CASE ClaimLapses(c)
    <3>1. LinkWritten(c, entity[c])
      BY <1>2, <2>1 DEF ClaimLapses
    <3>2. link'[l] \in {NoLink, entity[c]}
      BY <1>0, <1>2, <2>1, <3>1, LinkWrittenRow
    <3> QED
      BY <3>2, LinkRows DEF ClaimStanding
  <2>2. CASE ClaimSaves(c)
    <3>1. LinkWritten(c, AsClaimed(c)) /\ UNCHANGED <<claims, sid, target>> /\ pc'[c] = "claimed"
      BY <1>2, <2>2 DEF ClaimSaves, QueryFails, Goto, LinkTypeOK
    <3>2. /\ entity[c] \in LinkRow /\ sid[c] = entity[c].source
          /\ AsClaimed(c) \in LinkRow /\ AsClaimed(c).source = entity[c].source
          /\ AsClaimed(c).target = target[c]
      <4>1. entity[c] \in LinkRow /\ sid[c] = entity[c].source /\ target[c] \in Session \cup {None}
        BY <1>0, <2>2 DEF ClaimSaves, ClaimStanding, HasSource, LinkTypeOK
      <4> QED
        BY <4>1, ClaimedRow
    <3>3. claims[c] = l /\ link'[l] \in {NoLink, AsClaimed(c)}
      BY <1>0, <1>2, <2>2, <3>1, <3>2, LinkWrittenRow
    <3>4. link'[l].source = sid[c] /\ link'[l].target = target[c]
      BY <3>2, <3>3, LinkRows
    <3> QED
      BY <3>1, <3>3, <3>4 DEF ClaimedBy
  <2> QED
    BY <1>2, <2>1, <2>2 DEF Claims, ClaimStep, Claim, ClaimReads, ClaimFindsSource, ClaimRereads,
       ClaimCopies, LinkSelects, linkVars
<1> QED
  BY <1>1, <1>2

LEMMA StoreStepRecords ==
    ASSUME LinkTypeOK, ClaimedLinkIsOneClaim, \A c \in Call : Standing(c),
           StoreStep, UNCHANGED linkVars
    PROVE  ClaimedLinkIsOneClaim'
<1> SUFFICES ASSUME NEW l \in Link \ mixed', link'[l].status = "claimed"
             PROVE  \E d \in Call : ClaimedBy(d, l)'
  BY DEF ClaimedLinkIsOneClaim, ClaimedBy
<1>1. PICK d \in Call : ClaimedBy(d, l)
  BY DEF ClaimedLinkIsOneClaim, ClaimedBy, linkVars
<1>2. pc'[d] = pc[d] /\ sid'[d] = sid[d]
  BY <1>1, StoreStepClaims DEF ClaimedBy, ClaimOnly
<1> QED
  BY <1>1, <1>2, ClaimedStays DEF linkVars

LEMMA LinksAloneRecords ==
    ASSUME LinkTypeOK, ClaimedLinkIsOneClaim, LinksAlone
    PROVE  ClaimedLinkIsOneClaim' /\ UNCHANGED <<claims, entity, target>>
<1>1. UNCHANGED <<vars, claims, entity, target, mixed>>
  BY DEF LinksAlone, CreateLink, Lapse, Cleanup
<1>2. \A l \in Link : link'[l] = link[l] \/ link'[l].status # "claimed"
  <2>1. ASSUME NEW k \in Link, NEW mode \in {"pull", "push"}, NEW s \in used \cup {None},
               CreateLink(k, mode, s)
        PROVE  \A l \in Link : link'[l] = link[l] \/ link'[l].status # "claimed"
    BY <2>1 DEF CreateLink, LinkTypeOK
  <2>2. ASSUME NEW k \in Link, Lapse(k) \/ Cleanup(k)
        PROVE  \A l \in Link : link'[l] = link[l] \/ link'[l].status # "claimed"
    BY <2>2, LinkRows DEF Lapse, Cleanup, LinkTypeOK
  <2> QED
    BY <2>1, <2>2 DEF LinksAlone
<1> QED
  BY <1>1, <1>2 DEF ClaimedLinkIsOneClaim, vars, callVars

-----------------------------------------------------------------------------
(* The theorems.                                                           *)

LinkInv ==
    /\ LinkTypeOK /\ MapOK /\ OwnOK /\ ClaimedLinkIsOneClaim
    /\ \A c \in Call : Standing(c) /\ ClaimStanding(c)

LEMMA LinkInvInit == LinkInit => LinkInv
<1> SUFFICES ASSUME LinkInit PROVE LinkInv
  OBVIOUS
<1> USE SessionsAssumption DEF LinkInit
<1>1. IInv
  BY IInvInit
<1>2. LinkTypeOK
  BY <1>1 DEF IInv, TypeOK, LinkTypeOK, LinkPC
<1>3. \A c \in Call : ClaimStanding(c)
  BY LinkRows DEF ClaimStanding, Init, HasSource, TokenPC, Refreshing
<1>4. ClaimedLinkIsOneClaim
  BY LinkRows DEF ClaimedLinkIsOneClaim
<1> QED
  BY <1>1, <1>2, <1>3, <1>4 DEF LinkInv, IInv

LEMMA LinkRestartKeeps ==
    ASSUME LinkInv, LinkRestart
    PROVE  LinkInv' /\ Flights!Abort
<1> USE SessionsAssumption DEF LinkInv, LinkTypeOK, LinkRestart, cloud, saving, linkVars
<1>1. LinkTypeOK'
  BY DEF StoreOK, LinkPC, PC
<1>2. \A c \in Call : \/ /\ pc'[c] = pc[c]
                         /\ pc[c] \in {"idle", "claimed", "refused"} \/ (pc[c] = "done" /\ op[c] # "claim")
                      \/ pc'[c] = "dead"
  BY DEF StoreOK
<1>3. MapOK' /\ OwnOK'
  BY <1>2 DEF MapOK, OwnOK, RowOwn, CallOwn, Owned, Issued
<1>4. \A c \in Call : Standing(c)' /\ ClaimStanding(c)'
  BY <1>2 DEF Standing, ClaimStanding, HasSource, TokenPC, Refreshing
<1>5. ClaimedLinkIsOneClaim'
  BY <1>2 DEF ClaimedLinkIsOneClaim
<1>6. Flights!Abort
  BY DEF Flights!Abort
<1> QED
  BY <1>1, <1>3, <1>4, <1>5, <1>6

LEMMA ClaimKeeps ==
    ASSUME LinkInv, NEW c \in Call, Claims(c)
    PROVE  LinkInv'
<1> USE DEF LinkInv
<1>1. LinkTypeOK' /\ OwnOK' /\ ClaimedLinkIsOneClaim'
  BY ClaimTypes, ClaimOwns, ClaimRecords
<1>2. Standing(c)' /\ ClaimStanding(c)'
  BY ClaimStands
<1>3. ASSUME NEW o \in Call \ {c}
      PROVE  Standing(o)' /\ ClaimStanding(o)'
  <2>1. /\ pc'[o] = pc[o] /\ op'[o] = op[o] /\ sid'[o] = sid[o] /\ copy'[o] = copy[o]
        /\ claims'[o] = claims[o] /\ entity'[o] = entity[o]
        /\ UNCHANGED <<ride, landed, answer, refreshInFlight>>
    BY ClaimOthers
  <2> QED
    BY <2>1 DEF Standing, ClaimStanding
<1>4. MapOK'
  BY ClaimOthers, SessionsAssumption DEF MapOK, LinkTypeOK, StoreOK
<1> QED
  BY <1>1, <1>2, <1>3, <1>4

LEMMA StoreStepKeeps ==
    ASSUME LinkInv, StoreStep, UNCHANGED linkVars
    PROVE  LinkInv'
<1>1. /\ StoreOK /\ pc \in [Call -> LinkPC] /\ PC \subseteq LinkPC /\ MapOK /\ OwnOK
      /\ \A c \in Call : Standing(c) /\ ClaimStanding(c)
  BY DEF LinkInv, LinkTypeOK, LinkPC
<1>2. LinkTypeOK'
  <2>1. StoreOK' /\ pc' \in [Call -> LinkPC]
    BY <1>1, StoreStepType
  <2> QED
    BY <2>1 DEF LinkInv, LinkTypeOK, linkVars
<1>3. MapOK' /\ \A c \in Call : Standing(c)'
  BY <1>1, StoreStepStands
<1>4. OwnOK'
  BY <1>1, StoreStepOwns
<1>5. \A c \in Call : ClaimStanding(c)'
  BY <1>1, StoreStepClaimStands DEF LinkInv
<1>6. ClaimedLinkIsOneClaim'
  BY <1>1, StoreStepRecords DEF LinkInv
<1> QED
  BY <1>2, <1>3, <1>4, <1>5, <1>6 DEF LinkInv

LEMMA LinkInvNext == LinkInv /\ [LinkNext]_allVars => LinkInv'
<1> SUFFICES ASSUME LinkInv, [LinkNext]_allVars PROVE LinkInv'
  OBVIOUS
<1>1. CASE LinksAlone
  <2>1. LinkTypeOK' /\ ClaimedLinkIsOneClaim' /\ UNCHANGED <<vars, claims, entity, target>>
    BY <1>1, LinksAloneTypes, LinksAloneRecords DEF LinkInv
  <2> QED
    BY <2>1 DEF LinkInv, vars, callVars, saving, cloud, MapOK, OwnOK, RowOwn, CallOwn, Owned,
       Issued, Standing, ClaimStanding
<1>2. CASE UNCHANGED allVars
  BY <1>2 DEF LinkInv, allVars, linkVars, vars, callVars, saving, cloud, LinkTypeOK, StoreOK, MapOK,
     OwnOK, RowOwn, CallOwn, Owned, Issued, Standing, ClaimStanding, ClaimedLinkIsOneClaim
<1> QED
  BY <1>1, <1>2, ClaimKeeps, StoreStepKeeps, LinkRestartKeeps, LinkNextSplit

LEMMA LinkInvAlways == LinkSpec => []LinkInv
BY LinkInvInit, LinkInvNext, PTL DEF LinkSpec

\* Every variable keeps its type while links are handed out and claimed.
THEOREM LinkTypeCorrect == LinkSpec => []LinkTypeOK
BY LinkInvAlways, PTL DEF LinkInv

\* A claimed link names the session its claim has made and the one it was copied from, but
\* where an update mixed the columns of two claims.
THEOREM ClaimsAreRecorded == LinkSpec => []ClaimedLinkIsOneClaim
BY LinkInvAlways, PTL DEF LinkInv

\* Copying sessions by links leaves every session with tokens of its user, but the torn ones
\* and their copies.
THEOREM CopiesKeepTheirUser == LinkSpec => []SessionBelongsToItsUser
<1>1. LinkInv => SessionBelongsToItsUser
  BY DEF LinkInv, OwnOK, RowOwn, Owned, SessionBelongsToItsUser
<1> QED
  BY <1>1, LinkInvAlways, PTL

\* The refreshes that claims wait for are single flights with all the others.
THEOREM ClaimsRideSingleFlights == LinkSpec => ImplementsSingleFlight
<1>1. LinkInit => Flights!Init
  BY DEF LinkInit, Init, Flights!Init
<1>2. LinkInv /\ [LinkNext]_allVars => [Flights!Next]_(Flights!vars)
  <2> SUFFICES ASSUME LinkInv, [LinkNext]_allVars PROVE [Flights!Next]_(Flights!vars)
    OBVIOUS
  <2> DEFINE Key == [c \in Call |-> IF op[c] \in {"token", "claim"} THEN sid[c] ELSE None]
  <2>0. LinkTypeOK /\ StoreOK /\ \A c \in Call : Standing(c) /\ ClaimStanding(c)
    BY DEF LinkInv, LinkTypeOK
  <2>1. CASE StoreStep
    <3>1. pc \in [Call -> LinkPC] /\ PC \subseteq LinkPC /\ MapOK
      BY DEF LinkInv, LinkTypeOK, LinkPC
    <3> QED
      BY <2>0, <2>1, <3>1, StoreStepFlies
  <2>2. ASSUME NEW c \in Call, ClaimFindsSource(c)
        PROVE  [Flights!Next]_(Flights!vars)
    <3>1. CASE UNCHANGED sid
      BY <2>2, <3>1 DEF ClaimFindsSource, Flights!vars
    <3>2. CASE sid' = [sid EXCEPT ![c] = entity[c].source]
      <4>1. PICK s \in Session : s = entity[c].source
        BY <2>0, <2>2 DEF ClaimFindsSource, ClaimStanding
      <4>2. Key[c] = None /\ op[c] = "claim"
        BY <2>0, <2>2 DEF ClaimFindsSource, ClaimStanding
      <4>3. Key' = [Key EXCEPT ![c] = s]
        BY <2>0, <2>2, <3>2, <4>1, <4>2 DEF ClaimFindsSource, StoreOK
      <4>4. Flights!Ask(c, s)
        BY <2>2, <4>2, <4>3 DEF ClaimFindsSource, Flights!Ask
      <4> QED
        BY <4>4 DEF Flights!Next
    <3> QED
      BY <2>2, <3>1, <3>2 DEF ClaimFindsSource
  <2>3. ASSUME NEW c \in Call, NEW l \in Link, NEW s \in used \cup {None}, Claim(c, l, s)
        PROVE  UNCHANGED Flights!vars
    <3>1. Key' = Key
      BY <2>0, <2>3 DEF Claim, Begin, Standing, StoreOK
    <3> QED
      BY <2>3, <3>1 DEF Claim, Flights!vars
  <2>4. ASSUME NEW c \in Call, \/ ClaimReads(c) \/ ClaimLapses(c) \/ ClaimRereads(c)
                               \/ ClaimCopies(c) \/ LinkSelects(c) \/ ClaimSaves(c)
        PROVE  UNCHANGED Flights!vars
    BY <2>4 DEF ClaimReads, ClaimLapses, ClaimRereads, ClaimCopies, LinkSelects, ClaimSaves,
       SessionFrame, linkVars, Flights!vars
  <2>5. CASE LinksAlone
    BY <2>0, <2>5, LinksAloneTypes DEF vars, callVars, Flights!vars
  <2>6. CASE LinkRestart
    BY <2>6, LinkRestartKeeps DEF Flights!Next
  <2>7. CASE UNCHANGED allVars
    BY <2>7 DEF allVars, vars, callVars, Flights!vars
  <2> QED
    BY <2>1, <2>2, <2>3, <2>4, <2>5, <2>6, <2>7, LinkNextSplit DEF Claims, ClaimStep
<1> QED
  BY <1>1, <1>2, LinkInvAlways, PTL DEF LinkSpec, ImplementsSingleFlight, Flights!Spec

\* What a single flight promises its riders, with what the map must say for that.
FlightKey == [c \in Call |-> IF op[c] \in {"token", "claim"} THEN sid[c] ELSE None]
RidersAlike ==
    /\ \A c \in Call : ride[c] # None /\ answer[c] # None => answer[c] = landed[ride[c]]
    /\ \A c \in Call : ride[c] # None => FlightKey[ride[c]] = FlightKey[c] /\ FlightKey[c] # None
    /\ \A s \in Session : refreshInFlight[s] # None => FlightKey[refreshInFlight[s]] = s

LEMMA RidersStep == LinkTypeOK /\ RidersAlike /\ [Flights!Next]_(Flights!vars) => RidersAlike'
<1> SUFFICES ASSUME LinkTypeOK, RidersAlike, [Flights!Next]_(Flights!vars) PROVE RidersAlike'
  OBVIOUS
<1>1. /\ ride \in [Call -> Call \cup {None}] /\ answer \in [Call -> Token \cup {Err, None}]
      /\ landed \in [Call -> Token \cup {Err, None}] /\ FlightKey \in [Call -> Session \cup {None}]
      /\ refreshInFlight \in [Session -> Call \cup {None}]
  BY DEF LinkTypeOK, StoreOK, FlightKey
<1> USE <1>1, SessionsAssumption DEF RidersAlike
<1>2. CASE UNCHANGED Flights!vars
  <2>1. UNCHANGED <<FlightKey, ride, landed, answer, refreshInFlight>>
    BY <1>2 DEF Flights!vars, FlightKey
  <2> QED
    BY <2>1
<1>3. ASSUME NEW c \in Call, NEW s \in Session, Flights!Ask(c, s)
      PROVE  RidersAlike'
  <2>1. /\ FlightKey[c] = None /\ FlightKey' = [FlightKey EXCEPT ![c] = s]
        /\ UNCHANGED <<ride, landed, answer, refreshInFlight>>
    BY <1>3 DEF Flights!Ask, FlightKey
  <2> QED
    BY <2>1
<1>4. ASSUME NEW c \in Call, NEW o \in Token \cup {Err}, Flights!Hit(c, o) \/ Flights!Land(c, o)
      PROVE  RidersAlike'
  <2>1. /\ UNCHANGED <<FlightKey, ride, refreshInFlight>>
        /\ \/ ride[c] = None /\ answer' = [answer EXCEPT ![c] = o] /\ UNCHANGED landed
           \/ landed[c] = None /\ landed' = [landed EXCEPT ![c] = o] /\ UNCHANGED answer
    BY <1>4 DEF Flights!Hit, Flights!Land, FlightKey
  <2> QED
    BY <2>1
<1>5. ASSUME NEW c \in Call, Flights!Lead(c) \/ Flights!Join(c)
      PROVE  RidersAlike'
  <2>1. /\ FlightKey[c] \in Session /\ ride[c] = None /\ answer[c] = None
        /\ UNCHANGED <<FlightKey, landed, answer>>
        /\ \/ /\ ride' = [ride EXCEPT ![c] = c]
              /\ refreshInFlight' = [refreshInFlight EXCEPT ![FlightKey[c]] = c]
           \/ /\ refreshInFlight[FlightKey[c]] # None /\ UNCHANGED refreshInFlight
              /\ ride' = [ride EXCEPT ![c] = refreshInFlight[FlightKey[c]]]
    BY <1>5 DEF Flights!Lead, Flights!Join, FlightKey
  <2> QED
    BY <2>1
<1>6. ASSUME NEW c \in Call, Flights!Deliver(c) \/ Flights!Close(c)
      PROVE  RidersAlike'
  <2>1. /\ UNCHANGED <<FlightKey, ride, landed>>
        /\ \/ answer' = [answer EXCEPT ![c] = landed[ride[c]]] /\ UNCHANGED refreshInFlight
           \/ /\ FlightKey[c] \in Session /\ UNCHANGED answer
              /\ refreshInFlight' = [refreshInFlight EXCEPT ![FlightKey[c]] = None]
    BY <1>6 DEF Flights!Deliver, Flights!Close, FlightKey
  <2> QED
    BY <2>1
<1>7. CASE Flights!Abort
  <2>1. /\ UNCHANGED <<FlightKey, ride, landed, answer>>
        /\ refreshInFlight' = [s \in Session |-> None]
    BY <1>7 DEF Flights!Abort, FlightKey
  <2> QED
    BY <2>1
<1> QED
  BY <1>2, <1>3, <1>4, <1>5, <1>6, <1>7 DEF Flights!Next

\* Calls and claims that waited for one refresh asked for one session, and were all answered
\* with what that refresh brought back, be it a token or its failure.
THEOREM RefreshesAnswerAlike == LinkSpec => [](Flights!RidersAgree /\ Flights!RidersShareKey)
<1>1. LinkInit => RidersAlike
  BY DEF LinkInit, Init, RidersAlike
<1>2. LinkSpec => []RidersAlike
  BY <1>1, RidersStep, LinkTypeCorrect, ClaimsRideSingleFlights, PTL
     DEF LinkSpec, ImplementsSingleFlight, Flights!Spec
<1>3. RidersAlike => Flights!RidersAgree /\ Flights!RidersShareKey
  BY DEF RidersAlike, Flights!RidersAgree, Flights!RidersShareKey, FlightKey
<1> QED
  BY <1>2, <1>3, PTL

-----------------------------------------------------------------------------
(* A call ends.                                                            *)

\* A call that waits for a refresh: either the refresh has landed and is out of the map, so
\* that the call can answer, or the call that leads it is still at work on it.
Landed(c)  == landed[ride[c]] # None /\ refreshInFlight[sid[c]] # ride[c]
Carried(c) == LET f == ride[c] IN /\ f \in Call \ {c} /\ ride[f] = f /\ sid[f] = sid[c]
                                  /\ pc[f] \in Refreshing \cup {"closing"}
RidersCarried == \A c \in Call : pc[c] = "riding" => Landed(c) \/ Carried(c)

\* The steps a call has at most before it.
StepsToGo(c) ==
    CASE pc[c] = "idle" -> 15
      [] pc[c] = "claim" -> 14
      [] pc[c] = "source" -> 13
      [] pc[c] = "lookup" -> 12
      [] pc[c] = "coalesce" -> 11
      [] pc[c] = "find" -> 10
      [] pc[c] = "send" -> 9
      [] pc[c] = "save" -> 8
      [] pc[c] = "write" -> 7
      [] pc[c] = "closing" -> 6
      [] pc[c] = "riding" -> 5
      [] pc[c] = "done" /\ op[c] = "claim" -> 4
      [] pc[c] \in {"logout", "target", "copy"} -> 3
      [] pc[c] \in {"signout", "store", "link", "lapse"} -> 2
      [] pc[c] \in {"remove", "storing", "linking", "lapsing"} -> 1
      [] OTHER -> 0

CallNearsEnd(c) ==
    /\ StepsToGo(c)' <= StepsToGo(c)
    /\ Begins(c) \/ CallStep(c) \/ Claims(c) => StepsToGo(c)' < StepsToGo(c)
CallsNearEnd == \A c \in Call : StepsToGo(c) \in 0..15 /\ CallNearsEnd(c)

\* A call that waits for another's refresh never waits for nobody: its leader is at work on
\* the refresh of the same session, or has landed it and taken it out of the map.
THEOREM RidersAreCarried == LinkSpec => []RidersCarried
<1>1. LinkInv => RidersCarried
  <2> SUFFICES ASSUME LinkInv, NEW c \in Call, pc[c] = "riding", ~Landed(c)
               PROVE  Carried(c)
    BY DEF RidersCarried
  <2>1. MapOK /\ (\A o \in Call : Standing(o)) /\ sid[c] \in Session
    BY DEF LinkInv, Standing, TokenPC
  <2>2. ride[c] \in Call /\ refreshInFlight[sid[c]] = ride[c]
    BY <2>1 DEF Standing, Landed
  <2>3. pc[ride[c]] \in Refreshing \cup {"closing"} /\ sid[ride[c]] = sid[c] /\ ride[c] # None
    BY <2>1, <2>2, SessionsAssumption DEF MapOK
  <2>4. ride[ride[c]] = ride[c] /\ ride[c] # c
    BY <2>1, <2>2, <2>3 DEF Standing, Refreshing
  <2> QED
    BY <2>2, <2>3, <2>4 DEF Carried
<1> QED
  BY <1>1, LinkInvAlways, PTL

LEMMA SameSteps ==
    ASSUME NEW c \in Call, pc'[c] = pc[c], op'[c] = op[c] PROVE StepsToGo(c)' = StepsToGo(c)
BY DEF StepsToGo

LEMMA CallNears ==
    ASSUME LinkInv, NEW c \in Call, Begins(c) \/ CallStep(c) \/ Claims(c)
    PROVE  StepsToGo(c)' < StepsToGo(c)
<1> USE DEF Goto, Return, Land, Begin, QueryFails
<1>1. pc \in [Call -> LinkPC] /\ op \in [Call -> {"none", "token", "logout", "login", "claim"}]
  BY DEF LinkInv, LinkTypeOK, StoreOK
<1>2. CASE Begins(c)
  <2>1. pc[c] = "idle" /\ pc'[c] \in {"lookup", "coalesce", "logout", "target"}
    BY <1>1, <1>2 DEF Begins, GetToken, Logout, LoginReturns
  <2> QED
    BY <2>1 DEF StepsToGo
<1>3. CASE TokenStep(c)
  <2>1. \/ pc[c] = "lookup" /\ pc'[c] \in {"coalesce", "done"}
        \/ pc[c] = "coalesce" /\ pc'[c] \in {"find", "riding"}
        \/ pc[c] = "find" /\ pc'[c] \in {"send", "closing"}
        \/ pc[c] = "send" /\ pc'[c] \in {"save", "closing"}
        \/ pc[c] = "save" /\ pc'[c] = "write"
        \/ pc[c] = "write" /\ pc'[c] = "closing"
        \/ pc[c] = "closing" /\ pc'[c] = "riding"
        \/ pc[c] = "riding" /\ pc'[c] = "done"
    <3>1. CASE SoundCloudRefreshes(c) \/ Save(c)
      BY <1>1, <3>1 DEF SoundCloudRefreshes, Save
    <3> QED
      BY <1>1, <1>3, <3>1 DEF TokenStep, Lookup, JoinRefresh, LeadRefresh, Find, SaveSelects, Close,
         Answer
  <2> QED
    BY <2>1 DEF StepsToGo
<1>4. CASE \/ LogoutFind(c) \/ SignOut(c) \/ LogoutRemove(c)
           \/ LoginFindsTarget(c) \/ LoginStores(c) \/ LoginWrites(c)
  <2>1. /\ \/ pc[c] = "logout" /\ pc'[c] \in {"signout", "done"}
           \/ pc[c] = "signout" /\ pc'[c] = "remove"
           \/ pc[c] = "target" /\ pc'[c] = "store"
           \/ pc[c] = "store" /\ pc'[c] \in {"storing", "done", "dead"}
           \/ pc[c] \in {"remove", "storing"} /\ pc'[c] \in {"done", "dead"}
        /\ op'[c] = op[c]
    BY <1>1, <1>4 DEF LogoutFind, SignOut, LogoutRemove, LoginFindsTarget, LoginStores, LoginWrites
  <2>2. pc[c] \in {"logout", "signout", "remove", "target", "store", "storing"} => op[c] # "claim"
    BY DEF LinkInv, Standing
  <2> QED
    BY <2>1, <2>2 DEF StepsToGo
<1>5. CASE Claims(c)
  <2>1. \/ pc[c] = "idle" /\ pc'[c] = "claim"
        \/ pc[c] = "claim" /\ pc'[c] \in {"refused", "lapse", "source"}
        \/ pc[c] = "lapse" /\ pc'[c] = "lapsing"
        \/ pc[c] = "lapsing" /\ pc'[c] = "refused"
        \/ pc[c] = "source" /\ pc'[c] \in {"refused", "lookup"}
        \/ pc[c] = "done" /\ op[c] = "claim" /\ pc'[c] \in {"refused", "copy"}
        \/ pc[c] = "copy" /\ pc'[c] = "link"
        \/ pc[c] = "link" /\ pc'[c] = "linking"
        \/ pc[c] = "linking" /\ pc'[c] \in {"claimed", "dead"}
    BY <1>1, <1>5 DEF Claims, ClaimStep, Claim, ClaimReads, ClaimLapses, ClaimFindsSource,
       ClaimRereads, ClaimCopies, LinkSelects, ClaimSaves
  <2> QED
    BY <2>1 DEF StepsToGo
<1> QED
  BY <1>2, <1>3, <1>4, <1>5 DEF CallStep

LEMMA CallsNear == LinkInv /\ [LinkNext]_allVars => CallsNearEnd
<1> SUFFICES ASSUME LinkInv, [LinkNext]_allVars, NEW o \in Call
             PROVE  StepsToGo(o)' <= StepsToGo(o)
  BY CallNears DEF CallsNearEnd, CallNearsEnd, StepsToGo
<1>1. StepsToGo(o) \in 0..15 /\ StepsToGo(o)' \in 0..15
  BY DEF StepsToGo
<1>2. /\ StoreOK /\ pc \in [Call -> LinkPC] /\ \A c \in Call : Standing(c)
  BY DEF LinkInv, LinkTypeOK
<1>3. CASE pc'[o] = pc[o] /\ op'[o] = op[o]
  BY <1>1, <1>3, SameSteps
<1>4. ASSUME NEW c \in Call, Begins(c) \/ CallStep(c) \/ Claims(c)
      PROVE  StepsToGo(o)' <= StepsToGo(o)
  <2>1. CASE o = c
    BY <1>1, <1>4, <2>1, CallNears
  <2>2. CASE o # c
    <3>1. pc'[o] = pc[o] /\ op'[o] = op[o]
      <4>1. CASE Begins(c) \/ CallStep(c)
        BY <1>2, <2>2, <4>1, CallStepShape DEF OnlyOf
      <4>2. CASE Claims(c)
        BY <2>2, <4>2, ClaimOthers DEF LinkInv
      <4> QED
        BY <1>4, <4>1, <4>2
    <3> QED
      BY <1>3, <3>1
  <2> QED
    BY <2>1, <2>2
<1>5. CASE LinksAlone \/ (\E n \in Token : Expire(n)) \/ UNCHANGED allVars
  BY <1>3, <1>5 DEF LinksAlone, CreateLink, Lapse, Cleanup, Expire, allVars, vars, callVars
<1>6. CASE LinkRestart
  <2>1. UNCHANGED op /\ (pc'[o] = pc[o] \/ pc'[o] = "dead")
    BY <1>2, <1>6 DEF LinkRestart
  <2>2. pc'[o] = "dead" => StepsToGo(o)' = 0
    BY DEF StepsToGo
  <2> QED
    BY <1>1, <1>3, <2>1, <2>2
<1> QED
  BY <1>4, <1>5, <1>6, LinkNextSplit DEF StoreStep

\* Every step of a call brings it nearer to its answer, at most fifteen of them, and no
\* step of another call, no restart and nothing done to the links takes it back.
THEOREM CallsApproachTheirEnd == LinkSpec => [][CallsNearEnd]_allVars
BY CallsNear, LinkInvAlways, PTL DEF LinkSpec
===============================================================================
