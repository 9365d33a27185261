------------------------------ MODULE Sessions ------------------------------
(***************************************************************************)
(* The sessions of the backend: backend/src/auth/auth.service.ts and the   *)
(* guard every authenticated route runs, common/guards/auth.guard.ts.      *)
(*                                                                         *)
(* A session is a database row with the SoundCloud tokens of a user.  A    *)
(* call is one HTTP request that reads or writes it: getValidAccessToken,  *)
(* refreshSession, logout, or the last part of an OAuth callback, which    *)
(* stores new tokens in a session.  The calls run in one JavaScript thread *)
(* and interleave at every await; each database query is one step.  A save *)
(* is two: it selects the row, and then inserts the entity the call read   *)
(* earlier, if there was no row, or updates the columns in which the       *)
(* entity differs from it.  Refreshes of one session coalesce.             *)
(***************************************************************************)
EXTENDS FiniteSets, Naturals

CONSTANTS Call,          \* the HTTP requests, each made once
          Session,       \* the session ids
          SignedIn,      \* the sessions that exist at the start
          User,          \* the SoundCloud users
          Token,         \* the tokens SoundCloud may ever issue
          FirstToken,    \* the tokens of the sessions in SignedIn
          FirstUser,     \* and whose they are
          MaxMishaps,    \* bound: lost replies, database errors and restarts
          Err,           \* an exception, as the answer of a call
          None           \* no call, no token, no user, no session, no answer

ASSUME SessionsAssumption ==
    /\ SignedIn \subseteq Session
    /\ FirstUser \in [SignedIn -> User] /\ FirstToken \in [SignedIn -> Token]
    /\ \A s1, s2 \in SignedIn : FirstToken[s1] = FirstToken[s2] => s1 = s2
    /\ MaxMishaps \in Nat
    /\ None \notin Call /\ None \notin Session /\ None \notin User /\ None \notin Token
    /\ Err \notin Token /\ Err # None

\* The access and the refresh token issued together have one name.
Row  == [access : Token, refresh : Token, user : User]
Gone == [access |-> None, refresh |-> None, user |-> None]

VARIABLES row,       \* the sessions table
          used,      \* the ids that have ever been in it
          op,        \* what a call is
          sid,       \* the session it is about
          pc,        \* where it stands
          copy,      \* the entity it has read, with the changes it has made
          seen,      \* the row its save has selected
          torn,      \* the sessions in which an update has put tokens beside another user
          refreshInFlight,   \* the call whose refresh of a session is under way
          ride,      \* the refresh a call runs or waits for
          landed,    \* how the refresh of a call ended
          answer,    \* what a call returned
          issued,    \* the tokens SoundCloud has issued
          owner,     \* whose they are
          live,      \* those it still takes for a refresh
          expired,   \* those whose access is within REFRESH_BUFFER_MS of its end
          mishaps

saving   == <<seen, torn>>
callVars == <<op, sid, pc, copy, ride, landed, answer>>
cloud    == <<issued, owner, live, expired>>
vars     == <<row, used, callVars, saving, refreshInFlight, cloud, mishaps>>

Refreshing == {"find", "send", "save", "write"}
PC == {"idle", "lookup", "coalesce", "riding", "closing", "logout", "signout", "remove",
       "target", "store", "storing", "done", "dead"} \cup Refreshing

\* All but pc, which a module that adds calls of its own extends.
StoreOK ==
    /\ row \in [Session -> Row \cup {Gone}]
    /\ used \in SUBSET Session
    /\ op \in [Call -> {"none", "token", "logout", "login", "claim"}]
    /\ sid \in [Call -> Session \cup {None}]
    /\ copy \in [Call -> Row \cup {Gone}]
    /\ seen \in [Call -> Row \cup {Gone}] /\ torn \in SUBSET Session
    /\ refreshInFlight \in [Session -> Call \cup {None}]
    /\ ride \in [Call -> Call \cup {None}]
    /\ landed \in [Call -> Token \cup {Err, None}]
    /\ answer \in [Call -> Token \cup {Err, None}]
    /\ issued \in SUBSET Token /\ live \in SUBSET issued /\ expired \in SUBSET issued
    /\ owner \in [Token -> User \cup {None}]
    /\ mishaps \in 0..MaxMishaps
TypeOK == StoreOK /\ pc \in [Call -> PC]

Init ==
    /\ row = [s \in Session |->
                 IF s \in SignedIn
                 THEN [access |-> FirstToken[s], refresh |-> FirstToken[s], user |-> FirstUser[s]]
                 ELSE Gone]
    /\ issued = {FirstToken[s] : s \in SignedIn}
    /\ owner = [n \in Token |-> IF n \in issued
                                THEN FirstUser[CHOOSE s \in SignedIn : FirstToken[s] = n]
                                ELSE None]
    /\ live = issued /\ expired = {}
    /\ used = SignedIn
    /\ op = [c \in Call |-> "none"]
    /\ sid = [c \in Call |-> None]
    /\ pc = [c \in Call |-> "idle"]
    /\ copy = [c \in Call |-> Gone]
    /\ seen = [c \in Call |-> Gone] /\ torn = {}
    /\ refreshInFlight = [s \in Session |-> None]
    /\ ride = [c \in Call |-> None]
    /\ landed = [c \in Call |-> None]
    /\ answer = [c \in Call |-> None]
    /\ mishaps = 0

Goto(c, label) == pc' = [pc EXCEPT ![c] = label]
Begin(c, kind, label) ==
    /\ pc[c] = "idle"
    /\ op' = [op EXCEPT ![c] = kind]
    /\ Goto(c, label)
Return(c, outcome) ==
    /\ answer' = [answer EXCEPT ![c] = outcome]
    /\ Goto(c, "done")
QueryFails(c) ==
    /\ mishaps < MaxMishaps /\ mishaps' = mishaps + 1
    /\ Goto(c, "dead")
Issue(n, u) ==
    /\ n \notin issued
    /\ issued' = issued \cup {n}
    /\ owner' = [owner EXCEPT ![n] = u]

-----------------------------------------------------------------------------
(* getValidAccessToken and refreshSession.                                 *)

\* A route behind the guard, or POST /auth/refresh, which coalesces at once.
GetToken(c, s) ==
    /\ \E label \in {"lookup", "coalesce"} : Begin(c, "token", label)
    /\ sid' = [sid EXCEPT ![c] = s]
    /\ UNCHANGED <<row, used, saving, copy, ride, landed, answer, refreshInFlight, cloud, mishaps>>

\* findOne: the row's token is returned, unless it is about to expire.
Lookup(c) ==
    /\ pc[c] = "lookup"
    /\ LET found == row[sid[c]]
       IN  \/ found = Gone /\ Return(c, Err)
           \/ found # Gone /\ found.access \notin expired /\ Return(c, found.access)
           \/ found # Gone /\ found.access \in expired /\ Goto(c, "coalesce") /\ UNCHANGED answer
    /\ UNCHANGED <<row, used, saving, op, sid, copy, ride, landed, refreshInFlight, cloud, mishaps>>

\* refreshInFlight.get finds a promise: the call awaits it.
JoinRefresh(c) ==
    /\ pc[c] = "coalesce"
    /\ refreshInFlight[sid[c]] # None
    /\ ride' = [ride EXCEPT ![c] = refreshInFlight[sid[c]]]
    /\ Goto(c, "riding")
    /\ UNCHANGED <<row, used, saving, op, sid, copy, landed, answer, refreshInFlight, cloud, mishaps>>

\* Mutant: every call refreshes for itself.
LeadRefreshAlone(c) ==
    /\ pc[c] = "coalesce"
    /\ refreshInFlight' = [refreshInFlight EXCEPT ![sid[c]] = c]
    /\ ride' = [ride EXCEPT ![c] = c]
    /\ Goto(c, "find")
    /\ UNCHANGED <<row, used, saving, op, sid, copy, landed, answer, cloud, mishaps>>

\* It finds none: doRefresh starts and its promise is stored, in one turn.
LeadRefresh(c) ==
    /\ pc[c] = "coalesce"
    /\ refreshInFlight[sid[c]] = None
    /\ refreshInFlight' = [refreshInFlight EXCEPT ![sid[c]] = c]
    /\ ride' = [ride EXCEPT ![c] = c]
    /\ Goto(c, "find")
    /\ UNCHANGED <<row, used, saving, op, sid, copy, landed, answer, cloud, mishaps>>

Land(c, outcome) ==
    /\ landed' = [landed EXCEPT ![c] = outcome]
    /\ Goto(c, "closing")

\* doRefresh reads the session.
Find(c) ==
    /\ pc[c] = "find"
    /\ LET found == row[sid[c]]
       IN  \/ found = Gone /\ Land(c, Err) /\ UNCHANGED copy
           \/ /\ found # Gone
              /\ copy' = [copy EXCEPT ![c] = found]
              /\ Goto(c, "send") /\ UNCHANGED landed
    /\ UNCHANGED <<row, used, saving, op, sid, ride, answer, refreshInFlight, cloud, mishaps>>

\* Mutant: a reply without a refresh token erases the one that is stored.
SoundCloudErases(c) ==
    /\ pc[c] = "send"
    /\ \/ Land(c, Err) /\ UNCHANGED <<copy, issued, owner, live, mishaps>>
       \/ /\ copy[c].refresh \in live
          /\ \E n \in Token : /\ Issue(n, owner[copy[c].refresh])
                              /\ copy' = [copy EXCEPT ![c] = [access |-> n, refresh |-> None,
                                                               user |-> copy[c].user]]
          /\ Goto(c, "save") /\ UNCHANGED <<landed, mishaps, live>>
    /\ UNCHANGED <<row, used, saving, op, sid, ride, answer, refreshInFlight, expired>>

\* SoundCloud answers the refresh.  It refuses a refresh token it no longer takes,
\* and may fail for other reasons; otherwise it issues an access token, and either
\* a new refresh token, which ends the old one, or none.  A reply can be lost.
SoundCloudRefreshes(c) ==
    /\ pc[c] = "send"
    /\ \/ Land(c, Err) /\ UNCHANGED <<copy, issued, owner, live, mishaps>>
       \/ /\ copy[c].refresh \in live
          /\ \E n \in Token, rotates \in BOOLEAN :
                /\ Issue(n, owner[copy[c].refresh])
                /\ live' = IF rotates THEN (live \ {copy[c].refresh}) \cup {n} ELSE live
                /\ copy' = [copy EXCEPT ![c] =
                               [access |-> n, user |-> copy[c].user,
                                refresh |-> IF rotates THEN n ELSE copy[c].refresh]]
          /\ \/ Goto(c, "save") /\ UNCHANGED <<landed, mishaps>>
             \/ Land(c, Err) /\ mishaps < MaxMishaps /\ mishaps' = mishaps + 1
    /\ UNCHANGED <<row, used, saving, op, sid, ride, answer, refreshInFlight, expired>>

\* sessionRepo.save, the first query: the row is read again, to see what has changed.
SaveSelects(c) ==
    /\ pc[c] = "save"
    /\ seen' = [seen EXCEPT ![c] = row[sid[c]]]
    /\ Goto(c, "write")
    /\ UNCHANGED <<row, used, torn, op, sid, copy, ride, landed, answer, refreshInFlight, cloud,
                   mishaps>>

\* The row now, when the columns have been written in which entity e differs from what
\* the save had seen.
Updated(now, was, e) ==
    [access  |-> IF e.access # was.access THEN e.access ELSE now.access,
     refresh |-> IF e.refresh # was.refresh THEN e.refresh ELSE now.refresh,
     user    |-> IF e.user # was.user THEN e.user ELSE now.user]

\* The second query of a save: an insert, an update, or an update of a row that has been
\* deleted since, which finds nothing and is no error.
Written(c) ==
    LET now == row[sid[c]] IN
    \/ /\ now = Gone
       /\ row' = [row EXCEPT ![sid[c]] = IF seen[c] = Gone THEN copy[c] ELSE Gone]
       /\ UNCHANGED torn
    \/ /\ now # Gone /\ seen[c] # Gone
       /\ row' = [row EXCEPT ![sid[c]] = Updated(now, seen[c], copy[c])]
       /\ torn' = IF Updated(now, seen[c], copy[c]).user # copy[c].user
                  THEN torn \cup {sid[c]} ELSE torn

\* The insert meets a row that was saved since.
Conflicts(c) == seen[c] = Gone /\ row[sid[c]] # Gone

\* Mutant: only the tokens are written.
SaveTokens(c) ==
    /\ pc[c] = "write"
    /\ row' = [row EXCEPT ![sid[c]].access = copy[c].access, ![sid[c]].refresh = copy[c].refresh]
    /\ Land(c, copy[c].access)
    /\ UNCHANGED <<used, saving, op, sid, copy, ride, answer, refreshInFlight, cloud, mishaps>>

\* The end of the save of a refresh; either of its queries may fail.
Save(c) ==
    /\ pc[c] = "write"
    /\ seen' = [seen EXCEPT ![c] = Gone]
    /\ \/ Written(c) /\ Land(c, copy[c].access) /\ UNCHANGED mishaps
       \/ /\ \/ Conflicts(c) /\ UNCHANGED mishaps
             \/ mishaps < MaxMishaps /\ mishaps' = mishaps + 1
          /\ Land(c, Err) /\ UNCHANGED <<row, torn>>
    /\ UNCHANGED <<used, op, sid, copy, ride, answer, refreshInFlight, cloud>>

\* Mutant: the callback of finally is missing for a refresh that failed.
CloseIfOk(c) ==
    /\ pc[c] = "closing"
    /\ refreshInFlight' = [refreshInFlight EXCEPT ![sid[c]] = IF landed[c] = Err THEN @ ELSE None]
    /\ Goto(c, "riding")
    /\ UNCHANGED <<row, used, saving, op, sid, copy, ride, landed, answer, cloud, mishaps>>

\* The callback of finally.
Close(c) ==
    /\ pc[c] = "closing"
    /\ refreshInFlight' = [refreshInFlight EXCEPT ![sid[c]] = None]
    /\ Goto(c, "riding")
    /\ UNCHANGED <<row, used, saving, op, sid, copy, ride, landed, answer, cloud, mishaps>>

\* Only then is the promise settled that all the riders share.
Answer(c) ==
    /\ pc[c] = "riding"
    /\ refreshInFlight[sid[c]] # ride[c]
    /\ Return(c, landed[ride[c]])
    /\ UNCHANGED <<row, used, saving, op, sid, copy, ride, landed, refreshInFlight, cloud, mishaps>>

-----------------------------------------------------------------------------
(* logout                                                                  *)

Logout(c, s) ==
    /\ Begin(c, "logout", "logout")
    /\ sid' = [sid EXCEPT ![c] = s]
    /\ UNCHANGED <<row, used, saving, copy, ride, landed, answer, refreshInFlight, cloud, mishaps>>

LogoutFind(c) ==
    /\ pc[c] = "logout"
    /\ \/ row[sid[c]] = Gone /\ Goto(c, "done") /\ UNCHANGED copy
       \/ /\ row[sid[c]] # Gone
          /\ copy' = [copy EXCEPT ![c] = row[sid[c]]]
          /\ Goto(c, "signout")
    /\ UNCHANGED <<row, used, saving, op, sid, ride, landed, answer, refreshInFlight, cloud, mishaps>>

\* SoundCloud is told, and may end the refresh token with the access token.
SignOut(c) ==
    /\ pc[c] = "signout"
    /\ live' \in {live, live \ {copy[c].refresh}}
    /\ Goto(c, "remove")
    /\ UNCHANGED <<row, used, saving, op, sid, copy, ride, landed, answer, refreshInFlight, issued,
                   owner, expired, mishaps>>

LogoutRemove(c) ==
    /\ pc[c] = "remove"
    /\ \/ row' = [row EXCEPT ![sid[c]] = Gone] /\ Goto(c, "done") /\ UNCHANGED mishaps
       \/ QueryFails(c) /\ UNCHANGED row
    /\ UNCHANGED <<used, saving, op, sid, copy, ride, landed, answer, refreshInFlight, cloud>>

-----------------------------------------------------------------------------
(* The end of runCallbackBackground: user u has logged in again, and the   *)
(* tokens go to the session that started the login, or to a new one.       *)

\* s is None for a login that started from no session.
LoginReturns(c, s, u, n) ==
    /\ Begin(c, "login", "target")
    /\ Issue(n, u)
    /\ live' = live \cup {n}
    /\ sid' = [sid EXCEPT ![c] = s]
    /\ copy' = [copy EXCEPT ![c] = [access |-> n, refresh |-> n, user |-> u]]
    /\ UNCHANGED <<row, used, saving, ride, landed, answer, refreshInFlight, expired, mishaps>>

\* findOne, for a login that has a target.
LoginFindsTarget(c) ==
    /\ pc[c] = "target"
    /\ sid' = [sid EXCEPT ![c] = IF sid[c] # None /\ row[sid[c]] # Gone THEN sid[c] ELSE None]
    /\ Goto(c, "store")
    /\ UNCHANGED <<row, used, saving, op, copy, ride, landed, answer, refreshInFlight, cloud, mishaps>>

\* One that was not found is inserted as a new session; the save of one that was found
\* selects it first.
LoginStores(c) ==
    /\ pc[c] = "store"
    /\ \/ /\ sid[c] = None
          /\ \E s \in Session \ used : /\ row' = [row EXCEPT ![s] = copy[c]]
                                      /\ sid' = [sid EXCEPT ![c] = s]
                                      /\ used' = used \cup {s}
          /\ Goto(c, "done") /\ UNCHANGED <<seen, mishaps>>
       \/ /\ sid[c] # None
          /\ seen' = [seen EXCEPT ![c] = row[sid[c]]]
          /\ Goto(c, "storing") /\ UNCHANGED <<row, sid, used, mishaps>>
       \/ QueryFails(c) /\ UNCHANGED <<row, sid, used, seen>>
    /\ UNCHANGED <<torn, op, copy, ride, landed, answer, refreshInFlight, cloud>>

\* It is overwritten, or inserted again.
LoginWrites(c) ==
    /\ pc[c] = "storing"
    /\ seen' = [seen EXCEPT ![c] = Gone]
    /\ \/ Written(c) /\ Goto(c, "done") /\ UNCHANGED mishaps
       \/ Conflicts(c) /\ Goto(c, "dead") /\ UNCHANGED <<row, torn, mishaps>>
       \/ QueryFails(c) /\ UNCHANGED <<row, torn>>
    /\ UNCHANGED <<used, op, sid, copy, ride, landed, answer, refreshInFlight, cloud>>

-----------------------------------------------------------------------------
(* The environment.                                                        *)

Expire(n) ==
    /\ n \in issued \ expired
    /\ expired' = expired \cup {n}
    /\ UNCHANGED <<row, used, saving, callVars, refreshInFlight, issued, owner, live, mishaps>>

\* The backend is restarted: the calls under way and the map are lost.
Restart ==
    /\ mishaps < MaxMishaps /\ mishaps' = mishaps + 1
    /\ pc' = [c \in Call |-> IF pc[c] \in {"idle", "done"} THEN pc[c] ELSE "dead"]
    /\ refreshInFlight' = [s \in Session |-> None]
    /\ UNCHANGED <<row, used, saving, op, sid, copy, ride, landed, answer, cloud>>

\* refreshSession and its callers, one step at a time.
TokenStep(c) ==
    \/ Lookup(c) \/ JoinRefresh(c) \/ LeadRefresh(c) \/ Find(c) \/ SoundCloudRefreshes(c)
    \/ SaveSelects(c) \/ Save(c) \/ Close(c) \/ Answer(c)

CallStep(c) ==
    \/ TokenStep(c)
    \/ LogoutFind(c) \/ SignOut(c) \/ LogoutRemove(c)
    \/ LoginFindsTarget(c) \/ LoginStores(c) \/ LoginWrites(c)

Begins(c) ==
    \/ \E s \in used : GetToken(c, s) \/ Logout(c, s)
    \/ \E s \in used \cup {None}, u \in User, n \in Token : LoginReturns(c, s, u, n)

Next ==
    \/ \E c \in Call : Begins(c) \/ CallStep(c)
    \/ \E n \in Token : Expire(n)
    \/ Restart

Spec == Init /\ [][Next]_vars

-----------------------------------------------------------------------------
(* Properties.                                                             *)

\* The tokens a session holds are its user's, however refreshes, logouts and logins as
\* another user overlap, each saving what it read earlier: but for the sessions in which
\* an update wrote tokens alone, since its select had seen their user, and a login as
\* somebody else came between the two.
SessionBelongsToItsUser ==
    \A s \in Session \ torn :
        row[s] # Gone => owner[row[s].access] = row[s].user /\ owner[row[s].refresh] = row[s].user

\* While nobody has logged out and no session was copied or replaced, no refresh is
\* sent with a token that an earlier refresh of the same session has ended: that
\* is what coalescing is for, and without it a user is logged out by two requests.
RefreshSendsLiveToken ==
    mishaps = 0 /\ used = SignedIn /\ (\A c \in Call : op[c] # "logout") =>
        \A c \in Call : pc[c] = "send" => copy[c].refresh \in live

\* The refreshes of a session are single flights.
Flights == INSTANCE SingleFlight
    WITH Request <- Call, Key <- Session, Outcome <- Token \cup {Err},
         key <- [c \in Call |-> IF op[c] \in {"token", "claim"} THEN sid[c] ELSE None],
         open <- refreshInFlight
ImplementsSingleFlight == Flights!Spec
=============================================================================
