-------------------------------- MODULE Link --------------------------------
(***************************************************************************)
(* Handing a session to another device by QR code: backend/src/auth/       *)
(* link.service.ts, composed with Sessions.                                *)
(*                                                                         *)
(* A link is a database row.  In push mode its creator hands out its own   *)
(* session, in pull mode the claimer does.  A claim reads the link, checks *)
(* it, makes sure that the source session has a valid token (a call into   *)
(* Sessions, and possibly a refresh), copies the session into a new one    *)
(* and saves the link.  Claims, refreshes, logouts and logins interleave   *)
(* at every query.                                                         *)
(***************************************************************************)
EXTENDS Sessions

CONSTANT Link     \* the links, each created once

VARIABLES link,     \* the link_requests table
          lapsed,   \* the links whose expiresAt has passed
          claims,   \* the link a call claims
          entity,   \* the link entity it has read
          target,   \* the session a claim has created
          linkSeen, \* the row its save of the link has selected
          mixed     \* the links an update has left claimed, but not as it saved them

linkVars == <<link, lapsed, claims, entity, target, linkSeen, mixed>>
allVars  == <<vars, linkVars>>

NoLink == [status |-> "none", mode |-> "none", source |-> None, target |-> None]
LinkRow == [status : {"pending", "claimed", "failed"}, mode : {"pull", "push"},
            source : Session \cup {None}, target : Session \cup {None}]
LinkPC == PC \cup {"claim", "lapse", "lapsing", "source", "copy", "link", "linking",
                    "claimed", "refused"}

LinkTypeOK ==
    /\ StoreOK /\ pc \in [Call -> LinkPC]
    /\ link \in [Link -> LinkRow \cup {NoLink}]
    /\ lapsed \in SUBSET Link
    /\ claims \in [Call -> Link \cup {None}]
    /\ entity \in [Call -> LinkRow \cup {NoLink}]
    /\ target \in [Call -> Session \cup {None}]
    /\ linkSeen \in [Call -> LinkRow \cup {NoLink}] /\ mixed \in SUBSET Link

LinkInit ==
    /\ Init
    /\ link = [l \in Link |-> NoLink]
    /\ lapsed = {}
    /\ claims = [c \in Call |-> None]
    /\ entity = [c \in Call |-> NoLink]
    /\ target = [c \in Call |-> None]
    /\ linkSeen = [c \in Call |-> NoLink] /\ mixed = {}

-----------------------------------------------------------------------------

\* create: the source of a push link existed when it was looked up, and may have
\* logged out before the link is saved.
CreateLink(l, mode, s) ==
    /\ l \notin lapsed /\ link[l] = NoLink /\ \A c \in Call : claims[c] # l
    /\ (mode = "push") <=> (s # None)
    /\ link' = [link EXCEPT ![l] =
                   [status |-> "pending", mode |-> mode, source |-> s, target |-> None]]
    /\ UNCHANGED <<vars, lapsed, claims, entity, target, linkSeen, mixed>>

\* LINK_REQUEST_TTL_MS have passed.
Lapse(l) ==
    /\ link[l] # NoLink /\ l \notin lapsed
    /\ lapsed' = lapsed \cup {l}
    /\ UNCHANGED <<vars, link, claims, entity, target, linkSeen, mixed>>

\* cleanup, which every create starts and does not wait for.
Cleanup(l) ==
    /\ l \in lapsed /\ link[l] # NoLink
    /\ link' = [link EXCEPT ![l] = NoLink]
    /\ UNCHANGED <<vars, lapsed, claims, entity, target, linkSeen, mixed>>

\* A claim comes in, from session s or, for s = None, from a device without one.
Claim(c, l, s) ==
    /\ link[l] # NoLink
    /\ Begin(c, "claim", "claim")
    /\ claims' = [claims EXCEPT ![c] = l]
    /\ target' = [target EXCEPT ![c] = s]
    /\ UNCHANGED <<row, used, saving, sid, copy, ride, landed, answer, refreshInFlight, cloud,
                   mishaps, link, lapsed, entity, linkSeen, mixed>>

SessionFrame ==
    UNCHANGED <<row, used, saving, op, sid, copy, ride, landed, answer, refreshInFlight, cloud,
                mishaps>>

\* findOne by token, and the checks.  The session the tokens come from is the
\* caller's for a pull link and the creator's for a push link.
ClaimReads(c) ==
    /\ pc[c] = "claim"
    /\ LET found == link[claims[c]]
           from  == IF found.mode = "pull" THEN target[c] ELSE found.source
       IN  \/ /\ found.status # "pending"
              /\ Goto(c, "refused") /\ UNCHANGED <<entity, target>>
           \/ /\ found.status = "pending" /\ claims[c] \in lapsed
              /\ entity' = [entity EXCEPT ![c] = [found EXCEPT !.status = "failed"]]
              /\ Goto(c, "lapse") /\ UNCHANGED target
           \/ /\ found.status = "pending" /\ claims[c] \notin lapsed
              /\ IF from = None
                 THEN Goto(c, "refused") /\ UNCHANGED <<entity, target>>
                 ELSE /\ entity' = [entity EXCEPT ![c] = [found EXCEPT !.source = from]]
                      /\ target' = [target EXCEPT ![c] = None]
                      /\ Goto(c, "source")
    /\ SessionFrame /\ UNCHANGED <<link, lapsed, claims, linkSeen, mixed>>

\* save of the link, as failed when it has expired, or as claimed: it is selected first.
LinkSelects(c) ==
    /\ \/ pc[c] = "lapse" /\ Goto(c, "lapsing")
       \/ pc[c] = "link" /\ Goto(c, "linking")
    /\ linkSeen' = [linkSeen EXCEPT ![c] = link[claims[c]]]
    /\ SessionFrame /\ UNCHANGED <<link, lapsed, claims, entity, target, mixed>>

\* As Updated and Written of Sessions; nobody creates the link again.
LinkUpdated(now, was, e) ==
    [status |-> IF e.status # was.status THEN e.status ELSE now.status,
     mode   |-> now.mode,
     source |-> IF e.source # was.source THEN e.source ELSE now.source,
     target |-> IF e.target # was.target THEN e.target ELSE now.target]

LinkWritten(c, e) ==
    LET l == claims[c] IN
    \/ /\ link[l] = NoLink
       /\ link' = [link EXCEPT ![l] = IF linkSeen[c] = NoLink THEN e ELSE NoLink]
       /\ UNCHANGED mixed
    \/ /\ link[l] # NoLink /\ linkSeen[c] # NoLink
       /\ LET new == LinkUpdated(link[l], linkSeen[c], e)
          IN  /\ link' = [link EXCEPT ![l] = new]
              /\ mixed' = IF new.status = "claimed" /\ new \notin {e, link[l]}
                          THEN mixed \cup {l} ELSE mixed

\* Two claims insert a link that was cleaned up.
LinkConflicts(c) == linkSeen[c] = NoLink /\ link[claims[c]] # NoLink

\* The link has expired; whatever becomes of the save, the claim is refused.
ClaimLapses(c) ==
    /\ pc[c] = "lapsing"
    /\ \/ LinkWritten(c, entity[c])
       \/ LinkConflicts(c) /\ UNCHANGED <<link, mixed>>
    /\ Goto(c, "refused")
    /\ linkSeen' = [linkSeen EXCEPT ![c] = NoLink]
    /\ SessionFrame /\ UNCHANGED <<lapsed, claims, entity, target>>

\* findOne of the source session, then getValidAccessToken, as a call of Sessions.
ClaimFindsSource(c) ==
    /\ pc[c] = "source"
    /\ IF row[entity[c].source] = Gone
       THEN Goto(c, "refused") /\ UNCHANGED sid
       ELSE sid' = [sid EXCEPT ![c] = entity[c].source] /\ Goto(c, "lookup")
    /\ UNCHANGED <<row, used, saving, op, copy, ride, landed, answer, refreshInFlight, cloud,
                   mishaps, linkVars>>

\* It returned a token: the session is read again, and copied as it is now.
ClaimRereads(c) ==
    /\ op[c] = "claim" /\ pc[c] = "done"
    /\ IF answer[c] = Err \/ row[sid[c]] = Gone
       THEN Goto(c, "refused") /\ UNCHANGED copy
       ELSE copy' = [copy EXCEPT ![c] = row[sid[c]]] /\ Goto(c, "copy")
    /\ UNCHANGED <<row, used, saving, op, sid, ride, landed, answer, refreshInFlight, cloud,
                   mishaps, linkVars>>

\* The new session is inserted; it is torn if its source was.
ClaimCopies(c) ==
    /\ pc[c] = "copy"
    /\ \E s \in Session \ used :
          /\ row' = [row EXCEPT ![s] = copy[c]]
          /\ used' = used \cup {s}
          /\ target' = [target EXCEPT ![c] = s]
          /\ torn' = IF sid[c] \in torn THEN torn \cup {s} ELSE torn
    /\ Goto(c, "link")
    /\ UNCHANGED <<seen, op, sid, copy, ride, landed, answer, refreshInFlight, cloud, mishaps,
                   link, lapsed, claims, entity, linkSeen, mixed>>

AsClaimed(c) == [entity[c] EXCEPT !.status = "claimed", !.target = target[c]]

\* Mutant: a source that is there already is kept.
ClaimSavesTarget(c) ==
    /\ pc[c] = "linking"
    /\ link' = [link EXCEPT ![claims[c]] =
                   [AsClaimed(c) EXCEPT !.source = IF link[claims[c]].source # None
                                                 THEN link[claims[c]].source ELSE @]]
    /\ Goto(c, "claimed") /\ UNCHANGED mishaps
    /\ UNCHANGED <<row, used, saving, op, sid, copy, ride, landed, answer, refreshInFlight, cloud,
                   lapsed, claims, entity, target, linkSeen, mixed>>

\* The link is saved, and the claim answers the new session's id.
ClaimSaves(c) ==
    /\ pc[c] = "linking"
    /\ linkSeen' = [linkSeen EXCEPT ![c] = NoLink]
    /\ \/ LinkWritten(c, AsClaimed(c)) /\ Goto(c, "claimed") /\ UNCHANGED mishaps
       \/ LinkConflicts(c) /\ Goto(c, "dead") /\ UNCHANGED <<link, mixed, mishaps>>
       \/ QueryFails(c) /\ UNCHANGED <<link, mixed>>
    /\ UNCHANGED <<row, used, saving, op, sid, copy, ride, landed, answer, refreshInFlight, cloud,
                   lapsed, claims, entity, target>>

ClaimStep(c) ==
    \/ ClaimReads(c) \/ ClaimFindsSource(c) \/ ClaimRereads(c) \/ ClaimCopies(c)
    \/ LinkSelects(c) \/ ClaimLapses(c) \/ ClaimSaves(c)

LinkRestart ==
    /\ mishaps < MaxMishaps /\ mishaps' = mishaps + 1
    /\ pc' = [c \in Call |->
                 IF \/ pc[c] \in {"idle", "claimed", "refused"}
                    \/ pc[c] = "done" /\ op[c] # "claim"
                 THEN pc[c] ELSE "dead"]
    /\ refreshInFlight' = [s \in Session |-> None]
    /\ UNCHANGED <<row, used, saving, op, sid, copy, ride, landed, answer, cloud, linkVars>>

LinkNext ==
    \/ \E l \in Link : \/ \E mode \in {"pull", "push"}, s \in used \cup {None} :
                              CreateLink(l, mode, s)
                       \/ Lapse(l) \/ Cleanup(l)
    \/ \E c \in Call, l \in Link, s \in used \cup {None} : Claim(c, l, s)
    \/ \E c \in Call : ClaimStep(c)
    \/ /\ \/ \E c \in Call : Begins(c) \/ CallStep(c)
          \/ \E n \in Token : Expire(n)
       /\ UNCHANGED linkVars
    \/ LinkRestart

LinkSpec == LinkInit /\ [][LinkNext]_allVars

\* Queries are answered or fail, and the event loop runs every callback.  Nobody has to
\* send a request, and SoundCloud need not answer one: its requests have no timeout.
AwaitsSoundCloud(c) == pc[c] \in {"send", "signout"}

LinkFairSpec ==
    /\ LinkSpec
    /\ \A c \in Call :
           WF_allVars(\/ ClaimStep(c)
                      \/ CallStep(c) /\ ~AwaitsSoundCloud(c) /\ UNCHANGED linkVars)

-----------------------------------------------------------------------------
(* Properties.                                                             *)

\* A claimed link is the record of one claim: the session its receiver is told of was
\* copied from the source it names, however many claims saved it, each by what it knew;
\* but for the links in which an update mixed the columns of two claims.
ClaimedLinkIsOneClaim ==
    \A l \in Link \ mixed :
        link[l].status = "claimed" =>
            \E c \in Call : /\ claims[c] = l /\ pc[c] \in {"claimed", "dead"}
                            /\ target[c] = link[l].target /\ sid[c] = link[l].source

Ended(c) ==
    \/ pc[c] \in {"claimed", "refused", "dead"}
    \/ pc[c] = "done" /\ op[c] # "claim"

\* It waits for SoundCloud, itself or by the refresh it rides on.
HeldUp(c) == AwaitsSoundCloud(c) \/ (pc[c] = "riding" /\ AwaitsSoundCloud(ride[c]))

\* Every request is answered, a claim with the refresh it waits for, or is waiting for
\* SoundCloud to answer that refresh or the sign-out: a refresh that failed does not stay in
\* the map, where it would hold up the session's later ones.  (A login that finds no unused
\* session id in the bound is left out.)
EveryCallEnds ==
    \A c \in Call : []<>(op[c] \in {"token", "logout", "claim"} => Ended(c) \/ HeldUp(c))
=============================================================================
