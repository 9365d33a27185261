---------------------------- MODULE SingleFlight ----------------------------
(***************************************************************************)
(* What a request-coalescing component promises, whatever the work is: at  *)
(* any time at most one flight is open for a key; a request that arrives   *)
(* while a flight is open rides it; the flight lands with one outcome,     *)
(* once; every rider answers with the outcome of the flight it rode.       *)
(*                                                                         *)
(* A flight is named by the request that opened it.  The track cache of    *)
(* the desktop application (track_cache/state.rs) and the token refresh of *)
(* the backend (auth.service.ts, refreshSession) are two implementations.  *)
(***************************************************************************)

CONSTANTS Request,   \* the requests that are ever made, each of them once
          Key,       \* what requests ask for, and coalesce on
          Outcome,   \* how a flight can end
          None       \* no flight, no outcome, no answer: in none of the three sets

VARIABLES key,       \* key[r]: what request r asks for
          ride,      \* ride[r]: the flight that r opened or joined
          open,      \* open[k]: the flight a newcomer for k would join
          landed,    \* landed[f]: the outcome of flight f
          answer     \* answer[r]: what r returned to its caller

vars == <<key, ride, open, landed, answer>>

TypeOK ==
    /\ key \in [Request -> Key \cup {None}]
    /\ ride \in [Request -> Request \cup {None}]
    /\ open \in [Key -> Request \cup {None}]
    /\ landed \in [Request -> Outcome \cup {None}]
    /\ answer \in [Request -> Outcome \cup {None}]

Init ==
    /\ key = [r \in Request |-> None]
    /\ ride = [r \in Request |-> None]
    /\ open = [k \in Key |-> None]
    /\ landed = [r \in Request |-> None]
    /\ answer = [r \in Request |-> None]

-----------------------------------------------------------------------------

Ask(r, k) ==
    /\ key[r] = None
    /\ key' = [key EXCEPT ![r] = k]
    /\ UNCHANGED <<ride, open, landed, answer>>

\* The answer was already there: no flight is needed.
Hit(r, o) ==
    /\ key[r] # None /\ ride[r] = None /\ answer[r] = None
    /\ answer' = [answer EXCEPT ![r] = o]
    /\ UNCHANGED <<key, ride, open, landed>>

Lead(r) ==
    /\ key[r] # None /\ ride[r] = None /\ answer[r] = None
    /\ open[key[r]] = None
    /\ open' = [open EXCEPT ![key[r]] = r]
    /\ ride' = [ride EXCEPT ![r] = r]
    /\ UNCHANGED <<key, landed, answer>>

Join(r) ==
    /\ key[r] # None /\ ride[r] = None /\ answer[r] = None
    /\ open[key[r]] # None
    /\ ride' = [ride EXCEPT ![r] = open[key[r]]]
    /\ UNCHANGED <<key, open, landed, answer>>

Land(r, o) ==
    /\ key[r] # None /\ open[key[r]] = r
    /\ landed[r] = None
    /\ landed' = [landed EXCEPT ![r] = o]
    /\ UNCHANGED <<key, ride, open, answer>>

Deliver(r) ==
    /\ ride[r] # None /\ answer[r] = None
    /\ landed[ride[r]] # None
    /\ answer' = [answer EXCEPT ![r] = landed[ride[r]]]
    /\ UNCHANGED <<key, ride, open, landed>>

\* A landed flight stops taking riders.
Close(r) ==
    /\ key[r] # None /\ open[key[r]] = r
    /\ landed[r] # None
    /\ open' = [open EXCEPT ![key[r]] = None]
    /\ UNCHANGED <<key, ride, landed, answer>>

\* The process ends: the flights it kept in memory are gone.
Abort ==
    /\ open' = [k \in Key |-> None]
    /\ UNCHANGED <<key, ride, landed, answer>>

Next ==
    \/ \E r \in Request, k \in Key : Ask(r, k)
    \/ \E r \in Request, o \in Outcome : Hit(r, o) \/ Land(r, o)
    \/ \E r \in Request : Lead(r) \/ Join(r) \/ Deliver(r) \/ Close(r)
    \/ Abort

Spec == Init /\ [][Next]_vars

-----------------------------------------------------------------------------

Airborne(f) == ride[f] = f /\ landed[f] = None /\ key[f] # None /\ open[key[f]] = f

\* Whatever has been answered to a rider is what its flight brought back.
RidersAgree ==
    \A r \in Request :
        ride[r] # None /\ answer[r] # None => answer[r] = landed[ride[r]]

\* Two flights for one key are never in the air together.
OneAirbornePerKey ==
    \A f, g \in Request : Airborne(f) /\ Airborne(g) /\ key[f] = key[g] => f = g

\* A rider sits on a flight for the key it asked for.
RidersShareKey ==
    \A r \in Request : ride[r] # None => key[ride[r]] = key[r] /\ key[r] # None
=============================================================================
