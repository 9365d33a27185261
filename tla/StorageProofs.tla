------------------------------ MODULE StorageProofs ------------------------------
(* Proofs about Storage, for any uploads, names, lengths, batch sizes, permits,    *)
(* writers, retries and mishaps.                                                   *)
(*                                                                                 *)
(* The inductive invariant: the types; JobsOK, where the jobs of each stage are    *)
(* kept; EndsOK, an answered job is over and its source gone; HeldOK, a handler    *)
(* that waits holds the lock of its name, and its job runs only while it waits     *)
(* unless a client has hung up; PartsOK, how far the two results of a job are and  *)
(* what the backend then has; AnnouncedOK and LongerOK, what publishing and        *)
(* replacing rest on.  GoesOn, proved from it, is the converse that liveness rests *)
(* on: what is promised is somewhere that a task takes it up from.  The last       *)
(* section adds that the tasks end: a rank that each of their steps lowers.        *)
EXTENDS Storage, SequenceTheorems, FiniteSetTheorems, TLAPS

Stages  == {"none", "over"} \cup Active
Marks   == {"none", "waiting", "check", "replace", "put"} \cup Over
Answers == {"ok", "short", "ffmpeg", "backend", None}

\* TypeOK, by the parts of the state that change together.
HandlerTypes ==
    /\ backend \in Backends
    /\ pc \in [Upload -> {"idle", "lock", "waiting", "done", "gone"}]
    /\ name \in [Upload -> File \cup {None}]
    /\ length \in [Upload -> Length \cup {0}]
    /\ lock \in [File -> Upload \cup {None}]
JobTypes ==
    /\ queue \in Seq(Upload) /\ forming \in SUBSET Upload
    /\ running \in SUBSET SUBSET Upload /\ stage \in [Upload -> Stages]
ResultTypes ==
    /\ part \in [Upload -> [Quality -> Marks]]
    /\ tries \in [Upload -> [Quality -> 0..Retries]]
    /\ reply \in [Upload -> Answers]
    /\ source \in SUBSET Upload
StoreTypes ==
    /\ file \in [File -> [Quality -> Length \cup {0}]]
    /\ announced \in SUBSET File /\ removed \in SUBSET File /\ deleting \in SUBSET File
BoundTypes ==
    /\ faults \in Nat /\ hangups \in Nat /\ deletes \in Nat
    /\ faults + hangups + deletes <= MaxMishaps

LEMMA TypeParts ==
    TypeOK <=> /\ HandlerTypes /\ JobTypes /\ sealed \in BOOLEAN
               /\ ResultTypes /\ StoreTypes /\ BoundTypes
BY DEF TypeOK, HandlerTypes, JobTypes, ResultTypes, StoreTypes, BoundTypes, Stages, Marks,
       Answers

LEMMA TypePartsNext ==
    ASSUME HandlerTypes', JobTypes', sealed' \in BOOLEAN, ResultTypes', StoreTypes', BoundTypes'
    PROVE  TypeOK'
BY DEF TypeOK, HandlerTypes, JobTypes, ResultTypes, StoreTypes, BoundTypes, Stages, Marks,
       Answers

-----------------------------------------------------------------------------
(* What the operators of the actions do.                                     *)

LEMMA StageFacts ==
    ASSUME stage \in [Upload -> Stages], NEW us \in SUBSET Upload, NEW label \in Stages,
           Stage(us, label)
    PROVE  /\ stage' \in [Upload -> Stages]
           /\ \A u \in us : stage'[u] = label
           /\ \A u \in Upload \ us : stage'[u] = stage[u]
BY DEF Stage

LEMMA PartFacts ==
    ASSUME part \in [Upload -> [Quality -> Marks]], NEW u \in Upload, NEW q \in Quality,
           NEW label \in Marks, Part(u, q, label)
    PROVE  /\ part' \in [Upload -> [Quality -> Marks]]
           /\ part'[u][q] = label
           /\ \A r \in Quality \ {q} : part'[u][r] = part[u][r]
           /\ \A v \in Upload \ {u} : part'[v] = part[v]
<1> DEFINE new == [part[u] EXCEPT ![q] = label]
<1>1. part' = [part EXCEPT ![u] = new]
  BY DEF Part
<1>2. new \in [Quality -> Marks] /\ new[q] = label /\ \A r \in Quality \ {q} : new[r] = part[u][r]
  OBVIOUS
<1> HIDE DEF new
<1> QED
  BY <1>1, <1>2

LEMMA FileFacts ==
    ASSUME file \in [File -> [Quality -> Length \cup {0}]], NEW f \in File, NEW q \in Quality,
           NEW d \in Length \cup {0}, file' = [file EXCEPT ![f][q] = d]
    PROVE  /\ file' \in [File -> [Quality -> Length \cup {0}]]
           /\ file'[f][q] = d
           /\ \A r \in Quality \ {q} : file'[f][r] = file[f][r]
           /\ \A g \in File \ {f} : file'[g] = file[g]
<1> DEFINE new == [file[f] EXCEPT ![q] = d]
<1>1. file' = [file EXCEPT ![f] = new]
  OBVIOUS
<1>2. /\ new \in [Quality -> Length \cup {0}] /\ new[q] = d
      /\ \A r \in Quality \ {q} : new[r] = file[f][r]
  OBVIOUS
<1> HIDE DEF new
<1> QED
  BY <1>1, <1>2

LEMMA TriesFacts ==
    ASSUME tries \in [Upload -> [Quality -> 0..Retries]], NEW u \in Upload, NEW q \in Quality,
           NEW label \in Marks, Retry(u, q, label)
    PROVE  /\ tries' \in [Upload -> [Quality -> 0..Retries]]
           /\ Part(u, q, label) \/ Part(u, q, "err")
<1> DEFINE new == [tries[u] EXCEPT ![q] = @ + 1]
<1>1. CASE tries[u][q] < Retries
  <2>1. tries[u][q] + 1 \in 0..Retries
    BY <1>1, StorageAssumption
  <2>2. new \in [Quality -> 0..Retries]
    BY <2>1
  <2>3. tries' = [tries EXCEPT ![u] = new]
    BY <1>1 DEF Retry
  <2> HIDE DEF new
  <2> QED
    BY <1>1, <2>2, <2>3 DEF Retry
<1>2. CASE ~(tries[u][q] < Retries)
  BY <1>2 DEF Retry
<1> QED
  BY <1>1, <1>2

LEMMA BoundFacts ==
    ASSUME BoundTypes,
           \/ UNCHANGED bounds \/ Fault
           \/ Mishap /\ hangups' = hangups + 1 /\ UNCHANGED <<faults, deletes>>
           \/ Mishap /\ deletes' = deletes + 1 /\ UNCHANGED <<faults, hangups>>
    PROVE  /\ BoundTypes'
           /\ hangups' = 0 => hangups = 0
           /\ faults' = 0 => faults = 0 /\ ~Fault
           /\ Fault => UNCHANGED hangups
<1>1. MaxMishaps \in Nat
  BY StorageAssumption
<1> QED
  BY <1>1 DEF BoundTypes, bounds, Fault, Mishap

LEMMA FinishFacts ==
    ASSUME ResultTypes, NEW us \in SUBSET Upload, NEW outcome \in Answers, Finish(us, outcome)
    PROVE  /\ source' \in SUBSET Upload /\ reply' \in [Upload -> Answers]
           /\ source' = source \ us
           /\ \A u \in us : reply'[u] = outcome
           /\ \A u \in Upload \ us : reply'[u] = reply[u]
BY DEF ResultTypes, Finish

LEMMA CommitFacts ==
    ASSUME JobTypes, ResultTypes, NEW us \in SUBSET Upload, Commit(us)
    PROVE  /\ Stage(us, "commit") /\ part' \in [Upload -> [Quality -> Marks]]
           /\ \A u \in us, q \in Quality : part'[u][q] = "waiting"
           /\ \A u \in Upload \ us : part'[u] = part[u]
<1>1. [q \in Quality |-> "waiting"] \in [Quality -> Marks]
  BY DEF Marks
<1> QED
  BY <1>1 DEF ResultTypes, Commit

-----------------------------------------------------------------------------
(* The inductive invariant.                                                  *)

JobsOK ==
    /\ \A u \in Upload : pc[u] \in {"idle", "lock"} => stage[u] = "none"
    /\ \A u \in Upload : pc[u] # "idle" => name[u] \in File /\ length[u] \in Length
    /\ \A i \in 1..Len(queue) : stage[queue[i]] = "queued"
    /\ \A i, j \in 1..Len(queue) : queue[i] = queue[j] => i = j
    /\ \A u \in forming : stage[u] = "forming"
    /\ \A b \in running : \A u \in b : stage[u] \in {"probe", "ffmpeg"}
    /\ \A b, c \in running : b # c => b \cap c = {}

EndsOK ==
    /\ \A u \in Upload : reply[u] # None => stage[u] = "over"
    /\ \A u \in Upload : stage[u] = "over" => u \notin source

HeldOK ==
    /\ \A u \in Upload : pc[u] = "waiting" => lock[name[u]] = u
    /\ hangups = 0 => \A u \in Upload : stage[u] \in Active => pc[u] = "waiting"

PartsOK ==
    \A u \in Upload, q \in Quality :
        /\ part[u][q] \in {"waiting", "check", "replace", "put"} => stage[u] = "commit"
        /\ part[u][q] \in Over => stage[u] \in {"commit", "over"}
        /\ part[u][q] \in {"check", "replace"} => backend = "local"
        /\ part[u][q] = "put" => backend # "local"
        /\ part[u][q] = "ok" => file[name[u]][q] # 0 \/ name[u] \in removed

AnnouncedOK ==
    /\ \A u \in Upload : reply[u] = "ok" => name[u] \in announced
    /\ \A f \in File, q \in Quality : f \in announced \ removed => file[f][q] # 0

\* What should_keep_existing found is still so when the file is replaced.
LongerOK ==
    hangups = 0 /\ faults = 0 =>
        \A u \in Upload, q \in Quality :
            part[u][q] = "replace"
                => file[name[u]][q] = 0 \/ file[name[u]][q] + Epsilon < length[u]

IInv == TypeOK /\ JobsOK /\ EndsOK /\ HeldOK /\ PartsOK /\ AnnouncedOK /\ LongerOK

LEMMA OneJob == ASSUME TypeOK, HeldOK PROVE OneJobPerFile
BY DEF HeldOK, OneJobPerFile

LEMMA Lengths == Length \cup {0} \subseteq Nat /\ 0 \notin Length /\ Epsilon \in Nat
BY StorageAssumption

LEMMA Named ==
    ASSUME JobsOK, NEW u \in Upload, stage[u] # "none"
    PROVE  pc[u] # "idle" /\ name[u] \in File /\ length[u] \in Length /\ length[u] # 0
BY StorageAssumption DEF JobsOK

LEMMA Initially == Init => IInv
<1> SUFFICES ASSUME Init PROVE IInv
  OBVIOUS
<1>1. /\ HandlerTypes /\ StoreTypes
  BY DEF Init, HandlerTypes, StoreTypes
<1>2. JobTypes
  BY DEF Init, JobTypes, Stages
<1>3. ResultTypes /\ BoundTypes
  BY StorageAssumption DEF Init, ResultTypes, BoundTypes, Marks, Answers
<1>4. sealed \in BOOLEAN
  BY DEF Init
<1>5. Len(queue) = 0
  BY DEF Init
<1>6. \A u \in Upload : pc[u] = "idle" /\ stage[u] = "none" /\ reply[u] = None
  BY DEF Init
<1>7. JobsOK
  BY <1>5, <1>6 DEF Init, JobsOK
<1>8. EndsOK /\ HeldOK
  BY <1>6 DEF EndsOK, HeldOK, Active
<1>9. PartsOK /\ LongerOK
  <2>1. \A u \in Upload, q \in Quality : part[u][q] = "none"
    BY DEF Init
  <2> QED
    BY <2>1 DEF PartsOK, LongerOK, Over
<1>10. AnnouncedOK
  BY <1>6, StorageAssumption DEF Init, AnnouncedOK
<1> QED
  BY <1>1, <1>2, <1>3, <1>4, <1>7, <1>8, <1>9, <1>10, TypeParts DEF IInv

-----------------------------------------------------------------------------
(* The writers.                                                              *)

\* A writer leaves one result of job u at this label, and the file of its name as it was,
\* replaced by the result, or removed.
WriterMoves(u, q, label) ==
    /\ part[u][q] \in {"waiting", "check", "replace", "put"} /\ Part(u, q, label)
    /\ label \in {"check", "replace", "put", "ok", "err"}
    /\ label \in {"check", "replace"} => backend = "local"
    /\ label = "put" => backend # "local"
    /\ label = "ok" => file'[name[u]][q] # 0
    /\ label = "replace" /\ hangups' = 0 /\ faults' = 0 =>
          /\ UNCHANGED file
          /\ file[name[u]][q] = 0 \/ file[name[u]][q] + Epsilon < length[u]
    /\ \/ UNCHANGED <<file, removed>>
       \/ file' = [file EXCEPT ![name[u]][q] = length[u]] /\ UNCHANGED removed
       \/ file' = [file EXCEPT ![name[u]][q] = 0] /\ removed' = removed \cup {name[u]}

LEMMA WriterStep ==
    ASSUME IInv, NEW u \in Upload, NEW q \in Quality,
           NEW label \in {"check", "replace", "put", "ok", "err"}, WriterMoves(u, q, label),
           UNCHANGED <<restOfWriter, announced>>,
           tries' \in [Upload -> [Quality -> 0..Retries]], UNCHANGED bounds \/ Fault
    PROVE  IInv'
<1>1. /\ HandlerTypes /\ JobTypes /\ sealed \in BOOLEAN /\ ResultTypes /\ StoreTypes
      /\ BoundTypes /\ JobsOK /\ EndsOK /\ HeldOK /\ PartsOK /\ AnnouncedOK /\ LongerOK
  BY TypeParts DEF IInv
<1>2. stage[u] = "commit" /\ name[u] \in File /\ length[u] \in Length /\ length[u] # 0
      /\ length[u] \in Length \cup {0}
  BY <1>1, Named DEF WriterMoves, PartsOK
<1>3. /\ part' \in [Upload -> [Quality -> Marks]] /\ part'[u][q] = label
      /\ \A r \in Quality \ {q} : part'[u][r] = part[u][r]
      /\ \A v \in Upload \ {u} : part'[v] = part[v]
  BY <1>1, PartFacts DEF WriterMoves, Marks, Over, ResultTypes
<1>4. BoundTypes' /\ (hangups' = 0 => hangups = 0) /\ (faults' = 0 => faults = 0)
  BY <1>1, BoundFacts
<1>5. /\ UNCHANGED <<backend, pc, name, length, lock, queue, forming, sealed, running, stage,
                     source, reply, deleting, announced>>
  BY DEF restOfWriter, handler, jobs
\* The files: the writer touches none but its own.
<1>6. /\ file' \in [File -> [Quality -> Length \cup {0}]]
      /\ \A f \in File, r \in Quality : <<f, r>> # <<name[u], q>> => file'[f][r] = file[f][r]
      /\ removed \subseteq removed' /\ removed' \subseteq removed \cup {name[u]}
      /\ file'[name[u]][q] = 0 => file[name[u]][q] = 0 \/ name[u] \in removed'
  <2>1. CASE UNCHANGED <<file, removed>>
    BY <1>1, <2>1 DEF StoreTypes
  <2>2. ASSUME NEW d \in {0, length[u]}, file' = [file EXCEPT ![name[u]][q] = d],
               d = 0 => removed' = removed \cup {name[u]}, d # 0 => UNCHANGED removed
        PROVE  /\ file' \in [File -> [Quality -> Length \cup {0}]]
               /\ \A f \in File, r \in Quality :
                     <<f, r>> # <<name[u], q>> => file'[f][r] = file[f][r]
               /\ removed \subseteq removed' /\ removed' \subseteq removed \cup {name[u]}
               /\ file'[name[u]][q] = 0 => file[name[u]][q] = 0 \/ name[u] \in removed'
    <3>1. /\ file' \in [File -> [Quality -> Length \cup {0}]] /\ file'[name[u]][q] = d
          /\ \A r \in Quality \ {q} : file'[name[u]][r] = file[name[u]][r]
          /\ \A g \in File \ {name[u]} : file'[g] = file[g]
      BY <1>1, <1>2, <2>2, FileFacts DEF StoreTypes
    <3> QED
      BY <1>2, <2>2, <3>1
  <2> QED
    BY <1>2, <2>1, <2>2 DEF WriterMoves
<1>7. HandlerTypes' /\ JobTypes' /\ sealed' \in BOOLEAN
  BY <1>1, <1>5 DEF HandlerTypes, JobTypes
<1>8. ResultTypes' /\ StoreTypes'
  BY <1>1, <1>2, <1>3, <1>5, <1>6 DEF ResultTypes, StoreTypes
<1>9. JobsOK' /\ EndsOK'
  BY <1>1, <1>5 DEF JobsOK, EndsOK
<1>10. HeldOK'
  BY <1>1, <1>4, <1>5 DEF HeldOK
<1>11. PartsOK'
  <2> SUFFICES ASSUME NEW v \in Upload, NEW r \in Quality
               PROVE  /\ part'[v][r] \in {"waiting", "check", "replace", "put"}
                            => stage[v] = "commit"
                      /\ part'[v][r] \in Over => stage[v] \in {"commit", "over"}
                      /\ part'[v][r] \in {"check", "replace"} => backend = "local"
                      /\ part'[v][r] = "put" => backend # "local"
                      /\ part'[v][r] = "ok" => file'[name[v]][r] # 0 \/ name[v] \in removed'
    BY <1>5 DEF PartsOK
  <2>1. CASE v = u /\ r = q
    BY <1>2, <1>3, <2>1 DEF WriterMoves
  <2>2. CASE v # u \/ r # q
    <3>1. part'[v][r] = part[v][r]
      BY <1>3, <2>2
    <3>2. part[v][r] = "ok" => file'[name[v]][r] # 0 \/ name[v] \in removed'
      <4>1. ASSUME part[v][r] = "ok"
            PROVE  name[v] \in File /\ (file[name[v]][r] # 0 \/ name[v] \in removed)
        <5>1. stage[v] # "none"
          BY <1>1, <4>1 DEF PartsOK, Over
        <5> QED
          BY <1>1, <4>1, <5>1, Named DEF PartsOK
      <4> QED
        BY <1>6, <4>1
    <3> QED
      BY <1>1, <3>1, <3>2 DEF PartsOK
  <2> QED
    BY <2>1, <2>2
<1>12. AnnouncedOK'
  <2>1. \A v \in Upload : reply'[v] = "ok" => name'[v] \in announced'
    BY <1>1, <1>5 DEF AnnouncedOK
  <2>2. ASSUME NEW f \in File, NEW r \in Quality, f \in announced' \ removed'
        PROVE  file'[f][r] # 0
    BY <1>1, <1>2, <1>5, <1>6, <2>2 DEF AnnouncedOK
  <2> QED
    BY <2>1, <2>2 DEF AnnouncedOK
<1>13. LongerOK'
  <2> SUFFICES ASSUME hangups' = 0, faults' = 0, NEW v \in Upload, NEW r \in Quality,
                      part'[v][r] = "replace"
               PROVE  file'[name[v]][r] = 0 \/ file'[name[v]][r] + Epsilon < length[v]
    BY <1>5 DEF LongerOK
  <2>1. CASE v = u /\ r = q
    BY <1>3, <2>1 DEF WriterMoves
  <2>2. CASE v # u \/ r # q
    <3>1. part[v][r] = "replace"
      BY <1>3, <2>2
    <3>2. stage[v] = "commit" /\ name[v] \in File
      BY <1>1, <3>1, Named DEF PartsOK
    <3>3. v # u => name[v] # name[u]
      BY <1>1, <1>2, <1>4, <3>2, OneJob DEF OneJobPerFile, Active, IInv
    <3>4. file'[name[v]][r] = file[name[v]][r]
      BY <1>6, <2>2, <3>2, <3>3
    <3> QED
      BY <1>1, <1>4, <3>1, <3>4 DEF LongerOK
  <2> QED
    BY <2>1, <2>2
<1> QED
  BY <1>4, <1>7, <1>8, <1>9, <1>10, <1>11, <1>12, <1>13, TypePartsNext DEF IInv

LEMMA NoReplaceOfLonger ==
    ASSUME IInv, NEW u \in Upload, NEW q \in Quality, part[u][q] = "replace",
           hangups = 0, faults = 0
    PROVE  file[name[u]][q] = 0 \/ file[name[u]][q] + Epsilon < length[u]
BY DEF IInv, LongerOK

\* The actions of the writers are such moves.
LEMMA WriterActions ==
    ASSUME IInv, NEW u \in Upload, NEW q \in Quality,
           Write(u, q) \/ MoveFails(u, q) \/ RenameFails(u, q)
    PROVE  IInv' /\ UNCHANGED backend
<1>1. /\ ResultTypes /\ StoreTypes /\ PartsOK /\ BoundTypes /\ UNCHANGED backend
      /\ \A v \in Upload, r \in Quality : tries[v][r] \in 0..Retries
  BY TypeParts DEF IInv, Write, Take, Check, Replace, PutObject, MoveFails, RenameFails,
                   restOfWriter, handler, ResultTypes
<1>n. part[u][q] \in {"waiting", "check", "replace", "put"}
         => name[u] \in File /\ length[u] \in Length /\ length[u] # 0
            /\ length[u] \in Length \cup {0}
  BY <1>1, Named DEF IInv, PartsOK
<1>p. ASSUME part[u][q] \in {"waiting", "check", "replace", "put"}, Put(u, q, length[u])
      PROVE  file'[name[u]][q] # 0
  BY <1>1, <1>n, <1>p, FileFacts DEF Put, StoreTypes
<1>t. UNCHANGED tries => tries' \in [Upload -> [Quality -> 0..Retries]]
  BY <1>1 DEF ResultTypes
<1>2. CASE Take(u, q)
  <2> DEFINE label == IF backend = "local" THEN "check" ELSE "put"
  <2>1. WriterMoves(u, q, label) /\ UNCHANGED <<restOfWriter, announced, tries, bounds>>
    BY <1>2 DEF Take, WriterMoves, store
  <2> QED
    BY <1>1, <1>t, <2>1, WriterStep
<1>3. CASE Check(u, q)
  <2> DEFINE existing == file[name[u]][q]
  <2>0. part[u][q] = "check" /\ UNCHANGED <<restOfWriter, announced, removed, file, tries>>
        /\ backend = "local"
    BY <1>1, <1>3 DEF Check, store, PartsOK
  <2>a. CASE Part(u, q, "ok") /\ existing # 0 /\ UNCHANGED bounds
    <3>1. WriterMoves(u, q, "ok")
      BY <2>0, <2>a DEF WriterMoves
    <3> QED
      BY <1>1, <1>t, <2>0, <2>a, <3>1, WriterStep
  <2>b. CASE /\ Part(u, q, "replace") /\ UNCHANGED bounds
             /\ ~(existing # 0 /\ existing + Epsilon >= length[u])
    <3>0. existing \in Length \cup {0} /\ length[u] \in Length
      BY <1>1, <1>n, <2>0 DEF StoreTypes
    <3>1. existing \in Nat /\ length[u] \in Nat /\ Epsilon \in Nat
      BY <3>0, Lengths
    <3>2. WriterMoves(u, q, "replace")
      BY <2>0, <2>b, <3>1 DEF WriterMoves
    <3> QED
      BY <1>1, <1>t, <2>0, <2>b, <3>2, WriterStep
  <2>c. CASE Part(u, q, "replace") /\ Fault
    <3>1. faults' # 0
      BY <1>1, <2>c DEF Fault, BoundTypes
    <3>2. WriterMoves(u, q, "replace")
      BY <2>0, <2>c, <3>1 DEF WriterMoves
    <3> QED
      BY <1>1, <1>t, <2>0, <2>c, <3>2, WriterStep
  <2> QED
    BY <1>3, <2>a, <2>b, <2>c DEF Check
<1>4. CASE Replace(u, q)
  <2>1. WriterMoves(u, q, "ok") /\ UNCHANGED <<restOfWriter, announced, tries, bounds>>
    BY <1>4, <1>p DEF Replace, Put, WriterMoves
  <2> QED
    BY <1>1, <1>t, <2>1, WriterStep
<1>5. CASE PutObject(u, q)
  <2>0. part[u][q] = "put" /\ backend # "local" /\ UNCHANGED <<restOfWriter, removed>>
    BY <1>1, <1>5 DEF PutObject, PartsOK
  <2>a. CASE Put(u, q, length[u]) /\ Part(u, q, "ok") /\ UNCHANGED <<tries, bounds>>
    <3>1. WriterMoves(u, q, "ok") /\ UNCHANGED announced
      BY <1>p, <2>0, <2>a DEF WriterMoves, Put
    <3> QED
      BY <1>1, <1>t, <2>0, <2>a, <3>1, WriterStep
  <2>b. CASE /\ Fault /\ Retry(u, q, "put")
             /\ (Put(u, q, length[u]) \/ UNCHANGED <<file, announced>>)
    <3>1. /\ tries' \in [Upload -> [Quality -> 0..Retries]]
          /\ Part(u, q, "put") \/ Part(u, q, "err")
      BY <1>1, <2>b, TriesFacts DEF ResultTypes, Marks
    <3>2. UNCHANGED announced /\ (WriterMoves(u, q, "put") \/ WriterMoves(u, q, "err"))
      BY <2>0, <2>b, <3>1 DEF WriterMoves, Put
    <3> QED
      BY <1>1, <2>0, <2>b, <3>1, <3>2, WriterStep
  <2> QED
    BY <1>5, <2>a, <2>b DEF PutObject
<1>6. CASE MoveFails(u, q)
  <2>0. /\ part[u][q] = "replace" /\ backend = "local" /\ Fault /\ Retry(u, q, "check")
        /\ UNCHANGED <<restOfWriter, announced, removed, file>>
    BY <1>1, <1>6 DEF MoveFails, store, PartsOK
  <2>1. /\ tries' \in [Upload -> [Quality -> 0..Retries]]
        /\ Part(u, q, "check") \/ Part(u, q, "err")
    BY <1>1, <2>0, TriesFacts DEF ResultTypes, Marks
  <2>2. WriterMoves(u, q, "check") \/ WriterMoves(u, q, "err")
    BY <2>0, <2>1 DEF WriterMoves
  <2> QED
    BY <1>1, <2>0, <2>1, <2>2, WriterStep
<1>7. CASE RenameFails(u, q)
  <2>1. WriterMoves(u, q, "err") /\ UNCHANGED <<restOfWriter, announced, tries>> /\ Fault
    BY <1>7 DEF RenameFails, Put, WriterMoves
  <2> QED
    BY <1>1, <1>t, <2>1, WriterStep
<1> QED
  BY <1>1, <1>2, <1>3, <1>4, <1>5, <1>6, <1>7 DEF Write

-----------------------------------------------------------------------------
(* The pipeline: collecting, probing, transcoding, the end of a job.         *)

\* What a step of the pipeline does to job u.
JobMoves(u) ==
    \/ stage'[u] = stage[u] /\ part'[u] = part[u] /\ reply'[u] = reply[u]
    \/ /\ stage[u] \in Active \ {"commit"} /\ stage'[u] \in Active \ {"commit"}
       /\ part'[u] = part[u] /\ reply'[u] = reply[u]
    \/ /\ stage[u] \in Active \ {"commit"} /\ stage'[u] = "commit"
       /\ part'[u] = [q \in Quality |-> "waiting"] /\ reply'[u] = reply[u]
    \/ /\ stage[u] \in Active /\ stage'[u] = "over" /\ u \notin source'
       /\ stage[u] = "commit" => \A q \in Quality : part[u][q] \in Over
       /\ part'[u] = part[u]
       /\ \/ reply'[u] # "ok"
          \/ name[u] \in announced' /\ \A q \in Quality : part[u][q] = "ok"

LEMMA PipelineStep ==
    ASSUME IInv, JobsOK', JobTypes', sealed' \in BOOLEAN, ResultTypes',
           UNCHANGED <<handler, tries, file, removed, deleting>>,
           UNCHANGED bounds \/ Fault, source' \subseteq source,
           \A u \in Upload : JobMoves(u),
           announced \subseteq announced',
           \A f \in announced' \ announced :
               \E u \in Upload : f = name[u] /\ stage[u] # "none"
                                 /\ \A q \in Quality : part[u][q] = "ok"
    PROVE  IInv'
<1>1. /\ HandlerTypes /\ JobTypes /\ sealed \in BOOLEAN /\ ResultTypes /\ StoreTypes
      /\ BoundTypes /\ JobsOK /\ EndsOK /\ HeldOK /\ PartsOK /\ AnnouncedOK /\ LongerOK
  BY TypeParts DEF IInv
<1>2. BoundTypes' /\ (hangups' = 0 => hangups = 0) /\ (faults' = 0 => faults = 0)
  BY <1>1, BoundFacts
<1>3. UNCHANGED <<backend, pc, name, length, lock, file, removed, deleting>>
  BY DEF handler
<1>4. HandlerTypes'
  BY <1>1, <1>3 DEF HandlerTypes
<1>5. ASSUME NEW f \in announced' \ announced
      PROVE  f \in File /\ (f \in removed \/ \A q \in Quality : file[f][q] # 0)
  <2>1. PICK u \in Upload : /\ f = name[u] /\ stage[u] # "none"
                            /\ \A q \in Quality : part[u][q] = "ok"
    BY <1>5
  <2> QED
    BY <1>1, <2>1, Named DEF PartsOK
<1>6. StoreTypes'
  BY <1>1, <1>3, <1>5 DEF StoreTypes
<1>7. EndsOK'
  <2> SUFFICES ASSUME NEW u \in Upload
               PROVE  /\ reply'[u] # None => stage'[u] = "over"
                      /\ stage'[u] = "over" => u \notin source'
    BY DEF EndsOK
  <2>1. JobMoves(u) /\ (reply[u] # None => stage[u] = "over")
        /\ (stage[u] = "over" => u \notin source)
    BY <1>1 DEF EndsOK
  <2> QED
    BY <2>1 DEF JobMoves, Active
<1>8. HeldOK'
  <2>1. \A u \in Upload : stage'[u] \in Active => stage[u] \in Active
    BY DEF JobMoves
  <2> QED
    BY <1>1, <1>2, <1>3, <2>1 DEF HeldOK
<1>9. PartsOK'
  <2> SUFFICES ASSUME NEW u \in Upload, NEW q \in Quality
               PROVE  /\ part'[u][q] \in {"waiting", "check", "replace", "put"}
                            => stage'[u] = "commit"
                      /\ part'[u][q] \in Over => stage'[u] \in {"commit", "over"}
                      /\ part'[u][q] \in {"check", "replace"} => backend = "local"
                      /\ part'[u][q] = "put" => backend # "local"
                      /\ part'[u][q] = "ok" => file[name[u]][q] # 0 \/ name[u] \in removed
    BY <1>3 DEF PartsOK
  <2>1. /\ JobMoves(u)
        /\ part[u][q] \in {"waiting", "check", "replace", "put"} => stage[u] = "commit"
        /\ part[u][q] \in Over => stage[u] \in {"commit", "over"}
        /\ part[u][q] \in {"check", "replace"} => backend = "local"
        /\ part[u][q] = "put" => backend # "local"
        /\ part[u][q] = "ok" => file[name[u]][q] # 0 \/ name[u] \in removed
    BY <1>1 DEF PartsOK
  <2> QED
    BY <2>1 DEF JobMoves, Active, Over
<1>10. AnnouncedOK'
  <2>1. ASSUME NEW u \in Upload, reply'[u] = "ok"
        PROVE  name'[u] \in announced'
    <3>1. JobMoves(u) /\ (reply[u] = "ok" => name[u] \in announced)
      BY <1>1 DEF AnnouncedOK
    <3> QED
      BY <1>3, <2>1, <3>1 DEF JobMoves
  <2>2. \A f \in File, q \in Quality : f \in announced' \ removed' => file'[f][q] # 0
    BY <1>1, <1>3, <1>5 DEF AnnouncedOK
  <2> QED
    BY <2>1, <2>2 DEF AnnouncedOK
<1>11. LongerOK'
  <2> SUFFICES ASSUME hangups' = 0, faults' = 0, NEW u \in Upload, NEW q \in Quality,
                      part'[u][q] = "replace"
               PROVE  file[name[u]][q] = 0 \/ file[name[u]][q] + Epsilon < length[u]
    BY <1>3 DEF LongerOK
  <2>1. part[u][q] = "replace"
    <3>1. JobMoves(u)
      OBVIOUS
    <3> QED
      BY <3>1 DEF JobMoves
  <2> QED
    BY <1>1, <1>2, <2>1 DEF LongerOK
<1> QED
  BY <1>2, <1>4, <1>6, <1>7, <1>8, <1>9, <1>10, <1>11, TypePartsNext DEF IInv

\* A queue loses its head, or gains a job.
LEMMA HeadOff ==
    ASSUME NEW s \in Seq(Upload), s # <<>>
    PROVE  /\ Head(s) \in Upload /\ Head(s) = s[1] /\ 1 \in 1..Len(s)
           /\ Tail(s) \in Seq(Upload)
           /\ \A i \in 1..Len(Tail(s)) : i + 1 \in 1..Len(s) /\ Tail(s)[i] = s[i + 1]
<1>1. Len(s) \in Nat /\ Len(s) # 0
  BY EmptySeq
<1>2. /\ Head(s) \in Upload /\ Tail(s) \in Seq(Upload) /\ Len(Tail(s)) = Len(s) - 1
      /\ \A i \in 1..Len(Tail(s)) : Tail(s)[i] = s[i + 1]
  BY HeadTailProperties
<1> QED
  BY <1>1, <1>2

LEMMA CollectStep == ASSUME IInv, Collect PROVE IInv' /\ UNCHANGED <<file, backend>>
<1> DEFINE u == Head(queue)
<1>1. JobTypes /\ ResultTypes /\ JobsOK
  BY TypeParts DEF IInv
<1>2. /\ u \in Upload /\ Tail(queue) \in Seq(Upload) /\ u = queue[1] /\ 1 \in 1..Len(queue)
      /\ \A i \in 1..Len(Tail(queue)) : i + 1 \in 1..Len(queue) /\ Tail(queue)[i] = queue[i + 1]
  BY <1>1, HeadOff DEF Collect, JobTypes
<1>3. /\ queue' = Tail(queue) /\ forming' = forming \cup {u} /\ stage[u] = "queued"
      /\ UNCHANGED <<handler, source, running, part, tries, reply, store, deleting, bounds>>
  BY <1>1, <1>2 DEF Collect, JobsOK
<1> HIDE DEF u
<1>4. /\ stage' \in [Upload -> Stages] /\ stage'[u] = "forming"
      /\ \A v \in Upload \ {u} : stage'[v] = stage[v]
  <2>1. Stage({u}, "forming")
    BY DEF Collect, u
  <2> QED
    BY <1>1, <1>2, <2>1, StageFacts DEF JobTypes, Stages, Active
<1>5. sealed' \in BOOLEAN
  <2>1. sealed' = (Cardinality(forming') >= BatchSize)
    BY DEF Collect
  <2> QED
    BY <2>1
<1>6. JobTypes'
  BY <1>1, <1>2, <1>3, <1>4 DEF JobTypes
<1>7. JobsOK'
  <2>1. \A v \in Upload : v # u => stage'[v] = stage[v]
    BY <1>4
  <2>2. UNCHANGED <<pc, name, length, running>>
    BY <1>3 DEF handler
  <2>3. ASSUME NEW i \in 1..Len(queue')
        PROVE  stage'[queue'[i]] = "queued"
    <3>1. i + 1 \in 1..Len(queue) /\ queue'[i] = queue[i + 1] /\ queue[i + 1] # queue[1]
          /\ queue[i + 1] \in Upload
      BY <1>1, <1>2, <1>3 DEF JobsOK, JobTypes
    <3> QED
      BY <1>1, <1>2, <2>1, <3>1 DEF JobsOK
  <2>4. ASSUME NEW i \in 1..Len(queue'), NEW j \in 1..Len(queue'), queue'[i] = queue'[j]
        PROVE  i = j
    <3>1. i + 1 \in 1..Len(queue) /\ j + 1 \in 1..Len(queue) /\ queue[i + 1] = queue[j + 1]
      BY <1>2, <1>3, <2>4
    <3>2. i + 1 = j + 1
      BY <1>1, <3>1 DEF JobsOK
    <3> QED
      BY <3>2
  <2>5. \A v \in forming' : stage'[v] = "forming"
    BY <1>1, <1>3, <1>4 DEF JobsOK, JobTypes
  <2>6. \A b \in running' : \A v \in b : stage'[v] \in {"probe", "ffmpeg"}
    <3>1. \A b \in running : \A v \in b : v \in Upload /\ stage[v] \in {"probe", "ffmpeg"}
      BY <1>1 DEF JobsOK, JobTypes
    <3> QED
      BY <1>3, <2>1, <2>2, <3>1
  <2>7. \A v \in Upload : pc'[v] \in {"idle", "lock"} => stage'[v] = "none"
    BY <1>1, <1>3, <2>1, <2>2 DEF JobsOK
  <2> QED
    BY <1>1, <2>2, <2>3, <2>4, <2>5, <2>6, <2>7 DEF JobsOK
<1>8. \A v \in Upload : JobMoves(v)
  BY <1>2, <1>3, <1>4 DEF JobMoves, Active
<1>9. ResultTypes' /\ UNCHANGED <<file, announced, removed>>
  BY <1>1, <1>3 DEF ResultTypes, store
<1> QED
  BY <1>3, <1>5, <1>6, <1>7, <1>8, <1>9, PipelineStep DEF handler

LEMMA BatchTimeoutStep == ASSUME IInv, BatchTimeout PROVE IInv' /\ UNCHANGED <<file, backend>>
<1>1. JobTypes /\ ResultTypes /\ JobsOK
  BY TypeParts DEF IInv
<1>2. /\ UNCHANGED <<handler, source, queue, forming, running, stage, part, tries, reply, store,
                     deleting, bounds>>
      /\ sealed' = TRUE
  BY DEF BatchTimeout
<1>3. UNCHANGED <<pc, name, length, backend, file, announced, removed>>
  BY <1>2 DEF handler, store
<1>4. JobsOK' /\ JobTypes' /\ ResultTypes'
  BY <1>1, <1>2, <1>3 DEF JobsOK, JobTypes, ResultTypes
<1>5. \A u \in Upload : JobMoves(u)
  BY <1>2 DEF JobMoves
<1>6. sealed' \in BOOLEAN
  BY <1>2
<1> QED
  BY <1>2, <1>3, <1>4, <1>5, <1>6, PipelineStep

LEMMA AcquireStep == ASSUME IInv, Acquire PROVE IInv' /\ UNCHANGED <<file, backend>>
<1>1. JobTypes /\ ResultTypes /\ JobsOK
  BY TypeParts DEF IInv
<1>2. /\ running' = running \cup {forming} /\ forming' = {} /\ sealed' = FALSE
      /\ UNCHANGED <<handler, source, queue, part, tries, reply, store, deleting, bounds>>
      /\ Stage(forming, "probe")
  BY DEF Acquire
<1>3. UNCHANGED <<pc, name, length, backend, file, announced, removed>>
  BY <1>2 DEF handler, store
<1>4. /\ stage' \in [Upload -> Stages] /\ \A u \in forming : stage'[u] = "probe"
      /\ \A u \in Upload \ forming : stage'[u] = stage[u]
  BY <1>1, <1>2, StageFacts DEF JobTypes, Stages, Active
<1>5. JobTypes' /\ ResultTypes'
  BY <1>1, <1>2, <1>4 DEF JobTypes, ResultTypes
<1>6. \A u \in forming : u \in Upload /\ stage[u] = "forming"
  BY <1>1 DEF JobsOK, JobTypes
<1>7. JobsOK'
  <2>1. \A u \in Upload : pc'[u] \in {"idle", "lock"} => stage'[u] = "none"
    BY <1>1, <1>3, <1>4, <1>6 DEF JobsOK
  <2>2. \A i \in 1..Len(queue') : stage'[queue'[i]] = "queued"
    <3>1. \A i \in 1..Len(queue) : queue[i] \in Upload /\ stage[queue[i]] = "queued"
      BY <1>1 DEF JobsOK, JobTypes
    <3> QED
      BY <1>2, <1>4, <1>6, <3>1
  <2>3. ASSUME NEW b \in running'
        PROVE  \A u \in b : stage'[u] \in {"probe", "ffmpeg"}
    <3>1. \A c \in running : \A u \in c : u \in Upload /\ stage[u] \in {"probe", "ffmpeg"}
      BY <1>1 DEF JobsOK, JobTypes
    <3> QED
      BY <1>2, <1>4, <3>1
  <2>4. ASSUME NEW b \in running', NEW c \in running', b # c
        PROVE  b \cap c = {}
    <3>1. \A d \in running : d \cap forming = {}
      BY <1>1, <1>6 DEF JobsOK
    <3> QED
      BY <1>1, <1>2, <2>4, <3>1 DEF JobsOK
  <2> QED
    BY <1>1, <1>2, <1>3, <2>1, <2>2, <2>3, <2>4 DEF JobsOK
<1>8. \A u \in Upload : JobMoves(u)
  BY <1>2, <1>4, <1>6 DEF JobMoves, Active
<1>9. sealed' \in BOOLEAN
  BY <1>2
<1> QED
  BY <1>2, <1>3, <1>5, <1>7, <1>8, <1>9, PipelineStep

\* A step of one running batch b, whose jobs are at the same stage, or of a job alone: it
\* gives up the permit, or keeps it for those of b that are not over.
LEMMA BatchJobs ==
    ASSUME JobTypes, JobsOK, NEW b \in SUBSET Upload,
           UNCHANGED <<pc, name, length, queue, forming>>,
           stage' \in [Upload -> Stages],
           \A u \in b : stage[u] \in {"probe", "ffmpeg", "single", "commit"},
           \A u \in Upload \ b : stage'[u] = stage[u],
           \/ /\ running' = running \ {b}
              /\ b \in running \/ \A u \in b : stage[u] \in {"single", "commit"}
           \/ \E c \in SUBSET b : /\ b \in running /\ running' = (running \ {b}) \cup ({c} \ {{}})
                                  /\ \A u \in c : stage'[u] = "ffmpeg"
    PROVE  JobsOK'
<1>1. \A u \in Upload : pc'[u] \in {"idle", "lock"} => stage'[u] = "none"
  BY DEF JobsOK
<1>2. \A i \in 1..Len(queue') : stage'[queue'[i]] = "queued"
  <2>1. \A i \in 1..Len(queue) : queue[i] \in Upload /\ stage[queue[i]] = "queued"
    BY DEF JobsOK, JobTypes
  <2> QED
    BY <2>1
<1>3. \A u \in forming' : stage'[u] = "forming"
  <2>1. \A u \in forming : u \in Upload /\ stage[u] = "forming"
    BY DEF JobsOK, JobTypes
  <2> QED
    BY <2>1
<1>4. ASSUME NEW c \in running \ {b}
      PROVE  \A u \in c : stage'[u] \in {"probe", "ffmpeg"}
  <2>1. \A u \in c : u \in Upload /\ stage[u] \in {"probe", "ffmpeg"}
    BY DEF JobsOK, JobTypes
  <2>2. c \cap b = {}
    BY <1>4, <2>1 DEF JobsOK
  <2> QED
    BY <2>1, <2>2
<1>5. CASE running' = running \ {b}
  BY <1>1, <1>2, <1>3, <1>4, <1>5 DEF JobsOK
<1>6. ASSUME NEW c \in SUBSET b, b \in running, running' = (running \ {b}) \cup ({c} \ {{}}),
             \A u \in c : stage'[u] = "ffmpeg"
      PROVE  JobsOK'
  <2>1. \A d \in running' : \A u \in d : stage'[u] \in {"probe", "ffmpeg"}
    BY <1>4, <1>6
  <2>2. ASSUME NEW d \in running', NEW e \in running', d # e
        PROVE  d \cap e = {}
    <3>1. \A g \in running \ {b} : g \cap c = {}
      BY <1>6 DEF JobsOK
    <3> QED
      BY <1>6, <2>2, <3>1 DEF JobsOK
  <2> QED
    BY <1>1, <1>2, <1>3, <2>1, <2>2 DEF JobsOK
<1> QED
  BY <1>5, <1>6

LEMMA ProbeStep == ASSUME IInv, NEW b \in running, Probe(b) PROVE IInv' /\ UNCHANGED <<file, backend>>
<1>1. JobTypes /\ ResultTypes /\ JobsOK /\ EndsOK /\ b \in SUBSET Upload
  BY TypeParts DEF IInv, JobTypes
<1>2. /\ UNCHANGED <<handler, queue, forming, sealed, part, tries, store, deleting>>
      /\ \A u \in b : stage[u] = "probe"
  BY DEF Probe
<1>3. PICK unread \in SUBSET b :
          LET short == {u \in b \ unread : length[u] <= Short}
          IN  /\ \/ unread = {} /\ UNCHANGED bounds
                 \/ Cardinality(unread) = 1 /\ Fault
              /\ Finish(short, "short")
              /\ stage' = [u \in Upload |-> IF u \in short THEN "over"
                                            ELSE IF u \in b THEN "ffmpeg" ELSE stage[u]]
              /\ running' = (running \ {b}) \cup ({b \ short} \ {{}})
  BY DEF Probe
<1> DEFINE short == {u \in b \ unread : length[u] <= Short}
<1>4. short \subseteq b /\ short \in SUBSET Upload
  BY <1>1
<1>5. /\ UNCHANGED bounds \/ Fault
      /\ Finish(short, "short")
      /\ stage' = [u \in Upload |-> IF u \in short THEN "over"
                                    ELSE IF u \in b THEN "ffmpeg" ELSE stage[u]]
      /\ running' = (running \ {b}) \cup ({b \ short} \ {{}})
  BY <1>3
<1> HIDE DEF short
<1>6. /\ stage' \in [Upload -> Stages] /\ \A u \in short : stage'[u] = "over"
      /\ \A u \in b \ short : stage'[u] = "ffmpeg"
      /\ \A u \in Upload \ b : stage'[u] = stage[u]
  BY <1>1, <1>4, <1>5 DEF JobTypes, Stages, Active
<1>7. /\ source' \in SUBSET Upload /\ reply' \in [Upload -> Answers]
      /\ source' = source \ short
      /\ \A u \in short : reply'[u] = "short"
      /\ \A u \in Upload \ short : reply'[u] = reply[u]
  BY <1>1, <1>4, <1>5, FinishFacts DEF Answers
<1>8. UNCHANGED <<pc, name, length, backend, file, announced, removed>>
  BY <1>2 DEF handler, store
<1>9. JobTypes' /\ ResultTypes' /\ sealed' \in BOOLEAN
  <2>1. running' \in SUBSET SUBSET Upload
    BY <1>1, <1>5 DEF JobTypes
  <2>2. sealed' \in BOOLEAN
    BY <1>2, TypeParts DEF IInv
  <2> QED
    BY <1>1, <1>2, <1>6, <1>7, <2>1, <2>2 DEF JobTypes, ResultTypes
<1>10. JobsOK'
  <2>1. b \ short \in SUBSET b
    OBVIOUS
  <2> QED
    BY <1>1, <1>2, <1>5, <1>6, <1>8, <2>1, BatchJobs
<1>11. ASSUME NEW u \in Upload
       PROVE  JobMoves(u)
  <2>1. CASE u \in short
    BY <1>2, <1>4, <1>6, <1>7, <2>1 DEF JobMoves, Active
  <2>2. CASE u \in b \ short
    BY <1>2, <1>6, <1>7, <2>2 DEF JobMoves, Active
  <2>3. CASE u \notin b
    BY <1>2, <1>4, <1>6, <1>7, <2>3 DEF JobMoves
  <2> QED
    BY <2>1, <2>2, <2>3
<1> QED
  BY <1>2, <1>5, <1>7, <1>8, <1>9, <1>10, <1>11, PipelineStep

\* The end of a try to transcode the jobs of b, which is a running batch or one job alone.
LEMMA Transcoded ==
    ASSUME IInv, NEW b \in SUBSET Upload,
           \/ b \in running /\ running' = running \ {b} /\ \A u \in b : stage[u] = "ffmpeg"
           \/ (\A u \in b : stage[u] = "single") /\ b # {} /\ UNCHANGED running,
           \/ Commit(b) /\ UNCHANGED <<source, reply, bounds>>
           \/ Fault /\ Stage(b, "single") /\ UNCHANGED <<source, reply, part>>
           \/ Fault /\ Stage(b, "over") /\ Finish(b, "ffmpeg") /\ UNCHANGED part,
           UNCHANGED <<handler, queue, forming, sealed, tries, store, deleting>>
    PROVE  IInv' /\ UNCHANGED <<file, backend>>
<1>1. JobTypes /\ ResultTypes /\ JobsOK /\ EndsOK
  BY TypeParts DEF IInv
<1>2. running' = running \ {b} /\ \A u \in b : stage[u] \in {"ffmpeg", "single"}
  BY <1>1 DEF JobsOK
<1>3. UNCHANGED <<pc, name, length, backend, file, announced, removed>>
  BY DEF handler, store
<1>4. PICK label \in {"commit", "single", "over"} : Stage(b, label)
  BY DEF Commit
<1>5. /\ stage' \in [Upload -> Stages] /\ \A u \in b : stage'[u] = label
      /\ \A u \in Upload \ b : stage'[u] = stage[u]
  BY <1>1, <1>4, StageFacts DEF JobTypes, Stages, Active
<1>6. JobsOK'
  BY <1>1, <1>2, <1>3, <1>5, BatchJobs
<1>7. JobTypes' /\ sealed' \in BOOLEAN
  <2>1. sealed' \in BOOLEAN
    BY TypeParts DEF IInv
  <2> QED
    BY <1>1, <1>2, <1>5, <2>1 DEF JobTypes
<1>8. /\ ResultTypes' /\ source' \subseteq source /\ (UNCHANGED bounds \/ Fault)
      /\ \A u \in Upload : JobMoves(u)
  <2>1. CASE Commit(b) /\ UNCHANGED <<source, reply, bounds>>
    <3>1. /\ part' \in [Upload -> [Quality -> Marks]] /\ Stage(b, "commit")
          /\ part' = [u \in Upload |-> IF u \in b THEN [q \in Quality |-> "waiting"] ELSE part[u]]
      BY <1>1, <2>1, CommitFacts DEF Commit
    <3>2. \A u \in b : stage'[u] = "commit"
      BY <1>1, <3>1, StageFacts DEF JobTypes, Stages, Active
    <3>3. ResultTypes'
      BY <1>1, <2>1, <3>1 DEF ResultTypes
    <3>4. ASSUME NEW u \in Upload
          PROVE  JobMoves(u)
      <4>1. CASE u \in b
        BY <1>2, <2>1, <3>1, <3>2, <4>1 DEF JobMoves, Active
      <4>2. CASE u \notin b
        BY <1>5, <2>1, <3>1, <4>2 DEF JobMoves
      <4> QED
        BY <4>1, <4>2
    <3> QED
      BY <2>1, <3>3, <3>4
  <2>2. CASE Fault /\ Stage(b, "single") /\ UNCHANGED <<source, reply, part>>
    <3>1. \A u \in b : stage'[u] = "single"
      BY <1>1, <2>2, StageFacts DEF JobTypes, Stages, Active
    <3>2. ResultTypes'
      BY <1>1, <2>2 DEF ResultTypes
    <3>3. \A u \in Upload : JobMoves(u)
      BY <1>2, <1>5, <2>2, <3>1 DEF JobMoves, Active
    <3> QED
      BY <2>2, <3>2, <3>3
  <2>3. CASE Fault /\ Stage(b, "over") /\ Finish(b, "ffmpeg") /\ UNCHANGED part
    <3>1. \A u \in b : stage'[u] = "over"
      BY <1>1, <2>3, StageFacts DEF JobTypes, Stages, Active
    <3>2. /\ source' \in SUBSET Upload /\ reply' \in [Upload -> Answers]
          /\ source' = source \ b
          /\ \A u \in b : reply'[u] = "ffmpeg"
          /\ \A u \in Upload \ b : reply'[u] = reply[u]
      BY <1>1, <2>3, FinishFacts DEF Answers
    <3>3. ResultTypes'
      BY <1>1, <2>3, <3>2 DEF ResultTypes
    <3>4. \A u \in Upload : JobMoves(u)
      BY <1>2, <1>5, <2>3, <3>1, <3>2 DEF JobMoves, Active
    <3> QED
      BY <2>3, <3>2, <3>3, <3>4
  <2> QED
    BY <2>1, <2>2, <2>3
<1> QED
  BY <1>3, <1>6, <1>7, <1>8, PipelineStep

LEMMA TranscodeStep ==
    ASSUME IInv, NEW b \in running, Transcode(b) PROVE IInv' /\ UNCHANGED <<file, backend>>
<1>1. b \in SUBSET Upload
  BY TypeParts DEF IInv, JobTypes
<1> QED
  BY <1>1, Transcoded DEF Transcode

LEMMA SingleStep ==
    ASSUME IInv, NEW u \in Upload, Single(u) PROVE IInv' /\ UNCHANGED <<file, backend>>
<1> DEFINE b == {u}
<1>1. b \in SUBSET Upload /\ b # {} /\ \A v \in b : stage[v] = "single"
  BY DEF Single
<1>2. /\ \/ Commit(b) /\ UNCHANGED <<source, reply, bounds>>
         \/ Fault /\ Stage(b, "over") /\ Finish(b, "ffmpeg") /\ UNCHANGED part
      /\ UNCHANGED <<handler, queue, forming, sealed, running, tries, store, deleting>>
  BY DEF Single
<1> HIDE DEF b
<1> QED
  BY <1>1, <1>2, Transcoded

LEMMA CommitDoneStep ==
    ASSUME IInv, NEW u \in Upload, CommitDone(u) PROVE IInv' /\ UNCHANGED <<file, backend>>
<1> DEFINE ok == \A q \in Quality : part[u][q] = "ok"
           outcome == IF ok THEN "ok" ELSE "backend"
           b == {u}
<1>1. JobTypes /\ ResultTypes /\ JobsOK /\ EndsOK
  BY TypeParts DEF IInv
<1>2. /\ stage[u] = "commit" /\ \A q \in Quality : part[u][q] \in Over
      /\ Finish(b, outcome) /\ Stage(b, "over")
      /\ announced' = IF ok THEN announced \cup {name[u]} ELSE announced
      /\ UNCHANGED <<handler, queue, forming, sealed, running, part, tries, file, removed,
                     deleting, bounds>>
  BY DEF CommitDone
<1>3. b \in SUBSET Upload /\ u \in b /\ \A v \in b : v = u
  OBVIOUS
<1>4. outcome \in Answers /\ (outcome = "ok" => ok)
  BY DEF Answers
<1> HIDE DEF b, outcome
<1>5. /\ stage' \in [Upload -> Stages] /\ stage'[u] = "over"
      /\ \A v \in Upload \ b : stage'[v] = stage[v]
  BY <1>1, <1>2, <1>3, StageFacts DEF JobTypes, Stages
<1>6. /\ source' \in SUBSET Upload /\ reply' \in [Upload -> Answers] /\ source' = source \ b
      /\ reply'[u] = outcome /\ \A v \in Upload \ b : reply'[v] = reply[v]
  BY <1>1, <1>2, <1>3, <1>4, FinishFacts
<1>7. UNCHANGED <<pc, name, length, backend>>
  BY <1>2 DEF handler
<1>8. JobsOK'
  <2>1. running' = running \ {b}
    BY <1>1, <1>2, <1>3 DEF JobsOK
  <2> QED
    BY <1>1, <1>2, <1>3, <1>5, <1>7, <2>1, BatchJobs
<1>9. JobTypes' /\ ResultTypes' /\ sealed' \in BOOLEAN
  <2>1. sealed' \in BOOLEAN
    BY <1>2, TypeParts DEF IInv
  <2> QED
    BY <1>1, <1>2, <1>5, <1>6, <2>1 DEF JobTypes, ResultTypes
<1>10. announced \subseteq announced' /\ (outcome = "ok" => name[u] \in announced')
  BY <1>2, <1>4
<1>11. ASSUME NEW v \in Upload
       PROVE  JobMoves(v)
  <2>1. CASE v \in b
    BY <1>2, <1>3, <1>4, <1>5, <1>6, <1>10, <2>1 DEF JobMoves, Active
  <2>2. CASE v \notin b
    BY <1>2, <1>5, <1>6, <2>2 DEF JobMoves
  <2> QED
    BY <2>1, <2>2
<1>12. \A f \in announced' \ announced :
           \E v \in Upload : f = name[v] /\ stage[v] # "none"
                             /\ \A q \in Quality : part[v][q] = "ok"
  BY <1>2
<1>13. UNCHANGED file /\ source' \subseteq source /\ UNCHANGED <<handler, tries, removed, deleting>>
       /\ (UNCHANGED bounds \/ Fault)
  BY <1>2, <1>6
<1> QED
  BY <1>7, <1>8, <1>9, <1>10, <1>11, <1>12, <1>13, PipelineStep

-----------------------------------------------------------------------------
(* The upload handler.                                                       *)

\* What the handler does leaves the results, the files and the names published alone.
LEMMA HandlerStep ==
    ASSUME IInv, HandlerTypes', JobTypes', sealed' \in BOOLEAN, source' \in SUBSET Upload,
           JobsOK', HeldOK', BoundTypes', hangups' = 0 => hangups = 0, faults' = 0 => faults = 0,
           UNCHANGED <<backend, part, tries, reply, store, deleting>>,
           \A u \in Upload : \/ stage'[u] = stage[u]
                             \/ stage[u] = "none" /\ stage'[u] = "queued",
           \A u \in Upload : \/ name'[u] = name[u] /\ length'[u] = length[u]
                             \/ stage[u] = "none",
           \A u \in Upload : u \in source' \ source => stage[u] = "none"
    PROVE  IInv'
<1>1. /\ ResultTypes /\ StoreTypes /\ EndsOK /\ PartsOK /\ AnnouncedOK /\ LongerOK
  BY TypeParts DEF IInv
<1>2. ResultTypes' /\ StoreTypes' /\ UNCHANGED <<file, announced, removed>>
  BY <1>1 DEF ResultTypes, StoreTypes, store
<1>3. \A u \in Upload : stage[u] = "none" => stage'[u] # "over" /\ reply[u] = None
  BY <1>1 DEF EndsOK
<1>4. EndsOK'
  BY <1>1, <1>3 DEF EndsOK
<1>5. \A u \in Upload, q \in Quality :
          stage[u] = "none" => part[u][q] \notin {"waiting", "check", "replace", "put"} \cup Over
  BY <1>1 DEF PartsOK
<1>6. PartsOK'
  BY <1>1, <1>2, <1>5 DEF PartsOK, Over
<1>7. AnnouncedOK'
  BY <1>1, <1>2, <1>3, StorageAssumption DEF AnnouncedOK
<1>8. LongerOK'
  BY <1>1, <1>2, <1>5 DEF LongerOK
<1> QED
  BY <1>2, <1>4, <1>6, <1>7, <1>8, TypePartsNext DEF IInv

LEMMA ReceivedStep ==
    ASSUME IInv, NEW u \in Upload, Received(u) PROVE IInv' /\ UNCHANGED <<file, backend>>
<1>1. HandlerTypes /\ JobTypes /\ ResultTypes /\ BoundTypes /\ JobsOK /\ HeldOK
  BY TypeParts DEF IInv
<1>2. PICK f \in File, d \in Length :
          name' = [name EXCEPT ![u] = f] /\ length' = [length EXCEPT ![u] = d]
  BY DEF Received
<1>3. /\ pc[u] = "idle" /\ pc' = [pc EXCEPT ![u] = "lock"] /\ source' = source \cup {u}
      /\ UNCHANGED <<backend, lock, jobs, part, tries, reply, store, deleting, bounds>>
      /\ stage[u] = "none"
  BY <1>1 DEF Received, JobsOK
<1>4. UNCHANGED <<queue, forming, sealed, running, stage, hangups, faults, deletes, file>>
  BY <1>3 DEF jobs, bounds, store
<1>5. HandlerTypes' /\ JobTypes' /\ source' \in SUBSET Upload /\ BoundTypes'
  BY <1>1, <1>2, <1>3, <1>4 DEF HandlerTypes, JobTypes, ResultTypes, BoundTypes
<1>6. sealed' \in BOOLEAN
  BY <1>4, TypeParts DEF IInv
<1>7. JobsOK'
  <2>1. \A v \in Upload : pc'[v] \in {"idle", "lock"} => stage'[v] = "none"
    BY <1>1, <1>3, <1>4 DEF JobsOK, HandlerTypes
  <2>2. \A v \in Upload : pc'[v] # "idle" => name'[v] \in File /\ length'[v] \in Length
    BY <1>1, <1>2, <1>3 DEF JobsOK, HandlerTypes
  <2> QED
    BY <1>1, <1>4, <2>1, <2>2 DEF JobsOK
<1>8. HeldOK'
  BY <1>1, <1>2, <1>3, <1>4 DEF HeldOK, HandlerTypes, Active
<1>9. \A v \in Upload : \/ name'[v] = name[v] /\ length'[v] = length[v]
                        \/ stage[v] = "none"
  BY <1>1, <1>2, <1>3 DEF HandlerTypes
<1> QED
  BY <1>3, <1>4, <1>5, <1>6, <1>7, <1>8, <1>9, HandlerStep

LEMMA SubmitStep ==
    ASSUME IInv, NEW u \in Upload, Submit(u) PROVE IInv' /\ UNCHANGED <<file, backend>>
<1>1. HandlerTypes /\ JobTypes /\ ResultTypes /\ BoundTypes /\ JobsOK /\ HeldOK
  BY TypeParts DEF IInv
<1>2. /\ pc[u] = "lock" /\ pc' = [pc EXCEPT ![u] = "waiting"]
      /\ lock[name[u]] = None /\ lock' = [lock EXCEPT ![name[u]] = u]
      /\ queue' = Append(queue, u) /\ Stage({u}, "queued")
      /\ UNCHANGED <<backend, name, length, source, forming, sealed, running, part, tries,
                     reply, store, deleting, bounds>>
      /\ stage[u] = "none" /\ name[u] \in File
  BY <1>1 DEF Submit, JobsOK
<1>3. UNCHANGED <<hangups, faults, deletes, file>>
  BY <1>2 DEF bounds, store
<1>4. /\ stage' \in [Upload -> Stages] /\ stage'[u] = "queued"
      /\ \A v \in Upload \ {u} : stage'[v] = stage[v]
  BY <1>1, <1>2, StageFacts DEF JobTypes, Stages, Active
<1>5. /\ queue' \in Seq(Upload) /\ Len(queue') = Len(queue) + 1 /\ Len(queue) \in Nat
      /\ \A i \in 1..Len(queue) : queue'[i] = queue[i]
      /\ queue'[Len(queue) + 1] = u
  BY <1>1, <1>2, AppendProperties DEF JobTypes
<1>6. HandlerTypes' /\ JobTypes' /\ source' \in SUBSET Upload /\ BoundTypes'
  BY <1>1, <1>2, <1>3, <1>4, <1>5 DEF HandlerTypes, JobTypes, ResultTypes, BoundTypes
<1>7. sealed' \in BOOLEAN
  BY <1>2, TypeParts DEF IInv
<1>8. JobsOK'
  <2>1. \A v \in Upload : pc'[v] \in {"idle", "lock"} => stage'[v] = "none"
    BY <1>1, <1>2, <1>4 DEF JobsOK, HandlerTypes
  <2>2. \A v \in Upload : pc'[v] # "idle" => name'[v] \in File /\ length'[v] \in Length
    BY <1>1, <1>2 DEF JobsOK, HandlerTypes
  <2>3. \A i \in 1..Len(queue) : queue[i] \in Upload /\ stage[queue[i]] = "queued" /\ queue[i] # u
    BY <1>1, <1>2 DEF JobsOK, JobTypes
  <2>4. \A i \in 1..Len(queue') : i \in 1..Len(queue) \/ i = Len(queue) + 1
    BY <1>5
  <2>5. \A i \in 1..Len(queue') : stage'[queue'[i]] = "queued"
    BY <1>4, <1>5, <2>3, <2>4
  <2>6. ASSUME NEW i \in 1..Len(queue'), NEW j \in 1..Len(queue'), queue'[i] = queue'[j]
        PROVE  i = j
    BY <1>1, <1>5, <2>3, <2>4, <2>6 DEF JobsOK
  <2>7. \A v \in forming' : stage'[v] = "forming"
    <3>1. \A v \in forming : v \in Upload /\ stage[v] = "forming"
      BY <1>1 DEF JobsOK, JobTypes
    <3> QED
      BY <1>2, <1>4, <3>1
  <2>8. \A b \in running' : \A v \in b : stage'[v] \in {"probe", "ffmpeg"}
    <3>1. \A b \in running : \A v \in b : v \in Upload /\ stage[v] \in {"probe", "ffmpeg"}
      BY <1>1 DEF JobsOK, JobTypes
    <3> QED
      BY <1>2, <1>4, <3>1
  <2> QED
    BY <1>1, <1>2, <2>1, <2>2, <2>5, <2>6, <2>7, <2>8 DEF JobsOK
<1>9. HeldOK'
  <2>1. \A v \in Upload : pc'[v] = "waiting" => lock'[name'[v]] = v
    <3> TAKE v \in Upload
    <3>1. CASE v = u
      BY <1>1, <1>2, <3>1 DEF HandlerTypes
    <3>2. CASE v # u /\ pc[v] = "waiting"
      <4>1. lock[name[v]] = v /\ name[v] \in File /\ v # None
        BY <1>1, <3>2, StorageAssumption DEF HeldOK, JobsOK
      <4> QED
        BY <1>1, <1>2, <4>1 DEF HandlerTypes
    <3> QED
      BY <1>1, <1>2, <3>1, <3>2 DEF HandlerTypes
  <2>2. hangups' = 0 => \A v \in Upload : stage'[v] \in Active => pc'[v] = "waiting"
    BY <1>1, <1>2, <1>3, <1>4 DEF HeldOK, HandlerTypes
  <2> QED
    BY <2>1, <2>2 DEF HeldOK
<1>10. \A v \in Upload : \/ stage'[v] = stage[v]
                         \/ stage[v] = "none" /\ stage'[v] = "queued"
  BY <1>2, <1>4
<1> QED
  BY <1>2, <1>3, <1>6, <1>7, <1>8, <1>9, <1>10, HandlerStep

\* A handler ends, and the lock of its name is free.
LEMMA HandlerEnds ==
    ASSUME IInv, NEW u \in Upload, NEW at \in {"done", "gone"},
           pc[u] \in {"lock", "waiting"}, pc' = [pc EXCEPT ![u] = at],
           lock' \in [File -> Upload \cup {None}],
           \A f \in File : lock'[f] = lock[f] \/ lock[f] = u,
           BoundTypes', hangups' = 0 => hangups = 0, faults' = 0 => faults = 0,
           hangups' = 0 => stage[u] \notin Active,
           UNCHANGED <<backend, name, length, source, jobs, part, tries, reply, store, deleting>>
    PROVE  IInv' /\ UNCHANGED <<file, backend>>
<1>1. HandlerTypes /\ JobTypes /\ ResultTypes /\ JobsOK /\ HeldOK
  BY TypeParts DEF IInv
<1>2. UNCHANGED <<queue, forming, sealed, running, stage, file>>
  BY DEF jobs, store
<1>3. HandlerTypes' /\ JobTypes' /\ source' \in SUBSET Upload
  BY <1>1, <1>2 DEF HandlerTypes, JobTypes, ResultTypes
<1>4. sealed' \in BOOLEAN
  BY <1>2, TypeParts DEF IInv
<1>5. JobsOK'
  <2>1. /\ \A v \in Upload : pc'[v] \in {"idle", "lock"} => stage'[v] = "none"
        /\ \A v \in Upload : pc'[v] # "idle" => name'[v] \in File /\ length'[v] \in Length
    BY <1>1, <1>2 DEF JobsOK, HandlerTypes
  <2> QED
    BY <1>1, <1>2, <2>1 DEF JobsOK
<1>6. HeldOK'
  <2>1. ASSUME NEW v \in Upload, pc'[v] = "waiting"
        PROVE  lock'[name'[v]] = v
    <3>1. v # u /\ pc[v] = "waiting"
      BY <1>1, <2>1 DEF HandlerTypes
    <3>2. lock[name[v]] = v /\ name[v] \in File
      BY <1>1, <3>1 DEF HeldOK, JobsOK
    <3> QED
      BY <3>1, <3>2
  <2>2. hangups' = 0 => \A v \in Upload : stage'[v] \in Active => pc'[v] = "waiting"
    BY <1>1, <1>2 DEF HeldOK, HandlerTypes
  <2> QED
    BY <2>1, <2>2 DEF HeldOK
<1> QED
  BY <1>2, <1>3, <1>4, <1>5, <1>6, HandlerStep

LEMMA AnswerStep ==
    ASSUME IInv, NEW u \in Upload, Answer(u) PROVE IInv' /\ UNCHANGED <<file, backend>>
<1>1. HandlerTypes /\ BoundTypes /\ JobsOK /\ HeldOK /\ EndsOK
  BY TypeParts DEF IInv
<1>2. lock[name[u]] = u /\ name[u] \in File /\ stage[u] = "over"
  BY <1>1 DEF Answer, HeldOK, JobsOK, EndsOK
<1>3. /\ lock' \in [File -> Upload \cup {None}]
      /\ \A f \in File : lock'[f] = lock[f] \/ lock[f] = u
  BY <1>1, <1>2 DEF Answer, HandlerTypes
<1>4. BoundTypes' /\ UNCHANGED <<hangups, faults>>
  BY <1>1 DEF Answer, BoundTypes, bounds
<1>5. stage[u] \notin Active
  BY <1>2 DEF Active
<1> QED
  BY <1>3, <1>4, <1>5, HandlerEnds DEF Answer

LEMMA HangUpStep ==
    ASSUME IInv, NEW u \in Upload, HangUp(u) PROVE IInv' /\ UNCHANGED <<file, backend>>
<1>1. HandlerTypes /\ BoundTypes
  BY TypeParts DEF IInv
<1>2. /\ lock' \in [File -> Upload \cup {None}]
      /\ \A f \in File : lock'[f] = lock[f] \/ lock[f] = u
  BY <1>1 DEF HangUp, HandlerTypes
<1>3. /\ BoundTypes' /\ (faults' = 0 => faults = 0) /\ hangups' # 0
  BY <1>1, BoundFacts DEF HangUp, BoundTypes
<1> QED
  BY <1>2, <1>3, HandlerEnds DEF HangUp

-----------------------------------------------------------------------------
(* Deletions and restarts.                                                   *)

LEMMA DeletionStep ==
    ASSUME IInv, NEW f \in File, DeleteHq(f) \/ DeleteSq(f)
    PROVE  /\ IInv' /\ UNCHANGED backend
           /\ \A g \in File, q \in Quality : file'[g][q] = 0 \/ file'[g][q] = file[g][q]
<1>1. /\ HandlerTypes /\ JobTypes /\ sealed \in BOOLEAN /\ ResultTypes /\ StoreTypes
      /\ BoundTypes /\ JobsOK /\ EndsOK /\ HeldOK /\ PartsOK /\ AnnouncedOK /\ LongerOK
  BY TypeParts DEF IInv
<1>2. /\ UNCHANGED <<handler, source, jobs, part, tries, reply, announced>>
      /\ deleting' \in SUBSET File
  BY <1>1 DEF DeleteHq, DeleteSq, StoreTypes
<1>3. UNCHANGED <<backend, pc, name, length, lock, queue, forming, sealed, running, stage>>
  BY <1>2 DEF handler, jobs
<1>4. /\ BoundTypes' /\ (hangups' = 0 => hangups = 0) /\ (faults' = 0 => faults = 0)
  <2>1. \/ UNCHANGED bounds \/ Fault
        \/ Mishap /\ deletes' = deletes + 1 /\ UNCHANGED <<faults, hangups>>
    BY DEF DeleteHq, DeleteSq
  <2> QED
    BY <1>1, <2>1, BoundFacts
<1>5. /\ file' \in [File -> [Quality -> Length \cup {0}]]
      /\ removed' \in {removed, removed \cup {f}}
      /\ \A g \in File, q \in Quality :
            file'[g][q] = file[g][q] \/ (file'[g][q] = 0 /\ g \in removed')
  <2>1. CASE UNCHANGED <<file, removed>>
    BY <1>1, <2>1 DEF StoreTypes
  <2>2. ASSUME NEW q \in Quality, Erase(f, q)
        PROVE  /\ file' \in [File -> [Quality -> Length \cup {0}]]
               /\ removed' \in {removed, removed \cup {f}}
               /\ \A g \in File, r \in Quality :
                     file'[g][r] = file[g][r] \/ (file'[g][r] = 0 /\ g \in removed')
    <3>1. /\ file' \in [File -> [Quality -> Length \cup {0}]] /\ file'[f][q] = 0
          /\ \A r \in Quality \ {q} : file'[f][r] = file[f][r]
          /\ \A g \in File \ {f} : file'[g] = file[g]
      BY <1>1, <2>2, FileFacts DEF Erase, StoreTypes
    <3> QED
      BY <2>2, <3>1 DEF Erase
  <2>3. UNCHANGED <<file, removed>> \/ \E q \in Quality : Erase(f, q)
    BY DEF DeleteHq, DeleteSq, Quality
  <2> QED
    BY <2>1, <2>2, <2>3
<1>6. HandlerTypes' /\ JobTypes' /\ sealed' \in BOOLEAN
  BY <1>1, <1>3 DEF HandlerTypes, JobTypes
<1>7. ResultTypes' /\ StoreTypes'
  BY <1>1, <1>2, <1>5 DEF ResultTypes, StoreTypes
<1>8. JobsOK' /\ EndsOK' /\ HeldOK'
  BY <1>1, <1>2, <1>3, <1>4 DEF JobsOK, EndsOK, HeldOK
<1>9. \A u \in Upload, q \in Quality : part[u][q] \in {"ok", "replace"} => name[u] \in File
  BY <1>1, Named DEF PartsOK, Over
<1>10. PartsOK'
  <2>1. \A u \in Upload, q \in Quality :
            part[u][q] = "ok" => file'[name[u]][q] # 0 \/ name[u] \in removed'
    BY <1>1, <1>5, <1>9 DEF PartsOK
  <2> QED
    BY <1>1, <1>2, <1>3, <2>1 DEF PartsOK
<1>11. AnnouncedOK'
  <2>1. \A g \in File, q \in Quality : g \in announced \ removed' => file'[g][q] # 0
    BY <1>1, <1>5 DEF AnnouncedOK
  <2> QED
    BY <1>1, <1>2, <1>3, <2>1 DEF AnnouncedOK
<1>12. LongerOK'
  <2> SUFFICES ASSUME hangups' = 0, faults' = 0, NEW u \in Upload, NEW q \in Quality,
                      part[u][q] = "replace"
               PROVE  file'[name[u]][q] = 0 \/ file'[name[u]][q] + Epsilon < length[u]
    BY <1>2, <1>3 DEF LongerOK
  <2>1. file[name[u]][q] = 0 \/ file[name[u]][q] + Epsilon < length[u]
    BY <1>1, <1>4 DEF LongerOK
  <2>2. file'[name[u]][q] = file[name[u]][q] \/ file'[name[u]][q] = 0
    BY <1>5, <1>9
  <2> QED
    BY <2>1, <2>2
<1> QED
  BY <1>3, <1>4, <1>5, <1>6, <1>7, <1>8, <1>10, <1>11, <1>12, TypePartsNext DEF IInv

LEMMA RestartStep == ASSUME IInv, Restart PROVE IInv' /\ UNCHANGED <<file, backend>>
<1>1. /\ HandlerTypes /\ JobTypes /\ sealed \in BOOLEAN /\ ResultTypes /\ StoreTypes
      /\ BoundTypes /\ JobsOK /\ EndsOK /\ HeldOK /\ AnnouncedOK
  BY TypeParts DEF IInv
<1>2. /\ pc' = [u \in Upload |-> IF pc[u] \in {"lock", "waiting"} THEN "gone" ELSE pc[u]]
      /\ source' = {} /\ lock' = [f \in File |-> None]
      /\ queue' = <<>> /\ forming' = {} /\ sealed' = FALSE /\ running' = {}
      /\ stage' = [u \in Upload |-> IF stage[u] \in Active THEN "none" ELSE stage[u]]
      /\ part' = [u \in Upload |-> [q \in Quality |-> "none"]]
      /\ deleting' = {} /\ Fault
      /\ UNCHANGED <<backend, name, length, tries, reply, store>>
  BY DEF Restart
<1>3. UNCHANGED <<file, announced, removed>>
  BY <1>2 DEF store
<1>4. BoundTypes' /\ (hangups' = 0 => hangups = 0)
  BY <1>1, <1>2, BoundFacts
<1>5. /\ \A u \in Upload : pc'[u] = IF pc[u] \in {"lock", "waiting"} THEN "gone" ELSE pc[u]
      /\ \A u \in Upload : stage'[u] = IF stage[u] \in Active THEN "none" ELSE stage[u]
      /\ \A u \in Upload, q \in Quality : part'[u][q] = "none"
      /\ Len(queue') = 0
  BY <1>2
<1>6. HandlerTypes' /\ JobTypes'
  BY <1>1, <1>2 DEF HandlerTypes, JobTypes, Stages
<1>7. ResultTypes' /\ StoreTypes'
  BY <1>1, <1>2, <1>3 DEF ResultTypes, StoreTypes, Marks
<1>8. sealed' \in BOOLEAN
  BY <1>2
<1>9. JobsOK'
  <2>1. \A u \in Upload : pc'[u] \in {"idle", "lock"} => stage'[u] = "none"
    BY <1>1, <1>5 DEF JobsOK, Active
  <2>2. \A u \in Upload : pc'[u] # "idle" => name'[u] \in File /\ length'[u] \in Length
    BY <1>1, <1>2, <1>5 DEF JobsOK
  <2> QED
    BY <1>2, <1>5, <2>1, <2>2 DEF JobsOK
<1>10. EndsOK'
  BY <1>1, <1>2, <1>5 DEF EndsOK, Active
<1>11. HeldOK'
  BY <1>1, <1>5 DEF HeldOK, Active, HandlerTypes
<1>12. PartsOK' /\ LongerOK'
  BY <1>5 DEF PartsOK, LongerOK, Over
<1>13. AnnouncedOK'
  BY <1>1, <1>2, <1>3 DEF AnnouncedOK
<1> QED
  BY <1>2, <1>3, <1>4, <1>6, <1>7, <1>8, <1>9, <1>10, <1>11, <1>12, <1>13, TypePartsNext DEF IInv

-----------------------------------------------------------------------------
(* Every step.                                                               *)

LEMMA ServiceParts ==
    Service => \/ Collect \/ BatchTimeout \/ Acquire
               \/ \E b \in running : Probe(b) \/ Transcode(b)
               \/ \E u \in Upload : Submit(u) \/ Answer(u) \/ Single(u) \/ CommitDone(u)
               \/ \E u \in Upload, q \in Quality : Write(u, q)
BY DEF Service, Handle, Dispatch, Run

\* The file of a writer that replaces it was not longer.
Keeps == backend = "local" /\ hangups' = 0 /\ faults' = 0 =>
             \A f \in File, q \in Quality : file'[f][q] = 0 \/ file'[f][q] >= file[f][q]

LEMMA KeepsSame ==
    ASSUME StoreTypes,
           \A f \in File, q \in Quality : file'[f][q] = 0 \/ file'[f][q] = file[f][q]
    PROVE  Keeps
<1> SUFFICES ASSUME NEW f \in File, NEW q \in Quality
             PROVE  file'[f][q] = 0 \/ file'[f][q] >= file[f][q]
  BY DEF Keeps
<1>1. file[f][q] \in Nat
  BY Lengths DEF StoreTypes
<1>2. file'[f][q] = 0 \/ file'[f][q] = file[f][q]
  OBVIOUS
<1> QED
  BY <1>1, <1>2

LEMMA WriterKeeps ==
    ASSUME IInv, NEW u \in Upload, NEW q \in Quality,
           Write(u, q) \/ MoveFails(u, q) \/ RenameFails(u, q)
    PROVE  Keeps
<1>1. StoreTypes /\ PartsOK /\ BoundTypes
  BY TypeParts DEF IInv
<1>2. CASE UNCHANGED file
  BY <1>1, <1>2, KeepsSame
<1>3. CASE Replace(u, q)
  <2> SUFFICES ASSUME hangups' = 0, faults' = 0, NEW f \in File, NEW r \in Quality
               PROVE  file'[f][r] = 0 \/ file'[f][r] >= file[f][r]
    BY DEF Keeps
  <2>1. /\ part[u][q] = "replace" /\ file' = [file EXCEPT ![name[u]][q] = length[u]]
        /\ hangups = 0 /\ faults = 0
    BY <1>3 DEF Replace, Put, bounds
  <2>2. name[u] \in File /\ length[u] \in Length
    BY <1>1, <2>1, Named DEF IInv, PartsOK
  <2>3. file[name[u]][q] = 0 \/ file[name[u]][q] + Epsilon < length[u]
    BY <2>1, NoReplaceOfLonger
  <2>4. /\ file'[name[u]][q] = length[u]
        /\ \A s \in Quality \ {q} : file'[name[u]][s] = file[name[u]][s]
        /\ \A g \in File \ {name[u]} : file'[g] = file[g]
    BY <1>1, <2>1, <2>2, FileFacts DEF StoreTypes
  <2>5. file[f][r] \in Nat /\ length[u] \in Nat /\ Epsilon \in Nat
    BY <1>1, <2>2, Lengths DEF StoreTypes
  <2>6. CASE f = name[u] /\ r = q
    BY <2>3, <2>4, <2>5, <2>6
  <2>7. CASE f # name[u] \/ r # q
    <3>1. file'[f][r] = file[f][r]
      BY <2>4, <2>7
    <3> QED
      BY <2>5, <3>1
  <2> QED
    BY <2>6, <2>7
<1>4. CASE PutObject(u, q)
  BY <1>1, <1>4 DEF PutObject, PartsOK, Keeps
<1>5. CASE RenameFails(u, q)
  <2>1. faults' # 0
    BY <1>1, <1>5 DEF RenameFails, Fault, BoundTypes
  <2> QED
    BY <2>1 DEF Keeps
<1> QED
  BY <1>2, <1>3, <1>4, <1>5 DEF Write, Take, Check, MoveFails, store

LEMMA Step == IInv /\ [Next]_vars => IInv' /\ Keeps
<1> SUFFICES ASSUME IInv, [Next]_vars PROVE IInv' /\ Keeps
  OBVIOUS
<1>t. StoreTypes
  BY TypeParts DEF IInv
<1>f. UNCHANGED file => Keeps
  BY <1>t, KeepsSame
<1>1. CASE Collect \/ BatchTimeout \/ Acquire
  BY <1>f, <1>1, CollectStep, BatchTimeoutStep, AcquireStep
<1>2. CASE \E b \in running : Probe(b) \/ Transcode(b)
  BY <1>f, <1>2, ProbeStep, TranscodeStep
<1>3. CASE \E u \in Upload : Submit(u) \/ Answer(u) \/ Single(u) \/ CommitDone(u)
  BY <1>f, <1>3, SubmitStep, AnswerStep, SingleStep, CommitDoneStep
<1>4. CASE \E u \in Upload, q \in Quality : Write(u, q) \/ MoveFails(u, q) \/ RenameFails(u, q)
  BY <1>4, WriterActions, WriterKeeps
<1>5. CASE \E u \in Upload : Received(u) \/ HangUp(u)
  BY <1>f, <1>5, ReceivedStep, HangUpStep
<1>6. CASE \E f \in File : DeleteHq(f) \/ DeleteSq(f)
  <2>1. PICK f \in File : DeleteHq(f) \/ DeleteSq(f)
    BY <1>6
  <2>2. IInv' /\ \A g \in File, q \in Quality : file'[g][q] = 0 \/ file'[g][q] = file[g][q]
    BY <2>1, DeletionStep
  <2> QED
    BY <1>t, <2>2, KeepsSame
<1>7. CASE Restart
  BY <1>f, <1>7, RestartStep
<1>8. CASE UNCHANGED vars
  <2>1. UNCHANGED <<backend, pc, name, length, lock, queue, forming, sealed, running, stage,
                    source, part, tries, reply, file, announced, removed, deleting, faults,
                    hangups, deletes>>
    BY <1>8 DEF vars, handler, jobs, store, bounds
  <2>2. TypeOK'
    <3>1. HandlerTypes' /\ JobTypes' /\ sealed' \in BOOLEAN
      BY <2>1, TypeParts DEF IInv, HandlerTypes, JobTypes
    <3>2. ResultTypes' /\ StoreTypes' /\ BoundTypes'
      BY <2>1, TypeParts DEF IInv, ResultTypes, StoreTypes, BoundTypes
    <3> QED
      BY <3>1, <3>2, TypePartsNext
  <2>3. JobsOK' /\ EndsOK' /\ HeldOK'
    BY <2>1 DEF IInv, JobsOK, EndsOK, HeldOK
  <2>4. PartsOK' /\ AnnouncedOK' /\ LongerOK'
    BY <2>1 DEF IInv, PartsOK, AnnouncedOK, LongerOK
  <2> QED
    BY <1>f, <2>1, <2>2, <2>3, <2>4 DEF IInv
<1> QED
  BY <1>1, <1>2, <1>3, <1>4, <1>5, <1>6, <1>7, <1>8, ServiceParts DEF Next

-----------------------------------------------------------------------------
(* Nothing stands still.  A job at a stage is where somebody takes it up from *)
(* (InPlace), the results of a commit are with the writers (Begun), a handler *)
(* that waits is owed an answer by an active job (Owed), and a lock that is   *)
(* taken is held by a handler that waits (Locked).                            *)

InPlace ==
    /\ \A u \in Upload : stage[u] = "queued" => \E i \in 1..Len(queue) : queue[i] = u
    /\ \A u \in Upload : stage[u] = "forming" => u \in forming
    /\ \A u \in Upload : stage[u] \in {"probe", "ffmpeg"} => \E b \in running : u \in b
    /\ \A b \in running : \E label \in {"probe", "ffmpeg"} : \A u \in b : stage[u] = label
Begun  == \A u \in Upload, q \in Quality : stage[u] = "commit" => part[u][q] # "none"
Owed   == \A u \in Upload : pc[u] = "waiting" /\ reply[u] = None => stage[u] \in Active
Locked == \A f \in File : lock[f] # None => pc[lock[f]] = "waiting" /\ name[lock[f]] = f
GoesOn == InPlace /\ Begun /\ Owed /\ Locked

\* A batch that waits for a permit gets one, or one that has a permit can go on.
LEMMA DispatcherIsReady ==
    ASSUME GoesOn, sealed \in BOOLEAN, queue # <<>> \/ forming # {} \/ sealed
    PROVE  Ready
<1>1. CASE ~sealed
  BY <1>1 DEF Ready
<1>2. CASE sealed /\ running = {}
  <2>1. Cardinality(running) = 0 /\ MaxTranscodes \in Nat \ {0}
    BY <1>2, FS_EmptySet, StorageAssumption
  <2> QED
    BY <1>2, <2>1 DEF Ready
<1>3. CASE running # {}
  <2>1. PICK b \in running : \E label \in {"probe", "ffmpeg"} : \A u \in b : stage[u] = label
    BY <1>3 DEF GoesOn, InPlace
  <2> QED
    BY <2>1 DEF Ready
<1> QED
  BY <1>1, <1>2, <1>3

\* One who is owed an answer has it, or his job can go on.
LEMMA WaiterIsServed ==
    ASSUME IInv, GoesOn, NEW u \in Upload, pc[u] = "waiting"
    PROVE  Ready
<1>1. JobTypes /\ ResultTypes /\ sealed \in BOOLEAN
  BY TypeParts DEF IInv
<1>2. CASE reply[u] # None
  BY <1>2 DEF Ready
<1>3. CASE stage[u] = "queued"
  <2>1. PICK i \in 1..Len(queue) : queue[i] = u
    BY <1>3 DEF GoesOn, InPlace
  <2>2. queue # <<>>
    BY <1>1, <2>1, EmptySeq DEF JobTypes
  <2> QED
    BY <1>1, <2>2, DispatcherIsReady
<1>4. CASE stage[u] = "forming"
  BY <1>1, <1>4, DispatcherIsReady DEF GoesOn, InPlace
<1>5. CASE stage[u] \in {"probe", "ffmpeg"}
  BY <1>5 DEF GoesOn, InPlace, Ready
<1>6. CASE stage[u] = "single"
  BY <1>6 DEF Ready
<1>7. CASE stage[u] = "commit"
  <2>1. CASE \A q \in Quality : part[u][q] \in Over
    BY <1>7, <2>1 DEF Ready
  <2>2. ASSUME NEW q \in Quality, part[u][q] \notin Over
        PROVE  Ready
    <3>1. part[u][q] \in {"waiting", "check", "replace", "put"}
      BY <1>1, <1>7, <2>2 DEF GoesOn, Begun, ResultTypes, Marks
    <3>2. CASE \E v \in Upload, r \in Quality : Writing(v, r)
      BY <3>2 DEF Ready
    <3>3. CASE ~\E v \in Upload, r \in Quality : Writing(v, r)
      <4>1. {w \in Upload \X Quality : Writing(w[1], w[2])} = {}
        BY <3>3
      <4>2. Cardinality({w \in Upload \X Quality : Writing(w[1], w[2])}) < Writers
        BY <4>1, FS_EmptySet, StorageAssumption
      <4>3. part[u][q] = "waiting"
        BY <3>1, <3>3 DEF Writing
      <4> QED
        BY <4>2, <4>3 DEF Ready
    <3> QED
      BY <3>2, <3>3
  <2> QED
    BY <2>1, <2>2
<1> QED
  BY <1>2, <1>3, <1>4, <1>5, <1>6, <1>7 DEF GoesOn, Owed, Active

LEMMA SomeoneIs == ASSUME IInv, GoesOn PROVE SomeoneIsReady
<1> SUFFICES ASSUME NEW u \in Upload, pc[u] \in {"lock", "waiting"} PROVE Ready
  BY DEF SomeoneIsReady
<1>1. CASE pc[u] = "waiting"
  BY <1>1, WaiterIsServed
<1>2. CASE pc[u] = "lock" /\ lock[name[u]] = None
  BY <1>2 DEF Ready
<1>3. CASE pc[u] = "lock" /\ lock[name[u]] # None
  <2>1. name[u] \in File /\ HandlerTypes
    BY <1>3, TypeParts DEF IInv, JobsOK
  <2>2. lock[name[u]] \in Upload /\ pc[lock[name[u]]] = "waiting"
    BY <1>3, <2>1 DEF GoesOn, Locked, HandlerTypes
  <2> QED
    BY <2>2, WaiterIsServed
<1> QED
  BY <1>1, <1>2, <1>3

LEMMA GoesOnInitially == Init => GoesOn
<1> SUFFICES ASSUME Init PROVE GoesOn
  OBVIOUS
<1>1. \A u \in Upload : pc[u] = "idle" /\ stage[u] = "none"
  BY DEF Init
<1>2. running = {} /\ \A f \in File : lock[f] = None
  BY DEF Init
<1> QED
  BY <1>1, <1>2 DEF GoesOn, InPlace, Begun, Owed, Locked

\* The parts that a step which is not of the handlers, and changes the stages so, keeps.
LEMMA JobsGoOn ==
    ASSUME GoesOn, UNCHANGED handler,
           \A u \in Upload : \/ stage'[u] = stage[u] /\ reply'[u] = reply[u]
                             \/ stage'[u] \in Active
                             \/ reply'[u] # None
    PROVE  Owed' /\ Locked'
<1>1. UNCHANGED <<pc, name, lock>>
  BY DEF handler
<1>2. Owed'
  BY <1>1 DEF GoesOn, Owed
<1>3. Locked'
  BY <1>1 DEF GoesOn, Locked
<1> QED
  BY <1>2, <1>3

LEMMA WriterGoesOn ==
    ASSUME IInv, GoesOn, NEW u \in Upload, NEW q \in Quality,
           Write(u, q) \/ MoveFails(u, q) \/ RenameFails(u, q)
    PROVE  GoesOn'
<1>1. ResultTypes
  BY TypeParts DEF IInv
<1>2. \E label \in Marks \ {"none"} : Part(u, q, label)
  <2>1. CASE Check(u, q)
    BY <2>1 DEF Check, Marks, Over
  <2>2. CASE PutObject(u, q)
    BY <2>2 DEF PutObject, Retry, Marks, Over
  <2>3. CASE MoveFails(u, q)
    BY <2>3 DEF MoveFails, Retry, Marks, Over
  <2>4. CASE Take(u, q) \/ Replace(u, q) \/ RenameFails(u, q)
    BY <2>4 DEF Take, Replace, RenameFails, Marks, Over
  <2> QED
    BY <2>1, <2>2, <2>3, <2>4 DEF Write
<1>3. PICK label \in Marks \ {"none"} : Part(u, q, label)
  BY <1>2
<1>4. /\ part'[u][q] = label /\ \A r \in Quality \ {q} : part'[u][r] = part[u][r]
      /\ \A v \in Upload \ {u} : part'[v] = part[v]
  BY <1>1, <1>3, PartFacts DEF ResultTypes
<1>5. UNCHANGED restOfWriter
  BY DEF Write, Take, Check, Replace, PutObject, MoveFails, RenameFails
<1>6. UNCHANGED <<handler, queue, forming, running, stage, reply>>
  BY <1>5 DEF restOfWriter, jobs
<1>7. InPlace'
  BY <1>6 DEF GoesOn, InPlace
<1>8. Begun'
  BY <1>3, <1>4, <1>6 DEF GoesOn, Begun
<1>9. Owed' /\ Locked'
  BY <1>6, JobsGoOn
<1> QED
  BY <1>7, <1>8, <1>9 DEF GoesOn

LEMMA DispatcherGoesOn == ASSUME IInv, GoesOn, Dispatch PROVE GoesOn'
<1>1. JobTypes /\ JobsOK
  BY TypeParts DEF IInv
<1>2. CASE Collect
  <2> DEFINE u == Head(queue)
  <2>1. /\ u \in Upload /\ u = queue[1]
        /\ \A i \in 1..Len(queue) : i # 1 => i - 1 \in 1..Len(queue') /\ queue'[i - 1] = queue[i]
    <3>1. queue \in Seq(Upload) /\ queue # <<>> /\ queue' = Tail(queue)
      BY <1>1, <1>2 DEF Collect, JobTypes
    <3>2. u \in Upload /\ u = queue[1]
      BY <3>1, HeadOff
    <3>3. Len(queue) \in Nat /\ Len(queue') = Len(queue) - 1
          /\ \A i \in 1..Len(queue') : queue'[i] = queue[i + 1]
      BY <3>1, HeadTailProperties
    <3> QED
      BY <3>2, <3>3
  <2>2. /\ forming' = forming \cup {u} /\ Stage({u}, "forming")
        /\ UNCHANGED <<handler, source, running, part, tries, reply, store, deleting, bounds>>
    BY <1>2 DEF Collect
  <2> HIDE DEF u
  <2>3. /\ stage'[u] = "forming" /\ \A v \in Upload \ {u} : stage'[v] = stage[v]
    BY <1>1, <2>1, <2>2, StageFacts DEF JobTypes, Stages, Active
  <2>4. stage[u] = "queued" /\ \A b \in running : u \notin b
    <3>1. stage[u] = "queued"
      <4>1. 1 \in 1..Len(queue)
        BY <1>1, <1>2, HeadOff DEF Collect, JobTypes
      <4> QED
        BY <1>1, <2>1, <4>1 DEF JobsOK
    <3> QED
      BY <1>1, <3>1 DEF JobsOK
  <2>5. InPlace'
    <3>1. ASSUME NEW v \in Upload, stage'[v] = "queued"
          PROVE  \E i \in 1..Len(queue') : queue'[i] = v
      <4>1. v # u /\ stage[v] = "queued"
        BY <2>3, <3>1
      <4>2. PICK i \in 1..Len(queue) : queue[i] = v
        BY <4>1 DEF GoesOn, InPlace
      <4> QED
        BY <2>1, <4>1, <4>2
    <3>2. \A v \in Upload : stage'[v] = "forming" => v \in forming'
      BY <2>2, <2>3 DEF GoesOn, InPlace
    <3>3. \A v \in Upload : stage'[v] \in {"probe", "ffmpeg"} => \E b \in running' : v \in b
      BY <2>2, <2>3 DEF GoesOn, InPlace
    <3>4. ASSUME NEW b \in running'
          PROVE  \E label \in {"probe", "ffmpeg"} : \A v \in b : stage'[v] = label
      <4>1. b \in running /\ \A v \in b : v \in Upload \ {u}
        BY <1>1, <2>2, <2>4 DEF JobTypes
      <4> QED
        BY <2>3, <4>1 DEF GoesOn, InPlace
    <3> QED
      BY <3>1, <3>2, <3>3, <3>4 DEF InPlace
  <2>6. Begun'
    BY <2>2, <2>3 DEF GoesOn, Begun
  <2>7. Owed' /\ Locked'
    BY <2>2, <2>3, JobsGoOn DEF Active
  <2> QED
    BY <2>5, <2>6, <2>7 DEF GoesOn
<1>3. CASE BatchTimeout
  <2>1. UNCHANGED <<handler, queue, forming, running, stage, part, reply>>
    BY <1>3 DEF BatchTimeout
  <2>2. Owed' /\ Locked'
    BY <2>1, JobsGoOn
  <2> QED
    BY <2>1, <2>2 DEF GoesOn, InPlace, Begun
<1>4. CASE Acquire
  <2>1. /\ running' = running \cup {forming} /\ forming' = {} /\ Stage(forming, "probe")
        /\ UNCHANGED <<handler, queue, part, reply>>
    BY <1>4 DEF Acquire
  <2>2. /\ \A u \in forming : stage'[u] = "probe"
        /\ \A u \in Upload \ forming : stage'[u] = stage[u]
    BY <1>1, <2>1, StageFacts DEF JobTypes, Stages, Active
  <2>3. \A b \in running : \A u \in b : u \in Upload \ forming
    BY <1>1 DEF JobsOK, JobTypes
  <2>4. InPlace'
    <3>1. \A v \in Upload : stage'[v] = "queued" => \E i \in 1..Len(queue') : queue'[i] = v
      BY <2>1, <2>2 DEF GoesOn, InPlace
    <3>2. \A v \in Upload : stage'[v] = "forming" => v \in forming'
      BY <2>1, <2>2 DEF GoesOn, InPlace
    <3>3. ASSUME NEW v \in Upload, stage'[v] \in {"probe", "ffmpeg"}
          PROVE  \E b \in running' : v \in b
      BY <2>1, <2>2, <3>3 DEF GoesOn, InPlace
    <3>4. ASSUME NEW b \in running'
          PROVE  \E label \in {"probe", "ffmpeg"} : \A v \in b : stage'[v] = label
      <4>1. CASE b = forming
        BY <2>2, <4>1
      <4>2. CASE b \in running
        BY <2>2, <2>3, <4>2 DEF GoesOn, InPlace
      <4> QED
        BY <2>1, <4>1, <4>2
    <3> QED
      BY <3>1, <3>2, <3>3, <3>4 DEF InPlace
  <2>5. Begun'
    BY <2>1, <2>2 DEF GoesOn, Begun
  <2>6. Owed' /\ Locked'
    BY <2>1, <2>2, JobsGoOn DEF Active
  <2> QED
    BY <2>4, <2>5, <2>6 DEF GoesOn
<1> QED
  BY <1>2, <1>3, <1>4 DEF Dispatch

\* The jobs of b, a running batch or one job alone, leave their stage; those of them that
\* keep the permit, if any, are at ffmpeg.
LEMMA BatchPlaces ==
    ASSUME JobTypes, JobsOK, GoesOn, NEW b \in SUBSET Upload, NEW c \in SUBSET b,
           UNCHANGED <<queue, forming>>,
           b \in running \/ (c = {} /\ \A e \in running : e \cap b = {}),
           running' = (running \ {b}) \cup ({c} \ {{}}),
           \A u \in c : stage'[u] = "ffmpeg",
           \A u \in b \ c : stage'[u] \in {"single", "commit", "over"},
           \A u \in Upload \ b : stage'[u] = stage[u]
    PROVE  InPlace'
<1>1. \A u \in b : stage'[u] \notin {"queued", "forming"}
  OBVIOUS
<1>2. \A v \in Upload : stage'[v] = "queued" => \E i \in 1..Len(queue') : queue'[i] = v
  BY <1>1 DEF GoesOn, InPlace
<1>3. \A v \in Upload : stage'[v] = "forming" => v \in forming'
  BY <1>1 DEF GoesOn, InPlace
<1>4. ASSUME NEW v \in Upload, stage'[v] \in {"probe", "ffmpeg"}
      PROVE  \E e \in running' : v \in e
  <2>1. CASE v \in b
    <3>1. v \in c
      BY <1>4, <2>1
    <3> QED
      BY <3>1
  <2>2. CASE v \notin b
    <3>1. PICK e \in running : v \in e
      BY <1>4, <2>2 DEF GoesOn, InPlace
    <3> QED
      BY <2>2, <3>1
  <2> QED
    BY <2>1, <2>2
<1>5. ASSUME NEW e \in running'
      PROVE  \E label \in {"probe", "ffmpeg"} : \A v \in e : stage'[v] = label
  <2>1. CASE e = c
    BY <2>1
  <2>2. CASE e \in running \ {b}
    <3>1. \A v \in e : v \in Upload \ b
      <4>1. e \cap b = {} /\ e \in SUBSET Upload
        BY <2>2 DEF JobsOK, JobTypes
      <4> QED
        BY <4>1
    <3> QED
      BY <2>2, <3>1 DEF GoesOn, InPlace
  <2> QED
    BY <2>1, <2>2
<1> QED
  BY <1>2, <1>3, <1>4, <1>5 DEF InPlace

LEMMA ProbeGoesOn == ASSUME IInv, GoesOn, NEW b \in running, Probe(b) PROVE GoesOn'
<1>1. JobTypes /\ ResultTypes /\ JobsOK /\ b \in SUBSET Upload
  BY TypeParts DEF IInv, JobTypes
<1>2. PICK unread \in SUBSET b :
          LET short == {u \in b \ unread : length[u] <= Short}
          IN  /\ Finish(short, "short")
              /\ stage' = [u \in Upload |-> IF u \in short THEN "over"
                                            ELSE IF u \in b THEN "ffmpeg" ELSE stage[u]]
              /\ running' = (running \ {b}) \cup ({b \ short} \ {{}})
  BY DEF Probe
<1> DEFINE short == {u \in b \ unread : length[u] <= Short}
           rest  == b \ short
<1>3. short \subseteq b /\ rest \in SUBSET b /\ short = b \ rest
  OBVIOUS
<1>4. /\ Finish(short, "short") /\ running' = (running \ {b}) \cup ({rest} \ {{}})
      /\ stage' = [u \in Upload |-> IF u \in short THEN "over"
                                    ELSE IF u \in b THEN "ffmpeg" ELSE stage[u]]
  BY <1>2
<1> HIDE DEF short, rest
<1>5. /\ \A u \in short : stage'[u] = "over"
      /\ \A u \in rest : stage'[u] = "ffmpeg"
      /\ \A u \in Upload \ b : stage'[u] = stage[u]
  BY <1>1, <1>3, <1>4
<1>6. /\ \A u \in short : reply'[u] # None
      /\ \A u \in Upload \ short : reply'[u] = reply[u]
  BY <1>1, <1>3, <1>4, FinishFacts, StorageAssumption DEF Answers
<1>7. UNCHANGED <<handler, queue, forming, part>>
  BY DEF Probe
<1>8. InPlace'
  BY <1>1, <1>3, <1>4, <1>5, <1>7, BatchPlaces
<1>9. Begun'
  BY <1>3, <1>5, <1>7 DEF GoesOn, Begun
<1>10. Owed' /\ Locked'
  BY <1>3, <1>5, <1>6, <1>7, JobsGoOn DEF Active
<1> QED
  BY <1>8, <1>9, <1>10 DEF GoesOn

\* A try to transcode, or the end of a commit.
LEMMA JobsEnd ==
    ASSUME IInv, GoesOn, NEW b \in SUBSET Upload,
           \/ b \in running /\ running' = running \ {b}
           \/ /\ b # {} /\ \A u \in b : stage[u] \in {"single", "commit"}
              /\ UNCHANGED running,
           \/ Commit(b) /\ UNCHANGED reply
           \/ Stage(b, "single") /\ UNCHANGED <<reply, part>>
           \/ \E outcome \in Answers \ {None} :
                  Stage(b, "over") /\ Finish(b, outcome) /\ UNCHANGED part,
           UNCHANGED <<handler, queue, forming>>
    PROVE  GoesOn'
<1>1. JobTypes /\ ResultTypes /\ JobsOK
  BY TypeParts DEF IInv
<1>2. PICK label \in {"commit", "single", "over"} : Stage(b, label)
  BY DEF Commit
<1>3. /\ \A u \in b : stage'[u] = label
      /\ \A u \in Upload \ b : stage'[u] = stage[u]
  BY <1>1, <1>2, StageFacts DEF JobTypes, Stages, Active
<1>4. InPlace'
  <2> DEFINE c == {}
  <2>1. c \in SUBSET b /\ c = {}
    OBVIOUS
  <2>2. b \in running \/ \A e \in running : e \cap b = {}
    <3>1. ASSUME \A u \in b : stage[u] \in {"single", "commit"}
          PROVE  \A e \in running : e \cap b = {}
      BY <1>1, <3>1 DEF JobsOK
    <3> QED
      BY <3>1
  <2>3. running' = (running \ {b}) \cup ({c} \ {{}})
    <3>1. CASE running' = running \ {b}
      BY <3>1
    <3>2. CASE b # {} /\ UNCHANGED running /\ \A u \in b : stage[u] \in {"single", "commit"}
      <4>1. b \notin running
        BY <1>1, <3>2 DEF JobsOK
      <4> QED
        BY <3>2, <4>1
    <3> QED
      BY <3>1, <3>2
  <2> HIDE DEF c
  <2> QED
    BY <1>1, <1>3, <2>1, <2>2, <2>3, BatchPlaces
<1>5. Begun' /\ \A u \in Upload : \/ stage'[u] = stage[u] /\ reply'[u] = reply[u]
                                  \/ stage'[u] \in Active
                                  \/ reply'[u] # None
  <2>1. CASE Commit(b) /\ UNCHANGED reply
    <3>1. /\ \A u \in b, q \in Quality : part'[u][q] = "waiting"
          /\ \A u \in Upload \ b : part'[u] = part[u]
          /\ Stage(b, "commit")
      BY <1>1, <2>1, CommitFacts
    <3>2. \A u \in b : stage'[u] = "commit"
      BY <1>1, <3>1, StageFacts DEF JobTypes, Stages, Active
    <3> QED
      BY <1>3, <2>1, <3>1, <3>2 DEF GoesOn, Begun, Active
  <2>2. CASE Stage(b, "single") /\ UNCHANGED <<reply, part>>
    <3>1. \A u \in b : stage'[u] = "single"
      BY <1>1, <2>2, StageFacts DEF JobTypes, Stages, Active
    <3> QED
      BY <1>3, <2>2, <3>1 DEF GoesOn, Begun, Active
  <2>3. ASSUME NEW outcome \in Answers \ {None},
               Stage(b, "over"), Finish(b, outcome), UNCHANGED part
        PROVE  Begun' /\ \A u \in Upload : \/ stage'[u] = stage[u] /\ reply'[u] = reply[u]
                                           \/ stage'[u] \in Active
                                           \/ reply'[u] # None
    <3>1. \A u \in b : stage'[u] = "over"
      BY <1>1, <2>3, StageFacts DEF JobTypes, Stages, Active
    <3>2. /\ \A u \in b : reply'[u] = outcome
          /\ \A u \in Upload \ b : reply'[u] = reply[u]
      BY <1>1, <2>3, FinishFacts
    <3> QED
      BY <1>3, <2>3, <3>1, <3>2 DEF GoesOn, Begun
  <2> QED
    BY <2>1, <2>2, <2>3
<1>6. Owed' /\ Locked'
  BY <1>5, JobsGoOn
<1> QED
  BY <1>4, <1>5, <1>6 DEF GoesOn

LEMMA OutcomesAreNone == \A o \in {"ok", "short", "ffmpeg", "backend"} : o \in Answers \ {None}
BY StorageAssumption DEF Answers

LEMMA PipelineGoesOn ==
    ASSUME IInv, GoesOn,
           \/ \E b \in running : Transcode(b)
           \/ \E u \in Upload : Single(u) \/ CommitDone(u)
    PROVE  GoesOn'
<1>1. JobTypes
  BY TypeParts DEF IInv
<1>2. ASSUME NEW b \in running, Transcode(b)
      PROVE  GoesOn'
  <2>1. /\ b \in SUBSET Upload /\ running' = running \ {b}
        /\ UNCHANGED <<handler, queue, forming>>
    BY <1>1, <1>2 DEF Transcode, JobTypes
  <2>2. \/ Commit(b) /\ UNCHANGED reply
        \/ Stage(b, "single") /\ UNCHANGED <<reply, part>>
        \/ Stage(b, "over") /\ Finish(b, "ffmpeg") /\ UNCHANGED part
    BY <1>2 DEF Transcode
  <2> QED
    BY <2>1, <2>2, JobsEnd, OutcomesAreNone
<1>3. ASSUME NEW u \in Upload, Single(u)
      PROVE  GoesOn'
  <2> DEFINE b == {u}
  <2>1. /\ b \in SUBSET Upload /\ b # {} /\ \A v \in b : stage[v] \in {"single", "commit"}
        /\ UNCHANGED <<handler, queue, forming, running>>
    BY <1>3 DEF Single
  <2>2. \/ Commit(b) /\ UNCHANGED reply
        \/ Stage(b, "over") /\ Finish(b, "ffmpeg") /\ UNCHANGED part
    BY <1>3 DEF Single
  <2> HIDE DEF b
  <2> QED
    BY <2>1, <2>2, JobsEnd, OutcomesAreNone
<1>4. ASSUME NEW u \in Upload, CommitDone(u)
      PROVE  GoesOn'
  <2> DEFINE b == {u}
             outcome == IF \A q \in Quality : part[u][q] = "ok" THEN "ok" ELSE "backend"
  <2>1. /\ b \in SUBSET Upload /\ b # {} /\ \A v \in b : stage[v] \in {"single", "commit"}
        /\ UNCHANGED <<handler, queue, forming, running>>
    BY <1>4 DEF CommitDone
  <2>2. Stage(b, "over") /\ Finish(b, outcome) /\ UNCHANGED part
    BY <1>4 DEF CommitDone
  <2>3. outcome \in Answers \ {None}
    BY OutcomesAreNone
  <2> HIDE DEF b, outcome
  <2> QED
    BY <2>1, <2>2, <2>3, JobsEnd
<1> QED
  BY <1>2, <1>3, <1>4

LEMMA HandlerGoesOn ==
    ASSUME IInv, GoesOn, NEW u \in Upload, Received(u) \/ Submit(u) \/ Answer(u) \/ HangUp(u)
    PROVE  GoesOn'
<1>1. HandlerTypes /\ JobTypes /\ JobsOK /\ HeldOK /\ None \notin Upload
  BY TypeParts, StorageAssumption DEF IInv
<1>2. CASE Received(u)
  <2>1. /\ pc[u] = "idle" /\ pc' = [pc EXCEPT ![u] = "lock"]
        /\ UNCHANGED <<lock, jobs, part, reply>>
        /\ \E f \in File : name' = [name EXCEPT ![u] = f]
    BY <1>2 DEF Received
  <2>2. UNCHANGED <<queue, forming, running, stage>>
    BY <2>1 DEF jobs
  <2>3. InPlace' /\ Begun'
    BY <2>1, <2>2 DEF GoesOn, InPlace, Begun
  <2>4. Owed'
    BY <1>1, <2>1, <2>2 DEF GoesOn, Owed, HandlerTypes
  <2>5. Locked'
    BY <1>1, <2>1 DEF GoesOn, Locked, HandlerTypes
  <2> QED
    BY <2>3, <2>4, <2>5 DEF GoesOn
<1>3. CASE Submit(u)
  <2>1. /\ pc[u] = "lock" /\ pc' = [pc EXCEPT ![u] = "waiting"]
        /\ lock[name[u]] = None /\ lock' = [lock EXCEPT ![name[u]] = u]
        /\ queue' = Append(queue, u) /\ Stage({u}, "queued")
        /\ UNCHANGED <<name, forming, running, part, reply>>
        /\ name[u] \in File /\ stage[u] = "none"
    BY <1>1, <1>3 DEF Submit, JobsOK
  <2>2. /\ stage'[u] = "queued" /\ \A v \in Upload \ {u} : stage'[v] = stage[v]
    BY <1>1, <2>1, StageFacts DEF JobTypes, Stages, Active
  <2>3. InPlace'
    <3>1. /\ Len(queue) \in Nat /\ Len(queue') = Len(queue) + 1 /\ queue'[Len(queue) + 1] = u
          /\ \A i \in 1..Len(queue) : queue'[i] = queue[i]
      BY <1>1, <2>1, AppendProperties DEF JobTypes
    <3>2. ASSUME NEW v \in Upload, stage'[v] = "queued"
          PROVE  \E i \in 1..Len(queue') : queue'[i] = v
      <4>1. CASE v = u
        BY <3>1, <4>1
      <4>2. CASE v # u
        <5>1. PICK i \in 1..Len(queue) : queue[i] = v
          BY <2>2, <3>2, <4>2 DEF GoesOn, InPlace
        <5> QED
          BY <3>1, <5>1
      <4> QED
        BY <4>1, <4>2
    <3>3. \A v \in Upload : stage'[v] = "forming" => v \in forming'
      BY <2>1, <2>2 DEF GoesOn, InPlace
    <3>4. \A v \in Upload : stage'[v] \in {"probe", "ffmpeg"} => \E b \in running' : v \in b
      BY <2>1, <2>2 DEF GoesOn, InPlace
    <3>5. \A b \in running : \A v \in b : v \in Upload \ {u}
      BY <1>1, <2>1 DEF JobsOK, JobTypes
    <3>6. \A b \in running' : \E label \in {"probe", "ffmpeg"} : \A v \in b : stage'[v] = label
      BY <2>1, <2>2, <3>5 DEF GoesOn, InPlace
    <3> QED
      BY <3>2, <3>3, <3>4, <3>6 DEF InPlace
  <2>4. Begun'
    BY <2>1, <2>2 DEF GoesOn, Begun
  <2>5. Owed'
    BY <1>1, <2>1, <2>2 DEF GoesOn, Owed, Active, HandlerTypes
  <2>6. Locked'
    BY <1>1, <2>1 DEF GoesOn, Locked, HandlerTypes
  <2> QED
    BY <2>3, <2>4, <2>5, <2>6 DEF GoesOn
<1>4. ASSUME NEW at \in {"done", "gone"}, pc' = [pc EXCEPT ![u] = at],
             UNCHANGED <<name, jobs, part, reply>>, lock' \in [File -> Upload \cup {None}],
             \A f \in File : lock'[f] = None \/ (lock'[f] = lock[f] /\ lock[f] # u)
      PROVE  GoesOn'
  <2>1. UNCHANGED <<queue, forming, running, stage>>
    BY <1>4 DEF jobs
  <2>2. InPlace' /\ Begun'
    BY <1>4, <2>1 DEF GoesOn, InPlace, Begun
  <2>3. Owed'
    BY <1>1, <1>4, <2>1 DEF GoesOn, Owed, HandlerTypes
  <2>4. Locked'
    BY <1>1, <1>4 DEF GoesOn, Locked, HandlerTypes
  <2> QED
    BY <2>2, <2>3, <2>4 DEF GoesOn
<1>5. CASE Answer(u)
  <2>1. lock' = [lock EXCEPT ![name[u]] = None] /\ name[u] \in File
    BY <1>1, <1>5 DEF Answer, JobsOK
  <2>2. \A f \in File : lock[f] = u => f = name[u]
    BY <1>1 DEF GoesOn, Locked
  <2>3. /\ lock' \in [File -> Upload \cup {None}]
        /\ \A f \in File : lock'[f] = None \/ (lock'[f] = lock[f] /\ lock[f] # u)
    BY <1>1, <2>1, <2>2 DEF HandlerTypes
  <2> QED
    BY <1>4, <1>5, <2>3 DEF Answer
<1>6. CASE HangUp(u)
  <2>1. /\ lock' \in [File -> Upload \cup {None}]
        /\ \A f \in File : lock'[f] = None \/ (lock'[f] = lock[f] /\ lock[f] # u)
    BY <1>1, <1>6 DEF HangUp, HandlerTypes
  <2> QED
    BY <1>4, <1>6, <2>1 DEF HangUp
<1> QED
  BY <1>2, <1>3, <1>5, <1>6

LEMMA RestartGoesOn == ASSUME IInv, GoesOn, Restart PROVE GoesOn'
<1>1. HandlerTypes /\ JobTypes
  BY TypeParts DEF IInv
<1>2. /\ \A u \in Upload : pc'[u] # "waiting"
      /\ \A u \in Upload : stage'[u] \notin Active
      /\ running' = {} /\ \A f \in File : lock'[f] = None
  BY DEF Restart, Active
<1> QED
  BY <1>2 DEF GoesOn, InPlace, Begun, Owed, Locked, Active

LEMMA GoesOnStep == IInv /\ GoesOn /\ [Next]_vars => GoesOn'
<1> SUFFICES ASSUME IInv, GoesOn, [Next]_vars PROVE GoesOn'
  OBVIOUS
<1>1. CASE Collect \/ BatchTimeout \/ Acquire
  BY <1>1, DispatcherGoesOn DEF Dispatch
<1>2. CASE \E b \in running : Probe(b)
  BY <1>2, ProbeGoesOn
<1>3. CASE \/ \E b \in running : Transcode(b)
           \/ \E u \in Upload : Single(u) \/ CommitDone(u)
  BY <1>3, PipelineGoesOn
<1>4. CASE \E u \in Upload, q \in Quality : Write(u, q) \/ MoveFails(u, q) \/ RenameFails(u, q)
  BY <1>4, WriterGoesOn
<1>5. CASE \E u \in Upload : Received(u) \/ Submit(u) \/ Answer(u) \/ HangUp(u)
  BY <1>5, HandlerGoesOn
<1>6. CASE \/ \E f \in File : DeleteHq(f) \/ DeleteSq(f)
           \/ UNCHANGED vars
  <2>1. UNCHANGED <<handler, jobs, part, reply>>
    BY <1>6 DEF DeleteHq, DeleteSq, vars
  <2>2. UNCHANGED <<queue, forming, running, stage>>
    BY <2>1 DEF jobs
  <2>3. Owed' /\ Locked'
    BY <2>1, <2>2, JobsGoOn
  <2> QED
    BY <2>1, <2>2, <2>3 DEF GoesOn, InPlace, Begun
<1>7. CASE Restart
  BY <1>7, RestartGoesOn
<1> QED
  BY <1>1, <1>2, <1>3, <1>4, <1>5, <1>6, <1>7, ServiceParts DEF Next

-----------------------------------------------------------------------------
(* The tasks end.  StepsLeft(u) bounds how many more steps the service can    *)
(* make for upload u: those of its handler, of its job on the way to the      *)
(* commit, and of its two writers with the attempts they have left.           *)

Turns(u) ==
    CASE pc[u] = "idle" -> 3 [] pc[u] = "lock" -> 2 [] pc[u] = "waiting" -> 1 [] OTHER -> 0

\* Its job runs, or is still to be submitted.
Ahead(u) == stage[u] \in Active \/ pc[u] \in {"idle", "lock"}

Stops(u) ==
    CASE stage[u] = "queued"  -> 7
      [] stage[u] = "forming" -> IF sealed THEN 5 ELSE 6
      [] stage[u] = "probe"   -> 4
      [] stage[u] = "ffmpeg"  -> 3
      [] stage[u] = "single"  -> 2
      [] stage[u] = "commit"  -> 1
      [] OTHER -> 8

\* An attempt that failed begins again and leaves one less.
Attempts(u, q) ==
    3 * (Retries - tries[u][q])
        + CASE part[u][q] = "check" -> 2 [] part[u][q] \in {"replace", "put"} -> 1
            [] part[u][q] \in Over -> 0 [] OTHER -> 3

StepsLeft(u) ==
    Turns(u) + IF Ahead(u) THEN Stops(u) + Attempts(u, "hq") + Attempts(u, "sq") ELSE 0
MostSteps == 6 * Retries + 17

NotRaised(u) == StepsLeft(u)' <= StepsLeft(u)
Lowered(u)   == StepsLeft(u)' < StepsLeft(u)
EndsNearer ==
    /\ \A u \in Upload : StepsLeft(u) \in 0..MostSteps /\ NotRaised(u)
    /\ Service => \E u \in Upload : Lowered(u)

\* No batch is empty: one that is complete has a job, and so has one with a permit.
NoneEmpty == {} \notin running /\ (sealed => forming # {})

LEMMA NoneIsEmpty == JobTypes /\ NoneEmpty /\ [Next]_vars => NoneEmpty'
<1> SUFFICES ASSUME JobTypes, NoneEmpty, [Next]_vars PROVE NoneEmpty'
  OBVIOUS
<1>1. CASE Collect
  BY <1>1 DEF Collect, NoneEmpty
<1>2. CASE BatchTimeout
  BY <1>2 DEF BatchTimeout, NoneEmpty
<1>6. CASE Acquire
  <2>1. running' = running \cup {forming} /\ sealed' = FALSE /\ forming # {}
    BY <1>6 DEF Acquire, NoneEmpty
  <2> QED
    BY <2>1 DEF NoneEmpty
<1>3. ASSUME NEW b \in running, Probe(b) \/ Transcode(b)
      PROVE  NoneEmpty'
  <2>1. \E c : running' \subseteq running \cup ({c} \ {{}})
    <3>1. CASE Probe(b)
      <4>1. PICK unread \in SUBSET b :
                running' = (running \ {b})
                    \cup ({b \ {u \in b \ unread : length[u] <= Short}} \ {{}})
        BY <3>1 DEF Probe
      <4> QED
        BY <4>1
    <3>2. CASE Transcode(b)
      BY <3>2 DEF Transcode
    <3> QED
      BY <1>3, <3>1, <3>2
  <2>2. UNCHANGED <<forming, sealed>>
    BY <1>3 DEF Probe, Transcode
  <2> QED
    BY <2>1, <2>2 DEF NoneEmpty
<1>4. CASE \/ \E u \in Upload : Submit(u) \/ Answer(u) \/ Single(u) \/ CommitDone(u)
           \/ \E u \in Upload, q \in Quality : Write(u, q)
           \/ \E u \in Upload : Received(u) \/ HangUp(u)
           \/ \E u \in Upload, q \in Quality : MoveFails(u, q) \/ RenameFails(u, q)
           \/ \E f \in File : DeleteHq(f) \/ DeleteSq(f)
           \/ UNCHANGED vars
  <2>1. UNCHANGED <<forming, sealed, running>>
    BY <1>4 DEF Submit, Answer, Single, CommitDone, Write, Take, Check, Replace, PutObject,
       Received, HangUp, MoveFails, RenameFails, DeleteHq, DeleteSq, vars, restOfWriter, jobs
  <2> QED
    BY <2>1 DEF NoneEmpty
<1>5. CASE Restart
  BY <1>5 DEF Restart, NoneEmpty
<1> QED
  BY <1>1, <1>2, <1>3, <1>4, <1>5, <1>6, ServiceParts DEF Next

LEMMA StepTypes ==
    ASSUME TypeOK, NEW u \in Upload
    PROVE  /\ Turns(u) \in 0..3 /\ Stops(u) \in 1..8
           /\ \A q \in Quality : Attempts(u, q) \in 0..(3 * Retries + 3)
           /\ StepsLeft(u) \in 0..MostSteps
<1>0. Retries \in Nat /\ ResultTypes
  BY StorageAssumption, TypeParts
<1>1. Turns(u) \in 0..3
  BY DEF Turns
<1>2. Stops(u) \in 1..8
  BY DEF Stops
<1>3. ASSUME NEW q \in Quality
      PROVE  Attempts(u, q) \in 0..(3 * Retries + 3)
  <2>1. tries[u][q] \in 0..Retries
    BY <1>0 DEF ResultTypes
  <2> DEFINE more == CASE part[u][q] = "check" -> 2 [] part[u][q] \in {"replace", "put"} -> 1
                       [] part[u][q] \in Over -> 0 [] OTHER -> 3
  <2>2. more \in 0..3
    BY DEF Over
  <2>3. Attempts(u, q) = 3 * (Retries - tries[u][q]) + more
    BY DEF Attempts
  <2> HIDE DEF more
  <2> QED
    BY <1>0, <2>1, <2>2, <2>3
<1>4. StepsLeft(u) \in 0..MostSteps
  <2>1. /\ Attempts(u, "hq") \in 0..(3 * Retries + 3)
        /\ Attempts(u, "sq") \in 0..(3 * Retries + 3)
    BY <1>3 DEF Quality
  <2> QED
    BY <1>0, <1>1, <1>2, <2>1 DEF StepsLeft, MostSteps
<1> QED
  BY <1>1, <1>2, <1>3, <1>4

NumbersOK ==
    \A u \in Upload : /\ Turns(u) \in Nat /\ Stops(u) \in Nat \ {0}
                      /\ Attempts(u, "hq") \in Nat /\ Attempts(u, "sq") \in Nat

LEMMA StepNumbers == TypeOK => NumbersOK
BY StepTypes, StorageAssumption DEF NumbersOK, Quality

LEMMA StepNumbersNext == TypeOK' => NumbersOK'
BY StepNumbers, PTL

\* What lowers the rank: a part of it that falls while no other rises.
LEMMA RankFalls ==
    ASSUME TypeOK, TypeOK', NEW u \in Upload, Turns(u)' <= Turns(u),
           Ahead(u)' => /\ Ahead(u) /\ Stops(u)' <= Stops(u)
                        /\ \A q \in Quality : Attempts(u, q)' <= Attempts(u, q)
    PROVE  /\ NotRaised(u)
           /\ \/ Turns(u)' < Turns(u)
              \/ Ahead(u) /\ ~Ahead(u)'
              \/ Ahead(u)' /\ Stops(u)' < Stops(u)
              \/ Ahead(u)' /\ \E q \in Quality : Attempts(u, q)' < Attempts(u, q)
              => Lowered(u)
<1>1. /\ Turns(u) \in Nat /\ Stops(u) \in Nat \ {0}
      /\ Attempts(u, "hq") \in Nat /\ Attempts(u, "sq") \in Nat
  BY StepNumbers DEF NumbersOK
<1>2. /\ Turns(u)' \in Nat /\ Stops(u)' \in Nat \ {0}
      /\ Attempts(u, "hq")' \in Nat /\ Attempts(u, "sq")' \in Nat
  BY StepNumbersNext DEF NumbersOK
<1>3. CASE ~Ahead(u)'
  BY <1>1, <1>2, <1>3 DEF NotRaised, Lowered, StepsLeft
<1>4. CASE Ahead(u)'
  <2>1. /\ Attempts(u, "hq")' <= Attempts(u, "hq") /\ Attempts(u, "sq")' <= Attempts(u, "sq")
        /\ Stops(u)' <= Stops(u) /\ Ahead(u)
    BY <1>4 DEF Quality
  <2>2. ASSUME \E q \in Quality : Attempts(u, q)' < Attempts(u, q)
        PROVE  Attempts(u, "hq")' < Attempts(u, "hq") \/ Attempts(u, "sq")' < Attempts(u, "sq")
    BY <2>2 DEF Quality
  <2> QED
    BY <1>1, <1>2, <1>4, <2>1, <2>2 DEF NotRaised, Lowered, StepsLeft
<1> QED
  BY <1>3, <1>4

\* An upload that a step leaves alone, though the batch it forms may be completed.
LEMMA RankStays ==
    ASSUME TypeOK, TypeOK', NEW u \in Upload, pc'[u] = pc[u], stage'[u] = stage[u],
           part'[u] = part[u], tries'[u] = tries[u],
           stage[u] = "forming" /\ sealed => sealed'
    PROVE  NotRaised(u) /\ (stage[u] = "forming" /\ ~sealed /\ sealed' => Lowered(u))
<1>1. Turns(u)' = Turns(u) /\ Ahead(u)' = Ahead(u)
  BY DEF Turns, Ahead
<1>2. \A q \in Quality : Attempts(u, q)' = Attempts(u, q)
  BY DEF Attempts
<1>3. Stops(u)' <= Stops(u) /\ (stage[u] = "forming" /\ ~sealed /\ sealed' => Stops(u)' < Stops(u))
  BY DEF Stops
<1>4. /\ Turns(u) \in Nat /\ \A q \in Quality : Attempts(u, q) \in Nat
  BY StepTypes, StorageAssumption
<1>5. stage[u] = "forming" => Ahead(u)
  BY DEF Ahead, Active
<1> QED
  BY <1>1, <1>2, <1>3, <1>4, <1>5, RankFalls

\* A job goes on to a later stage, or to its end.
LEMMA JobNearsEnd ==
    ASSUME TypeOK, TypeOK', JobsOK, PartsOK, NEW u \in Upload, pc'[u] = pc[u],
           tries'[u] = tries[u], stage[u] \in Active,
           \/ part'[u] = part[u]
           \/ stage[u] # "commit" /\ \A q \in Quality : part'[u][q] = "waiting",
           stage'[u] \in Active => Stops(u)' < Stops(u), stage'[u] # "none"
    PROVE  Lowered(u)
<1>1. Turns(u)' = Turns(u) /\ Turns(u) \in Nat
  BY StepTypes DEF Turns
<1>2. pc[u] \notin {"idle", "lock"} /\ Ahead(u)
  BY DEF JobsOK, Active, Ahead
<1>3. Ahead(u)' => stage'[u] \in Active
  BY <1>2 DEF Ahead
<1>4. ASSUME NEW q \in Quality
      PROVE  Attempts(u, q)' <= Attempts(u, q)
  <2>1. Attempts(u, q) \in Nat
    BY StepTypes, StorageAssumption
  <2>2. CASE part'[u] = part[u]
    BY <2>1, <2>2 DEF Attempts
  <2>3. CASE stage[u] # "commit" /\ part'[u][q] = "waiting"
    <3>1. part[u][q] \notin {"check", "replace", "put"} \cup Over
      BY <2>3 DEF PartsOK, Active
    <3>2. Attempts(u, q)' = Attempts(u, q)
      BY <2>3, <3>1 DEF Attempts, Over
    <3> QED
      BY <2>1, <3>2
  <2> QED
    BY <2>2, <2>3
<1>5. Stops(u) \in Nat /\ Stops(u)' \in Nat
  BY StepTypes, StepNumbersNext DEF NumbersOK
<1>6. Ahead(u)' => Stops(u)' <= Stops(u) /\ Stops(u)' < Stops(u)
  BY <1>3, <1>5
<1>7. Turns(u)' <= Turns(u)
  BY <1>1
<1> QED
  BY <1>2, <1>4, <1>6, <1>7, RankFalls

\* A writer takes one result a step further.
LEMMA WriterLowers ==
    ASSUME TypeOK, TypeOK', PartsOK, NEW u \in Upload, NEW q \in Quality,
           part[u][q] \in {"waiting", "check", "replace", "put"},
           UNCHANGED <<pc, stage, sealed>>, Attempts(u, q)' < Attempts(u, q),
           \A v \in Upload, r \in Quality :
               <<v, r>> # <<u, q>> => part'[v][r] = part[v][r] /\ tries'[v][r] = tries[v][r]
    PROVE  Lowered(u) /\ \A v \in Upload : NotRaised(v)
<1>1. \A v \in Upload : Turns(v)' = Turns(v) /\ Ahead(v)' = Ahead(v) /\ Stops(v)' = Stops(v)
  BY DEF Turns, Ahead, Stops
<1>2. \A v \in Upload : Turns(v) \in Nat /\ Stops(v) \in Nat
                        /\ \A r \in Quality : Attempts(v, r) \in Nat
  BY StepTypes, StorageAssumption
<1>3. ASSUME NEW v \in Upload, NEW r \in Quality, <<v, r>> # <<u, q>>
      PROVE  Attempts(v, r)' = Attempts(v, r)
  <2>1. part'[v][r] = part[v][r] /\ tries'[v][r] = tries[v][r]
    BY <1>3
  <2> QED
    BY <2>1 DEF Attempts
<1>4. \A v \in Upload, r \in Quality : Attempts(v, r)' <= Attempts(v, r)
  <2>1. Attempts(u, q)' <= Attempts(u, q)
    BY <1>2, StepNumbersNext DEF NumbersOK, Quality
  <2> QED
    BY <1>2, <1>3, <2>1
<1>5. Ahead(u)
  BY DEF PartsOK, Ahead, Active
<1> QED
  BY <1>1, <1>2, <1>4, <1>5, RankFalls

\* What every step of a task, and every failure of one, does.
SomeNearer == (\A u \in Upload : NotRaised(u)) /\ \E u \in Upload : Lowered(u)

\* The jobs b go on together, and the step leaves the other uploads alone.
LEMMA JobsNearEnd ==
    ASSUME TypeOK, TypeOK', JobsOK, PartsOK, NEW b \in SUBSET Upload, b # {},
           UNCHANGED <<handler, tries>>,
           \A u \in Upload \ b : /\ stage'[u] = stage[u] /\ part'[u] = part[u]
                                 /\ stage[u] = "forming" /\ sealed => sealed',
           \A u \in b : /\ stage[u] \in Active /\ stage'[u] # "none"
                        /\ \/ part'[u] = part[u]
                           \/ /\ stage[u] # "commit"
                              /\ \A q \in Quality : part'[u][q] = "waiting"
                        /\ stage'[u] \in Active => Stops(u)' < Stops(u)
    PROVE  SomeNearer
<1>1. UNCHANGED pc
  BY DEF handler
<1>2. ASSUME NEW u \in b
      PROVE  Lowered(u)
  BY <1>1, JobNearsEnd
<1>3. ASSUME NEW u \in Upload
      PROVE  NotRaised(u)
  <2>1. CASE u \in b
    <3>1. Lowered(u) /\ StepsLeft(u) \in Nat
      BY <1>2, <2>1, StepTypes, StorageAssumption DEF MostSteps
    <3>2. StepsLeft(u)' \in Nat
      BY StepNumbersNext DEF NumbersOK, StepsLeft
    <3> QED
      BY <3>1, <3>2 DEF Lowered, NotRaised
  <2>2. CASE u \notin b
    <3>1. stage'[u] = stage[u] /\ part'[u] = part[u] /\ (stage[u] = "forming" /\ sealed => sealed')
      BY <2>2
    <3> QED
      BY <1>1, <3>1, RankStays
  <2> QED
    BY <2>1, <2>2
<1> QED
  BY <1>2, <1>3 DEF SomeNearer

LEMMA CollectNears == ASSUME IInv, TypeOK', Collect PROVE SomeNearer
<1>1. TypeOK /\ JobTypes /\ JobsOK /\ PartsOK /\ sealed' \in BOOLEAN
  BY TypeParts DEF IInv, TypeOK
<1>2. PICK u \in Upload : u = Head(queue) /\ u = queue[1] /\ 1 \in 1..Len(queue)
  BY <1>1, HeadOff DEF Collect, JobTypes
<1> DEFINE b == {u}
<1>3. /\ stage[u] = "queued" /\ ~sealed /\ Stage(b, "forming")
      /\ UNCHANGED <<handler, source, running, part, tries, reply, store, deleting, bounds>>
  BY <1>1, <1>2 DEF Collect, JobsOK
<1>4. b \in SUBSET Upload /\ b # {} /\ \A v \in b : v = u
  OBVIOUS
<1> HIDE DEF b
<1>5. (\A v \in b : stage'[v] = "forming") /\ \A v \in Upload \ b : stage'[v] = stage[v]
  BY <1>1, <1>3, <1>4, StageFacts DEF JobTypes, Stages, Active
<1>6. ASSUME NEW v \in b
      PROVE  stage[v] \in Active /\ stage'[v] # "none" /\ Stops(v)' < Stops(v)
  <2>1. stage[v] = "queued" /\ stage'[v] = "forming"
    BY <1>3, <1>4, <1>5
  <2>2. Stops(v)' \in {5, 6} /\ Stops(v) = 7
    BY <1>1, <2>1 DEF Stops
  <2> QED
    BY <2>1, <2>2 DEF Active
<1> QED
  BY <1>1, <1>3, <1>4, <1>5, <1>6, JobsNearEnd

LEMMA BatchTimeoutNears == ASSUME IInv, TypeOK', BatchTimeout PROVE SomeNearer
<1>1. TypeOK /\ JobTypes /\ JobsOK
  BY TypeParts DEF IInv
<1>2. /\ UNCHANGED <<handler, source, queue, forming, running, stage, part, tries, reply, store,
                     deleting, bounds>>
      /\ sealed' = TRUE /\ ~sealed /\ forming # {}
  BY DEF BatchTimeout
<1>3. UNCHANGED pc
  BY <1>2 DEF handler
<1>4. \A u \in Upload : NotRaised(u) /\ (stage[u] = "forming" => Lowered(u))
  BY <1>1, <1>2, <1>3, RankStays
<1>5. \E u \in Upload : stage[u] = "forming"
  BY <1>1, <1>2 DEF JobsOK, JobTypes
<1> QED
  BY <1>4, <1>5 DEF SomeNearer

LEMMA AcquireNears == ASSUME IInv, GoesOn, NoneEmpty, TypeOK', Acquire PROVE SomeNearer
<1>1. TypeOK /\ JobTypes /\ JobsOK /\ PartsOK
  BY TypeParts DEF IInv
<1>2. /\ UNCHANGED <<handler, source, queue, part, tries, reply, store, deleting, bounds>>
      /\ Stage(forming, "probe") /\ forming # {} /\ sealed
  BY DEF Acquire, NoneEmpty
<1>3. /\ \A u \in forming : stage'[u] = "probe"
      /\ \A u \in Upload \ forming : stage'[u] = stage[u]
  BY <1>1, <1>2, StageFacts DEF JobTypes, Stages, Active
<1>4. ASSUME NEW u \in Upload \ forming
      PROVE  stage'[u] = stage[u] /\ part'[u] = part[u] /\ stage[u] # "forming"
  BY <1>2, <1>3 DEF GoesOn, InPlace
<1>5. ASSUME NEW u \in forming
      PROVE  /\ stage[u] \in Active /\ stage'[u] # "none" /\ part'[u] = part[u]
             /\ Stops(u)' < Stops(u)
  <2>1. stage[u] = "forming" /\ stage'[u] = "probe"
    BY <1>1, <1>3 DEF JobsOK
  <2> QED
    BY <1>2, <2>1 DEF Stops, Active
<1>6. forming \in SUBSET Upload
  BY <1>1 DEF JobTypes
<1> QED
  BY <1>1, <1>2, <1>4, <1>5, <1>6, JobsNearEnd

LEMMA ProbeNears ==
    ASSUME IInv, NoneEmpty, TypeOK', NEW b \in running, Probe(b) PROVE SomeNearer
<1>1. TypeOK /\ JobTypes /\ JobsOK /\ PartsOK /\ b \in SUBSET Upload /\ b # {}
  BY TypeParts DEF IInv, JobTypes, NoneEmpty
<1>2. /\ UNCHANGED <<handler, queue, forming, sealed, part, tries, store, deleting>>
      /\ \A u \in b : stage[u] = "probe"
  BY DEF Probe
<1>3. PICK short \in SUBSET b :
          stage' = [u \in Upload |-> IF u \in short THEN "over"
                                     ELSE IF u \in b THEN "ffmpeg" ELSE stage[u]]
  BY DEF Probe
<1>4. /\ \A u \in b : stage'[u] \in {"over", "ffmpeg"}
      /\ \A u \in Upload \ b : stage'[u] = stage[u]
  BY <1>1, <1>3
<1>5. ASSUME NEW u \in b
      PROVE  /\ stage[u] \in Active /\ stage'[u] # "none"
             /\ stage'[u] \in Active => Stops(u)' < Stops(u)
  BY <1>2, <1>4 DEF Stops, Active
<1> QED
  BY <1>1, <1>2, <1>4, <1>5, JobsNearEnd

LEMMA TranscodedNears ==
    ASSUME IInv, TypeOK', NEW b \in SUBSET Upload, b # {},
           \A u \in b : stage[u] \in {"ffmpeg", "single"},
           \/ Commit(b)
           \/ Stage(b, "single") /\ (\A u \in b : stage[u] = "ffmpeg") /\ UNCHANGED part
           \/ Stage(b, "over") /\ UNCHANGED part,
           UNCHANGED <<handler, sealed, tries>>
    PROVE  SomeNearer
<1>1. TypeOK /\ JobTypes /\ ResultTypes /\ JobsOK /\ PartsOK
  BY TypeParts DEF IInv
<1>2. PICK label \in {"commit", "single", "over"} :
          /\ Stage(b, label)
          /\ label = "single" => \A u \in b : stage[u] = "ffmpeg"
  BY DEF Commit
<1>3. /\ \A u \in b : stage'[u] = label
      /\ \A u \in Upload \ b : stage'[u] = stage[u]
  BY <1>1, <1>2, StageFacts DEF JobTypes, Stages, Active
<1>4. /\ \A u \in Upload \ b : part'[u] = part[u]
      /\ \A u \in b : part'[u] = part[u] \/ \A q \in Quality : part'[u][q] = "waiting"
  BY <1>1, CommitFacts
<1>5. ASSUME NEW u \in b
      PROVE  /\ stage[u] \in Active /\ stage'[u] # "none" /\ stage[u] # "commit"
             /\ stage'[u] \in Active => Stops(u)' < Stops(u)
  BY <1>2, <1>3 DEF Stops, Active
<1> QED
  BY <1>1, <1>3, <1>4, <1>5, JobsNearEnd

LEMMA TranscodeNears ==
    ASSUME IInv, NoneEmpty, TypeOK', NEW b \in running, Transcode(b) PROVE SomeNearer
<1>1. b \in SUBSET Upload /\ b # {}
  BY TypeParts DEF IInv, JobTypes, NoneEmpty
<1> QED
  BY <1>1, TranscodedNears DEF Transcode

LEMMA SingleNears == ASSUME IInv, TypeOK', NEW u \in Upload, Single(u) PROVE SomeNearer
<1> DEFINE b == {u}
<1>1. b \in SUBSET Upload /\ b # {} /\ \A v \in b : stage[v] \in {"ffmpeg", "single"}
  BY DEF Single
<1>2. /\ Commit(b) \/ (Stage(b, "over") /\ UNCHANGED part)
      /\ UNCHANGED <<handler, sealed, tries>>
  BY DEF Single
<1> HIDE DEF b
<1> QED
  BY <1>1, <1>2, TranscodedNears

LEMMA CommitDoneNears == ASSUME IInv, TypeOK', NEW u \in Upload, CommitDone(u) PROVE SomeNearer
<1> DEFINE b == {u}
<1>1. TypeOK /\ JobTypes /\ JobsOK /\ PartsOK
  BY TypeParts DEF IInv
<1>2. stage[u] = "commit" /\ Stage(b, "over") /\ UNCHANGED <<handler, sealed, part, tries>>
  BY DEF CommitDone
<1>3. b \in SUBSET Upload /\ b # {} /\ \A v \in b : v = u
  OBVIOUS
<1> HIDE DEF b
<1>4. /\ \A v \in b : stage'[v] = "over"
      /\ \A v \in Upload \ b : stage'[v] = stage[v]
  BY <1>1, <1>2, <1>3, StageFacts DEF JobTypes, Stages
<1>5. ASSUME NEW v \in b
      PROVE  /\ stage[v] \in Active /\ stage'[v] # "none" /\ stage'[v] \notin Active
  BY <1>2, <1>3, <1>4 DEF Active
<1> QED
  BY <1>1, <1>2, <1>3, <1>4, <1>5, JobsNearEnd

\* A writer that tries again has used one attempt, and no other writer has.
LEMMA RetryFacts ==
    ASSUME tries \in [Upload -> [Quality -> 0..Retries]], NEW u \in Upload, NEW q \in Quality,
           NEW label \in Marks, Retry(u, q, label)
    PROVE  /\ \A v \in Upload, r \in Quality : <<v, r>> # <<u, q>> => tries'[v][r] = tries[v][r]
           /\ \/ Part(u, q, label) /\ tries'[u][q] = tries[u][q] + 1
              \/ Part(u, q, "err") /\ tries'[u][q] = tries[u][q]
<1> DEFINE new == [tries[u] EXCEPT ![q] = @ + 1]
<1>1. CASE tries[u][q] < Retries
  <2>1. new[q] = tries[u][q] + 1 /\ \A r \in Quality \ {q} : new[r] = tries[u][r]
    OBVIOUS
  <2>2. tries' = [tries EXCEPT ![u] = new] /\ Part(u, q, label)
    BY <1>1 DEF Retry
  <2> HIDE DEF new
  <2>3. tries'[u] = new /\ \A v \in Upload \ {u} : tries'[v] = tries[v]
    BY <2>2
  <2> QED
    BY <2>1, <2>2, <2>3
<1>2. CASE ~(tries[u][q] < Retries)
  BY <1>2 DEF Retry
<1> QED
  BY <1>1, <1>2

\* What a writer makes of one result: a later mark, or the first one of a new attempt.
LEMMA MarkNears ==
    ASSUME IInv, TypeOK', NEW u \in Upload, NEW q \in Quality,
           part[u][q] \in {"waiting", "check", "replace", "put"},
           NEW label \in {"check", "replace", "put", "ok", "err"}, Part(u, q, label),
           \A v \in Upload, r \in Quality : <<v, r>> # <<u, q>> => tries'[v][r] = tries[v][r],
           \/ /\ tries'[u][q] = tries[u][q]
              /\ \/ label \in {"ok", "err"} \/ part[u][q] = "waiting"
                 \/ part[u][q] = "check" /\ label = "replace"
           \/ tries'[u][q] = tries[u][q] + 1 /\ part[u][q] # "waiting",
           UNCHANGED restOfWriter
    PROVE  SomeNearer
<1>1. TypeOK /\ ResultTypes /\ PartsOK
  BY TypeParts DEF IInv
<1>2. UNCHANGED <<pc, stage, sealed>>
  BY DEF restOfWriter, handler, jobs
<1>3. /\ part'[u][q] = label
      /\ \A r \in Quality \ {q} : part'[u][r] = part[u][r]
      /\ \A v \in Upload \ {u} : part'[v] = part[v]
  BY <1>1, PartFacts DEF ResultTypes, Marks, Over
<1>4. \A v \in Upload, r \in Quality : <<v, r>> # <<u, q>> => part'[v][r] = part[v][r]
  BY <1>3
<1>5. tries[u][q] \in Nat /\ tries'[u][q] \in Nat /\ Retries \in Nat
  BY <1>1, StorageAssumption DEF ResultTypes
<1> DEFINE Cost(mark) == CASE mark = "check" -> 2 [] mark \in {"replace", "put"} -> 1
                           [] mark \in Over -> 0 [] OTHER -> 3
<1>6. /\ Attempts(u, q) = 3 * (Retries - tries[u][q]) + Cost(part[u][q])
      /\ Attempts(u, q)' = 3 * (Retries - tries'[u][q]) + Cost(part'[u][q])
  BY DEF Attempts
<1>7. /\ Cost(part[u][q]) \in 1..3 /\ Cost(part'[u][q]) \in 0..2
      /\ label \in {"ok", "err"} => Cost(part'[u][q]) = 0
      /\ part[u][q] = "waiting" => Cost(part[u][q]) = 3
      /\ part[u][q] = "check" /\ label = "replace"
            => Cost(part[u][q]) = 2 /\ Cost(part'[u][q]) = 1
  BY <1>3 DEF Over
<1> HIDE DEF Cost
<1>8. Attempts(u, q)' < Attempts(u, q)
  BY <1>5, <1>6, <1>7
<1> QED
  BY <1>1, <1>2, <1>4, <1>8, WriterLowers DEF SomeNearer

LEMMA WriterNears ==
    ASSUME IInv, TypeOK', NEW u \in Upload, NEW q \in Quality,
           Write(u, q) \/ MoveFails(u, q) \/ RenameFails(u, q)
    PROVE  SomeNearer
<1>1. UNCHANGED restOfWriter /\ tries \in [Upload -> [Quality -> 0..Retries]]
  BY TypeParts DEF IInv, ResultTypes, Write, Take, Check, Replace, PutObject, MoveFails,
                   RenameFails
<1>2. CASE \/ Take(u, q) \/ Check(u, q) \/ Replace(u, q) \/ RenameFails(u, q)
           \/ PutObject(u, q) /\ Part(u, q, "ok") /\ UNCHANGED tries
  <2>1. /\ UNCHANGED tries /\ part[u][q] \in {"waiting", "check", "replace", "put"}
        /\ \E label \in {"check", "replace", "put", "ok", "err"} :
              /\ Part(u, q, label)
              /\ \/ label \in {"ok", "err"} \/ part[u][q] = "waiting"
                 \/ part[u][q] = "check" /\ label = "replace"
    BY <1>2 DEF Take, Check, Replace, RenameFails, PutObject
  <2> QED
    BY <1>1, <2>1, MarkNears
<1>3. ASSUME NEW label \in {"check", "put"}, part[u][q] \in {"replace", "put"},
             Retry(u, q, label)
      PROVE  SomeNearer
  <2>1. /\ \A v \in Upload, r \in Quality : <<v, r>> # <<u, q>> => tries'[v][r] = tries[v][r]
        /\ \/ Part(u, q, label) /\ tries'[u][q] = tries[u][q] + 1
           \/ Part(u, q, "err") /\ tries'[u][q] = tries[u][q]
    BY <1>1, <1>3, RetryFacts DEF Marks
  <2>2. CASE Part(u, q, label) /\ tries'[u][q] = tries[u][q] + 1
    BY <1>1, <1>3, <2>1, <2>2, MarkNears
  <2>3. CASE Part(u, q, "err") /\ tries'[u][q] = tries[u][q]
    BY <1>1, <1>3, <2>1, <2>3, MarkNears
  <2> QED
    BY <2>1, <2>2, <2>3
<1>4. CASE MoveFails(u, q) \/ (PutObject(u, q) /\ Retry(u, q, "put"))
  BY <1>3, <1>4 DEF MoveFails, PutObject
<1> QED
  BY <1>2, <1>4 DEF Write, PutObject

\* The handler, and the two ways in which an upload is given up.
LEMMA HandlerNears ==
    ASSUME IInv, TypeOK', NEW u \in Upload, Received(u) \/ Submit(u) \/ Answer(u) \/ HangUp(u)
    PROVE  (\A v \in Upload : NotRaised(v)) /\ Lowered(u)
<1>1. TypeOK /\ HandlerTypes /\ JobTypes /\ JobsOK
  BY TypeParts DEF IInv
<1>2. UNCHANGED <<part, tries, sealed>>
  BY DEF Received, Submit, Answer, HangUp, jobs
<1>3. /\ \A v \in Upload \ {u} : pc'[v] = pc[v] /\ stage'[v] = stage[v]
      /\ \/ pc[u] = "idle" /\ pc'[u] = "lock" /\ stage'[u] = stage[u]
         \/ pc[u] = "lock" /\ pc'[u] = "waiting" /\ stage'[u] = "queued" /\ stage[u] = "none"
         \/ pc[u] = "waiting" /\ pc'[u] = "done" /\ stage'[u] = stage[u]
         \/ pc[u] \in {"lock", "waiting"} /\ pc'[u] = "gone" /\ stage'[u] = stage[u]
  <2>1. CASE Submit(u)
    BY <1>1, <2>1, StageFacts DEF Submit, HandlerTypes, JobTypes, JobsOK, Stages, Active
  <2>2. CASE Received(u) \/ Answer(u) \/ HangUp(u)
    BY <1>1, <2>2 DEF Received, Answer, HangUp, jobs, HandlerTypes
  <2> QED
    BY <2>1, <2>2
<1>4. Turns(u)' < Turns(u)
  BY <1>3 DEF Turns
<1>5. Ahead(u)' => Ahead(u)
  BY <1>3 DEF Ahead
<1>6. \A q \in Quality : Attempts(u, q)' <= Attempts(u, q)
  <2>1. \A q \in Quality : Attempts(u, q)' = Attempts(u, q) /\ Attempts(u, q) \in Nat
    BY <1>1, <1>2, StepTypes, StorageAssumption DEF Attempts
  <2> QED
    BY <2>1
<1>7. Stops(u) \in 1..8 /\ Stops(u)' <= Stops(u)
  <2>1. Stops(u) \in 1..8
    BY <1>1, StepTypes
  <2>2. CASE stage'[u] = stage[u]
    BY <1>2, <2>1, <2>2 DEF Stops
  <2>3. CASE stage[u] = "none" /\ stage'[u] = "queued"
    BY <2>3 DEF Stops
  <2> QED
    BY <1>3, <2>1, <2>2, <2>3
<1>8. NotRaised(u) /\ Lowered(u)
  <2>1. Turns(u)' <= Turns(u)
    BY <1>1, <1>4, StepNumbersNext, StepTypes DEF NumbersOK
  <2> QED
    BY <1>1, <1>4, <1>5, <1>6, <1>7, <2>1, RankFalls
<1>9. \A v \in Upload \ {u} : NotRaised(v)
  BY <1>1, <1>2, <1>3, RankStays
<1> QED
  BY <1>8, <1>9

LEMMA RestartNears == ASSUME IInv, TypeOK', Restart PROVE \A u \in Upload : NotRaised(u)
<1> SUFFICES ASSUME NEW u \in Upload PROVE NotRaised(u)
  OBVIOUS
<1>1. TypeOK /\ ResultTypes /\ JobsOK /\ PartsOK
  BY TypeParts DEF IInv
<1>2. /\ pc'[u] = (IF pc[u] \in {"lock", "waiting"} THEN "gone" ELSE pc[u])
      /\ stage'[u] = (IF stage[u] \in Active THEN "none" ELSE stage[u])
      /\ (\A q \in Quality : part'[u][q] = "none") /\ tries'[u] = tries[u]
  BY DEF Restart
<1>3. Turns(u)' <= Turns(u)
  BY <1>2 DEF Turns
<1>4. ASSUME Ahead(u)'
      PROVE  /\ Ahead(u) /\ Stops(u)' <= Stops(u)
             /\ \A q \in Quality : Attempts(u, q)' <= Attempts(u, q)
  <2>1. pc[u] = "idle" /\ stage[u] = "none" /\ stage'[u] = "none"
    BY <1>1, <1>2, <1>4 DEF Ahead, Active, JobsOK
  <2>2. Stops(u) = 8 /\ Stops(u)' = 8 /\ Ahead(u)
    BY <2>1 DEF Stops, Ahead
  <2>3. ASSUME NEW q \in Quality
        PROVE  Attempts(u, q)' <= Attempts(u, q)
    <3>1. part[u][q] \notin {"check", "replace", "put"} \cup Over
      BY <1>1, <2>1 DEF PartsOK
    <3>2. Attempts(u, q)' = Attempts(u, q) /\ Attempts(u, q) \in Nat
      BY <1>1, <1>2, <3>1, StepTypes, StorageAssumption DEF Attempts, Over
    <3> QED
      BY <3>2
  <2> QED
    BY <2>2, <2>3
<1> QED
  BY <1>1, <1>3, <1>4, RankFalls

LEMMA EndsNearerStep == IInv /\ GoesOn /\ NoneEmpty /\ [Next]_vars => EndsNearer
<1> SUFFICES ASSUME IInv, GoesOn, NoneEmpty, [Next]_vars PROVE EndsNearer
  OBVIOUS
<1>1. TypeOK /\ TypeOK' /\ \A u \in Upload : StepsLeft(u) \in 0..MostSteps
  BY Step, StepTypes DEF IInv
<1>2. Service => SomeNearer
  <2>1. CASE Collect \/ BatchTimeout \/ Acquire
    BY <1>1, <2>1, CollectNears, BatchTimeoutNears, AcquireNears
  <2>2. CASE \E b \in running : Probe(b) \/ Transcode(b)
    BY <1>1, <2>2, ProbeNears, TranscodeNears
  <2>3. CASE \E u \in Upload : Submit(u) \/ Answer(u) \/ Single(u) \/ CommitDone(u)
    BY <1>1, <2>3, HandlerNears, SingleNears, CommitDoneNears DEF SomeNearer
  <2>4. CASE \E u \in Upload, q \in Quality : Write(u, q)
    BY <1>1, <2>4, WriterNears
  <2> QED
    BY <2>1, <2>2, <2>3, <2>4, ServiceParts
<1>3. ASSUME NEW u \in Upload
      PROVE  NotRaised(u)
  <2>1. CASE Service
    BY <1>2, <2>1 DEF SomeNearer
  <2>2. CASE \E v \in Upload : Received(v) \/ HangUp(v)
    BY <1>1, <2>2, HandlerNears
  <2>3. CASE \E v \in Upload, q \in Quality : MoveFails(v, q) \/ RenameFails(v, q)
    BY <1>1, <2>3, WriterNears DEF SomeNearer
  <2>4. CASE (\E f \in File : DeleteHq(f) \/ DeleteSq(f)) \/ UNCHANGED vars
    <3>1. UNCHANGED <<pc, stage, sealed, part, tries>>
      BY <2>4 DEF DeleteHq, DeleteSq, vars, handler, jobs
    <3> QED
      BY <1>1, <3>1, RankStays
  <2>5. CASE Restart
    BY <1>1, <2>5, RestartNears
  <2> QED
    BY <2>1, <2>2, <2>3, <2>4, <2>5 DEF Next
<1> QED
  BY <1>1, <1>2, <1>3 DEF EndsNearer, SomeNearer

-----------------------------------------------------------------------------
(* Theorems.                                                                 *)

\* Uploads, their locks, jobs, batches, writers and files agree in every reachable state
\* (the conjuncts of IInv), through failures, hang-ups, deletions and restarts.
THEOREM Invariant == Spec => []IInv
<1>1. IInv /\ [Next]_vars => IInv'
  BY Step
<1> QED
  BY <1>1, Initially, PTL DEF Spec

\* No upload, batch, writer, deletion or restart takes the state of the service out of
\* its types; the queue holds uploads and the batches are sets of them.
THEOREM TypeCorrect == Spec => []TypeOK
<1>1. IInv => TypeOK
  BY DEF IInv
<1> QED
  BY <1>1, Invariant, PTL

\* For every number of uploads, batch size and pool of writers: unless a client hangs up,
\* two jobs of one file name are never in the pipeline together.
THEOREM OneJobAtATime == Spec => []OneJobPerFile
<1>1. IInv => OneJobPerFile
  BY OneJob DEF IInv
<1> QED
  BY <1>1, Invariant, PTL

\* However a job ends, by success, a short track, a failing tool or backend, in a batch or
\* alone, its .input file is gone.
THEOREM SourcesAreReclaimed == Spec => []SourceReclaimed
<1>1. IInv => SourceReclaimed
  BY DEF IInv, EndsOK, SourceReclaimed
<1> QED
  BY <1>1, Invariant, PTL

\* What was answered ok has been published, and what was published has both its files in
\* the backend until something removes one of them.
THEOREM AnnouncementsHold == Spec => []AnnouncedIsStored
<1>1. IInv => AnnouncedIsStored
  <2> SUFFICES ASSUME IInv, NEW u \in Upload
               PROVE  /\ reply[u] = "ok" => name[u] \in announced
                      /\ name[u] \in announced \ removed
                            => \A q \in Quality : file[name[u]][q] # 0
    BY DEF AnnouncedIsStored
  <2>1. announced \subseteq File
    BY TypeParts DEF IInv, StoreTypes
  <2> QED
    BY <2>1 DEF IInv, AnnouncedOK
<1> QED
  BY <1>1, Invariant, PTL

\* On a local backend no step replaces a stored file by a shorter one, as long as clients
\* wait and tools work, though the lengths are compared long before the renaming.
THEOREM LongerFilesAreKept == Spec => KeepsLongest
<1>1. IInv /\ [Next]_vars => [Keeps]_vars
  BY Step
<1>2. Spec => [][Keeps]_vars
  BY <1>1, Invariant, PTL DEF Spec
<1> QED
  BY <1>2 DEF KeepsLongest, Keeps

\* However many uploads wait, for each other's locks, for a batch to fill, for a permit or
\* for a writer, and whatever failed, hung up or was restarted: one of them finds its lock
\* free or its answer there, or some task of the service can take its next step.
THEOREM NobodyStandsStill == Spec => []SomeoneIsReady
<1>1. Spec => []GoesOn
  BY Invariant, GoesOnInitially, GoesOnStep, PTL DEF Spec
<1>2. IInv /\ GoesOn => SomeoneIsReady
  BY SomeoneIs
<1> QED
  BY <1>1, <1>2, Invariant, PTL

\* Every step a task of the service makes brings an upload nearer to its end, and nothing
\* that befalls the service, a failure, a retry, a hang-up, a deletion or a restart, puts
\* one further from it.  So the tasks make at most 6 * Retries + 17 steps for each upload
\* and, by NobodyStandsStill, stop only when every upload was answered or given up.
THEOREM TasksEnd == Spec => [][EndsNearer]_vars
<1>1. Init => NoneEmpty
  BY DEF Init, NoneEmpty
<1>2. IInv => JobTypes
  BY TypeParts DEF IInv
<1>3. Spec => []NoneEmpty
  BY <1>1, <1>2, NoneIsEmpty, Invariant, PTL DEF Spec
<1>4. Spec => []GoesOn
  BY Invariant, GoesOnInitially, GoesOnStep, PTL DEF Spec
<1>5. IInv /\ GoesOn /\ NoneEmpty /\ [Next]_vars => [EndsNearer]_vars
  BY EndsNearerStep
<1> QED
  BY <1>3, <1>4, <1>5, Invariant, PTL DEF Spec

===============================================================================
