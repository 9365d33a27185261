--------------------------- MODULE TmpQuotaProofs ---------------------------
(***************************************************************************)
(* Theorems about TmpQuota: as long as nothing was reconciled, the counter *)
(* is what the service started with and what the handlers have charged and *)
(* not yet rolled back; what is on disk is never more than what is charged.*)
(***************************************************************************)
EXTENDS TmpQuota, FiniteSetTheorems, TLAPS

\* What the counter holds for a handler: its reservation, and a chunk whose try_add failed.
held == [u \in Upload |-> charged[u] + IF pc[u] \in {"undo", "refuse"} THEN chunk[u] ELSE 0]

\* The chunk in hand fits the upload, and the file is no longer than its reservation.
ChunkOK ==
    \A u \in Upload :
        /\ pc[u] \in {"add", "undo", "rescan", "retry", "refuse"} =>
              charged[u] + chunk[u] <= MaxBytes
        /\ pc[u] \in {"idle", "next", "add", "undo", "rescan", "retry", "refuse"} =>
              size[u] <= charged[u]
        /\ pc[u] = "write" => size[u] + chunk[u] <= charged[u]
        /\ pc[u] \in {"idle", "done"} => charged[u] = 0

\* Only a handler that waits for its rescan walks, and only after one was begun.
WalkerOK ==
    /\ walker \in Upload => pc[walker] = "rescan"
    /\ rescans = 0 => walker = None

\* Every byte of the counter is accounted for.
CounterOK == rescans = 0 => used = Leftover + Total(held)

\* No handler lets go of a file that is still there, unless it left it to the pipeline.
FilesOK ==
    leaks = 0 =>
        /\ stray <= Leftover
        /\ \A u \in Upload :
              /\ pc[u] # "done" => size[u] <= charged[u]
              /\ u \in owned => pc[u] \in {"pipeline", "done"}
              /\ pc[u] \in {"pipeline", "done"} /\ u \notin owned => size[u] = 0
              /\ pc[u] = "drop" => size[u] = 0

\* What is charged was within the limit when it was.
LimitOK ==
    rescans = 0 => Leftover + Total(charged) <= Limit \/ \A u \in Upload : charged[u] = 0

IInv == TypeOK /\ ChunkOK /\ WalkerOK /\ CounterOK /\ FilesOK /\ LimitOK

-----------------------------------------------------------------------------
(* Sums.                                                                   *)

Sizes == [Upload -> 0..MaxBytes]

LEMMA Constants ==
    /\ MaxBytes \in Nat /\ Limit \in Nat /\ Leftover \in Nat /\ Word \in Nat \ {0}
    /\ Chunk \subseteq Nat \ {0} /\ None \notin Upload /\ IsFiniteSet(Upload)
    /\ MaxLeaks \in Nat /\ MaxRescans \in Nat /\ Limit < Word
  BY QuotaAssumption DEF QuotaAssumption

LEMMA ChunkType == Chunk \cup {0} \subseteq Nat
  BY Constants

\* What all uploads together may hold does not overflow the counter.
Most == Cardinality(Upload) * MaxBytes

LEMMA MostFits == Most \in Nat /\ Leftover + Most < Word
  <1>1. Cardinality(Upload) \in Nat BY Constants, FS_CardinalityType
  <1>2. Most \in Nat BY <1>1, Constants DEF Most
  <1> QED BY <1>2, QuotaAssumption DEF QuotaAssumption, Most

LEMMA LeftoverFits == Leftover \in 0..Word - 1
  <1>1. Leftover \in Nat /\ Word \in Nat /\ Leftover < Word BY MostFits, Constants
  <1> QED BY <1>1

\* A sum is a number, and no sum exceeds what the uploads may hold at most.
LEMMA TotalType ==
    ASSUME NEW f \in Sizes
    PROVE /\ IsFiniteSet(Bytes(f)) /\ Total(f) \in Nat
          /\ Total(f) <= Most
  <1> DEFINE all == Upload \X (1..MaxBytes)
  <1>1. IsFiniteSet(1..MaxBytes) /\ Cardinality(1..MaxBytes) = MaxBytes
    BY Constants, FS_Interval
  <1>2. IsFiniteSet(all) /\ Cardinality(all) = Most
    BY <1>1, Constants, FS_Product DEF Most
  <1>3. Bytes(f) \in SUBSET all BY DEF Bytes
  <1>4. IsFiniteSet(Bytes(f)) /\ Cardinality(Bytes(f)) <= Cardinality(all)
    BY <1>2, <1>3, FS_Subset
  <1> QED BY <1>2, <1>4, FS_CardinalityType DEF Total

\* A sum grows with its terms.
LEMMA TotalGrows ==
    ASSUME NEW f \in Sizes, NEW g \in Sizes, \A u \in Upload : f[u] <= g[u]
    PROVE Total(f) <= Total(g)
  <1>1. Bytes(f) \in SUBSET Bytes(g)
    <2>1. ASSUME NEW b \in Upload \X (1..MaxBytes), b[2] <= f[b[1]] PROVE b[2] <= g[b[1]]
      <3>1. b[1] \in Upload /\ b[2] \in Nat OBVIOUS
      <3>2. f[b[1]] \in Nat /\ g[b[1]] \in Nat /\ f[b[1]] <= g[b[1]] BY <3>1 DEF Sizes
      <3> QED BY <2>1, <3>1, <3>2
    <2> QED BY <2>1 DEF Bytes
  <1> QED BY <1>1, TotalType, FS_Subset DEF Total

\* Adding n to one term adds n to the sum.
LEMMA TotalAdds ==
    ASSUME NEW f \in Sizes, NEW g \in Sizes, NEW u \in Upload, NEW n \in Nat,
           g[u] = f[u] + n, \A v \in Upload : v # u => g[v] = f[v]
    PROVE Total(g) = Total(f) + n
  <1> DEFINE more == {u} \X ((f[u] + 1)..(f[u] + n))
  <1>1. f[u] \in 0..MaxBytes /\ g[u] \in 0..MaxBytes /\ MaxBytes \in Nat BY Constants DEF Sizes
  <1>2. Cardinality((f[u] + 1)..(f[u] + n)) = n /\ IsFiniteSet((f[u] + 1)..(f[u] + n))
    <2>1. f[u] + 1 \in Int /\ f[u] + n \in Int BY <1>1
    <2>2. /\ IsFiniteSet((f[u] + 1)..(f[u] + n))
          /\ Cardinality((f[u] + 1)..(f[u] + n)) =
                IF f[u] + 1 > f[u] + n THEN 0 ELSE (f[u] + n) - (f[u] + 1) + 1
      BY <2>1, FS_Interval
    <2> QED BY <1>1, <2>2
  <1>3. IsFiniteSet({u}) /\ Cardinality({u}) = 1 BY FS_Singleton
  <1>4. IsFiniteSet(more) /\ Cardinality(more) = n
    <2> DEFINE new == (f[u] + 1)..(f[u] + n)
    <2>1. IsFiniteSet(new) /\ Cardinality(new) = n BY <1>2
    <2> HIDE DEF new
    <2>2. IsFiniteSet({u} \X new) /\ Cardinality({u} \X new) = Cardinality({u}) * Cardinality(new)
      BY <1>3, <2>1, FS_Product
    <2>3. Cardinality({u} \X new) = n BY <1>3, <2>1, <2>2
    <2> QED BY <2>2, <2>3 DEF new
  <1>5. Bytes(g) = Bytes(f) \cup more
    <2>1. ASSUME NEW b \in Upload \X (1..MaxBytes)
          PROVE b[2] <= g[b[1]] <=> b[2] <= f[b[1]] \/ b \in more
      <3>1. b = <<b[1], b[2]>> /\ b[1] \in Upload /\ b[2] \in 1..MaxBytes OBVIOUS
      <3>2. CASE b[1] # u BY <3>1, <3>2
      <3>3. CASE b[1] = u
        <4>1. b \in more <=> b[2] \in (f[u] + 1)..(f[u] + n) BY <3>1, <3>3
        <4> QED BY <1>1, <3>1, <3>3, <4>1
      <3> QED BY <3>2, <3>3
    <2>2. more \subseteq Upload \X (1..MaxBytes)
      <3>1. (f[u] + 1)..(f[u] + n) \subseteq 1..MaxBytes BY <1>1
      <3> QED BY <3>1
    <2> HIDE DEF more
    <2> QED BY <2>1, <2>2 DEF Bytes
  <1>6. Bytes(f) \cap more = {}
    <2>1. ASSUME NEW b \in Bytes(f), b \in more PROVE FALSE
      <3>1. b[1] = u /\ b[2] \in (f[u] + 1)..(f[u] + n) BY <2>1
      <3>2. b[2] <= f[b[1]] BY DEF Bytes
      <3> QED BY <1>1, <3>1, <3>2
    <2> QED BY <2>1
  <1> HIDE DEF more
  <1>7. IsFiniteSet(Bytes(f)) /\ Total(f) \in Nat BY TotalType
  <1>8. Cardinality(Bytes(f) \cup more) = Cardinality(Bytes(f)) + Cardinality(more) - Cardinality(Bytes(f) \cap more)
    BY <1>4, <1>7, FS_Union
  <1>9. Cardinality({}) = 0 BY FS_EmptySet
  <1>10. Cardinality(Bytes(f)) \in Nat BY <1>7 DEF Total
  <1>11. Cardinality(Bytes(g)) = Cardinality(Bytes(f)) + n
    <2>1. Cardinality(Bytes(f) \cap more) = 0 BY <1>6, <1>9
    <2>2. Cardinality(Bytes(f) \cup more) = Cardinality(Bytes(f)) + n - 0 BY <1>4, <1>8, <2>1
    <2> QED BY <1>5, <1>10, <2>2
  <1> QED BY <1>11 DEF Total

LEMMA TotalZero ==
    ASSUME NEW f \in Sizes, \A u \in Upload : f[u] = 0
    PROVE Total(f) = 0
  <1>1. Bytes(f) = {} BY DEF Bytes
  <1> QED BY <1>1, FS_EmptySet DEF Total

\* The counter wraps around at Word.
LEMMA Modulo ==
    /\ \A n \in Int : n % Word \in 0..Word - 1
    /\ \A n \in 0..Word - 1 : n % Word = n /\ (n + Word) % Word = n
  <1>1. Word \in Nat \ {0} BY Constants
  <1>2. ASSUME NEW n \in Int PROVE n % Word \in 0..Word - 1 BY <1>1
  <1>3. ASSUME NEW n \in 0..Word - 1 PROVE n % Word = n BY <1>1
  <1>4. ASSUME NEW n \in 0..Word - 1 PROVE (n + Word) % Word = n BY <1>1
  <1> QED BY <1>2, <1>3, <1>4

LEMMA Balance ==
    ASSUME NEW c \in Nat, NEW d \in Nat, NEW h \in Nat, NEW i \in Nat,
           NEW s \in Nat, NEW t \in Nat, NEW l \in Nat,
           c = l + s, d + h = c + i, t + h = s + i
    PROVE d = l + t
  OBVIOUS

-----------------------------------------------------------------------------
(* A step of one handler.                                                  *)

LEMMA HeldType == IInv => held \in Sizes /\ charged \in Sizes
  <1> SUFFICES ASSUME IInv PROVE held \in Sizes /\ charged \in Sizes OBVIOUS
  <1>1. ASSUME NEW u \in Upload
        PROVE charged[u] + (IF pc[u] \in {"undo", "refuse"} THEN chunk[u] ELSE 0) \in 0..MaxBytes
    <2>1. charged[u] \in 0..MaxBytes /\ chunk[u] \in Nat
      <3>1. charged[u] \in 0..MaxBytes /\ chunk[u] \in Chunk \cup {0} BY DEF IInv, TypeOK
      <3> QED BY <3>1, ChunkType
    <2>2. CASE pc[u] \in {"undo", "refuse"}
      <3>1. charged[u] + chunk[u] <= MaxBytes BY <2>2 DEF IInv, ChunkOK
      <3> QED BY <2>1, <2>2, <3>1
    <2>3. CASE pc[u] \notin {"undo", "refuse"} BY <2>1, <2>3
    <2> QED BY <2>2, <2>3
  <1> QED BY <1>1 DEF held, Sizes, IInv, TypeOK

LEMMA HeldTypePrime == TypeOK' /\ ChunkOK' => held' \in Sizes /\ charged' \in Sizes
  <1> SUFFICES ASSUME TypeOK', ChunkOK' PROVE held' \in Sizes /\ charged' \in Sizes OBVIOUS
  <1>1. ASSUME NEW u \in Upload
        PROVE charged'[u] + (IF pc'[u] \in {"undo", "refuse"} THEN chunk'[u] ELSE 0) \in 0..MaxBytes
    <2>1. charged'[u] \in 0..MaxBytes /\ chunk'[u] \in Nat
      <3>1. charged'[u] \in 0..MaxBytes /\ chunk'[u] \in Chunk \cup {0} BY DEF TypeOK
      <3> QED BY <3>1, ChunkType
    <2>2. CASE pc'[u] \in {"undo", "refuse"}
      <3>1. charged'[u] + chunk'[u] <= MaxBytes BY <2>2 DEF ChunkOK
      <3> QED BY <2>1, <2>2, <3>1
    <2>3. CASE pc'[u] \notin {"undo", "refuse"} BY <2>1, <2>3
    <2> QED BY <2>2, <2>3
  <1> QED BY <1>1 DEF held, Sizes, TypeOK

\* What each step has to establish of the handler that takes it.
ChunkFits(u) ==
    /\ pc'[u] \in {"add", "undo", "rescan", "retry", "refuse"} => charged'[u] + chunk'[u] <= MaxBytes
    /\ pc'[u] \in {"idle", "next", "add", "undo", "rescan", "retry", "refuse"} => size'[u] <= charged'[u]
    /\ pc'[u] = "write" => size'[u] + chunk'[u] <= charged'[u]
    /\ pc'[u] \in {"idle", "done"} => charged'[u] = 0
FileStays(u) ==
    /\ stray' <= stray /\ (pc'[u] # "done" => size'[u] <= charged'[u])
    /\ u \in owned' => pc'[u] \in {"pipeline", "done"}
    /\ pc'[u] \in {"pipeline", "done"} /\ u \notin owned' => size'[u] = 0
    /\ pc'[u] = "drop" => size'[u] = 0
OthersStay(u) ==
    \A v \in Upload \ {u} :
        /\ pc'[v] = pc[v] /\ chunk'[v] = chunk[v] /\ charged'[v] = charged[v] /\ size'[v] = size[v]
        /\ v \in owned' <=> v \in owned

LEMMA HandlerStep ==
    ASSUME IInv, NEW u \in Upload, TypeOK', ChunkFits(u), OthersStay(u),
           walker' \in {walker, None} \/ (walker' = u /\ rescans' > 0),
           walker' = u => pc'[u] = "rescan",
           rescans' >= rescans, leaks' >= leaks,
           rescans' = 0 => used' + held[u] = used + held'[u],
           rescans' = 0 => charged'[u] <= charged[u] \/ used' <= Limit,
           leaks' = 0 => FileStays(u)
    PROVE IInv'
  <1>1. ChunkOK' BY DEF IInv, ChunkOK, ChunkFits, OthersStay
  <1>2. WalkerOK' BY Constants DEF IInv, TypeOK, WalkerOK, OthersStay
  <1>3. held \in Sizes /\ charged \in Sizes BY HeldType
  <1>4. held' \in Sizes /\ charged' \in Sizes BY <1>1, HeldTypePrime
  <1>5. \A v \in Upload : v # u => held'[v] = held[v] BY DEF held, OthersStay
  <1>6. Total(held) \in Nat /\ Total(held') \in Nat /\ Total(charged) \in Nat /\ Total(charged') \in Nat
    BY <1>3, <1>4, TotalType
  <1>7. rescans' = 0 => rescans = 0 BY DEF IInv, TypeOK
  <1>8. Total(held') + held[u] = Total(held) + held'[u]
    <2>1. held[u] \in Nat /\ held'[u] \in Nat BY <1>3, <1>4, Constants DEF Sizes
    <2>2. CASE held'[u] >= held[u]
      <3>1. held'[u] - held[u] \in Nat /\ held'[u] = held[u] + (held'[u] - held[u]) BY <2>1, <2>2
      <3>2. Total(held') = Total(held) + (held'[u] - held[u]) BY <1>3, <1>4, <1>5, <3>1, TotalAdds
      <3> QED BY <1>6, <2>1, <3>2
    <2>3. CASE held[u] >= held'[u]
      <3>1. held[u] - held'[u] \in Nat /\ held[u] = held'[u] + (held[u] - held'[u]) BY <2>1, <2>3
      <3>2. Total(held) = Total(held') + (held[u] - held'[u]) BY <1>3, <1>4, <1>5, <3>1, TotalAdds
      <3> QED BY <1>6, <2>1, <3>2
    <2> QED BY <2>1, <2>2, <2>3
  <1>9. CounterOK'
    <2> SUFFICES ASSUME rescans' = 0 PROVE used' = Leftover + Total(held') BY DEF CounterOK
    <2>1. used = Leftover + Total(held) /\ used' + held[u] = used + held'[u]
      BY <1>7 DEF IInv, CounterOK
    <2>2. used \in Nat /\ used' \in Nat /\ held[u] \in Nat /\ held'[u] \in Nat
      BY <1>3, <1>4, Constants DEF IInv, TypeOK, Sizes
    <2>3. Leftover \in Nat BY Constants
    <2> QED BY <1>6, <1>8, <2>1, <2>2, <2>3, Balance
  <1>10. FilesOK'
    <2> SUFFICES ASSUME leaks' = 0
                 PROVE /\ stray' <= Leftover
                       /\ \A v \in Upload :
                             /\ pc'[v] # "done" => size'[v] <= charged'[v]
                             /\ v \in owned' => pc'[v] \in {"pipeline", "done"}
                             /\ pc'[v] \in {"pipeline", "done"} /\ v \notin owned' => size'[v] = 0
                             /\ pc'[v] = "drop" => size'[v] = 0
      BY DEF FilesOK
    <2>1. leaks = 0 BY DEF IInv, TypeOK
    <2>2. stray' <= Leftover
      BY <2>1, Constants DEF IInv, TypeOK, FilesOK, FileStays
    <2> QED BY <2>1, <2>2 DEF IInv, FilesOK, FileStays, OthersStay
  <1>11. LimitOK'
    <2> SUFFICES ASSUME rescans' = 0
                 PROVE Leftover + Total(charged') <= Limit \/ \A v \in Upload : charged'[v] = 0
      BY DEF LimitOK
    <2>1. CASE charged'[u] <= charged[u]
      <3>1. \A v \in Upload : charged[v] \in Nat /\ charged'[v] \in Nat
        BY <1>3, <1>4, Constants DEF Sizes
      <3>2. \A v \in Upload : charged'[v] <= charged[v] BY <2>1, <3>1 DEF OthersStay
      <3>3. Total(charged') <= Total(charged) BY <1>3, <1>4, <3>2, TotalGrows
      <3>4. Leftover + Total(charged) <= Limit \/ \A v \in Upload : charged[v] = 0
        BY <1>7 DEF IInv, LimitOK
      <3>5. CASE Leftover + Total(charged) <= Limit BY <1>6, <3>3, <3>5, Constants
      <3>6. CASE \A v \in Upload : charged[v] = 0 BY <3>1, <3>2, <3>6
      <3> QED BY <3>4, <3>5, <3>6
    <2>2. CASE used' <= Limit
      <3>1. used' = Leftover + Total(held') BY <1>9 DEF CounterOK
      <3>2. ASSUME NEW v \in Upload PROVE charged'[v] <= held'[v]
        <4>1. charged'[v] \in Nat /\ chunk'[v] \in Nat
          <5>1. charged'[v] \in 0..MaxBytes /\ chunk'[v] \in Chunk \cup {0} BY DEF TypeOK
          <5> QED BY <5>1, ChunkType
        <4>2. held'[v] = charged'[v] + IF pc'[v] \in {"undo", "refuse"} THEN chunk'[v] ELSE 0
          BY DEF held
        <4> QED BY <4>1, <4>2
      <3>3. Total(charged') <= Total(held') BY <1>4, <3>2, TotalGrows
      <3> QED BY <1>6, <2>2, <3>1, <3>3, Constants
    <2> QED BY <2>1, <2>2
  <1> QED BY <1>1, <1>2, <1>9, <1>10, <1>11 DEF IInv

-----------------------------------------------------------------------------
(* What the lemmas of the steps share.                                     *)

LEMMA HandlerType ==
    ASSUME IInv, NEW u \in Upload
    PROVE /\ chunk[u] \in Nat /\ charged[u] \in Nat /\ size[u] \in Nat
          /\ charged[u] <= MaxBytes /\ size[u] <= MaxBytes /\ pc[u] \in PC
          /\ held[u] \in Nat /\ charged[u] <= held[u] /\ held[u] <= Total(held)
          /\ pc[u] \notin {"undo", "refuse"} => held[u] = charged[u]
          /\ pc[u] \in {"undo", "refuse"} => held[u] = charged[u] + chunk[u]
          /\ Total(held) \in Nat
  <1>1. chunk[u] \in Chunk \cup {0} /\ charged[u] \in 0..MaxBytes /\ size[u] \in 0..MaxBytes
        /\ pc[u] \in PC
    BY DEF IInv, TypeOK
  <1>2. chunk[u] \in Nat BY <1>1, ChunkType
  <1>3. held[u] = charged[u] + IF pc[u] \in {"undo", "refuse"} THEN chunk[u] ELSE 0 BY DEF held
  <1>4. held \in Sizes /\ Total(held) \in Nat BY HeldType, TotalType
  <1>5. held[u] <= Total(held)
    <2> DEFINE rest == [held EXCEPT ![u] = 0]
    <2>1. rest \in Sizes BY <1>4, Constants DEF Sizes
    <2>2. rest[u] = 0 /\ \A v \in Upload : v # u => held[v] = rest[v] BY <1>4 DEF Sizes
    <2> HIDE DEF rest
    <2>3. held[u] \in Nat /\ held[u] = rest[u] + held[u]
      BY <1>4, <2>2, Constants DEF Sizes
    <2>4. Total(held) = Total(rest) + held[u] BY <1>4, <2>1, <2>2, <2>3, TotalAdds
    <2>5. Total(rest) \in Nat BY <2>1, TotalType
    <2> QED BY <2>3, <2>4, <2>5
  <1> QED BY <1>1, <1>2, <1>3, <1>4, <1>5, Constants

LEMMA SubType ==
    ASSUME IInv, NEW n \in Int, Sub(n)
    PROVE used' \in 0..Word - 1
  <1>1. used + Word - n \in Int BY Constants DEF IInv, TypeOK
  <1> QED BY <1>1, Modulo DEF Sub

\* The counter does not wrap around when a handler takes back what it holds.
LEMMA SubHeld ==
    ASSUME IInv, NEW u \in Upload, NEW n \in Nat, n <= held[u], Sub(n), rescans = 0
    PROVE used' + n = used
  <1>1. used = Leftover + Total(held) /\ used \in 0..Word - 1 BY DEF IInv, CounterOK, TypeOK
  <1>2. held[u] \in Nat /\ held[u] <= Total(held) /\ Total(held) \in Nat BY HandlerType
  <1>3. Word \in Nat \ {0} /\ Leftover \in Nat BY Constants
  <1>4. used - n \in 0..Word - 1 BY <1>1, <1>2, <1>3
  <1>5. ((used - n) + Word) % Word = used - n BY <1>4, Modulo
  <1>6. (used - n) + Word = used + Word - n BY <1>1, <1>3
  <1>7. used' = used - n BY <1>5, <1>6 DEF Sub
  <1> QED BY <1>1, <1>7, <1>3

\* Nor when it adds its chunk.
LEMMA AddFits ==
    ASSUME IInv, NEW u \in Upload, pc[u] \in {"add", "retry"}, rescans = 0
    PROVE used + chunk[u] \in 0..Word - 1
  <1> DEFINE more == [held EXCEPT ![u] = held[u] + chunk[u]]
  <1>1. held \in Sizes BY HeldType
  <1>2. /\ held[u] = charged[u] /\ chunk[u] \in Nat /\ charged[u] \in Nat /\ held[u] \in Nat
        /\ Total(held) \in Nat
    BY HandlerType
  <1>3. charged[u] + chunk[u] <= MaxBytes BY DEF IInv, ChunkOK
  <1>4. held[u] + chunk[u] \in 0..MaxBytes BY <1>2, <1>3, Constants
  <1>5. /\ more \in Sizes /\ more[u] = held[u] + chunk[u]
        /\ \A v \in Upload : v # u => more[v] = held[v]
    BY <1>1, <1>4 DEF Sizes
  <1> HIDE DEF more
  <1>6. Total(more) = Total(held) + chunk[u] BY <1>1, <1>2, <1>5, TotalAdds
  <1>7. Total(more) <= Most BY <1>5, TotalType
  <1>8. used = Leftover + Total(held) BY DEF IInv, CounterOK
  <1>9. Most \in Nat /\ Leftover + Most < Word BY MostFits
  <1>10. Leftover \in Nat /\ Word \in Nat BY Constants
  <1> QED BY <1>2, <1>6, <1>7, <1>8, <1>9, <1>10

\* A step that only reads, or only moves the walk on.
LEMMA Unmoved ==
    ASSUME IInv, TypeOK',
           UNCHANGED <<pc, chunk, charged, size, owned, used, walker, rescans, leaks>>,
           stray' <= stray
    PROVE IInv'
  <1>1. ChunkOK' BY DEF IInv, ChunkOK
  <1>2. WalkerOK' BY DEF IInv, WalkerOK
  <1>3. held' = held BY DEF held
  <1>4. CounterOK' BY <1>3 DEF IInv, CounterOK
  <1>5. FilesOK' BY Constants DEF IInv, FilesOK, TypeOK
  <1>6. LimitOK' BY DEF IInv, LimitOK
  <1> QED BY <1>1, <1>2, <1>4, <1>5, <1>6 DEF IInv

-----------------------------------------------------------------------------
(* The steps of a handler.                                                 *)

\* A request arrives with nothing charged.
LEMMA BeginInv ==
    ASSUME IInv, NEW u \in Upload, Begin(u)
    PROVE IInv'
  <1> USE DEF Begin, Goto, walk
  <1>1. TypeOK' BY Constants, HandlerType DEF IInv, TypeOK, PC
  <1>2. OthersStay(u) BY DEF OthersStay, IInv, TypeOK
  <1>3. ChunkFits(u) BY HandlerType, Constants DEF ChunkFits, IInv, TypeOK, ChunkOK, PC
  <1>4. leaks' = 0 => FileStays(u) BY HandlerType, Constants DEF FileStays, IInv, TypeOK, FilesOK, PC
  <1>5. held'[u] = held[u]
    BY HandlerType DEF held, IInv, TypeOK
  <1>6. walker' = u => pc'[u] = "rescan" BY DEF IInv, TypeOK, WalkerOK
  <1>7. charged'[u] <= charged[u] BY HandlerType
  <1>8. used' + held[u] = used + held'[u] BY <1>5
  <1>9. /\ walker' \in {walker, None}
        /\ rescans' >= rescans /\ leaks' >= leaks
    BY Constants DEF IInv, TypeOK
  <1> QED BY <1>1, <1>2, <1>3, <1>4, <1>6, <1>7, <1>8, <1>9, HandlerStep

\* A chunk is read only if the upload stays within its bound.
LEMMA ReadChunkInv ==
    ASSUME IInv, NEW u \in Upload, ReadChunk(u)
    PROVE IInv'
  <1> USE DEF ReadChunk, Goto, walk
  <1>1. TypeOK' BY Constants, HandlerType DEF IInv, TypeOK, PC
  <1>2. OthersStay(u) BY DEF OthersStay, IInv, TypeOK
  <1>3. ChunkFits(u) BY HandlerType, Constants DEF ChunkFits, IInv, TypeOK, ChunkOK, PC
  <1>4. leaks' = 0 => FileStays(u) BY HandlerType, Constants DEF FileStays, IInv, TypeOK, FilesOK, PC
  <1>5. held'[u] = held[u]
    BY HandlerType DEF held, IInv, TypeOK
  <1>6. walker' = u => pc'[u] = "rescan" BY DEF IInv, TypeOK, WalkerOK
  <1>7. charged'[u] <= charged[u] BY HandlerType
  <1>8. used' + held[u] = used + held'[u] BY <1>5
  <1>9. /\ walker' \in {walker, None}
        /\ rescans' >= rescans /\ leaks' >= leaks
    BY Constants DEF IInv, TypeOK
  <1> QED BY <1>1, <1>2, <1>3, <1>4, <1>6, <1>7, <1>8, <1>9, HandlerStep

\* What is written was charged before.
LEMMA WriteInv ==
    ASSUME IInv, NEW u \in Upload, Write(u)
    PROVE IInv'
  <1> USE DEF Write, Goto, walk
  <1>0. size[u] + chunk[u] \in 0..MaxBytes /\ size[u] + chunk[u] <= charged[u]
    BY Constants, HandlerType DEF IInv, ChunkOK
  <1>1. TypeOK' BY <1>0, Constants DEF IInv, TypeOK, PC
  <1>2. OthersStay(u) BY DEF OthersStay, IInv, TypeOK
  <1>3. ChunkFits(u) BY HandlerType, Constants DEF ChunkFits, IInv, TypeOK, ChunkOK, PC
  <1>4. leaks' = 0 => FileStays(u)
    BY <1>0, HandlerType, Constants DEF FileStays, IInv, TypeOK, FilesOK, PC
  <1>5. held'[u] = held[u]
    BY HandlerType DEF held, IInv, TypeOK
  <1>6. walker' = u => pc'[u] = "rescan" BY DEF IInv, TypeOK, WalkerOK
  <1>7. charged'[u] <= charged[u] BY HandlerType
  <1>8. used' + held[u] = used + held'[u] BY <1>5
  <1>9. /\ walker' \in {walker, None}
        /\ rescans' >= rescans /\ leaks' >= leaks
    BY Constants DEF IInv, TypeOK
  <1> QED BY <1>1, <1>2, <1>3, <1>4, <1>6, <1>7, <1>8, <1>9, HandlerStep

\* The body ends: the file is as long as its reservation, or shorter.
LEMMA BodyEndsInv ==
    ASSUME IInv, NEW u \in Upload, BodyEnds(u)
    PROVE IInv'
  <1> USE DEF BodyEnds, Goto, walk
  <1>1. TypeOK' BY Constants, HandlerType DEF IInv, TypeOK, PC
  <1>2. OthersStay(u) BY DEF OthersStay, IInv, TypeOK
  <1>3. ChunkFits(u) BY HandlerType, Constants DEF ChunkFits, IInv, TypeOK, ChunkOK, PC
  <1>4. leaks' = 0 => FileStays(u) BY HandlerType, Constants DEF FileStays, IInv, TypeOK, FilesOK, PC
  <1>5. held'[u] = held[u]
    BY HandlerType DEF held, IInv, TypeOK
  <1>6. walker' = u => pc'[u] = "rescan" BY DEF IInv, TypeOK, WalkerOK
  <1>7. charged'[u] <= charged[u] BY HandlerType
  <1>8. used' + held[u] = used + held'[u] BY <1>5
  <1>9. /\ walker' \in {walker, None}
        /\ rescans' >= rescans /\ leaks' >= leaks
    BY Constants DEF IInv, TypeOK
  <1> QED BY <1>1, <1>2, <1>3, <1>4, <1>6, <1>7, <1>8, <1>9, HandlerStep

\* The pipeline takes the file while the handler waits for it.
LEMMA SubmitInv ==
    ASSUME IInv, NEW u \in Upload, Submit(u)
    PROVE IInv'
  <1> USE DEF Submit, Goto, walk
  <1>1. TypeOK' BY Constants, HandlerType DEF IInv, TypeOK, PC
  <1>2. OthersStay(u) BY DEF OthersStay, IInv, TypeOK
  <1>3. ChunkFits(u) BY HandlerType, Constants DEF ChunkFits, IInv, TypeOK, ChunkOK, PC
  <1>4. leaks' = 0 => FileStays(u) BY HandlerType, Constants DEF FileStays, IInv, TypeOK, FilesOK, PC
  <1>5. held'[u] = held[u]
    BY HandlerType DEF held, IInv, TypeOK
  <1>6. walker' = u => pc'[u] = "rescan" BY DEF IInv, TypeOK, WalkerOK
  <1>7. charged'[u] <= charged[u] BY HandlerType
  <1>8. used' + held[u] = used + held'[u] BY <1>5
  <1>9. /\ walker' \in {walker, None}
        /\ rescans' >= rescans /\ leaks' >= leaks
    BY Constants DEF IInv, TypeOK
  <1> QED BY <1>1, <1>2, <1>3, <1>4, <1>6, <1>7, <1>8, <1>9, HandlerStep

\* The handler removes its own file.
LEMMA RemoveInv ==
    ASSUME IInv, NEW u \in Upload, Remove(u)
    PROVE IInv'
  <1> USE DEF Remove, Goto, walk
  <1>1. TypeOK' BY Constants, HandlerType DEF IInv, TypeOK, PC
  <1>2. OthersStay(u) BY DEF OthersStay, IInv, TypeOK
  <1>3. ChunkFits(u) BY HandlerType, Constants DEF ChunkFits, IInv, TypeOK, ChunkOK, PC
  <1>4. leaks' = 0 => FileStays(u) BY HandlerType, Constants DEF FileStays, IInv, TypeOK, FilesOK, PC
  <1>5. held'[u] = held[u]
    BY HandlerType DEF held, IInv, TypeOK
  <1>6. walker' = u => pc'[u] = "rescan" BY DEF IInv, TypeOK, WalkerOK
  <1>7. charged'[u] <= charged[u] BY HandlerType
  <1>8. used' + held[u] = used + held'[u] BY <1>5
  <1>9. /\ walker' \in {walker, None}
        /\ rescans' >= rescans /\ leaks' >= leaks
    BY Constants DEF IInv, TypeOK
  <1> QED BY <1>1, <1>2, <1>3, <1>4, <1>6, <1>7, <1>8, <1>9, HandlerStep

\* A file is left behind: only with a failure.
LEMMA LeakInv ==
    ASSUME IInv, NEW u \in Upload, Leak(u)
    PROVE IInv'
  <1> USE DEF Leak, Goto, walk
  <1>1. TypeOK' BY Constants, HandlerType DEF IInv, TypeOK, PC
  <1>2. OthersStay(u) BY DEF OthersStay, IInv, TypeOK
  <1>3. ChunkFits(u) BY HandlerType, Constants DEF ChunkFits, IInv, TypeOK, ChunkOK, PC
  <1>4. leaks' = 0 => FileStays(u) BY HandlerType, Constants DEF FileStays, IInv, TypeOK, FilesOK, PC
  <1>5. held'[u] = held[u]
    BY HandlerType DEF held, IInv, TypeOK
  <1>6. walker' = u => pc'[u] = "rescan" BY DEF IInv, TypeOK, WalkerOK
  <1>7. charged'[u] <= charged[u] BY HandlerType
  <1>8. used' + held[u] = used + held'[u] BY <1>5
  <1>9. /\ walker' \in {walker, None}
        /\ rescans' >= rescans /\ leaks' >= leaks
    BY Constants DEF IInv, TypeOK
  <1> QED BY <1>1, <1>2, <1>3, <1>4, <1>6, <1>7, <1>8, <1>9, HandlerStep

\* The pipeline removes the file it has.
LEMMA PipelineRemovesInv ==
    ASSUME IInv, NEW u \in Upload, PipelineRemoves(u)
    PROVE IInv'
  <1> USE DEF PipelineRemoves, Goto, walk
  <1>1. TypeOK' BY Constants, HandlerType DEF IInv, TypeOK, PC
  <1>2. OthersStay(u) BY DEF OthersStay, IInv, TypeOK
  <1>3. ChunkFits(u) BY HandlerType, Constants DEF ChunkFits, IInv, TypeOK, ChunkOK, PC
  <1>4. leaks' = 0 => FileStays(u) BY HandlerType, Constants DEF FileStays, IInv, TypeOK, FilesOK, PC
  <1>5. held'[u] = held[u]
    BY HandlerType DEF held, IInv, TypeOK
  <1>6. walker' = u => pc'[u] = "rescan" BY DEF IInv, TypeOK, WalkerOK
  <1>7. charged'[u] <= charged[u] BY HandlerType
  <1>8. used' + held[u] = used + held'[u] BY <1>5
  <1>9. /\ walker' \in {walker, None}
        /\ rescans' >= rescans /\ leaks' >= leaks
    BY Constants DEF IInv, TypeOK
  <1> QED BY <1>1, <1>2, <1>3, <1>4, <1>6, <1>7, <1>8, <1>9, HandlerStep

\* The handler hears of its file when the file is gone.
LEMMA PipelineRepliesInv ==
    ASSUME IInv, NEW u \in Upload, PipelineReplies(u)
    PROVE IInv'
  <1> USE DEF PipelineReplies, Goto, walk
  <1>1. TypeOK' BY Constants, HandlerType DEF IInv, TypeOK, PC
  <1>2. OthersStay(u) BY DEF OthersStay, IInv, TypeOK
  <1>3. ChunkFits(u) BY HandlerType, Constants DEF ChunkFits, IInv, TypeOK, ChunkOK, PC
  <1>4. leaks' = 0 => FileStays(u) BY HandlerType, Constants DEF FileStays, IInv, TypeOK, FilesOK, PC
  <1>5. held'[u] = held[u]
    BY HandlerType DEF held, IInv, TypeOK
  <1>6. walker' = u => pc'[u] = "rescan" BY DEF IInv, TypeOK, WalkerOK
  <1>7. charged'[u] <= charged[u] BY HandlerType
  <1>8. used' + held[u] = used + held'[u] BY <1>5
  <1>9. /\ walker' \in {walker, None}
        /\ rescans' >= rescans /\ leaks' >= leaks
    BY Constants DEF IInv, TypeOK
  <1> QED BY <1>1, <1>2, <1>3, <1>4, <1>6, <1>7, <1>8, <1>9, HandlerStep

\* A handler that does not walk itself.
LEMMA SkipRescanInv ==
    ASSUME IInv, NEW u \in Upload, SkipRescan(u)
    PROVE IInv'
  <1> USE DEF SkipRescan, Goto, walk
  <1>1. TypeOK' BY Constants, HandlerType DEF IInv, TypeOK, PC
  <1>2. OthersStay(u) BY DEF OthersStay, IInv, TypeOK
  <1>3. ChunkFits(u) BY HandlerType, Constants DEF ChunkFits, IInv, TypeOK, ChunkOK, PC
  <1>4. leaks' = 0 => FileStays(u) BY HandlerType, Constants DEF FileStays, IInv, TypeOK, FilesOK, PC
  <1>5. held'[u] = held[u]
    BY HandlerType DEF held, IInv, TypeOK
  <1>6. walker' = u => pc'[u] = "rescan" BY DEF IInv, TypeOK, WalkerOK
  <1>7. charged'[u] <= charged[u] BY HandlerType
  <1>8. used' + held[u] = used + held'[u] BY <1>5
  <1>9. /\ walker' \in {walker, None}
        /\ rescans' >= rescans /\ leaks' >= leaks
    BY Constants DEF IInv, TypeOK
  <1> QED BY <1>1, <1>2, <1>3, <1>4, <1>6, <1>7, <1>8, <1>9, HandlerStep

\* What try_add charges is within the limit, and the counter does not wrap around.
LEMMA TryAddInv ==
    ASSUME IInv, NEW u \in Upload, TryAdd(u)
    PROVE IInv'
  <1> USE DEF TryAdd, Goto, walk
  <1>1. /\ chunk[u] \in Nat /\ charged[u] \in Nat /\ size[u] \in Nat /\ held[u] = charged[u]
        /\ charged[u] <= MaxBytes /\ pc[u] \in {"add", "retry"}
    BY HandlerType
  <1>2. charged[u] + chunk[u] \in 0..MaxBytes /\ size[u] <= charged[u]
    BY <1>1, Constants DEF IInv, ChunkOK
  <1>3. used \in 0..Word - 1 /\ Word \in Nat \ {0} BY Constants DEF IInv, TypeOK
  <1>4. used' \in 0..Word - 1
    <2>1. used + chunk[u] \in Int BY <1>1, <1>3
    <2> QED BY <2>1, Modulo
  <1>5. TypeOK'
    <2>1. pc' \in [Upload -> PC] BY DEF IInv, TypeOK, PC
    <2>2. charged' \in [Upload -> 0..MaxBytes] BY <1>2 DEF IInv, TypeOK
    <2> QED BY <1>4, <2>1, <2>2 DEF IInv, TypeOK
  <1>6. OthersStay(u) BY DEF OthersStay, IInv, TypeOK
  <1>7. rescans = 0 => used' = used + chunk[u]
    <2> SUFFICES ASSUME rescans = 0 PROVE used' = used + chunk[u] OBVIOUS
    <2>1. used + chunk[u] \in 0..Word - 1 BY <1>1, AddFits
    <2> QED BY <2>1, Modulo
  <1>8. walker' \in {walker, None} /\ rescans' = rescans /\ leaks' = leaks OBVIOUS
  <1>9. walker' = u => pc'[u] = "rescan" BY <1>1 DEF IInv, TypeOK, WalkerOK
  <1>10. rescans \in Nat /\ leaks \in Nat BY Constants DEF IInv, TypeOK
  <1>11. CASE used + chunk[u] <= Limit /\ charged' = [charged EXCEPT ![u] = @ + chunk[u]]
              /\ pc' = [pc EXCEPT ![u] = "write"]
    <2>1. charged'[u] = charged[u] + chunk[u] /\ pc'[u] = "write"
      BY <1>11 DEF IInv, TypeOK
    <2>2. ChunkFits(u) BY <1>1, <1>2, <2>1 DEF ChunkFits
    <2>3. leaks' = 0 => FileStays(u)
      BY <1>1, <1>2, <2>1, Constants DEF FileStays, IInv, TypeOK, FilesOK
    <2>4. held'[u] = charged[u] + chunk[u] BY <2>1, <1>1 DEF held
    <2>5. rescans' = 0 => used' + held[u] = used + held'[u]
      BY <1>1, <1>3, <1>7, <1>8, <2>4
    <2>6. used' <= Limit
      <3>1. Limit < Word /\ Limit \in Nat BY Constants
      <3>2. used + chunk[u] \in 0..Word - 1 BY <1>1, <1>3, <1>11, <3>1
      <3> QED BY <1>11, <3>2, Modulo
    <2> QED BY <1>5, <1>6, <1>8, <1>9, <1>10, <2>2, <2>3, <2>5, <2>6, HandlerStep
  <1>12. CASE charged' = charged /\ pc' = [pc EXCEPT ![u] = IF pc[u] = "add" THEN "undo" ELSE "refuse"]
    <2>1. charged'[u] = charged[u] /\ pc'[u] \in {"undo", "refuse"}
      BY <1>12 DEF IInv, TypeOK
    <2>2. ChunkFits(u) BY <1>1, <1>2, <2>1 DEF ChunkFits
    <2>3. leaks' = 0 => FileStays(u)
      BY <1>1, <1>2, <2>1, Constants DEF FileStays, IInv, TypeOK, FilesOK
    <2>4. held'[u] = charged[u] + chunk[u] BY <2>1, <1>1 DEF held
    <2>5. rescans' = 0 => used' + held[u] = used + held'[u]
      BY <1>1, <1>3, <1>7, <1>8, <2>4
    <2> QED BY <1>1, <1>5, <1>6, <1>8, <1>9, <1>10, <2>1, <2>2, <2>3, <2>5, HandlerStep
  <1> QED BY <1>11, <1>12

\* A try_add that failed takes back exactly the chunk it added.
LEMMA RollBackInv ==
    ASSUME IInv, NEW u \in Upload, RollBack(u)
    PROVE IInv'
  <1> USE DEF RollBack, Goto, walk
  <1>1. /\ chunk[u] \in Nat /\ charged[u] \in Nat /\ size[u] \in Nat
        /\ held[u] = charged[u] + chunk[u] /\ pc[u] \in {"undo", "refuse"}
    BY HandlerType
  <1>2. used' \in 0..Word - 1 BY <1>1, SubType
  <1>3. TypeOK' BY <1>2 DEF IInv, TypeOK, PC
  <1>4. OthersStay(u) BY DEF OthersStay, IInv, TypeOK
  <1>5. pc'[u] \in {"rescan", "remove"} /\ charged'[u] = charged[u] BY DEF IInv, TypeOK
  <1>6. ChunkFits(u) BY <1>1, <1>5, Constants DEF ChunkFits, IInv, TypeOK, ChunkOK
  <1>7. leaks' = 0 => FileStays(u)
    BY <1>1, <1>5, Constants DEF FileStays, IInv, TypeOK, FilesOK
  <1>8. held'[u] = charged[u] BY <1>1, <1>5 DEF held
  <1>9. rescans' = 0 => used' + held[u] = used + held'[u]
    <2> SUFFICES ASSUME rescans = 0 PROVE used' + held[u] = used + held'[u] OBVIOUS
    <2>1. chunk[u] <= held[u] BY <1>1
    <2>2. used' + chunk[u] = used BY <1>1, <2>1, SubHeld
    <2>3. used \in Int /\ used' \in Int BY <1>2, Constants DEF IInv, TypeOK
    <2> QED BY <1>1, <1>8, <2>2, <2>3
  <1>10. walker' = u => pc'[u] = "rescan" BY <1>1 DEF IInv, TypeOK, WalkerOK
  <1>11. rescans' >= rescans /\ leaks' >= leaks BY Constants DEF IInv, TypeOK
  <1> QED BY <1>1, <1>3, <1>4, <1>5, <1>6, <1>7, <1>9, <1>10, <1>11, HandlerStep

\* A handler that ends gives back its reservation, whatever it gives up.
LEMMA Released ==
    ASSUME IInv, NEW u \in Upload, TypeOK', OthersStay(u), pc[u] \notin {"undo", "refuse"},
           Sub(charged[u]), charged' = [charged EXCEPT ![u] = 0], pc' = [pc EXCEPT ![u] = "done"],
           walker' \in {walker, None}, walker' # u, rescans' = rescans, leaks' >= leaks,
           leaks' = 0 => FileStays(u)
    PROVE IInv'
  <1>1. charged[u] \in Nat /\ held[u] = charged[u] BY HandlerType
  <1>2. pc'[u] = "done" /\ charged'[u] = 0 BY DEF IInv, TypeOK
  <1>3. ChunkFits(u) BY <1>2 DEF ChunkFits
  <1>4. held'[u] = 0 BY <1>2 DEF held
  <1>5. rescans' = 0 => used' + held[u] = used + held'[u]
    <2> SUFFICES ASSUME rescans = 0 PROVE used' + held[u] = used + held'[u] OBVIOUS
    <2>1. used' + charged[u] = used BY <1>1, SubHeld
    <2>2. used \in Int /\ used' \in Int BY Constants DEF IInv, TypeOK
    <2> QED BY <1>1, <1>4, <2>1, <2>2
  <1>6. rescans' >= rescans BY Constants DEF IInv, TypeOK
  <1> QED BY <1>1, <1>2, <1>3, <1>5, <1>6, HandlerStep

LEMMA DropInv ==
    ASSUME IInv, NEW u \in Upload, Drop(u)
    PROVE IInv'
  <1> USE DEF Drop, Goto, walk
  <1>1. used' \in 0..Word - 1
    <2>1. charged[u] \in Int BY HandlerType
    <2> QED BY <2>1, SubType
  <1>2. TypeOK' BY <1>1, Constants DEF IInv, TypeOK, PC
  <1>3. OthersStay(u) BY DEF OthersStay, IInv, TypeOK
  <1>4. leaks' = 0 => FileStays(u)
    BY HandlerType, Constants DEF FileStays, IInv, TypeOK, FilesOK
  <1>5. walker' # u BY Constants DEF IInv, TypeOK, WalkerOK
  <1>6. leaks' >= leaks BY Constants DEF IInv, TypeOK
  <1> QED BY <1>2, <1>3, <1>4, <1>5, <1>6, Released

LEMMA HangUpInv ==
    ASSUME IInv, NEW u \in Upload, HangUp(u)
    PROVE IInv'
  <1> USE DEF HangUp, Goto
  <1>1. used' \in 0..Word - 1
    <2>1. charged[u] \in Int BY HandlerType
    <2> QED BY <2>1, SubType
  <1>2. TypeOK'
    <2>1. size' \in [Upload -> 0..MaxBytes] /\ stray' \in Nat
      BY HandlerType, Constants DEF IInv, TypeOK
    <2>2. pc' \in [Upload -> PC] /\ charged' \in [Upload -> 0..MaxBytes] /\ leaks' \in 0..MaxLeaks
      BY Constants DEF IInv, TypeOK, PC
    <2> QED BY <1>1, <2>1, <2>2 DEF IInv, TypeOK
  <1>3. OthersStay(u) BY DEF OthersStay, IInv, TypeOK
  <1>4. walker' # u /\ walker' \in {walker, None} BY Constants DEF IInv, TypeOK
  <1>5. pc[u] \notin {"undo", "refuse"} /\ rescans' = rescans OBVIOUS
  <1>6. leaks' >= leaks /\ (leaks' = 0 => FileStays(u))
    <2>1. CASE pc[u] = "pipeline"
      <3>1. leaks' = leaks /\ stray' = stray /\ size' = size /\ owned' = owned /\ pc'[u] = "done"
        BY <2>1 DEF IInv, TypeOK
      <3> QED BY <2>1, <3>1, Constants DEF FileStays, IInv, TypeOK, FilesOK
    <2>2. CASE pc[u] # "pipeline"
      <3>1. leaks' # 0 /\ leaks' >= leaks BY <2>2, Constants DEF IInv, TypeOK
      <3> QED BY <3>1
    <2> QED BY <2>1, <2>2
  <1> QED BY <1>2, <1>3, <1>4, <1>5, <1>6, Released

-----------------------------------------------------------------------------
(* The walks.                                                              *)

\* From here on the counter is no longer that of the charges.
LEMMA StartRescanInv ==
    ASSUME IInv, NEW u \in Upload, StartRescan(u)
    PROVE IInv'
  <1> USE DEF StartRescan
  <1>1. TypeOK' BY Constants DEF IInv, TypeOK
  <1>2. rescans' > 0 /\ rescans' >= rescans /\ leaks' >= leaks BY Constants DEF IInv, TypeOK
  <1>3. OthersStay(u) BY DEF OthersStay
  <1>4. ChunkFits(u) BY DEF ChunkFits, IInv, ChunkOK
  <1>5. leaks' = 0 => FileStays(u) BY Constants DEF FileStays, IInv, TypeOK, FilesOK
  <1> QED BY <1>1, <1>2, <1>3, <1>4, <1>5, HandlerStep

LEMMA EndOfWalk ==
    ASSUME IInv, NEW u \in Upload, walker = u, used' \in 0..Word - 1, pc' = [pc EXCEPT ![u] = "retry"],
           walker' = None, cooled' = FALSE, pre' = 0, unread' = {}, found' = 0,
           UNCHANGED <<chunk, charged, size, stray, owned, rescans, leaks>>
    PROVE IInv'
  <1>1. TypeOK'
    <2>1. 0 \in 0..Word - 1 BY Constants
    <2>2. pc' \in [Upload -> PC] BY DEF IInv, TypeOK, PC
    <2> QED BY <2>1, <2>2 DEF IInv, TypeOK
  <1>2. pc[u] = "rescan" /\ rescans' # 0 BY Constants DEF IInv, WalkerOK
  <1>3. OthersStay(u) BY DEF OthersStay, IInv, TypeOK
  <1>4. ChunkFits(u) BY <1>2 DEF ChunkFits, IInv, TypeOK, ChunkOK
  <1>5. leaks' = 0 => FileStays(u) BY <1>2, Constants DEF FileStays, IInv, TypeOK, FilesOK
  <1>6. rescans' >= rescans /\ leaks' >= leaks /\ walker' # u BY Constants DEF IInv, TypeOK
  <1> QED BY <1>1, <1>2, <1>3, <1>4, <1>5, <1>6, HandlerStep

LEMMA EndRescanInv ==
    ASSUME IInv, NEW u \in Upload, EndRescan(u)
    PROVE IInv'
  <1>1. used' \in 0..Word - 1
    <2>1. pre - found \in Int BY Constants DEF IInv, TypeOK
    <2> QED BY <2>1, SubType DEF EndRescan, IInv, TypeOK
  <1> QED BY <1>1, EndOfWalk DEF EndRescan, Goto

LEMMA RescanFailsInv ==
    ASSUME IInv, NEW u \in Upload, RescanFails(u)
    PROVE IInv'
  <1>1. used' \in 0..Word - 1 BY DEF RescanFails, IInv, TypeOK
  <1> QED BY <1>1, EndOfWalk DEF RescanFails, Goto

-----------------------------------------------------------------------------
(* The invariant.                                                          *)

LEMMA InitInv == Init => IInv
  <1> SUFFICES ASSUME Init PROVE IInv OBVIOUS
  <1> USE DEF Init
  <1>1. Word \in Nat /\ Word > 0 /\ Leftover \in Nat /\ MaxBytes \in Nat BY Constants
  <1>2. TypeOK
    <2>1. Leftover \in 0..Word - 1 BY LeftoverFits
    <2>2. 0 \in 0..Word - 1 BY <1>1
    <2>3. 0 \in 0..MaxBytes /\ 0 \in 0..MaxLeaks /\ 0 \in 0..MaxRescans BY Constants
    <2>4. used \in 0..Word - 1 /\ pre \in 0..Word - 1 BY <2>1, <2>2
    <2>5. /\ pc \in [Upload -> PC] /\ chunk \in [Upload -> Chunk \cup {0}]
          /\ charged \in [Upload -> 0..MaxBytes] /\ size \in [Upload -> 0..MaxBytes]
      BY <2>3 DEF PC
    <2>6. leaks \in 0..MaxLeaks /\ rescans \in 0..MaxRescans BY <2>3
    <2>7. stray \in Nat /\ found \in Nat BY <1>1
    <2> QED BY <2>4, <2>5, <2>6, <2>7 DEF TypeOK
  <1>3. ChunkOK BY DEF ChunkOK
  <1>4. WalkerOK BY Constants DEF WalkerOK
  <1>5. CounterOK
    <2>1. \A u \in Upload : held[u] = 0 BY DEF held
    <2>2. held \in Sizes BY <1>1 DEF held, Sizes
    <2>3. Total(held) = 0 BY <2>1, <2>2, TotalZero
    <2> QED BY <1>1, <2>3 DEF CounterOK
  <1>6. FilesOK BY <1>1 DEF FilesOK
  <1>7. LimitOK BY DEF LimitOK
  <1> QED BY <1>2, <1>3, <1>4, <1>5, <1>6, <1>7 DEF IInv

LEMMA NextInv == IInv /\ [Next]_vars => IInv'
  <1> SUFFICES ASSUME IInv, [Next]_vars PROVE IInv' OBVIOUS
  <1>1. CASE UNCHANGED vars
    <2>1. TypeOK' BY <1>1 DEF vars, walk, IInv, TypeOK
    <2>2. stray' <= stray BY <1>1 DEF vars, IInv, TypeOK
    <2> QED BY <1>1, <2>1, <2>2, Unmoved DEF vars, walk
  <1>2. ASSUME NEW u \in Upload, Receive(u) PROVE IInv'
    BY <1>2, BeginInv, ReadChunkInv, TryAddInv, RollBackInv, WriteInv, BodyEndsInv, SubmitInv,
       RemoveInv, LeakInv, DropInv, HangUpInv, PipelineRemovesInv, PipelineRepliesInv
    DEF Receive
  <1>3. ASSUME NEW u \in Upload, Rescan(u) PROVE IInv'
    BY <1>3, SkipRescanInv, StartRescanInv, EndRescanInv, RescanFailsInv DEF Rescan
  <1>4. ASSUME NEW f \in Upload \cup {None}, StatFile(f) PROVE IInv'
    <2>1. found' \in Nat
      <3>1. found \in Nat /\ stray \in Nat /\ (f # None => size[f] \in Nat)
        BY HandlerType DEF IInv, TypeOK
      <3> QED BY <1>4, <3>1 DEF StatFile
    <2>2. TypeOK' BY <1>4, <2>1 DEF StatFile, IInv, TypeOK
    <2>3. stray' <= stray BY <1>4 DEF StatFile, IInv, TypeOK
    <2> QED BY <1>4, <2>2, <2>3, Unmoved DEF StatFile
  <1>5. CASE Cool
    <2>1. TypeOK' BY <1>5 DEF Cool, IInv, TypeOK
    <2>2. stray' <= stray BY <1>5 DEF Cool, IInv, TypeOK
    <2> QED BY <1>5, <2>1, <2>2, Unmoved DEF Cool
  <1>6. CASE Janitor
    <2>1. TypeOK' BY <1>6 DEF Janitor, walk, IInv, TypeOK
    <2>2. stray' <= stray BY <1>6 DEF Janitor, IInv, TypeOK
    <2> QED BY <1>6, <2>1, <2>2, Unmoved DEF Janitor, walk
  <1> QED BY <1>1, <1>2, <1>3, <1>4, <1>5, <1>6 DEF Next

LEMMA Invariant == Spec => []IInv
  BY InitInv, NextInv, PTL DEF Spec

-----------------------------------------------------------------------------
(* The theorems.                                                           *)

\* Every variable keeps its type: the counter stays within its word, and no reservation
\* exceeds what an upload may send (storage/src/routes/upload.rs).
THEOREM TypeCorrect == Spec => []TypeOK
  BY Invariant, PTL DEF IInv

\* For any number of uploads, chunks and bytes: as long as no file is left to nobody and
\* the counter is not reconciled, the directory stays within tmp_max_bytes, or within what
\* it held when the service started, but for the files of clients that hung up while the
\* pipeline had them.  A chunk is charged before it is written, so what a handler has on
\* disk is at most what it has charged, and the last chunk charged was within the limit.
THEOREM TheQuotaHolds == Spec => []QuotaHolds
  <1>1. IInv => QuotaHolds
    <2> SUFFICES ASSUME IInv, leaks = 0, rescans = 0
                 PROVE stray + Total(Attended) <= Limit \/ stray + Total(Attended) <= Leftover
      BY DEF QuotaHolds
    <2>1. charged \in Sizes /\ Attended \in Sizes
      BY HeldType, Constants DEF IInv, TypeOK, Sizes, Attended
    <2>2. Total(Attended) <= Total(charged)
      <3>1. ASSUME NEW u \in Upload PROVE Attended[u] <= charged[u]
        <4>1. charged[u] \in Nat /\ size[u] \in Nat BY HandlerType
        <4>2. CASE pc[u] = "done"
          <5>1. Attended[u] = 0 BY <4>2 DEF Attended, IInv, FilesOK
          <5> QED BY <4>1, <5>1
        <4>3. CASE pc[u] # "done" BY <4>3 DEF Attended, IInv, FilesOK
        <4> QED BY <4>2, <4>3
      <3> QED BY <2>1, <3>1, TotalGrows
    <2>3. Total(Attended) \in Nat /\ Total(charged) \in Nat BY <2>1, TotalType
    <2>4. stray \in Nat /\ stray <= Leftover BY DEF IInv, TypeOK, FilesOK
    <2>5. Leftover \in Nat /\ Limit \in Nat BY Constants
    <2>6. CASE Leftover + Total(charged) <= Limit BY <2>2, <2>3, <2>4, <2>5, <2>6
    <2>7. CASE \A u \in Upload : charged[u] = 0
      <3>1. Total(charged) = 0 BY <2>1, <2>7, TotalZero
      <3> QED BY <2>2, <2>3, <2>4, <2>5, <3>1
    <2> QED BY <2>6, <2>7 DEF IInv, LimitOK
  <1> QED BY <1>1, Invariant, PTL

\* Whatever ways the handlers take out, failures and hang-ups included, all that was
\* charged has been credited when they have ended (TmpReservation::drop and the roll-back
\* of try_add, storage/src/routes/upload.rs), unless the counter was reconciled.
THEOREM ChargesComeBack == Spec => []ChargesAreCredited
  <1>1. IInv => ChargesAreCredited
    <2> SUFFICES ASSUME IInv, \A u \in Upload : pc[u] \in {"idle", "done"}, rescans = 0
                 PROVE used = Leftover
      BY DEF ChargesAreCredited
    <2>1. \A u \in Upload : held[u] = 0 BY HandlerType DEF IInv, ChunkOK
    <2>2. Total(held) = 0 BY <2>1, HeldType, TotalZero
    <2> QED BY <2>2, Constants DEF IInv, CounterOK
  <1> QED BY <1>1, Invariant, PTL

=============================================================================
