---------------------------- MODULE Office_proofs ----------------------------
(***************************************************************************)
(* Proofs about two of the firm's books.                                   *)
(*                                                                         *)
(* The trust account (TrustLedger): the audit chain vouches for its rows,  *)
(* and reconciliations add up.  They rest on facts about sums over finite  *)
(* sets, which come first.                                                 *)
(*                                                                         *)
(* The office (Office): every part keeps an inductive invariant of its     *)
(* own, a handler leaves the records of the other parts alone (HurtsOnly), *)
(* and OfficeInv is the conjunction.                                       *)
(***************************************************************************)
EXTENDS Office, TrustLedger, FiniteSetTheorems, SequenceTheorems,
        WellFoundedInduction, TLAPS

Less == OpToRel(<, Nat)

(* A set of natural numbers that is not empty has a least one.             *)
LEMMA LeastExists ==
  ASSUME NEW S \in SUBSET Nat, S # {}
  PROVE  \E m \in S : \A k \in S : m <= k
<1>1. \A x, y \in Nat : x < y => <<x, y>> \in Less
  BY DEF Less, OpToRel
<1>2. IsWellFoundedOn(Less, Nat)
  BY NatLessThanWellFounded DEF Less
<1>3. S \subseteq Nat
  OBVIOUS
<1>4. PICK m \in S : \A k \in S : ~ (<<k, m>> \in Less)
  BY <1>2, <1>3, WFMin
<1>5. \A k \in S : m <= k
  <2>1. ASSUME NEW k \in S PROVE m <= k
    <3>1. k \in Nat /\ m \in Nat /\ ~(k < m)
      BY <1>1, <1>3, <1>4
    <3>2. QED
      BY <3>1
  <2>2. QED
    BY <2>1
<1>6. QED
  BY <1>5

(* A family of subsets of a finite set that has every set of which it has  *)
(* all smaller ones has them all.                                          *)
LEMMA SmallerFirst ==
  ASSUME NEW D, IsFiniteSet(D), NEW Q,
         \A s \in SUBSET D : (\A r \in SUBSET s : r # s => r \in Q) => s \in Q
  PROVE  \A s \in SUBSET D : s \in Q
<1> SUFFICES ASSUME NEW t \in SUBSET D, t \notin Q PROVE FALSE
  OBVIOUS
<1> DEFINE N == {Cardinality(s) : s \in {u \in SUBSET D : u \notin Q}}
<1>1. \A s \in SUBSET D : IsFiniteSet(s) /\ Cardinality(s) \in Nat
  BY FS_Subset, FS_CardinalityType
<1>2. N \in SUBSET Nat /\ N # {}
  BY <1>1
<1>3. PICK m \in N : \A k \in N : m <= k
  BY <1>2, LeastExists
<1>4. PICK s \in SUBSET D : s \notin Q /\ m = Cardinality(s)
  BY <1>3
<1>5. ASSUME NEW r \in SUBSET s, r # s PROVE r \in Q
  <2>1. Cardinality(r) < Cardinality(s) /\ r \in SUBSET D
    BY <1>1, <1>5, FS_Subset
  <2>2. Cardinality(r) \in Nat /\ Cardinality(s) \in Nat
    BY <1>1, <2>1
  <2>3. QED
    BY <1>3, <1>4, <2>1, <2>2
<1>6. QED
  BY <1>4, <1>5

-----------------------------------------------------------------------------

(* The sum of the values of f on a set, as the library folds it.           *)
SumOf(f, S) == MapThenSumSet(LAMBDA b : f[b], S)

First(s) == CHOOSE x \in s : TRUE

Folded(f, g, s) == IF s = {} THEN 0 ELSE f[First(s)] + g[s \ {First(s)}]

IsFold(f, g, S) == g = [s \in SUBSET S |-> Folded(f, g, s)]

(* The library's sum of a set is what a folding of it gives.               *)
LEMMA SumIsAFold == ASSUME NEW f, NEW S PROVE SumOf(f, S) = (CHOOSE g : IsFold(f, g, S))[S]
BY DEF SumOf, MapThenSumSet, MapThenFoldSet, IsFold, Folded, First

LEMMA FirstIsIn == ASSUME NEW s, s # {} PROVE First(s) \in s
BY DEF First

(* Two foldings agree on every set both are defined for.                   *)
LEMMA FoldsAgree ==
  ASSUME NEW f, NEW S, NEW T, IsFiniteSet(S), NEW g, NEW h, IsFold(f, g, S), IsFold(f, h, T),
         NEW t \in SUBSET S, t \in SUBSET T
  PROVE  g[t] = h[t]
<1> DEFINE Q == {s \in SUBSET t : g[s] = h[s]}
<1>1. IsFiniteSet(t)
  BY FS_Subset
<1>2. ASSUME NEW s \in SUBSET t, \A r \in SUBSET s : r # s => r \in Q PROVE s \in Q
  <2>1. g[s] = Folded(f, g, s) /\ h[s] = Folded(f, h, s)
    BY DEF IsFold
  <2>2. CASE s = {}
    BY <2>1, <2>2 DEF Folded
  <2>3. CASE s # {}
    <3>1. s \ {First(s)} \in SUBSET s /\ s \ {First(s)} # s
      BY <2>3, FirstIsIn
    <3>2. s \ {First(s)} \in Q
      BY <1>2, <3>1
    <3>3. QED
      BY <2>1, <2>3, <3>2 DEF Folded
  <2>4. QED
    BY <2>2, <2>3
<1> HIDE DEF Q
<1>3. t \in Q
  BY <1>1, <1>2, SmallerFirst
<1>4. QED
  BY <1>3 DEF Q

(* A finite set has a folding.                                             *)
LEMMA FoldExists ==
  ASSUME NEW f, NEW D, IsFiniteSet(D)
  PROVE  \A S \in SUBSET D : \E g : IsFold(f, g, S)
<1> DEFINE Q == {S \in SUBSET D : \E g : IsFold(f, g, S)}
<1>1. ASSUME NEW S \in SUBSET D, \A r \in SUBSET S : r # S => r \in Q PROVE S \in Q
  <2> DEFINE Iter(s) == CHOOSE g : IsFold(f, g, s)
             g == [s \in SUBSET S |-> IF s = {} THEN 0
                     ELSE f[First(s)] + Iter(s \ {First(s)})[s \ {First(s)}]]
  <2>1. ASSUME NEW s \in SUBSET S, s # S PROVE IsFold(f, Iter(s), s)
    BY <1>1, <2>1
  <2>2. \A s \in SUBSET S : IsFiniteSet(s)
    BY FS_Subset
  <2> HIDE DEF Iter
  <2>3. ASSUME NEW s \in SUBSET S, s # S PROVE g[s] = Iter(s)[s]
    <3>1. IsFold(f, Iter(s), s)
      BY <2>1, <2>3
    <3>2. Iter(s)[s] = Folded(f, Iter(s), s)
      BY <3>1 DEF IsFold
    <3>3. CASE s = {}
      BY <3>2, <3>3 DEF Folded
    <3>4. CASE s # {}
      <4> DEFINE r == s \ {First(s)}
      <4>1. r \in SUBSET s /\ r \in SUBSET S /\ r # S
        BY <3>4, FirstIsIn
      <4>2. IsFold(f, Iter(r), r)
        BY <2>1, <4>1
      <4>3. Iter(r)[r] = Iter(s)[r]
        <5>1. IsFiniteSet(s)
          BY <2>2
        <5> HIDE DEF g, r
        <5>2. QED
          BY <3>1, <4>1, <4>2, <5>1, FoldsAgree
      <4>4. QED
        BY <3>2, <3>4, <4>3 DEF Folded
    <3>5. QED
      BY <3>3, <3>4
  <2>4. ASSUME NEW s \in SUBSET S PROVE g[s] = Folded(f, g, s)
    <3>1. CASE s = {}
      BY <3>1 DEF Folded
    <3>2. CASE s # {}
      <4>1. s \ {First(s)} \in SUBSET S /\ s \ {First(s)} # S
        BY <3>2, FirstIsIn
      <4>2. g[s \ {First(s)}] = Iter(s \ {First(s)})[s \ {First(s)}]
        BY <2>3, <4>1
      <4>3. g[s] = f[First(s)] + Iter(s \ {First(s)})[s \ {First(s)}]
        BY <3>2
      <4> HIDE DEF g
      <4>4. QED
        BY <3>2, <4>2, <4>3 DEF Folded
    <3>3. QED
      BY <3>1, <3>2
  <2>5. g = [s \in SUBSET S |-> g[s]]
    OBVIOUS
  <2> HIDE DEF g
  <2>6. IsFold(f, g, S)
    BY <2>4, <2>5 DEF IsFold
  <2>7. QED
    BY <2>6
<1> HIDE DEF Q
<1>2. \A S \in SUBSET D : S \in Q
  BY <1>1, SmallerFirst
<1>3. QED
  BY <1>2 DEF Q

(* What the fold does: nothing of an empty set; of another, the value of   *)
(* one element and the sum of the rest.                                    *)
LEMMA SumUnfolds ==
  ASSUME NEW f, NEW S, IsFiniteSet(S)
  PROVE  SumOf(f, S) = IF S = {} THEN 0 ELSE f[First(S)] + SumOf(f, S \ {First(S)})
<1> DEFINE Iter(s) == CHOOSE g : IsFold(f, g, s)
<1>1. \A s \in SUBSET S : IsFold(f, Iter(s), s)
  BY FoldExists
<1>2. \A s \in SUBSET S : SumOf(f, s) = Iter(s)[s]
  BY SumIsAFold
<1> HIDE DEF Iter
<1>3. Iter(S)[S] = Folded(f, Iter(S), S)
  BY <1>1 DEF IsFold
<1>4. CASE S = {}
  BY <1>2, <1>3, <1>4 DEF Folded
<1>5. CASE S # {}
  <2> DEFINE r == S \ {First(S)}
  <2>1. r \in SUBSET S /\ r \in SUBSET r /\ S \in SUBSET S
    OBVIOUS
  <2>2. Iter(r)[r] = Iter(S)[r]
    BY <1>1, <2>1, FS_Subset, FoldsAgree
  <2>3. QED
    BY <1>2, <1>3, <1>5, <2>1, <2>2 DEF Folded
<1>6. QED
  BY <1>4, <1>5

(* A sum of integers is one.                                               *)
LEMMA SumIsInt ==
  ASSUME NEW D, IsFiniteSet(D), NEW f \in [D -> Int]
  PROVE  \A S \in SUBSET D : SumOf(f, S) \in Int
<1> DEFINE Q == {S \in SUBSET D : SumOf(f, S) \in Int}
<1>1. ASSUME NEW s \in SUBSET D, \A r \in SUBSET s : r # s => r \in Q PROVE s \in Q
  <2>1. IsFiniteSet(s)
    BY FS_Subset
  <2>2. CASE s = {}
    BY <2>1, <2>2, SumUnfolds
  <2>3. CASE s # {}
    <3>1. First(s) \in s /\ s \ {First(s)} \in SUBSET s /\ s \ {First(s)} # s
      BY <2>3, FirstIsIn
    <3>2. f[First(s)] \in Int /\ SumOf(f, s \ {First(s)}) \in Int
      BY <1>1, <3>1
    <3>3. SumOf(f, s) \in Int
      BY <2>1, <2>3, <3>2, SumUnfolds
    <3>4. QED
      BY <3>3
  <2>4. QED
    BY <2>2, <2>3
<1> HIDE DEF Q
<1>2. \A S \in SUBSET D : S \in Q
  BY <1>1, SmallerFirst
<1>3. QED
  BY <1>2 DEF Q

(* Any element can be taken out first.                                     *)
LEMMA SumWithout ==
  ASSUME NEW D, IsFiniteSet(D), NEW f \in [D -> Int]
  PROVE  \A S \in SUBSET D : \A x \in S : SumOf(f, S) = f[x] + SumOf(f, S \ {x})
<1> DEFINE Q == {S \in SUBSET D : \A x \in S : SumOf(f, S) = f[x] + SumOf(f, S \ {x})}
<1>1. ASSUME NEW s \in SUBSET D, \A r \in SUBSET s : r # s => r \in Q PROVE s \in Q
  <2>1. ASSUME NEW x \in s PROVE SumOf(f, s) = f[x] + SumOf(f, s \ {x})
    <3> DEFINE c == First(s)
               r == s \ {c, x}
    <3>1. c \in s /\ IsFiniteSet(s) /\ IsFiniteSet(s \ {x})
      BY FirstIsIn, FS_Subset
    <3> HIDE DEF c
    <3>2. SumOf(f, s) = f[c] + SumOf(f, s \ {c})
      BY <3>1, SumUnfolds DEF c
    <3>3. CASE x = c
      BY <3>2, <3>3
    <3>4. CASE x # c
      <4>1. s \ {c} \in Q /\ s \ {x} \in Q /\ x \in s \ {c} /\ c \in s \ {x}
        BY <1>1, <3>1, <3>4
      <4>2. (s \ {c}) \ {x} = r /\ (s \ {x}) \ {c} = r /\ r \in SUBSET D
        OBVIOUS
      <4>3. SumOf(f, s \ {c}) = f[x] + SumOf(f, r) /\ SumOf(f, s \ {x}) = f[c] + SumOf(f, r)
        BY <4>1, <4>2
      <4>4. f[x] \in Int /\ f[c] \in Int /\ SumOf(f, r) \in Int
        BY <3>1, <4>2, SumIsInt
      <4> HIDE DEF r
      <4>5. QED
        BY <3>2, <4>3, <4>4
    <3>5. QED
      BY <3>3, <3>4
  <2>2. QED
    BY <2>1
<1> HIDE DEF Q
<1>2. \A S \in SUBSET D : S \in Q
  BY <1>1, SmallerFirst
<1>3. QED
  BY <1>2 DEF Q

(* The sum of two sets that have nothing in common.                        *)
LEMMA SumOfTwo ==
  ASSUME NEW D, IsFiniteSet(D), NEW f \in [D -> Int], NEW T \in SUBSET D
  PROVE  \A S \in SUBSET D : S \cap T = {} => SumOf(f, S \cup T) = SumOf(f, S) + SumOf(f, T)
<1> DEFINE Q == {S \in SUBSET D : S \cap T = {} =>
                   SumOf(f, S \cup T) = SumOf(f, S) + SumOf(f, T)}
<1>1. ASSUME NEW s \in SUBSET D, \A r \in SUBSET s : r # s => r \in Q PROVE s \in Q
  <2>1. SUFFICES ASSUME s \cap T = {} PROVE SumOf(f, s \cup T) = SumOf(f, s) + SumOf(f, T)
    OBVIOUS
  <2>2. CASE s = {}
    <3>1. SumOf(f, s) = 0 /\ SumOf(f, T) \in Int /\ s \cup T = T
      BY <2>2, SumUnfolds, SumIsInt, FS_EmptySet
    <3>2. QED
      BY <3>1
  <2>3. CASE s # {}
    <3>1. PICK x \in s : TRUE
      BY <2>3
    <3> DEFINE r == s \ {x}
    <3>2. r \in SUBSET s /\ r # s /\ r \cap T = {} /\ r \in SUBSET D
      BY <2>1
    <3>3. SumOf(f, r \cup T) = SumOf(f, r) + SumOf(f, T)
      BY <1>1, <3>2
    <3>4. SumOf(f, s) = f[x] + SumOf(f, r)
      BY SumWithout
    <3>5. x \in s \cup T /\ s \cup T \in SUBSET D /\ (s \cup T) \ {x} = r \cup T
      BY <2>1
    <3>6. SumOf(f, s \cup T) = f[x] + SumOf(f, r \cup T)
      BY <3>5, SumWithout
    <3>7. f[x] \in Int /\ SumOf(f, r) \in Int /\ SumOf(f, T) \in Int
      BY <3>2, SumIsInt
    <3> HIDE DEF r
    <3>8. QED
      BY <3>3, <3>4, <3>6, <3>7
  <2>4. QED
    BY <2>2, <2>3
<1> HIDE DEF Q
<1>2. \A S \in SUBSET D : S \in Q
  BY <1>1, SmallerFirst
<1>3. QED
  BY <1>2 DEF Q

(* Two functions that agree on a set have the same sum on it.              *)
LEMMA SumsAgree ==
  ASSUME NEW D, IsFiniteSet(D), NEW f, NEW g, \A x \in D : f[x] = g[x]
  PROVE  \A S \in SUBSET D : SumOf(f, S) = SumOf(g, S)
<1> DEFINE Q == {S \in SUBSET D : SumOf(f, S) = SumOf(g, S)}
<1>1. ASSUME NEW s \in SUBSET D, \A r \in SUBSET s : r # s => r \in Q PROVE s \in Q
  <2>1. IsFiniteSet(s)
    BY FS_Subset
  <2>2. CASE s = {}
    BY <2>1, <2>2, SumUnfolds
  <2>3. CASE s # {}
    <3>1. First(s) \in s /\ s \ {First(s)} \in SUBSET s /\ s \ {First(s)} # s
      BY <2>3, FirstIsIn
    <3>2. f[First(s)] = g[First(s)] /\ SumOf(f, s \ {First(s)}) = SumOf(g, s \ {First(s)})
      BY <1>1, <3>1
    <3>3. SumOf(f, s) = SumOf(g, s)
      BY <2>1, <2>3, <3>2, SumUnfolds
    <3>4. QED
      BY <3>3
  <2>4. QED
    BY <2>2, <2>3
<1> HIDE DEF Q
<1>2. \A S \in SUBSET D : S \in Q
  BY <1>1, SmallerFirst
<1>3. QED
  BY <1>2 DEF Q

-----------------------------------------------------------------------------

(* A process between its SELECT and its INSERT is the only one.            *)
OneAtATime ==
  \A v, w \in Writer : seen[v].reading /\ seen[w].reading => v = w

(* Every row_hash of a log was computed once, and a row that is not        *)
(* altered is what it was computed from.                                   *)
Sound(l, hs) ==
  \A i \in DOMAIN l :
    /\ l[i].hash \in DOMAIN hs
    /\ ~l[i].altered => l[i].prev = hs[l[i].hash].prev

(* So it is with the log now, and with all that writers have read of it;   *)
(* and a writer names the last row it has read.                            *)
HashesSpeak ==
  /\ Sound(log, hashed)
  /\ \A h \in DOMAIN hashed :
       hashed[h].genuine => /\ Sound(hashed[h].before, hashed)
                            /\ hashed[h].prev = GetLastHash(hashed[h].before)
  /\ \A w \in Writer :
       seen[w].reading => /\ Sound(seen[w].before, hashed)
                          /\ seen[w].hash = GetLastHash(seen[w].before)

(* Where nobody touched the log, every row carries the hash of the one     *)
(* before it.                                                              *)
Untouched ==
  /\ VerifyAuditChain(log)
  /\ \A w \in Writer : seen[w].reading => seen[w].hash = GetLastHash(log)

(* The inductive invariant of the audit chain.                             *)
ChainInv ==
  /\ ChainTypeOK
  /\ HashesSpeak
  /\ ~overlapped => OneAtATime
  /\ ~overlapped /\ tampers = 0 => Untouched

-----------------------------------------------------------------------------

LEMMA RowsAreTyped ==
  ASSUME NEW l \in Seq(Row)
  PROVE  /\ Len(l) \in Nat /\ DOMAIN l = 1..Len(l)
         /\ \A i \in 1..Len(l) :
              /\ l[i] \in Row
              /\ l[i].hash \in Nat /\ l[i].hash # NoHash
              /\ l[i] = [hash |-> l[i].hash, prev |-> l[i].prev, altered |-> l[i].altered]
              /\ l[i].altered \in BOOLEAN
         /\ GetLastHash(l) \in 0..MaxRows
<1>1. MaxRows \in Nat
  BY ChainAssumption
<1>2. Len(l) \in Nat /\ DOMAIN l = 1..Len(l) /\ (l # << >> => Len(l) \in 1..Len(l))
  OBVIOUS
<1>3. ASSUME NEW i \in 1..Len(l)
      PROVE  /\ l[i] \in Row
             /\ l[i].hash \in 1..MaxRows
             /\ l[i] = [hash |-> l[i].hash, prev |-> l[i].prev, altered |-> l[i].altered]
             /\ l[i].altered \in BOOLEAN
  <2>1. l[i] \in Row
    OBVIOUS
  <2>2. QED
    BY <2>1 DEF Row
<1>4. GetLastHash(l) \in 0..MaxRows
  BY <1>1, <1>2, <1>3 DEF GetLastHash, NoHash
<1>5. QED
  BY <1>1, <1>2, <1>3, <1>4 DEF NoHash

LEMMA IdleIsTyped == Idle \in [hash : 0..MaxRows, before : Seq(Row), reading : BOOLEAN]
  BY ChainAssumption DEF Idle, NoHash

(* A hash that is computed leaves the others what they stand for.          *)
LEMMA HashingKeepsTheOthers ==
  ASSUME ChainTypeOK, NEW prev \in 0..MaxRows, NEW before \in Seq(Row),
         NEW g \in BOOLEAN, HashRow(prev, before, g)
  PROVE  /\ hashed' \in Seq(Hashed) /\ Len(hashed') <= MaxRows
         /\ Len(hashed) + 1 \in 1..MaxRows
         /\ DOMAIN hashed = 1..Len(hashed)
         /\ DOMAIN hashed' = DOMAIN hashed \cup {Len(hashed) + 1}
         /\ \A h \in DOMAIN hashed : hashed'[h] = hashed[h]
         /\ hashed'[Len(hashed) + 1] = [prev |-> prev, before |-> before, genuine |-> g]
<1> DEFINE new == [prev |-> prev, before |-> before, genuine |-> g]
<1>1. new \in Hashed
  BY DEF Hashed
<1>2. hashed \in Seq(Hashed) /\ hashed' = Append(hashed, new) /\ Len(hashed) < MaxRows
  BY DEF ChainTypeOK, HashRow
<1> HIDE DEF new
<1>3. QED
  BY <1>1, <1>2, ChainAssumption DEF new

LEMMA SoundStaysSound ==
  ASSUME NEW l, NEW hs, NEW more, Sound(l, hs), DOMAIN hs \subseteq DOMAIN more,
         \A h \in DOMAIN hs : more[h] = hs[h]
  PROVE  Sound(l, more)
BY DEF Sound

-----------------------------------------------------------------------------
(* Two logs that verify and end with the same hash are the same.           *)

LEMMA SameHashSameRow ==
  ASSUME NEW l \in Seq(Row), NEW m \in Seq(Row), NEW hs, Sound(l, hs), Sound(m, hs),
         VerifyAuditChain(l), VerifyAuditChain(m),
         NEW i \in 1..Len(l), NEW j \in 1..Len(m), l[i].hash = m[j].hash
  PROVE  l[i] = m[j]
<1>1. i \in DOMAIN l /\ j \in DOMAIN m
  BY RowsAreTyped
<1>2. ~l[i].altered /\ ~m[j].altered
  BY <1>1 DEF VerifyAuditChain
<1>3. l[i].altered = FALSE /\ m[j].altered = FALSE
  BY <1>2, RowsAreTyped
<1>4. l[i].prev = m[j].prev
  BY <1>1, <1>2 DEF Sound
<1>5. /\ l[i] = [hash |-> l[i].hash, prev |-> l[i].prev, altered |-> l[i].altered]
      /\ m[j] = [hash |-> m[j].hash, prev |-> m[j].prev, altered |-> m[j].altered]
  BY RowsAreTyped
<1>6. QED
  BY <1>3, <1>4, <1>5

LEMMA NamesTheRowBefore ==
  ASSUME NEW l \in Seq(Row), VerifyAuditChain(l), NEW k \in 1..Len(l), k < Len(l)
  PROVE  l[k + 1].prev = l[k].hash
<1>1. k + 1 \in DOMAIN l /\ k + 1 # 1 /\ k + 1 - 1 = k
  BY RowsAreTyped
<1>2. \A i \in DOMAIN l : i # 1 => l[i].prev = l[i - 1].hash
  BY DEF VerifyAuditChain
<1>3. l[k + 1].prev = l[k + 1 - 1].hash
  BY <1>1, <1>2
<1>4. QED
  BY <1>1, <1>3

(* Counted from the end, their rows agree as far as both go, ...           *)
LEMMA SameEndSameRows ==
  ASSUME NEW l \in Seq(Row), NEW m \in Seq(Row), NEW hs, Sound(l, hs), Sound(m, hs),
         VerifyAuditChain(l), VerifyAuditChain(m), GetLastHash(l) = GetLastHash(m)
  PROVE  \A d \in Nat : d < Len(l) /\ d < Len(m) => l[Len(l) - d] = m[Len(m) - d]
<1> DEFINE differ ==
      {d \in Nat : d < Len(l) /\ d < Len(m) /\ l[Len(l) - d] # m[Len(m) - d]}
<1>1. SUFFICES ASSUME differ # {} PROVE FALSE
  OBVIOUS
<1>2. PICK d \in differ : \A e \in differ : d <= e
  BY <1>1, LeastExists
<1>3. /\ d \in Nat /\ Len(l) \in Nat /\ Len(m) \in Nat /\ d < Len(l) /\ d < Len(m)
      /\ l[Len(l) - d] # m[Len(m) - d]
  BY <1>2, RowsAreTyped
<1>4. Len(l) - d \in 1..Len(l) /\ Len(m) - d \in 1..Len(m)
  BY <1>3
<1>5. l[Len(l) - d].hash = m[Len(m) - d].hash
  <2>1. CASE d = 0
    BY <1>3, <2>1 DEF GetLastHash
  <2>2. CASE d # 0
    <3> DEFINE i == Len(l) - d
               j == Len(m) - d
    <3>1. d - 1 \in Nat /\ ~(d <= d - 1) /\ d - 1 < Len(l) /\ d - 1 < Len(m)
      BY <1>3, <2>2
    <3>2. Len(l) - (d - 1) = i + 1 /\ Len(m) - (d - 1) = j + 1
      BY <1>3
    <3>3. l[i + 1] = m[j + 1]
      <4>1. d - 1 \notin differ
        BY <1>2, <3>1
      <4>2. QED
        BY <3>1, <3>2, <4>1
    <3>4. i \in 1..Len(l) /\ i < Len(l) /\ j \in 1..Len(m) /\ j < Len(m)
      BY <1>3, <1>4, <2>2
    <3> HIDE DEF i, j
    <3>5. l[i + 1].prev = l[i].hash
      BY <3>4, NamesTheRowBefore
    <3>6. m[j + 1].prev = m[j].hash
      BY <3>4, NamesTheRowBefore
    <3>7. l[i].hash = m[j].hash
      BY <3>3, <3>5, <3>6
    <3>8. QED
      BY <3>7 DEF i, j
  <2>3. QED
    BY <2>1, <2>2
<1>6. QED
  BY <1>3, <1>4, <1>5, SameHashSameRow

(* ... and neither goes further.                                           *)
LEMMA SameEndNotLonger ==
  ASSUME NEW l \in Seq(Row), NEW m \in Seq(Row), NEW hs, Sound(l, hs), Sound(m, hs),
         VerifyAuditChain(l), VerifyAuditChain(m), GetLastHash(l) = GetLastHash(m)
  PROVE  Len(m) <= Len(l)
<1>1. SUFFICES ASSUME Len(l) < Len(m) PROVE FALSE
  BY RowsAreTyped
<1>2. Len(l) \in Nat /\ Len(m) \in Nat /\ Len(m) \in 1..Len(m)
  BY <1>1, RowsAreTyped
<1>3. CASE Len(l) = 0
  <2>1. l = << >> /\ m # << >>
    BY <1>2, <1>3
  <2>2. m[Len(m)].hash = NoHash
    BY <2>1 DEF GetLastHash
  <2>3. QED
    BY <1>2, <2>2, RowsAreTyped
<1>4. CASE Len(l) # 0
  <2> DEFINE d == Len(l) - 1
             j == Len(m) - d
  <2>1. d \in Nat /\ d < Len(l) /\ d < Len(m) /\ Len(l) - d = 1
    BY <1>1, <1>2, <1>4
  <2>2. j \in 1..Len(m) /\ j - 1 \in 1..Len(m) /\ j # 1
    BY <1>1, <1>2, <1>4
  <2>3. l[1] = m[j]
    BY <2>1, SameEndSameRows
  <2> HIDE DEF j
  <2>4. 1 \in DOMAIN l /\ j \in DOMAIN m
    BY <1>2, <1>4, <2>2, RowsAreTyped
  <2>5. l[1].prev = NoHash /\ m[j].prev = m[j - 1].hash
    BY <2>2, <2>4 DEF VerifyAuditChain
  <2>6. QED
    BY <2>2, <2>3, <2>5, RowsAreTyped
<1>5. QED
  BY <1>3, <1>4

LEMMA SameEndSameLog ==
  ASSUME NEW l \in Seq(Row), NEW m \in Seq(Row), NEW hs, Sound(l, hs), Sound(m, hs),
         VerifyAuditChain(l), VerifyAuditChain(m), GetLastHash(l) = GetLastHash(m)
  PROVE  l = m
<1>1. Len(l) = Len(m) /\ Len(l) \in Nat
  BY SameEndNotLonger, RowsAreTyped
<1>2. ASSUME NEW k \in 1..Len(l) PROVE l[k] = m[k]
  <2>1. Len(l) - k \in Nat /\ Len(l) - k < Len(l) /\ Len(l) - (Len(l) - k) = k
    BY <1>1
  <2>2. QED
    BY <1>1, <2>1, SameEndSameRows
<1>3. QED
  BY <1>1, <1>2

-----------------------------------------------------------------------------

(* A process gives up, or was not reading.                                 *)
LEMMA ForgettingIsHarmless ==
  ASSUME ChainInv, NEW w \in Writer, seen' = [seen EXCEPT ![w] = Idle],
         UNCHANGED <<log, hashed, overlapped, tampers>>
  PROVE  ChainInv'
<1>1. ChainTypeOK'
  BY IdleIsTyped DEF ChainInv, ChainTypeOK
<1>2. \A v \in Writer : seen'[v].reading => seen'[v] = seen[v] /\ seen[v].reading
  BY DEF ChainInv, ChainTypeOK, Idle
<1>3. HashesSpeak'
  BY <1>2 DEF ChainInv, HashesSpeak, Sound, GetLastHash
<1>4. ASSUME ~overlapped PROVE OneAtATime'
  BY <1>2, <1>4 DEF ChainInv, OneAtATime
<1>5. ASSUME ~overlapped, tampers = 0 PROVE Untouched'
  BY <1>2, <1>5 DEF ChainInv, Untouched, VerifyAuditChain, GetLastHash
<1>6. QED
  BY <1>1, <1>3, <1>4, <1>5 DEF ChainInv

(* A writer that reads the last row remembers what the log then says.      *)
LEMMA ReadingIsHarmless ==
  ASSUME ChainInv, NEW w \in Writer, ReadLastHash(w)
  PROVE  ChainInv'
<1>1. /\ ~seen[w].reading
      /\ seen' = [seen EXCEPT ![w] =
           [hash |-> GetLastHash(log), before |-> log, reading |-> TRUE]]
      /\ overlapped' = (overlapped \/ \E v \in Writer : seen[v].reading)
      /\ UNCHANGED <<log, hashed, tampers>>
  BY DEF ReadLastHash
<1>2. ChainTypeOK /\ HashesSpeak
  BY DEF ChainInv
<1>3. log \in Seq(Row) /\ GetLastHash(log) \in 0..MaxRows
  BY <1>2, RowsAreTyped DEF ChainTypeOK
<1>4. ChainTypeOK'
  BY <1>1, <1>2, <1>3 DEF ChainTypeOK
<1>5. seen'[w] = [hash |-> GetLastHash(log), before |-> log, reading |-> TRUE]
  BY <1>1, <1>2 DEF ChainTypeOK
<1>6. \A v \in Writer \ {w} : seen'[v] = seen[v]
  BY <1>1, <1>2 DEF ChainTypeOK
<1>7. HashesSpeak'
  BY <1>1, <1>2, <1>5, <1>6 DEF HashesSpeak, Sound, GetLastHash
<1>8. ASSUME ~overlapped' PROVE OneAtATime'
  BY <1>1, <1>6, <1>8 DEF OneAtATime
<1>9. ASSUME ~overlapped', tampers' = 0 PROVE Untouched'
  <2>1. ~overlapped /\ tampers = 0 /\ \A v \in Writer : ~seen[v].reading
    BY <1>1, <1>9
  <2>2. VerifyAuditChain(log)
    BY <2>1 DEF ChainInv, Untouched
  <2>3. QED
    BY <1>1, <1>5, <1>6, <2>1, <2>2 DEF Untouched, VerifyAuditChain, GetLastHash
<1>10. QED
  BY <1>4, <1>7, <1>8, <1>9 DEF ChainInv

(* A row that is inserted goes on from what its writer read.               *)
LEMMA InsertingIsHarmless ==
  ASSUME ChainInv, NEW w \in Writer, InsertRow(w)
  PROVE  ChainInv'
<1> DEFINE n == Len(log)
           new == NewRow(seen[w].hash)
<1>1. /\ seen[w].reading /\ HashRow(seen[w].hash, seen[w].before, TRUE)
      /\ log' = Append(log, new) /\ seen' = [seen EXCEPT ![w] = Idle]
      /\ UNCHANGED <<overlapped, tampers>>
  BY DEF InsertRow
<1>2. ChainTypeOK /\ HashesSpeak /\ log \in Seq(Row)
  BY DEF ChainInv, ChainTypeOK
<1>3. n \in Nat /\ DOMAIN log = 1..n
  BY <1>2, RowsAreTyped
<1>4. seen[w].hash \in 0..MaxRows /\ seen[w].before \in Seq(Row)
  BY <1>2 DEF ChainTypeOK
<1>5. /\ hashed' \in Seq(Hashed) /\ Len(hashed') <= MaxRows
      /\ Len(hashed) + 1 \in 1..MaxRows
      /\ DOMAIN hashed' = DOMAIN hashed \cup {Len(hashed) + 1}
      /\ \A h \in DOMAIN hashed : hashed'[h] = hashed[h]
      /\ hashed'[Len(hashed) + 1] =
           [prev |-> seen[w].hash, before |-> seen[w].before, genuine |-> TRUE]
  BY <1>1, <1>2, <1>4, HashingKeepsTheOthers
<1>6. new = [hash |-> Len(hashed) + 1, prev |-> seen[w].hash, altered |-> FALSE] /\ new \in Row
  BY <1>4, <1>5 DEF NewRow, Row
<1> HIDE DEF new
<1>7. ChainTypeOK'
  <2>1. log' \in Seq(Row)
    BY <1>1, <1>2, <1>6
  <2>2. QED
    BY <1>1, <1>2, <1>5, <2>1, IdleIsTyped DEF ChainTypeOK
<1>8. /\ Len(log') = n + 1 /\ DOMAIN log' = 1..(n + 1) /\ log' # << >>
      /\ log'[n + 1] = new /\ \A k \in 1..n : log'[k] = log[k]
  BY <1>1, <1>2, <1>6
<1>9. \A k \in 1..(n + 1) : k \in 1..n \/ k = n + 1
  BY <1>3
<1>10. \A v \in Writer : seen'[v].reading => v # w /\ seen[v].reading /\ seen'[v] = seen[v]
  BY <1>1, <1>2 DEF ChainTypeOK, Idle
<1>11. HashesSpeak'
  <2>1. \A l : Sound(l, hashed) => Sound(l, hashed')
    BY <1>5, SoundStaysSound
  <2>2. Sound(log', hashed')
    BY <1>2, <1>3, <1>5, <1>6, <1>8, <1>9, <2>1 DEF HashesSpeak, Sound
  <2>3. Sound(seen[w].before, hashed') /\ seen[w].hash = GetLastHash(seen[w].before)
    BY <1>1, <1>2, <2>1 DEF HashesSpeak
  <2>4. ASSUME NEW h \in DOMAIN hashed', hashed'[h].genuine
        PROVE  /\ Sound(hashed'[h].before, hashed')
               /\ hashed'[h].prev = GetLastHash(hashed'[h].before)
    BY <1>2, <1>5, <2>1, <2>3, <2>4 DEF HashesSpeak
  <2>5. ASSUME NEW v \in Writer, seen'[v].reading
        PROVE  /\ Sound(seen'[v].before, hashed')
               /\ seen'[v].hash = GetLastHash(seen'[v].before)
    BY <1>2, <1>10, <2>1, <2>5 DEF HashesSpeak
  <2>6. QED
    BY <2>2, <2>4, <2>5 DEF HashesSpeak, GetLastHash
<1>12. ASSUME ~overlapped PROVE OneAtATime'
  BY <1>10, <1>12 DEF ChainInv, OneAtATime
<1>13. ASSUME ~overlapped, tampers = 0 PROVE Untouched'
  <2>1. Untouched /\ OneAtATime
    BY <1>13 DEF ChainInv
  <2>2. \A v \in Writer : ~seen'[v].reading
    BY <1>1, <1>10, <2>1 DEF OneAtATime
  <2>3. ASSUME NEW i \in 1..(n + 1)
        PROVE  log'[i].prev = (IF i = 1 THEN NoHash ELSE log'[i - 1].hash) /\ ~log'[i].altered
    <3>1. CASE i \in 1..n
      <4>1. log[i].prev = (IF i = 1 THEN NoHash ELSE log[i - 1].hash) /\ ~log[i].altered
        BY <1>3, <2>1, <3>1 DEF Untouched, VerifyAuditChain
      <4>2. i # 1 => log'[i - 1] = log[i - 1]
        BY <1>3, <1>8, <3>1
      <4>3. log'[i] = log[i]
        BY <1>8, <3>1
      <4>4. QED
        BY <4>1, <4>2, <4>3
    <3>2. CASE i = n + 1
      <4>1. seen[w].hash = GetLastHash(log)
        BY <1>1, <2>1 DEF Untouched
      <4>2. CASE n = 0
        BY <1>2, <1>6, <1>8, <3>2, <4>1, <4>2 DEF GetLastHash
      <4>3. CASE n # 0
        <5>1. log # << >> /\ n \in 1..n /\ i - 1 = n /\ i # 1
          BY <1>3, <3>2, <4>3
        <5>2. QED
          BY <1>6, <1>8, <3>2, <4>1, <5>1 DEF GetLastHash
      <4>4. QED
        BY <4>2, <4>3
    <3>3. QED
      BY <1>9, <3>1, <3>2
  <2>4. QED
    BY <1>8, <2>2, <2>3 DEF Untouched, VerifyAuditChain
<1>14. QED
  BY <1>1, <1>7, <1>11, <1>12, <1>13 DEF ChainInv

LEMMA ConcatenatedRows ==
  ASSUME NEW l \in Seq(Row), NEW m \in Seq(Row)
  PROVE  /\ l \o m \in Seq(Row)
         /\ \A k \in DOMAIN (l \o m) : \/ \E n \in DOMAIN l : (l \o m)[k] = l[n]
                                      \/ \E n \in DOMAIN m : (l \o m)[k] = m[n]
<1>1. /\ l \o m \in Seq(Row) /\ Len(l \o m) = Len(l) + Len(m)
      /\ \A k \in 1..(Len(l) + Len(m)) :
           (l \o m)[k] = IF k <= Len(l) THEN l[k] ELSE m[k - Len(l)]
  BY ConcatProperties
<1>2. /\ Len(l) \in Nat /\ DOMAIN l = 1..Len(l) /\ Len(m) \in Nat /\ DOMAIN m = 1..Len(m)
      /\ DOMAIN (l \o m) = 1..(Len(l) + Len(m))
  BY <1>1, RowsAreTyped
<1> DEFINE r == l \o m
<1>3. ASSUME NEW k \in DOMAIN r
      PROVE  (\E n \in DOMAIN l : r[k] = l[n]) \/ (\E n \in DOMAIN m : r[k] = m[n])
  <2>1. CASE k <= Len(l)
    BY <1>1, <1>2, <2>1
  <2>2. CASE ~(k <= Len(l))
    <3>1. k - Len(l) \in DOMAIN m /\ r[k] = m[k - Len(l)]
      BY <1>1, <1>2, <2>2
    <3>2. QED
      BY <3>1
  <2>3. QED
    BY <2>1, <2>2
<1>4. QED
  BY <1>1, <1>3

(* The rows of a log in which some are replaced are of the log or new.     *)
LEMMA SplicedRows ==
  ASSUME log \in Seq(Row), NEW i \in 1..(Len(log) + 1), NEW j \in {i, i + 1},
         NEW others \in Seq(Row)
  PROVE  /\ Splice(i, others, j) \in Seq(Row)
         /\ \A k \in DOMAIN Splice(i, others, j) :
              \/ \E m \in DOMAIN log : Splice(i, others, j)[k] = log[m]
              \/ \E m \in DOMAIN others : Splice(i, others, j)[k] = others[m]
<1> DEFINE front == SubSeq(log, 1, i - 1)
           back == SubSeq(log, j, Len(log))
           first == front \o others
<1>1. Len(log) \in Nat /\ DOMAIN log = 1..Len(log)
  OBVIOUS
<1>2. front \in Seq(Row) /\ \A k \in DOMAIN front : \E m \in DOMAIN log : front[k] = log[m]
  BY <1>1
<1>3. back \in Seq(Row) /\ \A k \in DOMAIN back : \E m \in DOMAIN log : back[k] = log[m]
  BY <1>1
<1> HIDE DEF front, back
<1>4. /\ first \in Seq(Row)
      /\ \A k \in DOMAIN first : \/ \E m \in DOMAIN front : first[k] = front[m]
                                 \/ \E m \in DOMAIN others : first[k] = others[m]
  BY <1>2, ConcatenatedRows DEF first
<1> HIDE DEF first
<1>5. /\ first \o back \in Seq(Row)
      /\ \A k \in DOMAIN (first \o back) :
           \/ \E m \in DOMAIN first : (first \o back)[k] = first[m]
           \/ \E m \in DOMAIN back : (first \o back)[k] = back[m]
  BY <1>3, <1>4, ConcatenatedRows
<1>6. Splice(i, others, j) = first \o back
  BY DEF Splice, first, front, back
<1>7. ASSUME NEW k \in DOMAIN (first \o back)
      PROVE  \/ \E m \in DOMAIN log : (first \o back)[k] = log[m]
             \/ \E m \in DOMAIN others : (first \o back)[k] = others[m]
  <2>1. CASE \E n \in DOMAIN first : (first \o back)[k] = first[n]
    <3>1. PICK n \in DOMAIN first : (first \o back)[k] = first[n]
      BY <2>1
    <3>2. CASE \E m \in DOMAIN front : first[n] = front[m]
      BY <1>2, <3>1, <3>2
    <3>3. QED
      BY <1>4, <3>1, <3>2
  <2>2. CASE \E n \in DOMAIN back : (first \o back)[k] = back[n]
    BY <1>3, <2>2
  <2>3. QED
    BY <1>5, <2>1, <2>2
<1>8. QED
  BY <1>5, <1>6, <1>7

(* Whoever changes, removes, puts back or forges rows does not change what *)
(* a hash was computed from.                                               *)
LEMMA TamperingIsHarmless ==
  ASSUME ChainInv, NEW i \in 1..(Len(log) + 1), Tamper(i)
  PROVE  ChainInv'
<1>1. /\ tampers' = tampers + 1 /\ tampers < MaxTampers
      /\ UNCHANGED <<seen, overlapped>>
  BY DEF Tamper
<1>2. ChainTypeOK /\ HashesSpeak /\ log \in Seq(Row) /\ hashed \in Seq(Hashed)
  BY DEF ChainInv, ChainTypeOK
<1>3. tampers' \in 0..MaxTampers /\ tampers' # 0
  BY <1>1, <1>2, ChainAssumption DEF ChainTypeOK
<1> DEFINE StillSound ==
      /\ log' \in Seq(Row)
      /\ hashed' \in Seq(Hashed)
      /\ Len(hashed') <= MaxRows
      /\ DOMAIN hashed \subseteq DOMAIN hashed'
      /\ \A h \in DOMAIN hashed : hashed'[h] = hashed[h]
      /\ \A h \in DOMAIN hashed' \ DOMAIN hashed : ~hashed'[h].genuine
      /\ Sound(log', hashed')
<1>4. StillSound
  <2>1. ASSUME i \in DOMAIN log, log' = [log EXCEPT ![i].altered = TRUE], UNCHANGED hashed
        PROVE  StillSound
    <3>1. [log[i] EXCEPT !.altered = TRUE] \in Row
      BY <1>2, <2>1, RowsAreTyped DEF Row
    <3>2. log' \in Seq(Row) /\ DOMAIN log' = DOMAIN log
      BY <1>2, <2>1, <3>1
    <3>3. \A k \in DOMAIN log :
            log'[k] = IF k = i THEN [log[i] EXCEPT !.altered = TRUE] ELSE log[k]
      BY <1>2, <2>1
    <3>4. \A k \in DOMAIN log :
            log'[k].hash = log[k].hash /\ (k # i => log'[k] = log[k]) /\ log'[i].altered
      BY <1>2, <2>1, <3>3, RowsAreTyped DEF Row
    <3>5. Sound(log', hashed')
      BY <1>2, <2>1, <3>2, <3>4 DEF HashesSpeak, Sound
    <3>6. QED
      BY <1>2, <2>1, <3>2, <3>5 DEF ChainTypeOK
  <2>2. ASSUME i \in DOMAIN log, log' = Splice(i, << >>, i + 1), UNCHANGED hashed
        PROVE  StillSound
    <3>1. /\ log' \in Seq(Row)
          /\ \A k \in DOMAIN log' : \E m \in DOMAIN log : log'[k] = log[m]
      <4>1. i + 1 \in {i, i + 1} /\ << >> \in Seq(Row) /\ DOMAIN << >> = {}
        OBVIOUS
      <4>2. QED
        BY <1>2, <2>2, <4>1, SplicedRows
    <3>2. Sound(log', hashed')
      BY <1>2, <2>2, <3>1 DEF HashesSpeak, Sound
    <3>3. QED
      BY <1>2, <2>2, <3>1, <3>2 DEF ChainTypeOK
  <2>3. ASSUME NEW h \in DOMAIN hashed, UNCHANGED hashed,
               log' = Splice(i, <<[hash |-> h, prev |-> hashed[h].prev, altered |-> FALSE]>>, i)
        PROVE  StillSound
    <3> DEFINE old == [hash |-> h, prev |-> hashed[h].prev, altered |-> FALSE]
    <3>1. h \in 1..MaxRows /\ hashed[h].prev \in 0..MaxRows
      <4>1. hashed[h] \in Hashed /\ h \in 1..Len(hashed) /\ Len(hashed) <= MaxRows
        BY <1>2 DEF ChainTypeOK
      <4>2. QED
        BY <1>2, <4>1, ChainAssumption DEF Hashed
    <3>2. old \in Row
      BY <3>1 DEF Row
    <3>3. <<old>> \in Seq(Row) /\ DOMAIN <<old>> = {1} /\ <<old>>[1] = old
      BY <3>2
    <3>4. /\ log' \in Seq(Row)
          /\ \A k \in DOMAIN log' : (\E m \in DOMAIN log : log'[k] = log[m]) \/ log'[k] = old
      <4> DEFINE mid == <<old>>
      <4>1. mid \in Seq(Row) /\ \A m \in DOMAIN mid : mid[m] = old
        BY <3>3
      <4>2. log' = Splice(i, mid, i) /\ i \in {i, i + 1}
        BY <2>3
      <4> HIDE DEF mid, old
      <4>3. /\ Splice(i, mid, i) \in Seq(Row)
            /\ \A k \in DOMAIN Splice(i, mid, i) :
                 \/ \E m \in DOMAIN log : Splice(i, mid, i)[k] = log[m]
                 \/ \E m \in DOMAIN mid : Splice(i, mid, i)[k] = mid[m]
        BY <1>2, <4>1, <4>2, SplicedRows
      <4>4. QED
        BY <4>1, <4>2, <4>3
    <3>5. Sound(log', hashed')
      <4>1. old.hash = h /\ old.prev = hashed[h].prev
        OBVIOUS
      <4>2. Sound(log, hashed) /\ hashed' = hashed
        BY <1>2, <2>3 DEF HashesSpeak
      <4> HIDE DEF old
      <4>3. QED
        BY <3>4, <4>1, <4>2 DEF Sound
    <3>6. QED
      BY <1>2, <2>3, <3>4, <3>5 DEF ChainTypeOK
  <2>4. ASSUME NEW prev \in 0 .. Len(hashed), NEW j \in {i, i + 1},
               HashRow(prev, << >>, FALSE), log' = Splice(i, <<NewRow(prev)>>, j)
        PROVE  StillSound
    <3>1. prev \in 0..MaxRows
      BY <1>2, ChainAssumption DEF ChainTypeOK
    <3>2. /\ hashed' \in Seq(Hashed) /\ Len(hashed') <= MaxRows
          /\ Len(hashed) + 1 \in 1..MaxRows
          /\ DOMAIN hashed' = DOMAIN hashed \cup {Len(hashed) + 1}
          /\ \A h \in DOMAIN hashed : hashed'[h] = hashed[h]
          /\ hashed'[Len(hashed) + 1] = [prev |-> prev, before |-> << >>, genuine |-> FALSE]
      <4>1. << >> \in Seq(Row)
        OBVIOUS
      <4>2. QED
        BY <1>2, <2>4, <3>1, <4>1, HashingKeepsTheOthers
    <3>3. /\ NewRow(prev) = [hash |-> Len(hashed) + 1, prev |-> prev, altered |-> FALSE]
          /\ NewRow(prev) \in Row
      BY <3>1, <3>2 DEF NewRow, Row
    <3>4. <<NewRow(prev)>> \in Seq(Row) /\ DOMAIN <<NewRow(prev)>> = {1}
          /\ <<NewRow(prev)>>[1] = NewRow(prev)
      BY <3>3
    <3>5. /\ log' \in Seq(Row)
          /\ \A k \in DOMAIN log' :
               (\E m \in DOMAIN log : log'[k] = log[m]) \/ log'[k] = NewRow(prev)
      <4> DEFINE mid == <<NewRow(prev)>>
      <4>1. mid \in Seq(Row) /\ \A m \in DOMAIN mid : mid[m] = NewRow(prev)
        BY <3>4
      <4>2. log' = Splice(i, mid, j)
        BY <2>4
      <4> HIDE DEF mid
      <4>3. /\ Splice(i, mid, j) \in Seq(Row)
            /\ \A k \in DOMAIN Splice(i, mid, j) :
                 \/ \E m \in DOMAIN log : Splice(i, mid, j)[k] = log[m]
                 \/ \E m \in DOMAIN mid : Splice(i, mid, j)[k] = mid[m]
        BY <1>2, <4>1, SplicedRows
      <4>4. QED
        BY <4>1, <4>2, <4>3
    <3>6. Sound(log, hashed')
      BY <1>2, <3>2, SoundStaysSound DEF HashesSpeak
    <3>7. Sound(log', hashed')
      BY <3>2, <3>3, <3>5, <3>6 DEF Sound
    <3>8. QED
      BY <3>2, <3>5, <3>7
  <2>5. QED
    BY <2>1, <2>2, <2>3, <2>4 DEF Tamper
<1>5. ChainTypeOK'
  BY <1>1, <1>2, <1>3, <1>4 DEF ChainTypeOK
<1>6. HashesSpeak'
  <2>1. \A l : Sound(l, hashed) => Sound(l, hashed')
    BY <1>4, SoundStaysSound
  <2>2. ASSUME NEW h \in DOMAIN hashed', hashed'[h].genuine
        PROVE  /\ Sound(hashed'[h].before, hashed')
               /\ hashed'[h].prev = GetLastHash(hashed'[h].before)
    BY <1>2, <1>4, <2>1, <2>2 DEF HashesSpeak
  <2>3. ASSUME NEW v \in Writer, seen'[v].reading
        PROVE  /\ Sound(seen'[v].before, hashed')
               /\ seen'[v].hash = GetLastHash(seen'[v].before)
    BY <1>1, <1>2, <2>1, <2>3 DEF HashesSpeak
  <2>4. QED
    BY <1>4, <2>2, <2>3 DEF HashesSpeak, GetLastHash
<1>7. ~overlapped' => OneAtATime'
  BY <1>1 DEF ChainInv, OneAtATime
<1>8. QED
  BY <1>3, <1>5, <1>6, <1>7 DEF ChainInv

-----------------------------------------------------------------------------

(* An empty log is a chain.                                                *)
LEMMA ChainStarts == ASSUME ChainInit PROVE ChainInv
<1>1. ChainTypeOK
  <2>1. seen \in [Writer -> [hash : 0..MaxRows, before : Seq(Row), reading : BOOLEAN]]
    BY IdleIsTyped DEF ChainInit
  <2>2. log \in Seq(Row) /\ hashed \in Seq(Hashed) /\ Len(hashed) <= MaxRows
    BY ChainAssumption DEF ChainInit
  <2>3. tampers \in 0..MaxTampers
    BY ChainAssumption DEF ChainInit
  <2>4. QED
    BY <2>1, <2>2, <2>3 DEF ChainInit, ChainTypeOK
<1>2. DOMAIN log = {} /\ DOMAIN hashed = {} /\ \A w \in Writer : ~seen[w].reading
  BY DEF ChainInit, Idle
<1>3. HashesSpeak /\ OneAtATime /\ Untouched
  BY <1>2 DEF HashesSpeak, Sound, OneAtATime, Untouched, VerifyAuditChain
<1>4. QED
  BY <1>1, <1>3 DEF ChainInv

LEMMA ChainStays == ASSUME ChainInv, UNCHANGED chainVars PROVE ChainInv'
BY DEF chainVars, ChainInv, ChainTypeOK, HashesSpeak, Sound, OneAtATime, Untouched,
       VerifyAuditChain, GetLastHash

(* Every step of the trust ledger keeps the chain, those of the account    *)
(* included, which append to the log.                                      *)
LEMMA ChainGoesOn == ASSUME ChainInv, [LedgerNext]_ledgerVars PROVE ChainInv'
<1>1. CASE UNCHANGED ledgerVars
  BY <1>1, ChainStays DEF ledgerVars
<1>2. CASE \E i, j \in Bank : i <= j /\ ImportBankCsv(i, j)
  BY <1>2, ChainStays DEF ImportBankCsv
<1>3. CASE \E b \in Bank : RecordTrustTransaction(b)
  BY <1>3, ChainStays DEF RecordTrustTransaction
<1>4. CASE AppendAudit
  BY <1>4, LedgerAssumption, ReadingIsHarmless, InsertingIsHarmless DEF AppendAudit
<1>5. CASE HandlerIsCutOff
  BY <1>5, LedgerAssumption, ForgettingIsHarmless DEF HandlerIsCutOff
<1>6. CASE \E f, t \in Days : GenerateReconciliation(f, t)
  BY <1>6, ChainStays DEF GenerateReconciliation
<1>7. CASE SignOffReconciliation
  BY <1>7, ChainStays DEF SignOffReconciliation
<1>8. CASE OthersAppend
  <2>1. CASE \E w \in Writer \ {Service} : ReadLastHash(w) \/ InsertRow(w) \/ GiveUp(w)
    BY <2>1, ReadingIsHarmless, InsertingIsHarmless, ForgettingIsHarmless DEF GiveUp
  <2>2. CASE \E i \in 1 .. Len(log) + 1 : Tamper(i)
    BY <2>2, TamperingIsHarmless
  <2>3. QED
    BY <1>8, <2>1, <2>2 DEF OthersAppend
<1>9. QED
  BY <1>1, <1>2, <1>3, <1>4, <1>5, <1>6, <1>7, <1>8 DEF LedgerNext

(* Of every log the firm can have, whatever is appended at once, changed,  *)
(* removed or forged, ChainInv holds.                                      *)
THEOREM ChainIsKept == LedgerSpec => []ChainInv
<1>1. LedgerInit => ChainInv
  BY ChainStarts DEF LedgerInit
<1>2. ChainInv /\ [LedgerNext]_ledgerVars => ChainInv'
  BY ChainGoesOn
<1>3. QED
  BY <1>1, <1>2, PTL DEF LedgerSpec

(* The health check and the briefing cry wolf only with a cause.           *)
THEOREM BreaksHaveACauseHolds == LedgerSpec => []BreaksHaveACause
<1>1. ChainInv => BreaksHaveACause
  BY DEF ChainInv, Untouched, BreaksHaveACause
<1>2. QED
  BY <1>1, ChainIsKept, PTL

LEMMA PrefixOfAChain ==
  ASSUME NEW l \in Seq(Row), NEW hs, Sound(l, hs), VerifyAuditChain(l), NEW i \in DOMAIN l
  PROVE  LET p == SubSeq(l, 1, i - 1)
         IN  /\ p \in Seq(Row) /\ Sound(p, hs) /\ VerifyAuditChain(p)
             /\ l[i].prev = GetLastHash(p)
<1> DEFINE p == SubSeq(l, 1, i - 1)
<1>1. Len(l) \in Nat /\ DOMAIN l = 1..Len(l) /\ i \in 1..Len(l)
  BY RowsAreTyped
<1>2. p \in Seq(Row) /\ Len(p) = i - 1 /\ DOMAIN p = 1..(i - 1) /\ \A k \in 1..(i - 1) : p[k] = l[k]
  BY <1>1
<1> HIDE DEF p
<1>3. \A k \in 1..(i - 1) : k \in DOMAIN l /\ (k # 1 => k - 1 \in 1..(i - 1))
  BY <1>1
<1>4. Sound(p, hs)
  BY <1>2, <1>3 DEF Sound
<1>5. VerifyAuditChain(p)
  BY <1>2, <1>3 DEF VerifyAuditChain
<1>6. l[i].prev = GetLastHash(p)
  <2>1. CASE i = 1
    BY <1>2, <2>1 DEF GetLastHash, VerifyAuditChain
  <2>2. CASE i # 1
    <3>1. i - 1 \in 1..(i - 1) /\ p # << >>
      BY <1>1, <1>2, <2>2
    <3>2. l[i].prev = l[i - 1].hash
      BY <2>2 DEF VerifyAuditChain
    <3>3. QED
      BY <1>2, <3>1, <3>2 DEF GetLastHash
  <2>3. QED
    BY <2>1, <2>2
<1>7. QED
  BY <1>2, <1>4, <1>5, <1>6 DEF p

(* In a log that verifies, a row that the program wrote vouches for every  *)
(* row before it, whatever was changed, removed, put back or forged.       *)
THEOREM EachRowVouchesHolds == LedgerSpec => []EachRowVouches
<1>1. ASSUME ChainInv, VerifyAuditChain(log), NEW i \in DOMAIN log,
             hashed[log[i].hash].genuine, VerifyAuditChain(hashed[log[i].hash].before)
      PROVE  SubSeq(log, 1, i - 1) = hashed[log[i].hash].before
  <2> DEFINE source == hashed[log[i].hash]
             p == SubSeq(log, 1, i - 1)
  <2>1. log \in Seq(Row) /\ hashed \in Seq(Hashed) /\ HashesSpeak
    BY <1>1 DEF ChainInv, ChainTypeOK
  <2>2. log[i].hash \in DOMAIN hashed /\ ~log[i].altered /\ log[i].prev = source.prev
    BY <1>1, <2>1 DEF HashesSpeak, Sound, VerifyAuditChain
  <2>3. source.before \in Seq(Row)
    <3>1. source \in Hashed
      BY <2>1, <2>2
    <3>2. QED
      BY <3>1 DEF Hashed
  <2>4. Sound(source.before, hashed) /\ source.prev = GetLastHash(source.before)
    BY <1>1, <2>1, <2>2 DEF HashesSpeak
  <2>5. p \in Seq(Row) /\ Sound(p, hashed) /\ VerifyAuditChain(p) /\ log[i].prev = GetLastHash(p)
    BY <1>1, <2>1, PrefixOfAChain DEF HashesSpeak
  <2> HIDE DEF source, p
  <2>6. VerifyAuditChain(source.before)
    BY <1>1 DEF source
  <2>7. p = source.before
    BY <2>2, <2>3, <2>4, <2>5, <2>6, SameEndSameLog
  <2>8. QED
    BY <2>7 DEF p, source
<1>2. ChainInv => EachRowVouches
  BY <1>1 DEF EachRowVouches
<1>3. QED
  BY <1>2, ChainIsKept, PTL

-----------------------------------------------------------------------------

(* What a report says is what was held when it was drawn.                  *)
Before(when) == {b \in Bank : Day(b) < when}
Within(from, to) == {b \in Bank : from <= Day(b) /\ Day(b) <= to}

(* What the reports say, as sums over the bank's transactions.             *)
ReportsAreSums ==
  \A r \in reports :
    /\ r.opening = SumOf(Worth(r.held), Before(r.from))
    /\ r.closing = r.opening + SumOf(Worth(r.held), Within(r.from, r.to))

(* No import records a transaction twice.                                  *)
OncePerImport ==
  \A b \in Bank : recorded[b] + (IF b \in csv THEN 1 ELSE 0) <= imports

(* The inductive invariant of the trust account.                           *)
LedgerInv ==
  /\ ChainInv
  /\ LedgerTypeOK
  /\ OncePerImport
  /\ ReportsAreSums

LEMMA BankIsFinite == IsFiniteSet(Bank) /\ NBank \in Nat /\ Bank \subseteq Nat
BY LedgerAssumption, FS_Interval DEF Bank

LEMMA WorthIsInt == ASSUME NEW held \in [Bank -> 0..MaxImports]
                    PROVE  Worth(held) \in [Bank -> Int]
<1>1. ASSUME NEW b \in Bank PROVE held[b] * Stored(b) \in Int
  <2>1. Stored(b) \in Int
    BY LedgerAssumption DEF Stored
  <2>2. held[b] \in Int
    BY LedgerAssumption
  <2>3. QED
    BY <2>1, <2>2
<1>2. QED
  BY <1>1 DEF Worth

LEMMA DaysAreInt == \A b \in Bank : Day(b) \in Int /\ BankDay[b] \in Int
BY LedgerAssumption DEF Day

(* The ledger's total is a sum of the lemmas above.                        *)
LEMMA TotalIsASum == ASSUME NEW S PROVE Total(S) = SumOf(Worth(recorded), S)
BY DEF Total, SumOf

(* A reconciliation reports the sums of its period, and no other step      *)
(* changes a report.                                                       *)
LEMMA ReportsGoOn ==
  ASSUME LedgerInv, NEW f \in Days, NEW t \in Days, GenerateReconciliation(f, t)
  PROVE  LedgerTypeOK' /\ ReportsAreSums'
<1> DEFINE new == [from |-> f, to |-> t, held |-> recorded, opening |-> Opening(f),
                   closing |-> Opening(f) + Total(Within(f, t))]
<1>1. reports' = reports \cup {new} /\ due' = 1 /\ UNCHANGED <<recorded, csv, imports, chainVars>>
  BY DEF GenerateReconciliation, Within
<1>2. recorded \in [Bank -> 0..MaxImports] /\ ChainTypeOK'
  BY <1>1, ChainStays DEF LedgerInv, LedgerTypeOK, ChainInv
<1>3. /\ Opening(f) = SumOf(Worth(recorded), Before(f))
      /\ Total(Within(f, t)) = SumOf(Worth(recorded), Within(f, t))
  BY TotalIsASum DEF Opening, Before
<1>4. Opening(f) \in Int /\ Total(Within(f, t)) \in Int
  <2>1. Before(f) \in SUBSET Bank /\ Within(f, t) \in SUBSET Bank
    BY DEF Before, Within
  <2>2. QED
    BY <1>2, <1>3, <2>1, BankIsFinite, WorthIsInt, SumIsInt
<1>5. new \in [from : Days, to : Days, opening : Int, closing : Int, held : [Bank -> 0..MaxImports]]
  BY <1>2, <1>4
<1>6. LedgerTypeOK'
  BY <1>1, <1>2, <1>5 DEF LedgerInv, LedgerTypeOK
<1>7. ReportsAreSums'
  <2>1. ASSUME NEW r \in reports
        PROVE  /\ r.opening = SumOf(Worth(r.held), Before(r.from))
               /\ r.closing = r.opening + SumOf(Worth(r.held), Within(r.from, r.to))
    BY DEF LedgerInv, ReportsAreSums
  <2>2. /\ new.opening = SumOf(Worth(new.held), Before(new.from))
        /\ new.closing = new.opening + SumOf(Worth(new.held), Within(new.from, new.to))
    BY <1>3
  <2> HIDE DEF new
  <2>3. QED
    BY <1>1, <2>1, <2>2 DEF ReportsAreSums
<1>8. QED
  BY <1>6, <1>7

(* Everything but a reconciliation leaves the reports alone.               *)
LEMMA RecordsGoOn ==
  ASSUME LedgerInv, LedgerNext, UNCHANGED reports
  PROVE  LedgerTypeOK' /\ OncePerImport'
<1>1. ChainTypeOK'
  BY ChainGoesOn DEF LedgerInv, ChainInv
<1>2. LedgerTypeOK /\ OncePerImport /\ imports \in Nat /\ MaxImports \in Nat
  BY LedgerAssumption DEF LedgerInv, LedgerTypeOK
<1>3. ASSUME NEW i \in Bank, NEW j \in Bank, ImportBankCsv(i, j)
      PROVE  LedgerTypeOK' /\ OncePerImport'
  <2>1. csv' \subseteq Bank /\ csv = {} /\ imports' = imports + 1 /\ imports < MaxImports
        /\ UNCHANGED <<recorded, due>>
    BY <1>3, BankIsFinite DEF ImportBankCsv, AtRest, Bank
  <2>2. \A b \in Bank : recorded[b] <= imports /\ recorded[b] \in Nat
    BY <1>2, <2>1 DEF OncePerImport, LedgerTypeOK
  <2>3. LedgerTypeOK'
    BY <1>1, <1>2, <2>1 DEF LedgerTypeOK
  <2>4. OncePerImport'
    BY <1>2, <2>1, <2>2 DEF OncePerImport
  <2>5. QED
    BY <2>3, <2>4
<1>4. ASSUME NEW b \in Bank, RecordTrustTransaction(b)
      PROVE  LedgerTypeOK' /\ OncePerImport'
  <2>1. /\ b \in csv /\ recorded' = [recorded EXCEPT ![b] = @ + 1]
        /\ csv' = csv \ {b} /\ due' \in 0..2 /\ UNCHANGED imports
    BY <1>4 DEF RecordTrustTransaction
  <2>2. recorded[b] + 1 <= imports /\ recorded[b] \in Nat /\ imports <= MaxImports
    BY <1>2, <2>1 DEF OncePerImport, LedgerTypeOK
  <2>3. LedgerTypeOK'
    BY <1>1, <1>2, <2>1, <2>2 DEF LedgerTypeOK
  <2>4. OncePerImport'
    <3>1. \A c \in Bank : recorded'[c] = IF c = b THEN recorded[b] + 1 ELSE recorded[c]
      BY <1>2, <2>1 DEF LedgerTypeOK
    <3>2. \A c \in Bank : recorded[c] \in Nat
      BY <1>2 DEF LedgerTypeOK
    <3>3. ASSUME NEW c \in Bank
          PROVE  recorded'[c] + (IF c \in csv' THEN 1 ELSE 0) <= imports
      <4>1. recorded[c] + (IF c \in csv THEN 1 ELSE 0) <= imports
        BY <1>2 DEF OncePerImport
      <4>2. CASE c = b
        BY <2>1, <2>2, <3>1, <4>2
      <4>3. CASE c # b
        BY <2>1, <3>1, <4>1, <4>3
      <4>4. QED
        BY <4>2, <4>3
    <3>4. QED
      BY <2>1, <3>3 DEF OncePerImport
  <2>5. QED
    BY <2>3, <2>4
<1>5. ASSUME UNCHANGED <<recorded, imports>>, csv' \subseteq csv, due' \in 0..2
      PROVE  LedgerTypeOK' /\ OncePerImport'
  <2>1. LedgerTypeOK'
    BY <1>1, <1>2, <1>5 DEF LedgerTypeOK
  <2>2. ASSUME NEW b \in Bank
        PROVE  recorded[b] + (IF b \in csv' THEN 1 ELSE 0) <= imports
    <3>1. recorded[b] + (IF b \in csv THEN 1 ELSE 0) <= imports /\ recorded[b] \in Nat
      BY <1>2 DEF OncePerImport, LedgerTypeOK
    <3>2. QED
      BY <1>2, <1>5, <3>1
  <2>3. QED
    BY <1>5, <2>1, <2>2 DEF OncePerImport
<1>6. CASE AppendAudit
  <2>1. due' \in 0..2
    BY <1>2, <1>6 DEF AppendAudit, LedgerTypeOK
  <2>2. QED
    BY <1>5, <1>6, <2>1 DEF AppendAudit
<1>7. CASE HandlerIsCutOff
  BY <1>5, <1>7 DEF HandlerIsCutOff
<1>8. CASE \E f, t \in Days : GenerateReconciliation(f, t)
  BY <1>5, <1>8 DEF GenerateReconciliation
<1>9. CASE SignOffReconciliation
  BY <1>5, <1>9 DEF SignOffReconciliation
<1>10. CASE OthersAppend
  BY <1>2, <1>5, <1>10 DEF OthersAppend, trustVars, LedgerTypeOK
<1>11. QED
  BY <1>3, <1>4, <1>6, <1>7, <1>8, <1>9, <1>10 DEF LedgerNext

(* Every step of the ledger keeps LedgerInv.                               *)
LEMMA LedgerGoesOn == ASSUME LedgerInv, [LedgerNext]_ledgerVars PROVE LedgerInv'
<1>1. ChainInv'
  BY ChainGoesOn DEF LedgerInv
<1>2. CASE UNCHANGED ledgerVars
  BY <1>1, <1>2 DEF ledgerVars, trustVars, LedgerInv, LedgerTypeOK, OncePerImport, ReportsAreSums, ChainInv
<1>3. ASSUME NEW f \in Days, NEW t \in Days, GenerateReconciliation(f, t) PROVE LedgerInv'
  <2>1. OncePerImport'
    BY <1>3 DEF GenerateReconciliation, LedgerInv, OncePerImport
  <2>2. QED
    BY <1>1, <1>3, <2>1, ReportsGoOn DEF LedgerInv
<1>4. ASSUME LedgerNext, UNCHANGED reports PROVE LedgerInv'
  BY <1>1, <1>4, RecordsGoOn DEF LedgerInv, ReportsAreSums
<1>5. CASE LedgerNext
  <2>1. (\E f, t \in Days : GenerateReconciliation(f, t)) \/ UNCHANGED reports
    BY <1>5 DEF LedgerNext, ImportBankCsv, RecordTrustTransaction, AppendAudit, HandlerIsCutOff,
                SignOffReconciliation, OthersAppend, trustVars
  <2>2. QED
    BY <1>3, <1>4, <1>5, <2>1
<1>6. QED
  BY <1>2, <1>5

(* Imports, reconciliations and their signing keep LedgerInv, for every    *)
(* set of transactions and every order.                                    *)
THEOREM LedgerIsKept == LedgerSpec => []LedgerInv
<1>1. LedgerInit => LedgerInv
  <2>1. SUFFICES ASSUME LedgerInit PROVE LedgerInv
    OBVIOUS
  <2>2. ChainInv
    BY <2>1, ChainStarts DEF LedgerInit
  <2>3. LedgerTypeOK
    BY <2>1, <2>2, LedgerAssumption DEF LedgerInit, LedgerTypeOK, ChainInv
  <2>4. OncePerImport /\ ReportsAreSums
    BY <2>1 DEF LedgerInit, OncePerImport, ReportsAreSums
  <2>5. QED
    BY <2>2, <2>3, <2>4 DEF LedgerInv
<1>2. LedgerInv /\ [LedgerNext]_ledgerVars => LedgerInv'
  BY LedgerGoesOn
<1>3. QED
  BY <1>1, <1>2, PTL DEF LedgerSpec

(* The trust account's rows and reports keep their types.                  *)
THEOREM LedgerTypeOKHolds == LedgerSpec => []LedgerTypeOK
<1>1. LedgerInv => LedgerTypeOK
  BY DEF LedgerInv
<1>2. QED
  BY <1>1, LedgerIsKept, PTL

(* The balance is the sum of the bank's own amounts.                       *)
LEMMA BalanceIsASum ==
  ASSUME NEW when
  PROVE  Balance(when) = SumOf(Amount, {b \in Bank : BankDay[b] <= when})
BY DEF Balance, SumOf

(* Up to a day and after it there is everything in between.                *)
LEMMA ReportsEndWithABalance ==
  ASSUME LedgerInv, NEW r \in reports, IsoDate = Bank, OneColumn, r.from <= r.to + 1
  PROVE  r.closing = SumOf(Worth(r.held), Before(r.to + 1))
<1>1. r.from \in Int /\ r.to \in Int /\ r.held \in [Bank -> 0..MaxImports]
  BY DEF LedgerInv, LedgerTypeOK, Days
<1>2. Before(r.from) \in SUBSET Bank /\ Within(r.from, r.to) \in SUBSET Bank
  BY DEF Before, Within
<1>3. Before(r.from) \cap Within(r.from, r.to) = {}
  BY <1>1, DaysAreInt DEF Before, Within
<1>4. Before(r.from) \cup Within(r.from, r.to) = Before(r.to + 1)
  BY <1>1, DaysAreInt DEF Before, Within
<1>5. QED
  BY <1>1, <1>2, <1>3, <1>4, BankIsFinite, WorthIsInt, SumOfTwo DEF LedgerInv, ReportsAreSums

(* The reconciliations add up to the bank's balance, and one goes on where *)
(* the one before it ended.                                                *)
THEOREM ReportsAddUpHolds == LedgerSpec => []ReportsAddUp
<1>1. ASSUME LedgerInv, IsoDate = Bank, OneColumn, NEW r \in reports, r.from <= r.to + 1
      PROVE  /\ (\A b \in Bank : BankDay[b] <= r.to => r.held[b] = 1) => r.closing = Balance(r.to)
             /\ \A s \in reports :
                  /\ s.from = r.to + 1
                  /\ \A b \in Bank : BankDay[b] <= r.to => s.held[b] = r.held[b]
                  => s.opening = r.closing
  <2>1. r.from \in Int /\ r.to \in Int /\ r.held \in [Bank -> 0..MaxImports]
    BY <1>1 DEF LedgerInv, LedgerTypeOK, Days
  <2> DEFINE sofar == Before(r.to + 1)
  <2>2. /\ sofar = {b \in Bank : BankDay[b] <= r.to} /\ sofar \in SUBSET Bank
        /\ \A b \in sofar : b \in Bank /\ BankDay[b] <= r.to
    BY <1>1, <2>1, DaysAreInt DEF Before, Day
  <2>3. IsFiniteSet(sofar) /\ sofar \in SUBSET sofar
    BY <2>2, BankIsFinite, FS_Subset
  <2> HIDE DEF sofar
  <2>4. \A b \in Bank : Stored(b) = Amount[b] /\ Amount[b] \in Int
    BY <1>1, LedgerAssumption DEF Stored
  <2>5. ASSUME \A b \in Bank : BankDay[b] <= r.to => r.held[b] = 1
        PROVE  r.closing = Balance(r.to)
    <3>1. \A b \in sofar : Worth(r.held)[b] = Amount[b]
      BY <2>2, <2>4, <2>5 DEF Worth
    <3>2. SumOf(Worth(r.held), sofar) = SumOf(Amount, sofar)
      BY <2>3, <3>1, SumsAgree
    <3>3. r.closing = SumOf(Worth(r.held), sofar)
      BY <1>1, ReportsEndWithABalance DEF sofar
    <3>4. QED
      BY <2>2, <3>2, <3>3, BalanceIsASum
  <2>6. ASSUME NEW s \in reports, s.from = r.to + 1,
               \A b \in Bank : BankDay[b] <= r.to => s.held[b] = r.held[b]
        PROVE  s.opening = r.closing
    <3>1. \A b \in sofar : Worth(s.held)[b] = Worth(r.held)[b]
      BY <2>2, <2>6 DEF Worth
    <3>2. SumOf(Worth(s.held), sofar) = SumOf(Worth(r.held), sofar)
      BY <2>3, <3>1, SumsAgree
    <3>3. s.opening = SumOf(Worth(s.held), sofar)
      BY <1>1, <2>6 DEF LedgerInv, ReportsAreSums, sofar
    <3>4. QED
      BY <1>1, <3>2, <3>3, ReportsEndWithABalance DEF sofar
  <2>7. QED
    BY <2>5, <2>6
<1>2. LedgerInv => ReportsAddUp
  BY <1>1 DEF ReportsAddUp
<1>3. QED
  BY <1>2, LedgerIsKept, PTL

-----------------------------------------------------------------------------

(***************************************************************************)
(* What a handler may do to the marks of the other kinds of records: none. *)
(***************************************************************************)
HurtsOnly(K) == \A r : r \notin K => (r \in hurt' <=> r \in hurt)

Survived == mishaps' \in Nat /\ mishaps' >= mishaps

(* No record is of two kinds.                                              *)
LEMMA KindsAreApart ==
  /\ Document \cap (Entry \cup Slug \cup Negotiation \cup User \cup Series
                      \cup DocumentRequest \cup {SearchIndex}) = {}
  /\ Entry \cap (Slug \cup Negotiation \cup User \cup Series
                   \cup DocumentRequest \cup {SearchIndex}) = {}
  /\ Slug \cap (Negotiation \cup User \cup Series \cup DocumentRequest \cup {SearchIndex}) = {}
  /\ Negotiation \cap (User \cup Series \cup DocumentRequest \cup {SearchIndex}) = {}
  /\ User \cap (Series \cup DocumentRequest \cup {SearchIndex}) = {}
  /\ Series \cap (DocumentRequest \cup {SearchIndex}) = {}
  /\ DocumentRequest \cap {SearchIndex} = {}
<1>1. /\ Kinds[1] = Document /\ Kinds[2] = Entry /\ Kinds[3] = Slug /\ Kinds[4] = Negotiation
      /\ Kinds[5] = User /\ Kinds[6] = Series /\ Kinds[7] = DocumentRequest
      /\ Kinds[8] = {SearchIndex}
  BY DEF Kinds
<1>2. DOMAIN Kinds = 1..8
  BY DEF Kinds
<1>3. \A i, j \in 1..8 : i < j => Kinds[i] \cap Kinds[j] = {}
  BY <1>2, RecordsAssumption
<1> HIDE DEF Kinds
<1>4. \A j \in 2..8 : Document \cap Kinds[j] = {}
  BY <1>1, <1>3
<1>5. \A j \in 3..8 : Entry \cap Kinds[j] = {}
  BY <1>1, <1>3
<1>6. \A j \in 4..8 : Slug \cap Kinds[j] = {}
  BY <1>1, <1>3
<1>7. \A j \in 5..8 : Negotiation \cap Kinds[j] = {}
  BY <1>1, <1>3
<1>8. \A j \in 6..8 : User \cap Kinds[j] = {}
  BY <1>1, <1>3
<1>9. \A j \in 7..8 : Series \cap Kinds[j] = {}
  BY <1>1, <1>3
<1>10. DocumentRequest \cap Kinds[8] = {}
  BY <1>1, <1>3
<1>11. QED
  BY <1>1, <1>4, <1>5, <1>6, <1>7, <1>8, <1>9, <1>10

LEMMA RecordsOfAKind ==
  /\ Document \cup Entry \cup Slug \cup Negotiation \cup User \cup Series
       \cup DocumentRequest \cup {SearchIndex} \subseteq Record
<1>1. DOMAIN Kinds = 1..8
  BY DEF Kinds
<1>2. \A i \in 1..8 : Kinds[i] \subseteq Record
  BY <1>1 DEF Record
<1>3. /\ Kinds[1] = Document /\ Kinds[2] = Entry /\ Kinds[3] = Slug /\ Kinds[4] = Negotiation
      /\ Kinds[5] = User /\ Kinds[6] = Series /\ Kinds[7] = DocumentRequest
      /\ Kinds[8] = {SearchIndex}
  BY DEF Kinds
<1>4. QED
  BY <1>2, <1>3

(* A handler marks the record it is for and no other; one that reached its *)
(* end left its last state.                                                *)
LEMMA LeavesOneAlone ==
  ASSUME HandlersTypeOK(Record), NEW k \in Record, NEW steps, NEW x, Leaves(k, steps, x)
  PROVE  /\ hurt' \subseteq Record /\ HurtsOnly({k}) /\ Survived
         /\ k \notin hurt' => x = steps[Len(steps)]
         /\ x # steps[Len(steps)] => mishaps' = mishaps + 1
         /\ k \notin hurt' \/ mishaps' = mishaps + 1
BY DEF HandlersTypeOK, Leaves, HurtsOnly, Survived

(* A handler counts the request it serves.                                 *)
LEMMA RequestsAreCounted ==
  ASSUME HandlersTypeOK(Record), Request \/ UNCHANGED edits
  PROVE  edits' \in Nat
BY DEF HandlersTypeOK, Request

-----------------------------------------------------------------------------

(* The bytes of a version are bytes the file had, and a document that is   *)
(* found has a file.                                                       *)
DocumentSound(x) ==
  /\ x \in DocumentState
  /\ x.meta # "none" => x.file # NoFile
  /\ x.file = NoFile => x.versions = << >>

DocumentSettled(x) == x.versions # << >> => Latest(x.versions) = x.file

(* The invariant of the documents.                                         *)
DocumentsInv ==
  /\ doc \in [Document -> DocumentState]
  /\ \A d \in Document : DocumentSound(doc[d]) /\ (d \notin hurt => DocumentSettled(doc[d]))

(* Nothing a handler writes drops a version, and it saves what it          *)
(* overwrites.                                                             *)
Preserves(x, y) ==
  x.meta # "none" /\ y.file # x.file =>
    \E n \in DOMAIN y.versions :
      /\ y.versions[n] = x.file
      /\ SubSeq(y.versions, 1, Len(x.versions)) = x.versions

(* What is appended is last, and all before it stays.                      *)
LEMMA AppendedLast ==
  ASSUME NEW S, NEW s \in Seq(S), NEW a \in S
  PROVE  /\ Append(s, a) \in Seq(S) /\ Append(s, a) # << >> /\ Latest(Append(s, a)) = a
         /\ Len(Append(s, a)) = Len(s) + 1 /\ DOMAIN Append(s, a) = 1..(Len(s) + 1)
         /\ \A i \in 1..Len(s) : Append(s, a)[i] = s[i]
         /\ Append(s, a)[Len(s) + 1] = a
         /\ SubSeq(Append(s, a), 1, Len(s)) = s
<1>1. Len(s) \in Nat
  OBVIOUS
<1>2. /\ Append(s, a) \in Seq(S) /\ Append(s, a) # << >> /\ Len(Append(s, a)) = Len(s) + 1
      /\ \A i \in 1..Len(s) : Append(s, a)[i] = s[i]
      /\ Append(s, a)[Len(s) + 1] = a
  BY AppendProperties
<1>3. DOMAIN Append(s, a) = 1..(Len(s) + 1)
  BY <1>2
<1>4. SubSeq(Append(s, a), 1, Len(s)) = s
  <2> DEFINE t == Append(s, a)
  <2>1. t \in Seq(S) /\ Len(t) = Len(s) + 1 /\ \A i \in 1..Len(s) : t[i] = s[i]
    BY <1>2
  <2> HIDE DEF t
  <2>2. /\ SubSeq(t, 1, Len(s)) \in Seq(S) /\ Len(SubSeq(t, 1, Len(s))) = Len(s)
        /\ \A i \in 1..Len(s) : SubSeq(t, 1, Len(s))[i] = t[i]
    BY <1>1, <2>1
  <2>3. QED
    BY <2>1, <2>2, SeqEqual DEF t
<1>5. QED
  BY <1>2, <1>3, <1>4 DEF Latest

(* What is saved before it is overwritten can be rolled back to, also when *)
(* one more version follows.                                               *)
LEMMA SavedIsPreserved ==
  ASSUME NEW x \in DocumentState, x.file # NoFile, NEW y \in DocumentState,
         \/ y.versions = Snapshot(x).versions
         \/ \E b \in Bytes \cup {Torn} : y.versions = Append(Snapshot(x).versions, b)
  PROVE  Preserves(x, y)
<1> DEFINE v == x.versions
           saved == Append(v, x.file)
           n == Len(v) + 1
<1>1. v \in Seq(Bytes \cup {Torn}) /\ x.file \in Bytes \cup {Torn} /\ Len(v) \in Nat
  BY DEF DocumentState
<1>2. Snapshot(x).versions = saved
  BY DEF Snapshot, DocumentState
<1>3. /\ saved \in Seq(Bytes \cup {Torn}) /\ Len(saved) = n /\ n \in DOMAIN saved
      /\ saved[n] = x.file /\ SubSeq(saved, 1, Len(v)) = v
      /\ \A i \in 1..Len(v) : saved[i] = v[i]
  BY <1>1, AppendedLast
<1>4. CASE y.versions = saved
  BY <1>3, <1>4 DEF Preserves
<1>5. ASSUME NEW b \in Bytes \cup {Torn}, y.versions = Append(saved, b) PROVE Preserves(x, y)
  <2> DEFINE w == Append(saved, b)
  <2> HIDE DEF saved
  <2>1. /\ w \in Seq(Bytes \cup {Torn}) /\ Len(w) = n + 1 /\ DOMAIN w = 1..(n + 1)
        /\ \A i \in 1..n : w[i] = saved[i]
    BY <1>3, AppendedLast
  <2> HIDE DEF w
  <2>2. n \in DOMAIN w /\ w[n] = x.file
    BY <1>1, <1>3, <2>1
  <2>3. /\ SubSeq(w, 1, Len(v)) \in Seq(Bytes \cup {Torn}) /\ Len(SubSeq(w, 1, Len(v))) = Len(v)
        /\ \A i \in 1..Len(v) : SubSeq(w, 1, Len(v))[i] = w[i]
    BY <1>1, <2>1
  <2>4. \A i \in 1..Len(v) : SubSeq(w, 1, Len(v))[i] = v[i]
    BY <1>1, <1>3, <2>1, <2>3
  <2>5. SubSeq(w, 1, Len(v)) = v
    BY <1>1, <2>3, <2>4, SeqEqual
  <2>6. QED
    BY <1>5, <2>2, <2>5 DEF Preserves, w
<1>6. QED
  BY <1>2, <1>4, <1>5

(* Whatever state a handler leaves its document in.                        *)
LEMMA DocumentBecomes ==
  ASSUME DocumentsInv, HandlersTypeOK(Record), NEW d \in Document, NEW steps, Become(d, steps),
         \A i \in DOMAIN steps : DocumentSound(steps[i]) /\ Preserves(doc[d], steps[i]),
         Len(steps) \in DOMAIN steps, DocumentSettled(steps[Len(steps)])
  PROVE  /\ DocumentsInv' /\ hurt' \subseteq Record /\ HurtsOnly(Document) /\ Survived
         /\ \A e \in Document : Preserves(doc[e], doc'[e])
<1>1. PICK x \in {steps[i] : i \in DOMAIN steps} :
        Leaves(d, steps, x) /\ doc' = [doc EXCEPT ![d] = x]
  BY DEF Become
<1>2. DocumentSound(x) /\ Preserves(doc[d], x)
  BY <1>1
<1>3. d \in Record
  BY RecordsOfAKind
<1>4. /\ hurt' \subseteq Record /\ HurtsOnly({d}) /\ Survived
      /\ d \notin hurt' => x = steps[Len(steps)]
  BY <1>1, <1>3, LeavesOneAlone
<1>5. \A e \in Document : doc'[e] = IF e = d THEN x ELSE doc[e]
  BY <1>1 DEF DocumentsInv
<1>6. doc' \in [Document -> DocumentState]
  BY <1>1, <1>2 DEF DocumentsInv, DocumentSound
<1>7. ASSUME NEW e \in Document
      PROVE  DocumentSound(doc'[e]) /\ (e \notin hurt' => DocumentSettled(doc'[e]))
  BY <1>2, <1>4, <1>5 DEF DocumentsInv, HurtsOnly
<1>8. ASSUME NEW e \in Document PROVE Preserves(doc[e], doc'[e])
  BY <1>2, <1>5 DEF Preserves
<1>9. HurtsOnly(Document)
  BY <1>4 DEF HurtsOnly
<1>10. DocumentsInv'
  BY <1>6, <1>7 DEF DocumentsInv
<1>11. QED
  BY <1>4, <1>8, <1>9, <1>10

(* A first upload has no versions and hides no bytes.                      *)
LEMMA StoringIsSafe ==
  ASSUME DocumentsInv, HandlersTypeOK(Record), NEW d \in Document, NEW b \in Bytes, StoreDocument(d, b)
  PROVE  /\ DocumentsInv' /\ hurt' \subseteq Record /\ HurtsOnly(Document) /\ Survived
         /\ \A e \in Document : Preserves(doc[e], doc'[e])
<1> DEFINE x == doc[d]
           written == [x EXCEPT !.file = b]
           steps == << [x EXCEPT !.file = Torn], written,
                       [written EXCEPT !.meta = "torn"], [written EXCEPT !.meta = "whole"] >>
<1>1. x.file = NoFile /\ Become(d, steps)
  BY DEF StoreDocument
<1>2. DocumentSound(x) /\ x \in DocumentState /\ x.meta = "none" /\ x.versions = << >>
  BY <1>1 DEF DocumentsInv, DocumentSound
<1>3. \A i \in DOMAIN steps : DocumentSound(steps[i])
  <2>1. b # NoFile /\ Torn # NoFile
    BY DocumentAssumption
  <2>2. DocumentSound([x EXCEPT !.file = Torn]) /\ DocumentSound(written)
    BY <1>2, <2>1 DEF DocumentSound, DocumentState
  <2>3. DocumentSound([written EXCEPT !.meta = "torn"]) /\ DocumentSound([written EXCEPT !.meta = "whole"])
    BY <1>2, <2>1 DEF DocumentSound, DocumentState
  <2>4. QED
    BY <2>2, <2>3
<1>4. \A i \in DOMAIN steps : Preserves(x, steps[i])
  BY <1>2 DEF Preserves
<1>5. Len(steps) \in DOMAIN steps /\ DocumentSettled(steps[Len(steps)])
  <2> DEFINE last == [written EXCEPT !.meta = "whole"]
  <2>1. last.versions = << >>
    BY <1>2 DEF DocumentState
  <2> HIDE DEF last
  <2>2. DocumentSettled(last)
    BY <2>1 DEF DocumentSettled
  <2>3. Len(steps) \in DOMAIN steps /\ steps[Len(steps)] = last
    BY DEF last
  <2>4. QED
    BY <2>2, <2>3
<1> HIDE DEF steps
<1>6. QED
  BY <1>1, <1>3, <1>4, <1>5, DocumentBecomes

(* Of a document that is found, the saved state and those after it.        *)
Overwritten(x, b) == [Snapshot(x) EXCEPT !.file = b]
Unfound(x, b) == [Overwritten(x, b) EXCEPT !.meta = "torn"]
Replaced(x, b) == Snapshot(Overwritten(x, b))

(* The states a replacement passes through: each is sound, and the last is *)
(* settled.                                                                *)
LEMMA SavingIsSound ==
  ASSUME NEW x, DocumentSound(x), x.meta = "whole", NEW b \in Bytes \cup {Torn}
  PROVE  /\ \A y \in {Snapshot(x), Overwritten(x, b), Unfound(x, b), Replaced(x, b)} :
              DocumentSound(y) /\ Preserves(x, y)
         /\ DocumentSettled(Replaced(x, b))
<1> DEFINE v == Append(x.versions, x.file)
           w == Append(v, b)
           State(file, meta, versions) == [file |-> file, meta |-> meta, versions |-> versions]
<1>1. x \in DocumentState /\ x.file # NoFile /\ x.file \in Bytes \cup {Torn} /\ b # NoFile
  BY DocumentAssumption DEF DocumentSound, DocumentState
<1>2. v \in Seq(Bytes \cup {Torn})
  BY <1>1, AppendedLast DEF DocumentState
<1>3. Snapshot(x) = State(x.file, "whole", v)
  BY <1>1 DEF Snapshot, DocumentState
<1> HIDE DEF v
<1>4. w \in Seq(Bytes \cup {Torn}) /\ w # << >> /\ Latest(w) = b
  BY <1>2, AppendedLast
<1>5. Overwritten(x, b) = State(b, "whole", v)
  BY <1>3 DEF Overwritten
<1>6. Unfound(x, b) = State(b, "torn", v)
  BY <1>5 DEF Unfound
<1>7. Replaced(x, b) = State(b, "whole", w)
  BY <1>5 DEF Replaced, Snapshot
<1> HIDE DEF w
<1>8. ASSUME NEW file \in {x.file, b}, NEW meta \in {"torn", "whole"}, NEW u \in {v, w}
      PROVE  DocumentSound(State(file, meta, u)) /\ Preserves(x, State(file, meta, u))
  <2> DEFINE y == State(file, meta, u)
  <2>1. y \in DocumentState /\ y.versions = u /\ y.file # NoFile
    BY <1>1, <1>2, <1>4 DEF DocumentState
  <2>2. Snapshot(x).versions = v
    BY <1>3
  <2>3. y.versions = Snapshot(x).versions \/ y.versions = Append(Snapshot(x).versions, b)
    BY <2>1, <2>2 DEF w
  <2> HIDE DEF y
  <2>4. Preserves(x, y)
    BY <1>1, <2>1, <2>3, SavedIsPreserved
  <2>5. DocumentSound(y)
    BY <2>1 DEF DocumentSound
  <2>6. QED
    BY <2>4, <2>5 DEF y
<1>9. DocumentSettled(State(b, "whole", w))
  BY <1>4 DEF DocumentSettled
<1> HIDE DEF State
<1>10. QED
  BY <1>3, <1>5, <1>6, <1>7, <1>8, <1>9

(* A replacement, cut short or not, preserves what it overwrites.          *)
LEMMA ReplacingIsSafe ==
  ASSUME DocumentsInv, HandlersTypeOK(Record), NEW d \in Document, NEW b \in Bytes,
         ReplaceDocumentBytes(d, b)
  PROVE  /\ DocumentsInv' /\ hurt' \subseteq Record /\ HurtsOnly(Document) /\ Survived
         /\ \A e \in Document : Preserves(doc[e], doc'[e])
<1> DEFINE saved == Snapshot(doc[d])
           written == Overwritten(doc[d], b)
           torn == Overwritten(doc[d], Torn)
           unfound == Unfound(doc[d], b)
           last == Replaced(doc[d], b)
           steps == << saved, torn, written, unfound, written, last >>
<1>1. DocumentSound(doc[d]) /\ doc[d].meta = "whole" /\ Become(d, steps)
  BY DEF ReplaceDocumentBytes, DocumentsInv, Overwritten, Unfound, Replaced
<1>2. \A y \in {saved, torn, written, unfound, last} : DocumentSound(y) /\ Preserves(doc[d], y)
  BY <1>1, SavingIsSound
<1>3. DocumentSettled(last)
  BY <1>1, SavingIsSound
<1> HIDE DEF saved, written, torn, unfound, last
<1>4. \A i \in DOMAIN steps : steps[i] \in {saved, torn, written, unfound, last}
  OBVIOUS
<1>5. Len(steps) \in DOMAIN steps /\ steps[Len(steps)] = last
  OBVIOUS
<1> HIDE DEF steps
<1>6. QED
  BY <1>1, <1>2, <1>3, <1>4, <1>5, DocumentBecomes

(* A rollback saves the current bytes before it writes the older ones.     *)
LEMMA RollingBackIsSafe ==
  ASSUME DocumentsInv, HandlersTypeOK(Record), NEW d \in Document, NEW n \in DOMAIN doc[d].versions,
         RollbackToVersion(d, n)
  PROVE  /\ DocumentsInv' /\ hurt' \subseteq Record /\ HurtsOnly(Document) /\ Survived
         /\ \A e \in Document : Preserves(doc[e], doc'[e])
<1> DEFINE saved == Snapshot(doc[d])
           b == saved.versions[n]
           written == Overwritten(doc[d], b)
           torn == Overwritten(doc[d], Torn)
           last == Replaced(doc[d], b)
           steps == << saved, torn, written, last >>
<1>1. DocumentSound(doc[d]) /\ doc[d].meta = "whole" /\ Become(d, steps)
  BY DEF RollbackToVersion, DocumentsInv, Overwritten, Replaced
<1>2. b \in Bytes \cup {Torn}
  <2>2. saved.versions = Append(doc[d].versions, doc[d].file)
    BY <1>1 DEF Snapshot, DocumentSound, DocumentState
  <2>3. doc[d].versions \in Seq(Bytes \cup {Torn}) /\ doc[d].file \in Bytes \cup {Torn}
    BY <1>1 DEF DocumentSound, DocumentState
  <2>4. n \in 1..Len(doc[d].versions)
    BY <2>3
  <2>5. saved.versions[n] = doc[d].versions[n]
    BY <2>2, <2>3, <2>4, AppendProperties
  <2>6. QED
    BY <2>3, <2>4, <2>5
<1>3. \A y \in {saved, torn, written, last} : DocumentSound(y) /\ Preserves(doc[d], y)
  BY <1>1, <1>2, SavingIsSound
<1>4. DocumentSettled(last)
  BY <1>1, <1>2, SavingIsSound
<1> HIDE DEF saved, written, torn, last
<1>5. \A i \in DOMAIN steps : steps[i] \in {saved, torn, written, last}
  OBVIOUS
<1>6. Len(steps) \in DOMAIN steps /\ steps[Len(steps)] = last
  OBVIOUS
<1> HIDE DEF steps
<1>7. QED
  BY <1>1, <1>3, <1>4, <1>5, <1>6, DocumentBecomes

(* Every handler of documents keeps the invariant, and preserves what it   *)
(* overwrites.                                                             *)
LEMMA DocumentsGoOn ==
  ASSUME DocumentsInv, HandlersTypeOK(Record), DocumentStep
  PROVE  /\ DocumentsInv' /\ HandlersTypeOK(Record)' /\ HurtsOnly(Document) /\ Survived
         /\ \A e \in Document : Preserves(doc[e], doc'[e])
<1>1. PICK d \in Document :
        \/ \E b \in Bytes : StoreDocument(d, b) \/ ReplaceDocumentBytes(d, b)
        \/ \E n \in DOMAIN doc[d].versions : RollbackToVersion(d, n)
  BY DEF DocumentStep
<1>2. Request
  BY <1>1 DEF StoreDocument, ReplaceDocumentBytes, RollbackToVersion
<1>3. /\ DocumentsInv' /\ hurt' \subseteq Record /\ HurtsOnly(Document) /\ Survived
      /\ \A e \in Document : Preserves(doc[e], doc'[e])
  BY <1>1, StoringIsSafe, ReplacingIsSafe, RollingBackIsSafe
<1>4. HandlersTypeOK(Record)'
  BY <1>2, <1>3, RequestsAreCounted DEF HandlersTypeOK, Survived
<1>5. QED
  BY <1>3, <1>4

LEMMA DocumentsStay ==
  ASSUME DocumentsInv, UNCHANGED doc, \A d \in Document : d \in hurt' <=> d \in hurt
  PROVE  DocumentsInv'
BY DEF DocumentsInv

-----------------------------------------------------------------------------

(* An entry whose last handler was not cut short.                          *)
EntrySettled(x) == x.versions # << >> => Latest(x.versions) = x.body /\ x.found = x.body
TemplateSettled(x) == x.versions # << >> => Latest(x.versions) = x.body

(* The invariant of entries and templates.                                 *)
TextsInv ==
  /\ entry \in [Entry -> EntryState]
  /\ template \in [Slug -> TemplateState]
  /\ \A e \in Entry : e \notin hurt => EntrySettled(entry[e])
  /\ \A s \in Slug : s \notin hurt => TemplateSettled(template[s])

LEMMA TextsStay ==
  ASSUME TextsInv, UNCHANGED textVars, \A r \in Entry \cup Slug : r \in hurt' <=> r \in hurt
  PROVE  TextsInv'
BY DEF TextsInv, textVars

LEMMA EntryIsLeft ==
  ASSUME TextsInv, HandlersTypeOK(Record), NEW e \in Entry, NEW steps, EntryBecomes(e, steps),
         \A i \in DOMAIN steps : steps[i] \in EntryState,
         EntrySettled(steps[Len(steps)])
  PROVE  TextsInv' /\ hurt' \subseteq Record /\ HurtsOnly(Entry \cup Slug) /\ Survived
<1>1. PICK x \in {steps[i] : i \in DOMAIN steps} :
        Leaves(e, steps, x) /\ entry' = [entry EXCEPT ![e] = x]
  BY DEF EntryBecomes
<1>2. x \in EntryState /\ UNCHANGED template
  BY <1>1 DEF EntryBecomes
<1>3. e \in Record /\ e \notin Slug
  BY RecordsOfAKind, KindsAreApart
<1>4. /\ hurt' \subseteq Record /\ HurtsOnly({e}) /\ Survived
      /\ e \notin hurt' => x = steps[Len(steps)]
  BY <1>1, <1>3, LeavesOneAlone
<1>5. \A f \in Entry : entry'[f] = IF f = e THEN x ELSE entry[f]
  BY <1>1 DEF TextsInv
<1>6. entry' \in [Entry -> EntryState]
  BY <1>1, <1>2 DEF TextsInv
<1>7. \A f \in Entry : f \notin hurt' => EntrySettled(entry'[f])
  BY <1>4, <1>5 DEF TextsInv, HurtsOnly
<1>8. \A s \in Slug : s \notin hurt' => TemplateSettled(template'[s])
  BY <1>2, <1>3, <1>4 DEF TextsInv, HurtsOnly
<1>9. HurtsOnly(Entry \cup Slug)
  BY <1>4 DEF HurtsOnly
<1>10. QED
  BY <1>2, <1>4, <1>6, <1>7, <1>8, <1>9 DEF TextsInv

LEMMA TemplateIsLeft ==
  ASSUME TextsInv, HandlersTypeOK(Record), NEW s \in Slug, NEW steps, TemplateBecomes(s, steps),
         \A i \in DOMAIN steps : steps[i] \in TemplateState,
         TemplateSettled(steps[Len(steps)])
  PROVE  TextsInv' /\ hurt' \subseteq Record /\ HurtsOnly(Entry \cup Slug) /\ Survived
<1>1. PICK x \in {steps[i] : i \in DOMAIN steps} :
        Leaves(s, steps, x) /\ template' = [template EXCEPT ![s] = x]
  BY DEF TemplateBecomes
<1>2. x \in TemplateState /\ UNCHANGED entry
  BY <1>1 DEF TemplateBecomes
<1>3. s \in Record /\ s \notin Entry
  BY RecordsOfAKind, KindsAreApart
<1>4. /\ hurt' \subseteq Record /\ HurtsOnly({s}) /\ Survived
      /\ s \notin hurt' => x = steps[Len(steps)]
  BY <1>1, <1>3, LeavesOneAlone
<1>5. \A t \in Slug : template'[t] = IF t = s THEN x ELSE template[t]
  BY <1>1 DEF TextsInv
<1>6. template' \in [Slug -> TemplateState]
  BY <1>1, <1>2 DEF TextsInv
<1>7. \A t \in Slug : t \notin hurt' => TemplateSettled(template'[t])
  BY <1>4, <1>5 DEF TextsInv, HurtsOnly
<1>8. \A e \in Entry : e \notin hurt' => EntrySettled(entry'[e])
  BY <1>2, <1>3, <1>4 DEF TextsInv, HurtsOnly
<1>9. HurtsOnly(Entry \cup Slug)
  BY <1>4 DEF HurtsOnly
<1>10. QED
  BY <1>2, <1>4, <1>6, <1>7, <1>8, <1>9 DEF TextsInv

LEMMA TwoAndTwo ==
  ASSUME NEW a, NEW b, NEW c, NEW d PROVE << a, b >> \o << c, d >> = << a, b, c, d >>
<1> DEFINE S == {a, b, c, d}
           p == << a, b >>
           q == << c, d >>
           r == << a, b, c, d >>
<1>1. p \in Seq(S) /\ q \in Seq(S) /\ r \in Seq(S) /\ Len(p) = 2 /\ Len(q) = 2 /\ Len(r) = 4
  OBVIOUS
<1>2. p[1] = r[1] /\ p[2] = r[2] /\ q[1] = r[3] /\ q[2] = r[4]
  OBVIOUS
<1> HIDE DEF p, q, r, S
<1> DEFINE t == p \o q
<1>3. /\ t \in Seq(S) /\ Len(t) = Len(p) + Len(q)
      /\ \A i \in 1..(Len(p) + Len(q)) : t[i] = IF i <= Len(p) THEN p[i] ELSE q[i - Len(p)]
  BY <1>1, ConcatProperties
<1> HIDE DEF t
<1>4. \A i \in 1..4 : t[i] = r[i]
  <2>1. t[1] = p[1] /\ t[2] = p[2]
    BY <1>1, <1>3
  <2>2. t[3] = q[3 - 2] /\ t[4] = q[4 - 2]
    BY <1>1, <1>3
  <2>3. QED
    BY <1>2, <2>1, <2>2
<1>5. p \o q = r
  BY <1>1, <1>3, <1>4, SeqEqual DEF t
<1>6. QED
  BY <1>5 DEF p, q, r

(* Saving an entry: body, version, index.                                  *)
LEMMA SavingAnEntryIsSafe ==
  ASSUME TextsInv, HandlersTypeOK(Record), NEW e \in Entry, NEW b \in Text, SaveKnowledgeEntry(e, b)
  PROVE  TextsInv' /\ hurt' \subseteq Record /\ HurtsOnly(Entry \cup Slug) /\ Survived
<1> DEFINE x == entry[e]
           v == Append(x.versions, b)
           State(versions, found) == [body |-> b, versions |-> versions, found |-> found]
           written == [x EXCEPT !.body = b]
           noted == [written EXCEPT !.versions = Append(@, b)]
           unindexed == [noted EXCEPT !.found = NoText]
           indexed == [noted EXCEPT !.found = b]
           steps == << written, noted, unindexed, indexed >>
<1>1. x \in EntryState
  BY DEF TextsInv
<1>2. v \in Seq(Text) /\ Latest(v) = b
  BY <1>1, AppendedLast DEF EntryState
<1>3. written = State(x.versions, x.found)
  BY <1>1 DEF EntryState
<1>4. EntryBecomes(e, steps)
  <2>1. EntryBecomes(e, << written, noted >> \o Index(noted, b))
    BY DEF SaveKnowledgeEntry
  <2> HIDE DEF noted
  <2>2. Index(noted, b) = << unindexed, indexed >>
    BY DEF Index
  <2> HIDE DEF written, unindexed, indexed
  <2>3. << written, noted >> \o << unindexed, indexed >> = << written, noted, unindexed, indexed >>
    BY TwoAndTwo
  <2>4. QED
    BY <2>1, <2>2, <2>3
<1> HIDE DEF written
<1>5. noted = State(v, x.found)
  BY <1>3
<1> HIDE DEF noted, v
<1>6. unindexed = State(v, NoText) /\ indexed = State(v, b)
  BY <1>5
<1> HIDE DEF unindexed, indexed
<1>7. \A y \in {written, noted, unindexed, indexed} : y \in EntryState
  BY <1>1, <1>2, <1>3, <1>5, <1>6 DEF EntryState
<1>8. EntrySettled(indexed)
  BY <1>2, <1>6 DEF EntrySettled
<1>9. /\ \A i \in DOMAIN steps : steps[i] \in {written, noted, unindexed, indexed}
      /\ steps[Len(steps)] = indexed
  OBVIOUS
<1> HIDE DEF steps
<1>10. QED
  BY <1>4, <1>7, <1>8, <1>9, EntryIsLeft

(* An upsert of a template, which saves the text it replaces when that     *)
(* differs.                                                                *)
LEMMA UpsertingIsSafe ==
  ASSUME TextsInv, HandlersTypeOK(Record), NEW s \in Slug, NEW b \in Text, UpsertTemplate(s, b)
  PROVE  TextsInv' /\ hurt' \subseteq Record /\ HurtsOnly(Entry \cup Slug) /\ Survived
<1> DEFINE x == template[s]
           v == Append(x.versions, b)
           State(body, versions) == [body |-> body, versions |-> versions]
           last == State(b, v)
<1>1. x \in TemplateState
  BY DEF TextsInv
<1>2. v \in Seq(Text) /\ Latest(v) = b
  BY <1>1, AppendedLast DEF TemplateState
<1> DEFINE written == [x EXCEPT !.body = b]
           noted == [x EXCEPT !.versions = Append(@, b)]
<1>3. written = State(b, x.versions) /\ noted = State(x.body, v)
  <2> HIDE DEF x
  <2>1. x = State(x.body, x.versions)
    BY <1>1 DEF TemplateState
  <2>2. written = State(b, x.versions)
    BY <2>1
  <2>3. noted = State(x.body, v)
    BY <2>1
  <2>4. QED
    BY <2>2, <2>3
<1>4. [written EXCEPT !.versions = Append(@, b)] = last /\ [noted EXCEPT !.body = b] = last
  <2> HIDE DEF written, noted
  <2>1. written.versions = x.versions /\ noted.versions = v
    BY <1>3
  <2>2. [written EXCEPT !.versions = Append(@, b)] = [written EXCEPT !.versions = v]
    BY <2>1
  <2> HIDE DEF v, x
  <2>3. [written EXCEPT !.versions = v] = last /\ [noted EXCEPT !.body = b] = last
    BY <1>3
  <2>4. QED
    BY <2>2, <2>3
<1>5. \/ TemplateBecomes(s, << State(b, x.versions), last >>)
      \/ TemplateBecomes(s, << State(x.body, v), last >>)
      \/ UNCHANGED <<textVars, mishaps, hurt>>
  BY <1>3, <1>4 DEF UpsertTemplate
<1> HIDE DEF v
<1>6. /\ State(b, x.versions) \in TemplateState /\ State(x.body, v) \in TemplateState
      /\ last \in TemplateState /\ TemplateSettled(last)
  BY <1>1, <1>2 DEF TemplateState, TemplateSettled
<1> HIDE DEF State
<1>7. ASSUME NEW y \in TemplateState, TemplateBecomes(s, << y, last >>)
      PROVE  TextsInv' /\ hurt' \subseteq Record /\ HurtsOnly(Entry \cup Slug) /\ Survived
  <2> DEFINE steps == << y, last >>
  <2>1. (\A i \in DOMAIN steps : steps[i] \in TemplateState) /\ steps[Len(steps)] = last
    BY <1>6
  <2>2. TemplateBecomes(s, steps)
    BY <1>7
  <2> HIDE DEF steps
  <2>3. QED
    BY <1>6, <2>1, <2>2, TemplateIsLeft
<1>8. CASE UNCHANGED <<textVars, mishaps, hurt>>
  BY <1>8, TextsStay DEF HandlersTypeOK, HurtsOnly, Survived
<1>9. QED
  BY <1>5, <1>6, <1>7, <1>8

(* Every handler of texts keeps the invariant.                             *)
LEMMA TextsGoOn ==
  ASSUME TextsInv, HandlersTypeOK(Record), TextStep
  PROVE  TextsInv' /\ HandlersTypeOK(Record)' /\ HurtsOnly(Entry \cup Slug) /\ Survived
<1>1. \/ \E e \in Entry, b \in Text : SaveKnowledgeEntry(e, b)
      \/ \E s \in Slug, b \in Text : EditTemplate(s, b)
      \/ \E s \in BuiltIn : LoadBuiltIn(s)
  BY DEF TextStep
<1>2. Request \/ UNCHANGED edits
  BY <1>1 DEF SaveKnowledgeEntry, EditTemplate, LoadBuiltIn
<1>3. \A s \in BuiltIn : s \in Slug /\ ShippedText[s] \in Text
  BY TextAssumption
<1>4. TextsInv' /\ hurt' \subseteq Record /\ HurtsOnly(Entry \cup Slug) /\ Survived
  BY <1>1, <1>3, SavingAnEntryIsSafe, UpsertingIsSafe DEF EditTemplate, LoadBuiltIn
<1>5. QED
  BY <1>2, <1>4, RequestsAreCounted DEF HandlersTypeOK, Survived

-----------------------------------------------------------------------------

(* An upload that awaits its comparison counted the versions there were,   *)
(* and was compared with the last of them: none of those has changed.      *)
Follows(v, versions) ==
  /\ v.number <= Len(versions) + 1
  /\ v.against = IF v.number = 1 THEN NoDraft ELSE versions[v.number - 1].draft

(* The invariant of negotiations: the drafts form a chain, and every call  *)
(* that is under way follows one of its drafts.                            *)
DealsInv ==
  /\ deal \in [Negotiation -> DealState]
  /\ calls \subseteq Call
  /\ \A n \in Negotiation : \A i \in DOMAIN deal[n].versions :
       /\ deal[n].versions[i].number = i
       /\ deal[n].versions[i].against = IF i = 1 THEN NoDraft ELSE deal[n].versions[i - 1].draft
  /\ \A c \in calls : Follows(c.version, deal[c.to].versions)

LEMMA DealsStay == ASSUME DealsInv, UNCHANGED dealVars PROVE DealsInv'
BY DEF DealsInv, dealVars

(* A row that is inserted where the chain ends.                            *)
LEMMA InsertingKeepsTheChain ==
  ASSUME DealsInv, HandlersTypeOK(Record), NEW n \in Negotiation, NEW v \in Version, Insert(n, v),
         Follows(v, deal[n].versions), v.number = Len(deal[n].versions) + 1,
         calls' \subseteq calls
  PROVE  DealsInv' /\ hurt' \subseteq Record /\ HurtsOnly(Negotiation) /\ Survived
<1> DEFINE versions == deal[n].versions
           m == Len(versions) + 1
           longer == Append(versions, v)
           inserted == [deal[n] EXCEPT !.versions = Append(@, v)]
           billed == IF v.against = NoDraft THEN inserted
                     ELSE [inserted EXCEPT !.billed = @ \cup {v.number}]
           summed == [billed EXCEPT !.summary = billed.versions]
           steps == << inserted, billed, summed >>
<1>1. PICK x \in {steps[i] : i \in DOMAIN steps} :
        Leaves(n, steps, x) /\ deal' = [deal EXCEPT ![n] = x]
  BY DEF Insert
<1>2. deal[n] \in DealState /\ versions \in Seq(Version) /\ Len(versions) \in Nat
  BY DEF DealsInv, DealState
<1>3. /\ longer \in Seq(Version) /\ DOMAIN longer = 1..m /\ Len(longer) = m
      /\ longer[m] = v /\ \A i \in 1..Len(versions) : longer[i] = versions[i]
  BY <1>2, AppendedLast
<1>4. inserted \in DealState /\ inserted.versions = longer
  BY <1>2, <1>3 DEF DealState
<1> HIDE DEF longer, inserted
<1>5. billed \in DealState /\ billed.versions = longer
  <2>1. v.number \in Nat
    BY DEF Version
  <2>2. QED
    BY <1>4, <2>1 DEF DealState
<1> HIDE DEF billed
<1>6. summed \in DealState /\ summed.versions = longer
  BY <1>3, <1>5 DEF DealState
<1> HIDE DEF summed
<1>7. x \in DealState /\ x.versions = longer
  BY <1>1, <1>4, <1>5, <1>6
<1> HIDE DEF steps
<1>8. \A k \in Negotiation : deal'[k] = IF k = n THEN x ELSE deal[k]
  BY <1>1 DEF DealsInv
<1>9. deal' \in [Negotiation -> DealState]
  BY <1>1, <1>7 DEF DealsInv
<1>10. ASSUME NEW k \in Negotiation, NEW i \in DOMAIN deal'[k].versions
       PROVE  /\ deal'[k].versions[i].number = i
              /\ deal'[k].versions[i].against =
                   IF i = 1 THEN NoDraft ELSE deal'[k].versions[i - 1].draft
  <2>1. CASE k # n
    BY <1>8, <2>1 DEF DealsInv
  <2>2. CASE k = n
    <3>1. deal'[k].versions = longer /\ i \in 1..m
      BY <1>3, <1>7, <1>8, <2>2
    <3>2. CASE i = m
      BY <1>2, <1>3, <3>1, <3>2 DEF Follows
    <3>3. CASE i # m
      <4>1. i \in 1..Len(versions) /\ i \in DOMAIN versions /\ (i # 1 => i - 1 \in 1..Len(versions))
        BY <1>2, <3>1, <3>3
      <4>2. /\ versions[i].number = i
            /\ versions[i].against = IF i = 1 THEN NoDraft ELSE versions[i - 1].draft
        BY <4>1 DEF DealsInv
      <4>3. QED
        BY <1>3, <3>1, <4>1, <4>2
    <3>4. QED
      BY <3>2, <3>3
  <2>3. QED
    BY <2>1, <2>2
<1>11. ASSUME NEW c \in calls' PROVE Follows(c.version, deal'[c.to].versions)
  <2>1. /\ c \in calls /\ c.to \in Negotiation /\ Follows(c.version, deal[c.to].versions)
        /\ c.version.number \in Nat /\ c.version.number > 0
    BY DEF DealsInv, Call, Version
  <2>2. CASE c.to # n
    BY <1>8, <2>1, <2>2
  <2>3. CASE c.to = n
    <3>1. deal'[c.to].versions = longer
      BY <1>7, <1>8, <2>3
    <3>2. c.version.number <= m /\ m <= m + 1
      BY <1>2, <2>1, <2>3 DEF Follows
    <3>3. c.version.number <= Len(longer) + 1
      BY <1>2, <1>3, <2>1, <3>2
    <3>4. c.version.number # 1 => c.version.number - 1 \in 1..Len(versions)
      BY <1>2, <2>1, <3>2
    <3>5. QED
      BY <1>3, <2>1, <2>3, <3>1, <3>3, <3>4 DEF Follows
  <2>4. QED
    BY <2>2, <2>3
<1>12. DealsInv'
  BY <1>9, <1>10, <1>11 DEF DealsInv
<1>13. n \in Record
  BY RecordsOfAKind
<1>14. hurt' \subseteq Record /\ HurtsOnly({n}) /\ Survived
  BY <1>1, <1>13, LeavesOneAlone
<1>15. HurtsOnly(Negotiation)
  BY <1>14 DEF HurtsOnly
<1>16. QED
  BY <1>12, <1>14, <1>15

(* Every handler of negotiations keeps the chain, the ones that return     *)
(* from a call included.                                                   *)
LEMMA DealsGoOn ==
  ASSUME DealsInv, HandlersTypeOK(Record), NegotiationStep
  PROVE  DealsInv' /\ HandlersTypeOK(Record)' /\ HurtsOnly(Negotiation) /\ Survived
<1>1. ASSUME NEW n \in Negotiation, NEW d \in Draft, AddFirstVersion(n, d)
      PROVE  DealsInv' /\ HandlersTypeOK(Record)' /\ HurtsOnly(Negotiation) /\ Survived
  <2> DEFINE v == [number |-> 1, draft |-> d, against |-> NoDraft]
  <2>1. v \in Version
    BY DEF Version
  <2>2. Len(deal[n].versions) = 0 /\ Insert(n, v) /\ UNCHANGED calls /\ Request
    BY <1>1 DEF AddFirstVersion
  <2>3. Follows(v, deal[n].versions) /\ v.number = Len(deal[n].versions) + 1
    BY <2>2 DEF Follows
  <2> HIDE DEF v
  <2>4. DealsInv' /\ hurt' \subseteq Record /\ HurtsOnly(Negotiation) /\ Survived
    BY <2>1, <2>2, <2>3, InsertingKeepsTheChain
  <2>5. QED
    BY <2>2, <2>4, RequestsAreCounted DEF HandlersTypeOK, Survived
<1>2. ASSUME NEW u \in Upload, NEW n \in Negotiation, NEW d \in Draft, AddContractVersion(u, n, d)
      PROVE  DealsInv' /\ HandlersTypeOK(Record)' /\ HurtsOnly(Negotiation) /\ Survived
  <2> DEFINE versions == deal[n].versions
             v == [number |-> Len(versions) + 1, draft |-> d, against |-> versions[Len(versions)].draft]
             c == [by |-> u, to |-> n, version |-> v]
  <2>1. /\ versions # << >> /\ calls' = calls \cup {c} /\ Request
        /\ UNCHANGED <<deal, mishaps, hurt>>
    BY <1>2 DEF AddContractVersion
  <2>2. versions \in Seq(Version) /\ Len(versions) \in Nat /\ Len(versions) \in DOMAIN versions
    BY <2>1 DEF DealsInv, DealState
  <2>3. versions[Len(versions)].draft \in Draft
    <3>1. versions[Len(versions)] \in Version
      BY <2>2
    <3>2. QED
      BY <3>1 DEF Version
  <2>4. c \in Call
    BY <2>2, <2>3 DEF Call, Version
  <2>5. Follows(v, versions)
    BY <2>1, <2>2 DEF Follows
  <2>6. c.version = v /\ c.to = n
    OBVIOUS
  <2> HIDE DEF c, v
  <2>7. DealsInv'
    BY <2>1, <2>4, <2>5, <2>6 DEF DealsInv
  <2>8. QED
    BY <2>1, <2>7, RequestsAreCounted DEF HandlersTypeOK, Survived, HurtsOnly
<1>3. ASSUME NEW c \in calls, Compared(c)
      PROVE  DealsInv' /\ HandlersTypeOK(Record)' /\ HurtsOnly(Negotiation) /\ Survived
  <2> DEFINE v == c.version
             versions == deal[c.to].versions
  <2>1. /\ c.to \in Negotiation /\ v \in Version /\ v.number \in Nat /\ v.number > 0
        /\ Follows(v, versions)
    BY DEF DealsInv, Call, Version
  <2>2. /\ NumberIsFree(c.to, v.number) /\ Insert(c.to, v) /\ calls' \subseteq calls
        /\ UNCHANGED edits
    BY <1>3 DEF Compared
  <2>3. v.number = Len(versions) + 1
    <3>1. versions \in Seq(Version) /\ Len(versions) \in Nat /\ DOMAIN versions = 1..Len(versions)
      BY <2>1 DEF DealsInv, DealState
    <3>2. \A i \in 1..Len(versions) : i # v.number
      BY <2>1, <2>2, <3>1 DEF NumberIsFree, DealsInv
    <3>3. QED
      BY <2>1, <3>1, <3>2 DEF Follows
  <2>4. DealsInv' /\ hurt' \subseteq Record /\ HurtsOnly(Negotiation) /\ Survived
    BY <2>1, <2>2, <2>3, InsertingKeepsTheChain
  <2>5. QED
    BY <2>2, <2>4 DEF HandlersTypeOK, Survived
<1>4. ASSUME NEW c \in calls, UploadFails(c)
      PROVE  DealsInv' /\ HandlersTypeOK(Record)' /\ HurtsOnly(Negotiation) /\ Survived
  BY <1>4 DEF UploadFails, DealsInv, HandlersTypeOK, HurtsOnly, Survived, handlerVars
<1>5. QED
  BY <1>1, <1>2, <1>3, <1>4 DEF NegotiationStep

-----------------------------------------------------------------------------

(***************************************************************************)
(* The calendar.                                                           *)
(***************************************************************************)
CalendarInv ==
  /\ events \in Seq(Event)
  /\ repeated \in [Series -> Nat]
  /\ SeriesGoesOn

LEMMA CalendarStays ==
  ASSUME CalendarInv, UNCHANGED calendarVars, \A r \in User \cup Series : r \in hurt' <=> r \in hurt
  PROVE  CalendarInv'
<1>1. \A s \in Series : s[1] \in User
  BY DEF Series
<1>2. ASSUME NEW s \in Series PROVE {s, s[1]} \cap hurt' = {} => {s, s[1]} \cap hurt = {}
  BY <1>1
<1>3. QED
  BY <1>2 DEF CalendarInv, calendarVars, SeriesGoesOn, HasEvents, Open

LEMMA EventsAreTyped ==
  ASSUME CalendarInv
  PROVE  /\ Len(events) \in Nat /\ DOMAIN events = 1..Len(events)
         /\ \A i \in 1..Len(events) :
              /\ events[i] \in Event /\ events[i].of \in Series /\ events[i].of[1] \in User
              /\ events[i].year \in Nat /\ events[i].done \in BOOLEAN
         /\ \A s : IsFiniteSet(Open(s)) /\ Cardinality(Open(s)) \in Nat
<1>1. Len(events) \in Nat /\ DOMAIN events = 1..Len(events)
  BY DEF CalendarInv
<1>2. ASSUME NEW i \in 1..Len(events)
      PROVE  /\ events[i] \in Event /\ events[i].of \in Series /\ events[i].of[1] \in User
             /\ events[i].year \in Nat /\ events[i].done \in BOOLEAN
  <2>1. events[i] \in Event
    BY <1>1 DEF CalendarInv
  <2>2. QED
    BY <2>1 DEF Event, Series
<1>3. ASSUME NEW s PROVE IsFiniteSet(Open(s)) /\ Cardinality(Open(s)) \in Nat
  <2>1. IsFiniteSet(1..Len(events)) /\ Open(s) \subseteq 1..Len(events)
    BY <1>1, FS_Interval DEF Open
  <2>2. QED
    BY <2>1, FS_Subset, FS_CardinalityType
<1>4. QED
  BY <1>1, <1>2, <1>3

LEMMA NewEventsAreEvents ==
  ASSUME NEW s \in Series, NEW y \in Nat
  PROVE  /\ NewEvent(s, y) \in Event /\ NewEvent(s, y).of = s /\ NewEvent(s, y).done = FALSE
BY DEF NewEvent, Event

(* The events of a lawyer who had none.                                    *)
LEMMA SeededEvents ==
  ASSUME CalendarInv, NEW u \in User, NEW k \in DOMAIN SeedTemplates
  PROVE  /\ events \o Seeded(u, k) \in Seq(Event)
         /\ Len(events \o Seeded(u, k)) = Len(events) + k
         /\ \A i \in 1..Len(events) : (events \o Seeded(u, k))[i] = events[i]
         /\ \A j \in 1..k :
              /\ SeedTemplates[j] \in Duty /\ <<u, SeedTemplates[j]>> \in Series
              /\ (events \o Seeded(u, k))[Len(events) + j] = NewEvent(<<u, SeedTemplates[j]>>, 0)
<1> DEFINE n == Len(events)
           t == events \o Seeded(u, k)
<1>1. SeedTemplates \in Seq(Duty) /\ k \in 1..Len(SeedTemplates)
  BY CalendarAssumption
<1>2. n \in Nat /\ events \in Seq(Event) /\ k \in Nat
  BY <1>1, EventsAreTyped DEF CalendarInv
<1>3. \A j \in 1..k : SeedTemplates[j] \in Duty /\ <<u, SeedTemplates[j]>> \in Series
  BY <1>1 DEF Series
<1>4. \A j \in 1..k : NewEvent(<<u, SeedTemplates[j]>>, 0) \in Event
  BY <1>3, NewEventsAreEvents
<1>5. Seeded(u, k) \in Seq(Event) /\ Len(Seeded(u, k)) = k
  <2>1. Seeded(u, k) \in [1..k -> Event]
    BY <1>4 DEF Seeded
  <2>2. QED
    BY <1>2, <2>1
<1>6. \A j \in 1..k : Seeded(u, k)[j] = NewEvent(<<u, SeedTemplates[j]>>, 0)
  BY DEF Seeded
<1>7. /\ t \in Seq(Event) /\ Len(t) = n + k
      /\ \A i \in 1..(n + k) : t[i] = IF i <= n THEN events[i] ELSE Seeded(u, k)[i - n]
  BY <1>2, <1>5, ConcatProperties
<1> HIDE DEF t
<1>8. \A i \in 1..n : t[i] = events[i]
  BY <1>2, <1>7
<1>9. ASSUME NEW j \in 1..k PROVE t[n + j] = NewEvent(<<u, SeedTemplates[j]>>, 0)
  <2>1. n + j \in 1..(n + k) /\ ~(n + j <= n) /\ (n + j) - n = j
    BY <1>2
  <2>2. t[n + j] = Seeded(u, k)[j]
    BY <1>7, <2>1
  <2>3. QED
    BY <1>6, <2>2
<1>10. QED
  BY <1>3, <1>7, <1>8, <1>9 DEF t

LEMMA AtMostOne ==
  ASSUME NEW S, \A i, j \in S : i = j
  PROVE  IsFiniteSet(S) /\ Cardinality(S) <= 1
<1>1. CASE S = {}
  BY <1>1, FS_EmptySet
<1>2. CASE S # {}
  <2>1. PICK x \in S : S = {x}
    BY <1>2
  <2>2. IsFiniteSet({x}) /\ Cardinality({x}) = 1
    BY FS_Singleton
  <2>3. QED
    BY <2>1, <2>2
<1>3. QED
  BY <1>1, <1>2

(* The seeding of a lawyer's calendar.                                     *)
LEMMA SeedingIsSafe ==
  ASSUME CalendarInv, HandlersTypeOK(Record), NEW u \in User, EnsureSeeded(u)
  PROVE  CalendarInv' /\ HandlersTypeOK(Record)' /\ HurtsOnly(User \cup Series) /\ Survived
<1> DEFINE n == Len(events)
           m == Len(SeedTemplates)
           seeded == [k \in DOMAIN SeedTemplates |-> events \o Seeded(u, k)]
<1>1. ~HasEvents(u) /\ UNCHANGED <<edits, repeated>>
  BY DEF EnsureSeeded
<1>2. PICK k \in DOMAIN SeedTemplates : events' = seeded[k] /\ Leaves(u, seeded, seeded[k])
  BY DEF EnsureSeeded
<1>3. m \in Nat /\ DOMAIN SeedTemplates = 1..m /\ k \in 1..m /\ n \in Nat
  BY CalendarAssumption, EventsAreTyped
<1>4. /\ events' \in Seq(Event) /\ Len(events') = n + k /\ DOMAIN events' = 1..(n + k)
      /\ \A i \in 1..n : events'[i] = events[i]
      /\ \A j \in 1..k :
           /\ SeedTemplates[j] \in Duty /\ <<u, SeedTemplates[j]>> \in Series
           /\ events'[n + j] = NewEvent(<<u, SeedTemplates[j]>>, 0)
  <2>1. events' = events \o Seeded(u, k)
    BY <1>2
  <2>2. events' \in Seq(Event) /\ Len(events') = n + k
    BY <2>1, SeededEvents
  <2>3. DOMAIN events' = 1..(n + k)
    BY <2>2
  <2>4. QED
    BY <2>1, <2>2, <2>3, SeededEvents
<1>5. u \in Record /\ u \notin Series
  BY RecordsOfAKind, KindsAreApart
<1>6. Len(seeded) = m
  <2>1. seeded \in Seq(Seq(Event))
    <3>1. seeded \in [1..m -> Seq(Event)]
      BY <1>3, SeededEvents
    <3> HIDE DEF seeded
    <3>2. QED
      BY <1>3, <3>1
  <2>2. DOMAIN seeded = 1..m
    BY <1>3
  <2> HIDE DEF seeded
  <2>3. QED
    BY <1>3, <2>1, <2>2
<1>7. /\ hurt' \subseteq Record /\ HurtsOnly({u}) /\ Survived
      /\ u \notin hurt' => events' = seeded[m]
  BY <1>2, <1>5, <1>6, LeavesOneAlone
<1>8. u \notin hurt' => k = m
  <2>1. SUFFICES ASSUME u \notin hurt' PROVE k = m
    OBVIOUS
  <2>2. m \in DOMAIN SeedTemplates
    BY <1>3
  <2>3. Len(events') = n + m
    BY <1>7, <2>1, <2>2, SeededEvents
  <2>4. QED
    BY <1>3, <1>4, <2>3
<1> HIDE DEF seeded
<1>9. \A i \in DOMAIN events' : i \in 1..n \/ \E j \in 1..k : i = n + j
  <2>1. ASSUME NEW i \in 1..(n + k), ~(i \in 1..n) PROVE i - n \in 1..k /\ i = n + (i - n)
    BY <1>3, <2>1
  <2>2. QED
    BY <1>4, <2>1
<1>10. \A j \in 1..k : /\ events'[n + j].of = <<u, SeedTemplates[j]>> /\ ~events'[n + j].done
                       /\ n + j \in DOMAIN events'
  <2>1. ASSUME NEW j \in 1..k
        PROVE  /\ events'[n + j].of = <<u, SeedTemplates[j]>> /\ ~events'[n + j].done
               /\ n + j \in DOMAIN events'
    <3>1. <<u, SeedTemplates[j]>> \in Series /\ events'[n + j] = NewEvent(<<u, SeedTemplates[j]>>, 0)
      BY <1>4
    <3>2. events'[n + j].of = <<u, SeedTemplates[j]>> /\ ~events'[n + j].done
      BY <3>1, NewEventsAreEvents
    <3>3. n + j \in 1..(n + k)
      BY <1>3
    <3>4. QED
      BY <1>4, <3>2, <3>3
  <2>2. QED
    BY <2>1
<1>11. ASSUME NEW s \in Series
       PROVE  /\ HasEvents(s[1])' /\ {s, s[1]} \cap hurt' = {} => Open(s)' # {}
              /\ Cardinality(Open(s)') <= 1 + repeated'[s]
  <2>1. s[1] \in User /\ s[2] \in Duty /\ s = <<s[1], s[2]>>
    BY DEF Series
  <2>2. CASE s[1] = u
    <3>1. \A i \in 1..n : events'[i].of # s
      BY <1>1, <1>3, <1>4, <2>2, EventsAreTyped DEF HasEvents
    <3>2. ASSUME NEW i \in Open(s)' PROVE \E j \in 1..k : i = n + j /\ SeedTemplates[j] = s[2]
      <4>1. i \in DOMAIN events' /\ events'[i].of = s
        BY DEF Open
      <4>2. PICK j \in 1..k : i = n + j
        BY <1>9, <3>1, <4>1
      <4>3. <<u, SeedTemplates[j]>> = s
        BY <1>10, <4>1, <4>2
      <4>4. QED
        BY <4>2, <4>3
    <3>3. \A i, j \in Open(s)' : i = j
      <4>1. ASSUME NEW i \in Open(s)', NEW j \in Open(s)' PROVE i = j
        <5>1. PICK a \in 1..k : i = n + a /\ SeedTemplates[a] = s[2]
          BY <3>2
        <5>2. PICK b \in 1..k : j = n + b /\ SeedTemplates[b] = s[2]
          BY <3>2
        <5>3. a \in DOMAIN SeedTemplates /\ b \in DOMAIN SeedTemplates
          BY <1>3
        <5>4. a = b
          BY <5>1, <5>2, <5>3, CalendarAssumption
        <5>5. QED
          BY <5>1, <5>2, <5>4
      <4>2. QED
        BY <4>1
    <3>4. Cardinality(Open(s)') <= 1 /\ Cardinality(Open(s)') \in Nat
      BY <3>3, AtMostOne, FS_CardinalityType
    <3>5. repeated'[s] \in Nat
      BY <1>1 DEF CalendarInv
    <3>6. ASSUME u \notin hurt' PROVE Open(s)' # {}
      <4>1. PICK j \in DOMAIN SeedTemplates : SeedTemplates[j] = s[2]
        BY <2>1, CalendarAssumption
      <4>2. j \in 1..k
        BY <1>3, <1>8, <3>6, <4>1
      <4>3. n + j \in Open(s)'
        BY <1>10, <2>1, <2>2, <4>1, <4>2 DEF Open
      <4>4. QED
        BY <4>3
    <3>7. QED
      BY <2>2, <3>4, <3>5, <3>6
  <2>3. CASE s[1] # u
    <3>1. \A j \in 1..k : events'[n + j].of[1] = u /\ events'[n + j].of # s
      BY <1>10, <2>1, <2>3
    <3>2. Open(s)' = Open(s)
      BY <1>3, <1>4, <1>9, <3>1, EventsAreTyped DEF Open
    <3>3. HasEvents(s[1])' => HasEvents(s[1])
      BY <1>3, <1>4, <1>9, <2>3, <3>1, EventsAreTyped DEF HasEvents
    <3>4. s \in hurt' <=> s \in hurt
      BY <1>5, <1>7 DEF HurtsOnly
    <3>5. s[1] \in hurt' <=> s[1] \in hurt
      BY <1>7, <2>3 DEF HurtsOnly
    <3>6. QED
      BY <1>1, <3>2, <3>3, <3>4, <3>5 DEF CalendarInv, SeriesGoesOn
  <2>4. QED
    BY <2>2, <2>3
<1>12. SeriesGoesOn'
  BY <1>11 DEF SeriesGoesOn
<1>13. CalendarInv'
  BY <1>1, <1>4, <1>12 DEF CalendarInv
<1>14. HurtsOnly(User \cup Series)
  BY <1>7 DEF HurtsOnly
<1>15. QED
  BY <1>1, <1>7, <1>13, <1>14 DEF HandlersTypeOK, Survived

(* The completion of a duty, with the next year's event.                   *)
LEMMA CompletingIsSafe ==
  ASSUME CalendarInv, HandlersTypeOK(Record), NEW i \in DOMAIN events, MarkEventComplete(i)
  PROVE  CalendarInv' /\ HandlersTypeOK(Record)' /\ HurtsOnly(User \cup Series) /\ Survived
<1> DEFINE n == Len(events)
           o == events[i].of
           completed == [events EXCEPT ![i].done = TRUE]
           next == NewEvent(o, events[i].year + 1)
           longer == Append(completed, next)
           steps == << completed, longer >>
<1>1. /\ Request
      /\ \E x \in {completed, longer} : events' = x /\ Leaves(o, steps, x)
      /\ repeated' = IF events[i].done THEN [repeated EXCEPT ![o] = @ + 1] ELSE repeated
  <2>1. PICK k \in DOMAIN steps : events' = steps[k] /\ Leaves(o, steps, steps[k])
    BY DEF MarkEventComplete
  <2>3. /\ Request
        /\ repeated' = IF events[i].done THEN [repeated EXCEPT ![o] = @ + 1] ELSE repeated
    BY DEF MarkEventComplete
  <2> HIDE DEF completed, longer
  <2>2. steps[k] = completed \/ steps[k] = longer
    OBVIOUS
  <2>4. QED
    BY <2>1, <2>2, <2>3
<1>2. /\ n \in Nat /\ i \in 1..n /\ DOMAIN events = 1..n /\ o \in Series /\ o[1] \in User
      /\ events[i].year \in Nat /\ events[i].done \in BOOLEAN /\ events \in Seq(Event)
  BY EventsAreTyped DEF CalendarInv
<1>3. next \in Event /\ next.of = o /\ ~next.done
  <2>1. events[i].year + 1 \in Nat
    BY <1>2
  <2>2. QED
    BY <1>2, <2>1, NewEventsAreEvents
<1> HIDE DEF next
<1>4. /\ completed \in Seq(Event) /\ Len(completed) = n /\ DOMAIN completed = 1..n
      /\ \A j \in 1..n : /\ completed[j].of = events[j].of
                         /\ completed[j].done <=> (j = i \/ events[j].done)
  <2> DEFINE e == [events[i] EXCEPT !.done = TRUE]
  <2>1. e \in Event /\ e.of = o /\ e.done
    <3> DEFINE x == events[i]
               y == x.year
               f == x.done
    <3>1. x \in Event /\ o \in Series /\ y \in Nat
      BY <1>2, EventsAreTyped
    <3>2. x = [of |-> o, year |-> y, done |-> f]
      <4>1. x.of = o
        OBVIOUS
      <4> HIDE DEF x, o
      <4>2. QED
        BY <3>1, <4>1 DEF Event
    <3> HIDE DEF o, x, y, f
    <3>3. e = [of |-> o, year |-> y, done |-> TRUE] /\ e \in Event
      <4>1. e = [x EXCEPT !.done = TRUE]
        BY DEF x
      <4> HIDE DEF e
      <4>2. e = [of |-> o, year |-> y, done |-> TRUE]
        BY <3>2, <4>1
      <4>3. QED
        BY <3>1, <4>2 DEF Event
    <3> HIDE DEF e
    <3>4. e.of = o
      BY <3>3
    <3>5. e.done
      BY <3>3
    <3>6. QED
      BY <3>3, <3>4, <3>5
  <2>2. completed = [events EXCEPT ![i] = e]
    OBVIOUS
  <2> HIDE DEF e, completed
  <2>3. completed \in Seq(Event) /\ Len(completed) = n /\ DOMAIN completed = 1..n
    BY <1>2, <2>1, <2>2
  <2>4. \A j \in 1..n : completed[j] = IF j = i THEN e ELSE events[j]
    BY <1>2, <2>2
  <2>5. QED
    BY <2>1, <2>3, <2>4
<1> HIDE DEF completed
<1>5. /\ longer \in Seq(Event) /\ Len(longer) = n + 1 /\ DOMAIN longer = 1..(n + 1)
      /\ longer[n + 1] = next /\ \A j \in 1..n : longer[j] = completed[j]
  BY <1>3, <1>4, AppendedLast
<1>6. o \in Record /\ o \notin User
  BY <1>2, RecordsOfAKind, KindsAreApart
<1>7. steps[Len(steps)] = longer
  OBVIOUS
<1>8. /\ hurt' \subseteq Record /\ HurtsOnly({o}) /\ Survived
      /\ o \notin hurt' => events' = longer
      /\ events' \in {completed, longer}
  BY <1>1, <1>6, <1>7, LeavesOneAlone
<1> HIDE DEF longer, steps
<1>9. /\ events' \in Seq(Event) /\ DOMAIN events' \subseteq 1..(n + 1) /\ 1..n \subseteq DOMAIN events'
      /\ \A j \in DOMAIN events' : j \in 1..n \/ j = n + 1
      /\ \A j \in 1..n : /\ events'[j].of = events[j].of
                         /\ events'[j].done <=> (j = i \/ events[j].done)
      /\ n + 1 \in DOMAIN events' => events'[n + 1].of = o
  <2>1. CASE events' = completed
    <3>1. n + 1 \notin 1..n
      BY <1>2
    <3>2. QED
      BY <1>2, <1>4, <2>1, <3>1
  <2>2. CASE events' = longer
    <3>1. \A j \in 1..(n + 1) : j \in 1..n \/ j = n + 1
      BY <1>2
    <3>2. QED
      BY <1>2, <1>3, <1>4, <1>5, <2>2, <3>1
  <2>3. QED
    BY <1>8, <2>1, <2>2
<1>10. repeated' \in [Series -> Nat] /\ \A s \in Series : repeated[s] \in Nat /\ repeated'[s] \in Nat
  BY <1>1, <1>2 DEF CalendarInv
<1>11. ASSUME NEW s \in Series
       PROVE  /\ HasEvents(s[1])' /\ {s, s[1]} \cap hurt' = {} => Open(s)' # {}
              /\ Cardinality(Open(s)') <= 1 + repeated'[s]
  <2>1. s[1] \in User /\ s[1] \notin Series
    BY KindsAreApart DEF Series
  <2>2. HasEvents(s[1])' => HasEvents(s[1])
    BY <1>2, <1>9 DEF HasEvents
  <2>3. s[1] \in hurt' <=> s[1] \in hurt
    BY <1>2, <1>8, <2>1 DEF HurtsOnly
  <2>4. CASE s # o
    <3>1. Open(s)' = Open(s)
      BY <1>2, <1>9, <2>4 DEF Open
    <3>2. s \in hurt' <=> s \in hurt
      BY <1>8, <2>4 DEF HurtsOnly
    <3>3. repeated'[s] = repeated[s]
      BY <1>1, <2>4 DEF CalendarInv
    <3>4. QED
      BY <2>2, <2>3, <3>1, <3>2, <3>3 DEF CalendarInv, SeriesGoesOn
  <2>5. CASE s = o
    <3>1. ASSUME o \notin hurt' PROVE Open(s)' # {}
      <4>1. events' = longer
        BY <1>8, <3>1
      <4>2. n + 1 \in Open(s)'
        BY <1>2, <1>3, <1>5, <2>5, <4>1 DEF Open
      <4>3. QED
        BY <4>2
    <3>2. Open(s)' \subseteq (Open(s) \ {i}) \cup {n + 1}
      BY <1>2, <1>9, <2>5 DEF Open
    <3>3. /\ IsFiniteSet(Open(s)) /\ Cardinality(Open(s)) \in Nat
          /\ Cardinality(Open(s)) <= 1 + repeated[s] /\ repeated[s] \in Nat
      BY <1>10, EventsAreTyped DEF CalendarInv, SeriesGoesOn
    <3>4. /\ IsFiniteSet(Open(s) \ {i}) /\ Cardinality(Open(s) \ {i}) \in Nat
          /\ Cardinality(Open(s) \ {i}) = IF i \in Open(s) THEN Cardinality(Open(s)) - 1
                                          ELSE Cardinality(Open(s))
      BY <3>3, FS_RemoveElement, FS_CardinalityType
    <3>5. n + 1 \notin Open(s) \ {i}
      BY <1>2 DEF Open
    <3>6. /\ IsFiniteSet((Open(s) \ {i}) \cup {n + 1})
          /\ Cardinality((Open(s) \ {i}) \cup {n + 1}) = Cardinality(Open(s) \ {i}) + 1
      BY <3>4, <3>5, FS_AddElement
    <3>7. /\ Cardinality(Open(s)') <= Cardinality(Open(s) \ {i}) + 1
          /\ Cardinality(Open(s)') \in Nat
      BY <3>2, <3>6, FS_Subset, FS_CardinalityType
    <3>8. CASE events[i].done
      <4>1. repeated'[s] = repeated[s] + 1 /\ i \notin Open(s)
        BY <1>1, <1>10, <2>5, <3>8 DEF CalendarInv, Open
      <4>2. QED
        BY <2>5, <3>1, <3>3, <3>4, <3>7, <4>1
    <3>9. CASE ~events[i].done
      <4>1. repeated'[s] = repeated[s] /\ i \in Open(s)
        BY <1>1, <1>2, <2>5, <3>9 DEF Open
      <4>2. QED
        BY <2>5, <3>1, <3>3, <3>4, <3>7, <4>1
    <3>10. QED
      BY <3>8, <3>9
  <2>6. QED
    BY <2>4, <2>5
<1>12. SeriesGoesOn'
  BY <1>11 DEF SeriesGoesOn
<1>13. CalendarInv'
  BY <1>9, <1>10, <1>12 DEF CalendarInv
<1>14. HurtsOnly(User \cup Series)
  BY <1>2, <1>8 DEF HurtsOnly
<1>15. QED
  BY <1>1, <1>8, <1>13, <1>14, RequestsAreCounted DEF HandlersTypeOK, Survived

(* Every handler of the calendar keeps the series going.                   *)
LEMMA CalendarGoesOn ==
  ASSUME CalendarInv, HandlersTypeOK(Record), CalendarStep
  PROVE  CalendarInv' /\ HandlersTypeOK(Record)' /\ HurtsOnly(User \cup Series) /\ Survived
BY SeedingIsSafe, CompletingIsSafe DEF CalendarStep

-----------------------------------------------------------------------------

(***************************************************************************)
(* The chasing of documents: the stage that is not marked has no text      *)
(* before the lawyers but those of handlers that were cut short.           *)
(***************************************************************************)
ChaseSound(x, m) ==
  /\ \A s \in Stage : x.drafts[s] <= m + (IF s \in x.drafted THEN 1 ELSE 0)
  /\ \A s \in x.drafted : x.drafts[s] > 0
  /\ x.drafts["first"] > 0 => "request" \in x.drafted
  /\ x.drafts["second"] > 0 => "first" \in x.drafted
  /\ x.escalated => x.drafted = Stage
  /\ x.told > 0 => x.escalated
  /\ x.told <= 1

(* The invariant of the chasing.                                           *)
ChasingInv ==
  /\ day \in Nat
  /\ chase \in [DocumentRequest -> ChaseState]
  /\ \A r \in DocumentRequest : ChaseSound(chase[r], mishaps)

(* A chase that was sound after some mishaps is sound after more.          *)
LEMMA ChaseStaysSound ==
  ASSUME NEW x \in ChaseState, NEW m \in Nat, NEW k \in Nat, m <= k, ChaseSound(x, m)
  PROVE  ChaseSound(x, k)
<1>1. \A s \in Stage : x.drafts[s] \in Nat
  BY DEF ChaseState
<1>2. QED
  BY <1>1 DEF ChaseSound

LEMMA ChasingStays ==
  ASSUME ChasingInv, HandlersTypeOK(Record), UNCHANGED chasingVars, Survived
  PROVE  ChasingInv'
<1>1. \A r \in DocumentRequest : ChaseSound(chase[r], mishaps')
  BY ChaseStaysSound DEF ChasingInv, HandlersTypeOK, Survived
<1>2. QED
  BY <1>1 DEF ChasingInv, chasingVars

LEMMA ChaseIsLeft ==
  ASSUME ChasingInv, HandlersTypeOK(Record), NEW r \in DocumentRequest, NEW a, NEW b,
         ChaseBecomes(r, << a, b >>), a \in ChaseState, b \in ChaseState,
         ChaseSound(a, mishaps + 1), ChaseSound(b, mishaps)
  PROVE  ChasingInv' /\ hurt' \subseteq Record /\ HurtsOnly(DocumentRequest) /\ Survived
<1> DEFINE steps == << a, b >>
<1>1. PICK i \in DOMAIN steps :
        Leaves(r, steps, steps[i]) /\ chase' = [chase EXCEPT ![r] = steps[i]]
  BY DEF ChaseBecomes
<1>2. (steps[i] = a \/ steps[i] = b) /\ steps[Len(steps)] = b
  OBVIOUS
<1> DEFINE x == steps[i]
<1>3. r \in Record
  BY RecordsOfAKind
<1>4. /\ hurt' \subseteq Record /\ HurtsOnly({r}) /\ Survived
      /\ x # b => mishaps' = mishaps + 1
  BY <1>1, <1>2, <1>3, LeavesOneAlone
<1>5. Leaves(r, steps, x) /\ chase' = [chase EXCEPT ![r] = x] /\ (x = a \/ x = b)
  BY <1>1, <1>2
<1> HIDE DEF x, steps
<1>6. mishaps \in Nat /\ mishaps' \in Nat /\ mishaps <= mishaps'
  BY <1>4 DEF HandlersTypeOK, Survived
<1>7. x \in ChaseState /\ ChaseSound(x, mishaps')
  <2>1. CASE x = b
    BY <1>6, <2>1, ChaseStaysSound
  <2>2. CASE x # b
    BY <1>4, <1>5, <1>6, <2>2
  <2>3. QED
    BY <2>1, <2>2
<1>8. \A q \in DocumentRequest : chase'[q] = IF q = r THEN x ELSE chase[q]
  BY <1>5 DEF ChasingInv
<1>9. \A q \in DocumentRequest : ChaseSound(chase[q], mishaps')
  BY <1>6, ChaseStaysSound DEF ChasingInv
<1>10. chase' \in [DocumentRequest -> ChaseState]
  BY <1>5, <1>7 DEF ChasingInv
<1>11. UNCHANGED day
  BY DEF ChaseBecomes
<1>12. \A q \in DocumentRequest : ChaseSound(chase'[q], mishaps')
  BY <1>7, <1>8, <1>9
<1>13. ChasingInv'
  BY <1>10, <1>11, <1>12 DEF ChasingInv
<1>14. HurtsOnly(DocumentRequest)
  BY <1>4 DEF HurtsOnly
<1>15. QED
  BY <1>4, <1>13, <1>14

(* A text is put before the lawyers only at a stage that is not marked and *)
(* follows the marked ones.                                                *)
LEMMA PuttingIsSound ==
  ASSUME NEW x \in ChaseState, NEW m \in Nat, ChaseSound(x, m), NEW s \in Stage, s \notin x.drafted,
         s = "first" => "request" \in x.drafted,
         s = "second" => "first" \in x.drafted
  PROVE  LET queued == [x EXCEPT !.drafts[s] = @ + 1]
             marked == [queued EXCEPT !.drafted = @ \cup {s}]
         IN  /\ queued \in ChaseState /\ ChaseSound(queued, m + 1)
             /\ marked \in ChaseState /\ ChaseSound(marked, m)
<1> DEFINE drafts == [x.drafts EXCEPT ![s] = @ + 1]
           queued == [x EXCEPT !.drafts[s] = @ + 1]
           marked == [queued EXCEPT !.drafted = @ \cup {s}]
<1>1. /\ x.drafts \in [Stage -> Nat] /\ x.drafted \subseteq Stage /\ x.made \in Nat
      /\ x.escalated \in BOOLEAN /\ x.told \in Nat
  BY DEF ChaseState
<1>2. /\ drafts \in [Stage -> Nat]
      /\ \A t \in Stage : drafts[t] = IF t = s THEN x.drafts[t] + 1 ELSE x.drafts[t]
  BY <1>1
<1>3. /\ queued.drafts = drafts /\ queued.drafted = x.drafted
      /\ queued.escalated = x.escalated /\ queued.told = x.told /\ queued \in ChaseState
  BY <1>1, <1>2 DEF ChaseState
<1>4. /\ marked.drafts = drafts /\ marked.drafted = x.drafted \cup {s}
      /\ marked.escalated = x.escalated /\ marked.told = x.told /\ marked \in ChaseState
  <2> HIDE DEF queued
  <2>1. x.drafted \cup {s} \in SUBSET Stage
    BY <1>1
  <2>2. QED
    BY <1>1, <1>2, <1>3, <2>1 DEF ChaseState
<1> HIDE DEF drafts, queued, marked
<1>5. "request" \in Stage /\ "first" \in Stage /\ "second" \in Stage
      /\ \A t \in Stage : x.drafts[t] \in Nat /\ drafts[t] \in Nat
  BY <1>1, <1>2 DEF Stage
<1>6. ~x.escalated
  BY DEF ChaseSound
<1>7. ChaseSound(queued, m + 1)
  <2>1. \A t \in Stage : queued.drafts[t] <= m + 1 + (IF t \in queued.drafted THEN 1 ELSE 0)
    BY <1>2, <1>3, <1>5 DEF ChaseSound
  <2>2. \A t \in queued.drafted : queued.drafts[t] > 0
    BY <1>1, <1>2, <1>3, <1>5 DEF ChaseSound
  <2>3. /\ queued.drafts["first"] > 0 => "request" \in queued.drafted
        /\ queued.drafts["second"] > 0 => "first" \in queued.drafted
    BY <1>2, <1>3, <1>5 DEF ChaseSound
  <2>4. QED
    BY <1>3, <1>6, <2>1, <2>2, <2>3 DEF ChaseSound
<1>8. ChaseSound(marked, m)
  <2>1. \A t \in Stage : marked.drafts[t] <= m + (IF t \in marked.drafted THEN 1 ELSE 0)
    BY <1>2, <1>4, <1>5 DEF ChaseSound
  <2>2. \A t \in marked.drafted : marked.drafts[t] > 0
    BY <1>1, <1>2, <1>4, <1>5 DEF ChaseSound
  <2>3. /\ marked.drafts["first"] > 0 => "request" \in marked.drafted
        /\ marked.drafts["second"] > 0 => "first" \in marked.drafted
    BY <1>2, <1>4, <1>5 DEF ChaseSound
  <2>4. QED
    BY <1>4, <1>6, <2>1, <2>2, <2>3 DEF ChaseSound
<1>9. QED
  BY <1>3, <1>4, <1>7, <1>8 DEF queued, marked

LEMMA PutIsSafe ==
  ASSUME ChasingInv, HandlersTypeOK(Record), NEW r \in DocumentRequest,
         NEW x \in ChaseState, ChaseSound(x, mishaps), NEW s \in Stage, s \notin x.drafted,
         s = "first" => "request" \in x.drafted,
         s = "second" => "first" \in x.drafted,
         ChaseBecomes(r, Put(x, s))
  PROVE  ChasingInv' /\ hurt' \subseteq Record /\ HurtsOnly(DocumentRequest) /\ Survived
<1> DEFINE queued == [x EXCEPT !.drafts[s] = @ + 1]
           marked == [queued EXCEPT !.drafted = @ \cup {s}]
<1>1. ChaseBecomes(r, << queued, marked >>)
  BY DEF Put
<1>2. mishaps \in Nat
  BY DEF HandlersTypeOK
<1>3. /\ queued \in ChaseState /\ ChaseSound(queued, mishaps + 1)
      /\ marked \in ChaseState /\ ChaseSound(marked, mishaps)
  BY <1>2, PuttingIsSound
<1> HIDE DEF queued, marked
<1>4. QED
  BY <1>1, <1>3, ChaseIsLeft

LEMMA CreatingIsSafe ==
  ASSUME ChasingInv, HandlersTypeOK(Record), NEW r \in DocumentRequest, CreateDocumentRequest(r)
  PROVE  ChasingInv' /\ hurt' \subseteq Record /\ HurtsOnly(DocumentRequest) /\ Survived
<1> DEFINE x == [chase[r] EXCEPT !.made = day]
<1>1. /\ "request" \notin chase[r].drafted /\ ChaseBecomes(r, Put(x, "request"))
      /\ chase[r] \in ChaseState /\ ChaseSound(chase[r], mishaps)
  BY DEF CreateDocumentRequest, ChasingInv
<1>2. /\ x.drafts = chase[r].drafts /\ x.drafted = chase[r].drafted
      /\ x.escalated = chase[r].escalated /\ x.told = chase[r].told
  BY <1>1 DEF ChaseState
<1>3. x \in ChaseState
  BY <1>1 DEF ChasingInv, ChaseState
<1> HIDE DEF x
<1>4. ChaseSound(x, mishaps)
  BY <1>1, <1>2 DEF ChaseSound
<1>5. "request" \in Stage /\ "request" \notin x.drafted
  BY <1>1, <1>2 DEF Stage
<1>6. QED
  BY <1>1, <1>3, <1>4, <1>5, PutIsSafe

LEMMA EscalatingIsSafe ==
  ASSUME ChasingInv, HandlersTypeOK(Record), NEW r \in DocumentRequest, ~chase[r].escalated,
         "request" \in chase[r].drafted, "first" \in chase[r].drafted, "second" \in chase[r].drafted,
         NEW mails \in {0, 1}, ChaseBecomes(r, Escalate(chase[r], mails))
  PROVE  ChasingInv' /\ hurt' \subseteq Record /\ HurtsOnly(DocumentRequest) /\ Survived
<1> DEFINE x == chase[r]
           a == [x EXCEPT !.escalated = TRUE]
           b == [x EXCEPT !.escalated = TRUE, !.told = @ + mails]
<1>1. ChaseBecomes(r, << a, b >>)
  BY DEF Escalate
<1>2. x \in ChaseState /\ ChaseSound(x, mishaps) /\ x.drafted = Stage
  BY DEF ChasingInv, ChaseState, Stage
<1>3. x.told \in Nat /\ x.told = 0 /\ mails \in Nat /\ mails <= 1 /\ x.told + mails = mails
  BY <1>2 DEF ChaseSound, ChaseState
<1>4. /\ a.drafts = x.drafts /\ a.drafted = x.drafted /\ a.escalated = TRUE /\ a.told = x.told
      /\ a \in ChaseState
  BY <1>2 DEF ChaseState
<1>5. /\ b.drafts = x.drafts /\ b.drafted = x.drafted /\ b.escalated = TRUE /\ b.told = mails
      /\ b \in ChaseState
  BY <1>2, <1>3 DEF ChaseState
<1>6. mishaps \in Nat /\ \A s \in Stage : x.drafts[s] \in Nat
  BY <1>2 DEF HandlersTypeOK, ChaseState
<1>7. ChaseSound(x, mishaps + 1)
  BY <1>2, <1>6, ChaseStaysSound
<1> HIDE DEF a, b, x
<1>8. ChaseSound(a, mishaps + 1) /\ ChaseSound(b, mishaps)
  BY <1>2, <1>3, <1>4, <1>5, <1>6, <1>7 DEF ChaseSound
<1>9. QED
  BY <1>1, <1>4, <1>5, <1>8, ChaseIsLeft

LEMMA DispatchingIsSafe ==
  ASSUME ChasingInv, HandlersTypeOK(Record), NEW r \in DocumentRequest, DispatchReminder(r)
  PROVE  ChasingInv' /\ hurt' \subseteq Record /\ HurtsOnly(DocumentRequest) /\ Survived
<1> DEFINE x == chase[r]
           ripe(s, after) == s \notin x.drafted /\ day - x.made >= after
<1>1. /\ "request" \in x.drafted
      /\ \/ ripe("first", FirstAfter) /\ ChaseBecomes(r, Put(x, "first"))
         \/ /\ ~ripe("first", FirstAfter)
            /\ ripe("second", SecondAfter) /\ ChaseBecomes(r, Put(x, "second"))
         \/ /\ ~ripe("first", FirstAfter) /\ ~ripe("second", SecondAfter)
            /\ day - x.made >= EscalateAfter /\ ~x.escalated
            /\ \E mails \in {0, 1} : ChaseBecomes(r, Escalate(x, mails))
  BY DEF DispatchReminder
<1>2. x \in ChaseState /\ ChaseSound(x, mishaps) /\ x.made \in Nat /\ day \in Nat
  BY DEF ChasingInv, ChaseState
<1>3. /\ FirstAfter \in Nat /\ SecondAfter \in Nat /\ EscalateAfter \in Nat
      /\ FirstAfter <= SecondAfter /\ SecondAfter <= EscalateAfter
  BY ChasingAssumption
<1>4. "first" \in Stage /\ "second" \in Stage
  BY DEF Stage
<1>5. CASE ripe("first", FirstAfter) /\ ChaseBecomes(r, Put(x, "first"))
  BY <1>1, <1>2, <1>4, <1>5, PutIsSafe
<1>6. CASE ~ripe("first", FirstAfter) /\ ripe("second", SecondAfter) /\ ChaseBecomes(r, Put(x, "second"))
  <2>1. "first" \in x.drafted /\ "second" \notin x.drafted
    BY <1>2, <1>3, <1>6
  <2>2. QED
    BY <1>2, <1>4, <1>6, <2>1, PutIsSafe
<1>7. CASE /\ ~ripe("first", FirstAfter) /\ ~ripe("second", SecondAfter)
           /\ day - x.made >= EscalateAfter /\ ~x.escalated
           /\ \E mails \in {0, 1} : ChaseBecomes(r, Escalate(x, mails))
  <2>1. "first" \in x.drafted /\ "second" \in x.drafted
    BY <1>2, <1>3, <1>7
  <2>2. QED
    BY <1>1, <1>7, <2>1, EscalatingIsSafe
<1>8. QED
  BY <1>1, <1>5, <1>6, <1>7

(* Every handler of the chasing keeps the invariant.                       *)
LEMMA ChasingGoesOn ==
  ASSUME ChasingInv, HandlersTypeOK(Record), ChasingStep
  PROVE  ChasingInv' /\ HandlersTypeOK(Record)' /\ HurtsOnly(DocumentRequest) /\ Survived
<1>1. CASE NextDay
  BY <1>1 DEF NextDay, ChasingInv, handlerVars, HandlersTypeOK, HurtsOnly, Survived
<1>2. ASSUME NEW r \in DocumentRequest, CreateDocumentRequest(r) \/ DispatchReminder(r)
      PROVE  ChasingInv' /\ HandlersTypeOK(Record)' /\ HurtsOnly(DocumentRequest) /\ Survived
  <2>1. ChasingInv' /\ hurt' \subseteq Record /\ HurtsOnly(DocumentRequest) /\ Survived
    BY <1>2, CreatingIsSafe, DispatchingIsSafe
  <2>2. Request \/ UNCHANGED edits
    BY <1>2 DEF CreateDocumentRequest, DispatchReminder
  <2>3. QED
    BY <2>1, <2>2, RequestsAreCounted DEF HandlersTypeOK, Survived
<1>3. QED
  BY <1>1, <1>2 DEF ChasingStep

(* The invariant says more than that nobody is chased twice.               *)
LEMMA ChasedOnceFollows == ASSUME ChasingInv, HandlersTypeOK(Record) PROVE ChasedOnce
<1>1. ASSUME NEW r \in DocumentRequest, NEW s \in Stage PROVE chase[r].drafts[s] <= 1 + mishaps
  <2>1. chase[r].drafts[s] \in Nat /\ mishaps \in Nat
    BY DEF ChasingInv, ChaseState, HandlersTypeOK
  <2>2. chase[r].drafts[s] <= mishaps + (IF s \in chase[r].drafted THEN 1 ELSE 0)
    BY DEF ChasingInv, ChaseSound
  <2>3. QED
    BY <2>1, <2>2
<1>2. QED
  BY <1>1 DEF ChasedOnce, ChasingInv, ChaseSound

-----------------------------------------------------------------------------

(* The trust scores: the rows keep their types.                            *)
ScoresInv == DOMAIN trust \subseteq Scored /\ trust \in [DOMAIN trust -> TrustState]

LEMMA RescoredIsTyped ==
  ASSUME NEW row \in TrustState, NEW h, NEW p PROVE Rescored(row, h, p) \in TrustState
<1>1. LevelOf(row, h, p) \in Level
  BY DEF LevelOf, AutonomyLevel, Level
<1>2. QED
  BY <1>1 DEF Rescored, TrustState

LEMMA CountedIsTyped ==
  ASSUME NEW row \in TrustState, NEW ok \in BOOLEAN PROVE Counted(row, ok) \in TrustState
<1>1. /\ row.successes + (IF ok THEN 1 ELSE 0) \in Nat
      /\ row.failed + (IF ok THEN 0 ELSE 1) \in Nat
  BY DEF TrustState
<1>2. QED
  BY <1>1 DEF Counted, TrustState

LEMMA NoRowIsTyped == NoRow \in TrustState
BY DEF NoRow, TrustState, Level

(* Every change of the trust scores keeps their types.                     *)
LEMMA ScoresGoOn ==
  ASSUME ScoresInv, HandlersTypeOK(Record), TrustStep
  PROVE  ScoresInv' /\ HandlersTypeOK(Record)' /\ HurtsOnly({}) /\ Survived
<1>1. PICK k \in Scored :
        \/ \E ok \in BOOLEAN : UpdateTrustMetrics(k, ok)
        \/ RecordAnomaly(k)
  BY DEF TrustStep
<1>2. ASSUME NEW ok \in BOOLEAN, UpdateTrustMetrics(k, ok) PROVE ScoresInv'
  <2>1. CASE k \notin DOMAIN trust
    <3>1. trust' = [x \in DOMAIN trust \cup {k} |-> IF x = k THEN Counted(NoRow, ok) ELSE trust[x]]
      BY <1>2, <2>1 DEF UpdateTrustMetrics
    <3>2. Counted(NoRow, ok) \in TrustState
      BY CountedIsTyped, NoRowIsTyped
    <3>3. QED
      BY <3>1, <3>2 DEF ScoresInv
  <2>2. CASE k \in DOMAIN trust
    <3>1. PICK h \in BOOLEAN, p \in Penalty(trust[k]) :
            trust' = [trust EXCEPT ![k] = Rescored(Counted(@, ok), h, p)]
      BY <1>2, <2>2 DEF UpdateTrustMetrics
    <3>2. Rescored(Counted(trust[k], ok), h, p) \in TrustState
      BY <2>2, CountedIsTyped, RescoredIsTyped DEF ScoresInv
    <3>3. QED
      BY <2>2, <3>1, <3>2 DEF ScoresInv
  <2>3. QED
    BY <2>1, <2>2
<1>3. ASSUME RecordAnomaly(k) PROVE ScoresInv'
  <2> DEFINE row == IF k \in DOMAIN trust THEN trust[k] ELSE NoRow
  <2>1. row \in TrustState
    BY NoRowIsTyped DEF ScoresInv
  <2>2. trust' = [x \in DOMAIN trust \cup {k} |-> IF x # k THEN trust[x] ELSE [row EXCEPT !.anomaly = TRUE]]
    BY <1>3 DEF RecordAnomaly
  <2> HIDE DEF row
  <2>3. [row EXCEPT !.anomaly = TRUE] \in TrustState
    BY <2>1 DEF TrustState
  <2>4. QED
    BY <2>2, <2>3 DEF ScoresInv
<1>4. ScoresInv'
  BY <1>1, <1>2, <1>3
<1>5. Request /\ UNCHANGED <<mishaps, hurt>>
  BY DEF TrustStep
<1>6. QED
  BY <1>4, <1>5, RequestsAreCounted DEF HandlersTypeOK, HurtsOnly, Survived

LEMMA ScoresStart == ASSUME TrustInit PROVE ScoresInv
<1>1. ASSUME NEW k \in DOMAIN History
      PROVE  [NoRow EXCEPT !.successes = History[k][1], !.failed = History[k][2]] \in TrustState
  <2>1. History[k][1] \in Nat /\ History[k][2] \in Nat
    BY TrustAssumption
  <2>2. QED
    BY <2>1, NoRowIsTyped DEF TrustState
<1>2. QED
  BY <1>1, TrustAssumption, RescoredIsTyped DEF TrustInit, ScoresInv

-----------------------------------------------------------------------------

(* The precedents: an offer that was let in is of an approved draft.       *)
PrecedentsInv ==
  /\ PrecedentsTypeOK
  /\ \A o \in Offer : offers[o] \in Reviewed => verdict[offers[o]] \in {"approved", "sent"}
  /\ \A i \in DOMAIN shelf : verdict[shelf[i].review] \in {"approved", "sent"}
  /\ rebuilt <= Len(shelf)
  /\ SearchIndex \notin hurt => 1..rebuilt \subseteq hits

LEMMA PrecedentsStay ==
  ASSUME PrecedentsInv, UNCHANGED precedentVars, SearchIndex \in hurt' <=> SearchIndex \in hurt
  PROVE  PrecedentsInv'
BY DEF PrecedentsInv, PrecedentsTypeOK, precedentVars

LEMMA ShelfIsTyped ==
  ASSUME PrecedentsInv
  PROVE  /\ Len(shelf) \in Nat /\ DOMAIN shelf = 1..Len(shelf) /\ rebuilt \in Nat
         /\ \A i \in DOMAIN shelf : shelf[i] \in Precedent /\ shelf[i].review \in Reviewed
<1>1. Len(shelf) \in Nat /\ DOMAIN shelf = 1..Len(shelf) /\ rebuilt \in Nat
  BY DEF PrecedentsInv, PrecedentsTypeOK
<1>2. ASSUME NEW i \in DOMAIN shelf PROVE shelf[i] \in Precedent /\ shelf[i].review \in Reviewed
  <2>1. shelf[i] \in Precedent
    BY DEF PrecedentsInv, PrecedentsTypeOK
  <2>2. QED
    BY <2>1 DEF Precedent
<1>3. QED
  BY <1>1, <1>2

(* Every handler of the precedents keeps the invariant: an offer that ends *)
(* puts an approved text on the shelf.                                     *)
LEMMA PrecedentsGoOn ==
  ASSUME PrecedentsInv, HandlersTypeOK(Record), PrecedentStep
  PROVE  PrecedentsInv' /\ HandlersTypeOK(Record)' /\ HurtsOnly({SearchIndex}) /\ Survived
<1> DEFINE n == Len(shelf)
<1>1. /\ n \in Nat /\ DOMAIN shelf = 1..n /\ shelf \in Seq(Precedent) /\ hits \subseteq 1..n
      /\ rebuilt \in Nat /\ rebuilt <= n /\ SearchIndex \in Record
  BY ShelfIsTyped, RecordsOfAKind DEF PrecedentsInv, PrecedentsTypeOK
<1>2. ASSUME NEW r \in Reviewed, Review(r)
      PROVE  PrecedentsInv' /\ HandlersTypeOK(Record)' /\ HurtsOnly({SearchIndex}) /\ Survived
  <2>1. UNCHANGED <<handlerVars, offers, shelf, hits, rebuilt>>
    BY <1>2 DEF Review
  <2>2. /\ verdict' \in [Reviewed -> Verdicts]
        /\ \A q \in Reviewed : verdict[q] \in {"approved", "sent"} => verdict'[q] \in {"approved", "sent"}
    BY <1>2 DEF Review, PrecedentsInv, PrecedentsTypeOK, Verdicts
  <2>3. PrecedentsInv'
    BY <2>1, <2>2, ShelfIsTyped DEF PrecedentsInv, PrecedentsTypeOK, handlerVars
  <2>4. QED
    BY <2>1, <2>3 DEF HandlersTypeOK, HurtsOnly, Survived, handlerVars
<1>3. ASSUME NEW o \in Offer, NEW r \in Reviewed, BeginOffer(o, r)
      PROVE  PrecedentsInv' /\ HandlersTypeOK(Record)' /\ HurtsOnly({SearchIndex}) /\ Survived
  <2>1. /\ verdict[r] = "approved" /\ Request /\ offers' = [offers EXCEPT ![o] = r]
        /\ UNCHANGED <<mishaps, hurt, verdict, shelf, hits, rebuilt>>
    BY <1>3 DEF BeginOffer
  <2>2. \A p \in Offer : offers'[p] = IF p = o THEN r ELSE offers[p]
    BY <2>1 DEF PrecedentsInv, PrecedentsTypeOK
  <2>3. offers' \in [Offer -> Reviewed \cup {NoDraftOffered, Over}]
    BY <2>1 DEF PrecedentsInv, PrecedentsTypeOK
  <2>4. PrecedentsInv'
    BY <2>1, <2>2, <2>3 DEF PrecedentsInv, PrecedentsTypeOK
  <2>5. QED
    BY <2>1, <2>4, RequestsAreCounted DEF HandlersTypeOK, HurtsOnly, Survived
<1>4. ASSUME NEW o \in Offer, NEW k \in Kind, EndOffer(o, k)
      PROVE  PrecedentsInv' /\ HandlersTypeOK(Record)' /\ HurtsOnly({SearchIndex}) /\ Survived
  <2> DEFINE new == [review |-> offers[o], kind |-> k]
  <2>1. /\ offers[o] \in Reviewed /\ offers' = [offers EXCEPT ![o] = Over]
        /\ shelf' = Append(shelf, new) \/ UNCHANGED shelf
        /\ mishaps' = mishaps \/ mishaps' = mishaps + 1
        /\ UNCHANGED <<edits, hurt, verdict, hits, rebuilt>>
    BY <1>4 DEF EndOffer
  <2>2. \A p \in Offer : offers'[p] = IF p = o THEN Over ELSE offers[p]
    BY <2>1 DEF PrecedentsInv, PrecedentsTypeOK
  <2>3. /\ offers' \in [Offer -> Reviewed \cup {NoDraftOffered, Over}]
        /\ \A p \in Offer : offers'[p] \in Reviewed => verdict[offers'[p]] \in {"approved", "sent"}
    BY <2>1, <2>2, PrecedentAssumption DEF PrecedentsInv, PrecedentsTypeOK
  <2>4. new \in Precedent /\ new.review = offers[o] /\ verdict[new.review] \in {"approved", "sent"}
    BY <2>1 DEF Precedent, PrecedentsInv
  <2> HIDE DEF new
  <2>5. /\ shelf' \in Seq(Precedent) /\ Len(shelf') >= n /\ Len(shelf') \in Nat
        /\ DOMAIN shelf \subseteq DOMAIN shelf'
        /\ \A i \in DOMAIN shelf' : (i \in DOMAIN shelf /\ shelf'[i] = shelf[i]) \/ shelf'[i] = new
    <3>1. CASE shelf' = Append(shelf, new)
      <4>1. /\ shelf' \in Seq(Precedent) /\ Len(shelf') = n + 1 /\ DOMAIN shelf' = 1..(n + 1)
            /\ shelf'[n + 1] = new /\ \A i \in 1..n : shelf'[i] = shelf[i]
        BY <1>1, <2>4, <3>1, AppendedLast
      <4>2. \A i \in 1..(n + 1) : i \in 1..n \/ i = n + 1
        BY <1>1
      <4>3. QED
        BY <1>1, <4>1, <4>2
    <3>2. CASE UNCHANGED shelf
      BY <1>1, <3>2
    <3>3. QED
      BY <2>1, <3>1, <3>2
  <2>6. \A i \in DOMAIN shelf' : verdict[shelf'[i].review] \in {"approved", "sent"}
    BY <2>4, <2>5 DEF PrecedentsInv
  <2>7. PrecedentsTypeOK'
    BY <1>1, <2>1, <2>3, <2>5 DEF PrecedentsInv, PrecedentsTypeOK
  <2>8. PrecedentsInv'
    BY <1>1, <2>1, <2>3, <2>5, <2>6, <2>7 DEF PrecedentsInv
  <2>9. QED
    BY <2>1, <2>8 DEF HandlersTypeOK, HurtsOnly, Survived
<1>5. CASE RebuildIndex
  <2>1. /\ Request /\ UNCHANGED <<verdict, offers, shelf>>
        /\ \/ hits' = DOMAIN shelf /\ rebuilt' = n /\ hurt' = hurt \ {SearchIndex} /\ UNCHANGED mishaps
           \/ /\ mishaps' = mishaps + 1 /\ hurt' = hurt \cup {SearchIndex}
              /\ \E i \in DOMAIN shelf : hits' \in {hits \cup ((i + 1)..n), (hits \cup ((i + 1)..n)) \ {i}}
              /\ UNCHANGED rebuilt
    BY <1>5 DEF RebuildIndex
  <2>2. CASE hits' = DOMAIN shelf /\ rebuilt' = n /\ hurt' = hurt \ {SearchIndex} /\ UNCHANGED mishaps
    <3>1. PrecedentsInv'
      BY <1>1, <2>1, <2>2 DEF PrecedentsInv, PrecedentsTypeOK
    <3>2. QED
      BY <2>1, <2>2, <3>1, RequestsAreCounted DEF HandlersTypeOK, HurtsOnly, Survived
  <2>3. CASE /\ mishaps' = mishaps + 1 /\ hurt' = hurt \cup {SearchIndex}
             /\ \E i \in DOMAIN shelf : hits' \in {hits \cup ((i + 1)..n), (hits \cup ((i + 1)..n)) \ {i}}
             /\ UNCHANGED rebuilt
    <3>1. hits' \subseteq 1..n
      BY <1>1, <2>3
    <3>2. PrecedentsInv'
      BY <1>1, <2>1, <2>3, <3>1 DEF PrecedentsInv, PrecedentsTypeOK
    <3>3. hurt' \subseteq Record /\ HurtsOnly({SearchIndex}) /\ Survived
      BY <1>1, <2>3 DEF HandlersTypeOK, HurtsOnly, Survived
    <3>4. HandlersTypeOK(Record)'
      BY <2>1, <3>3, RequestsAreCounted DEF HandlersTypeOK, Survived
    <3>5. QED
      BY <3>2, <3>3, <3>4
  <2>4. QED
    BY <2>1, <2>2, <2>3
<1>6. QED
  BY <1>2, <1>3, <1>4, <1>5 DEF PrecedentStep

(* The drafting skill finds the best there is.                             *)
LEMMA TheBestIsPicked ==
  ASSUME NEW k \in Kind
  PROVE  LET ofKind == {i \in DOMAIN shelf : shelf[i].kind = k}
             mention == {i \in DOMAIN shelf : k \in Mentions[shelf[i].review]}
         IN  /\ PickBestPrecedent(k) \subseteq IF ofKind # {} THEN ofKind ELSE mention
             /\ PickBestPrecedent(k) = {} => ofKind \cup mention = {}
<1> DEFINE D == DOMAIN shelf
           ofKind == {i \in D : shelf[i].kind = k}
           mention == {i \in D : k \in Mentions[shelf[i].review]}
<1>1. \A i \in D : MatchScore(i, k) = IF i \in ofKind THEN IF i \in mention THEN 7 ELSE 6
                                                      ELSE IF i \in mention THEN 1 ELSE 0
  BY DEF MatchScore
<1>2. PickBestPrecedent(k) = {i \in D : MatchScore(i, k) > 0 /\ \A j \in D : MatchScore(j, k) <= MatchScore(i, k)}
  BY DEF PickBestPrecedent
<1>3. ofKind \subseteq D /\ mention \subseteq D
  OBVIOUS
<1> HIDE DEF D, ofKind, mention
<1>4. PickBestPrecedent(k) \subseteq IF ofKind # {} THEN ofKind ELSE mention
  BY <1>1, <1>2, <1>3
<1>5. ASSUME ofKind \cup mention # {} PROVE PickBestPrecedent(k) # {}
  <2>1. CASE ofKind \cap mention # {}
    BY <1>1, <1>2, <1>3, <2>1
  <2>2. CASE ofKind \cap mention = {} /\ ofKind # {}
    BY <1>1, <1>2, <1>3, <2>2
  <2>3. CASE ofKind = {}
    BY <1>1, <1>2, <1>3, <1>5, <2>3
  <2>4. QED
    BY <2>1, <2>2, <2>3
<1>6. QED
  BY <1>4, <1>5 DEF ofKind, mention, D

LEMMA ShelfIsSoundFollows == ASSUME PrecedentsInv PROVE ShelfIsSound
BY TheBestIsPicked DEF PrecedentsInv, ShelfIsSound

-----------------------------------------------------------------------------

(* The archives: runs follow one another, a file is of a run that was      *)
(* started, and a run called good left no torn file.                       *)
BackupsInv ==
  /\ BackupsTypeOK
  /\ \A k, n \in Run : k < n /\ status[n] # "none" => status[k] # "none"
  /\ \A f \in disk : status[f.run] # "none"
  /\ \A n \in Run : Good(n) => TornArchive(n) \notin disk
  /\ ArchivesAreKept

LEMMA BackupsStay == ASSUME BackupsInv, UNCHANGED backupVars PROVE BackupsInv'
BY DEF BackupsInv, BackupsTypeOK, ArchivesAreKept, LatestIsThere, MonthEndsAreKept, Good,
       backupVars

(* The first day of the calendar lies in its first month.                  *)
LEMMA MonthsFollow ==
  ASSUME NEW d \in 0..LastDate
  PROVE  Month(d) \in 0..Month(LastDate) /\ Month(LastDate) \in Nat
<1>1. /\ d \in Nat /\ LastDate \in Nat /\ d <= LastDate
      /\ DaysPerMonth \in Nat /\ DaysPerMonth > 0
  BY BackupAssumption
<1> DEFINE q == d \div DaysPerMonth
           p == LastDate \div DaysPerMonth
           r == d % DaysPerMonth
           s == LastDate % DaysPerMonth
<1>2. /\ q \in Int /\ p \in Int /\ r \in 0..(DaysPerMonth - 1) /\ s \in 0..(DaysPerMonth - 1)
      /\ d = DaysPerMonth * q + r /\ LastDate = DaysPerMonth * p + s
  BY <1>1
<1>3. Month(d) = q /\ Month(LastDate) = p
  BY DEF Month
<1> HIDE DEF q, p, r, s
<1>4. q >= 0
  <2>1. CASE q <= -1
    <3>1. DaysPerMonth * q <= DaysPerMonth * (-1)
      BY <1>1, <1>2, <2>1
    <3>2. QED
      BY <1>1, <1>2, <3>1
  <2>2. QED
    BY <1>2, <2>1
<1>5. q <= p
  <2>1. CASE q >= p + 1
    <3>1. DaysPerMonth * q >= DaysPerMonth * (p + 1)
      BY <1>1, <1>2, <2>1
    <3>2. DaysPerMonth * (p + 1) = DaysPerMonth * p + DaysPerMonth
      BY <1>1, <1>2
    <3>3. QED
      BY <1>1, <1>2, <3>1, <3>2
  <2>2. QED
    BY <1>2, <2>1
<1>6. QED
  BY <1>2, <1>3, <1>4, <1>5

(* There are finitely many runs and files.                                 *)
LEMMA FilesAreFinite == IsFiniteSet(Run) /\ IsFiniteSet(File)
<1>1. IsFiniteSet(Run)
  BY FS_Interval, BackupAssumption DEF Run
<1>2. IsFiniteSet(BOOLEAN)
  <2>1. BOOLEAN = {TRUE} \cup {FALSE}
    OBVIOUS
  <2>2. IsFiniteSet({TRUE}) /\ IsFiniteSet({FALSE})
    BY FS_Singleton
  <2>3. QED
    BY <2>1, <2>2, FS_Union
<1>3. IsFiniteSet(Run \X BOOLEAN)
  BY <1>1, <1>2, FS_Product
<1> DEFINE g == [f \in File |-> <<f.run, f.whole>>]
<1>4. g \in [File -> Run \X BOOLEAN]
  BY DEF File
<1>5. \A f, h \in File : g[f] = g[h] => f = h
  BY DEF File
<1>6. g \in Injection(File, Run \X BOOLEAN)
  <2> HIDE DEF g
  <2>1. QED
    BY <1>4, <1>5 DEF Injection, IsInjective
<1>7. QED
  BY <1>1, <1>3, <1>6, FS_Injection

(* The newest archive is among the youngest of the daily ones.             *)
LEMMA NewestIsKept ==
  ASSUME NEW fs \in SUBSET File, NEW n \in Run, NEW m, Archive(n) \in fs,
         \A f \in fs : f.run < n \/ f = Archive(n)
  PROVE  Archive(n) \in Kept(fs, m)
<1>1. {g \in fs : Younger(g, Archive(n))} = {}
  BY DEF Younger, Archive, Run, File
<1>2. Cardinality({}) = 0
  BY FS_EmptySet
<1>3. KeepDaily > 0
  BY BackupAssumption
<1>4. Archive(n) \in Youngest(KeepDaily, fs)
  BY <1>1, <1>2, <1>3 DEF Youngest
<1>5. QED
  BY <1>4 DEF Kept

(* The months of a set of runs are finitely many.                          *)
LEMMA MonthsAreFinite ==
  ASSUME NEW m, NEW later \in SUBSET Run PROVE IsFiniteSet({m[k] : k \in later})
<1> DEFINE of == [k \in later |-> m[k]]
           months == {m[k] : k \in later}
<1>1. IsFiniteSet(later)
  BY FilesAreFinite, FS_Subset
<1>2. of \in [later -> months] /\ \A x \in months : \E k \in later : of[k] = x
  OBVIOUS
<1> HIDE DEF of, months
<1>3. of \in Surjection(later, months)
  BY <1>2 DEF Surjection
<1>4. IsFiniteSet(months)
  BY <1>1, <1>3, FS_Surjection
<1>5. QED
  BY <1>4 DEF months

(* An archive is kept that is the last of its month and has few months     *)
(* behind it.                                                              *)
LEMMA MonthEndIsKept ==
  ASSUME NEW fs \in SUBSET File, NEW n \in Run, NEW m, NEW later \in SUBSET Run,
         Archive(n) \in fs, TornArchive(n) \notin fs,
         \A f \in fs : f.run > n => f.run \in later,
         m[n] \notin {m[k] : k \in later},
         Cardinality({m[k] : k \in later}) < KeepMonthly
  PROVE  Archive(n) \in Kept(fs, m)
<1> DEFINE a == Archive(n)
           months == {m[k] : k \in later}
           ends == MonthLast(fs, m)
           behind == {g \in ends : Younger(g, a)}
<1>1. \A g \in fs : Younger(g, a) => g.run \in later
  <2>1. SUFFICES ASSUME NEW g \in fs, Younger(g, a) PROVE g.run \in later
    OBVIOUS
  <2>2. CASE g.run > n
    BY <2>2
  <2>3. CASE g.run = n /\ ~g.whole
    <3>1. g = TornArchive(n)
      BY <2>3 DEF TornArchive, File
    <3>2. QED
      BY <3>1
  <2>4. QED
    BY <2>1, <2>2, <2>3 DEF Younger, Archive
<1>2. a \in ends
  <2>1. a.run = n /\ a \in fs
    BY DEF Archive
  <2>2. m[n] \notin {m[g.run] : g \in {h \in fs : Younger(h, a)}}
    BY <1>1
  <2>3. QED
    BY <2>1, <2>2 DEF MonthLast
<1>3. IsFiniteSet(months)
  BY MonthsAreFinite
<1> DEFINE at == [g \in behind |-> m[g.run]]
<1>4. at \in [behind -> months]
  BY <1>1 DEF MonthLast
<1>5. ASSUME NEW g \in behind, NEW h \in behind, at[g] = at[h] PROVE g = h
  <2>1. g \in fs /\ h \in fs /\ m[g.run] = m[h.run] /\ g \in File /\ h \in File
    BY <1>5 DEF MonthLast
  <2>2. ~Younger(g, h) /\ ~Younger(h, g)
    BY <2>1 DEF MonthLast
  <2>3. g.run = h.run /\ g.whole = h.whole
    BY <2>1, <2>2 DEF Younger, File, Run
  <2>4. QED
    BY <2>1, <2>3 DEF File
<1>6. at \in Injection(behind, months)
  <2> HIDE DEF at, behind, months
  <2>1. QED
    BY <1>4, <1>5 DEF Injection, IsInjective
<1>7. Cardinality(behind) <= Cardinality(months) /\ IsFiniteSet(behind)
  BY <1>3, <1>6, FS_Injection
<1>8. Cardinality(behind) < KeepMonthly
  <2> HIDE DEF behind, months
  <2>1. Cardinality(behind) \in Nat /\ Cardinality(months) \in Nat /\ KeepMonthly \in Nat
    BY <1>3, <1>7, FS_CardinalityType, BackupAssumption
  <2>2. Cardinality(months) < KeepMonthly
    BY DEF months
  <2>3. QED
    BY <1>7, <2>1, <2>2
<1>9. QED
  BY <1>2, <1>8 DEF Kept, Youngest

(* A run that begins takes the archives on, if its pruning left all that   *)
(* is to be kept.                                                          *)
LEMMA BeginningIsSafe ==
  ASSUME BackupsInv, NEW b \in Run, NEW st \in {"completed", "failed", "running"}, Begins(b, st),
         NEW left \in SUBSET {Archive(b), TornArchive(b)},
         disk' \subseteq disk \cup left, Kept(disk \cup left, month') \subseteq disk',
         st = "completed" => TornArchive(b) \notin left,
         Archive(b) \in disk' \/ (disk \subseteq disk' /\ st # "completed")
  PROVE  BackupsInv'
<1> DEFINE fs == disk \cup left
<1>1. /\ status \in [Run -> {"none", "running", "completed", "failed", "verified"}]
      /\ month \in [Run -> 0..Month(LastDate)] /\ date \in 0..LastDate /\ disk \subseteq File
  BY DEF BackupsInv, BackupsTypeOK
<1>2. /\ status[b] = "none" /\ date' = date
      /\ status' = [status EXCEPT ![b] = st] /\ month' = [month EXCEPT ![b] = Month(date)]
  BY DEF Begins
<1>3. Archive(b) \in File /\ TornArchive(b) \in File /\ Archive(b).run = b /\ TornArchive(b).run = b
  BY DEF File, Archive, TornArchive
<1>4. BackupsTypeOK'
  <2>1. Month(date) \in 0..Month(LastDate)
    BY <1>1, MonthsFollow
  <2>2. disk' \subseteq File
    BY <1>1, <1>3
  <2>3. QED
    BY <1>1, <1>2, <2>1, <2>2 DEF BackupsTypeOK
<1>5. \A k \in Run : k > b => status[k] = "none"
  <2>1. b \in Int /\ \A k \in Run : k \in Int
    BY DEF Run
  <2>2. QED
    BY <1>2, <2>1 DEF BackupsInv
<1>6. /\ status'[b] = st /\ month'[b] = Month(date)
      /\ \A k \in Run \ {b} : status'[k] = status[k] /\ month'[k] = month[k]
  BY <1>1, <1>2
<1>7. \A k, n \in Run : k < n /\ status'[n] # "none" => status'[k] # "none"
  <2>1. SUFFICES ASSUME NEW k \in Run, NEW n \in Run, k < n, status'[n] # "none"
                 PROVE  status'[k] # "none"
    OBVIOUS
  <2>2. CASE k = b
    BY <1>6, <2>2
  <2>3. CASE k # b /\ n = b
    BY <1>6, <2>1, <2>3 DEF Begins, Run
  <2>4. CASE k # b /\ n # b
    BY <1>6, <2>1, <2>4 DEF BackupsInv
  <2>5. QED
    BY <2>2, <2>3, <2>4
<1>8. \A f \in fs : f \in File /\ status'[f.run] # "none" /\ (f.run = b => f \in left)
  <2>1. SUFFICES ASSUME NEW f \in fs
                 PROVE  f \in File /\ status'[f.run] # "none" /\ (f.run = b => f \in left)
    OBVIOUS
  <2>2. CASE f \in left
    BY <1>3, <1>6, <2>2
  <2>3. CASE f \in disk
    <3>1. f \in File /\ f.run \in Run /\ status[f.run] # "none"
      BY <1>1, <2>3 DEF BackupsInv, File
    <3>2. QED
      BY <1>2, <1>6, <3>1
  <2>4. QED
    BY <2>1, <2>2, <2>3
<1>9. \A n \in Run \ {b} : Good(n)' <=> Good(n)
  BY <1>6 DEF Good
<1>10. Good(b)' <=> st = "completed"
  BY <1>6 DEF Good
<1>11. \A n \in Run : Good(n)' => TornArchive(n) \notin fs
  <2>1. SUFFICES ASSUME NEW n \in Run, Good(n)' PROVE TornArchive(n) \notin fs
    OBVIOUS
  <2>2. CASE n = b
    <3>1. TornArchive(b) \notin left
      BY <1>10, <2>1, <2>2
    <3>2. QED
      BY <1>3, <1>8, <2>2, <3>1
  <2>3. CASE n # b
    <3>1. TornArchive(n) \notin disk
      BY <1>9, <2>1, <2>3 DEF BackupsInv
    <3>2. TornArchive(n) \notin left
      BY <2>3 DEF TornArchive, Archive
    <3>3. QED
      BY <3>1, <3>2
  <2>4. QED
    BY <2>2, <2>3
<1>12. LatestIsThere'
  <2>1. SUFFICES ASSUME NEW n \in Run, Good(n)', \A k \in Run : k > n => ~Good(k)'
                 PROVE  \E k \in Run : k >= n /\ Archive(k) \in disk'
    BY DEF LatestIsThere, Good
  <2>2. n <= b
    <3>1. status'[n] # "none"
      BY <2>1 DEF Good
    <3>2. QED
      BY <1>5, <1>6, <3>1 DEF Run
  <2>3. CASE Archive(b) \in disk'
    BY <2>2, <2>3 DEF Run
  <2>4. CASE disk \subseteq disk' /\ st # "completed"
    <3>1. n # b
      BY <1>10, <2>1, <2>4
    <3>2. Good(n) /\ \A k \in Run : k > n => ~Good(k)
      BY <1>2, <1>9, <2>1, <3>1 DEF Good
    <3>3. PICK k \in Run : k >= n /\ Archive(k) \in disk
      BY <3>2 DEF BackupsInv, ArchivesAreKept, LatestIsThere
    <3>4. QED
      BY <2>4, <3>3
  <2>5. QED
    BY <2>3, <2>4
<1>13. MonthEndsAreKept'
  <2> DEFINE later(n) == {k \in Run : k > n /\ status'[k] # "none"}
             before(n) == {k \in Run : k > n /\ status[k] # "none"}
  <2>1. SUFFICES ASSUME NEW n \in Run, Good(n)', month'[n] \notin {month'[k] : k \in later(n)},
                        Cardinality({month'[k] : k \in later(n)}) < KeepMonthly
                 PROVE  Archive(n) \in disk'
    BY DEF MonthEndsAreKept, Good
  <2>2. CASE n = b
    BY <1>10, <2>1, <2>2
  <2>3. CASE n # b
    <3>1. before(n) \subseteq later(n) /\ \A k \in before(n) : month'[k] = month[k]
      BY <1>2, <1>6
    <3>2. {month[k] : k \in before(n)} \subseteq {month'[k] : k \in later(n)}
      BY <3>1
    <3>3. month[n] \notin {month[k] : k \in before(n)}
      BY <1>6, <2>1, <2>3, <3>2
    <3>4. IsFiniteSet({month'[k] : k \in later(n)})
      BY MonthsAreFinite
    <3>5. /\ Cardinality({month[k] : k \in before(n)}) <= Cardinality({month'[k] : k \in later(n)})
          /\ Cardinality({month[k] : k \in before(n)}) \in Nat
          /\ Cardinality({month'[k] : k \in later(n)}) \in Nat
      <4> HIDE DEF later, before
      <4>1. QED
        BY <3>2, <3>4, FS_Subset, FS_CardinalityType
    <3>6. Cardinality({month[k] : k \in before(n)}) < KeepMonthly
      <4> HIDE DEF later, before
      <4>1. KeepMonthly \in Nat
        BY BackupAssumption
      <4>2. QED
        BY <2>1, <3>5, <4>1
    <3>7. Good(n)
      BY <1>9, <2>1, <2>3
    <3>8. Archive(n) \in disk
      BY <3>3, <3>6, <3>7 DEF BackupsInv, ArchivesAreKept, MonthEndsAreKept
    <3>9. /\ fs \subseteq File /\ Archive(n) \in fs /\ TornArchive(n) \notin fs
          /\ \A f \in fs : f.run > n => f.run \in later(n)
      BY <1>8, <1>11, <2>1, <3>8 DEF File
    <3>10. later(n) \subseteq Run
      OBVIOUS
    <3> HIDE DEF later, fs
    <3>11. Archive(n) \in Kept(fs, month')
      BY <2>1, <3>9, <3>10, MonthEndIsKept
    <3>12. QED
      BY <3>11 DEF fs
  <2>4. QED
    BY <2>2, <2>3
<1>14. QED
  BY <1>4, <1>7, <1>8, <1>11, <1>12, <1>13 DEF BackupsInv, ArchivesAreKept

(* The monthly check changes no archive and calls no other run good.       *)
LEMMA VerifyingIsSafe ==
  ASSUME BackupsInv, NEW n \in Run, VerifyMostRecentBackup(n)
  PROVE  BackupsInv'
<1>1. /\ status[n] = "completed" /\ status' = [status EXCEPT ![n] = "verified"]
      /\ UNCHANGED <<date, month, disk>>
      /\ status \in [Run -> {"none", "running", "completed", "failed", "verified"}]
  BY DEF VerifyMostRecentBackup, ToVerify, BackupsInv, BackupsTypeOK
<1>2. \A k \in Run : (Good(k)' <=> Good(k)) /\ (status'[k] = "none" <=> status[k] = "none")
  BY <1>1 DEF Good
<1>3. BackupsTypeOK' /\ \A f \in disk : f.run \in Run
  BY <1>1 DEF BackupsInv, BackupsTypeOK, File
<1>4. \A k \in Run : {j \in Run : j > k /\ status'[j] # "none"} = {j \in Run : j > k /\ status[j] # "none"}
  BY <1>2
<1>5. LatestIsThere'
  BY <1>1, <1>2 DEF BackupsInv, ArchivesAreKept, LatestIsThere
<1>6. MonthEndsAreKept'
  <2>1. SUFFICES ASSUME NEW k \in Run, Good(k)',
                        LET later == {j \in Run : j > k /\ status'[j] # "none"}
                        IN  /\ month'[k] \notin {month'[j] : j \in later}
                            /\ Cardinality({month'[j] : j \in later}) < KeepMonthly
                 PROVE  Archive(k) \in disk'
    BY DEF MonthEndsAreKept, Good
  <2> DEFINE later == {j \in Run : j > k /\ status[j] # "none"}
  <2>2. /\ Good(k) /\ month[k] \notin {month[j] : j \in later}
        /\ Cardinality({month[j] : j \in later}) < KeepMonthly
    BY <1>1, <1>2, <1>4, <2>1
  <2>3. Archive(k) \in disk
    BY <2>2 DEF BackupsInv, ArchivesAreKept, MonthEndsAreKept
  <2>4. QED
    BY <1>1, <2>3
<1>7. QED
  BY <1>1, <1>2, <1>3, <1>5, <1>6 DEF BackupsInv, ArchivesAreKept

LEMMA KeptAreThere == ASSUME NEW fs, NEW m PROVE Kept(fs, m) \subseteq fs
BY DEF Kept, Youngest, MonthLast

(* The archive of a run that begins is younger than all there are.         *)
LEMMA NewArchiveIsKept ==
  ASSUME BackupsInv, NEW b \in Run, NEW st, Begins(b, st)
  PROVE  Archive(b) \in Kept(disk \cup {Archive(b)}, month')
<1> DEFINE fs == disk \cup {Archive(b)}
<1>1. fs \subseteq File /\ Archive(b) \in fs
  <2>1. Archive(b) \in File
    BY DEF File, Archive
  <2>2. QED
    BY <2>1 DEF BackupsInv, BackupsTypeOK
<1>2. \A f \in fs : f.run < b \/ f = Archive(b)
  <2>1. SUFFICES ASSUME NEW f \in disk PROVE f.run < b
    OBVIOUS
  <2>2. f.run \in Run /\ status[f.run] # "none" /\ status[b] = "none"
    BY <1>1 DEF BackupsInv, File, Begins
  <2>3. ~(b < f.run) /\ b # f.run
    BY <2>2 DEF BackupsInv
  <2>4. QED
    BY <2>2, <2>3 DEF Run
<1> HIDE DEF fs
<1>3. Archive(b) \in Kept(fs, month')
  BY <1>1, <1>2, NewestIsKept
<1>4. QED
  BY <1>3 DEF fs

(* A run that ends, fails or is cut off.                                   *)
LEMMA RunIsSafe ==
  ASSUME BackupsInv, NEW b \in Run, RunBackup(b) \/ RunFails(b) \/ RunIsCutOff(b)
  PROVE  BackupsInv'
<1>1. TornArchive(b) \notin {Archive(b)}
  BY DEF Archive, TornArchive
<1> DEFINE X == {Archive(b), TornArchive(b)}
<1>2. ASSUME NEW st \in {"completed", "failed"}, Begins(b, st),
             disk' = Kept(disk \cup {Archive(b)}, month')
      PROVE  BackupsInv'
  <2>1. Archive(b) \in disk' /\ disk' \subseteq disk \cup {Archive(b)}
    BY <1>2, NewArchiveIsKept, KeptAreThere
  <2>2. {Archive(b)} \subseteq X
    OBVIOUS
  <2>3. QED
    BY <1>1, <1>2, <2>1, <2>2, BeginningIsSafe
<1>3. ASSUME NEW st \in {"failed", "running"}, Begins(b, st),
             NEW left \in SUBSET X, disk' = disk \cup left
      PROVE  BackupsInv'
  BY <1>3, KeptAreThere, BeginningIsSafe
<1>4. ASSUME Begins(b, "completed"), NEW gone \in SUBSET disk,
             gone \cap Kept(disk \cup {Archive(b)}, month') = {},
             disk' = (disk \ gone) \cup {Archive(b)}
      PROVE  BackupsInv'
  <2>1. Kept(disk \cup {Archive(b)}, month') \subseteq disk'
    BY <1>4, KeptAreThere
  <2>2. disk' \subseteq disk \cup {Archive(b)} /\ Archive(b) \in disk' /\ {Archive(b)} \subseteq X
    BY <1>4
  <2>3. QED
    BY <1>1, <1>4, <2>1, <2>2, BeginningIsSafe
<1>5. CASE RunBackup(b)
  BY <1>2, <1>5 DEF RunBackup
<1>6. CASE RunFails(b)
  <2>1. Begins(b, "failed")
    BY <1>6 DEF RunFails
  <2>2. CASE \E left \in SUBSET X : disk' = disk \cup left
    BY <1>3, <2>1, <2>2
  <2>3. CASE disk' = Kept(disk \cup {Archive(b)}, month')
    BY <1>2, <2>1, <2>3
  <2>4. QED
    BY <1>6, <2>2, <2>3 DEF RunFails
<1>7. CASE RunIsCutOff(b)
  <2>1. CASE /\ Begins(b, "running")
             /\ \E left \in SUBSET X : disk' = disk \cup left
    BY <1>3, <2>1
  <2>2. CASE /\ Begins(b, "completed")
             /\ \E gone \in SUBSET disk :
                  /\ gone \cap Kept(disk \cup {Archive(b)}, month') = {}
                  /\ disk' = (disk \ gone) \cup {Archive(b)}
    BY <1>4, <2>2
  <2>3. QED
    BY <1>7, <2>1, <2>2 DEF RunIsCutOff
<1>8. QED
  BY <1>5, <1>6, <1>7

(* Every step of the backups keeps the invariant.                          *)
LEMMA BackupsGoOn ==
  ASSUME BackupsInv, HandlersTypeOK(Record), BackupsStep
  PROVE  BackupsInv' /\ HandlersTypeOK(Record)' /\ HurtsOnly({}) /\ Survived
<1>1. CASE NextDate
  <2>1. BackupsTypeOK'
    BY <1>1, BackupAssumption DEF NextDate, BackupsInv, BackupsTypeOK
  <2>2. BackupsInv'
    BY <1>1, <2>1
    DEF NextDate, BackupsInv, ArchivesAreKept, LatestIsThere, MonthEndsAreKept, Good
  <2>3. QED
    BY <1>1, <2>2 DEF NextDate, HandlersTypeOK, HurtsOnly, Survived, handlerVars
<1>2. ASSUME NEW n \in Run, RunBackup(n) \/ RunFails(n) \/ RunIsCutOff(n) \/ VerifyMostRecentBackup(n)
      PROVE  BackupsInv' /\ HandlersTypeOK(Record)' /\ HurtsOnly({}) /\ Survived
  <2>1. BackupsInv'
    BY <1>2, RunIsSafe, VerifyingIsSafe
  <2>2. UNCHANGED <<edits, hurt>> /\ (UNCHANGED mishaps \/ mishaps' = mishaps + 1)
    BY <1>2 DEF RunBackup, RunFails, RunIsCutOff, VerifyMostRecentBackup, Begins, Mishap, handlerVars
  <2>3. QED
    BY <2>1, <2>2 DEF HandlersTypeOK, HurtsOnly, Survived
<1>3. QED
  BY <1>1, <1>2 DEF BackupsStep

LEMMA BackupsStart == ASSUME BackupsInit PROVE BackupsInv
<1>1. BackupsTypeOK
  <2>1. Month(0) \in 0..Month(LastDate) /\ 0 \in 0..LastDate
    BY MonthsFollow, BackupAssumption
  <2>2. 0 \in 0..Month(LastDate)
    BY MonthsFollow, <2>1
  <2>3. QED
    BY <2>1, <2>2 DEF BackupsInit, BackupsTypeOK
<1>2. \A n \in Run : ~Good(n)
  BY DEF BackupsInit, Good
<1>3. QED
  BY <1>1, <1>2 DEF BackupsInit, BackupsInv, ArchivesAreKept, LatestIsThere, MonthEndsAreKept

-----------------------------------------------------------------------------

(* The parts of the office share their handlers' marks alone: the          *)
(* inductive invariant is that of every part.                              *)
OfficeInv ==
  /\ HandlersTypeOK(Record)
  /\ DocumentsInv
  /\ TextsInv
  /\ DealsInv
  /\ CalendarInv
  /\ ChasingInv
  /\ ScoresInv
  /\ BackupsInv
  /\ PrecedentsInv

(* What a handler leaves to the parts that are not its own.                *)
LEMMA OthersStay ==
  ASSUME OfficeInv, NEW K, HurtsOnly(K), Survived
  PROVE  /\ UNCHANGED doc /\ K \cap Document = {} => DocumentsInv'
         /\ UNCHANGED textVars /\ K \cap (Entry \cup Slug) = {} => TextsInv'
         /\ UNCHANGED dealVars => DealsInv'
         /\ UNCHANGED calendarVars /\ K \cap (User \cup Series) = {} => CalendarInv'
         /\ UNCHANGED chasingVars => ChasingInv'
         /\ UNCHANGED trust => ScoresInv'
         /\ UNCHANGED backupVars => BackupsInv'
         /\ UNCHANGED precedentVars /\ SearchIndex \notin K => PrecedentsInv'
<1>1. \A r : r \notin K => (r \in hurt' <=> r \in hurt)
  BY DEF HurtsOnly
<1>2. UNCHANGED doc /\ K \cap Document = {} => DocumentsInv'
  BY <1>1, DocumentsStay DEF OfficeInv
<1>3. UNCHANGED textVars /\ K \cap (Entry \cup Slug) = {} => TextsInv'
  BY <1>1, TextsStay DEF OfficeInv
<1>4. UNCHANGED calendarVars /\ K \cap (User \cup Series) = {} => CalendarInv'
  BY <1>1, CalendarStays DEF OfficeInv
<1>5. UNCHANGED precedentVars /\ SearchIndex \notin K => PrecedentsInv'
  BY <1>1, PrecedentsStay DEF OfficeInv
<1>6. UNCHANGED trust => ScoresInv'
  BY DEF OfficeInv, ScoresInv
<1>7. QED
  BY <1>2, <1>3, <1>4, <1>5, <1>6, DealsStay, ChasingStays, BackupsStay DEF OfficeInv

(* The office starts in a state of the invariant.                          *)
LEMMA OfficeStarts == Init => OfficeInv
<1> SUFFICES ASSUME Init PROVE OfficeInv
  OBVIOUS
<1>1. HandlersTypeOK(Record)
  BY DEF Init, HandlersInit, HandlersTypeOK
<1>2. DocumentsInv
  BY DEF Init, DocumentInit, DocumentsInv, DocumentSound, DocumentSettled, DocumentState
<1>3. TextsInv
  BY DEF Init, TextInit, TextsInv, EntrySettled, TemplateSettled, EntryState, TemplateState
<1>4. DealsInv
  BY DEF Init, NegotiationInit, DealsInv, DealState
<1>5. CalendarInv
  <2>1. events = << >> /\ repeated = [s \in Series |-> 0]
    BY DEF Init, CalendarInit
  <2>2. \A s \in Series : ~HasEvents(s[1]) /\ Open(s) = {}
    BY <2>1 DEF HasEvents, Open
  <2>3. Cardinality({}) = 0
    BY FS_EmptySet
  <2>4. \A s \in Series : repeated[s] = 0
    BY <2>1
  <2>5. \A s \in Series : Cardinality(Open(s)) <= 1 + repeated[s]
    BY <2>2, <2>3, <2>4
  <2>6. SeriesGoesOn
    BY <2>2, <2>5 DEF SeriesGoesOn
  <2>7. repeated \in [Series -> Nat] /\ events \in Seq(Event)
    BY <2>1
  <2>8. QED
    BY <2>6, <2>7 DEF CalendarInv
<1>6. ChasingInv
  <2>1. day = 0 /\ \A r \in DocumentRequest : ChaseSound(chase[r], mishaps)
    BY DEF Init, HandlersInit, ChasingInit, ChaseSound, Stage
  <2>2. chase \in [DocumentRequest -> ChaseState]
    BY DEF Init, ChasingInit, ChaseState
  <2>3. QED
    BY <2>1, <2>2 DEF ChasingInv
<1>7. ScoresInv
  BY ScoresStart DEF Init
<1>8. BackupsInv
  BY BackupsStart DEF Init
<1>9. PrecedentsInv
  BY PrecedentAssumption DEF Init, PrecedentsInit, PrecedentsInv, PrecedentsTypeOK, Verdicts
<1>10. QED
  BY <1>1, <1>2, <1>3, <1>4, <1>5, <1>6, <1>7, <1>8, <1>9 DEF OfficeInv

(* Every step of the office keeps the invariant: its part by what was      *)
(* proved of the part, the others because it leaves them alone.            *)
LEMMA OfficeGoesOn == OfficeInv /\ [Next]_vars => OfficeInv'
<1> SUFFICES ASSUME OfficeInv, [Next]_vars PROVE OfficeInv'
  OBVIOUS
<1>1. CASE Documents
  <2>1. DocumentsInv' /\ HandlersTypeOK(Record)' /\ HurtsOnly(Document) /\ Survived
    BY <1>1, DocumentsGoOn DEF Documents, OfficeInv
  <2>2. QED
    BY <1>1, <2>1, OthersStay, KindsAreApart DEF Documents, OfficeInv
<1>2. CASE Texts
  <2>1. TextsInv' /\ HandlersTypeOK(Record)' /\ HurtsOnly(Entry \cup Slug) /\ Survived
    BY <1>2, TextsGoOn DEF Texts, OfficeInv
  <2>2. QED
    BY <1>2, <2>1, OthersStay, KindsAreApart DEF Texts, OfficeInv
<1>3. CASE Deals
  <2>1. DealsInv' /\ HandlersTypeOK(Record)' /\ HurtsOnly(Negotiation) /\ Survived
    BY <1>3, DealsGoOn DEF Deals, OfficeInv
  <2>2. QED
    BY <1>3, <2>1, OthersStay, KindsAreApart DEF Deals, OfficeInv
<1>4. CASE Duties
  <2>1. CalendarInv' /\ HandlersTypeOK(Record)' /\ HurtsOnly(User \cup Series) /\ Survived
    BY <1>4, CalendarGoesOn DEF Duties, OfficeInv
  <2>2. QED
    BY <1>4, <2>1, OthersStay, KindsAreApart DEF Duties, OfficeInv
<1>5. CASE Chasing
  <2>1. ChasingInv' /\ HandlersTypeOK(Record)' /\ HurtsOnly(DocumentRequest) /\ Survived
    BY <1>5, ChasingGoesOn DEF Chasing, OfficeInv
  <2>2. QED
    BY <1>5, <2>1, OthersStay, KindsAreApart DEF Chasing, OfficeInv
<1>6. CASE Scores
  <2>1. ScoresInv' /\ HandlersTypeOK(Record)' /\ HurtsOnly({}) /\ Survived
    BY <1>6, ScoresGoOn DEF Scores, OfficeInv
  <2>2. QED
    BY <1>6, <2>1, OthersStay DEF Scores, OfficeInv
<1>7. CASE Archives
  <2>1. BackupsInv' /\ HandlersTypeOK(Record)' /\ HurtsOnly({}) /\ Survived
    BY <1>7, BackupsGoOn DEF Archives, OfficeInv
  <2>2. QED
    BY <1>7, <2>1, OthersStay DEF Archives, OfficeInv
<1>8. CASE Shelf
  <2>1. PrecedentsInv' /\ HandlersTypeOK(Record)' /\ HurtsOnly({SearchIndex}) /\ Survived
    BY <1>8, PrecedentsGoOn DEF Shelf, OfficeInv
  <2>2. QED
    BY <1>8, <2>1, OthersStay, KindsAreApart DEF Shelf, OfficeInv, records
<1>9. CASE UNCHANGED vars
  <2>1. HandlersTypeOK(Record)' /\ HurtsOnly({}) /\ Survived
    BY <1>9 DEF vars, handlerVars, OfficeInv, HandlersTypeOK, HurtsOnly, Survived
  <2>2. QED
    BY <1>9, <2>1, OthersStay DEF vars, records, OfficeInv
<1>10. QED
  BY <1>1, <1>2, <1>3, <1>4, <1>5, <1>6, <1>7, <1>8, <1>9 DEF Next

(* OfficeInv holds in every reachable state, for every set of records, any *)
(* number of requests and of handlers that are cut short.                  *)
THEOREM OfficeIsKept == Spec => []OfficeInv
BY OfficeStarts, OfficeGoesOn, PTL DEF Spec

(* The office's records keep their types.                                  *)
THEOREM OfficeTypeOKHolds == Spec => []TypeOK
<1>1. OfficeInv => TypeOK
  BY DEF OfficeInv, TypeOK, DocumentsInv, TextsInv, DealsInv, CalendarInv, ChasingInv, ScoresInv,
         BackupsInv, PrecedentsInv
<1>2. QED
  BY <1>1, OfficeIsKept, PTL

(* The latest version of a document, an entry or a template is the text in *)
(* force, except where the last handler was cut short; and precedents are  *)
(* texts that were approved.                                               *)
THEOREM LatestIsInForceHolds == Spec => []LatestIsInForce
<1>1. OfficeInv => LatestIsInForce
  <2> SUFFICES ASSUME OfficeInv PROVE LatestIsInForce
    OBVIOUS
  <2>1. \A d \in Document \ hurt : doc[d].versions # << >> => Latest(doc[d].versions) = doc[d].file
    BY DEF OfficeInv, DocumentsInv, DocumentSettled
  <2>2. \A e \in Entry \ hurt :
          entry[e].versions # << >> =>
            Latest(entry[e].versions) = entry[e].body /\ entry[e].found = entry[e].body
    BY DEF OfficeInv, TextsInv, EntrySettled
  <2>3. \A s \in Slug \ hurt :
          template[s].versions # << >> => Latest(template[s].versions) = template[s].body
    BY DEF OfficeInv, TextsInv, TemplateSettled
  <2>4. ShelfIsSound
    BY ShelfIsSoundFollows DEF OfficeInv
  <2>5. QED
    BY <2>1, <2>2, <2>3, <2>4 DEF LatestIsInForce
<1>2. QED
  BY <1>1, OfficeIsKept, PTL

(* Wherever a replacement or a rollback of a document is cut short, the    *)
(* bytes it overwrote are a version and no version is gone.                *)
THEOREM OverwrittenIsPreservedHolds == Spec => OverwrittenIsPreserved
<1>1. ASSUME OfficeInv, [Next]_vars, UNCHANGED doc => FALSE
      PROVE  \A d \in Document : Preserves(doc[d], doc'[d])
  <2>1. Documents
    BY <1>1 DEF Next, vars, records, Texts, Deals, Duties, Chasing, Scores, Archives, Shelf
  <2>2. QED
    BY <1>1, <2>1, DocumentsGoOn DEF Documents, OfficeInv
<1>2. OfficeInv /\ [Next]_vars =>
        [\A d \in Document :
           doc[d].meta # "none" /\ doc'[d].file # doc[d].file =>
             \E n \in DOMAIN doc'[d].versions :
               /\ doc'[d].versions[n] = doc[d].file
               /\ SubSeq(doc'[d].versions, 1, Len(doc[d].versions)) = doc[d].versions]_doc
  BY <1>1 DEF Preserves
<1>3. QED
  BY <1>2, OfficeIsKept, PTL DEF Spec, OverwrittenIsPreserved

(* The drafts under negotiation are numbered without a gap and each was    *)
(* compared with the one before it, although comparisons return out of     *)
(* order.                                                                  *)
THEOREM DraftsFormAChainHolds == Spec => []DraftsFormAChain
<1>1. OfficeInv => DraftsFormAChain
  BY DEF OfficeInv, DealsInv, DraftsFormAChain
<1>2. QED
  BY <1>1, OfficeIsKept, PTL

(* A yearly duty goes on: it has an open event unless a handler was cut    *)
(* short, and no more of them than it was repeated.                        *)
THEOREM SeriesGoesOnHolds == Spec => []SeriesGoesOn
<1>1. OfficeInv => SeriesGoesOn
  BY DEF OfficeInv, CalendarInv
<1>2. QED
  BY <1>1, OfficeIsKept, PTL

(* Nobody is chased twice at a stage, but for the handlers that were cut   *)
(* short, and an escalation comes last.                                    *)
THEOREM ChasedOnceHolds == Spec => []ChasedOnce
<1>1. OfficeInv => ChasedOnce
  BY ChasedOnceFollows DEF OfficeInv
<1>2. QED
  BY <1>1, OfficeIsKept, PTL

(* Pruning keeps something as new as the newest good backup, and the       *)
(* archives of the months that are to be kept, whatever runs failed or     *)
(* died.                                                                   *)
THEOREM ArchivesAreKeptHolds == Spec => []ArchivesAreKept
<1>1. OfficeInv => ArchivesAreKept
  BY DEF OfficeInv, BackupsInv
<1>2. QED
  BY <1>1, OfficeIsKept, PTL

=============================================================================
