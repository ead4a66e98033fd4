---------------------------- MODULE AnswersProofs -----------------------------
(***************************************************************************)
(* Proofs of what an answer says: of git, for any number of repositories,  *)
(* questions, commits and failures; and of the last word, for any number   *)
(* of files and writes, and any caps.                                      *)
(*                                                                         *)
(* Of git, two things are followed through every interleaving.  While a    *)
(* question has greps under way, a name that it takes for absent, or of    *)
(* which it knows nothing yet, has in every repository a grep that has     *)
(* ended or is one of those; so a name is stored as absent, for all that   *)
(* follow, only when all have ended.  And a pair in the cache without a    *)
(* record is one that was looked up in vain, whoever did so; so a question *)
(* that has all its pairs in the cache misses only what somebody missed.   *)
(*                                                                         *)
(* Of the last word, the index and the corpus at the time of the question  *)
(* are followed: both are states that the corpus was in, and a file that   *)
(* has the same time in both is the same.  So what the stat pass has seen  *)
(* is in the index as it is, or is among the files that are known to be    *)
(* unread.                                                                 *)
(*                                                                         *)
(* The cases of a search are inputs, and their theorems are about inputs   *)
(* of any size.  They rest on what is said first, of numbers and lists: a  *)
(* finite set has one enumeration in a strict order; so a page is its      *)
(* rows within the share and then the others, a combined answer its        *)
(* corpora one behind the other, and a text its chunks.  Where the code    *)
(* goes through a list with a variable, as it does for windows, there is a *)
(* function of how far it has come, and the proofs ask for the first place *)
(* at which it would be wrong.                                             *)
(***************************************************************************)
EXTENDS Answers, FiniteSetTheorems, FunctionTheorems, WellFoundedInduction, TLAPS

-----------------------------------------------------------------------------
(* Numbers and lists. *)

(* A set of naturals that is not empty has a least, *)
LEMMA Least ==
  ASSUME NEW S, S \subseteq Nat, S # {}
  PROVE  \E n \in S : \A m \in S : n <= m
<1>1. PICK n \in S : \A m \in S : ~(<<m, n>> \in OpToRel(<, Nat))
  BY NatLessThanWellFounded, WFMin
<1>2. \A m \in S : ~(m < n)
  BY <1>1 DEF OpToRel
<1>3. \A m \in S : m \in Nat /\ n \in Nat
  OBVIOUS
<1>4. \A m \in S : n <= m
  BY <1>2, <1>3
<1> QED BY <1>4

(* and a greatest if it is bounded. *)
LEMMA Greatest ==
  ASSUME NEW S, S \subseteq Nat, S # {}, NEW b \in Nat, \A n \in S : n <= b
  PROVE  \E n \in S : \A m \in S : m <= n
<1> DEFINE D == {b - n : n \in S}
<1>1. D \subseteq Nat /\ D # {}
  <2>1. ASSUME NEW n \in S PROVE b - n \in Nat
    <3>1. n \in Nat /\ n <= b
      OBVIOUS
    <3> QED BY <3>1
  <2> QED BY <2>1
<1> HIDE DEF D
<1>2. PICK d \in D : \A e \in D : d <= e
  BY <1>1, Least
<1>3. PICK n \in S : d = b - n
  BY DEF D
<1>4. ASSUME NEW m \in S PROVE m <= n
  <2>1. b - m \in D
    BY DEF D
  <2> QED BY <1>2, <1>3, <2>1
<1> QED BY <1>4

(* A strict order of all elements of a set. *)
OrderOf(R, S) ==
  /\ \A x \in S : <<x, x>> \notin R
  /\ \A x, y \in S : x # y => <<x, y>> \in R \/ <<y, x>> \in R
  /\ \A x, y, z \in S : <<x, y>> \in R /\ <<y, z>> \in R => <<x, z>> \in R

Rank(R, S, x) == Cardinality({y \in S : <<y, x>> \in R})

LEMMA RanksGrow ==
  ASSUME NEW S, IsFiniteSet(S), NEW R, OrderOf(R, S), NEW x \in S
  PROVE  /\ Rank(R, S, x) \in 0..(Cardinality(S) - 1)
         /\ \A y \in S : <<y, x>> \in R => Rank(R, S, y) < Rank(R, S, x)
<1> DEFINE below(z) == {y \in S : <<y, z>> \in R}
<1>1. IsFiniteSet(below(x)) /\ Cardinality(below(x)) \in Nat /\ Cardinality(S) \in Nat
  BY FS_Subset, FS_CardinalityType
<1>2. Cardinality(below(x)) < Cardinality(S)
  <2>1. below(x) \in SUBSET S /\ x \notin below(x)
    BY DEF OrderOf
  <2> HIDE DEF below
  <2>2. below(x) # S
    BY <2>1
  <2>3. Cardinality(below(x)) <= Cardinality(S) /\ Cardinality(below(x)) # Cardinality(S)
    BY <2>1, <2>2, FS_Subset
  <2> QED BY <1>1, <2>3
<1>3. ASSUME NEW y \in S, <<y, x>> \in R
      PROVE  Cardinality(below(y)) < Cardinality(below(x))
  <2>1. below(y) \in SUBSET below(x) /\ y \in below(x) /\ y \notin below(y)
    BY <1>3 DEF OrderOf
  <2> HIDE DEF below
  <2>2. below(y) # below(x)
    BY <2>1
  <2>3. /\ IsFiniteSet(below(y)) /\ Cardinality(below(y)) <= Cardinality(below(x))
        /\ Cardinality(below(y)) # Cardinality(below(x))
    BY <1>1, <2>1, <2>2, FS_Subset
  <2>4. Cardinality(below(y)) \in Nat
    BY <2>3, FS_CardinalityType
  <2> QED BY <1>1, <2>3, <2>4
<1> QED BY <1>1, <1>2, <1>3 DEF Rank

(* Every rank is taken. *)
LEMMA EveryRank ==
  ASSUME NEW S, IsFiniteSet(S), NEW R, OrderOf(R, S), NEW k \in 1..Cardinality(S)
  PROVE  \E x \in S : Rank(R, S, x) = k - 1
<1> DEFINE n == Cardinality(S)
           place == [x \in S |-> Rank(R, S, x) + 1]
<1>1. n \in Nat
  BY FS_CardinalityType
<1>2. ASSUME NEW x \in S PROVE Rank(R, S, x) \in Nat /\ Rank(R, S, x) + 1 \in 1..n
  <2>1. Rank(R, S, x) \in 0..(n - 1)
    BY RanksGrow
  <2> QED BY <1>1, <2>1
<1>3. ASSUME NEW x \in S, NEW y \in S, Rank(R, S, x) = Rank(R, S, y) PROVE x = y
  <2>1. CASE <<x, y>> \in R
    <3>1. Rank(R, S, x) < Rank(R, S, y)
      BY <2>1, RanksGrow
    <3> QED BY <1>2, <1>3, <3>1
  <2>2. CASE <<y, x>> \in R
    <3>1. Rank(R, S, y) < Rank(R, S, x)
      BY <2>2, RanksGrow
    <3> QED BY <1>2, <1>3, <3>1
  <2> QED BY <2>1, <2>2 DEF OrderOf
<1>4. place \in Injection(S, 1..n)
  <2>1. place \in [S -> 1..n]
    BY <1>2
  <2>2. ASSUME NEW x \in S, NEW y \in S, place[x] = place[y] PROVE x = y
    BY <1>2, <1>3, <2>2
  <2> QED BY <2>1, <2>2 DEF Injection, IsInjective
<1>5. IsFiniteSet(1..n) /\ Cardinality(1..n) = n
  BY <1>1, FS_Interval
<1>6. place \in Surjection(S, 1..n)
  BY <1>4, <1>5, FS_Injection
<1>7. PICK x \in S : place[x] = k
  BY <1>6 DEF Surjection
<1> QED BY <1>2, <1>7

(* What a list of a set has: every element once, in the order.               *)
LEMMA ListedIs ==
  ASSUME NEW S, IsFiniteSet(S), NEW R, OrderOf(R, S)
  PROVE  LET list == Listed(S, R)
             n == Cardinality(S)
         IN /\ n \in Nat
            /\ list \in [1..n -> S]
            /\ \A x \in S : \E k \in 1..n : list[k] = x
            /\ \A i, j \in 1..n : <<list[i], list[j]>> \in R <=> i < j
<1> DEFINE list == Listed(S, R)
           n == Cardinality(S)
<1>1. n \in Nat
  BY FS_CardinalityType
<1>2. ASSUME NEW k \in 1..n
      PROVE  list[k] \in S /\ Rank(R, S, list[k]) = k - 1
  <2>1. \E x \in S : Cardinality({y \in S : <<y, x>> \in R}) = k - 1
    BY EveryRank DEF Rank
  <2>2. list[k] = CHOOSE x \in S : Cardinality({y \in S : <<y, x>> \in R}) = k - 1
    BY DEF Listed
  <2> HIDE DEF list
  <2> QED BY <2>1, <2>2 DEF Rank
<1>3. list \in [1..n -> S]
  BY <1>2 DEF Listed
<1> HIDE DEF list
<1>4. ASSUME NEW i \in 1..n, NEW j \in 1..n, <<list[i], list[j]>> \in R PROVE i < j
  <2>1. Rank(R, S, list[i]) < Rank(R, S, list[j])
    BY <1>2, <1>4, RanksGrow
  <2> QED BY <1>1, <1>2, <2>1
<1>5. ASSUME NEW i \in 1..n, NEW j \in 1..n, i < j PROVE <<list[i], list[j]>> \in R
  <2>1. list[i] # list[j] /\ list[i] \in S /\ list[j] \in S
    BY <1>1, <1>2, <1>5
  <2>2. <<list[j], list[i]>> \notin R
    BY <1>1, <1>4, <1>5
  <2> QED BY <2>1, <2>2 DEF OrderOf
<1>6. ASSUME NEW x \in S PROVE \E k \in 1..n : list[k] = x
  <2>1. Rank(R, S, x) \in 0..(n - 1)
    BY RanksGrow
  <2>2. PICK k \in 1..n : k = Rank(R, S, x) + 1
    BY <1>1, <2>1
  <2>3. Rank(R, S, list[k]) = Rank(R, S, x) /\ list[k] \in S
    BY <1>1, <1>2, <2>1, <2>2
  <2>4. /\ <<list[k], x>> \in R => Rank(R, S, list[k]) < Rank(R, S, x)
        /\ <<x, list[k]>> \in R => Rank(R, S, x) < Rank(R, S, list[k])
    BY <2>3, RanksGrow
  <2>5. list[k] = x
    BY <1>1, <2>1, <2>3, <2>4 DEF OrderOf
  <2> QED BY <2>5
<1> QED BY <1>1, <1>3, <1>4, <1>5, <1>6 DEF list

(* A list of numbers from the least to the greatest. *)
LEMMA AscendingIs ==
  ASSUME NEW S, S \subseteq Int, IsFiniteSet(S)
  PROVE  LET list == Ascending(S)
             n == Cardinality(S)
         IN /\ n \in Nat
            /\ list \in [1..n -> S]
            /\ \A x \in S : \E k \in 1..n : list[k] = x
            /\ \A i, j \in 1..n : list[i] < list[j] <=> i < j
<1> DEFINE R == {p \in S \X S : p[1] < p[2]}
<1>1. \A x, y \in S : <<x, y>> \in R <=> x < y
  OBVIOUS
<1>2. Ascending(S) = Listed(S, R)
  BY DEF Ascending
<1> HIDE DEF R
<1>3. OrderOf(R, S)
  BY <1>1 DEF OrderOf
<1>4. PICK list : list = Listed(S, R)
  OBVIOUS
<1>5. /\ Cardinality(S) \in Nat
      /\ list \in [1..Cardinality(S) -> S]
      /\ \A x \in S : \E k \in 1..Cardinality(S) : list[k] = x
      /\ \A i, j \in 1..Cardinality(S) : <<list[i], list[j]>> \in R <=> i < j
  <2>1. IsFiniteSet(S) /\ OrderOf(R, S)
    BY <1>3
  <2> QED BY <1>4, <2>1, ListedIs
<1>6. \A i, j \in 1..Cardinality(S) : list[i] < list[j] <=> i < j
  BY <1>1, <1>5
<1> QED BY <1>2, <1>4, <1>5, <1>6

(* Lists of numbers, and one behind another. *)
LEMMA ListOfSome ==
  ASSUME NEW n \in Nat, NEW S, S \subseteq Int, NEW list \in [1..n -> S]
  PROVE  list \in Seq(Int) /\ Len(list) = n
<1>1. list \in [1..n -> Int]
  OBVIOUS
<1> QED BY <1>1

LEMMA BehindIs ==
  ASSUME NEW V, NEW s \in Seq(V), NEW t \in Seq(V)
  PROVE  /\ DOMAIN (s \o t) = 1..(Len(s) + Len(t))
         /\ \A k \in 1..(Len(s) + Len(t)) :
               (s \o t)[k] = IF k <= Len(s) THEN s[k] ELSE t[k - Len(s)]
<1>1. PICK st : st = s \o t
  OBVIOUS
<1>2. Len(s) \in Nat /\ Len(t) \in Nat
  OBVIOUS
<1>3. st \in Seq(V) /\ Len(st) = Len(s) + Len(t)
  BY <1>1
<1>4. DOMAIN st = 1..(Len(s) + Len(t))
  BY <1>3
<1>5. ASSUME NEW k \in 1..(Len(s) + Len(t))
      PROVE  st[k] = IF k <= Len(s) THEN s[k] ELSE t[k - Len(s)]
  BY <1>1, <1>2, <1>5
<1> QED BY <1>1, <1>4, <1>5

(* The numbers up to n, those of D first, in both parts in their order. *)
DFirst(place, D, n) ==
  /\ place \in [1..n -> 1..n]
  /\ \A x \in 1..n : \E k \in 1..n : place[k] = x
  /\ \A i, j \in 1..n : i < j => \/ place[i] \in D /\ place[j] \notin D
                                 \/ place[i] < place[j] /\ (place[i] \in D <=> place[j] \in D)

LEMMA TwoParts ==
  ASSUME NEW n \in Nat, NEW D, D \subseteq 1..n
  PROVE  LET H == (1..n) \ D
         IN /\ DFirst(Ascending(D) \o Ascending(H), D, n)
            /\ Cardinality(D) \in Nat /\ Cardinality(H) \in Nat
            /\ Ascending(D) \in [1..Cardinality(D) -> D]
            /\ Ascending(H) \in [1..Cardinality(H) -> H]
            /\ Cardinality(D) + Cardinality(H) = n
<1> DEFINE H == (1..n) \ D
<1>1. IsFiniteSet(1..n) /\ Cardinality(1..n) = n
  BY FS_Interval
<1>2. IsFiniteSet(D) /\ IsFiniteSet(H)
  BY <1>1, FS_Subset
<1>3. PICK d, h : d = Cardinality(D) /\ h = Cardinality(H)
  OBVIOUS
<1>4. d \in Nat /\ h \in Nat /\ d + h = n
  <2>1. D \cup H = 1..n /\ D \cap H = {}
    OBVIOUS
  <2>2. Cardinality(D \cup H) = Cardinality(D) + Cardinality(H)
    <3>1. Cardinality(D \cup H) = Cardinality(D) + Cardinality(H) - Cardinality(D \cap H)
      BY <1>2, FS_Union
    <3>2. Cardinality(D \cap H) = 0
      BY <2>1, FS_EmptySet
    <3>3. Cardinality(D) \in Nat /\ Cardinality(H) \in Nat
      BY <1>2, FS_CardinalityType
    <3> QED BY <3>1, <3>2, <3>3
  <2> QED BY <1>1, <1>2, <1>3, <2>1, <2>2, FS_CardinalityType
<1>5. PICK f, g : f = Ascending(D) /\ g = Ascending(H)
  OBVIOUS
<1>6. D \subseteq Int /\ H \subseteq Int
  OBVIOUS
<1>7. /\ f \in [1..d -> D]
      /\ \A x \in D : \E k \in 1..d : f[k] = x
      /\ \A i, j \in 1..d : f[i] < f[j] <=> i < j
  BY <1>2, <1>3, <1>5, <1>6, AscendingIs
<1>8. /\ g \in [1..h -> H]
      /\ \A x \in H : \E k \in 1..h : g[k] = x
      /\ \A i, j \in 1..h : g[i] < g[j] <=> i < j
  BY <1>2, <1>3, <1>5, <1>6, AscendingIs
<1>9. f \in Seq(D) /\ g \in Seq(H) /\ Len(f) = d /\ Len(g) = h
  BY <1>4, <1>7, <1>8
<1>10. PICK place : place = f \o g
  OBVIOUS
<1>11. /\ DOMAIN place = 1..n
       /\ \A k \in 1..n : place[k] = IF k <= d THEN f[k] ELSE g[k - d]
  <2>1. f \in Seq(Int) /\ g \in Seq(Int)
    BY <1>4, <1>6, <1>7, <1>8, ListOfSome
  <2>2. /\ DOMAIN place = 1..(d + h)
        /\ \A k \in 1..(d + h) : place[k] = IF k <= d THEN f[k] ELSE g[k - d]
    BY <1>9, <1>10, <2>1, BehindIs
  <2> QED BY <1>4, <2>2
<1> HIDE DEF H
<1>12. \A k \in 1..n : IF k <= d THEN place[k] = f[k] /\ k \in 1..d
                       ELSE place[k] = g[k - d] /\ k - d \in 1..h
  BY <1>4, <1>11
<1>13. \A k \in 1..n : IF k <= d THEN place[k] \in D ELSE place[k] \in H
  BY <1>7, <1>8, <1>12
<1>14. place \in [1..n -> 1..n]
  <2>1. place \in Seq(D \cup H)
    BY <1>9, <1>10
  <2>2. D \cup H = 1..n
    BY DEF H
  <2>3. \A k \in 1..n : place[k] \in 1..n
    BY <1>13, <2>2
  <2>4. place = [k \in DOMAIN place |-> place[k]]
    BY <2>1
  <2> QED BY <1>11, <2>3, <2>4
<1>15. ASSUME NEW x \in 1..n PROVE \E k \in 1..n : place[k] = x
  <2>1. CASE x \in D
    <3>1. PICK k \in 1..d : f[k] = x
      BY <1>7, <2>1
    <3> QED BY <1>4, <1>11, <3>1
  <2>2. CASE x \in H
    <3>1. PICK k \in 1..h : g[k] = x
      BY <1>8, <2>2
    <3>2. k + d \in 1..n /\ ~(k + d <= d) /\ (k + d) - d = k
      BY <1>4, <3>1
    <3> QED BY <1>11, <3>1, <3>2
  <2> QED BY <2>1, <2>2 DEF H
<1>16. ASSUME NEW i \in 1..n, NEW j \in 1..n, i < j
       PROVE  \/ place[i] \in D /\ place[j] \notin D
              \/ place[i] < place[j] /\ (place[i] \in D <=> place[j] \in D)
  <2>1. CASE j <= d
    <3>1. i \in 1..d /\ j \in 1..d /\ i <= d
      BY <1>4, <1>16, <2>1
    <3>2. f[i] < f[j] /\ place[i] = f[i] /\ place[j] = f[j]
      BY <1>7, <1>12, <1>16, <2>1, <3>1
    <3>3. place[i] \in D /\ place[j] \in D
      BY <1>13, <2>1, <3>1
    <3> QED BY <3>2, <3>3
  <2>2. CASE i <= d /\ ~(j <= d)
    BY <1>13, <2>2 DEF H
  <2>3. CASE ~(i <= d)
    <3>1. ~(j <= d) /\ i - d < j - d
      BY <1>4, <1>16, <2>3
    <3>2. place[i] < place[j]
      BY <1>8, <1>12, <2>3, <3>1
    <3>3. place[i] \notin D /\ place[j] \notin D
      BY <1>13, <2>3, <3>1 DEF H
    <3> QED BY <3>2, <3>3
  <2> QED BY <2>1, <2>2, <2>3, <1>4
<1>17. DFirst(place, D, n)
  BY <1>14, <1>15, <1>16 DEF DFirst
<1> QED BY <1>3, <1>4, <1>5, <1>7, <1>8, <1>10, <1>17 DEF H

(* The values of a function on a set: as many as it has elements, or fewer.  *)
ImageOf(f, S) == {f[x] : x \in S}

LEMMA ImageIsNoLarger ==
  ASSUME NEW S, IsFiniteSet(S), NEW f
  PROVE  IsFiniteSet(ImageOf(f, S)) /\ Cardinality(ImageOf(f, S)) <= Cardinality(S)
<1> DEFINE g == [x \in S |-> f[x]]
<1>1. g \in Surjection(S, ImageOf(f, S))
  BY DEF Surjection, ImageOf
<1> QED BY <1>1, FS_Surjection

LEMMA ImageIsAsLarge ==
  ASSUME NEW S, IsFiniteSet(S), NEW f, \A x, y \in S : f[x] = f[y] => x = y
  PROVE  IsFiniteSet(ImageOf(f, S)) /\ Cardinality(ImageOf(f, S)) = Cardinality(S)
<1> DEFINE g == [x \in S |-> f[x]]
<1>1. g \in Surjection(S, ImageOf(f, S))
  BY DEF Surjection, ImageOf
<1>2. g \in Injection(S, ImageOf(f, S))
  BY DEF Injection, IsInjective, ImageOf
<1> QED BY <1>1, <1>2, FS_Surjection

(* What is defined step by step, from a first value, exists,                 *)
Follows(f, start, G, n) == f[0] = start /\ \A k \in 1..n : f[k] = G[<<k, f[k - 1]>>]

LEMMA Recursion ==
  ASSUME NEW n \in Nat, NEW V, NEW start \in V, NEW G \in [(1..n) \X V -> V]
  PROVE  \E f \in [0..n -> V] : Follows(f, start, G, n)
<1> DEFINE Steps(f, m) == Follows(f, start, G, m)
           Missing == {m \in 0..n : ~ \E f \in [0..m -> V] : Steps(f, m)}
<1>1. SUFFICES ASSUME Missing # {} PROVE FALSE
  <2>1. n \in 0..n
    OBVIOUS
  <2> HIDE DEF Steps
  <2>2. Missing = {} => \E f \in [0..n -> V] : Steps(f, n)
    BY <2>1
  <2> QED BY <2>2 DEF Steps
<1>2. PICK m \in Missing : \A k \in Missing : m <= k
  <2>1. Missing \subseteq Nat
    OBVIOUS
  <2> HIDE DEF Missing
  <2> QED BY <1>1, <2>1, Least
<1>3. m \in 0..n /\ m \in Nat /\ ~ \E f \in [0..m -> V] : Steps(f, m)
  OBVIOUS
<1>4. m # 0
  <2> DEFINE f == [k \in 0..0 |-> start]
  <2>1. f \in [0..0 -> V] /\ Steps(f, 0)
    BY DEF Follows
  <2> HIDE DEF f, Steps
  <2> QED BY <1>3, <2>1
<1>5. m - 1 \in 0..n /\ m - 1 \in Nat /\ m - 1 \notin Missing
  <2>1. m - 1 \in 0..n /\ m - 1 \in Nat /\ ~(m <= m - 1)
    BY <1>3, <1>4
  <2> HIDE DEF Missing
  <2> QED BY <1>2, <2>1
<1>6. PICK f \in [0..(m - 1) -> V] : Steps(f, m - 1)
  BY <1>5
<1>7. f[0] = start /\ \A k \in 1..(m - 1) : f[k] = G[<<k, f[k - 1]>>]
  BY <1>6 DEF Follows
<1> DEFINE last == G[<<m, f[m - 1]>>]
           g == [k \in 0..m |-> IF k = m THEN last ELSE f[k]]
<1>8. last \in V
  <2>1. f[m - 1] \in V /\ m \in 1..n
    BY <1>3, <1>4, <1>5
  <2> QED BY <2>1
<1> HIDE DEF last
<1>9. g \in [0..m -> V]
  <2>1. \A k \in 0..m : k = m \/ k \in 0..(m - 1)
    BY <1>3
  <2> QED BY <1>8, <2>1
<1>10. Steps(g, m)
  <2>1. g[0] = start
    BY <1>3, <1>4, <1>7
  <2>2. ASSUME NEW k \in 1..m PROVE g[k] = G[<<k, g[k - 1]>>]
    <3>1. CASE k = m
      <4>1. k - 1 \in 0..m /\ k - 1 # m /\ g[k - 1] = f[k - 1]
        BY <1>3, <3>1
      <4> QED BY <3>1, <4>1 DEF last
    <3>2. CASE k # m
      <4>1. k \in 1..(m - 1) /\ k \in 0..m /\ k - 1 \in 0..m /\ k - 1 # m
        BY <1>3, <3>2
      <4>2. g[k] = f[k] /\ g[k - 1] = f[k - 1]
        BY <3>2, <4>1
      <4> QED BY <1>7, <4>1, <4>2
    <3> QED BY <3>1, <3>2
  <2> QED BY <2>1, <2>2 DEF Follows
<1> HIDE DEF g, Steps, Missing
<1> QED BY <1>3, <1>9, <1>10

(* and is of its type if the steps are.                                      *)
LEMMA RecursionIs ==
  ASSUME NEW n \in Nat, NEW V, NEW h, NEW start \in V, DOMAIN h = 0..n, h[0] = start,
         \A k \in 1..n : h[k - 1] \in V => h[k] \in V
  PROVE  \A k \in 0..n : h[k] \in V
<1> DEFINE Missing == {m \in 0..n : h[m] \notin V}
<1>1. SUFFICES ASSUME Missing # {} PROVE FALSE
  OBVIOUS
<1>2. PICK m \in Missing : \A k \in Missing : m <= k
  <2>1. Missing \subseteq Nat
    OBVIOUS
  <2> HIDE DEF Missing
  <2> QED BY <1>1, <2>1, Least
<1>3. m \in 0..n /\ h[m] \notin V /\ m # 0
  OBVIOUS
<1>4. m \in 1..n /\ m - 1 \in 0..n /\ ~(m <= m - 1)
  BY <1>3
<1>5. h[m - 1] \in V
  BY <1>2, <1>4
<1> QED BY <1>3, <1>4, <1>5

LEMMA SumsAre ==
  ASSUME NEW list \in Seq(Int)
  PROVE  /\ Sums(list) \in [0..Len(list) -> Int]
         /\ Sums(list)[0] = 0
         /\ \A k \in 1..Len(list) : Sums(list)[k] = Sums(list)[k - 1] + list[k]
<1> DEFINE n == Len(list)
           G == [p \in (1..n) \X Int |-> p[2] + list[p[1]]]
           body(f) == [k \in 0..n |-> IF k = 0 THEN 0 ELSE f[k - 1] + list[k]]
<1>1. n \in Nat /\ \A k \in 1..n : list[k] \in Int
  OBVIOUS
<1> HIDE DEF n
<1>2. G \in [(1..n) \X Int -> Int] /\ \A k \in 1..n, v \in Int : G[<<k, v>>] = v + list[k]
  BY <1>1
<1> HIDE DEF G
<1>3. PICK f \in [0..n -> Int] : Follows(f, 0, G, n)
  <2>1. 0 \in Int /\ n \in Nat /\ G \in [(1..n) \X Int -> Int]
    BY <1>1, <1>2
  <2> QED BY <2>1, Recursion, Zenon
<1>4. ASSUME NEW k \in 1..n PROVE k - 1 \in 0..n /\ k \in 0..n /\ k # 0
  BY <1>1
<1>5. f = body(f)
  <2>1. ASSUME NEW k \in 0..n PROVE f[k] = IF k = 0 THEN 0 ELSE f[k - 1] + list[k]
    <3>1. CASE k = 0
      BY <1>3, <3>1 DEF Follows
    <3>2. CASE k # 0
      <4>1. k \in 1..n /\ f[k - 1] \in Int
        BY <1>1, <1>4, <3>2
      <4> QED BY <1>2, <1>3, <3>2, <4>1 DEF Follows
    <3> QED BY <3>1, <3>2
  <2> QED BY <2>1
<1>6. Sums(list) = CHOOSE h : h = body(h)
  BY DEF Sums, n
<1>7. Sums(list) = body(Sums(list))
  <2> HIDE DEF body
  <2> QED BY <1>5, <1>6
<1> HIDE DEF body
<1>8. DOMAIN Sums(list) = 0..n /\ \A k \in 0..n : Sums(list)[k] = IF k = 0 THEN 0 ELSE Sums(list)[k - 1] + list[k]
  BY <1>7 DEF body
<1>9. Sums(list)[0] = 0 /\ \A k \in 1..n : Sums(list)[k] = Sums(list)[k - 1] + list[k]
  BY <1>1, <1>4, <1>8
<1>10. ASSUME NEW k \in 1..n, Sums(list)[k - 1] \in Int PROVE Sums(list)[k] \in Int
  <2>1. Sums(list)[k] = Sums(list)[k - 1] + list[k] /\ list[k] \in Int
    BY <1>1, <1>9
  <2> QED BY <1>10, <2>1
<1>11. \A k \in 0..n : Sums(list)[k] \in Int
  <2>1. PICK s : s = Sums(list)
    OBVIOUS
  <2>2. n \in Nat /\ 0 \in Int /\ DOMAIN s = 0..n /\ s[0] = 0 /\ \A k \in 1..n : s[k - 1] \in Int => s[k] \in Int
    BY <1>1, <1>8, <1>9, <1>10, <2>1
  <2>3. \A k \in 0..n : s[k] \in Int
    BY <2>2, RecursionIs, Zenon
  <2> QED BY <2>1, <2>3
<1>12. Sums(list) = [k \in 0..n |-> Sums(list)[k]]
  BY <1>7 DEF body
<1> QED BY <1>9, <1>11, <1>12 DEF n

LEMMA TotalOfNaturals ==
  ASSUME NEW list \in Seq(Nat)
  PROVE  Total(list) \in Nat
<1>1. PICK s, n : s = Sums(list) /\ n = Len(list)
  OBVIOUS
<1>2. n \in Nat /\ list \in Seq(Int) /\ \A k \in 1..n : list[k] \in Nat
  BY <1>1
<1>3. s \in [0..n -> Int] /\ s[0] = 0 /\ \A k \in 1..n : s[k] = s[k - 1] + list[k]
  BY <1>1, <1>2, SumsAre
<1>4. ASSUME NEW k \in 1..n, s[k - 1] \in Nat PROVE s[k] \in Nat
  <2>1. s[k] = s[k - 1] + list[k] /\ list[k] \in Nat
    BY <1>2, <1>3
  <2> QED BY <1>4, <2>1
<1>5. \A k \in 0..n : s[k] \in Nat
  BY <1>2, <1>3, <1>4, RecursionIs
<1> QED BY <1>1, <1>2, <1>5 DEF Total


LEMMA TotalOfNothing ==
  ASSUME NEW list \in Seq({0})
  PROVE  Total(list) = 0
<1>1. PICK s, n : s = Sums(list) /\ n = Len(list)
  OBVIOUS
<1>2. n \in Nat /\ list \in Seq(Int) /\ \A k \in 1..n : list[k] = 0
  BY <1>1
<1>3. s \in [0..n -> Int] /\ s[0] = 0 /\ \A k \in 1..n : s[k] = s[k - 1] + list[k]
  BY <1>1, <1>2, SumsAre
<1>4. ASSUME NEW k \in 1..n, s[k - 1] \in {0} PROVE s[k] \in {0}
  <2>1. s[k] = s[k - 1] + list[k] /\ list[k] = 0
    BY <1>2, <1>3
  <2> QED BY <1>4, <2>1
<1>5. DOMAIN s = 0..n /\ 0 \in {0}
  BY <1>3
<1>6. \A k \in 0..n : s[k] \in {0}
  BY <1>2, <1>3, <1>4, <1>5, RecursionIs
<1> QED BY <1>1, <1>2, <1>6 DEF Total

(* A list has of another what is at some places, *)
LaidOut(page, rows, place, m) ==
  /\ DOMAIN page = 1..m
  /\ Len(page) = m
  /\ \A k \in 1..m : page[k] = rows[place[k]]

(* and Only those that are kept, in their order.                            *)
Kept(list, S, at, c) ==
  /\ at \in [1..c -> S]
  /\ \A x \in S : \E k \in 1..c : at[k] = x
  /\ \A i, j \in 1..c : at[i] < at[j] <=> i < j
  /\ LaidOut(Only(list, S), list, at, c)

LEMMA OnlyIs ==
  ASSUME NEW V, NEW list \in Seq(V), NEW S \in SUBSET DOMAIN list
  PROVE  /\ Only(list, S) \in Seq(V)
         /\ Cardinality(S) \in Nat
         /\ \E at : Kept(list, S, at, Cardinality(S))
<1> DEFINE at == Ascending(S)
           c == Cardinality(S)
<1>1. PICK n \in Nat : n = Len(list) /\ DOMAIN list = 1..n /\ \A k \in 1..n : list[k] \in V
  OBVIOUS
<1>2. IsFiniteSet(S) /\ S \subseteq Int
  <2>1. IsFiniteSet(1..n)
    BY <1>1, FS_Interval
  <2> QED BY <1>1, <2>1, FS_Subset
<1>3. /\ c \in Nat
      /\ at \in [1..c -> S]
      /\ \A x \in S : \E k \in 1..c : at[k] = x
      /\ \A i, j \in 1..c : at[i] < at[j] <=> i < j
  BY <1>2, AscendingIs
<1> HIDE DEF c
<1>4. Only(list, S) = [k \in 1..c |-> list[at[k]]]
  BY <1>3 DEF Only
<1> HIDE DEF at
<1>5. \A k \in 1..c : list[at[k]] \in V
  BY <1>1, <1>3
<1>6. Only(list, S) \in Seq(V) /\ Len(Only(list, S)) = c
  <2>1. [k \in 1..c |-> list[at[k]]] \in [1..c -> V]
    BY <1>5
  <2>2. PICK only : only = [k \in 1..c |-> list[at[k]]]
    OBVIOUS
  <2>3. only \in Seq(V) /\ Len(only) = c
    BY <1>3, <2>1, <2>2
  <2> QED BY <1>4, <2>2, <2>3
<1>7. LaidOut(Only(list, S), list, at, c)
  BY <1>4, <1>6 DEF LaidOut
<1>8. Kept(list, S, at, c)
  BY <1>3, <1>7 DEF Kept
<1> QED BY <1>3, <1>6, <1>8 DEF c

LEMMA PickedIs ==
  ASSUME NEW V, NEW list \in Seq(V), NEW S
  PROVE  /\ Picked(list, S) \in Seq(V)
         /\ ToSet(Picked(list, S)) = ToSet(list) \cap S
         /\ IsInjective(list) => IsInjective(Picked(list, S))
<1> DEFINE P == {n \in DOMAIN list : list[n] \in S}
<1>1. Picked(list, S) = Only(list, P) /\ P \in SUBSET DOMAIN list
  BY DEF Picked
<1>2. \A n \in DOMAIN list : n \in P <=> list[n] \in S
  OBVIOUS
<1> HIDE DEF P
<1>3. PICK picked, c : picked = Only(list, P) /\ c = Cardinality(P)
  OBVIOUS
<1>4. picked \in Seq(V) /\ c \in Nat
  BY <1>1, <1>3, OnlyIs
<1>5. PICK at : Kept(list, P, at, c)
  BY <1>1, <1>3, OnlyIs
<1>6. /\ at \in [1..c -> P]
      /\ \A x \in P : \E k \in 1..c : at[k] = x
      /\ \A i, j \in 1..c : at[i] < at[j] <=> i < j
      /\ DOMAIN picked = 1..c
      /\ \A k \in 1..c : picked[k] = list[at[k]]
  BY <1>3, <1>5 DEF Kept, LaidOut
<1>7. \A k \in 1..c : at[k] \in DOMAIN list /\ at[k] \in P
  BY <1>1, <1>6
<1>8. ToSet(picked) = ToSet(list) \cap S
  <2>1. ASSUME NEW k \in 1..c PROVE picked[k] \in ToSet(list) \cap S
    BY <1>2, <1>6, <1>7 DEF ToSet
  <2>2. ASSUME NEW n \in DOMAIN list, list[n] \in S PROVE \E k \in 1..c : picked[k] = list[n]
    <3>1. PICK k \in 1..c : at[k] = n
      BY <1>2, <1>6, <2>2
    <3> QED BY <1>6, <3>1
  <2>3. ASSUME NEW x \in ToSet(picked) PROVE x \in ToSet(list) \cap S
    <3>1. PICK k \in 1..c : x = picked[k]
      BY <1>6 DEF ToSet
    <3> QED BY <2>1, <3>1
  <2>4. ASSUME NEW x \in ToSet(list) \cap S PROVE x \in ToSet(picked)
    <3>1. PICK n \in DOMAIN list : x = list[n]
      BY DEF ToSet
    <3>2. PICK k \in 1..c : picked[k] = x
      BY <2>2, <3>1
    <3> QED BY <1>6, <3>2 DEF ToSet
  <2> QED BY <2>3, <2>4
<1>9. ASSUME IsInjective(list), NEW i \in 1..c, NEW j \in 1..c, picked[i] = picked[j] PROVE i = j
  <2>1. list[at[i]] = list[at[j]]
    BY <1>6, <1>9
  <2>2. at[i] = at[j]
    BY <1>7, <1>9, <2>1 DEF IsInjective
  <2>3. at[i] \in Int
    BY <1>7
  <2>4. ~(i < j) /\ ~(j < i)
    BY <1>6, <2>2, <2>3
  <2> QED BY <1>4, <2>4
<1>10. IsInjective(list) => IsInjective(picked)
  BY <1>6, <1>9 DEF IsInjective
<1> QED BY <1>1, <1>3, <1>4, <1>8, <1>10

LEMMA BothAreIn ==
  ASSUME NEW V, NEW s \in Seq(V), NEW t \in Seq(V)
  PROVE  /\ s \o t \in Seq(V)
         /\ ToSet(s \o t) = ToSet(s) \cup ToSet(t)
         /\ IsInjective(s) /\ IsInjective(t) /\ ToSet(s) \cap ToSet(t) = {} => IsInjective(s \o t)
<1> DEFINE m == Len(s)
           n == Len(t)
           st == s \o t
<1>1. /\ m \in Nat /\ n \in Nat
      /\ DOMAIN s = 1..m /\ DOMAIN t = 1..n /\ DOMAIN st = 1..(m + n)
      /\ st \in Seq(V)
  OBVIOUS
<1>2. \A k \in 1..(m + n) : IF k <= m THEN k \in 1..m /\ st[k] = s[k] ELSE k - m \in 1..n /\ st[k] = t[k - m]
  OBVIOUS
<1> HIDE DEF m, n, st
<1>3. \A k \in 1..n : k + m \in 1..(m + n) /\ ~(k + m <= m) /\ (k + m) - m = k
  BY <1>1
<1>4. \A k \in 1..m : k \in 1..(m + n) /\ k <= m
  BY <1>1
<1>5. ToSet(st) = ToSet(s) \cup ToSet(t)
  <2>1. ASSUME NEW k \in 1..(m + n) PROVE st[k] \in ToSet(s) \cup ToSet(t)
    BY <1>1, <1>2 DEF ToSet
  <2>2. ASSUME NEW k \in 1..m PROVE \E l \in 1..(m + n) : st[l] = s[k]
    BY <1>2, <1>4
  <2>3. ASSUME NEW k \in 1..n PROVE \E l \in 1..(m + n) : st[l] = t[k]
    BY <1>2, <1>3
  <2>4. ToSet(st) \subseteq ToSet(s) \cup ToSet(t)
    BY <1>1, <2>1 DEF ToSet
  <2>5. ToSet(s) \subseteq ToSet(st)
    BY <1>1, <2>2 DEF ToSet
  <2>6. ToSet(t) \subseteq ToSet(st)
    BY <1>1, <2>3 DEF ToSet
  <2> QED BY <2>4, <2>5, <2>6
<1>6. ASSUME IsInjective(s), IsInjective(t), ToSet(s) \cap ToSet(t) = {},
             NEW i \in 1..(m + n), NEW j \in 1..(m + n), st[i] = st[j]
      PROVE  i = j
  <2>1. CASE i <= m /\ j <= m
    BY <1>1, <1>2, <1>6, <2>1 DEF IsInjective
  <2>2. CASE ~(i <= m) /\ ~(j <= m)
    <3>1. i - m = j - m
      BY <1>1, <1>2, <1>6, <2>2 DEF IsInjective
    <3> QED BY <1>1, <3>1
  <2>3. CASE i <= m /\ ~(j <= m)
    <3>1. st[i] \in ToSet(s) /\ st[j] \in ToSet(t)
      BY <1>1, <1>2, <2>3 DEF ToSet
    <3> QED BY <1>6, <3>1
  <2>4. CASE ~(i <= m) /\ j <= m
    <3>1. st[j] \in ToSet(s) /\ st[i] \in ToSet(t)
      BY <1>1, <1>2, <2>4 DEF ToSet
    <3> QED BY <1>6, <3>1
  <2> QED BY <2>1, <2>2, <2>3, <2>4
<1>7. IsInjective(s) /\ IsInjective(t) /\ ToSet(s) \cap ToSet(t) = {} => IsInjective(st)
  BY <1>1, <1>6 DEF IsInjective
<1> QED BY <1>1, <1>5, <1>7 DEF st

(* Sums of lengths grow. *)
LEMMA SumsGrow ==
  ASSUME NEW list \in Seq(Nat)
  PROVE  /\ Sums(list) \in [0..Len(list) -> Nat]
         /\ \A i, j \in 0..Len(list) : i <= j => Sums(list)[i] <= Sums(list)[j]
<1>1. PICK s, n : s = Sums(list) /\ n = Len(list)
  OBVIOUS
<1>2. n \in Nat /\ list \in Seq(Int) /\ \A k \in 1..n : list[k] \in Nat
  BY <1>1
<1>3. s \in [0..n -> Int] /\ s[0] = 0 /\ \A k \in 1..n : s[k] = s[k - 1] + list[k]
  BY <1>1, <1>2, SumsAre
<1>4. ASSUME NEW k \in 1..n, s[k - 1] \in Nat PROVE s[k] \in Nat
  <2>1. s[k] = s[k - 1] + list[k] /\ list[k] \in Nat
    BY <1>2, <1>3
  <2> QED BY <1>4, <2>1
<1>5. \A k \in 0..n : s[k] \in Nat
  BY <1>2, <1>3, <1>4, RecursionIs
<1>6. ASSUME NEW i \in 0..n PROVE \A j \in 0..n : i <= j => s[i] <= s[j]
  <2> DEFINE Missing == {j \in 0..n : i <= j /\ ~(s[i] <= s[j])}
  <2>1. SUFFICES ASSUME Missing # {} PROVE FALSE
    OBVIOUS
  <2>2. Missing \subseteq Nat
    OBVIOUS
  <2>3. \A j \in 0..n : j \in Missing <=> i <= j /\ ~(s[i] <= s[j])
    OBVIOUS
  <2>4. Missing \subseteq 0..n
    OBVIOUS
  <2> HIDE DEF Missing
  <2>5. PICK j \in Missing : \A k \in Missing : j <= k
    BY <2>1, <2>2, Least
  <2>6. j \in 0..n /\ i <= j /\ ~(s[i] <= s[j]) /\ j # i
    BY <1>5, <2>3, <2>4
  <2>7. j \in 1..n /\ j - 1 \in 0..n /\ i <= j - 1 /\ ~(j <= j - 1)
    BY <1>2, <2>6
  <2>8. s[i] <= s[j - 1]
    BY <2>3, <2>5, <2>7
  <2>9. s[j] = s[j - 1] + list[j] /\ list[j] \in Nat
    BY <1>2, <1>3, <2>7
  <2> QED BY <1>5, <2>6, <2>7, <2>8, <2>9
<1>7. s = [k \in 0..n |-> s[k]]
  BY <1>3
<1> QED BY <1>1, <1>5, <1>6, <1>7

(* What lists have that are Joined: all of the first, then all of the next.  *)
EndsOf(lists) == Sums([n \in DOMAIN lists |-> Len(lists[n])])
Behind(joined, lists, at, of) ==
  /\ \A k \in DOMAIN joined : /\ at[k] \in DOMAIN lists /\ of[k] \in DOMAIN lists[at[k]]
                              /\ joined[k] = lists[at[k]][of[k]]
                              /\ of[k] = k - EndsOf(lists)[at[k] - 1]
  /\ \A i, j \in DOMAIN joined : i < j => at[i] <= at[j]
  /\ \A n \in DOMAIN lists : \A m \in DOMAIN lists[n] : \E k \in DOMAIN joined : at[k] = n /\ of[k] = m

LEMMA JoinedIs ==
  ASSUME NEW V, NEW lists \in Seq(Seq(V))
  PROVE  /\ Joined(lists) \in Seq(V)
         /\ Len(Joined(lists)) = Total([n \in DOMAIN lists |-> Len(lists[n])])
         /\ \E at, of : Behind(Joined(lists), lists, at, of)
<1> DEFINE lens == [n \in DOMAIN lists |-> Len(lists[n])]
           ends == Sums(lens)
           l == Len(lists)
           total == ends[l]
           pick(k) == CHOOSE n \in DOMAIN lists : ends[n - 1] < k /\ k <= ends[n]
           at == [k \in 1..total |-> pick(k)]
           of == [k \in 1..total |-> k - ends[at[k] - 1]]
<1>1. l \in Nat /\ DOMAIN lists = 1..l /\ \A n \in 1..l : lists[n] \in Seq(V)
  OBVIOUS
<1>2. lens \in Seq(Nat) /\ Len(lens) = l /\ \A n \in 1..l : lens[n] = Len(lists[n])
  <2>1. lens = [n \in 1..l |-> Len(lists[n])]
    BY <1>1
  <2>2. \A n \in 1..l : Len(lists[n]) \in Nat
    BY <1>1
  <2>3. lens \in [1..l -> Nat]
    BY <2>1, <2>2
  <2> HIDE DEF lens
  <2> QED BY <1>1, <2>1, <2>3
<1>3. Joined(lists) = [k \in 1..total |-> lists[pick(k)][k - ends[pick(k) - 1]]]
  BY DEF Joined
<1> HIDE DEF lens, l
<1>4. lens \in Seq(Int)
  BY <1>2
<1>5. /\ ends \in [0..l -> Nat]
      /\ \A i, j \in 0..l : i <= j => ends[i] <= ends[j]
      /\ ends[0] = 0
      /\ \A n \in 1..l : ends[n] = ends[n - 1] + lens[n]
  BY <1>2, <1>4, SumsGrow, SumsAre
<1> HIDE DEF ends
<1>6. total \in Nat
  BY <1>1, <1>5
<1> HIDE DEF total
<1>7. ASSUME NEW k \in 1..total PROVE \E n \in 1..l : ends[n - 1] < k /\ k <= ends[n]
  <2> DEFINE S == {n \in 0..l : k <= ends[n]}
  <2>1. l \in S /\ S \subseteq Nat /\ S \subseteq 0..l
    BY <1>1, <1>5, <1>6 DEF total
  <2>2. \A n \in 0..l : n \in S <=> k <= ends[n]
    OBVIOUS
  <2> HIDE DEF S
  <2>3. PICK n \in S : \A m \in S : n <= m
    BY <2>1, Least
  <2>4. n \in 0..l /\ k <= ends[n] /\ n # 0
    BY <1>5, <1>6, <2>1, <2>2
  <2>5. n \in 1..l /\ n - 1 \in 0..l /\ ~(n <= n - 1)
    BY <1>1, <2>4
  <2>6. ~(k <= ends[n - 1])
    BY <2>2, <2>3, <2>5
  <2>7. ends[n - 1] \in Nat
    BY <1>5, <2>5
  <2> QED BY <1>6, <2>4, <2>5, <2>6, <2>7
<1>8. ASSUME NEW k \in 1..total PROVE at[k] \in 1..l /\ ends[at[k] - 1] < k /\ k <= ends[at[k]]
  BY <1>1, <1>7
<1>9. \A k \in 1..total : of[k] = k - ends[at[k] - 1]
  OBVIOUS
<1>10. Joined(lists) = [k \in 1..total |-> lists[at[k]][of[k]]]
  BY <1>3
<1> HIDE DEF at, of
<1>11. ASSUME NEW n \in 1..l PROVE n - 1 \in 0..l /\ n \in 0..l /\ ends[n - 1] \in Nat /\ ends[n] \in Nat
  BY <1>1, <1>5
<1>12. ASSUME NEW k \in 1..total PROVE of[k] \in 1..lens[at[k]] /\ of[k] \in DOMAIN lists[at[k]]
  <2>1. PICK n \in 1..l : n = at[k]
    BY <1>8
  <2>2. of[k] = k - ends[n - 1] /\ ends[n - 1] < k /\ k <= ends[n] /\ ends[n] = ends[n - 1] + lens[n]
    BY <1>5, <1>8, <1>9, <2>1
  <2>3. lens[n] = Len(lists[n]) /\ DOMAIN lists[n] = 1..Len(lists[n]) /\ Len(lists[n]) \in Nat
    BY <1>1, <1>2
  <2>4. of[k] \in 1..lens[n]
    BY <1>6, <1>11, <2>2, <2>3
  <2> QED BY <2>1, <2>3, <2>4
<1>13. PICK joined : joined = [k \in 1..total |-> lists[at[k]][of[k]]]
  OBVIOUS
<1>14. \A k \in 1..total : joined[k] = lists[at[k]][of[k]] /\ joined[k] \in V
  BY <1>1, <1>8, <1>12, <1>13
<1>15. joined \in Seq(V) /\ Len(joined) = total /\ DOMAIN joined = 1..total
  <2>1. joined \in [1..total -> V]
    BY <1>13, <1>14
  <2> QED BY <1>6, <2>1
<1>16. ASSUME NEW i \in 1..total, NEW j \in 1..total, i < j PROVE at[i] <= at[j]
  <2>1. SUFFICES ASSUME at[j] < at[i] PROVE FALSE
    BY <1>1, <1>8
  <2>2. PICK m \in 1..l, n \in 1..l : m = at[j] /\ n = at[i]
    BY <1>8
  <2>3. m <= n - 1
    BY <2>1, <2>2
  <2>4. ends[m] <= ends[n - 1]
    BY <1>5, <1>11, <2>3
  <2>5. ends[n - 1] < i /\ j <= ends[m]
    BY <1>8, <2>2
  <2> QED BY <1>11, <1>16, <2>4, <2>5
<1>17. ASSUME NEW n \in 1..l, NEW m \in DOMAIN lists[n] PROVE \E k \in 1..total : at[k] = n /\ of[k] = m
  <2>1. m \in 1..lens[n] /\ lens[n] \in Nat
    BY <1>1, <1>2
  <2>2. PICK k : k = ends[n - 1] + m
    OBVIOUS
  <2>3. ends[n] = ends[n - 1] + lens[n] /\ ends[n] <= ends[l] /\ ends[l] = total
    BY <1>1, <1>5, <1>11 DEF total
  <2>4. k \in 1..total /\ ends[n - 1] < k /\ k <= ends[n]
    <3>1. PICK x, y, z : x = ends[n - 1] /\ y = ends[n] /\ z = lens[n]
      OBVIOUS
    <3>2. x \in Nat /\ y \in Nat /\ z \in Nat /\ total \in Nat
      BY <1>6, <1>11, <2>1, <3>1
    <3>3. k = x + m /\ m \in 1..z /\ y = x + z /\ y <= total
      BY <2>1, <2>2, <2>3, <3>1
    <3>4. k \in 1..total /\ x < k /\ k <= y
      BY <3>2, <3>3
    <3> QED BY <3>1, <3>4
  <2>5. at[k] = n
    <3>1. PICK p \in 1..l : p = at[k]
      BY <1>8, <2>4
    <3>2. ends[p - 1] < k /\ k <= ends[p]
      BY <1>8, <2>4, <3>1
    <3>3. ~(p < n)
      <4>1. SUFFICES ASSUME p < n PROVE FALSE
        OBVIOUS
      <4>2. p <= n - 1
        BY <4>1
      <4>3. ends[p] <= ends[n - 1]
        BY <1>5, <1>11, <4>2
      <4> QED BY <1>11, <2>4, <3>2, <4>3
    <3>4. ~(n < p)
      <4>1. SUFFICES ASSUME n < p PROVE FALSE
        OBVIOUS
      <4>2. n <= p - 1
        BY <4>1
      <4>3. ends[n] <= ends[p - 1]
        BY <1>5, <1>11, <4>2
      <4> QED BY <1>11, <2>4, <3>2, <4>3
    <3> QED BY <3>1, <3>3, <3>4
  <2>6. of[k] = m
    BY <1>9, <1>11, <2>1, <2>2, <2>4, <2>5
  <2> QED BY <2>4, <2>5, <2>6
<1>18. Behind(joined, lists, at, of)
  <2>1. \A k \in DOMAIN joined : /\ at[k] \in DOMAIN lists /\ of[k] \in DOMAIN lists[at[k]]
                                /\ joined[k] = lists[at[k]][of[k]]
    BY <1>1, <1>8, <1>12, <1>14, <1>15
  <2>4. EndsOf(lists) = ends
    BY DEF EndsOf, ends, lens
  <2>5. \A k \in DOMAIN joined : of[k] = k - EndsOf(lists)[at[k] - 1]
    BY <1>9, <1>15, <2>4
  <2>2. \A i, j \in DOMAIN joined : i < j => at[i] <= at[j]
    BY <1>15, <1>16
  <2>3. ASSUME NEW n \in DOMAIN lists, NEW m \in DOMAIN lists[n]
        PROVE  \E k \in DOMAIN joined : at[k] = n /\ of[k] = m
    <3>1. n \in 1..l
      BY <1>1
    <3>2. PICK k \in 1..total : at[k] = n /\ of[k] = m
      BY <1>17, <3>1
    <3>3. k \in DOMAIN joined
      BY <1>15
    <3> QED BY <3>2, <3>3
  <2> QED BY <2>1, <2>2, <2>3, <2>5 DEF Behind
<1>19. total = Total(lens)
  BY <1>2 DEF total, ends, Total
<1> QED BY <1>10, <1>13, <1>15, <1>18, <1>19 DEF lens

LEMMA IsAList ==
  ASSUME NEW V, NEW n \in Nat, NEW list \in [1..n -> V]
  PROVE  list \in Seq(V) /\ Len(list) = n /\ DOMAIN list = 1..n
OBVIOUS

LEMMA EndsAre ==
  ASSUME NEW V, NEW lists \in Seq(Seq(V))
  PROVE  /\ EndsOf(lists) \in [0..Len(lists) -> Nat]
         /\ EndsOf(lists)[0] = 0
         /\ \A n \in 1..Len(lists) : EndsOf(lists)[n] = EndsOf(lists)[n - 1] + Len(lists[n])
         /\ Total([n \in DOMAIN lists |-> Len(lists[n])]) = EndsOf(lists)[Len(lists)]
<1>1. PICK l \in Nat : l = Len(lists) /\ DOMAIN lists = 1..l
  OBVIOUS
<1>2. \A n \in 1..l : Len(lists[n]) \in Nat
  BY <1>1
<1>3. PICK lens : lens = [n \in 1..l |-> Len(lists[n])]
  OBVIOUS
<1>4. lens \in [1..l -> Nat]
  BY <1>2, <1>3
<1>5. lens \in Seq(Nat) /\ lens \in Seq(Int) /\ Len(lens) = l
  <2>1. lens \in Seq(Nat) /\ Len(lens) = l
    BY <1>4, IsAList
  <2>2. lens \in [1..l -> Int]
    BY <1>4
  <2> QED BY <2>1, <2>2, IsAList
<1>6. /\ Sums(lens) \in [0..l -> Nat]
      /\ Sums(lens)[0] = 0
      /\ \A n \in 1..l : Sums(lens)[n] = Sums(lens)[n - 1] + lens[n]
  BY <1>5, SumsAre, SumsGrow
<1>7. EndsOf(lists) = Sums(lens) /\ Total([n \in DOMAIN lists |-> Len(lists[n])]) = Sums(lens)[l]
  BY <1>1, <1>3, <1>5 DEF EndsOf, Total
<1>8. \A n \in 1..l : lens[n] = Len(lists[n])
  BY <1>3
<1> QED BY <1>1, <1>6, <1>7, <1>8

(* Pieces of a list that follow each other are the list. *)
LEMMA JoinedPieces ==
  ASSUME NEW V, NEW list \in Seq(V), NEW lists \in Seq(Seq(V)),
         EndsOf(lists)[Len(lists)] = Len(list),
         \A p \in DOMAIN lists : \A m \in DOMAIN lists[p] : lists[p][m] = list[EndsOf(lists)[p - 1] + m]
  PROVE  Joined(lists) = list
<1>1. PICK joined : joined = Joined(lists)
  OBVIOUS
<1>2. joined \in Seq(V) /\ Len(joined) = Len(list)
  BY <1>1, JoinedIs, EndsAre
<1>3. PICK at, of : Behind(joined, lists, at, of)
  BY <1>1, JoinedIs
<1>4. PICK n : n = Len(list)
  OBVIOUS
<1>5. n \in Nat /\ DOMAIN list = 1..n
  BY <1>4
<1>6. Len(joined) = n /\ DOMAIN joined = 1..n
  BY <1>2, <1>4
<1>7. ASSUME NEW k \in 1..n PROVE joined[k] = list[k]
  <2>1. PICK p, m, e : p = at[k] /\ m = of[k] /\ e = EndsOf(lists)[p - 1]
    OBVIOUS
  <2>2. p \in DOMAIN lists /\ m \in DOMAIN lists[p] /\ joined[k] = lists[p][m] /\ m = k - e
    BY <1>3, <1>6, <2>1 DEF Behind
  <2>3. e \in Nat
    <3>1. EndsOf(lists) \in [0..Len(lists) -> Nat]
      BY EndsAre
    <3>2. p - 1 \in 0..Len(lists)
      BY <2>2
    <3> QED BY <2>1, <3>1, <3>2
  <2>4. e + m = k
    BY <2>2, <2>3
  <2> QED BY <2>1, <2>2, <2>4
<1>8. joined = list
  BY <1>2, <1>5, <1>6, <1>7
<1> QED BY <1>1, <1>8

-----------------------------------------------------------------------------
(* What git says. *)

Phases == {"new", "shas", "checks", "idents", "greps", "answered"}
Known == {Nothing, "found", "absent", "unknown"}
Questions == [pc : Phases, kind : {"ask", "verify"}, cites : SUBSET Shas, named : SUBSET Idents,
              out : [Idents -> Known], greps : SUBSET (Repos \X Idents),
              found : [Shas -> Repos \cup {Nothing}], absent : SUBSET Idents]
Checks == [pc : {"check", "describe", "done"}, unknown : SUBSET Shas, resolved : SUBSET Shas]

(* The shape of what the proofs speak of. *)
Shape == /\ asker \in [Askers -> Questions]
         /\ jobs \in [Askers -> [Repos -> Checks]]
         /\ identCache \in [Idents -> Known]
         /\ objects \in [Repos -> SUBSET Shas]

-----------------------------------------------------------------------------
(* Of names. *)

Everywhere(i) == \A r \in Repos : <<r, i>> \in ended

(* What the greps of a question have ended or will end. *)
Pending(a) == \A i \in Idents :
  asker[a].out[i] = "absent" \/ (asker[a].out[i] = Nothing /\ i \in asker[a].named) =>
    \A r \in Repos : <<r, i>> \in ended \cup asker[a].greps

NamesInv ==
  /\ \A i \in Idents : identCache[i] = "absent" => Everywhere(i)
  /\ \A a \in Askers : /\ asker[a].greps \subseteq Repos \X asker[a].named
                       /\ asker[a].pc = "new" => asker[a].absent = {} /\ asker[a].greps = {}
                       /\ asker[a].pc = "greps" => Pending(a)
                       /\ asker[a].kind = "ask" => \A i \in asker[a].absent : Everywhere(i)

-----------------------------------------------------------------------------
(* Of commits. *)

CacheInv ==
  /\ checked \ real \subseteq missed
  /\ \A r \in Repos, s \in Shas : <<r, s>> \in real => s \in objects[r]

ChecksInv(a) ==
  /\ \A r \in Repos : jobs[a][r].resolved \subseteq objects[r]
  /\ asker[a].pc = "checks" => \A r \in Repos : \A s \in asker[a].cites :
       <<r, s>> \in checked \/ (jobs[a][r].pc # "done" /\ s \in jobs[a][r].unknown)

(* The tokens of a question have been looked up. *)
LookedUp(a) == asker[a].pc = "answered" \/ (asker[a].kind = "ask" /\ asker[a].pc \in {"idents", "greps"})

Credited(s, named) ==
  /\ named # Nothing => s \in objects[named]
  /\ \A r \in Repos : <<r, s>> \notin missed => named # Nothing /\ named <= r

CommitsInv ==
  /\ CacheInv
  /\ \A a \in Askers : /\ ChecksInv(a)
                       /\ LookedUp(a) => \A s \in asker[a].cites : Credited(s, asker[a].found[s])

EvidenceInv == Shape /\ NamesInv /\ CommitsInv

-----------------------------------------------------------------------------
(* In the first state nobody has asked. *)
LEMMA EvidenceInitInv == EvidenceInit => EvidenceInv
<1> SUFFICES ASSUME EvidenceInit PROVE EvidenceInv
  OBVIOUS
<1>1. NewAsker \in Questions /\ NoJob \in Checks
  BY DEF NewAsker, Questions, Phases, Known, NoJob, Checks
<1>2. Shape
  BY <1>1 DEF EvidenceInit, Shape, Known
<1>3. NamesInv
  BY EvidenceAssumption DEF EvidenceInit, NamesInv, NewAsker
<1>4. CommitsInv
  BY DEF EvidenceInit, CommitsInv, CacheInv, ChecksInv, LookedUp, NewAsker, NoJob
<1> QED BY <1>2, <1>3, <1>4 DEF EvidenceInv

(* Records of questions and checks keep their shape. *)
LEMMA QuestionPc ==
  ASSUME NEW q \in Questions, NEW pc \in Phases
  PROVE  [q EXCEPT !.pc = pc] \in Questions
BY DEF Questions

LEMMA QuestionBegun ==
  ASSUME NEW q \in Questions, NEW pc \in Phases, NEW kind \in {"ask", "verify"},
         NEW cites \in SUBSET Shas, NEW named \in SUBSET Idents
  PROVE  [q EXCEPT !.pc = pc, !.kind = kind, !.cites = cites, !.named = named] \in Questions
BY DEF Questions

LEMMA QuestionCollected ==
  ASSUME NEW q \in Questions, NEW pc \in Phases, NEW found \in [Shas -> Repos \cup {Nothing}]
  PROVE  [q EXCEPT !.pc = pc, !.found = found] \in Questions
BY DEF Questions

LEMMA QuestionGrepped ==
  ASSUME NEW q \in Questions, NEW pc \in Phases, NEW out \in [Idents -> Known],
         NEW greps \in SUBSET (Repos \X Idents)
  PROVE  [q EXCEPT !.pc = pc, !.out = out, !.greps = greps] \in Questions
BY DEF Questions

LEMMA QuestionReported ==
  ASSUME NEW q \in Questions, NEW pc \in Phases, NEW absent \in SUBSET Idents
  PROVE  [q EXCEPT !.pc = pc, !.absent = absent] \in Questions
BY DEF Questions

LEMMA CheckDescribed ==
  ASSUME NEW job \in Checks, NEW resolved \in SUBSET Shas
  PROVE  [job EXCEPT !.pc = "describe", !.resolved = resolved] \in Checks
BY DEF Checks

(* A set of repositories that is not empty has a first. *)
LEMMA FirstRepo ==
  ASSUME NEW S \in SUBSET Repos, S # {}
  PROVE  \E r \in S : \A q \in S : r <= q
<1>1. S \subseteq Nat
  BY EvidenceAssumption DEF Repos
<1> QED BY <1>1, Least

(* What a question is told when it has all its pairs in the cache. *)
LEMMA FirstWithRecordIsCredited ==
  ASSUME Shape, CacheInv, NEW s \in Shas, \A r \in Repos : <<r, s>> \in checked
  PROVE  FirstWithRecord(s) \in Repos \cup {Nothing} /\ Credited(s, FirstWithRecord(s))
<1> DEFINE have == {r \in Repos : <<r, s>> \in real}
<1>1. CASE have = {}
  <2>1. FirstWithRecord(s) = Nothing
    BY <1>1 DEF FirstWithRecord
  <2>2. \A r \in Repos : <<r, s>> \in missed
    BY <1>1 DEF CacheInv
  <2> QED BY <2>1, <2>2 DEF Credited
<1>2. CASE have # {}
  <2>1. \E r \in have : \A q \in have : r <= q
    BY <1>2, FirstRepo
  <2> DEFINE first == CHOOSE r \in have : \A q \in have : r <= q
  <2>2. first \in have /\ \A q \in have : first <= q
    BY <2>1
  <2>3. FirstWithRecord(s) = first
    BY <1>2 DEF FirstWithRecord
  <2> HIDE DEF first
  <2>4. first # Nothing /\ s \in objects[first]
    <3>1. first \in Repos /\ <<first, s>> \in real
      BY <2>2
    <3>2. first # Nothing
      BY <3>1, EvidenceAssumption DEF Repos
    <3> QED BY <3>1, <3>2 DEF CacheInv
  <2>5. \A r \in Repos : <<r, s>> \notin missed => first <= r
    BY <2>2 DEF CacheInv
  <2> QED BY <2>2, <2>3, <2>4, <2>5 DEF Credited
<1> QED BY <1>1, <1>2

-----------------------------------------------------------------------------
(* The steps of a question. Only its own record and checks change. *)
LEMMA BeginInv ==
  ASSUME EvidenceInv, NEW a \in Askers, Begin(a)
  PROVE  EvidenceInv'
<1> USE DEF EvidenceInv
<1>1. PICK kind \in {"ask", "verify"}, cites \in SUBSET Shas, named \in SUBSET Idents :
        asker' = [asker EXCEPT ![a].pc = IF kind = "ask" THEN "shas" ELSE "idents",
                               ![a].kind = kind, ![a].cites = cites, ![a].named = named]
  BY DEF Begin
<1> DEFINE next == [asker[a] EXCEPT !.pc = IF kind = "ask" THEN "shas" ELSE "idents",
                                    !.kind = kind, !.cites = cites, !.named = named]
<1>2. Shape'
  <2>1. next \in Questions
    BY QuestionBegun DEF Shape, Phases
  <2>2. asker' = [asker EXCEPT ![a] = next]
    BY <1>1 DEF Shape
  <2>3. UNCHANGED <<jobs, identCache, objects>>
    BY DEF Begin, gitWorld
  <2> QED BY <2>1, <2>2, <2>3 DEF Shape
<1>3. asker[a].absent = {} /\ asker[a].pc = "new"
  BY DEF Begin, NamesInv
<1>4. NamesInv'
  <2>1. \A b \in Askers \ {a} : asker'[b] = asker[b]
    BY <1>1 DEF Shape
  <2>2. /\ asker'[a].pc \notin {"new", "greps"}
        /\ asker'[a].absent = {} /\ asker'[a].greps = asker[a].greps
        /\ asker'[a].named = named
    BY <1>1, <1>3 DEF Shape, Questions
  <2>3. asker[a].greps = {}
    BY <1>3 DEF NamesInv
  <2>4. UNCHANGED <<identCache, ended>>
    BY DEF Begin
  <2> QED BY <2>1, <2>2, <2>3, <2>4 DEF NamesInv, Pending, Everywhere
<1>5. CommitsInv'
  BY <1>1 DEF Shape, Questions, CommitsInv, CacheInv, ChecksInv, LookedUp, Credited, Begin,
              gitWorld, shaCache
<1> QED BY <1>2, <1>4, <1>5

LEMMA SpawnChecksInv ==
  ASSUME EvidenceInv, NEW a \in Askers, SpawnChecks(a)
  PROVE  EvidenceInv'
<1> USE DEF EvidenceInv
<1> DEFINE u(r) == Unknown(r, asker[a].cites)
<1>1. /\ asker' = [asker EXCEPT ![a].pc = "checks"]
      /\ jobs' = [jobs EXCEPT ![a] = [r \in Repos |->
           [pc |-> IF u(r) = {} THEN "done" ELSE "check", unknown |-> u(r), resolved |-> {}]]]
  BY DEF SpawnChecks, Goto
<1>2. \A r \in Repos : u(r) \in SUBSET Shas
  BY DEF Unknown, Shape, Questions
<1>3. Shape'
  <2>1. asker' \in [Askers -> Questions]
    <3>1. [asker[a] EXCEPT !.pc = "checks"] \in Questions
      BY QuestionPc DEF Shape, Phases
    <3>2. asker' = [asker EXCEPT ![a] = [asker[a] EXCEPT !.pc = "checks"]]
      BY <1>1 DEF Shape
    <3> QED BY <3>1, <3>2 DEF Shape
  <2>2. [r \in Repos |-> [pc |-> IF u(r) = {} THEN "done" ELSE "check",
                         unknown |-> u(r), resolved |-> {}]] \in [Repos -> Checks]
    BY <1>2 DEF Checks
  <2>3. UNCHANGED <<identCache, objects>>
    BY DEF SpawnChecks, gitWorld
  <2> QED BY <1>1, <2>1, <2>2, <2>3 DEF Shape
<1>4. NamesInv'
  BY <1>1 DEF Shape, Questions, NamesInv, Pending, Everywhere, SpawnChecks
<1>5. CommitsInv'
  BY <1>1 DEF Shape, Questions, Unknown, CommitsInv, CacheInv, ChecksInv, LookedUp, Credited,
              SpawnChecks, gitWorld, shaCache
<1> QED BY <1>3, <1>4, <1>5

(* What a repository's share of the checks leaves behind, whatever it found. *)
LEMMA StoreInv ==
  ASSUME EvidenceInv, NEW a \in Askers, NEW r \in Repos, NEW described \in SUBSET objects[r],
         Store(a, r, described), UNCHANGED <<gitWorld, identCache, asker, ended>>
  PROVE  EvidenceInv'
<1> USE DEF EvidenceInv
<1> DEFINE u == {r} \X jobs[a][r].unknown
           d == {r} \X described
<1>1. /\ checked' = checked \cup u
      /\ real' = (real \ u) \cup d
      /\ missed' = missed \cup (u \ d)
      /\ jobs' = [jobs EXCEPT ![a][r] = NoJob]
  BY DEF Store
<1>2. Shape'
  BY <1>1 DEF Shape, NoJob, Checks, gitWorld
<1>3. NamesInv'
  BY DEF NamesInv, Pending, Everywhere
<1>4. CacheInv'
  BY <1>1 DEF CommitsInv, CacheInv, gitWorld
<1>5. ASSUME NEW b \in Askers PROVE ChecksInv(b)'
  <2>1. ChecksInv(b)
    BY DEF CommitsInv
  <2>2. jobs'[b] = IF b = a THEN [jobs[a] EXCEPT ![r] = NoJob] ELSE jobs[b]
    BY <1>1 DEF Shape
  <2>3. \A q \in Repos : jobs'[b][q].resolved \subseteq objects'[q]
    BY <2>1, <2>2 DEF ChecksInv, Shape, NoJob, gitWorld
  <2>4. ASSUME asker'[b].pc = "checks", NEW q \in Repos, NEW s \in asker'[b].cites
        PROVE  <<q, s>> \in checked' \/ (jobs'[b][q].pc # "done" /\ s \in jobs'[b][q].unknown)
    BY <1>1, <2>1, <2>2, <2>4 DEF ChecksInv, Shape
  <2> QED BY <2>3, <2>4 DEF ChecksInv
<1>6. ASSUME NEW b \in Askers, LookedUp(b)', NEW s \in asker'[b].cites
      PROVE  Credited(s, asker[b].found[s])'
  BY <1>1, <1>6 DEF CommitsInv, LookedUp, Credited, gitWorld
<1>7. CommitsInv'
  BY <1>4, <1>5, <1>6 DEF CommitsInv
<1> QED BY <1>2, <1>3, <1>7

LEMMA CheckInv ==
  ASSUME EvidenceInv, NEW a \in Askers, NEW r \in Repos, Check(a, r)
  PROVE  EvidenceInv'
<1> DEFINE resolved == jobs[a][r].unknown \cap objects[r]
<1>1. CASE resolved = {}
  <2>1. Store(a, r, {})
    BY <1>1 DEF Check
  <2> QED BY <2>1, StoreInv DEF Check
<1>2. CASE resolved # {}
  <2> USE DEF EvidenceInv
  <2>1. jobs' = [jobs EXCEPT ![a][r].pc = "describe", ![a][r].resolved = resolved]
    BY <1>2 DEF Check
  <2>2. UNCHANGED <<objects, checked, real, missed, identCache, asker, ended>>
    BY <1>2 DEF Check, shaCache, gitWorld
  <2>3. Shape'
    <3>1. [jobs[a][r] EXCEPT !.pc = "describe", !.resolved = resolved] \in Checks
      <4>1. jobs[a][r] \in Checks /\ resolved \in SUBSET Shas
        BY DEF Shape
      <4> QED BY <4>1, CheckDescribed
    <3>2. jobs' = [jobs EXCEPT ![a][r] = [jobs[a][r] EXCEPT !.pc = "describe", !.resolved = resolved]]
      BY <2>1 DEF Shape
    <3> QED BY <2>2, <3>1, <3>2 DEF Shape
  <2>4. NamesInv'
    BY <2>2 DEF NamesInv, Pending, Everywhere
  <2>5. ASSUME NEW b \in Askers PROVE ChecksInv(b)'
    BY <2>1, <2>2 DEF Shape, Checks, CommitsInv, ChecksInv
  <2>6. CommitsInv'
    BY <2>2, <2>5 DEF CommitsInv, CacheInv, LookedUp, Credited
  <2> QED BY <2>3, <2>4, <2>6
<1> QED BY <1>1, <1>2

LEMMA CheckFailsInv ==
  ASSUME EvidenceInv, NEW a \in Askers, NEW r \in Repos, CheckFails(a, r)
  PROVE  EvidenceInv'
BY StoreInv DEF CheckFails

LEMMA DescribeInv ==
  ASSUME EvidenceInv, NEW a \in Askers, NEW r \in Repos, Describe(a, r)
  PROVE  EvidenceInv'
<1>1. jobs[a][r].resolved \subseteq objects[r]
  BY DEF EvidenceInv, CommitsInv, ChecksInv
<1> QED BY <1>1, StoreInv DEF Describe

LEMMA CollectInv ==
  ASSUME EvidenceInv, NEW a \in Askers, Collect(a)
  PROVE  EvidenceInv'
<1> USE DEF EvidenceInv
<1> DEFINE found == [s \in Shas |-> IF s \in asker[a].cites THEN FirstWithRecord(s) ELSE Nothing]
           next == After(asker[a].kind, "shas")
<1>1. asker' = [asker EXCEPT ![a].pc = next, ![a].found = found]
  BY DEF Collect
<1>2. UNCHANGED <<objects, checked, real, missed, identCache, jobs, ended>>
  BY DEF Collect, gitWorld, shaCache
<1>3. ASSUME NEW s \in asker[a].cites
      PROVE  FirstWithRecord(s) \in Repos \cup {Nothing} /\ Credited(s, FirstWithRecord(s))
  <2>1. s \in Shas
    BY DEF Shape, Questions
  <2>2. \A r \in Repos : <<r, s>> \in checked
    BY DEF Collect, CommitsInv, ChecksInv
  <2> QED BY <2>1, <2>2, FirstWithRecordIsCredited DEF CommitsInv
<1>4. next = IF asker[a].kind = "ask" THEN "idents" ELSE "answered"
  BY DEF After, Shape, Questions
<1>5. found \in [Shas -> Repos \cup {Nothing}]
  BY <1>3
<1>6. Shape'
  <2>1. [asker[a] EXCEPT !.pc = next, !.found = found] \in Questions
    BY <1>4, <1>5, QuestionCollected DEF Shape, Phases
  <2>2. asker' = [asker EXCEPT ![a] = [asker[a] EXCEPT !.pc = next, !.found = found]]
    BY <1>1 DEF Shape
  <2> HIDE DEF next, found
  <2> QED BY <1>2, <2>1, <2>2 DEF Shape
<1>7. NamesInv'
  BY <1>1, <1>2, <1>4 DEF Shape, Questions, NamesInv, Pending, Everywhere
<1>8. ASSUME NEW b \in Askers PROVE ChecksInv(b)'
  BY <1>1, <1>2, <1>4 DEF Shape, Questions, CommitsInv, ChecksInv
<1>9. ASSUME NEW b \in Askers, LookedUp(b)', NEW s \in asker'[b].cites
      PROVE  Credited(s, asker[b].found[s])'
  <2>1. CASE b = a
    <3>1. s \in asker[a].cites /\ s \in Shas /\ asker'[a].found[s] = FirstWithRecord(s)
      BY <1>1, <2>1, <1>9 DEF Shape, Questions
    <3> QED BY <3>1, <1>2, <1>3, <2>1 DEF Credited
  <2>2. CASE b # a
    BY <1>1, <1>2, <1>9, <2>2 DEF Shape, CommitsInv, LookedUp, Credited
  <2> QED BY <2>1, <2>2
<1>10. CommitsInv'
  BY <1>2, <1>8, <1>9 DEF CommitsInv, CacheInv
<1> QED BY <1>6, <1>7, <1>10

LEMMA SpawnGrepsInv ==
  ASSUME EvidenceInv, NEW a \in Askers, SpawnGreps(a)
  PROVE  EvidenceInv'
<1> USE DEF EvidenceInv
<1> DEFINE out == [i \in Idents |-> IF i \in asker[a].named THEN identCache[i] ELSE Nothing]
           greps == Repos \X {i \in asker[a].named : identCache[i] = Nothing}
<1>1. asker' = [asker EXCEPT ![a].pc = "greps", ![a].out = out, ![a].greps = greps]
  BY DEF SpawnGreps
<1>2. UNCHANGED <<objects, checked, real, missed, identCache, jobs, ended>>
  BY DEF SpawnGreps, gitWorld, shaCache
<1>3. out \in [Idents -> Known] /\ greps \in SUBSET (Repos \X Idents)
  BY DEF Shape, Questions, Known
<1>4. Shape'
  <2>1. [asker[a] EXCEPT !.pc = "greps", !.out = out, !.greps = greps] \in Questions
    BY <1>3, QuestionGrepped DEF Shape, Phases
  <2>2. asker' = [asker EXCEPT ![a] = [asker[a] EXCEPT !.pc = "greps", !.out = out, !.greps = greps]]
    BY <1>1 DEF Shape
  <2> HIDE DEF out, greps
  <2> QED BY <1>2, <2>1, <2>2 DEF Shape
<1>5. \A b \in Askers \ {a} : asker'[b] = asker[b]
  BY <1>1 DEF Shape
<1>6. /\ asker'[a].pc = "greps" /\ asker'[a].out = out /\ asker'[a].greps = greps
      /\ asker'[a].named = asker[a].named /\ asker'[a].absent = asker[a].absent
      /\ asker'[a].kind = asker[a].kind /\ asker'[a].cites = asker[a].cites
      /\ asker'[a].found = asker[a].found
  <2>1. asker'[a] = [asker[a] EXCEPT !.pc = "greps", !.out = out, !.greps = greps]
    BY <1>1 DEF Shape
  <2>2. asker[a] \in Questions
    BY DEF Shape
  <2> HIDE DEF out, greps
  <2> QED BY <2>1, <2>2 DEF Questions
<1>7. NamesInv'
  <2>1. Pending(a)'
    <3> SUFFICES ASSUME NEW i \in Idents, NEW r \in Repos,
                        out[i] = "absent" \/ (out[i] = Nothing /\ i \in asker[a].named)
                 PROVE  <<r, i>> \in ended \cup greps
      BY <1>2, <1>6 DEF Pending
    <3>1. CASE i \in asker[a].named /\ identCache[i] = "absent"
      BY <3>1 DEF NamesInv, Everywhere
    <3>2. CASE i \in asker[a].named /\ identCache[i] = Nothing
      BY <3>2
    <3>3. i \in asker[a].named
      BY EvidenceAssumption
    <3> QED BY <3>1, <3>2, <3>3
  <2>2. asker'[a].greps \subseteq Repos \X asker'[a].named
    BY <1>6
  <2> HIDE DEF out, greps
  <2> QED BY <1>2, <1>5, <1>6, <2>1, <2>2 DEF NamesInv, Pending, Everywhere
<1>8. CommitsInv'
  <2> HIDE DEF out, greps
  <2>1. LookedUp(a)' => LookedUp(a)
    BY <1>6 DEF LookedUp, SpawnGreps
  <2> QED BY <1>2, <1>5, <1>6, <2>1 DEF CommitsInv, CacheInv, ChecksInv, LookedUp, Credited
<1> QED BY <1>4, <1>7, <1>8

LEMMA GrepInv ==
  ASSUME EvidenceInv, NEW a \in Askers, NEW r \in Repos, NEW i \in Idents, Grep(a, r, i)
  PROVE  EvidenceInv'
<1> USE DEF EvidenceInv
<1>1. PICK known \in Known :
        /\ asker' = [asker EXCEPT ![a].greps = @ \ {<<r, i>>}, ![a].out[i] = known]
        /\ ended \subseteq ended'
        /\ known = "absent" => <<r, i>> \in ended' /\ asker[a].out[i] \in {"absent", Nothing}
        /\ known # Nothing
  <2>1. asker[a].out[i] \in Known
    BY DEF Shape, Questions
  <2>2. NoMatch(asker[a].out[i]) \in Known /\ Overrun(asker[a].out[i]) \in Known
    BY <2>1 DEF NoMatch, Overrun, Known
  <2>3. NoMatch(asker[a].out[i]) # Nothing /\ Overrun(asker[a].out[i]) \notin {Nothing, "absent"}
    BY EvidenceAssumption DEF NoMatch, Overrun
  <2>4. NoMatch(asker[a].out[i]) = "absent" => asker[a].out[i] \in {"absent", Nothing}
    BY DEF NoMatch
  <2>5. "found" \in Known /\ "found" # Nothing
    BY EvidenceAssumption DEF Known
  <2> DEFINE Ends(known) == asker' = [asker EXCEPT ![a].greps = @ \ {<<r, i>>}, ![a].out[i] = known]
  <2>6. CASE Ends("found") /\ ended' = ended
    <3>1. "found" # "absent"
      OBVIOUS
    <3> QED BY <2>5, <2>6, <3>1
  <2>7. CASE Ends(NoMatch(asker[a].out[i])) /\ ended' = ended \cup {<<r, i>>}
    BY <2>2, <2>3, <2>4, <2>7
  <2>8. CASE Ends(Overrun(asker[a].out[i])) /\ ended' = ended
    BY <2>2, <2>3, <2>8
  <2>9. \/ Ends("found") /\ ended' = ended
        \/ Ends(NoMatch(asker[a].out[i])) /\ ended' = ended \cup {<<r, i>>}
        \/ Ends(Overrun(asker[a].out[i])) /\ ended' = ended
    BY DEF Grep
  <2> QED BY <2>6, <2>7, <2>8, <2>9
<1>2. <<r, i>> \in asker[a].greps /\ UNCHANGED <<objects, checked, real, missed, identCache, jobs>>
  BY DEF Grep, gitWorld, shaCache
<1> DEFINE out == [asker[a].out EXCEPT ![i] = known]
           greps == asker[a].greps \ {<<r, i>>}
           next == [asker[a] EXCEPT !.greps = greps, !.out = out]
<1>3. asker' = [asker EXCEPT ![a] = next]
  <2>1. DOMAIN asker = Askers /\ asker[a] \in Questions
    BY DEF Shape
  <2>2. [asker[a] EXCEPT !.greps = greps, !.out[i] = known] = next
    BY <2>1 DEF Questions
  <2>3. asker' = [asker EXCEPT ![a] = [asker[a] EXCEPT !.greps = greps, !.out[i] = known]]
    BY <1>1, <2>1
  <2> QED BY <2>2, <2>3
<1>4. next \in Questions
  <2>1. asker[a] \in Questions /\ out \in [Idents -> Known] /\ greps \in SUBSET (Repos \X Idents)
    BY DEF Shape, Questions
  <2> HIDE DEF out, greps
  <2> QED BY <2>1 DEF Questions
<1>5. \A b \in Askers \ {a} : asker'[b] = asker[b]
  BY <1>3 DEF Shape
<1>6. /\ asker'[a].pc = asker[a].pc /\ asker'[a].out = out /\ asker'[a].greps = greps
      /\ asker'[a].named = asker[a].named /\ asker'[a].absent = asker[a].absent
      /\ asker'[a].kind = asker[a].kind /\ asker'[a].cites = asker[a].cites
      /\ asker'[a].found = asker[a].found
  <2>1. asker'[a] = next
    BY <1>3 DEF Shape
  <2>2. asker[a] \in Questions
    BY DEF Shape
  <2> HIDE DEF out, greps
  <2> QED BY <2>1, <2>2 DEF Questions
<1>7. Shape'
  <2> HIDE DEF next
  <2> QED BY <1>2, <1>3, <1>4 DEF Shape
<1>8. NamesInv'
  <2>1. ASSUME asker[a].pc = "greps" PROVE Pending(a)'
    <3> SUFFICES ASSUME NEW j \in Idents, NEW q \in Repos,
                        out[j] = "absent" \/ (out[j] = Nothing /\ j \in asker[a].named)
                 PROVE  <<q, j>> \in ended' \cup greps
      BY <1>6 DEF Pending
    <3>1. Pending(a)
      BY <2>1 DEF NamesInv
    <3>2. CASE j = i
      <4>1. known = "absent" /\ i \in asker[a].named
        BY <1>1, <1>2, <3>2 DEF Shape, Questions, NamesInv
      <4> QED BY <1>1, <1>2, <3>1, <3>2, <4>1 DEF Pending
    <3>3. CASE j # i
      BY <1>1, <3>1, <3>3 DEF Pending, Shape, Questions
    <3> QED BY <3>2, <3>3
  <2>2. \A b \in Askers \ {a} : asker[b].pc = "greps" => Pending(b)'
    BY <1>1, <1>5 DEF NamesInv, Pending
  <2>3. asker'[a].greps \subseteq Repos \X asker'[a].named
    BY <1>6 DEF NamesInv
  <2>4. asker[a].pc # "new"
    BY <1>2 DEF NamesInv
  <2> HIDE DEF out, greps
  <2>5. \A j \in Idents : Everywhere(j) => Everywhere(j)'
    BY <1>1 DEF Everywhere
  <2>6. \A b \in Askers \ {a} : /\ asker'[b].greps \subseteq Repos \X asker'[b].named
                                /\ asker'[b].pc = "new" => asker'[b].absent = {} /\ asker'[b].greps = {}
                                /\ asker'[b].kind = "ask" => \A j \in asker'[b].absent : Everywhere(j)'
    BY <1>5, <2>5 DEF NamesInv, Shape, Questions
  <2>7. asker'[a].kind = "ask" => \A j \in asker'[a].absent : Everywhere(j)'
    BY <1>6, <2>5 DEF NamesInv, Shape, Questions
  <2>8. \A j \in Idents : identCache'[j] = "absent" => Everywhere(j)'
    BY <1>2, <2>5 DEF NamesInv
  <2> QED BY <1>5, <1>6, <2>1, <2>2, <2>3, <2>4, <2>6, <2>7, <2>8 DEF NamesInv
<1>9. CommitsInv'
  <2> HIDE DEF out, greps
  <2> QED BY <1>2, <1>5, <1>6 DEF CommitsInv, CacheInv, ChecksInv, LookedUp, Credited
<1> QED BY <1>7, <1>8, <1>9

LEMMA ReportInv ==
  ASSUME EvidenceInv, NEW a \in Askers, Report(a)
  PROVE  EvidenceInv'
<1> USE DEF EvidenceInv
<1> DEFINE out == asker[a].out
           certain(i) == out[i] \notin {Nothing, "unknown"}
           next == After(asker[a].kind, "idents")
           absent == {i \in asker[a].named :
                        out[i] = "absent" \/ (out[i] = "unknown" /\ asker[a].kind = "verify")}
<1>1. /\ asker' = [asker EXCEPT ![a].pc = next, ![a].absent = absent]
      /\ identCache' = [i \in Idents |-> IF certain(i) THEN out[i] ELSE identCache[i]]
  BY DEF Report
<1>2. /\ asker[a].pc = "greps" /\ asker[a].greps = {}
      /\ UNCHANGED <<objects, checked, real, missed, jobs, ended>>
  BY DEF Report, gitWorld, shaCache
<1>3. next = IF asker[a].kind = "ask" THEN "answered" ELSE "shas"
  BY DEF After, Shape, Questions
<1>4. \A i \in Idents : out[i] = "absent" => Everywhere(i)
  BY <1>2 DEF NamesInv, Pending, Everywhere
<1>5. \A b \in Askers \ {a} : asker'[b] = asker[b]
  BY <1>1 DEF Shape
<1>6. /\ asker'[a].pc = next /\ asker'[a].absent = absent
      /\ asker'[a].greps = asker[a].greps /\ asker'[a].named = asker[a].named
      /\ asker'[a].kind = asker[a].kind /\ asker'[a].cites = asker[a].cites
      /\ asker'[a].found = asker[a].found
  BY <1>1 DEF Shape, Questions
<1>7. Shape'
  <2>1. asker[a] \in Questions /\ absent \in SUBSET Idents /\ next \in Phases
    BY <1>3 DEF Shape, Questions, Phases
  <2>2. asker' = [asker EXCEPT ![a] = [asker[a] EXCEPT !.pc = next, !.absent = absent]]
    BY <1>1 DEF Shape
  <2>3. identCache' \in [Idents -> Known]
    BY <1>1 DEF Shape, Questions
  <2> HIDE DEF next, absent
  <2>4. [asker[a] EXCEPT !.pc = next, !.absent = absent] \in Questions
    BY <2>1, QuestionReported
  <2> QED BY <1>2, <2>2, <2>3, <2>4 DEF Shape
<1>8. NamesInv'
  <2>1. \A i \in Idents : identCache'[i] = "absent" => Everywhere(i)
    BY <1>1, <1>4 DEF NamesInv
  <2>2. asker[a].kind = "ask" => \A i \in absent : Everywhere(i)
    BY <1>4 DEF Shape, Questions
  <2> HIDE DEF out, absent
  <2> QED BY <1>2, <1>3, <1>5, <1>6, <2>1, <2>2 DEF NamesInv, Pending, Everywhere
<1>9. CommitsInv'
  <2>1. LookedUp(a)' => LookedUp(a)
    BY <1>2, <1>3, <1>6 DEF LookedUp
  <2>2. asker'[a].pc # "checks"
    BY <1>3, <1>6
  <2> HIDE DEF out, next, absent
  <2> QED BY <1>2, <1>5, <1>6, <2>1, <2>2 DEF CommitsInv, CacheInv, ChecksInv, LookedUp, Credited
<1> QED BY <1>7, <1>8, <1>9

(* A commit that lands was no record before, so whoever has its pair in the *)
(* cache already has missed it.                                             *)
LEMMA LandInv ==
  ASSUME EvidenceInv, NEW r \in Repos, Land(r)
  PROVE  EvidenceInv'
<1> USE DEF EvidenceInv
<1>1. UNCHANGED <<checked, real, missed, identCache, asker, jobs, ended>>
  BY DEF Land, shaCache
<1>2. objects' \in [Repos -> SUBSET Shas] /\ \A q \in Repos : objects[q] \subseteq objects'[q]
  BY DEF Land, Shape
<1>3. Shape' /\ NamesInv'
  BY <1>1, <1>2 DEF Shape, NamesInv, Pending, Everywhere
<1>4. CacheInv' /\ \A a \in Askers : ChecksInv(a)'
  BY <1>1, <1>2 DEF CommitsInv, CacheInv, ChecksInv
<1>5. ASSUME NEW a \in Askers, LookedUp(a), NEW s \in asker[a].cites
      PROVE  Credited(s, asker[a].found[s])'
  <2>1. asker[a].found[s] \in Repos \cup {Nothing}
    BY <1>5 DEF Shape, Questions
  <2> QED BY <1>1, <1>2, <1>5, <2>1 DEF CommitsInv, Credited
<1> QED BY <1>1, <1>3, <1>4, <1>5 DEF CommitsInv, LookedUp
-----------------------------------------------------------------------------
(* The invariant is kept by every step. *)
LEMMA EvidenceNextInv ==
  ASSUME EvidenceInv, [EvidenceNext]_evidenceVars
  PROVE  EvidenceInv'
<1>1. CASE UNCHANGED evidenceVars
  BY <1>1 DEF EvidenceInv, Shape, NamesInv, Pending, Everywhere, CommitsInv, CacheInv, ChecksInv,
              LookedUp, Credited, evidenceVars, gitWorld, shaCache
<1>2. ASSUME NEW a \in Askers,
             \/ Begin(a) \/ SpawnChecks(a) \/ Collect(a) \/ SpawnGreps(a) \/ Report(a)
             \/ \E r \in Repos : Check(a, r) \/ CheckFails(a, r) \/ Describe(a, r)
             \/ \E r \in Repos, i \in Idents : Grep(a, r, i)
      PROVE  EvidenceInv'
  <2>1. CASE Begin(a)
    BY <2>1, BeginInv
  <2>2. CASE SpawnChecks(a)
    BY <2>2, SpawnChecksInv
  <2>3. CASE Collect(a)
    BY <2>3, CollectInv
  <2>4. CASE SpawnGreps(a)
    BY <2>4, SpawnGrepsInv
  <2>5. CASE Report(a)
    BY <2>5, ReportInv
  <2>6. ASSUME NEW r \in Repos, Check(a, r) \/ CheckFails(a, r) \/ Describe(a, r)
        PROVE  EvidenceInv'
    BY <2>6, CheckInv, CheckFailsInv, DescribeInv
  <2>7. ASSUME NEW r \in Repos, NEW i \in Idents, Grep(a, r, i)
        PROVE  EvidenceInv'
    BY <2>7, GrepInv
  <2> QED BY <1>2, <2>1, <2>2, <2>3, <2>4, <2>5, <2>6, <2>7
<1>3. ASSUME NEW r \in Repos, Land(r) PROVE EvidenceInv'
  BY <1>3, LandInv
<1> QED BY <1>1, <1>2, <1>3 DEF EvidenceNext

(* What is stored, pending and credited is right in every state: no name is *)
(* stored as absent before every grep for it has ended, and no pair is      *)
(* without a record that was not looked up in vain (git-join.js 150-308).   *)
THEOREM EvidenceInvariant == EvidenceSpec => []EvidenceInv
<1>1. EvidenceInit => EvidenceInv
  BY EvidenceInitInv
<1>2. EvidenceInv /\ [EvidenceNext]_evidenceVars => EvidenceInv'
  BY EvidenceNextInv
<1> QED BY <1>1, <1>2, PTL DEF EvidenceSpec

(* An answer says of a name that it is in no repository only if a grep for  *)
(* it has ended in every one of them (git-join.js 189-204, 224-241).        *)
THEOREM AbsenceIsEverywhere == EvidenceSpec => []AbsentEverywhere
<1>1. EvidenceInv => AbsentEverywhere
  BY DEF EvidenceInv, NamesInv, Everywhere, AbsentEverywhere
<1> QED BY <1>1, EvidenceInvariant, PTL

(* A commit is named with the first repository that has it, whatever the    *)
(* order of their answers, unless that one was asked for it in vain; and    *)
(* only with one that has it (git-join.js 285-308).                         *)
THEOREM FirstRepoIsNamed == EvidenceSpec => []FirstRepoWins
<1>1. EvidenceInv => FirstRepoWins
  BY DEF EvidenceInv, CommitsInv, LookedUp, Credited, FirstRepoWins
<1> QED BY <1>1, EvidenceInvariant, PTL

-----------------------------------------------------------------------------
(* The last word. *)

Docs == [text : SUBSET Terms, at : Nat \ {0}, said : Nat \ {0}]
Stamps == [stale : BOOLEAN, added : SUBSET Files, changed : SUBSET Files, pass : [Files -> Nat]]
Queries == [pc : {"ranked", "answered"}, q : (SUBSET Terms) \ {{}}, want : Wanted,
            idx : [Files -> Docs \cup {None}], stamp : Stamps,
            claim : {"none", "void", "last"}, top : Nat, supported : BOOLEAN,
            missing : SUBSET Terms, warned : BOOLEAN, found : SUBSET Terms, cut : BOOLEAN,
            then : [Files -> Docs \cup {None}]]

(* A corpus as it was at some time up to now: no file is newer than now, or *)
(* speaks of a time after its writing.                                      *)
Corpus(files, now) ==
  /\ files \in [Files -> Docs \cup {None}]
  /\ \A f \in Present(files) : files[f].said <= files[f].at /\ files[f].at <= now

(* A file with the time it had then is the file it was then. *)
SameTimeSameFile(old, new) ==
  \A f \in Present(old) \cap Present(new) : old[f].at = new[f].at => old[f] = new[f]

(* An earlier state of the corpus: what has changed since has a later time. *)
Earlier(old) ==
  /\ Corpus(old, clock)
  /\ SameTimeSameFile(old, live)
  /\ \A f \in Present(old) : IF live[f] = None THEN old[f].at < clock ELSE old[f].at <= live[f].at

PassOf(pass, now) == pass \in [Files -> Nat] /\ \A f \in Files : pass[f] <= now

(* What a question under way knows. *)
Asking(a, now) ==
  /\ a \in Queries
  /\ Corpus(a.idx, now)
  /\ Corpus(a.then, now)
  /\ SameTimeSameFile(a.idx, a.then)
  /\ PassOf(a.stamp.pass, now)
  /\ a.stamp = StampOf(a.idx, a.stamp.pass)

LatestInv ==
  /\ clock \in Nat
  /\ Earlier(live)
  /\ Earlier(index)
  /\ statPass # None => PassOf(statPass, clock)
  /\ question.pc = "ranked" => Asking(question, clock)

-----------------------------------------------------------------------------
LEMMA FilesAreNaturals == Files \subseteq Nat /\ IsFiniteSet(Files) /\ \A f \in Files : f # 0
<1>1. NFiles \in Nat
  BY LatestAssumption
<1>2. IsFiniteSet(1..NFiles)
  BY <1>1, FS_Interval
<1> QED BY <1>1, <1>2 DEF Files

(* The first row is there, and before all others. *)
LEMMA FirstRowIsFirst ==
  ASSUME NEW idx, NEW rows, rows \subseteq Files, rows # {}, NEW now \in Nat,
         \A f \in rows : idx[f].said \in Nat /\ idx[f].said <= now
  PROVE  /\ FirstRow(idx, rows) \in rows
         /\ \A g \in rows \ {FirstRow(idx, rows)} : Ordered(idx, FirstRow(idx, rows), g)
<1> DEFINE half == IF rows \ Summaries # {} THEN rows \ Summaries ELSE rows
           times == {idx[f].said : f \in half}
<1>1. half \subseteq rows /\ half # {}
  OBVIOUS
<1>2. \A f \in half, g \in rows : (f \in Summaries <=> g \in Summaries) => g \in half
  OBVIOUS
<1>3. \A f \in half, g \in rows \ half : g \in Summaries /\ f \notin Summaries
  OBVIOUS
<1> HIDE DEF half
<1>4. times \subseteq Nat /\ times # {} /\ \A n \in times : n <= now
  BY <1>1
<1> HIDE DEF times
<1>5. PICK n \in times : \A m \in times : m <= n
  BY <1>4, Greatest
<1> DEFINE newest == {f \in half : idx[f].said = n}
<1>6. newest # {} /\ newest \subseteq Nat
  BY <1>1, <1>5, FilesAreNaturals DEF times
<1> HIDE DEF newest
<1>7. PICK f \in newest : \A g \in newest : f <= g
  BY <1>6, Least
<1>8. f \in half /\ idx[f].said = n
  BY <1>7 DEF newest
<1>9. ASSUME NEW g \in rows \ {f} PROVE Ordered(idx, f, g)
  <2>1. CASE g \in half
    <3>1. idx[g].said \in times
      BY <2>1 DEF times
    <3>2. idx[g].said <= n /\ idx[g].said \in Nat /\ n \in Nat
      BY <1>4, <1>5, <3>1
    <3>3. CASE idx[g].said = n
      <4>1. f <= g /\ f \in Nat /\ g \in Nat /\ f # g
        BY <1>6, <1>7, <2>1, <3>3 DEF newest
      <4>2. f < g
        BY <4>1
      <4>3. NewestFirst(idx, f, g)
        BY <1>8, <3>3, <4>2 DEF NewestFirst
      <4>4. f \in Summaries <=> g \in Summaries
        BY <1>8, <2>1 DEF half
      <4> QED BY <4>3, <4>4 DEF Ordered
    <3>4. CASE idx[g].said # n
      <4>1. idx[f].said > idx[g].said
        BY <1>8, <3>2, <3>4
      <4>2. f \in Summaries <=> g \in Summaries
        BY <1>8, <2>1 DEF half
      <4> QED BY <4>1, <4>2 DEF Ordered, NewestFirst
    <3> QED BY <3>3, <3>4
  <2>2. CASE g \notin half
    BY <1>3, <1>8, <2>2 DEF Ordered
  <2> QED BY <2>1, <2>2
<1>10. \E h \in rows : \A g \in rows \ {h} : Ordered(idx, h, g)
  BY <1>1, <1>8, <1>9
<1> QED BY <1>10 DEF FirstRow

(* No unread file is newer than the newest. *)
LEMMA NoneIsNewer ==
  ASSUME NEW stamp \in Stamps, NEW now \in Nat, PassOf(stamp.pass, now), NEW f \in ToScan(stamp)
  PROVE  NewestUnread(stamp) \in Nat /\ stamp.pass[f] <= NewestUnread(stamp)
<1> DEFINE unread == {0} \cup {stamp.pass[g] : g \in stamp.added \cup stamp.changed}
<1>1. stamp.pass \in [Files -> Nat] /\ stamp.added \subseteq Files /\ stamp.changed \subseteq Files
  BY DEF Stamps
<1>2. unread \subseteq Nat /\ unread # {} /\ \A n \in unread : n <= now
  BY <1>1 DEF PassOf
<1>3. stamp.pass[f] \in unread
  BY DEF ToScan
<1>4. NewestUnread(stamp) = Max(unread)
  BY DEF NewestUnread
<1> HIDE DEF unread
<1>5. \E n \in unread : \A m \in unread : m <= n
  BY <1>2, Greatest
<1>6. \E n \in unread : \A m \in unread : n >= m
  BY <1>2, <1>5
<1>7. Max(unread) \in unread /\ \A m \in unread : Max(unread) >= m
  BY <1>6 DEF Max
<1> QED BY <1>2, <1>3, <1>4, <1>7

(* If the unread files are not too many, all of them are opened. *)
LEMMA AllAreOpened ==
  ASSUME NEW stamp \in Stamps, ~(Cardinality(ToScan(stamp)) > MaxScan)
  PROVE  Opened(stamp) = ToScan(stamp)
<1> DEFINE all == ToScan(stamp)
<1>1. all \subseteq Files
  BY DEF Stamps, ToScan
<1>2. IsFiniteSet(all) /\ Cardinality(all) \in Nat
  BY <1>1, FilesAreNaturals, FS_Subset, FS_CardinalityType
<1>3. Cardinality(all) <= MaxScan
  BY <1>2, LatestAssumption
<1>4. ASSUME NEW f \in all
      PROVE  Cardinality({g \in all : ScannedBefore(stamp, g, f)}) < MaxScan
  <2> DEFINE before == {g \in all : ScannedBefore(stamp, g, f)}
  <2>1. f \in Nat
    BY <1>1, FilesAreNaturals
  <2>2. f \notin before
    BY <2>1 DEF ScannedBefore
  <2>3. before \in SUBSET all
    OBVIOUS
  <2>4. before # all
    BY <2>2
  <2> HIDE DEF before, all
  <2>5. Cardinality(before) <= Cardinality(all) /\ IsFiniteSet(before)
        /\ Cardinality(before) # Cardinality(all)
    BY <1>2, <2>3, <2>4, FS_Subset
  <2>6. Cardinality(before) \in Nat
    BY <2>5, FS_CardinalityType
  <2>7. Cardinality(before) < MaxScan
    BY <1>2, <1>3, <2>5, <2>6, LatestAssumption
  <2> QED BY <2>7 DEF before
<1> QED BY <1>4 DEF Opened

(* A file that the stat pass has seen as it is has been read as it is, or is *)
(* among those to be scanned, and then the index is known to be stale.       *)
LEMMA ReadOrUnread ==
  ASSUME NEW now \in Nat, NEW a, Asking(a, now), NEW f \in SeenAsIs(a)
  PROVE  /\ f \in Files
         /\ a.then[f] \in Docs
         /\ \/ f \in Present(a.idx) /\ a.idx[f] = a.then[f]
            \/ f \in ToScan(a.stamp) /\ a.stamp.stale
<1>1. f \in Files /\ a.then[f] # None /\ a.stamp.pass[f] = a.then[f].at
  BY DEF SeenAsIs, Present
<1>2. a.then[f] \in Docs
  BY <1>1 DEF Asking, Corpus
<1>3. a.stamp.pass[f] # 0
  BY <1>1, <1>2 DEF Docs
<1>4. /\ a.stamp.added = Added(a.idx, a.stamp.pass)
      /\ a.stamp.changed = Changed(a.idx, a.stamp.pass)
      /\ a.stamp.stale = Stale(a.idx, a.stamp.pass)
  <2>1. a.stamp = StampOf(a.idx, a.stamp.pass)
    BY DEF Asking
  <2> QED BY <2>1 DEF StampOf
<1>5. ToScan(a.stamp) # {} => a.stamp.stale
  BY <1>4 DEF ToScan, Stale
<1>6. CASE a.idx[f] = None
  <2>1. f \in Added(a.idx, a.stamp.pass)
    BY <1>1, <1>3, <1>6 DEF Added
  <2> QED BY <1>1, <1>2, <1>4, <1>5, <2>1 DEF ToScan
<1>7. CASE a.idx[f] # None /\ a.idx[f].at # a.stamp.pass[f]
  <2>1. f \in Changed(a.idx, a.stamp.pass)
    BY <1>1, <1>3, <1>7 DEF Changed
  <2> QED BY <1>1, <1>2, <1>4, <1>5, <2>1 DEF ToScan
<1>8. CASE a.idx[f] # None /\ a.idx[f].at = a.stamp.pass[f]
  <2>1. f \in Present(a.idx) \cap Present(a.then)
    BY <1>1, <1>8 DEF Present
  <2>2. a.idx[f] = a.then[f]
    BY <1>1, <1>8, <2>1 DEF Asking, SameTimeSameFile
  <2> QED BY <1>1, <1>2, <2>1, <2>2
<1> QED BY <1>6, <1>7, <1>8

-----------------------------------------------------------------------------
(* The answer. *)

LEMMA Inputs ==
  ASSUME NEW now \in Nat, NEW a, Asking(a, now)
  PROVE  /\ Rows(a.idx, a.q, a.want) \subseteq Present(a.idx)
         /\ Hits(a.idx, a.q, a.want) \subseteq Present(a.idx)
         /\ Present(a.idx) \subseteq Files
         /\ Unmatchable(a.idx, a.q, a.want) \subseteq Terms
         /\ \A f \in Present(a.idx) : /\ a.idx[f] \in Docs
                                      /\ a.idx[f].said \in Nat
                                      /\ a.idx[f].said <= now
<1>1. /\ Hits(a.idx, a.q, a.want) \subseteq Present(a.idx)
      /\ Partial(a.idx, a.q, a.want) \subseteq Present(a.idx)
  BY DEF Hits, Partial, Matching
<1>2. Rows(a.idx, a.q, a.want) \subseteq Present(a.idx)
  BY <1>1 DEF Rows
<1>3. Present(a.idx) \subseteq Files
  BY DEF Present
<1>4. Unmatchable(a.idx, a.q, a.want) \subseteq Terms
  BY DEF Unmatchable, Asking, Queries
<1>5. ASSUME NEW f \in Present(a.idx)
      PROVE  a.idx[f] \in Docs /\ a.idx[f].said \in Nat /\ a.idx[f].said <= now
  <2>1. a.idx[f] \in Docs /\ a.idx[f].said <= a.idx[f].at /\ a.idx[f].at <= now
    BY DEF Asking, Corpus, Present
  <2>2. a.idx[f].said \in Nat /\ a.idx[f].at \in Nat
    BY <2>1 DEF Docs
  <2> QED BY <2>1, <2>2
<1> QED BY <1>1, <1>2, <1>3, <1>4, <1>5

(* What an answer says. *)
LEMMA AnswerSays ==
  ASSUME NEW a \in Queries, NEW files
  PROVE  LET r == Answered(a, files)
             rows == Rows(a.idx, a.q, a.want)
             missing == Unmatchable(a.idx, a.q, a.want)
         IN /\ r.pc = "answered" /\ r.q = a.q /\ r.want = a.want
            /\ r.idx = a.idx /\ r.stamp = a.stamp /\ r.then = a.then
            /\ r.supported <=> rows # {} /\ ~Relaxed(a.idx, a.q, a.want)
            /\ r.missing = missing
            /\ r.warned <=> Collides(a.stamp, missing)
            /\ ~r.warned => r.found = Found(a.stamp, missing, files)
            /\ ~r.warned /\ ~r.cut => ~Truncated(a.stamp, missing)
            /\ r.claim = "last" /\ rows # {} =>
                 /\ r.top = a.idx[FirstRow(a.idx, rows)].said
                 /\ a.stamp.stale => ~(NewestUnread(a.stamp) > r.top)
BY DEF Answered, Queries

(* The first row is no earlier than any first-hand file with all the terms. *)
LEMMA HitsAreNotLater ==
  ASSUME NEW now \in Nat, NEW a, Asking(a, now),
         NEW f \in Hits(a.idx, a.q, a.want) \ Summaries
  PROVE  LET rows == Rows(a.idx, a.q, a.want)
         IN rows # {} /\ a.idx[f].said <= a.idx[FirstRow(a.idx, rows)].said
<1> DEFINE rows == Rows(a.idx, a.q, a.want)
           first == FirstRow(a.idx, rows)
<1>1. rows = Hits(a.idx, a.q, a.want)
  BY DEF Rows, Relaxed
<1>2. /\ rows \subseteq Present(a.idx) /\ Present(a.idx) \subseteq Files
      /\ \A g \in Present(a.idx) : a.idx[g].said \in Nat /\ a.idx[g].said <= now
  BY Inputs
<1>3. first \in rows /\ \A g \in rows \ {first} : Ordered(a.idx, first, g)
  BY <1>1, <1>2, FirstRowIsFirst
<1>4. f \in rows
  BY <1>1
<1> HIDE DEF first, rows
<1>5. a.idx[f].said \in Nat /\ a.idx[first].said \in Nat
  BY <1>2, <1>3, <1>4
<1>6. CASE f = first
  BY <1>4, <1>5, <1>6 DEF first, rows
<1>7. CASE f # first
  <2>1. Ordered(a.idx, first, f)
    BY <1>3, <1>4, <1>7
  <2>2. NewestFirst(a.idx, first, f)
    BY <2>1 DEF Ordered
  <2>3. a.idx[f].said <= a.idx[first].said
    BY <1>5, <2>2 DEF NewestFirst
  <2> QED BY <1>4, <2>3 DEF first, rows
<1> QED BY <1>6, <1>7

(* What was seen is in the index or is unread; the first row is no earlier   *)
(* than the one, and a claim to the last word no earlier than the other.     *)
LEMMA NothingSeenIsLater ==
  ASSUME NEW now \in Nat, NEW a, Asking(a, now), NEW files, NEW r, r = Answered(a, files),
         r.claim = "last", r.supported,
         NEW f \in SeenAsIs(a) \ Summaries, Passes(f, a.want), a.q \subseteq Hay(f, a.then[f])
  PROVE  a.then[f].said <= r.top
<1> DEFINE rows == Rows(a.idx, a.q, a.want)
<1>1. a \in Queries /\ a.stamp \in Stamps /\ PassOf(a.stamp.pass, now)
  BY DEF Asking, Queries
<1>2. /\ rows # {}
      /\ r.top = a.idx[FirstRow(a.idx, rows)].said
      /\ a.stamp.stale => ~(NewestUnread(a.stamp) > r.top)
  BY <1>1, AnswerSays
<1>3. a.then[f] \in Docs /\ a.then[f].said <= a.then[f].at /\ a.stamp.pass[f] = a.then[f].at
  BY ReadOrUnread DEF Asking, Corpus, SeenAsIs
<1>4. CASE f \in Present(a.idx) /\ a.idx[f] = a.then[f]
  <2>1. a.q # {} /\ a.q \subseteq Hay(f, a.idx[f])
    BY <1>1, <1>4 DEF Queries
  <2>2. f \in Hits(a.idx, a.q, a.want)
    BY <1>4, <2>1 DEF Hits, Matching
  <2> QED BY <1>2, <1>4, <2>2, HitsAreNotLater
<1>5. CASE f \in ToScan(a.stamp) /\ a.stamp.stale
  <2>1. NewestUnread(a.stamp) \in Nat /\ a.stamp.pass[f] <= NewestUnread(a.stamp)
    BY <1>1, <1>5, NoneIsNewer
  <2>2. r.top \in Nat
    <3>1. rows \subseteq Present(a.idx) /\ rows \subseteq Files
          /\ \A g \in rows : a.idx[g].said \in Nat /\ a.idx[g].said <= now
      BY Inputs
    <3>2. FirstRow(a.idx, rows) \in rows
      BY <1>2, <3>1, FirstRowIsFirst
    <3> QED BY <1>2, <3>1, <3>2
  <2>3. NewestUnread(a.stamp) <= r.top
    BY <1>2, <1>5, <2>1, <2>2
  <2>4. a.then[f].said \in Nat /\ a.then[f].at \in Nat
    BY <1>3 DEF Docs
  <2> QED BY <1>3, <2>1, <2>2, <2>3, <2>4
<1> QED BY <1>4, <1>5, ReadOrUnread

(* A file that has a term the answer misses is among those to be scanned. *)
LEMMA MissingIsUnread ==
  ASSUME NEW now \in Nat, NEW a, Asking(a, now), NEW f \in SeenAsIs(a), Passes(f, a.want),
         Unmatchable(a.idx, a.q, a.want) \cap a.then[f].text # {}
  PROVE  f \in ToScan(a.stamp) /\ a.stamp.stale
<1>1. PICK t \in a.q : t \in a.then[f].text /\ t \in Unmatchable(a.idx, a.q, a.want)
  BY DEF Unmatchable
<1>2. CASE f \in Present(a.idx) /\ a.idx[f] = a.then[f]
  <2>1. t \in Hay(f, a.idx[f])
    BY <1>1, <1>2 DEF Hay
  <2>2. f \in Matching(a.idx, a.q, a.want)
    BY <1>1, <1>2, <2>1 DEF Matching
  <2> QED BY <1>1, <2>1, <2>2 DEF Unmatchable
<1> QED BY <1>2, ReadOrUnread

(* Missing terms that are in the text of a file that has stayed as it was    *)
(* are found, unless a name says so or the scan is cut.                      *)
LEMMA MissingIsFound ==
  ASSUME NEW now \in Nat, NEW a, Asking(a, now), NEW files, NEW r, r = Answered(a, files),
         NEW f \in SeenAsIs(a), files[f] = a.then[f], Passes(f, a.want),
         r.missing \cap files[f].text # {}
  PROVE  /\ a.stamp.stale
         /\ r.warned \/ r.cut \/ r.missing \cap files[f].text \subseteq r.found
<1> DEFINE missing == Unmatchable(a.idx, a.q, a.want)
<1>1. a \in Queries /\ a.stamp \in Stamps
  BY DEF Asking, Queries
<1>2. /\ r.missing = missing
      /\ ~r.warned => r.found = Found(a.stamp, missing, files)
      /\ ~r.warned /\ ~r.cut => ~Truncated(a.stamp, missing)
  BY <1>1, AnswerSays
<1>3. f \in ToScan(a.stamp) /\ a.stamp.stale
  BY <1>2, MissingIsUnread
<1>4. ASSUME ~r.warned, ~r.cut
      PROVE  missing \cap files[f].text \subseteq r.found
  <2>1. ~(Cardinality(ToScan(a.stamp)) > MaxScan)
    BY <1>2, <1>4 DEF Truncated
  <2>2. f \in Opened(a.stamp)
    BY <1>1, <1>3, <2>1, AllAreOpened
  <2>3. f \in Present(files)
    BY DEF SeenAsIs, Present
  <2> QED BY <1>2, <1>4, <2>2, <2>3 DEF Found
<1> QED BY <1>2, <1>3, <1>4

(* A premise that a file holds is supported, or the index is stale. *)
LEMMA PremiseIsSupported ==
  ASSUME NEW now \in Nat, NEW a, Asking(a, now), NEW files, NEW r, r = Answered(a, files),
         NEW f \in SeenAsIs(a), Passes(f, a.want), a.q \subseteq a.then[f].text, ~r.supported
  PROVE  a.stamp.stale
<1>1. a \in Queries
  BY DEF Asking
<1>2. CASE f \in Present(a.idx) /\ a.idx[f] = a.then[f]
  <2>1. a.q # {} /\ a.q \subseteq Hay(f, a.idx[f])
    BY <1>1, <1>2 DEF Queries, Hay
  <2>2. f \in Hits(a.idx, a.q, a.want)
    BY <1>2, <2>1 DEF Hits, Matching
  <2>3. ~Relaxed(a.idx, a.q, a.want) /\ Rows(a.idx, a.q, a.want) # {}
    BY <2>2 DEF Relaxed, Rows
  <2> QED BY <1>1, <2>3, AnswerSays
<1> QED BY <1>2, ReadOrUnread

-----------------------------------------------------------------------------
(* The steps. *)

LEMMA LatestInitInv == LatestInit => LatestInv /\ question.pc = "none"
<1> SUFFICES ASSUME LatestInit PROVE LatestInv /\ question.pc = "none"
  OBVIOUS
<1>1. PICK text \in SUBSET Terms :
        live = [f \in Files |-> IF f = 1 THEN [text |-> text, at |-> 1, said |-> 1] ELSE None]
  BY DEF LatestInit
<1>2. [text |-> text, at |-> 1, said |-> 1] \in Docs
  BY DEF Docs
<1>3. live \in [Files -> Docs \cup {None}]
  BY <1>1, <1>2
<1>4. \A f \in Present(live) : live[f].said = 1 /\ live[f].at = 1
  BY <1>1 DEF Present
<1>5. clock = 1 /\ index = live /\ statPass = None /\ question.pc = "none"
  BY DEF LatestInit, NoQuestion
<1>6. Earlier(live)
  BY <1>3, <1>4, <1>5 DEF Earlier, Corpus, SameTimeSameFile, Present
<1> QED BY <1>5, <1>6 DEF LatestInv

(* Questions outlive the passing of time. *)
LEMMA TimePasses ==
  ASSUME NEW now \in Nat, NEW later \in Nat, now <= later
  PROVE  /\ \A files : Corpus(files, now) => Corpus(files, later)
         /\ \A pass : PassOf(pass, now) => PassOf(pass, later)
         /\ \A a : Asking(a, now) => Asking(a, later)
<1>1. ASSUME NEW files, Corpus(files, now) PROVE Corpus(files, later)
  <2>1. ASSUME NEW f \in Present(files)
        PROVE  files[f].said <= files[f].at /\ files[f].at <= later
    <3>1. files[f] \in Docs /\ files[f].said <= files[f].at /\ files[f].at <= now
      BY <1>1 DEF Corpus, Present
    <3> QED BY <3>1 DEF Docs
  <2> QED BY <1>1, <2>1 DEF Corpus
<1>2. ASSUME NEW pass, PassOf(pass, now) PROVE PassOf(pass, later)
  <2>1. ASSUME NEW f \in Files PROVE pass[f] <= later
    <3>1. pass[f] \in Nat /\ pass[f] <= now
      BY <1>2 DEF PassOf
    <3> QED BY <3>1
  <2> QED BY <1>2, <2>1 DEF PassOf
<1>3. ASSUME NEW a, Asking(a, now) PROVE Asking(a, later)
  BY <1>1, <1>2, <1>3 DEF Asking
<1> QED BY <1>1, <1>2, <1>3

LEMMA StampIsOne ==
  ASSUME NEW idx, NEW pass \in [Files -> Nat]
  PROVE  StampOf(idx, pass) \in Stamps /\ StampOf(idx, pass).pass = pass
BY DEF StampOf, Stamps, Stale, Added, Changed, Removed

LEMMA TimesArePass ==
  ASSUME NEW now \in Nat, NEW files, Corpus(files, now)
  PROVE  PassOf(Times(files), now)
<1>1. ASSUME NEW f \in Files PROVE Times(files)[f] \in Nat /\ Times(files)[f] <= now
  <2>1. CASE files[f] = None
    BY <2>1 DEF Times
  <2>2. CASE files[f] # None
    BY <2>2 DEF Corpus, Present, Docs, Times
  <2> QED BY <2>1, <2>2
<1>2. Times(files) \in [Files -> Nat]
  BY <1>1 DEF Times
<1> QED BY <1>1, <1>2 DEF PassOf

LEMMA AskInv ==
  ASSUME LatestInv, NEW q \in (SUBSET Terms) \ {{}}, NEW want \in Wanted, Ask(q, want)
  PROVE  LatestInv' /\ question'.pc = "ranked"
<1>1. clock \in Nat /\ Corpus(live, clock) /\ Corpus(index, clock) /\ SameTimeSameFile(index, live)
  BY DEF LatestInv, Earlier
<1>2. ASSUME NEW idx, Corpus(idx, clock), SameTimeSameFile(idx, live), NEW pass, PassOf(pass, clock)
      PROVE  /\ Asking(Asked(q, want, idx, StampOf(idx, pass)), clock)
             /\ Asked(q, want, idx, StampOf(idx, pass)).pc = "ranked"
  <2> DEFINE a == Asked(q, want, idx, StampOf(idx, pass))
  <2>1. pass \in [Files -> Nat]
    BY <1>2 DEF PassOf
  <2>2. StampOf(idx, pass) \in Stamps /\ StampOf(idx, pass).pass = pass
    BY <2>1, StampIsOne
  <2>3. idx \in [Files -> Docs \cup {None}] /\ live \in [Files -> Docs \cup {None}]
    BY <1>1, <1>2 DEF Corpus
  <2>4. a \in Queries
    BY <2>2, <2>3 DEF Asked, Queries
  <2>5. a.idx = idx /\ a.then = live /\ a.stamp = StampOf(idx, pass) /\ a.pc = "ranked"
    BY DEF Asked
  <2> HIDE DEF a
  <2>6. Asking(a, clock)
    BY <1>1, <1>2, <2>2, <2>4, <2>5 DEF Asking
  <2> QED BY <2>5, <2>6 DEF a
<1> DEFINE pass == IF statPass = None THEN Times(live) ELSE statPass
<1>3. PassOf(pass, clock) /\ PassOf(Times(live), clock)
  BY <1>1, TimesArePass DEF LatestInv
<1> HIDE DEF pass
<1>4. SameTimeSameFile(live, live)
  BY DEF SameTimeSameFile
<1>5. clock' = clock /\ live' = live
  BY DEF Ask
<1>6. CASE statPass' = pass /\ question' = Asked(q, want, index, StampOf(index, pass)) /\ index' = index
  <2>1. Asking(question', clock) /\ question'.pc = "ranked"
    BY <1>1, <1>2, <1>3, <1>6
  <2> QED BY <1>3, <1>5, <1>6, <2>1 DEF LatestInv, Earlier
<1>7. CASE /\ index' = live /\ statPass' = None
           /\ question' = Asked(q, want, live, StampOf(live, Times(live)))
  <2>1. Asking(question', clock) /\ question'.pc = "ranked"
    BY <1>1, <1>2, <1>3, <1>4, <1>7
  <2> QED BY <1>5, <1>7, <2>1 DEF LatestInv, Earlier
<1> QED BY <1>6, <1>7 DEF Ask, pass

LEMMA AnswerInv ==
  ASSUME LatestInv, Answer
  PROVE  LatestInv' /\ LastWordIsLast' /\ AbsenceNamesTheUnread'
<1>1. PICK a : a = question
  OBVIOUS
<1>2. PICK now : now = clock
  OBVIOUS
<1>3. PICK r : r = Answered(a, live)
  OBVIOUS
<1>4. now \in Nat /\ Asking(a, now) /\ question' = r /\ live' = live
  BY <1>1, <1>2, <1>3 DEF LatestInv, Answer
<1>5. /\ r.pc = "answered" /\ r.q = a.q /\ r.want = a.want
      /\ r.idx = a.idx /\ r.stamp = a.stamp /\ r.then = a.then
  <2>1. a \in Queries
    BY <1>4 DEF Asking
  <2> QED BY <1>3, <2>1, AnswerSays
<1>6. LatestInv'
  BY <1>4, <1>5 DEF LatestInv, Earlier, Answer
<1>7. SeenAsIs(r) = SeenAsIs(a)
  BY <1>5 DEF SeenAsIs
<1>8. LastWordIsLast'
  <2>1. ASSUME r.claim = "last", r.supported, NEW f \in SeenAsIs(r) \ Summaries,
               Passes(f, r.want), r.q \subseteq Hay(f, r.then[f])
        PROVE  r.then[f].said <= r.top
    BY <1>3, <1>4, <1>5, <1>7, <2>1, NothingSeenIsLater
  <2> QED BY <1>4, <2>1 DEF LastWordIsLast
<1>9. AbsenceNamesTheUnread'
  <2>1. ASSUME NEW f \in SeenAsIs(r), live[f] = r.then[f], Passes(f, r.want),
               r.missing \cap live[f].text # {}
        PROVE  r.stamp.stale /\ (r.warned \/ r.cut \/ r.missing \cap live[f].text \subseteq r.found)
    BY <1>3, <1>4, <1>5, <1>7, <2>1, MissingIsFound
  <2>2. ASSUME NEW f \in SeenAsIs(r), live[f] = r.then[f], Passes(f, r.want),
               r.q \subseteq live[f].text, ~r.supported
        PROVE  r.stamp.stale
    BY <1>3, <1>4, <1>5, <1>7, <2>2, PremiseIsSupported
  <2> QED BY <1>4, <2>1, <2>2 DEF AbsenceNamesTheUnread
<1> QED BY <1>6, <1>8, <1>9

(* Who waits for no answer forgets the last one. *)
LEMMA Moved ==
  ASSUME MovesOn
  PROVE  /\ question'.pc # "answered"
         /\ question'.pc = "ranked" => question' = question /\ question.pc = "ranked"
BY DEF MovesOn, NoQuestion

LEMMA WriteInv ==
  ASSUME LatestInv, NEW f \in Files, Write(f)
  PROVE  LatestInv'
<1>1. PICK text \in SUBSET Terms, now \in {clock, clock + 1} : \E said \in 1..now :
        /\ Times(live)[f] # now
        /\ live' = [live EXCEPT ![f] = [text |-> text, at |-> now, said |-> said]]
        /\ clock' = now
  BY DEF Write
<1>2. PICK said \in 1..now :
        /\ Times(live)[f] # now
        /\ live' = [live EXCEPT ![f] = [text |-> text, at |-> now, said |-> said]]
        /\ clock' = now
  BY <1>1
<1>3. clock \in Nat /\ now \in Nat /\ clock <= now
  BY DEF LatestInv
<1>4. PICK new : new = [text |-> text, at |-> now, said |-> said]
  OBVIOUS
<1>5. new \in Docs /\ new.at = now /\ new.said <= now /\ now # 0
  BY <1>3, <1>4 DEF Docs
<1>6. live \in [Files -> Docs \cup {None}]
  BY DEF LatestInv, Earlier, Corpus
<1>7. /\ live' \in [Files -> Docs \cup {None}]
      /\ live'[f] = new
      /\ \A g \in Files \ {f} : live'[g] = live[g]
  BY <1>2, <1>4, <1>5, <1>6
<1>8. live[f] # None => live[f].at # now
  BY <1>2 DEF Times
<1>9. Corpus(live', now)
  <2>1. Corpus(live, now)
    BY <1>3, TimePasses DEF LatestInv, Earlier
  <2>2. ASSUME NEW g \in Present(live') PROVE live'[g].said <= live'[g].at /\ live'[g].at <= now
    BY <1>3, <1>5, <1>7, <2>1 DEF Corpus, Present
  <2> QED BY <1>7, <2>2 DEF Corpus
(* What was earlier than the corpus was earlier than the new file. *)
<1>10. ASSUME NEW old, Earlier(old)
       PROVE  /\ Corpus(old, now)
              /\ SameTimeSameFile(old, live')
              /\ \A g \in Present(old) : IF live'[g] = None THEN old[g].at < now
                                         ELSE old[g].at <= live'[g].at
  <2>1. Corpus(old, now) /\ Corpus(old, clock)
    BY <1>3, <1>10, TimePasses DEF Earlier
  <2>2. ASSUME f \in Present(old) PROVE old[f].at < now
    <3>1. old[f] \in Docs /\ old[f].at \in Nat /\ old[f].at <= clock
      BY <2>1, <2>2 DEF Corpus, Present, Docs
    <3>2. CASE live[f] = None
      BY <1>3, <1>10, <2>2, <3>1, <3>2 DEF Earlier
    <3>3. CASE live[f] # None
      <4>1. old[f].at <= live[f].at /\ live[f].at <= clock /\ live[f].at \in Nat
        BY <1>6, <1>10, <2>2, <3>3 DEF Earlier, LatestInv, Corpus, Present, Docs
      <4> QED BY <1>3, <1>8, <3>1, <3>3, <4>1
    <3> QED BY <3>2, <3>3
  <2>3. SameTimeSameFile(old, live')
    <3>1. ASSUME NEW g \in Present(old) \cap Present(live'), old[g].at = live'[g].at
          PROVE  old[g] = live'[g]
      <4>1. CASE g = f
        <5>1. old[f].at \in Nat
          BY <2>1, <3>1, <4>1 DEF Corpus, Present, Docs
        <5> QED BY <1>3, <1>5, <1>7, <2>2, <3>1, <4>1, <5>1
      <4>2. CASE g # f
        BY <1>7, <1>10, <3>1, <4>2 DEF Earlier, SameTimeSameFile, Present
      <4> QED BY <4>1, <4>2
    <3> QED BY <3>1 DEF SameTimeSameFile
  <2>4. ASSUME NEW g \in Present(old)
        PROVE  IF live'[g] = None THEN old[g].at < now ELSE old[g].at <= live'[g].at
    <3>1. old[g].at \in Nat /\ g \in Files
      BY <2>1 DEF Corpus, Present, Docs
    <3>2. CASE g = f
      BY <1>3, <1>5, <1>7, <2>2, <3>1, <3>2
    <3>3. CASE g # f
      BY <1>3, <1>7, <1>10, <3>1, <3>3 DEF Earlier
    <3> QED BY <3>2, <3>3
  <2> QED BY <2>1, <2>3, <2>4
<1>11. Earlier(live)'
  <2>1. SameTimeSameFile(live', live')
    BY DEF SameTimeSameFile
  <2>2. \A g \in Present(live') : live'[g].at <= live'[g].at
    BY <1>7 DEF Present, Docs
  <2> QED BY <1>2, <1>9, <2>1, <2>2 DEF Earlier, Present
<1>12. Earlier(index)'
  BY <1>2, <1>10 DEF Earlier, LatestInv, Write
<1>13. (statPass # None)' => PassOf(statPass, clock)'
  <2>1. statPass' = statPass
    BY DEF Write
  <2> QED BY <1>2, <1>3, <2>1, TimePasses DEF LatestInv
<1>14. (question.pc = "ranked")' => Asking(question, clock)'
  BY <1>2, <1>3, TimePasses, Moved DEF LatestInv, Write
<1> QED BY <1>2, <1>3, <1>11, <1>12, <1>13, <1>14 DEF LatestInv

LEMMA DeleteInv ==
  ASSUME LatestInv, NEW f \in Files, Delete(f)
  PROVE  LatestInv'
<1>1. /\ live' = [live EXCEPT ![f] = None] /\ clock' = clock + 1
      /\ index' = index /\ statPass' = statPass /\ MovesOn
  BY DEF Delete
<1>2. PICK now : now = clock + 1
  OBVIOUS
<1>3. clock \in Nat /\ now \in Nat /\ clock < now /\ clock' = now
  BY <1>1, <1>2 DEF LatestInv
<1>4. live \in [Files -> Docs \cup {None}]
  BY DEF LatestInv, Earlier, Corpus
<1>5. /\ live' \in [Files -> Docs \cup {None}]
      /\ live'[f] = None
      /\ \A g \in Files \ {f} : live'[g] = live[g]
  BY <1>1, <1>4
<1>6. Corpus(live', now)
  <2>1. Corpus(live, now)
    BY <1>3, TimePasses DEF LatestInv, Earlier
  <2> QED BY <1>5, <2>1 DEF Corpus, Present
<1>7. ASSUME NEW old, Earlier(old)
      PROVE  /\ Corpus(old, now)
             /\ SameTimeSameFile(old, live')
             /\ \A g \in Present(old) : IF live'[g] = None THEN old[g].at < now
                                        ELSE old[g].at <= live'[g].at
  <2>1. Corpus(old, now) /\ Corpus(old, clock)
    BY <1>3, <1>7, TimePasses DEF Earlier
  <2>2. SameTimeSameFile(old, live')
    BY <1>5, <1>7 DEF Earlier, SameTimeSameFile, Present
  <2>3. ASSUME NEW g \in Present(old)
        PROVE  IF live'[g] = None THEN old[g].at < now ELSE old[g].at <= live'[g].at
    <3>1. old[g].at \in Nat /\ old[g].at <= clock /\ g \in Files
      BY <2>1 DEF Corpus, Present, Docs
    <3>2. old[g].at < now
      BY <1>3, <3>1
    <3>3. CASE g = f
      BY <1>5, <3>2, <3>3
    <3>4. CASE g # f
      BY <1>5, <1>7, <3>1, <3>2, <3>4 DEF Earlier
    <3> QED BY <3>3, <3>4
  <2> QED BY <2>1, <2>2, <2>3
<1>8. Earlier(live)'
  <2>1. SameTimeSameFile(live', live')
    BY DEF SameTimeSameFile
  <2>2. \A g \in Present(live') : live'[g].at <= live'[g].at
    BY <1>5 DEF Present, Docs
  <2> QED BY <1>3, <1>6, <2>1, <2>2 DEF Earlier, Present
<1>9. Earlier(index)'
  BY <1>1, <1>3, <1>7 DEF Earlier, LatestInv
<1>10. (statPass # None)' => PassOf(statPass, clock)'
  BY <1>1, <1>3, TimePasses DEF LatestInv
<1>11. (question.pc = "ranked")' => Asking(question, clock)'
  BY <1>1, <1>3, TimePasses, Moved DEF LatestInv
<1> QED BY <1>3, <1>8, <1>9, <1>10, <1>11 DEF LatestInv

LEMMA RebuildInv ==
  ASSUME LatestInv, Rebuild PROVE LatestInv'
<1>1. live' = live /\ clock' = clock /\ statPass' = statPass /\ index' = live /\ MovesOn
  BY DEF Rebuild
<1> QED BY <1>1, Moved DEF LatestInv, Earlier

LEMMA ExpireInv ==
  ASSUME LatestInv, Expire PROVE LatestInv'
<1>1. live' = live /\ clock' = clock /\ statPass' = None /\ index' = index /\ MovesOn
  BY DEF Expire
<1> QED BY <1>1, Moved DEF LatestInv, Earlier

(* Only Answer leaves an answer. *)
LEMMA LatestNextInv ==
  ASSUME LatestInv, LatestNext
  PROVE  LatestInv' /\ LastWordIsLast' /\ AbsenceNamesTheUnread'
<1>1. question'.pc # "answered" => LastWordIsLast' /\ AbsenceNamesTheUnread'
  BY DEF LastWordIsLast, AbsenceNamesTheUnread
<1>2. ASSUME NEW q \in (SUBSET Terms) \ {{}}, NEW want \in Wanted, Ask(q, want)
      PROVE  LatestInv' /\ LastWordIsLast' /\ AbsenceNamesTheUnread'
  BY <1>1, <1>2, AskInv
<1>3. CASE Answer
  BY <1>3, AnswerInv
<1>4. ASSUME NEW f \in Files, Write(f)
      PROVE  LatestInv' /\ LastWordIsLast' /\ AbsenceNamesTheUnread'
  BY <1>1, <1>4, WriteInv, Moved DEF Write
<1>5. ASSUME NEW f \in Files, Delete(f)
      PROVE  LatestInv' /\ LastWordIsLast' /\ AbsenceNamesTheUnread'
  BY <1>1, <1>5, DeleteInv, Moved DEF Delete
<1>6. CASE Rebuild
  BY <1>1, <1>6, RebuildInv, Moved DEF Rebuild
<1>7. CASE Expire
  BY <1>1, <1>7, ExpireInv, Moved DEF Expire
<1> QED BY <1>2, <1>3, <1>4, <1>5, <1>6, <1>7 DEF LatestNext

(* The index and the stat pass are of the past of the corpus, and a question *)
(* under way knows of a file what it had then or that it is unread; hence    *)
(* what an answer claims is so (search.js 1957-2338).                        *)
THEOREM LatestInvariant == LatestSpec => [](LatestInv /\ LastWordIsLast /\ AbsenceNamesTheUnread)
<1>1. LatestInit => LatestInv /\ LastWordIsLast /\ AbsenceNamesTheUnread
  BY LatestInitInv DEF LastWordIsLast, AbsenceNamesTheUnread
<1>2. /\ LatestInv /\ LastWordIsLast /\ AbsenceNamesTheUnread
      /\ [LatestNext]_latestVars
      => (LatestInv /\ LastWordIsLast /\ AbsenceNamesTheUnread)'
  <2> SUFFICES ASSUME LatestInv, LastWordIsLast, AbsenceNamesTheUnread, [LatestNext]_latestVars
               PROVE  (LatestInv /\ LastWordIsLast /\ AbsenceNamesTheUnread)'
    OBVIOUS
  <2>1. CASE LatestNext
    BY <2>1, LatestNextInv
  <2>2. CASE UNCHANGED latestVars
    BY <2>2 DEF latestVars, LatestInv, Earlier, LastWordIsLast, AbsenceNamesTheUnread
  <2> QED BY <2>1, <2>2
<1> QED BY <1>1, <1>2, PTL DEF LatestSpec

(* The first row is called the last thing said only if no first-hand file    *)
(* that the stat pass has seen as it was speaks of a later time, read or     *)
(* unread (search.js 2232-2262).                                             *)
THEOREM LastWordHolds == LatestSpec => []LastWordIsLast
BY LatestInvariant, PTL

(* No term and no premise in an unread file is called absent without a sign  *)
(* that the index is stale and where to look (search.js 1636-1739).          *)
THEOREM AbsenceIsNamed == LatestSpec => []AbsenceNamesTheUnread
BY LatestInvariant, PTL

-----------------------------------------------------------------------------
(* The questions together. *)

(* A question of the last word is one of Latest, a question to git one of    *)
(* Evidence, and neither is disturbed by the other or by a search.           *)
THEOREM AnswersAreAsked == AnswersSpec => LatestSpec /\ EvidenceSpec
<1>1. AnswersInit => LatestInit /\ EvidenceInit
  BY DEF AnswersInit
<1>2. [AnswersNext]_answersVars => [LatestNext]_latestVars /\ [EvidenceNext]_evidenceVars
  BY DEF AnswersNext, answersVars
<1> QED BY <1>1, <1>2, PTL DEF AnswersSpec, LatestSpec, EvidenceSpec

(* All that is claimed in the last word and of git is so in a server that    *)
(* answers questions of every kind (search.js 1957-2338, git-join.js).       *)
THEOREM AnswersAreHonest ==
  AnswersSpec => [](LastWordIsLast /\ AbsenceNamesTheUnread /\ FirstRepoWins /\ AbsentEverywhere)
BY AnswersAreAsked, LatestInvariant, AbsenceIsEverywhere, FirstRepoIsNamed, PTL

(* A search is one of the cases. *)
LEMMA CaseIsGiven == AnswersSpec => [](case = None \/ case \in Cases)
<1>1. AnswersInit => case = None \/ case \in Cases
  BY DEF AnswersInit
<1>2. (case = None \/ case \in Cases) /\ [AnswersNext]_answersVars => (case = None \/ case \in Cases)'
  BY DEF AnswersNext, answersVars
<1> QED BY <1>1, <1>2, PTL DEF AnswersSpec

-----------------------------------------------------------------------------
(* The order of a conversation. An exchange has a name and an ask of its own, *)
(* and the days of those that have a time go on with the conversation.        *)
Conversation(session) ==
  /\ IsFiniteSet(session)
  /\ \A e \in session : {e.asked, e.day, e.hash, e.at} \subseteq Int /\ {e.timed, e.legacy} \subseteq BOOLEAN
  /\ \A e, f \in session : e # f => e.asked # f.asked /\ e.hash # f.hash
  /\ \A e, f \in session : e.timed /\ f.timed /\ e.asked < f.asked => e.day <= f.day

(* The names of a conversation are in a strict order. *)
LEMMA NamesAreOrdered ==
  ASSUME NEW session, Conversation(session)
  PROVE  OrderOf({p \in session \X session : ComesBefore(session, p[1], p[2])}, session)
<1> DEFINE R == {p \in session \X session : ComesBefore(session, p[1], p[2])}
<1>1. \A e, f \in session : <<e, f>> \in R <=> ComesBefore(session, e, f)
  OBVIOUS
<1> HIDE DEF R
<1>2. \A e \in session : /\ e.asked \in Int /\ e.day \in Int /\ e.hash \in Int
                         /\ e.timed \in BOOLEAN /\ e.legacy \in BOOLEAN
  BY DEF Conversation
<1>3. \A e, f \in session : e # f => e.asked # f.asked /\ e.hash # f.hash
  BY DEF Conversation
<1>4. CASE Mixed(session) /\ AllTimed(session)
  <2>1. \A e, f \in session : <<e, f>> \in R <=> e.asked < f.asked
    BY <1>1, <1>4 DEF ComesBefore
  <2> QED BY <1>2, <1>3, <2>1 DEF OrderOf, R
<1>5. CASE ~(Mixed(session) /\ AllTimed(session))
  <2>1. \A e, f \in session : <<e, f>> \in R <=> SuffixBefore(e, f)
    BY <1>1, <1>5 DEF ComesBefore
  <2>2. ASSUME NEW e \in session PROVE ~SuffixBefore(e, e)
    BY <1>2 DEF SuffixBefore
  <2>3. ASSUME NEW e \in session, NEW f \in session, e # f PROVE SuffixBefore(e, f) \/ SuffixBefore(f, e)
    BY <1>2, <1>3, <2>3 DEF SuffixBefore
  <2>4. ASSUME NEW e \in session, NEW f \in session, NEW g \in session,
               SuffixBefore(e, f), SuffixBefore(f, g)
        PROVE  SuffixBefore(e, g)
    BY <1>2, <2>4 DEF SuffixBefore
  <2> QED BY <2>1, <2>2, <2>3, <2>4 DEF OrderOf, R
<1> QED BY <1>4, <1>5 DEF R

(* A thread has its exchanges one before the other. *)
LEMMA ThreadIsOrdered ==
  ASSUME NEW session, Conversation(session)
  PROVE  LET thread == ThreadOf(session)
         IN /\ Cardinality(session) \in Nat
            /\ thread \in [1..Cardinality(session) -> session]
            /\ \A i, j \in DOMAIN thread : i < j => ComesBefore(session, thread[i], thread[j])
<1> DEFINE R == {p \in session \X session : ComesBefore(session, p[1], p[2])}
<1>1. IsFiniteSet(session) /\ OrderOf(R, session)
  BY NamesAreOrdered DEF Conversation
<1>2. \A e, f \in session : <<e, f>> \in R => ComesBefore(session, e, f)
  OBVIOUS
<1>3. ThreadOf(session) = Listed(session, R)
  BY DEF ThreadOf
<1> HIDE DEF R
<1>4. PICK thread : thread = Listed(session, R)
  OBVIOUS
<1>5. /\ Cardinality(session) \in Nat
      /\ thread \in [1..Cardinality(session) -> session]
      /\ \A i, j \in 1..Cardinality(session) : <<thread[i], thread[j]>> \in R <=> i < j
  BY <1>1, <1>4, ListedIs
<1>6. \A i, j \in 1..Cardinality(session) : i < j => ComesBefore(session, thread[i], thread[j])
  BY <1>2, <1>5
<1> QED BY <1>3, <1>4, <1>5, <1>6

LEMMA TimedAreInOrder ==
  ASSUME NEW session, Conversation(session), AllTimed(session) \/ ~Mixed(session),
         NEW e \in session, NEW f \in session, e.timed, f.timed, ComesBefore(session, e, f)
  PROVE  e.asked < f.asked
<1>1. /\ e.asked \in Int /\ e.day \in Int /\ f.asked \in Int /\ f.day \in Int
      /\ e.timed \in BOOLEAN /\ e.legacy \in BOOLEAN /\ f.timed \in BOOLEAN /\ f.legacy \in BOOLEAN
  BY DEF Conversation
<1>2. CASE Mixed(session)
  BY <1>2 DEF ComesBefore
<1>3. CASE ~Mixed(session)
  <2>1. e.legacy <=> f.legacy
    BY <1>1, <1>3 DEF Mixed
  <2>2. SuffixBefore(e, f)
    BY <1>3 DEF ComesBefore
  <2>3. CASE e.asked < f.asked
    BY <2>3
  <2>4. CASE ~(e.asked < f.asked)
    <3>1. e.day < f.day
      BY <1>1, <2>1, <2>2, <2>4 DEF SuffixBefore
    <3>2. e.asked # f.asked
      BY <1>1, <3>1 DEF Conversation
    <3>3. f.day <= e.day
      BY <1>1, <2>4, <3>2 DEF Conversation
    <3> QED BY <1>1, <3>1, <3>3
  <2> QED BY <2>3, <2>4
<1> QED BY <1>2, <1>3

-----------------------------------------------------------------------------
(* Around an exchange. *)

TimesAre(repos) == \A r \in DOMAIN repos : repos[r] \subseteq Int

LEMMA LargerOfTwo ==
  ASSUME NEW m \in Int, NEW n \in Int
  PROVE  /\ Max({m, n}) = IF m < n THEN n ELSE m
         /\ Min({m, n}) = IF m < n THEN m ELSE n
<1>1. (IF m < n THEN n ELSE m) \in {m, n} /\ \A k \in {m, n} : (IF m < n THEN n ELSE m) >= k
  OBVIOUS
<1>2. (IF m < n THEN m ELSE n) \in {m, n} /\ \A k \in {m, n} : (IF m < n THEN m ELSE n) <= k
  OBVIOUS
<1>3. Max({m, n}) \in {m, n} /\ \A k \in {m, n} : Max({m, n}) >= k
  BY <1>1 DEF Max
<1>4. Min({m, n}) \in {m, n} /\ \A k \in {m, n} : Min({m, n}) <= k
  BY <1>2 DEF Min
<1> QED BY <1>3, <1>4

(* A commit between two times is in the answer for a range, or it is one of  *)
(* those that are left out of it.                                            *)
LEMMA CommitIsInRange ==
  ASSUME NEW repos, TimesAre(repos), NEW broken, NEW r \in DOMAIN repos, NEW c \in repos[r],
         NEW since \in Int, NEW until \in Int, since <= c, c <= until, since < until
  PROVE  c \in CommitsInRange(repos, broken, since, until) \/ c \in Unlisted(repos, broken, since, until)
<1> DEFINE range(q) == {d \in repos[q] : since <= d /\ d <= until}
           last(q) == {d \in range(q) : Cardinality({e \in range(q) : e > d}) < MaxCommits}
           out(q) == {d \in repos[q] : /\ since <= d /\ d <= until
                                      /\ \/ <<q, since, until>> \in broken
                                         \/ ~(Cardinality({e \in repos[q] : d < e /\ e <= until}) < MaxCommits)}
<1>1. CommitsInRange(repos, broken, since, until) =
        UNION {last(q) : q \in {q \in DOMAIN repos : <<q, since, until>> \notin broken}}
  <2>1. ~(until <= since)
    OBVIOUS
  <2> QED BY <2>1, Zenon DEF CommitsInRange
<1>2. Unlisted(repos, broken, since, until) = UNION {out(q) : q \in DOMAIN repos}
  BY Zenon DEF Unlisted
<1>3. {e \in range(r) : e > c} = {e \in repos[r] : c < e /\ e <= until}
  BY DEF TimesAre
<1>4. CASE <<r, since, until>> \in broken \/ ~(Cardinality({e \in repos[r] : c < e /\ e <= until}) < MaxCommits)
  <2>1. c \in out(r)
    BY <1>4
  <2> HIDE DEF out
  <2> QED BY <1>2, <2>1
<1>5. CASE /\ <<r, since, until>> \notin broken
           /\ Cardinality({e \in repos[r] : c < e /\ e <= until}) < MaxCommits
  <2>1. Cardinality({e \in range(r) : e > c}) < MaxCommits
    BY <1>3, <1>5
  <2>2. c \in range(r)
    OBVIOUS
  <2> HIDE DEF range
  <2>3. c \in last(r)
    BY <2>1, <2>2
  <2> HIDE DEF last
  <2> QED BY <1>1, <1>5, <2>3
<1> QED BY <1>4, <1>5

(* What is shown of a thread from one place to another. *)
Stretch(thread, p, from, to, repos, broken) ==
  [refused |-> FALSE,
   rows |-> [k \in 1..(to - from) |-> [exchange |-> thread[from + k], offset |-> from + k - p]],
   last |-> to, remaining |-> Len(thread) - to,
   landed |-> CommitsInRange(repos, broken, thread[from + 1].at, thread[to].at)]

(* What an answer about a thread shows, and what reading on from it adds. *)
ReadsOn(thread, p, back, forward, repos, broken) ==
  LET answer == ThreadAround(thread, p, back, forward, repos, broken)
      next == ThreadAround(thread, answer.last, 0, forward, repos, broken)
      shown(a) == [k \in DOMAIN a.rows |-> a.rows[k].exchange]
  IN /\ ~answer.refused
     /\ \E k \in DOMAIN answer.rows : answer.rows[k] = [exchange |-> thread[p], offset |-> 0]
     /\ answer.remaining + (answer.last - p) = LaterInThread(Len(thread), p)
     /\ shown(answer) \o Tail(shown(next)) =
          SubSeq(thread, p + answer.rows[1].offset, next.last)
     /\ \A r \in DOMAIN repos : \A c \in repos[r] :
          thread[p + answer.rows[1].offset].at < c /\ c < thread[next.last].at =>
            c \in answer.landed \cup next.landed
                  \cup Unlisted(repos, broken, thread[p + answer.rows[1].offset].at, thread[answer.last].at)
                  \cup Unlisted(repos, broken, thread[answer.last].at, thread[next.last].at)

(* Reading on from the end of what is shown. *)
LEMMA ReadingOn ==
  ASSUME NEW session, Conversation(session), NEW repos, TimesAre(repos), NEW broken,
         NEW n \in Nat, NEW thread \in [1..n -> session], NEW p \in 1..n,
         NEW back \in Nat, NEW forward \in Nat
  PROVE  ReadsOn(thread, p, back, forward, repos, broken)
<1> DEFINE answer == ThreadAround(thread, p, back, forward, repos, broken)
           next == ThreadAround(thread, answer.last, 0, forward, repos, broken)
           shown(a) == [k \in DOMAIN a.rows |-> a.rows[k].exchange]
<1>0. Len(thread) = n
  OBVIOUS
<1>1. PICK from \in 0..(p - 1), to \in p..n :
        from = Max({0, p - 1 - back}) /\ to = Min({Len(thread), p + forward})
  <2>1. p - 1 - back \in Int /\ p + forward \in Int /\ 0 \in Int /\ n \in Int
    OBVIOUS
  <2>2. Max({0, p - 1 - back}) = IF 0 < p - 1 - back THEN p - 1 - back ELSE 0
    BY <2>1, LargerOfTwo
  <2>3. Min({Len(thread), p + forward}) = IF n < p + forward THEN n ELSE p + forward
    BY <1>0, <2>1, LargerOfTwo
  <2> QED BY <2>2, <2>3
<1>2. to \in 1..n /\ from \in Nat /\ to - from \in Nat \ {0}
  OBVIOUS
<1>3. /\ ~answer.refused /\ answer.last = to /\ answer.remaining = n - to
      /\ answer.rows = [k \in 1..(to - from) |-> [exchange |-> thread[from + k], offset |-> from + k - p]]
      /\ answer.landed = CommitsInRange(repos, broken, thread[from + 1].at, thread[to].at)
  <2>1. answer = Stretch(thread, p, from, to, repos, broken)
    <3>1. ~(back < 0 \/ forward < 0)
      OBVIOUS
    <3>2. answer = Stretch(thread, p, Max({0, p - 1 - back}), Min({Len(thread), p + forward}), repos, broken)
      BY <3>1 DEF ThreadAround, Stretch
    <3> QED BY <1>1, <3>2
  <2> HIDE DEF answer
  <2> QED BY <1>0, <2>1 DEF Stretch
<1>4. PICK end \in to..n :
        /\ next.last = end
        /\ next.rows = [k \in 1..(end - (to - 1)) |->
                          [exchange |-> thread[to - 1 + k], offset |-> to - 1 + k - to]]
        /\ next.landed = CommitsInRange(repos, broken, thread[to - 1 + 1].at, thread[end].at)
  <2>1. PICK end \in to..n : end = Min({Len(thread), to + forward})
    <3>1. to + forward \in Int /\ n \in Int
      BY <1>2
    <3>2. Min({Len(thread), to + forward}) = IF n < to + forward THEN n ELSE to + forward
      BY <1>0, <3>1, LargerOfTwo
    <3> QED BY <1>2, <3>2
  <2>2. to - 1 = Max({0, to - 1 - 0})
    <3>1. to - 1 - 0 \in Int /\ 0 \in Int
      BY <1>2
    <3>2. Max({0, to - 1 - 0}) = IF 0 < to - 1 - 0 THEN to - 1 - 0 ELSE 0
      BY <3>1, LargerOfTwo
    <3> QED BY <1>2, <3>2
  <2>3. next = ThreadAround(thread, to, 0, forward, repos, broken)
    BY <1>3
  <2> HIDE DEF next
  <2>4. /\ next.last = end
        /\ next.rows = [k \in 1..(end - (to - 1)) |->
                          [exchange |-> thread[to - 1 + k], offset |-> to - 1 + k - to]]
        /\ next.landed = CommitsInRange(repos, broken, thread[to - 1 + 1].at, thread[end].at)
    <3>1. ~(0 < 0 \/ forward < 0)
      OBVIOUS
    <3>2. next = Stretch(thread, to, Max({0, to - 1 - 0}), Min({Len(thread), to + forward}), repos, broken)
      BY <2>3, <3>1 DEF ThreadAround, Stretch
    <3>3. next = Stretch(thread, to, to - 1, end, repos, broken)
      BY <2>1, <2>2, <3>2
    <3> QED BY <3>3 DEF Stretch
  <2> QED BY <2>4
<1> HIDE DEF answer, next
<1>5. ~answer.refused
  BY <1>3
<1>6. \E k \in DOMAIN answer.rows : answer.rows[k] = [exchange |-> thread[p], offset |-> 0]
  <2>1. PICK k \in 1..(to - from) : from + k = p /\ from + k - p = 0
    <3>1. p - from \in 1..(to - from) /\ from + (p - from) = p /\ from + (p - from) - p = 0
      OBVIOUS
    <3> QED BY <3>1
  <2>2. answer.rows[k] = [exchange |-> thread[from + k], offset |-> from + k - p]
    BY <1>3
  <2>3. answer.rows[k] = [exchange |-> thread[p], offset |-> 0]
    BY <2>1, <2>2
  <2>4. k \in DOMAIN answer.rows
    BY <1>3
  <2> QED BY <2>3, <2>4
<1>7. answer.remaining + (answer.last - p) = LaterInThread(Len(thread), p)
  BY <1>3 DEF LaterInThread
<1>8. p + answer.rows[1].offset = from + 1
  BY <1>2, <1>3
<1>9. shown(answer) = [k \in 1..(to - from) |-> thread[from + k]]
  BY <1>3
<1>10. shown(next) = [k \in 1..(end - (to - 1)) |-> thread[to - 1 + k]]
  BY <1>4
<1>11. \A k \in 1..n : thread[k] \in session
  OBVIOUS
<1>12. shown(answer) \o Tail(shown(next)) = SubSeq(thread, from + 1, end)
  <2> DEFINE A == [k \in 1..(to - from) |-> thread[from + k]]
             B == [k \in 1..(end - (to - 1)) |-> thread[to - 1 + k]]
             T == [k \in 1..(end - to) |-> thread[to + k]]
             C == [k \in 1..(end - from) |-> thread[from + k]]
  <2>1. A \in Seq(session) /\ Len(A) = to - from
    BY <1>2, <1>11
  <2>2. Tail(B) = T
    <3>1. B \in Seq(session) /\ Len(B) = end - (to - 1) /\ B # <<>>
      BY <1>2, <1>11
    <3>2. Tail(B) = [k \in 1..(Len(B) - 1) |-> B[k + 1]]
      BY <3>1
    <3>3. Len(B) - 1 = end - to
      BY <1>2, <3>1
    <3>4. \A k \in 1..(end - to) : B[k + 1] = thread[to + k]
      BY <1>2
    <3> HIDE DEF B
    <3> QED BY <3>2, <3>3, <3>4
  <2>3. T \in Seq(session) /\ Len(T) = end - to
    BY <1>2, <1>11
  <2>4. A \o T = C
    <3>1. A \o T = [k \in 1..(Len(A) + Len(T)) |-> IF k <= Len(A) THEN A[k] ELSE T[k - Len(A)]]
      BY <2>1, <2>3
    <3>2. (to - from) + (end - to) = end - from
      BY <1>2
    <3>3. \A k \in 1..(end - from) :
            (IF k <= to - from THEN A[k] ELSE T[k - (to - from)]) = thread[from + k]
      BY <1>2
    <3> HIDE DEF A, T
    <3> QED BY <2>1, <2>3, <3>1, <3>2, <3>3
  <2>5. SubSeq(thread, from + 1, end) = C
    BY <1>2
  <2> QED BY <1>9, <1>10, <2>2, <2>4, <2>5
<1>13. ASSUME NEW r \in DOMAIN repos, NEW c \in repos[r], thread[from + 1].at < c, c < thread[end].at
       PROVE  c \in answer.landed \cup next.landed
                    \cup Unlisted(repos, broken, thread[from + 1].at, thread[to].at)
                    \cup Unlisted(repos, broken, thread[to].at, thread[end].at)
  <2>1. c \in Int
    BY DEF TimesAre
  <2>2. thread[from + 1].at \in Int /\ thread[to].at \in Int /\ thread[end].at \in Int
    <3>1. from + 1 \in 1..n /\ to \in 1..n /\ end \in 1..n
      BY <1>2
    <3> QED BY <3>1, <1>11 DEF Conversation
  <2>3. CASE c <= thread[to].at
    <3>1. thread[from + 1].at <= c /\ thread[from + 1].at < thread[to].at
      BY <1>13, <2>1, <2>2, <2>3
    <3>2. \/ c \in CommitsInRange(repos, broken, thread[from + 1].at, thread[to].at)
          \/ c \in Unlisted(repos, broken, thread[from + 1].at, thread[to].at)
      BY <2>2, <2>3, <3>1, CommitIsInRange
    <3> QED BY <1>3, <3>2
  <2>4. CASE ~(c <= thread[to].at)
    <3>1. thread[to].at <= c /\ c <= thread[end].at /\ thread[to].at < thread[end].at
      BY <1>13, <2>1, <2>2, <2>4
    <3>2. \/ c \in CommitsInRange(repos, broken, thread[to].at, thread[end].at)
          \/ c \in Unlisted(repos, broken, thread[to].at, thread[end].at)
      BY <2>2, <3>1, CommitIsInRange
    <3>3. to - 1 + 1 = to
      BY <1>2
    <3>4. next.landed = CommitsInRange(repos, broken, thread[to].at, thread[end].at)
      BY <1>4, <3>3
    <3> QED BY <3>2, <3>4
  <2> QED BY <2>3, <2>4
<1> QED BY <1>3, <1>4, <1>5, <1>6, <1>7, <1>8, <1>12, <1>13 DEF answer, next, ReadsOn

(* In a conversation of any length, exchanges with a time are in the order   *)
(* in which they were asked. Reading on from what is shown skips no exchange *)
(* and, whatever the repositories hold and whichever of them failed, only    *)
(* those commits that the answer for a stretch leaves out: of a repository   *)
(* that failed, or behind too many later ones (search.js 91-113, 2341-2448,  *)
(* git-join.js 388-416).                                                     *)
THEOREM ConversationsRunForward ==
  ASSUME \A c \in Cases : c.kind = "session" => Conversation(c.session) /\ TimesAre(c.repos)
  PROVE  AnswersSpec => []ThreadsRunForward
<1>1. ASSUME NEW session, Conversation(session), NEW repos, TimesAre(repos), NEW broken,
             NEW thread, thread = ThreadOf(session)
      PROVE  /\ AllTimed(session) \/ ~Mixed(session) =>
                  \A i, j \in DOMAIN thread : i < j /\ thread[i].timed /\ thread[j].timed =>
                                                thread[i].asked < thread[j].asked
             /\ \A p \in DOMAIN thread, back, forward \in -1..2 :
                  LET answer == ThreadAround(thread, p, back, forward, repos, broken)
                      next == ThreadAround(thread, answer.last, 0, forward, repos, broken)
                      shown(a) == [k \in DOMAIN a.rows |-> a.rows[k].exchange]
                      begin == thread[p + answer.rows[1].offset].at
                      middle == thread[answer.last].at
                      end == thread[next.last].at
                  IN IF answer.refused THEN back < 0 \/ forward < 0
                     ELSE /\ \E k \in DOMAIN answer.rows : answer.rows[k] = [exchange |-> thread[p], offset |-> 0]
                          /\ answer.remaining + (answer.last - p) = LaterInThread(Len(thread), p)
                          /\ shown(answer) \o Tail(shown(next)) =
                               SubSeq(thread, p + answer.rows[1].offset, next.last)
                          /\ AllTimed(session) =>
                               \A r \in DOMAIN repos : \A c \in repos[r] :
                                 begin < c /\ c < end =>
                                   c \in answer.landed \cup next.landed
                                         \cup Unlisted(repos, broken, begin, middle)
                                         \cup Unlisted(repos, broken, middle, end)
  <2>1. PICK n \in Nat : /\ thread \in [1..n -> session]
                         /\ \A i, j \in DOMAIN thread : i < j => ComesBefore(session, thread[i], thread[j])
    BY <1>1, ThreadIsOrdered
  <2>2. ASSUME AllTimed(session) \/ ~Mixed(session), NEW i \in DOMAIN thread, NEW j \in DOMAIN thread,
               i < j, thread[i].timed, thread[j].timed
        PROVE  thread[i].asked < thread[j].asked
    <3>1. thread[i] \in session /\ thread[j] \in session /\ ComesBefore(session, thread[i], thread[j])
      BY <2>1, <2>2
    <3> QED BY <1>1, <2>2, <3>1, TimedAreInOrder
  <2>3. ASSUME NEW p \in DOMAIN thread, NEW back \in -1..2, NEW forward \in -1..2, back < 0 \/ forward < 0
        PROVE  ThreadAround(thread, p, back, forward, repos, broken).refused
    BY <2>3 DEF ThreadAround
  <2>4. ASSUME NEW p \in DOMAIN thread, NEW back \in -1..2, NEW forward \in -1..2,
               ~(back < 0 \/ forward < 0)
        PROVE  p \in 1..n /\ back \in Nat /\ forward \in Nat
    BY <2>1, <2>4
  <2>5. ASSUME NEW p \in DOMAIN thread, NEW back \in -1..2, NEW forward \in -1..2
        PROVE
         LET answer == ThreadAround(thread, p, back, forward, repos, broken)
             next == ThreadAround(thread, answer.last, 0, forward, repos, broken)
             shown(a) == [k \in DOMAIN a.rows |-> a.rows[k].exchange]
             begin == thread[p + answer.rows[1].offset].at
             middle == thread[answer.last].at
             end == thread[next.last].at
         IN IF answer.refused THEN back < 0 \/ forward < 0
            ELSE /\ \E k \in DOMAIN answer.rows : answer.rows[k] = [exchange |-> thread[p], offset |-> 0]
                 /\ answer.remaining + (answer.last - p) = LaterInThread(Len(thread), p)
                 /\ shown(answer) \o Tail(shown(next)) =
                      SubSeq(thread, p + answer.rows[1].offset, next.last)
                 /\ AllTimed(session) =>
                      \A r \in DOMAIN repos : \A c \in repos[r] :
                        begin < c /\ c < end =>
                          c \in answer.landed \cup next.landed
                                \cup Unlisted(repos, broken, begin, middle)
                                \cup Unlisted(repos, broken, middle, end)
    <3>1. CASE back < 0 \/ forward < 0
      BY <2>3, <2>5, <3>1
    <3>2. CASE ~(back < 0 \/ forward < 0)
      <4>1. p \in 1..n /\ back \in Nat /\ forward \in Nat
        BY <2>4, <2>5, <3>2
      <4>2. ReadsOn(thread, p, back, forward, repos, broken)
        BY <1>1, <2>1, <4>1, ReadingOn
      <4> QED BY <3>2, <4>2, Zenon DEF ReadsOn
    <3> QED BY <3>1, <3>2
  <2> QED BY <2>2, <2>5
<1>2. case = None \/ case \in Cases => ThreadsRunForward
  <2> SUFFICES ASSUME case \in Cases, case.kind = "session" PROVE ThreadsRunForward
    BY DEF ThreadsRunForward, Is
  <2>1. PICK c : c = case
    OBVIOUS
  <2>2. PICK session, repos, broken, thread :
          session = c.session /\ repos = c.repos /\ broken = c.broken /\ thread = ThreadOf(session)
    OBVIOUS
  <2>3. Conversation(session) /\ TimesAre(repos)
    BY <2>1, <2>2
  <2> QED BY <1>1, <2>1, <2>2, <2>3 DEF ThreadsRunForward
<1> QED BY <1>2, CaseIsGiven, PTL

-----------------------------------------------------------------------------
(* The page. *)

LEMMA ShareIsPositive ==
  ASSUME NEW limit \in Nat
  PROVE  ArchiveShare(limit) \in Nat /\ ArchiveShare(limit) >= 1
BY DEF ArchiveShare, Larger

(* How many archived rows there are down to one. *)
ArchivedTo(rows, n) == Cardinality({m \in 1..n : rows[m].tier = "archive"})

LEMMA ArchivedGrows ==
  ASSUME NEW rows, NEW n \in Nat, NEW m \in Nat, n < m, rows[m].tier = "archive"
  PROVE  ArchivedTo(rows, n) \in Nat /\ ArchivedTo(rows, m) \in Nat
         /\ ArchivedTo(rows, n) < ArchivedTo(rows, m)
<1> DEFINE A == {k \in 1..n : rows[k].tier = "archive"}
           B == {k \in 1..m : rows[k].tier = "archive"}
<1>1. IsFiniteSet(1..n) /\ IsFiniteSet(1..m)
  BY FS_Interval
<1>2. A \in SUBSET (1..n) /\ B \in SUBSET (1..m) /\ A \in SUBSET B /\ m \in B /\ m \notin A
  OBVIOUS
<1>3. ArchivedTo(rows, n) = Cardinality(A) /\ ArchivedTo(rows, m) = Cardinality(B)
  BY DEF ArchivedTo
<1> HIDE DEF A, B
<1>4. IsFiniteSet(A) /\ IsFiniteSet(B)
  BY <1>1, <1>2, FS_Subset
<1>5. Cardinality(A) <= Cardinality(B) /\ Cardinality(A) # Cardinality(B)
  BY <1>2, <1>4, FS_Subset
<1> QED BY <1>3, <1>4, <1>5, FS_CardinalityType

(* No more archived rows are within the share than it has,                   *)
LEMMA ShareIsKept ==
  ASSUME NEW rows, DOMAIN rows \subseteq Nat \ {0}, IsFiniteSet(DOMAIN rows), NEW limit \in Nat
  PROVE  Cardinality({n \in WithinShare(rows, limit) : rows[n].tier = "archive"}) <= ArchiveShare(limit)
<1> DEFINE K == {n \in WithinShare(rows, limit) : rows[n].tier = "archive"}
           share == ArchiveShare(limit)
           count == [n \in K |-> ArchivedTo(rows, n)]
<1>1. share \in Nat
  BY ShareIsPositive
<1>2. \A n \in K : n \in Nat \ {0} /\ rows[n].tier = "archive" /\ ArchivedTo(rows, n) <= share
  BY DEF WithinShare, ArchivedTo
<1> HIDE DEF K, share
<1>3. ASSUME NEW n \in K PROVE count[n] \in 1..share
  <2>1. 0 \in Nat /\ n \in Nat /\ 0 < n /\ rows[n].tier = "archive"
    BY <1>2
  <2>2. ArchivedTo(rows, 0) \in Nat /\ ArchivedTo(rows, n) \in Nat /\ ArchivedTo(rows, 0) < ArchivedTo(rows, n)
    BY <2>1, ArchivedGrows
  <2> QED BY <1>1, <1>2, <2>2
<1>4. ASSUME NEW n \in K, NEW m \in K, count[n] = count[m] PROVE n = m
  <2>1. n < m => ArchivedTo(rows, n) \in Nat /\ ArchivedTo(rows, n) < ArchivedTo(rows, m) /\ ArchivedTo(rows, m) \in Nat
    BY <1>2, ArchivedGrows
  <2>2. m < n => ArchivedTo(rows, m) \in Nat /\ ArchivedTo(rows, m) < ArchivedTo(rows, n) /\ ArchivedTo(rows, n) \in Nat
    BY <1>2, ArchivedGrows
  <2> QED BY <1>2, <1>4, <2>1, <2>2
<1>5. count \in Injection(K, 1..share)
  BY <1>3, <1>4 DEF Injection, IsInjective
<1>6. IsFiniteSet(1..share) /\ Cardinality(1..share) = share
  BY <1>1, FS_Interval
<1> QED BY <1>5, <1>6, FS_Injection DEF K, share

(* and if one is beyond it, as many as it has stand before that.             *)
LEMMA ShareIsUsed ==
  ASSUME NEW rows, NEW n \in Nat, 1..n \subseteq DOMAIN rows, NEW limit \in Nat,
         ArchivedTo(rows, n) > ArchiveShare(limit)
  PROVE  \E K \in SUBSET (1..n) : /\ Cardinality(K) = ArchiveShare(limit)
                                  /\ K \subseteq WithinShare(rows, limit)
                                  /\ \A m \in K : rows[m].tier = "archive"
<1> DEFINE A == {m \in 1..n : rows[m].tier = "archive"}
<1>1. PICK share : share = ArchiveShare(limit)
  OBVIOUS
<1>2. share \in Nat /\ share >= 1
  BY <1>1, ShareIsPositive
<1>3. IsFiniteSet(1..n)
  BY FS_Interval
<1>4. A \in SUBSET (1..n) /\ A \subseteq Int
  OBVIOUS
<1>5. IsFiniteSet(A) /\ Cardinality(A) > share
  BY <1>1, <1>3, <1>4, FS_Subset DEF ArchivedTo
<1>6. PICK at : at = Ascending(A)
  OBVIOUS
<1>7. /\ Cardinality(A) \in Nat
      /\ at \in [1..Cardinality(A) -> A]
      /\ \A x \in A : \E k \in 1..Cardinality(A) : at[k] = x
      /\ \A i, j \in 1..Cardinality(A) : at[i] < at[j] <=> i < j
  BY <1>4, <1>5, <1>6, AscendingIs
<1> DEFINE K == ImageOf(at, 1..share)
<1>8. 1..share \subseteq 1..Cardinality(A)
  <2>1. PICK c : c = Cardinality(A)
    OBVIOUS
  <2>2. c \in Nat /\ c > share
    BY <1>5, <1>7, <2>1
  <2>3. 1..share \subseteq 1..c
    BY <1>2, <2>2
  <2> QED BY <2>1, <2>3
<1>9. \A k \in 1..share : at[k] \in A
  BY <1>7, <1>8
<1>10. IsFiniteSet(1..share) /\ Cardinality(1..share) = share
  BY <1>2, FS_Interval
<1>11. \A i, j \in 1..share : at[i] = at[j] => i = j
  <2>1. ASSUME NEW i \in 1..share, NEW j \in 1..share, at[i] = at[j] PROVE i = j
    <3>1. at[i] \in Int /\ ~(at[i] < at[j]) /\ ~(at[j] < at[i])
      BY <1>4, <1>9, <2>1
    <3>2. i \in 1..Cardinality(A) /\ j \in 1..Cardinality(A)
      BY <1>8
    <3>3. ~(i < j) /\ ~(j < i)
      BY <1>7, <3>1, <3>2
    <3> QED BY <1>2, <3>3
  <2> QED BY <2>1
<1>12. Cardinality(K) = share
  BY <1>10, <1>11, ImageIsAsLarge
<1>13. ASSUME NEW k \in 1..share
       PROVE  at[k] \in 1..n /\ rows[at[k]].tier = "archive" /\ at[k] \in WithinShare(rows, limit)
  <2>1. at[k] \in 1..n /\ rows[at[k]].tier = "archive"
    BY <1>9
  <2>2. IsFiniteSet(1..k) /\ Cardinality(1..k) = k
    BY FS_Interval
  <2> DEFINE T == ImageOf(at, 1..k)
             U == {m \in 1..(at[k]) : rows[m].tier = "archive"}
  <2>3. IsFiniteSet(T) /\ Cardinality(T) <= k
    BY <2>2, ImageIsNoLarger
  <2>4. ASSUME NEW m \in U PROVE m \in T
    <3>1. m \in A /\ m <= at[k]
      BY <2>1
    <3>2. PICK i \in 1..Cardinality(A) : at[i] = m
      BY <1>7, <3>1
    <3>3. k \in 1..Cardinality(A)
      BY <1>8
    <3>4. ~(k < i)
      BY <1>4, <1>7, <3>1, <3>2, <3>3
    <3>5. i \in 1..k
      BY <1>2, <3>4
    <3> QED BY <3>2, <3>5 DEF ImageOf
  <2> HIDE DEF T
  <2>5. U \in SUBSET T
    BY <2>4
  <2> HIDE DEF U
  <2>6. IsFiniteSet(U) /\ Cardinality(U) <= Cardinality(T)
    BY <2>3, <2>5, FS_Subset
  <2>7. Cardinality(U) \in Nat /\ Cardinality(T) \in Nat
    BY <2>3, <2>6, FS_CardinalityType
  <2>8. Cardinality(U) <= share
    BY <1>2, <2>3, <2>6, <2>7
  <2> QED BY <1>1, <2>1, <2>8 DEF WithinShare, U
<1>14. K \in SUBSET (1..n) /\ K \subseteq WithinShare(rows, limit) /\ \A m \in K : rows[m].tier = "archive"
  BY <1>13 DEF ImageOf
<1> QED BY <1>1, <1>12, <1>14

(* A page has the rows within the share, then the others, each in their      *)
(* order, as far as it goes.                                                 *)
LEMMA PageIsOf ==
  ASSUME NEW V, NEW rows \in Seq(V), NEW limit \in Nat
  PROVE  /\ CapArchiveShare(rows, limit) \in Seq(V)
         /\ \E place : /\ DFirst(place, WithinShare(rows, limit), Len(rows))
                       /\ LaidOut(CapArchiveShare(rows, limit), rows, place, Smaller(limit, Len(rows)))
<1> DEFINE D == WithinShare(rows, limit)
<1>1. PICK n : n = Len(rows)
  OBVIOUS
<1>2. n \in Nat /\ DOMAIN rows = 1..n /\ \A k \in 1..n : rows[k] \in V
  BY <1>1
<1>3. D \subseteq 1..n
  BY <1>2 DEF WithinShare
<1> HIDE DEF D
<1> DEFINE H == (1..n) \ D
<1>4. PICK f, g, place : f = Ascending(D) /\ g = Ascending(H) /\ place = f \o g
  OBVIOUS
<1>5. PICK d, h : d = Cardinality(D) /\ h = Cardinality(H)
  OBVIOUS
<1>6. DFirst(place, D, n)
  BY <1>2, <1>3, <1>4, TwoParts
<1>7. d \in Nat /\ h \in Nat /\ d + h = n
  BY <1>2, <1>3, <1>5, TwoParts
<1>8. f \in [1..d -> D] /\ g \in [1..h -> H]
  BY <1>2, <1>3, <1>4, <1>5, TwoParts
<1> DEFINE direct == Only(rows, D)
           held == Only(rows, H)
           all == direct \o held
<1>9. direct = [k \in 1..d |-> rows[f[k]]] /\ held = [k \in 1..h |-> rows[g[k]]]
  BY <1>4, <1>8 DEF Only
<1>10. direct \in Seq(V) /\ held \in Seq(V) /\ Len(direct) = d /\ Len(held) = h
  <2>1. \A k \in 1..d : rows[f[k]] \in V
    BY <1>2, <1>3, <1>8
  <2>2. \A k \in 1..h : rows[g[k]] \in V
    BY <1>2, <1>8
  <2>3. direct \in [1..d -> V] /\ held \in [1..h -> V]
    BY <1>9, <2>1, <2>2
  <2> HIDE DEF direct, held
  <2> QED BY <1>7, <2>3
<1>11. f \in Seq(D) /\ g \in Seq(H) /\ Len(f) = d /\ Len(g) = h
  BY <1>7, <1>8
<1>12. all \in Seq(V) /\ Len(all) = n /\ \A k \in 1..n : all[k] = rows[place[k]]
  <2>1. all \in Seq(V) /\ Len(all) = n
    BY <1>7, <1>10
  <2>2. ASSUME NEW k \in 1..n, k <= d PROVE all[k] = rows[place[k]]
    <3>1. k \in 1..d /\ all[k] = direct[k]
      BY <1>7, <1>10, <2>1, <2>2
    <3>2. place[k] = f[k]
      BY <1>4, <1>7, <1>11, <2>2
    <3> QED BY <1>9, <3>1, <3>2
  <2>3. ASSUME NEW k \in 1..n, ~(k <= d) PROVE all[k] = rows[place[k]]
    <3>1. k - d \in 1..h /\ all[k] = held[k - d]
      BY <1>7, <1>10, <2>1, <2>3
    <3>2. place[k] = g[k - d]
      BY <1>4, <1>7, <1>11, <2>3
    <3> QED BY <1>9, <3>1, <3>2
  <2> QED BY <2>1, <2>2, <2>3
<1> DEFINE page == CapArchiveShare(rows, limit)
           m == Smaller(limit, n)
<1>13. page = SubSeq(all, 1, m)
  <2>1. page = First(all, limit)
    BY <1>2 DEF CapArchiveShare, D
  <2> HIDE DEF all, page
  <2> QED BY <1>12, <2>1 DEF First
<1>14. m \in 0..n
  BY <1>2 DEF Smaller
<1> HIDE DEF all, page, m
<1>15. page \in Seq(V) /\ Len(page) = m /\ \A k \in 1..m : page[k] = all[k]
  BY <1>2, <1>12, <1>13, <1>14
<1>16. \A k \in 1..m : page[k] = rows[place[k]]
  BY <1>2, <1>12, <1>14, <1>15
<1>17. LaidOut(page, rows, place, m)
  BY <1>14, <1>15, <1>16 DEF LaidOut
<1> QED BY <1>1, <1>6, <1>15, <1>17 DEF D, m, page

(* The page of a ranking of distinct rows is a best one. *)
LEMMA PageIsABestOne ==
  ASSUME NEW V, NEW rows \in Seq(V), \A i, j \in DOMAIN rows : rows[i] = rows[j] => i = j,
         NEW limit \in Nat
  PROVE  IsBestPage(CapArchiveShare(rows, limit), rows, limit)
<1> DEFINE D == WithinShare(rows, limit)
           page == CapArchiveShare(rows, limit)
           n == Len(rows)
           share == ArchiveShare(limit)
           m == Smaller(limit, n)
<1>1. n \in Nat /\ DOMAIN rows = 1..n
  OBVIOUS
<1>2. share \in Nat /\ share >= 1
  BY ShareIsPositive
<1>3. D \subseteq 1..n
  BY <1>1 DEF WithinShare
<1>4. m \in 0..n
  BY <1>1 DEF Smaller
<1>5. page \in Seq(V)
  BY PageIsOf
<1>6. PICK place : DFirst(place, D, n) /\ LaidOut(page, rows, place, m)
  BY PageIsOf
<1>7. \A x \in 1..n : x \in D <=> (rows[x].tier = "archive" => ArchivedTo(rows, x) <= share)
  BY <1>1 DEF WithinShare, ArchivedTo
<1>8. IsFiniteSet(1..n)
  BY <1>1, FS_Interval
<1>9. Cardinality({x \in D : rows[x].tier = "archive"}) <= share
  BY <1>1, <1>8, ShareIsKept
<1> HIDE DEF D, page, m, n, share
<1>10. n \in Nat /\ DOMAIN rows = 1..n /\ share \in Nat /\ share >= 1
  BY <1>1, <1>2
<1>11. /\ place \in [1..n -> 1..n]
       /\ \A x \in 1..n : \E k \in 1..n : place[k] = x
       /\ \A i, j \in 1..n : i < j => \/ place[i] \in D /\ place[j] \notin D
                                      \/ place[i] < place[j] /\ (place[i] \in D <=> place[j] \in D)
  BY <1>6 DEF DFirst
<1> DEFINE shown == {x \in 1..n : \E k \in 1..m : page[k] = rows[x]}
           left == (1..n) \ shown
           archived(S) == {x \in S : rows[x].tier = "archive"}
<1>12. 1..m \subseteq 1..n
  BY <1>10, <1>4
<1>13. \A k \in 1..m : k \in 1..n /\ page[k] = rows[place[k]] /\ place[k] \in 1..n
  BY <1>6, <1>11, <1>12 DEF LaidOut
<1>14. shown = ImageOf(place, 1..m)
  <2>1. ASSUME NEW x \in shown PROVE x \in ImageOf(place, 1..m)
    <3>1. PICK k \in 1..m : page[k] = rows[x]
      OBVIOUS
    <3>2. place[k] = x
      BY <1>10, <1>13, <3>1
    <3> QED BY <3>2 DEF ImageOf
  <2>2. ASSUME NEW k \in 1..m PROVE place[k] \in shown
    BY <1>13
  <2>3. ImageOf(place, 1..m) \subseteq shown
    BY <2>2 DEF ImageOf
  <2> HIDE DEF shown
  <2> QED BY <2>1, <2>3
<1>15. \A i, j \in 1..n : place[i] = place[j] => i = j
  <2>1. ASSUME NEW i \in 1..n, NEW j \in 1..n, i < j PROVE place[i] # place[j]
    <3>1. \/ place[i] \in D /\ place[j] \notin D
          \/ place[i] < place[j] /\ (place[i] \in D <=> place[j] \in D)
      BY <1>11, <2>1
    <3>2. place[i] \in Nat
      BY <1>10, <1>11
    <3> QED BY <3>1, <3>2
  <2>2. ASSUME NEW i \in 1..n, NEW j \in 1..n, place[i] = place[j] PROVE i = j
    <3>1. ~(i < j) /\ ~(j < i)
      BY <2>1, <2>2
    <3> QED BY <1>10, <3>1
  <2> QED BY <2>2
<1>16. IsFiniteSet(shown) /\ Cardinality(shown) = m
  <2>1. IsFiniteSet(1..m) /\ Cardinality(1..m) = m
    BY <1>10, <1>4, FS_Interval
  <2>2. \A i, j \in 1..m : place[i] = place[j] => i = j
    BY <1>12, <1>15
  <2>3. IsFiniteSet(ImageOf(place, 1..m)) /\ Cardinality(ImageOf(place, 1..m)) = m
    BY <2>1, <2>2, ImageIsAsLarge
  <2> QED BY <1>14, <2>3
<1> HIDE DEF shown
<1>17. shown \subseteq 1..n
  BY DEF shown
(* The rows before a shown one of its part are shown, and so are all within  *)
(* the share if one is that is not.                                          *)
<1>18. ASSUME NEW x \in shown, NEW y \in 1..n,
              \/ y \in D /\ x \notin D
              \/ y < x /\ (y \in D <=> x \in D)
       PROVE  y \in shown
  <2>1. PICK k \in 1..m : place[k] = x
    BY <1>14 DEF ImageOf
  <2>2. PICK l \in 1..n : place[l] = y
    BY <1>11
  <2>3. k \in 1..n /\ x \in 1..n
    BY <1>12, <1>17
  <2>4. ~(k < l)
    <3>1. SUFFICES ASSUME k < l PROVE FALSE
      OBVIOUS
    <3>2. \/ x \in D /\ y \notin D
          \/ x < y /\ (x \in D <=> y \in D)
      BY <1>11, <2>1, <2>2, <2>3, <3>1
    <3> QED BY <1>18, <2>3, <3>2
  <2>5. l \in 1..m
    BY <1>10, <1>4, <2>3, <2>4
  <2> QED BY <1>14, <2>2, <2>5 DEF ImageOf
<1>19. ASSUME m > 0 PROVE page[1] = rows[1]
  <2>1. 1 \in 1..m /\ 1 \in 1..n
    BY <1>10, <1>4, <1>19
  <2>2. 1 \in D
    <3>1. 1..1 = {1} /\ IsFiniteSet({1}) /\ Cardinality({1}) = 1
      <4>1. 1..1 = {1}
        OBVIOUS
      <4> QED BY <4>1, FS_Singleton
    <3> DEFINE U == {k \in 1..1 : rows[k].tier = "archive"}
    <3>2. U \in SUBSET (1..1)
      OBVIOUS
    <3>3. IsFiniteSet(U) /\ Cardinality(U) <= 1
      BY <3>1, <3>2, FS_Subset
    <3>4. Cardinality(U) \in Nat
      BY <3>3, FS_CardinalityType
    <3> HIDE DEF U
    <3>5. Cardinality(U) <= share
      BY <1>10, <3>3, <3>4
    <3> QED BY <1>7, <2>1, <3>5 DEF ArchivedTo, U
  <2>3. PICK k \in 1..n : place[k] = 1
    BY <1>11, <2>1
  <2>4. ~(1 < k)
    <3>1. SUFFICES ASSUME 1 < k PROVE FALSE
      OBVIOUS
    <3>2. \/ place[1] \in D /\ place[k] \notin D
          \/ place[1] < place[k] /\ (place[1] \in D <=> place[k] \in D)
      BY <1>11, <2>1, <2>3, <3>1
    <3>3. place[1] \in 1..n
      BY <1>11, <2>1
    <3> QED BY <2>2, <2>3, <3>2, <3>3
  <2>5. place[1] = 1
    BY <2>3, <2>4
  <2> QED BY <1>13, <2>1, <2>5
<1>20. ASSUME NEW x \in left, NEW y \in shown, x < y
       PROVE  /\ rows[x].tier = "archive" /\ rows[y].tier # "archive"
              /\ Cardinality(archived(shown)) >= share
  <2>1. x \in 1..n /\ y \in 1..n /\ x \notin shown /\ x \in Nat /\ y \in Nat
    BY <1>10, <1>17
  <2>2. x \notin D /\ y \in D
    BY <1>18, <1>20, <2>1
  <2>3. rows[x].tier = "archive" /\ ~(ArchivedTo(rows, x) <= share)
    BY <1>7, <2>1, <2>2
  <2>4. rows[y].tier # "archive"
    <3>1. SUFFICES ASSUME rows[y].tier = "archive" PROVE FALSE
      OBVIOUS
    <3>2. ArchivedTo(rows, x) \in Nat /\ ArchivedTo(rows, y) \in Nat /\ ArchivedTo(rows, x) < ArchivedTo(rows, y)
      BY <1>20, <2>1, <3>1, ArchivedGrows
    <3>3. ArchivedTo(rows, y) <= share
      BY <1>7, <2>1, <2>2, <3>1
    <3> QED BY <1>10, <2>3, <3>2, <3>3
  <2>5. 1..x \subseteq DOMAIN rows /\ \A z \in 1..x : z \in 1..n /\ z < y
    BY <1>10, <1>20, <2>1
  <2>6. ArchivedTo(rows, x) > share
    <3>1. 0 \in Nat /\ 0 < x
      BY <2>1
    <3>2. ArchivedTo(rows, x) \in Nat
      BY <2>1, <2>3, <3>1, ArchivedGrows
    <3> QED BY <1>10, <2>3, <3>2
  <2>7. PICK K \in SUBSET (1..x) : /\ Cardinality(K) = share
                                   /\ K \subseteq D
                                   /\ \A z \in K : rows[z].tier = "archive"
    BY <2>1, <2>5, <2>6, ShareIsUsed DEF D, share
  <2>8. \A z \in K : z \in shown
    BY <1>18, <2>2, <2>5, <2>7
  <2>9. K \in SUBSET archived(shown)
    BY <2>7, <2>8
  <2>10. IsFiniteSet(archived(shown))
    BY <1>16, FS_Subset
  <2> HIDE DEF archived
  <2>11. Cardinality(K) <= Cardinality(archived(shown)) /\ Cardinality(archived(shown)) \in Nat
    BY <2>9, <2>10, FS_Subset, FS_CardinalityType
  <2> QED BY <1>10, <2>3, <2>4, <2>7, <2>11
<1>21. ASSUME Cardinality(archived(shown)) > share PROVE left = archived(left)
  <2>1. SUFFICES ASSUME NEW x \in left, rows[x].tier # "archive" PROVE FALSE
    OBVIOUS
  <2>2. x \in D /\ x \notin shown /\ x \in 1..n
    BY <1>7, <2>1
  <2>3. \A y \in shown : y \in D
    BY <1>18, <2>2
  <2> DEFINE K == {y \in D : rows[y].tier = "archive"}
  <2>4. archived(shown) \in SUBSET K
    BY <2>3
  <2>5. IsFiniteSet(K)
    <3>1. IsFiniteSet(1..n) /\ K \in SUBSET (1..n)
      BY <1>3, <1>8
    <3> QED BY <3>1, FS_Subset
  <2>6. Cardinality(K) <= share
    BY <1>9
  <2> HIDE DEF archived, K
  <2>7. Cardinality(archived(shown)) <= Cardinality(K) /\ Cardinality(K) \in Nat /\ Cardinality(archived(shown)) \in Nat
    BY <2>4, <2>5, FS_Subset, FS_CardinalityType
  <2> QED BY <1>10, <1>21, <2>6, <2>7
<1>22. DOMAIN page = 1..m /\ (page # <<>> => m > 0)
  <2>1. DOMAIN page = 1..m /\ Len(page) = m
    BY <1>6 DEF LaidOut
  <2>2. page = <<>> \/ Len(page) > 0
    BY <1>5
  <2> QED BY <1>4, <2>1, <2>2
<1>23. shown = {x \in DOMAIN rows : \E k \in DOMAIN page : page[k] = rows[x]}
  BY <1>10, <1>22 DEF shown
<1>24. Len(page) = Smaller(limit, Len(rows)) /\ Len(page) = m
  BY <1>6 DEF m, n, LaidOut
<1> QED BY <1>1, <1>10, <1>16, <1>19, <1>20, <1>21, <1>22, <1>23, <1>24 DEF IsBestPage, page, share


(* What the cap per document leaves has no row twice if the ranking has not. *)
LEMMA CapKeepsRows ==
  ASSUME NEW V, NEW rows \in Seq(V), \A i, j \in DOMAIN rows : rows[i] = rows[j] => i = j, NEW cap
  PROVE  LET capped == CapPerDocument(rows, cap)
         IN capped \in Seq(V) /\ \A i, j \in DOMAIN capped : capped[i] = capped[j] => i = j
<1> DEFINE S == {n \in DOMAIN rows : Cardinality({m \in 1..(n - 1) : rows[m].file = rows[n].file}) < cap}
<1>1. CapPerDocument(rows, cap) = Only(rows, S) /\ S \in SUBSET DOMAIN rows
  BY DEF CapPerDocument
<1> HIDE DEF S
<1>2. PICK capped : capped = Only(rows, S)
  OBVIOUS
<1>3. PICK c : c = Cardinality(S)
  OBVIOUS
<1>4. capped \in Seq(V) /\ c \in Nat
  BY <1>1, <1>2, <1>3, OnlyIs
<1>5. PICK at : Kept(rows, S, at, c)
  BY <1>1, <1>3, OnlyIs
<1>6. /\ at \in [1..c -> S]
      /\ \A i, j \in 1..c : at[i] < at[j] <=> i < j
      /\ DOMAIN capped = 1..c
      /\ \A k \in 1..c : capped[k] = rows[at[k]]
  BY <1>2, <1>5 DEF Kept, LaidOut
<1>7. DOMAIN rows \subseteq Nat
  OBVIOUS
<1>8. ASSUME NEW i \in DOMAIN capped, NEW j \in DOMAIN capped, capped[i] = capped[j] PROVE i = j
  <2>1. i \in 1..c /\ j \in 1..c /\ at[i] \in DOMAIN rows /\ at[j] \in DOMAIN rows
    BY <1>1, <1>6
  <2>2. at[i] = at[j]
    BY <1>6, <1>8, <2>1
  <2>3. at[i] \in Nat /\ ~(at[i] < at[j]) /\ ~(at[j] < at[i])
    BY <1>7, <2>1, <2>2
  <2>4. ~(i < j) /\ ~(j < i)
    BY <1>6, <2>1, <2>3
  <2> QED BY <1>4, <2>1, <2>4
<1> QED BY <1>1, <1>2, <1>4, <1>8

(* A ranking to be cut to a page: no row is in it twice. *)
RankedPage(rows, limit) ==
  /\ \E V : rows \in Seq(V)
  /\ \A i, j \in DOMAIN rows : rows[i] = rows[j] => i = j
  /\ limit \in Nat

-----------------------------------------------------------------------------
(* What a spread changes. Of two rows of a ranking one is over the other.    *)
RanksOver(t, i, j) ==
  \/ t[i].score > t[j].score
  \/ t[i].score = t[j].score /\ i < j

ScoredRows(t, n) ==
  /\ n \in Nat
  /\ DOMAIN t = 1..n
  /\ \A i \in 1..n : t[i].score \in Int

(* The rows of a ranking at some places, best first. *)
InOrder(list, t, n, at, c) ==
  /\ at \in [1..c -> 1..n]
  /\ \A i, j \in 1..c : RanksOver(t, at[i], at[j]) <=> i < j
  /\ LaidOut(list, t, at, c)

LEMMA BestFirstIs ==
  ASSUME NEW V, NEW t \in Seq(V), NEW n, ScoredRows(t, n)
  PROVE  /\ BestFirst(t) \in Seq(V)
         /\ \E at : InOrder(BestFirst(t), t, n, at, n) /\ \A x \in 1..n : \E k \in 1..n : at[k] = x
<1> DEFINE R == {p \in (DOMAIN t) \X (DOMAIN t) :
                   \/ t[p[1]].score > t[p[2]].score
                   \/ t[p[1]].score = t[p[2]].score /\ p[1] < p[2]}
           at == Listed(1..n, R)
<1>1. n \in Nat /\ DOMAIN t = 1..n /\ \A i \in 1..n : t[i].score \in Int /\ t[i] \in V
  BY DEF ScoredRows
<1>2. \A i, j \in 1..n : <<i, j>> \in R <=> RanksOver(t, i, j)
  BY <1>1 DEF RanksOver
<1>3. BestFirst(t) = [k \in 1..n |-> t[at[k]]]
  BY <1>1 DEF BestFirst
<1> HIDE DEF R
<1>4. OrderOf(R, 1..n)
  <2>1. \A x \in 1..n : <<x, x>> \notin R
    BY <1>1, <1>2 DEF RanksOver
  <2>2. \A x, y \in 1..n : x # y => <<x, y>> \in R \/ <<y, x>> \in R
    BY <1>1, <1>2 DEF RanksOver
  <2>3. \A x, y, z \in 1..n : <<x, y>> \in R /\ <<y, z>> \in R => <<x, z>> \in R
    BY <1>1, <1>2 DEF RanksOver
  <2> QED BY <2>1, <2>2, <2>3 DEF OrderOf
<1>5. IsFiniteSet(1..n) /\ Cardinality(1..n) = n
  <2>1. n \in Nat
    BY <1>1
  <2> QED BY <2>1, FS_Interval
<1>6. /\ at \in [1..n -> 1..n]
      /\ \A x \in 1..n : \E k \in 1..n : at[k] = x
      /\ \A i, j \in 1..n : <<at[i], at[j]>> \in R <=> i < j
  BY <1>4, <1>5, ListedIs
<1> HIDE DEF at
<1>7. \A i, j \in 1..n : RanksOver(t, at[i], at[j]) <=> i < j
  BY <1>2, <1>6
<1>8. \A k \in 1..n : t[at[k]] \in V
  BY <1>1, <1>6
<1>9. PICK list : list = [k \in 1..n |-> t[at[k]]]
  OBVIOUS
<1>10. list \in [1..n -> V]
  BY <1>8, <1>9
<1>11. list \in Seq(V) /\ Len(list) = n
  BY <1>1, <1>10
<1>12. LaidOut(list, t, at, n)
  BY <1>9, <1>10, <1>11 DEF LaidOut
<1>13. InOrder(list, t, n, at, n)
  BY <1>6, <1>7, <1>12 DEF InOrder
<1> QED BY <1>3, <1>6, <1>9, <1>11, <1>13

(* The rows that stand for their documents: one for each, the best.          *)
Standing(list, t, n, q, c) ==
  /\ c \in Nat
  /\ InOrder(list, t, n, q, c)
  /\ \A i, j \in 1..c : t[q[i]].file = t[q[j]].file => i = j
  /\ \A x \in 1..n : \E k \in 1..c : /\ t[q[k]].file = t[x].file
                                     /\ q[k] = x \/ RanksOver(t, q[k], x)

LEMMA CapLeavesTheBest ==
  ASSUME NEW V, NEW t \in Seq(V), NEW n, ScoredRows(t, n)
  PROVE  LET list == CapPerDocument(BestFirst(t), 1)
         IN /\ list \in Seq(V)
            /\ \E q, c : Standing(list, t, n, q, c)
<1>1. n \in Nat /\ DOMAIN t = 1..n /\ \A i \in 1..n : t[i].score \in Int
  BY DEF ScoredRows
<1>2. PICK rows : rows = BestFirst(t)
  OBVIOUS
<1>3. rows \in Seq(V)
  BY <1>2, BestFirstIs
<1>4. PICK at : InOrder(rows, t, n, at, n) /\ \A x \in 1..n : \E k \in 1..n : at[k] = x
  BY <1>2, BestFirstIs
<1>5. /\ at \in [1..n -> 1..n]
      /\ \A i, j \in 1..n : RanksOver(t, at[i], at[j]) <=> i < j
      /\ DOMAIN rows = 1..n
      /\ \A k \in 1..n : rows[k] = t[at[k]]
  BY <1>4 DEF InOrder, LaidOut
<1> DEFINE earlier(k) == {m \in 1..(k - 1) : rows[m].file = rows[k].file}
           S == {k \in DOMAIN rows : Cardinality(earlier(k)) < 1}
<1>6. CapPerDocument(rows, 1) = Only(rows, S) /\ S \in SUBSET DOMAIN rows
  BY DEF CapPerDocument
<1>7. ASSUME NEW k \in 1..n
      PROVE  k \in S <=> \A m \in 1..n : m < k => rows[m].file # rows[k].file
  <2>1. earlier(k) \in SUBSET (1..n) /\ IsFiniteSet(1..n)
    BY <1>1, FS_Interval
  <2>2. IsFiniteSet(earlier(k))
    BY <2>1, FS_Subset
  <2>3. PICK E : E = earlier(k)
    OBVIOUS
  <2>4. IsFiniteSet(E) /\ \A m \in 1..n : m \in E <=> m < k /\ rows[m].file = rows[k].file
    BY <1>1, <2>2, <2>3
  <2>5. Cardinality(E) \in Nat /\ (Cardinality(E) = 0 <=> E = {})
    BY <2>4, FS_CardinalityType, FS_EmptySet
  <2>6. Cardinality(E) < 1 <=> E = {}
    BY <2>5
  <2>7. E \subseteq 1..n
    BY <2>1, <2>3
  <2>8. E = {} <=> \A m \in 1..n : m < k => rows[m].file # rows[k].file
    BY <2>4, <2>7
  <2> QED BY <1>5, <2>3, <2>6, <2>8
<1> HIDE DEF S
<1>8. PICK list, c : list = Only(rows, S) /\ c = Cardinality(S)
  OBVIOUS
<1>9. list \in Seq(V) /\ c \in Nat
  BY <1>3, <1>6, <1>8, OnlyIs
<1>10. PICK kept : Kept(rows, S, kept, c)
  BY <1>3, <1>6, <1>8, OnlyIs
<1>11. /\ kept \in [1..c -> S]
       /\ \A x \in S : \E k \in 1..c : kept[k] = x
       /\ \A i, j \in 1..c : kept[i] < kept[j] <=> i < j
       /\ DOMAIN list = 1..c /\ Len(list) = c
       /\ \A k \in 1..c : list[k] = rows[kept[k]]
  BY <1>8, <1>10 DEF Kept, LaidOut
<1> DEFINE q == [k \in 1..c |-> at[kept[k]]]
<1>12. \A k \in 1..c : kept[k] \in 1..n /\ kept[k] \in S
  BY <1>5, <1>6, <1>11
<1>13. q \in [1..c -> 1..n] /\ \A k \in 1..c : q[k] = at[kept[k]]
  BY <1>5, <1>12
<1> HIDE DEF q
<1>14. LaidOut(list, t, q, c)
  BY <1>5, <1>11, <1>12, <1>13 DEF LaidOut
<1>15. \A i, j \in 1..c : RanksOver(t, q[i], q[j]) <=> i < j
  BY <1>5, <1>11, <1>12, <1>13
<1>16. ASSUME NEW i \in 1..c, NEW j \in 1..c, t[q[i]].file = t[q[j]].file PROVE i = j
  <2>1. rows[kept[i]].file = rows[kept[j]].file
    BY <1>5, <1>12, <1>13, <1>16
  <2>2. ~(kept[i] < kept[j]) /\ ~(kept[j] < kept[i])
    BY <1>7, <1>12, <2>1
  <2>3. ~(i < j) /\ ~(j < i)
    BY <1>11, <2>2
  <2> QED BY <1>9, <2>3
<1>17. ASSUME NEW x \in 1..n
       PROVE  \E k \in 1..c : t[q[k]].file = t[x].file /\ (q[k] = x \/ RanksOver(t, q[k], x))
  <2> DEFINE T == {k \in 1..n : rows[k].file = t[x].file}
  <2>1. PICK l \in 1..n : at[l] = x
    BY <1>4
  <2>2. l \in T
    BY <1>5, <2>1
  <2>3. T \subseteq Nat /\ T # {}
    BY <1>1, <2>2
  <2> HIDE DEF T
  <2>4. PICK m \in T : \A k \in T : m <= k
    BY <2>3, Least
  <2>5. m \in 1..n /\ m \in Nat /\ rows[m].file = t[x].file
    BY <1>1, <2>4 DEF T
  <2>6. \A k \in 1..n : k < m => rows[k].file # rows[m].file
    <3>1. ASSUME NEW k \in 1..n, k < m, rows[k].file = rows[m].file PROVE FALSE
      <4>1. k \in T
        BY <2>5, <3>1 DEF T
      <4>2. m <= k
        BY <2>4, <4>1
      <4> QED BY <1>1, <2>5, <3>1, <4>2
    <3> QED BY <3>1
  <2>7. m \in S
    BY <1>7, <2>5, <2>6
  <2>8. PICK k \in 1..c : kept[k] = m
    BY <1>11, <2>7
  <2>9. q[k] = at[m] /\ rows[m] = t[at[m]]
    BY <1>5, <1>13, <2>5, <2>8
  <2>10. m <= l
    BY <2>2, <2>4
  <2>11. m < l \/ m = l
    BY <1>1, <2>1, <2>5, <2>10
  <2>12. m < l => RanksOver(t, at[m], at[l])
    BY <1>5, <2>1, <2>5
  <2>13. q[k] = x \/ RanksOver(t, q[k], x)
    BY <2>1, <2>9, <2>11, <2>12
  <2> QED BY <2>5, <2>9, <2>13
<1>18. InOrder(list, t, n, q, c)
  BY <1>13, <1>14, <1>15 DEF InOrder
<1>19. Standing(list, t, n, q, c)
  BY <1>9, <1>16, <1>17, <1>18 DEF Standing
<1> QED BY <1>2, <1>6, <1>8, <1>9, <1>19

(* As many documents stand as there are. *)
FilesIn(t, n) == ImageOf([x \in 1..n |-> t[x].file], 1..n)

LEMMA OneForEach ==
  ASSUME NEW list, NEW t, NEW n \in Nat, NEW q, NEW c, Standing(list, t, n, q, c)
  PROVE  /\ IsFiniteSet(FilesIn(t, n))
         /\ Cardinality(FilesIn(t, n)) = c
         /\ ImageOf([k \in 1..c |-> t[q[k]].file], 1..c) = FilesIn(t, n)
<1> DEFINE fileOf == [k \in 1..c |-> t[q[k]].file]
           file == [x \in 1..n |-> t[x].file]
<1>1. /\ c \in Nat /\ q \in [1..c -> 1..n]
      /\ \A i, j \in 1..c : t[q[i]].file = t[q[j]].file => i = j
      /\ \A x \in 1..n : \E k \in 1..c : t[q[k]].file = t[x].file
  BY DEF Standing, InOrder
<1>2. ImageOf(fileOf, 1..c) = ImageOf(file, 1..n)
  <2>1. ASSUME NEW k \in 1..c PROVE \E x \in 1..n : file[x] = fileOf[k]
    <3>1. q[k] \in 1..n
      BY <1>1
    <3> QED BY <3>1
  <2>2. ASSUME NEW x \in 1..n PROVE \E k \in 1..c : fileOf[k] = file[x]
    BY <1>1
  <2> HIDE DEF fileOf, file
  <2> QED BY <2>1, <2>2 DEF ImageOf
<1>3. \A i, j \in 1..c : fileOf[i] = fileOf[j] => i = j
  BY <1>1
<1>4. IsFiniteSet(1..c) /\ Cardinality(1..c) = c
  BY <1>1, FS_Interval
<1> HIDE DEF fileOf, file
<1>5. IsFiniteSet(ImageOf(fileOf, 1..c)) /\ Cardinality(ImageOf(fileOf, 1..c)) = c
  BY <1>3, <1>4, ImageIsAsLarge
<1> QED BY <1>2, <1>5 DEF FilesIn, fileOf, file

(* Of the documents F, in an order, K archived, those X are shown of a page. *)
BestShown(X, F, K, R, share) ==
  /\ X \in SUBSET F
  /\ \A g \in F \ X, h \in X :
       <<g, h>> \in R => g \in K /\ h \notin K /\ Cardinality(X \cap K) >= share
  /\ Cardinality(X \cap K) > share => F \ X \subseteq K
  /\ \A g, h \in F : g # h => <<g, h>> \in R \/ <<h, g>> \in R

(* What a page shows, another of as many documents leaves out only if it has *)
(* something before it that was not there.                                   *)
LEMMA NoneEntersBehind ==
  ASSUME NEW F, IsFiniteSet(F), NEW K, NEW share \in Nat, NEW R, NEW T, NEW P, NEW Q,
         BestShown(P, F, K, R, share), BestShown(Q, F, K, T, share),
         Cardinality(P) = Cardinality(Q),
         NEW r \in Q, r \notin P,
         \A g \in F : <<g, r>> \in R => <<g, r>> \in T
  PROVE  FALSE
<1>1. /\ P \in SUBSET F
      /\ \A g \in F \ P, h \in P : <<g, h>> \in R => g \in K /\ h \notin K /\ Cardinality(P \cap K) >= share
      /\ Cardinality(P \cap K) > share => F \ P \subseteq K
      /\ \A g, h \in F : g # h => <<g, h>> \in R \/ <<h, g>> \in R
  BY DEF BestShown
<1>2. /\ Q \in SUBSET F
      /\ \A g \in F \ Q, h \in Q : <<g, h>> \in T => g \in K /\ h \notin K /\ Cardinality(Q \cap K) >= share
      /\ Cardinality(Q \cap K) > share => F \ Q \subseteq K
  BY DEF BestShown
<1>3. PICK a, b, ka, kb, ha, hb :
        /\ a = Cardinality(P) /\ b = Cardinality(Q)
        /\ ka = Cardinality(P \cap K) /\ kb = Cardinality(Q \cap K)
        /\ ha = Cardinality(P \ K) /\ hb = Cardinality(Q \ K)
  OBVIOUS
<1>4. IsFiniteSet(P) /\ IsFiniteSet(Q)
  BY <1>1, <1>2, FS_Subset
<1>5. /\ ka \in Nat /\ ha \in Nat /\ ka + ha = a
      /\ kb \in Nat /\ hb \in Nat /\ kb + hb = b
  <2>1. ASSUME NEW S, IsFiniteSet(S)
        PROVE  /\ IsFiniteSet(S \cap K) /\ IsFiniteSet(S \ K)
               /\ Cardinality(S \cap K) \in Nat /\ Cardinality(S \ K) \in Nat /\ Cardinality(S) \in Nat
               /\ Cardinality(S \cap K) + Cardinality(S \ K) = Cardinality(S)
    <3>1. S \cap K \in SUBSET S /\ S \ K \in SUBSET S
      OBVIOUS
    <3>2. IsFiniteSet(S \cap K) /\ IsFiniteSet(S \ K)
      BY <2>1, <3>1, FS_Subset
    <3>3. PICK A, B : A = S \cap K /\ B = S \ K
      OBVIOUS
    <3>4. A \cup B = S /\ A \cap B = {}
      BY <3>3
    <3>5. IsFiniteSet(A) /\ IsFiniteSet(B)
      BY <3>2, <3>3
    <3>6. Cardinality(A \cup B) = Cardinality(A) + Cardinality(B) - Cardinality(A \cap B)
      BY <3>5, FS_Union
    <3>7. Cardinality(A \cap B) = 0
      BY <3>4, FS_EmptySet
    <3>8. Cardinality(A) \in Nat /\ Cardinality(B) \in Nat
      BY <3>5, FS_CardinalityType
    <3>9. Cardinality(S) = Cardinality(A) + Cardinality(B) - 0
      BY <3>4, <3>6, <3>7, Zenon
    <3> QED BY <3>2, <3>3, <3>8, <3>9
  <2> QED BY <1>3, <1>4, <2>1
<1>6. PICK p : p \in P /\ p \notin Q
  <2>1. SUFFICES ASSUME P \in SUBSET Q PROVE FALSE
    OBVIOUS
  <2>2. P # Q
    OBVIOUS
  <2>3. Cardinality(P) # Cardinality(Q)
    BY <1>4, <2>1, <2>2, FS_Subset
  <2> QED BY <2>3
<1>7. ASSUME NEW h \in P, <<r, h>> \notin R PROVE <<h, r>> \in T
  BY <1>1, <1>2, <1>7
<1>8. ASSUME NEW g \in P, g \notin Q, <<r, g>> \notin R
      PROVE  g \in K /\ r \notin K /\ Cardinality(Q \cap K) >= share
  BY <1>1, <1>2, <1>7, <1>8
<1>9. CASE r \notin K
  <2>1. \A h \in P : <<r, h>> \notin R
    BY <1>1, <1>2, <1>9
  <2>2. \A g \in P : g \notin Q => g \in K
    BY <1>8, <2>1
  <2>3. P \ K \in SUBSET (Q \ K) /\ r \in Q \ K /\ r \notin P \ K
    BY <1>9, <2>2
  <2>4. ha <= hb /\ ha # hb
    <3>1. IsFiniteSet(Q \ K)
      BY <1>4, FS_Subset
    <3>2. PICK A, B : A = P \ K /\ B = Q \ K
      OBVIOUS
    <3>3. A \in SUBSET B /\ A # B /\ IsFiniteSet(B)
      BY <2>3, <3>1, <3>2
    <3>4. Cardinality(A) <= Cardinality(B) /\ Cardinality(A) # Cardinality(B)
      BY <3>3, FS_Subset
    <3> QED BY <1>3, <3>2, <3>4
  <2>5. kb >= share
    BY <1>3, <1>6, <1>8, <2>1
  <2>6. ka > share
    BY <1>3, <1>5, <2>4, <2>5
  <2>7. F \ P \subseteq K
    BY <1>1, <1>3, <2>6
  <2> QED BY <1>2, <1>9, <2>7
<1>10. CASE r \in K
  <2>1. \A h \in P : h \in K => <<r, h>> \notin R
    BY <1>1, <1>2
  <2>2. \A g \in P : g \in K => g \in Q
    BY <1>8, <1>10, <2>1
  <2>3. P \cap K \in SUBSET (Q \cap K) /\ r \in Q \cap K /\ r \notin P \cap K
    BY <1>10, <2>2
  <2>4. ka <= kb /\ ka # kb
    <3>1. IsFiniteSet(Q \cap K)
      BY <1>4, FS_Subset
    <3>2. PICK A, B : A = P \cap K /\ B = Q \cap K
      OBVIOUS
    <3>3. A \in SUBSET B /\ A # B /\ IsFiniteSet(B)
      BY <2>3, <3>1, <3>2
    <3>4. Cardinality(A) <= Cardinality(B) /\ Cardinality(A) # Cardinality(B)
      BY <3>3, FS_Subset
    <3> QED BY <1>3, <3>2, <3>4
  <2>5. p \notin K
    BY <1>6, <2>2
  <2>6. ~(kb > share)
    BY <1>1, <1>2, <1>3, <1>6, <2>5
  <2>7. ~(ka >= share)
    BY <1>5, <2>4, <2>6
  <2>8. <<r, p>> \notin R
    BY <1>1, <1>2, <1>3, <1>6, <2>7
  <2> QED BY <1>6, <1>8, <1>10, <2>8
<1> QED BY <1>9, <1>10

(* The documents of some rows, and which of them has a row before another.   *)
FileOf(list, c) == [k \in 1..c |-> list[k].file]
Ahead(list, c) ==
  LET F == ImageOf(FileOf(list, c), 1..c)
  IN {p \in F \X F : \E i, j \in 1..c : i < j /\ list[i].file = p[1] /\ list[j].file = p[2]}

ShownOf(page, rows) == {n \in DOMAIN rows : \E k \in DOMAIN page : page[k] = rows[n]}

(* The documents that a best page shows. *)
LEMMA DocumentsShown ==
  ASSUME NEW V, NEW list \in Seq(V), NEW c \in Nat, c = Len(list),
         \A i, j \in 1..c : list[i].file = list[j].file => i = j,
         NEW limit \in Nat, NEW page, IsBestPage(page, list, limit),
         NEW K, \A k \in 1..c : list[k].file \in K <=> list[k].tier = "archive"
  PROVE  LET X == ImageOf(FileOf(list, c), ShownOf(page, list))
         IN /\ BestShown(X, ImageOf(FileOf(list, c), 1..c), K, Ahead(list, c), ArchiveShare(limit))
            /\ Cardinality(X) = Smaller(limit, c)
<1> DEFINE fileOf == FileOf(list, c)
           S == ShownOf(page, list)
           F == ImageOf(fileOf, 1..c)
           X == ImageOf(fileOf, S)
           R == Ahead(list, c)
           archived(W) == {k \in W : list[k].tier = "archive"}
<1>1. DOMAIN list = 1..c
  OBVIOUS
<1>2. S \in SUBSET (1..c)
  BY <1>1 DEF ShownOf
<1>3. \A k \in 1..c : fileOf[k] = list[k].file
  BY DEF FileOf
<1>4. PICK share : share = ArchiveShare(limit)
  OBVIOUS
<1>5. share \in Nat
  BY <1>4, ShareIsPositive
<1>6. /\ Len(page) = Smaller(limit, c)
      /\ Cardinality(S) = Len(page)
      /\ \A k \in (1..c) \ S, l \in S :
           k < l => /\ list[k].tier = "archive" /\ list[l].tier # "archive"
                    /\ Cardinality(archived(S)) >= share
      /\ Cardinality(archived(S)) > share => (1..c) \ S = archived((1..c) \ S)
  BY <1>1, <1>4 DEF IsBestPage, ShownOf
<1>7. \A g, h \in F : <<g, h>> \in R <=> \E i, j \in 1..c : i < j /\ list[i].file = g /\ list[j].file = h
  BY DEF Ahead
<1>8. \A f \in F : \E k \in 1..c : list[k].file = f
  BY <1>3 DEF ImageOf
<1>9. \A f : f \in X <=> \E k \in S : list[k].file = f
  BY <1>2, <1>3 DEF ImageOf
<1>10. \A k \in 1..c : list[k].file \in F /\ (list[k].file \in X <=> k \in S)
  <2>1. ASSUME NEW k \in 1..c PROVE list[k].file \in F
    BY <1>3 DEF ImageOf
  <2>2. ASSUME NEW k \in 1..c PROVE list[k].file \in X <=> k \in S
    BY <1>2, <1>9
  <2> QED BY <2>1, <2>2
<1> HIDE DEF S, F, X, R, fileOf
<1>11. IsFiniteSet(1..c) /\ IsFiniteSet(S)
  <2>1. IsFiniteSet(1..c)
    BY FS_Interval
  <2> QED BY <1>2, <2>1, FS_Subset
<1>12. Cardinality(X) = Cardinality(S)
  <2>1. \A i, j \in S : fileOf[i] = fileOf[j] => i = j
    BY <1>2, <1>3
  <2> QED BY <1>11, <2>1, ImageIsAsLarge DEF X
<1>13. Cardinality(X \cap K) = Cardinality(archived(S))
  <2> DEFINE A == archived(S)
  <2>1. X \cap K = ImageOf(fileOf, A)
    <3>1. ASSUME NEW f \in X \cap K PROVE \E k \in A : fileOf[k] = f
      <4>1. PICK k \in S : list[k].file = f
        BY <1>9
      <4>2. k \in 1..c /\ list[k].tier = "archive"
        BY <1>2, <4>1
      <4> QED BY <1>3, <4>1, <4>2
    <3>2. ASSUME NEW k \in A PROVE fileOf[k] \in X \cap K
      <4>1. k \in S /\ k \in 1..c /\ list[k].tier = "archive"
        BY <1>2
      <4> QED BY <1>3, <1>10, <4>1
    <3> HIDE DEF A
    <3> QED BY <3>1, <3>2 DEF ImageOf
  <2>2. IsFiniteSet(A)
    BY <1>11, FS_Subset
  <2>3. \A i, j \in A : fileOf[i] = fileOf[j] => i = j
    BY <1>2, <1>3
  <2> HIDE DEF A
  <2>4. Cardinality(ImageOf(fileOf, A)) = Cardinality(A)
    BY <2>2, <2>3, ImageIsAsLarge
  <2> QED BY <2>1, <2>4 DEF A
<1>14. X \in SUBSET F
  BY <1>2, <1>9, <1>10
<1>15. ASSUME NEW g \in F \ X, NEW h \in X, <<g, h>> \in R
       PROVE  g \in K /\ h \notin K /\ Cardinality(X \cap K) >= share
  <2>1. PICK i \in 1..c, j \in 1..c : i < j /\ list[i].file = g /\ list[j].file = h
    BY <1>7, <1>14, <1>15
  <2>2. i \in (1..c) \ S /\ j \in S
    BY <1>10, <2>1
  <2>3. /\ list[i].tier = "archive" /\ list[j].tier # "archive"
        /\ Cardinality(archived(S)) >= share
    BY <1>6, <2>1, <2>2
  <2> QED BY <1>13, <2>1, <2>3
<1>16. ASSUME Cardinality(X \cap K) > share PROVE F \ X \subseteq K
  <2>1. (1..c) \ S = archived((1..c) \ S)
    BY <1>6, <1>13, <1>16
  <2>2. ASSUME NEW f \in F \ X PROVE f \in K
    <3>1. PICK k \in 1..c : list[k].file = f
      BY <1>8
    <3>2. k \in (1..c) \ S
      BY <1>10, <3>1
    <3>3. list[k].tier = "archive"
      BY <2>1, <3>2
    <3> QED BY <3>1, <3>3
  <2> QED BY <2>2
<1>17. ASSUME NEW g \in F, NEW h \in F, g # h PROVE <<g, h>> \in R \/ <<h, g>> \in R
  <2>1. PICK i \in 1..c, j \in 1..c : list[i].file = g /\ list[j].file = h
    BY <1>8
  <2>2. i < j \/ j < i
    BY <1>17, <2>1
  <2> QED BY <1>7, <2>1, <2>2
<1>18. BestShown(X, F, K, R, share)
  BY <1>14, <1>15, <1>16, <1>17 DEF BestShown
<1> QED BY <1>4, <1>6, <1>12, <1>18 DEF X, S, F, R, fileOf

(* A ranking and the same rows with more.                                    *)
Gaining(t, u, n) ==
  /\ ScoredRows(t, n) /\ ScoredRows(u, n)
  /\ \A x \in 1..n : /\ u[x].score >= t[x].score
                     /\ u[x].file = t[x].file
                     /\ u[x].tier = "archive" <=> t[x].tier = "archive"
  /\ \A x, y \in 1..n : t[x].file = t[y].file => (t[x].tier = "archive" <=> t[y].tier = "archive")

LEMMA StaysOver ==
  ASSUME NEW t, NEW u, NEW n, Gaining(t, u, n), NEW x \in 1..n, NEW y \in 1..n,
         RanksOver(t, x, y), u[y].score = t[y].score
  PROVE  RanksOver(u, x, y)
<1>1. /\ t[x].score \in Int /\ t[y].score \in Int /\ u[x].score \in Int /\ u[x].score >= t[x].score
  BY DEF Gaining, ScoredRows
<1> QED BY <1>1 DEF RanksOver

LEMMA OverIsOrder ==
  ASSUME NEW t, NEW n, ScoredRows(t, n), NEW x \in 1..n, NEW y \in 1..n, NEW z \in 1..n
  PROVE  /\ RanksOver(t, x, y) /\ RanksOver(t, y, z) => RanksOver(t, x, z)
         /\ ~(RanksOver(t, x, y) /\ RanksOver(t, y, x))
<1>1. n \in Nat /\ t[x].score \in Int /\ t[y].score \in Int /\ t[z].score \in Int
  BY DEF ScoredRows
<1> QED BY <1>1 DEF RanksOver

PageOf(t, limit) == CapArchiveShare(CapPerDocument(BestFirst(t), 1), limit)

ArchivedFiles(t, n) == {f \in FilesIn(t, n) : \E x \in 1..n : t[x].file = f /\ t[x].tier = "archive"}

(* The documents of a page, and what is shown of them.                       *)
LEMMA ShownAreShown ==
  ASSUME NEW V, NEW t \in Seq(V), NEW n, ScoredRows(t, n),
         \A x, y \in 1..n : t[x].file = t[y].file => (t[x].tier = "archive" <=> t[y].tier = "archive"),
         NEW limit \in Nat
  PROVE  LET list == CapPerDocument(BestFirst(t), 1)
             F == FilesIn(t, n)
             K == ArchivedFiles(t, n)
         IN \E q, c :
              /\ Standing(list, t, n, q, c)
              /\ Cardinality(F) = c
              /\ ImageOf(FileOf(list, c), 1..c) = F
              /\ BestShown(ImageOf(FileOf(list, c), ShownOf(PageOf(t, limit), list)),
                           F, K, Ahead(list, c), ArchiveShare(limit))
              /\ Cardinality(ImageOf(FileOf(list, c), ShownOf(PageOf(t, limit), list))) = Smaller(limit, c)
              /\ \A k \in DOMAIN PageOf(t, limit) :
                   \E m \in ShownOf(PageOf(t, limit), list) : PageOf(t, limit)[k] = list[m]
<1>1. PICK list : list = CapPerDocument(BestFirst(t), 1)
  OBVIOUS
<1>2. list \in Seq(V)
  BY <1>1, CapLeavesTheBest
<1>3. PICK q, c : Standing(list, t, n, q, c)
  BY <1>1, CapLeavesTheBest
<1>4. n \in Nat /\ DOMAIN t = 1..n
  BY DEF ScoredRows
<1> DEFINE F == FilesIn(t, n)
           K == ArchivedFiles(t, n)
           page == PageOf(t, limit)
<1>5. /\ c \in Nat
      /\ q \in [1..c -> 1..n]
      /\ DOMAIN list = 1..c
      /\ Len(list) = c
      /\ \A k \in 1..c : list[k] = t[q[k]]
      /\ \A i, j \in 1..c : t[q[i]].file = t[q[j]].file => i = j
  BY <1>3 DEF Standing, InOrder, LaidOut
<1>6. Cardinality(F) = c /\ ImageOf([k \in 1..c |-> t[q[k]].file], 1..c) = F
  BY <1>3, <1>4, OneForEach
<1>7. FileOf(list, c) = [k \in 1..c |-> t[q[k]].file]
  BY <1>5 DEF FileOf
<1>8. ImageOf(FileOf(list, c), 1..c) = F
  BY <1>6, <1>7
<1>9. \A i, j \in 1..c : list[i].file = list[j].file => i = j
  BY <1>5
<1>10. \A k \in 1..c : list[k].file \in F
  <2>1. \A k \in 1..c : FileOf(list, c)[k] = list[k].file
    BY DEF FileOf
  <2> QED BY <1>8, <2>1 DEF ImageOf
<1> HIDE DEF F
<1>11. \A f : f \in K <=> f \in F /\ \E x \in 1..n : t[x].file = f /\ t[x].tier = "archive"
  BY DEF ArchivedFiles, F
<1>12. ASSUME NEW k \in 1..c PROVE list[k].file \in K <=> list[k].tier = "archive"
  <2>1. list[k] = t[q[k]] /\ q[k] \in 1..n /\ list[k].file \in F
    BY <1>5, <1>10
  <2>2. list[k].tier = "archive" => list[k].file \in K
    BY <1>11, <2>1
  <2>3. ASSUME list[k].file \in K PROVE list[k].tier = "archive"
    <3>1. PICK x \in 1..n : t[x].file = list[k].file /\ t[x].tier = "archive"
      BY <1>11, <2>3
    <3> QED BY <2>1, <3>1
  <2> QED BY <2>2, <2>3
<1>13. page = CapArchiveShare(list, limit)
  BY <1>1 DEF PageOf
<1>14. \A i, j \in DOMAIN list : list[i] = list[j] => i = j
  BY <1>5, <1>9
<1>15. IsBestPage(page, list, limit)
  BY <1>2, <1>13, <1>14, PageIsABestOne
<1> HIDE DEF K, page
<1>16. /\ BestShown(ImageOf(FileOf(list, c), ShownOf(page, list)),
                    ImageOf(FileOf(list, c), 1..c), K, Ahead(list, c), ArchiveShare(limit))
       /\ Cardinality(ImageOf(FileOf(list, c), ShownOf(page, list))) = Smaller(limit, c)
  <2>1. c = Len(list) /\ c \in Nat
    BY <1>5
  <2> QED BY <1>2, <1>9, <1>12, <1>15, <2>1, DocumentsShown
<1>17. ASSUME NEW k \in DOMAIN page PROVE \E m \in ShownOf(page, list) : page[k] = list[m]
  <2>1. PICK place : DFirst(place, WithinShare(list, limit), c) /\ LaidOut(page, list, place, Smaller(limit, c))
    BY <1>2, <1>5, <1>13, PageIsOf
  <2>2. /\ DOMAIN page = 1..Smaller(limit, c)
        /\ \A l \in 1..Smaller(limit, c) : page[l] = list[place[l]]
        /\ place \in [1..c -> 1..c]
    BY <2>1 DEF DFirst, LaidOut
  <2>3. k \in 1..c
    BY <1>5, <2>2 DEF Smaller
  <2>4. place[k] \in 1..c /\ page[k] = list[place[k]]
    BY <2>2, <2>3
  <2>5. place[k] \in ShownOf(page, list)
    BY <1>5, <2>4 DEF ShownOf
  <2> QED BY <2>4, <2>5
<1> QED BY <1>1, <1>3, <1>6, <1>8, <1>16, <1>17 DEF F, K, page

(* A row that is on a page and was on none before has gained.                *)
LEMMA NewcomersGain ==
  ASSUME NEW V, NEW t \in Seq(V), NEW u \in Seq(V), NEW n, Gaining(t, u, n), NEW limit \in Nat
  PROVE  \A k \in DOMAIN PageOf(u, limit) :
           \E y \in 1..n : /\ PageOf(u, limit)[k] = u[y]
                           /\ \/ u[y].score # t[y].score
                              \/ \E l \in DOMAIN PageOf(t, limit) : PageOf(t, limit)[l] = t[y]
<1> DEFINE F == FilesIn(t, n)
           K == ArchivedFiles(t, n)
           P == PageOf(t, limit)
           Q == PageOf(u, limit)
<1>1. /\ n \in Nat
      /\ ScoredRows(t, n) /\ ScoredRows(u, n)
      /\ \A x \in 1..n : u[x].file = t[x].file /\ (u[x].tier = "archive" <=> t[x].tier = "archive")
      /\ \A x, y \in 1..n : t[x].file = t[y].file => (t[x].tier = "archive" <=> t[y].tier = "archive")
      /\ \A x, y \in 1..n : u[x].file = u[y].file => (u[x].tier = "archive" <=> u[y].tier = "archive")
  BY DEF Gaining, ScoredRows
<1>2. FilesIn(u, n) = F
  <2>1. [x \in 1..n |-> u[x].file] = [x \in 1..n |-> t[x].file]
    BY <1>1
  <2> QED BY <2>1 DEF FilesIn
<1>3. ArchivedFiles(u, n) = K
  BY <1>1, <1>2 DEF ArchivedFiles
<1>4. IsFiniteSet(F)
  <2>1. IsFiniteSet(1..n)
    <3>1. n \in Nat
      BY <1>1
    <3> QED BY <3>1, FS_Interval
  <2> QED BY <2>1, ImageIsNoLarger DEF FilesIn
<1> HIDE DEF F, K
<1>5. PICK list, rest : list = CapPerDocument(BestFirst(t), 1) /\ rest = CapPerDocument(BestFirst(u), 1)
  OBVIOUS
<1>6. PICK q, c :
        /\ Standing(list, t, n, q, c)
        /\ Cardinality(F) = c
        /\ ImageOf(FileOf(list, c), 1..c) = F
        /\ BestShown(ImageOf(FileOf(list, c), ShownOf(P, list)), F, K, Ahead(list, c), ArchiveShare(limit))
        /\ Cardinality(ImageOf(FileOf(list, c), ShownOf(P, list))) = Smaller(limit, c)
  BY <1>1, <1>5, ShownAreShown DEF F, K
<1>7. PICK r, d :
        /\ Standing(rest, u, n, r, d)
        /\ Cardinality(F) = d
        /\ ImageOf(FileOf(rest, d), 1..d) = F
        /\ BestShown(ImageOf(FileOf(rest, d), ShownOf(Q, rest)), F, K, Ahead(rest, d), ArchiveShare(limit))
        /\ Cardinality(ImageOf(FileOf(rest, d), ShownOf(Q, rest))) = Smaller(limit, d)
        /\ \A k \in DOMAIN Q : \E m \in ShownOf(Q, rest) : Q[k] = rest[m]
  BY <1>1, <1>2, <1>3, <1>5, ShownAreShown
<1>8. d = c
  BY <1>6, <1>7
<1> DEFINE X == ImageOf(FileOf(list, c), ShownOf(P, list))
           Y == ImageOf(FileOf(rest, c), ShownOf(Q, rest))
<1>9. /\ c \in Nat
      /\ q \in [1..c -> 1..n] /\ r \in [1..c -> 1..n]
      /\ DOMAIN list = 1..c /\ DOMAIN rest = 1..c /\ Len(list) = c /\ Len(rest) = c
      /\ \A k \in 1..c : list[k] = t[q[k]] /\ rest[k] = u[r[k]]
      /\ \A i, j \in 1..c : RanksOver(t, q[i], q[j]) <=> i < j
      /\ \A i, j \in 1..c : RanksOver(u, r[i], r[j]) <=> i < j
      /\ \A i, j \in 1..c : t[q[i]].file = t[q[j]].file => i = j
      /\ \A i, j \in 1..c : u[r[i]].file = u[r[j]].file => i = j
      /\ \A x \in 1..n : \E k \in 1..c : t[q[k]].file = t[x].file /\ (q[k] = x \/ RanksOver(t, q[k], x))
      /\ \A x \in 1..n : \E k \in 1..c : u[r[k]].file = u[x].file /\ (r[k] = x \/ RanksOver(u, r[k], x))
  BY <1>6, <1>7, <1>8 DEF Standing, InOrder, LaidOut
<1>10. \A k \in 1..c : FileOf(list, c)[k] = t[q[k]].file /\ FileOf(rest, c)[k] = u[r[k]].file
  BY <1>9 DEF FileOf
<1>11. ShownOf(P, list) \subseteq 1..c /\ ShownOf(Q, rest) \subseteq 1..c
  BY <1>9 DEF ShownOf
<1>12. Cardinality(X) = Cardinality(Y)
  BY <1>6, <1>7, <1>8
<1> HIDE DEF P, Q
<1>13. ASSUME NEW k \in DOMAIN Q, NEW m \in ShownOf(Q, rest), Q[k] = rest[m],
              u[r[m]].score = t[r[m]].score
       PROVE  \E l \in DOMAIN P : P[l] = t[r[m]]
  <2>1. PICK y : y = r[m]
    OBVIOUS
  <2>2. m \in 1..c /\ y \in 1..n /\ u[y].score = t[y].score /\ u[y].file = t[y].file
    BY <1>1, <1>9, <1>11, <1>13, <2>1
  <2>3. PICK f : f = t[y].file
    OBVIOUS
  <2>4. f \in Y
    BY <1>10, <2>1, <2>2, <2>3 DEF ImageOf
  <2>5. ASSUME NEW g \in F, <<g, f>> \in Ahead(list, c) PROVE <<g, f>> \in Ahead(rest, c)
    <3>1. PICK i \in 1..c, j \in 1..c : i < j /\ list[i].file = g /\ list[j].file = f
      BY <2>5 DEF Ahead
    <3>2. q[i] \in 1..n /\ q[j] \in 1..n /\ t[q[i]].file = g /\ t[q[j]].file = f /\ RanksOver(t, q[i], q[j])
      BY <1>9, <3>1
    <3>3. PICK h \in 1..c : t[q[h]].file = t[y].file /\ (q[h] = y \/ RanksOver(t, q[h], y))
      BY <1>9, <2>2
    <3>4. h = j
      BY <1>9, <2>3, <3>2, <3>3
    <3>5. RanksOver(t, q[i], y)
      BY <1>1, <2>2, <3>2, <3>3, <3>4, OverIsOrder
    <3>6. RanksOver(u, q[i], y)
      BY <2>2, <3>2, <3>5, StaysOver
    <3>7. PICK o \in 1..c : u[r[o]].file = u[q[i]].file /\ (r[o] = q[i] \/ RanksOver(u, r[o], q[i]))
      BY <1>9, <3>2
    <3>8. r[o] \in 1..n /\ u[r[o]].file = g
      BY <1>1, <1>9, <3>2, <3>7
    <3>9. RanksOver(u, r[o], y)
      BY <1>1, <2>2, <3>2, <3>6, <3>7, <3>8, OverIsOrder
    <3>10. o < m
      BY <1>9, <2>1, <2>2, <3>9
    <3>11. rest[o].file = g /\ rest[m].file = f
      BY <1>9, <2>1, <2>2, <2>3, <3>8
    <3>12. f \in F
      BY <2>4, <1>7, <1>8 DEF BestShown
    <3>13. ImageOf(FileOf(rest, c), 1..c) = F
      BY <1>7, <1>8
    <3> QED BY <2>2, <3>10, <3>11, <3>12, <3>13 DEF Ahead
  <2>6. f \in X
    <3>1. SUFFICES ASSUME f \notin X PROVE FALSE
      OBVIOUS
    <3>2. ArchiveShare(limit) \in Nat
      BY ShareIsPositive
    <3>3. /\ BestShown(X, F, K, Ahead(list, c), ArchiveShare(limit))
          /\ BestShown(Y, F, K, Ahead(rest, c), ArchiveShare(limit))
      BY <1>6, <1>7, <1>8
    <3> HIDE DEF X, Y
    <3> QED BY <1>4, <1>12, <2>4, <2>5, <3>1, <3>2, <3>3, NoneEntersBehind
  <2>7. PICK i \in ShownOf(P, list) : t[q[i]].file = f
    BY <1>10, <1>11, <2>6 DEF ImageOf
  <2>8. i \in 1..c /\ q[i] \in 1..n
    BY <1>9, <1>11, <2>7
  <2>9. q[i] = y
    <3>1. SUFFICES ASSUME RanksOver(t, q[i], y) PROVE FALSE
      <4>1. PICK h \in 1..c : t[q[h]].file = t[y].file /\ (q[h] = y \/ RanksOver(t, q[h], y))
        BY <1>9, <2>2
      <4>2. h = i
        BY <1>9, <2>3, <2>7, <2>8, <4>1
      <4> QED BY <4>1, <4>2
    <3>2. RanksOver(u, q[i], y)
      BY <2>2, <2>8, <3>1, StaysOver
    <3>3. PICK o \in 1..c : u[r[o]].file = u[q[i]].file /\ (r[o] = q[i] \/ RanksOver(u, r[o], q[i]))
      BY <1>9, <2>8
    <3>4. u[r[o]].file = u[r[m]].file
      BY <1>1, <2>1, <2>2, <2>3, <2>7, <2>8, <3>3
    <3>5. o = m
      BY <1>9, <2>2, <3>4
    <3>6. y = q[i] \/ RanksOver(u, y, q[i])
      BY <2>1, <3>3, <3>5
    <3> QED BY <1>1, <2>2, <2>8, <3>2, <3>6, OverIsOrder
  <2>10. \E l \in DOMAIN P : P[l] = list[i]
    BY <2>7 DEF ShownOf
  <2>11. list[i] = t[r[m]]
    <3>1. \A h \in 1..c : list[h] = t[q[h]]
      BY <1>9
    <3>2. list[i] = t[q[i]]
      BY <2>8, <3>1
    <3> QED BY <2>1, <2>9, <3>2
  <2> QED BY <2>10, <2>11
<1>14. ASSUME NEW k \in DOMAIN Q
       PROVE  \E y \in 1..n : /\ Q[k] = u[y]
                              /\ u[y].score # t[y].score \/ \E l \in DOMAIN P : P[l] = t[y]
  <2>1. PICK m \in ShownOf(Q, rest) : Q[k] = rest[m]
    BY <1>7
  <2>2. r[m] \in 1..n /\ Q[k] = u[r[m]]
    BY <1>9, <1>11, <2>1
  <2> QED BY <1>13, <2>1, <2>2
<1> QED BY <1>14 DEF P, Q

(* There are as many on a page, whatever the scores.                         *)
LEMMA PageIsAsLong ==
  ASSUME NEW V, NEW t \in Seq(V), NEW u \in Seq(V), NEW n, ScoredRows(t, n), ScoredRows(u, n),
         \A x \in 1..n : u[x].file = t[x].file, NEW limit \in Nat
  PROVE  Len(PageOf(t, limit)) = Len(PageOf(u, limit))
<1>1. n \in Nat
  BY DEF ScoredRows
<1>2. ASSUME NEW s \in Seq(V), ScoredRows(s, n)
      PROVE  Len(PageOf(s, limit)) = Smaller(limit, Cardinality(FilesIn(s, n)))
  <2>1. PICK list : list = CapPerDocument(BestFirst(s), 1)
    OBVIOUS
  <2>2. list \in Seq(V)
    BY <1>2, <2>1, CapLeavesTheBest
  <2>3. PICK q, c : Standing(list, s, n, q, c)
    BY <1>2, <2>1, CapLeavesTheBest
  <2>4. Len(list) = c
    BY <2>3 DEF Standing, InOrder, LaidOut
  <2>5. Cardinality(FilesIn(s, n)) = c
    BY <1>1, <2>3, OneForEach
  <2>6. Len(CapArchiveShare(list, limit)) = Smaller(limit, Len(list))
    BY <2>2, PageIsOf DEF LaidOut
  <2> QED BY <2>1, <2>4, <2>5, <2>6 DEF PageOf
<1>3. [x \in 1..n |-> u[x].file] = [x \in 1..n |-> t[x].file]
  OBVIOUS
<1>4. FilesIn(u, n) = FilesIn(t, n)
  BY <1>3 DEF FilesIn
<1> QED BY <1>2, <1>4

-----------------------------------------------------------------------------
(* A search in any documents whose legs are numbers.                         *)
Documents(docs) ==
  /\ \E D : docs \in Seq(D)
  /\ \A i \in DOMAIN docs : /\ {docs[i].keyword, docs[i].semantic, docs[i].phrase} \subseteq Int
                            /\ docs[i].tier \in DOMAIN Boost

LEMMA ScoresAreNatural ==
  ASSUME NEW doc, {doc.keyword, doc.semantic, doc.phrase} \subseteq Int, doc.tier \in DOMAIN Boost,
         NEW asked, asked.dense \in BOOLEAN, Base(doc, 0, asked.dense) > 0,
         NEW phrase \in {0, doc.phrase}
  PROVE  Row(doc, phrase, asked).score \in Nat
<1>1. doc.keyword \in Int /\ doc.semantic \in Int /\ phrase \in Int
  OBVIOUS
<1>2. PICK part : part = PhrasePart(phrase)
  OBVIOUS
<1>3. part \in Nat
  <2>1. CASE phrase > 35
    <3>1. part = ((phrase - 35) * 100) \div 65
      <4>1. 100 - 35 = 65
        OBVIOUS
      <4> QED BY <1>2, <2>1, <4>1 DEF PhrasePart, Fuse
    <3> QED BY <1>1, <2>1, <3>1
  <2>2. CASE ~(phrase > 35)
    BY <1>2, <2>2 DEF PhrasePart, Fuse
  <2> QED BY <2>1, <2>2
<1>4. PICK base : base = Base(doc, phrase, asked.dense)
  OBVIOUS
<1>5. base \in Nat
  <2>1. PhrasePart(0) = 0
    BY DEF PhrasePart, Fuse
  <2>2. CASE asked.dense = TRUE
    <3>1. base = 42 * doc.keyword + 42 * doc.semantic + 16 * part
      BY <1>2, <1>4, <2>2 DEF Base, Fuse
    <3>2. 42 * doc.keyword + 42 * doc.semantic + 16 * 0 > 0
      BY <2>1, <2>2 DEF Base, Fuse
    <3> QED BY <1>1, <1>3, <3>1, <3>2
  <2>3. CASE asked.dense = FALSE
    <3>1. base = 100 * doc.keyword /\ 100 * doc.keyword > 0
      BY <1>4, <2>3 DEF Base
    <3> QED BY <1>1, <3>1
  <2> QED BY <2>2, <2>3
<1>6. Row(doc, phrase, asked).score = (base * Boost[doc.tier]) \div 100
  BY <1>4 DEF Row
<1>7. Boost[doc.tier] \in {100, 115, 125}
  BY DEF Boost
<1>8. PICK boost : boost = Boost[doc.tier]
  OBVIOUS
<1>9. base * boost \in Nat
  BY <1>5, <1>7, <1>8
<1>10. (base * boost) \div 100 \in Nat
  BY <1>9
<1> QED BY <1>6, <1>8, <1>10

(* What is scored are rows of documents.                                     *)
RowsOf(rows, docs, asked) ==
  /\ \E V : rows \in Seq(V)
  /\ \A k \in DOMAIN rows : /\ rows[k].score \in Nat
                            /\ \E i \in DOMAIN docs : \E phrase : rows[k] = Row(docs[i], phrase, asked)

LEMMA ScoredIs ==
  ASSUME NEW docs, Documents(docs), NEW asked, asked.dense \in BOOLEAN
  PROVE  RowsOf(Scored(docs, asked), docs, asked)
<1> DEFINE found == Candidates(docs, asked)
           S == {n \in DOMAIN docs : /\ asked.archive \/ docs[n].tier # "archive"
                                     /\ Base(docs[n], 0, asked.dense) > 0}
<1>1. PICK D : docs \in Seq(D)
  BY DEF Documents
<1>2. found = Only(docs, S) /\ S \in SUBSET DOMAIN docs
  BY DEF Candidates
<1>3. \A n \in S : Base(docs[n], 0, asked.dense) > 0
  OBVIOUS
<1> HIDE DEF S, found
<1>4. PICK c : c = Cardinality(S)
  OBVIOUS
<1>5. c \in Nat /\ found \in Seq(D)
  BY <1>1, <1>2, <1>4, OnlyIs
<1>6. PICK at : Kept(docs, S, at, c)
  BY <1>1, <1>2, <1>4, OnlyIs
<1>7. /\ at \in [1..c -> S]
      /\ DOMAIN found = 1..c
      /\ \A k \in 1..c : found[k] = docs[at[k]]
  BY <1>2, <1>6 DEF Kept, LaidOut
<1> DEFINE first == [n \in DOMAIN found |-> [doc |-> found[n], score |-> Base(found[n], 0, asked.dense)]]
           V == ImageOf(first, 1..c)
<1>8. ASSUME NEW k \in 1..c
      PROVE  /\ at[k] \in DOMAIN docs
             /\ {docs[at[k]].keyword, docs[at[k]].semantic, docs[at[k]].phrase} \subseteq Int
             /\ docs[at[k]].tier \in DOMAIN Boost
             /\ Base(docs[at[k]], 0, asked.dense) > 0
  BY <1>2, <1>3, <1>7 DEF Documents
<1>9. \A k \in 1..c : first[k].doc = docs[at[k]] /\ first[k].score = Base(docs[at[k]], 0, asked.dense)
  BY <1>7
<1>10. ASSUME NEW k \in 1..c PROVE first[k].score \in Int
  <2>1. PICK doc : doc = docs[at[k]]
    OBVIOUS
  <2>2. doc.keyword \in Int /\ doc.semantic \in Int
    BY <1>8, <2>1
  <2>3. PhrasePart(0) = 0
    BY DEF PhrasePart, Fuse
  <2>4. Base(doc, 0, asked.dense) \in Int
    <3>1. CASE asked.dense = TRUE
      BY <2>2, <2>3, <3>1 DEF Base, Fuse
    <3>2. CASE asked.dense = FALSE
      BY <2>2, <3>2 DEF Base
    <3> QED BY <3>1, <3>2
  <2> QED BY <1>9, <2>1, <2>4
<1>11. first \in Seq(V) /\ ScoredRows(first, c)
  <2>1. DOMAIN first = 1..c /\ first = [k \in 1..c |-> first[k]]
    BY <1>7
  <2> HIDE DEF first
  <2>2. \A k \in 1..c : first[k] \in V
    BY DEF ImageOf
  <2> HIDE DEF V
  <2>3. first \in [1..c -> V]
    BY <2>1, <2>2
  <2>4. first \in Seq(V)
    BY <1>5, <2>3
  <2> QED BY <1>5, <1>10, <2>1, <2>4 DEF ScoredRows
<1> HIDE DEF first, V
<1>12. PICK pass1 : pass1 = BestFirst(first)
  OBVIOUS
<1>13. PICK to : InOrder(pass1, first, c, to, c)
  BY <1>11, <1>12, BestFirstIs
<1>14. /\ to \in [1..c -> 1..c]
       /\ DOMAIN pass1 = 1..c
       /\ \A k \in 1..c : pass1[k] = first[to[k]]
  BY <1>13 DEF InOrder, LaidOut
<1> DEFINE phrase(n) == PhraseOf(pass1[n].doc, n, asked)
           second == [n \in DOMAIN pass1 |-> Row(pass1[n].doc, phrase(n), asked)]
           W == ImageOf(second, 1..c)
<1>15. ASSUME NEW k \in 1..c
       PROVE  /\ second[k].score \in Nat
              /\ \E i \in DOMAIN docs : \E p : second[k] = Row(docs[i], p, asked)
  <2>1. PICK i : i = at[to[k]]
    OBVIOUS
  <2>2. to[k] \in 1..c /\ pass1[k].doc = docs[i]
    BY <1>9, <1>14, <2>1
  <2>3. PICK p : p = phrase(k)
    OBVIOUS
  <2>4. second[k] = Row(docs[i], p, asked)
    BY <1>14, <2>2, <2>3
  <2>5. p \in {0, docs[i].phrase}
    BY <2>2, <2>3 DEF PhraseOf
  <2>6. /\ i \in DOMAIN docs
        /\ {docs[i].keyword, docs[i].semantic, docs[i].phrase} \subseteq Int
        /\ docs[i].tier \in DOMAIN Boost
        /\ Base(docs[i], 0, asked.dense) > 0
    BY <1>8, <2>1, <2>2
  <2>7. Row(docs[i], p, asked).score \in Nat
    BY <2>5, <2>6, ScoresAreNatural
  <2> QED BY <2>4, <2>6, <2>7
<1>16. second \in Seq(W) /\ ScoredRows(second, c)
  <2>1. DOMAIN second = 1..c /\ second = [k \in 1..c |-> second[k]]
    BY <1>14
  <2> HIDE DEF second
  <2>2. \A k \in 1..c : second[k] \in W
    BY DEF ImageOf
  <2>3. \A k \in 1..c : second[k].score \in Int
    BY <1>15
  <2> HIDE DEF W
  <2>4. second \in [1..c -> W]
    BY <2>1, <2>2
  <2>5. second \in Seq(W)
    BY <1>5, <2>4
  <2> QED BY <1>5, <2>1, <2>3, <2>5 DEF ScoredRows
<1>17. PICK rows : rows = Scored(docs, asked)
  OBVIOUS
<1>18. rows = BestFirst(second)
  BY <1>12, <1>17 DEF Scored, first, found
<1> HIDE DEF second, W
<1>19. rows \in Seq(W)
  BY <1>16, <1>18, BestFirstIs
<1>20. PICK on : InOrder(rows, second, c, on, c)
  BY <1>16, <1>18, BestFirstIs
<1>21. \A k \in DOMAIN rows : on[k] \in 1..c /\ rows[k] = second[on[k]]
  BY <1>20 DEF InOrder, LaidOut
<1>22. \A k \in DOMAIN rows : /\ rows[k].score \in Nat
                              /\ \E i \in DOMAIN docs : \E p : rows[k] = Row(docs[i], p, asked)
  BY <1>15, <1>21
<1> QED BY <1>17, <1>19, <1>22 DEF RowsOf

(* A row is lifted, if at all, by links and with a meaning like the question. *)
LEMMA LiftIs ==
  ASSUME NEW docs, NEW asked, NEW rows, RowsOf(rows, docs, asked), NEW links, NEW n \in DOMAIN rows
  PROVE  /\ Lift(rows, n, links) \in Nat
         /\ links = {} \/ rows[n].semantic < SpreadGate => Lift(rows, n, links) = 0
<1> DEFINE donates(m) == m # n /\ {rows[m].name, rows[n].name} \in links
           give(m) == IF donates(m) THEN (SpreadAlpha * rows[m].score) \div 100 ELSE 0
           top == First(rows, SpreadFrom)
           amount == [m \in DOMAIN top |-> give(m)]
<1>1. PICK l \in Nat : l <= Len(rows) /\ DOMAIN top = 1..l
  <2>1. Len(rows) \in Nat /\ \E V : rows \in Seq(V)
    BY DEF RowsOf
  <2>2. Smaller(SpreadFrom, Len(rows)) \in 0..Len(rows)
    BY <2>1, RankingAssumption DEF Smaller
  <2>3. PICK s : s = Smaller(SpreadFrom, Len(rows))
    OBVIOUS
  <2>4. top = SubSeq(rows, 1, s)
    BY <2>3 DEF First
  <2>5. DOMAIN top = 1..s
    BY <2>1, <2>2, <2>3, <2>4
  <2> QED BY <2>1, <2>2, <2>3, <2>5
<1>2. ASSUME NEW m \in 1..l PROVE give(m) \in Nat /\ (links = {} => give(m) = 0)
  <2>1. m \in DOMAIN rows
    BY <1>1 DEF RowsOf
  <2>2. rows[m].score \in Nat
    BY <2>1 DEF RowsOf
  <2>3. (SpreadAlpha * rows[m].score) \div 100 \in Nat
    BY <2>2 DEF SpreadAlpha
  <2> QED BY <2>3
<1> HIDE DEF top
<1>3. amount = [m \in 1..l |-> give(m)]
  BY <1>1
<1> HIDE DEF give
<1>4. amount \in [1..l -> Nat]
  BY <1>2, <1>3
<1>5. Lift(rows, n, links) = IF rows[n].semantic < SpreadGate THEN 0 ELSE Total(amount)
  BY DEF Lift, give, top
<1> HIDE DEF amount
<1>6. amount \in Seq(Nat)
  BY <1>4
<1>7. Total(amount) \in Nat
  BY <1>6, TotalOfNaturals
<1>8. ASSUME links = {} PROVE Total(amount) = 0
  <2>1. \A m \in 1..l : amount[m] = 0
    BY <1>2, <1>3, <1>8
  <2>2. amount \in Seq({0})
    BY <1>4, <2>1
  <2> QED BY <2>2, TotalOfNothing
<1> QED BY <1>5, <1>7, <1>8

LEMMA SearchKeepsVerdict ==
  ASSUME NEW docs, Documents(docs), NEW asked, asked.dense \in BOOLEAN, asked.library \in BOOLEAN,
         asked.limit \in Nat, NEW links, asked.library => links = {}
  PROVE  LET with == Search(docs, asked, links)
             without == Search(docs, asked, {})
         IN /\ with.verdict = without.verdict
            /\ Len(with.rows) = Len(without.rows)
            /\ OfOneKind(docs) =>
                 \A n \in DOMAIN with.rows :
                   with.rows[n].name \notin {without.rows[m].name : m \in DOMAIN without.rows} =>
                     with.rows[n].semantic >= SpreadGate
<1> DEFINE with == Search(docs, asked, links)
           without == Search(docs, asked, {})
           rows == Scored(docs, asked)
           before == Page(Spread(rows, {}), asked)
           after == Page(Spread(rows, links), asked)
<1>1. RowsOf(rows, docs, asked)
  BY ScoredIs
<1>2. /\ with.verdict = without.verdict
      /\ with.rows = IF with.verdict.absent THEN <<>> ELSE after
      /\ without.rows = IF with.verdict.absent THEN <<>> ELSE before
  BY DEF Search, Judged
<1> HIDE DEF with, without, rows, before, after
<1>3. CASE asked.library
  <2>1. with.rows = without.rows
    BY <1>2, <1>3 DEF before, after
  <2> QED BY <1>2, <2>1 DEF with, without
<1>4. CASE ~asked.library
  <2> DEFINE t == [k \in DOMAIN rows |-> [rows[k] EXCEPT !.score = @ + Lift(rows, k, {})]]
             u == [k \in DOMAIN rows |-> [rows[k] EXCEPT !.score = @ + Lift(rows, k, links)]]
             n == Len(rows)
             V == ImageOf(t, 1..n) \cup ImageOf(u, 1..n)
  <2>1. n \in Nat /\ DOMAIN rows = 1..n
    BY <1>1 DEF RowsOf
  <2>2. before = PageOf(t, asked.limit) /\ after = PageOf(u, asked.limit)
    BY <1>4 DEF before, after, Page, Spread, PageOf
  <2>3. ASSUME NEW k \in 1..n
        PROVE  \E i \in DOMAIN docs :
                 /\ t[k].file = docs[i].file /\ t[k].tier = docs[i].tier
                 /\ u[k].file = docs[i].file /\ u[k].tier = docs[i].tier
                 /\ t[k].name = u[k].name /\ u[k].semantic = rows[k].semantic /\ u[k].semantic \in Int
                 /\ t[k].score = rows[k].score + Lift(rows, k, {})
                 /\ u[k].score = rows[k].score + Lift(rows, k, links)
    <3>1. PICK i \in DOMAIN docs : \E p : rows[k] = Row(docs[i], p, asked)
      BY <1>1, <2>1 DEF RowsOf
    <3>2. PICK p : rows[k] = Row(docs[i], p, asked)
      BY <3>1
    <3>3. PICK row : row = rows[k]
      OBVIOUS
    <3>4. PICK l, m : l = Lift(rows, k, {}) /\ m = Lift(rows, k, links)
      OBVIOUS
    <3>5. t[k] = [row EXCEPT !.score = @ + l] /\ u[k] = [row EXCEPT !.score = @ + m]
      BY <2>1, <3>3, <3>4
    <3>6. /\ row.file = docs[i].file /\ row.tier = docs[i].tier
          /\ row.semantic \in Int
          /\ DOMAIN row = {"name", "file", "tier", "semantic", "phrase", "score"}
      BY <3>2, <3>3 DEF Row, Documents
    <3> HIDE DEF t, u
    <3>7. /\ t[k].file = docs[i].file /\ t[k].tier = docs[i].tier
          /\ u[k].file = docs[i].file /\ u[k].tier = docs[i].tier
          /\ t[k].name = u[k].name /\ u[k].semantic = row.semantic /\ u[k].semantic \in Int
          /\ t[k].score = row.score + l
          /\ u[k].score = row.score + m
      BY <3>5, <3>6
    <3> QED BY <3>3, <3>4, <3>7
  <2>4. ASSUME NEW k \in 1..n
        PROVE  /\ rows[k].score \in Nat
               /\ Lift(rows, k, {}) = 0
               /\ Lift(rows, k, links) \in Nat
               /\ rows[k].semantic < SpreadGate => Lift(rows, k, links) = 0
    BY <1>1, <2>1, LiftIs DEF RowsOf
  <2>5. ASSUME NEW k \in 1..n
        PROVE  /\ t[k].score \in Int /\ u[k].score \in Int /\ u[k].score >= t[k].score
               /\ u[k].semantic >= SpreadGate \/ u[k].score = t[k].score
               /\ t[k].name = u[k].name
               /\ u[k].file = t[k].file /\ u[k].tier = t[k].tier
    <3>1. PICK s, l, m : s = rows[k].score /\ l = Lift(rows, k, {}) /\ m = Lift(rows, k, links)
      OBVIOUS
    <3>2. s \in Nat /\ l = 0 /\ m \in Nat /\ (rows[k].semantic < SpreadGate => m = 0)
      BY <2>4, <3>1
    <3>3. /\ t[k].score = s + l /\ u[k].score = s + m /\ t[k].name = u[k].name
          /\ u[k].semantic = rows[k].semantic /\ u[k].semantic \in Int
          /\ u[k].file = t[k].file /\ u[k].tier = t[k].tier
      BY <2>3, <3>1
    <3> HIDE DEF t, u
    <3> QED BY <3>2, <3>3 DEF SpreadGate
  <2>6. DOMAIN t = 1..n /\ DOMAIN u = 1..n
    BY <2>1
  <2>7. t = [k \in 1..n |-> t[k]] /\ u = [k \in 1..n |-> u[k]]
    BY <2>1
  <2> HIDE DEF t, u
  <2>8. \A k \in 1..n : t[k] \in V /\ u[k] \in V
    BY DEF ImageOf
  <2> HIDE DEF V, n
  <2>9. t \in Seq(V) /\ u \in Seq(V)
    <3>1. t \in [1..n -> V] /\ u \in [1..n -> V]
      BY <2>7, <2>8
    <3> QED BY <2>1, <3>1
  <2>10. ScoredRows(t, n) /\ ScoredRows(u, n) /\ \A x \in 1..n : u[x].file = t[x].file
    BY <2>1, <2>5, <2>6 DEF ScoredRows
  <2>11. Len(before) = Len(after)
    BY <2>2, <2>9, <2>10, PageIsAsLong
  <2>12. ASSUME OfOneKind(docs), NEW k \in DOMAIN after,
                after[k].name \notin {before[m].name : m \in DOMAIN before}
         PROVE  after[k].semantic >= SpreadGate
    <3>1. ASSUME NEW x \in 1..n, NEW y \in 1..n, t[x].file = t[y].file
          PROVE  t[x].tier = "archive" <=> t[y].tier = "archive"
      <4>1. PICK i \in DOMAIN docs : t[x].file = docs[i].file /\ t[x].tier = docs[i].tier
        BY <2>3
      <4>2. PICK j \in DOMAIN docs : t[y].file = docs[j].file /\ t[y].tier = docs[j].tier
        BY <2>3
      <4> QED BY <2>12, <3>1, <4>1, <4>2 DEF OfOneKind
    <3>2. Gaining(t, u, n)
      BY <2>5, <2>10, <3>1 DEF Gaining
    <3>3. PICK y \in 1..n : /\ after[k] = u[y]
                           /\ \/ u[y].score # t[y].score
                              \/ \E l \in DOMAIN before : before[l] = t[y]
      BY <2>2, <2>9, <2>12, <3>2, NewcomersGain
    <3>4. \A l \in DOMAIN before : before[l] # t[y]
      <4>1. t[y].name = after[k].name
        BY <2>5, <3>3
      <4> QED BY <2>12, <4>1
    <3> QED BY <2>5, <3>3, <3>4
  <2> QED BY <1>2, <2>11, <2>12 DEF with, without
<1> QED BY <1>3, <1>4

(* In any ranking without a row twice, and with any limit, the page is full  *)
(* when it can be, begins with the best row, and leaves none out for a worse *)
(* one but for the share of the archive (search.js 557-590, 686-698,         *)
(* 1186-1197).                                                               *)
THEOREM PageIsTheBest ==
  ASSUME \A c \in Cases : c.kind = "page" => RankedPage(c.rows, c.asked.limit)
  PROVE  AnswersSpec => []PageIsBest
<1>1. case = None \/ case \in Cases => PageIsBest
  <2> SUFFICES ASSUME case \in Cases, case.kind = "page" PROVE PageIsBest
    BY DEF PageIsBest, Is
  <2>1. PICK rows, asked : rows = case.rows /\ asked = case.asked
    OBVIOUS
  <2>2. RankedPage(rows, asked.limit)
    BY <2>1
  <2>3. PICK V : rows \in Seq(V)
    BY <2>2 DEF RankedPage
  <2>4. PICK cap, capped : /\ cap = IF asked.library THEN Len(rows) ELSE 1
                           /\ capped = CapPerDocument(rows, cap)
    OBVIOUS
  <2>5. capped \in Seq(V) /\ \A i, j \in DOMAIN capped : capped[i] = capped[j] => i = j
    BY <2>2, <2>3, <2>4, CapKeepsRows DEF RankedPage
  <2>6. IsBestPage(CapArchiveShare(capped, asked.limit), capped, asked.limit)
    BY <2>2, <2>5, PageIsABestOne DEF RankedPage
  <2> QED BY <2>1, <2>4, <2>6 DEF PageIsBest, Page
<1> QED BY <1>1, CaseIsGiven, PTL

(* Of any documents, links change neither what is said of an absence nor how *)
(* many rows there are; and what they bring in means something like the      *)
(* question, unless a document has archived rows and others. Only a curated  *)
(* corpus has links (search.js 1198-1251, graph-spread.js 63-107).           *)
Question(c) ==
  /\ Documents(c.docs)
  /\ c.asked.dense \in BOOLEAN /\ c.asked.library \in BOOLEAN /\ c.asked.limit \in Nat
  /\ c.asked.library => c.links = {}

THEOREM LinksChangeNoVerdict ==
  ASSUME \A c \in Cases : c.kind = "question" => Question(c)
  PROVE  AnswersSpec => []SpreadKeepsVerdict
<1>1. case = None \/ case \in Cases => SpreadKeepsVerdict
  <2> SUFFICES ASSUME case \in Cases, case.kind = "question" PROVE SpreadKeepsVerdict
    BY DEF SpreadKeepsVerdict, Is
  <2>1. PICK docs, asked, links : docs = case.docs /\ asked = case.asked /\ links = case.links
    OBVIOUS
  <2>2. /\ Documents(docs)
        /\ asked.dense \in BOOLEAN /\ asked.library \in BOOLEAN /\ asked.limit \in Nat
        /\ asked.library => links = {}
    BY <2>1 DEF Question
  <2>3. PICK with, without : with = Search(docs, asked, links) /\ without = Search(docs, asked, {})
    OBVIOUS
  <2>4. /\ with.verdict = without.verdict
        /\ Len(with.rows) = Len(without.rows)
        /\ OfOneKind(docs) =>
             \A n \in DOMAIN with.rows :
               with.rows[n].name \notin {without.rows[m].name : m \in DOMAIN without.rows} =>
                 with.rows[n].semantic >= SpreadGate
    BY <2>2, <2>3, SearchKeepsVerdict
  <2> QED BY <2>1, <2>3, <2>4 DEF SpreadKeepsVerdict
<1> QED BY <1>1, CaseIsGiven, PTL

-----------------------------------------------------------------------------
(* Scopes. A part of a list keeps to the front what is of a set.             *)
FrontIs(list, A) == \A i, j \in DOMAIN list : i < j /\ list[j] \in A => list[i] \in A

LEMMA FrontFirst ==
  ASSUME NEW V, NEW s \in Seq(V), NEW t \in Seq(V), NEW A, ToSet(s) \subseteq A, ToSet(t) \cap A = {}
  PROVE  FrontIs(s \o t, A)
<1> DEFINE m == Len(s)
           n == Len(t)
           st == s \o t
<1>1. m \in Nat /\ n \in Nat /\ DOMAIN s = 1..m /\ DOMAIN t = 1..n /\ DOMAIN st = 1..(m + n)
  OBVIOUS
<1>2. \A k \in 1..(m + n) : IF k <= m THEN k \in 1..m /\ st[k] = s[k] ELSE k - m \in 1..n /\ st[k] = t[k - m]
  OBVIOUS
<1> HIDE DEF m, n, st
<1>3. \A k \in 1..(m + n) : IF k <= m THEN st[k] \in A ELSE st[k] \notin A
  BY <1>1, <1>2 DEF ToSet
<1>4. \A i, j \in 1..(m + n) : i < j /\ j <= m => i <= m
  BY <1>1
<1> QED BY <1>1, <1>3, <1>4 DEF FrontIs, st

LEMMA OnceIs ==
  ASSUME NEW V, NEW names \in Seq(V)
  PROVE  Once(names) \in Seq(V) /\ ToSet(Once(names)) = ToSet(names) /\ IsInjective(Once(names))
<1> DEFINE F == {n \in DOMAIN names : \A m \in 1..(n - 1) : names[m] # names[n]}
<1>1. Once(names) = Only(names, F) /\ F \in SUBSET DOMAIN names
  BY DEF Once
<1>2. PICK l \in Nat : DOMAIN names = 1..l
  OBVIOUS
<1>3. \A n \in 1..l : n \in F <=> \A m \in 1..l : m < n => names[m] # names[n]
  <2>1. ASSUME NEW n \in 1..l, NEW m \in 1..l PROVE m < n <=> m \in 1..(n - 1)
    OBVIOUS
  <2>2. ASSUME NEW n \in 1..l, NEW m \in 1..(n - 1) PROVE m \in 1..l
    OBVIOUS
  <2> QED BY <1>2, <2>1, <2>2
<1> HIDE DEF F
<1>4. PICK once, c : once = Only(names, F) /\ c = Cardinality(F)
  OBVIOUS
<1>5. once \in Seq(V) /\ c \in Nat
  BY <1>1, <1>4, OnlyIs
<1>6. PICK at : Kept(names, F, at, c)
  BY <1>1, <1>4, OnlyIs
<1>7. /\ at \in [1..c -> F]
      /\ \A x \in F : \E k \in 1..c : at[k] = x
      /\ \A i, j \in 1..c : at[i] < at[j] <=> i < j
      /\ DOMAIN once = 1..c
      /\ \A k \in 1..c : once[k] = names[at[k]]
  BY <1>4, <1>6 DEF Kept, LaidOut
<1>8. \A k \in 1..c : at[k] \in 1..l /\ at[k] \in F
  BY <1>1, <1>2, <1>7
<1>9. ASSUME NEW n \in 1..l PROVE \E k \in 1..c : once[k] = names[n]
  <2> DEFINE S == {m \in 1..l : names[m] = names[n]}
  <2>1. S \subseteq Nat /\ n \in S /\ S \subseteq 1..l
    OBVIOUS
  <2>2. \A m \in 1..l : m \in S <=> names[m] = names[n]
    OBVIOUS
  <2> HIDE DEF S
  <2>3. PICK m \in S : \A k \in S : m <= k
    BY <2>1, Least
  <2>4. m \in 1..l /\ names[m] = names[n]
    BY <2>1, <2>2
  <2>5. \A k \in 1..l : k < m => names[k] # names[m]
    <3>1. ASSUME NEW k \in 1..l, k < m, names[k] = names[m] PROVE FALSE
      <4>1. m <= k
        BY <2>2, <2>3, <2>4, <3>1
      <4> QED BY <2>4, <3>1, <4>1
    <3> QED BY <3>1
  <2>6. m \in F
    BY <1>3, <2>4, <2>5
  <2>7. PICK k \in 1..c : at[k] = m
    BY <1>7, <2>6
  <2> QED BY <1>7, <2>4, <2>7
<1>10. ToSet(once) = ToSet(names)
  <2>1. ToSet(once) \subseteq ToSet(names)
    BY <1>2, <1>7, <1>8 DEF ToSet
  <2>2. ToSet(names) \subseteq ToSet(once)
    BY <1>2, <1>7, <1>9 DEF ToSet
  <2> QED BY <2>1, <2>2
<1>11. ASSUME NEW i \in 1..c, NEW j \in 1..c, once[i] = once[j] PROVE i = j
  <2>1. names[at[i]] = names[at[j]]
    BY <1>7, <1>11
  <2>2. ~(at[i] < at[j]) /\ ~(at[j] < at[i])
    BY <1>3, <1>8, <2>1
  <2>3. ~(i < j) /\ ~(j < i)
    BY <1>7, <2>2
  <2> QED BY <1>5, <2>3
<1>12. IsInjective(once)
  BY <1>7, <1>11 DEF IsInjective
<1> QED BY <1>1, <1>4, <1>5, <1>10, <1>12

(* What is on a machine, of corpora with names and rows of any kind.         *)
World(world, W, Kind) ==
  /\ Reserved \subseteq W
  /\ world.dirs \in Seq(W)
  /\ \A c \in ToSet(AllCorpora(world)) : /\ world.index[c].rows \in Seq(Kind)
                                         /\ world.index[c].strong \in BOOLEAN

LEMMA CorporaAre ==
  /\ CORPORA \in Seq(Reserved)
  /\ DOMAIN CORPORA = 1..4
  /\ IsInjective(CORPORA)
  /\ ToSet(CORPORA) = {"curated", "projects", "staging", "handoff"}
<1>1. CORPORA = <<"curated", "projects", "staging", "handoff">>
  BY DEF CORPORA
<1>2. DOMAIN CORPORA = 1..4 /\ 1..4 = {1, 2, 3, 4}
  BY <1>1
<1>3. ToSet(CORPORA) = {"curated", "projects", "staging", "handoff"}
  BY <1>1, <1>2 DEF ToSet
<1>4. CORPORA \in Seq(Reserved)
  BY <1>1, <1>3 DEF Reserved
<1>5. IsInjective(CORPORA)
  BY <1>1, <1>2 DEF IsInjective
<1> QED BY <1>2, <1>3, <1>4, <1>5

LEMMA LibraryIs ==
  ASSUME NEW W, NEW Kind, NEW world, World(world, W, Kind)
  PROVE  /\ LibraryCorpora(world) \in Seq(W)
         /\ ToSet(LibraryCorpora(world)) \cap Reserved = {}
         /\ CORPORA \in Seq(W)
         /\ AllCorpora(world) \in Seq(W)
         /\ ToSet(AllCorpora(world)) = ToSet(CORPORA) \cup ToSet(LibraryCorpora(world))
<1>1. LibraryCorpora(world) \in Seq(W)
      /\ ToSet(LibraryCorpora(world)) = ToSet(world.dirs) \cap (ToSet(world.dirs) \ Reserved)
  BY PickedIs DEF LibraryCorpora, World
<1>2. CORPORA \in Seq(W)
  BY CorporaAre DEF World
<1>3. /\ AllCorpora(world) \in Seq(W)
      /\ ToSet(AllCorpora(world)) = ToSet(CORPORA) \cup ToSet(LibraryCorpora(world))
  BY <1>1, <1>2, BothAreIn DEF AllCorpora
<1> QED BY <1>1, <1>2, <1>3

(* What a scope asks for. *)
Asks(scope, world) == Joined([n \in DOMAIN scope |-> Named(scope[n], world)])

LEMMA AsksFor ==
  ASSUME NEW W, NEW Kind, NEW world, World(world, W, Kind), NEW scope \in Seq(W)
  PROVE  /\ Asks(scope, world) \in Seq(W)
         /\ \A c : c \in ToSet(Asks(scope, world)) <=>
                     \E n \in DOMAIN scope : c \in ToSet(Named(scope[n], world))
<1> DEFINE lists == [n \in DOMAIN scope |-> Named(scope[n], world)]
<1>1. ASSUME NEW n \in DOMAIN scope PROVE Named(scope[n], world) \in Seq(W)
  <2>1. PICK name : name = scope[n] /\ name \in W
    OBVIOUS
  <2>2. CORPORA \in Seq(W) /\ AllCorpora(world) \in Seq(W) /\ <<name>> \in Seq(W)
    BY <2>1, LibraryIs
  <2>3. Named(name, world) \in {CORPORA, AllCorpora(world), <<name>>}
    BY DEF Named
  <2> QED BY <2>1, <2>2, <2>3
<1>2. lists \in Seq(Seq(W)) /\ DOMAIN lists = DOMAIN scope
  <2>1. PICK l \in Nat : DOMAIN scope = 1..l
    OBVIOUS
  <2>2. lists \in [1..l -> Seq(W)]
    BY <1>1, <2>1
  <2> QED BY <2>1, <2>2
<1>3. \A n \in DOMAIN scope : lists[n] = Named(scope[n], world)
  OBVIOUS
<1> HIDE DEF lists
<1>4. PICK joined : joined = Joined(lists)
  OBVIOUS
<1>5. joined \in Seq(W)
  BY <1>2, <1>4, JoinedIs
<1>6. PICK at, of : Behind(joined, lists, at, of)
  BY <1>2, <1>4, JoinedIs
<1>7. /\ \A k \in DOMAIN joined : /\ at[k] \in DOMAIN lists /\ of[k] \in DOMAIN lists[at[k]]
                                  /\ joined[k] = lists[at[k]][of[k]]
      /\ \A n \in DOMAIN lists : \A m \in DOMAIN lists[n] : \E k \in DOMAIN joined : at[k] = n /\ of[k] = m
  BY <1>6 DEF Behind
<1>8. ASSUME NEW k \in DOMAIN joined PROVE \E n \in DOMAIN scope : joined[k] \in ToSet(Named(scope[n], world))
  <2>1. at[k] \in DOMAIN scope /\ joined[k] \in ToSet(lists[at[k]])
    BY <1>2, <1>7 DEF ToSet
  <2> QED BY <1>3, <2>1
<1>9. ASSUME NEW n \in DOMAIN scope, NEW c \in ToSet(Named(scope[n], world)) PROVE c \in ToSet(joined)
  <2>1. PICK m \in DOMAIN lists[n] : lists[n][m] = c
    BY <1>3 DEF ToSet
  <2>2. PICK k \in DOMAIN joined : at[k] = n /\ of[k] = m
    BY <1>2, <1>7
  <2>3. joined[k] = c
    BY <1>7, <2>1, <2>2
  <2> QED BY <2>3 DEF ToSet
<1>10. \A c : c \in ToSet(joined) <=> \E n \in DOMAIN scope : c \in ToSet(Named(scope[n], world))
  BY <1>8, <1>9 DEF ToSet
<1>11. Asks(scope, world) = joined
  BY <1>4 DEF Asks, lists
<1> QED BY <1>5, <1>10, <1>11

LEMMA ExpandIs ==
  ASSUME NEW W, NEW Kind, NEW world, World(world, W, Kind), NEW scope \in Seq(W)
  PROVE  /\ ExpandScope(scope, world) \in Seq(W)
         /\ ToSet(ExpandScope(scope, world)) = ToSet(Asks(scope, world))
         /\ IsInjective(ExpandScope(scope, world))
         /\ FrontIs(ExpandScope(scope, world), ToSet(CORPORA))
         /\ ToSet(Once(Asks(scope, world))) = ToSet(Asks(scope, world))
<1>1. PICK names, work : names = Once(Asks(scope, world)) /\ work = ToSet(CORPORA)
  OBVIOUS
<1>2. /\ names \in Seq(W) /\ ToSet(names) = ToSet(Asks(scope, world)) /\ IsInjective(names)
      /\ CORPORA \in Seq(W) /\ IsInjective(CORPORA)
  BY <1>1, AsksFor, OnceIs, LibraryIs, CorporaAre
<1>3. PICK s, t : s = Picked(CORPORA, ToSet(names)) /\ t = Picked(names, ToSet(names) \ work)
  OBVIOUS
<1>4. /\ s \in Seq(W) /\ ToSet(s) = work \cap ToSet(names) /\ IsInjective(s)
      /\ t \in Seq(W) /\ ToSet(t) = ToSet(names) \cap (ToSet(names) \ work) /\ IsInjective(t)
  BY <1>1, <1>2, <1>3, PickedIs
<1>5. ExpandScope(scope, world) = s \o t
  BY <1>1, <1>3 DEF ExpandScope, WorkFirst, Asks
<1>6. ToSet(s) \cap ToSet(t) = {} /\ ToSet(s) \subseteq work /\ ToSet(t) \cap work = {}
      /\ ToSet(s) \cup ToSet(t) = ToSet(names)
  BY <1>4
<1>7. s \o t \in Seq(W) /\ ToSet(s \o t) = ToSet(s) \cup ToSet(t) /\ IsInjective(s \o t)
  BY <1>4, <1>6, BothAreIn
<1>8. FrontIs(s \o t, work)
  BY <1>4, <1>6, FrontFirst
<1> QED BY <1>1, <1>2, <1>5, <1>6, <1>7, <1>8

(* The first rows of some. *)
LEMMA TrimIs ==
  ASSUME NEW Kind, NEW rows \in Seq(Kind), NEW cap \in Nat
  PROVE  /\ Trim(rows, cap) \in Seq(Kind)
         /\ Len(Trim(rows, cap)) <= cap
         /\ Len(rows) <= cap => Trim(rows, cap) = rows
         /\ cap > 0 => (Trim(rows, cap) = <<>> <=> rows = <<>>)
<1>1. PICK l \in Nat : l = Len(rows) /\ DOMAIN rows = 1..l
  OBVIOUS
<1>2. PICK m : m = Min({l, cap})
  OBVIOUS
<1>3. m = IF l < cap THEN l ELSE cap
  <2>1. l \in Int /\ cap \in Int
    BY <1>1
  <2> QED BY <1>2, <2>1, LargerOfTwo
<1>4. Trim(rows, cap) = SubSeq(rows, 1, m)
  BY <1>1, <1>2 DEF Trim
<1>5. m \in 0..l /\ m <= cap
  BY <1>3
<1>6. PICK t : t = SubSeq(rows, 1, m)
  OBVIOUS
<1>7. t \in Seq(Kind) /\ Len(t) = m /\ \A k \in 1..m : t[k] = rows[k]
  BY <1>1, <1>5, <1>6
<1>8. ASSUME l <= cap PROVE t = rows
  <2>1. m = l
    BY <1>3, <1>8
  <2> QED BY <1>1, <1>7, <2>1
<1>9. ASSUME cap > 0 PROVE t = <<>> <=> rows = <<>>
  <2>1. m = 0 <=> l = 0
    BY <1>3, <1>9
  <2> QED BY <1>1, <1>7, <2>1
<1> QED BY <1>1, <1>4, <1>5, <1>6, <1>7, <1>8, <1>9

(* A part of an answer has some rows or says that nothing strong was found,  *)
(* but for what is not available.                                            *)
Part(part, Kind, rated) ==
  /\ part.results \in Seq(Kind)
  /\ part.noStrongMatch \in BOOLEAN
  /\ rated => (part.noStrongMatch <=> part.results = <<>>)

LEMMA SingleIs ==
  ASSUME NEW W, NEW Kind, NEW world, World(world, W, Kind), NEW c \in ToSet(AllCorpora(world)),
         NEW asked, asked.limit \in Nat \ {0}
  PROVE  /\ Part(Single(c, asked, world), Kind, c # "curated" \/ world.index[c].state # "none")
         /\ Len(Single(c, asked, world).results) <= asked.limit
         /\ Single(c, asked, world).bestWeak \in Seq(Kind)
         /\ DOMAIN Single(c, asked, world) =
              {"mode", "results", "bestWeak", "noStrongMatch", "indexStale"}
<1>1. PICK idx, rows, limit, part : /\ idx = world.index[c]
                                    /\ limit = asked.limit
                                    /\ rows = Trim(idx.rows, limit)
                                    /\ part = Single(c, asked, world)
  OBVIOUS
<1>2. idx.rows \in Seq(Kind) /\ idx.strong \in BOOLEAN /\ limit \in Nat
  BY <1>1 DEF World
<1>3. rows \in Seq(Kind) /\ Len(rows) <= limit
  BY <1>1, <1>2, TrimIs
<1> DEFINE made(mode, results, weak, absent) ==
             [mode |-> mode, results |-> results, bestWeak |-> weak, noStrongMatch |-> absent,
              indexStale |-> idx.stale]
<1>4. part = CASE idx.state = "none" /\ c = "curated" -> made("unavailable", <<>>, <<>>, FALSE)
               [] \/ idx.state = "none" /\ c # "curated"
                  \/ idx.state = "empty" -> made("empty", <<>>, <<>>, TRUE)
               [] OTHER -> IF idx.strong THEN made("ranked", rows, <<>>, rows = <<>>)
                           ELSE made("ranked", <<>>, rows, TRUE)
  BY <1>1 DEF Single, Trim
<1>5. ASSUME NEW mode, NEW results \in Seq(Kind), NEW weak \in Seq(Kind), NEW absent \in BOOLEAN,
             Len(results) <= limit, part = made(mode, results, weak, absent)
      PROVE  /\ part.results = results /\ part.noStrongMatch = absent
             /\ part.results \in Seq(Kind) /\ part.noStrongMatch \in BOOLEAN
             /\ Len(part.results) <= limit
             /\ part.bestWeak \in Seq(Kind)
             /\ DOMAIN part = {"mode", "results", "bestWeak", "noStrongMatch", "indexStale"}
  <2>1. part.results = results /\ part.noStrongMatch = absent /\ part.bestWeak = weak
    BY <1>5
  <2>2. DOMAIN part = {"mode", "results", "bestWeak", "noStrongMatch", "indexStale"}
    BY <1>5
  <2> QED BY <1>5, <2>1, <2>2
<1>6. <<>> \in Seq(Kind) /\ Len(<<>>) <= limit
  BY <1>2
<1> HIDE DEF made
<1> DEFINE rated == c # "curated" \/ idx.state # "none"
<1>7. /\ part.results \in Seq(Kind) /\ part.noStrongMatch \in BOOLEAN
      /\ Len(part.results) <= limit
      /\ part.bestWeak \in Seq(Kind)
      /\ DOMAIN part = {"mode", "results", "bestWeak", "noStrongMatch", "indexStale"}
      /\ rated => (part.noStrongMatch <=> part.results = <<>>)
  <2>1. CASE idx.state = "none" /\ c = "curated"
    <3>1. part = made("unavailable", <<>>, <<>>, FALSE)
      BY <1>4, <2>1
    <3> QED BY <1>5, <1>6, <2>1, <3>1
  <2>2. CASE ~(idx.state = "none" /\ c = "curated") /\ (idx.state = "none" \/ idx.state = "empty")
    <3>1. part = made("empty", <<>>, <<>>, TRUE)
      BY <1>4, <2>2
    <3> QED BY <1>5, <1>6, <3>1
  <2>3. CASE ~(idx.state = "none" \/ idx.state = "empty") /\ idx.strong
    <3>1. part = made("ranked", rows, <<>>, rows = <<>>)
      BY <1>4, <2>3
    <3>2. (rows = <<>>) \in BOOLEAN
      OBVIOUS
    <3>3. part.results = rows /\ (part.noStrongMatch <=> rows = <<>>)
      BY <1>3, <1>5, <1>6, <3>1, <3>2
    <3> QED BY <1>3, <1>5, <1>6, <3>1, <3>2, <3>3
  <2>4. CASE ~(idx.state = "none" \/ idx.state = "empty") /\ ~idx.strong
    <3>1. part = made("ranked", <<>>, rows, TRUE)
      BY <1>4, <2>4
    <3> QED BY <1>3, <1>5, <1>6, <3>1
  <2> QED BY <2>1, <2>2, <2>3, <2>4
<1> QED BY <1>1, <1>7 DEF Part

LEMMA CompactIs ==
  ASSUME NEW Kind, NEW part, NEW rated, rated \in BOOLEAN, Part(part, Kind, rated),
         part.bestWeak \in Seq(Kind),
         DOMAIN part = {"mode", "results", "bestWeak", "noStrongMatch", "indexStale"},
         NEW cap \in Nat \ {0}
  PROVE  /\ Part(Compact(part, cap), Kind, rated)
         /\ rated => (Compact(part, cap).noStrongMatch <=> part.noStrongMatch)
<1>1. PICK ranked : ranked = Len(part.results) + Len(part.bestWeak)
  OBVIOUS
<1>2. PICK small : small = Compact(part, cap)
  OBVIOUS
<1>3. /\ small.results = Trim(part.results, cap)
      /\ small.noStrongMatch = (part.noStrongMatch \/ ranked = 0)
  BY <1>1, <1>2 DEF Compact
<1>4. Trim(part.results, cap) \in Seq(Kind) /\ (Trim(part.results, cap) = <<>> <=> part.results = <<>>)
  BY TrimIs DEF Part
<1>5. ranked = 0 => part.results = <<>>
  <2>1. PICK k, l : k = Len(part.results) /\ l = Len(part.bestWeak)
    OBVIOUS
  <2>2. k \in Nat /\ l \in Nat /\ (k = 0 => part.results = <<>>)
    BY <2>1 DEF Part
  <2> QED BY <1>1, <2>1, <2>2
<1> QED BY <1>2, <1>3, <1>4, <1>5 DEF Part
(* Lists of numbers that are no larger than a limit. *)
LEMMA SumsAreBounded ==
  ASSUME NEW list \in Seq(Nat), NEW limit \in Nat, \A k \in DOMAIN list : list[k] <= limit
  PROVE  Total(list) <= limit * Len(list)
<1>1. PICK s, n : s = Sums(list) /\ n = Len(list)
  OBVIOUS
<1>2. n \in Nat /\ list \in Seq(Int) /\ \A k \in 1..n : list[k] \in Nat /\ list[k] <= limit
  BY <1>1
<1>3. s[0] = 0 /\ \A k \in 1..n : s[k] = s[k - 1] + list[k]
  BY <1>1, <1>2, SumsAre
<1>4. \A k \in 0..n : s[k] \in Nat
  BY <1>1, SumsGrow
<1> DEFINE TooLarge == {k \in 0..n : ~(s[k] <= limit * k)}
<1>5. SUFFICES ASSUME TooLarge # {} PROVE FALSE
  BY <1>1, <1>2 DEF Total
<1>6. TooLarge \subseteq Nat /\ TooLarge \subseteq 0..n /\ \A k \in 0..n : k \in TooLarge <=> ~(s[k] <= limit * k)
  OBVIOUS
<1> HIDE DEF TooLarge
<1>7. PICK k \in TooLarge : \A j \in TooLarge : k <= j
  BY <1>5, <1>6, Least
<1>8. k \in 0..n /\ ~(s[k] <= limit * k)
  BY <1>6
<1>9. k # 0
  <2>1. SUFFICES ASSUME k = 0 PROVE FALSE
    OBVIOUS
  <2>2. limit * 0 = 0
    OBVIOUS
  <2> QED BY <1>3, <1>8, <2>1, <2>2
<1>10. k \in 1..n /\ k - 1 \in 0..n /\ ~(k <= k - 1)
  BY <1>2, <1>8, <1>9
<1>11. s[k - 1] <= limit * (k - 1)
  BY <1>6, <1>7, <1>10
<1>12. PICK a, b, d : a = s[k] /\ b = s[k - 1] /\ d = list[k]
  OBVIOUS
<1>13. a = b + d /\ b \in Nat /\ d \in Nat /\ d <= limit
  BY <1>2, <1>3, <1>4, <1>10, <1>12
<1>14. limit * k = limit * (k - 1) + limit
  BY <1>10
<1>15. limit * k \in Int /\ limit * (k - 1) \in Int
  BY <1>10
<1> QED BY <1>8, <1>11, <1>12, <1>13, <1>14, <1>15

LEMMA NoElement ==
  ASSUME NEW V, NEW list \in Seq(V), \A k \in DOMAIN list : FALSE
  PROVE  list = <<>>
<1>1. PICK n \in Nat : n = Len(list) /\ DOMAIN list = 1..n
  OBVIOUS
<1>2. n = 0
  <2>1. SUFFICES ASSUME n # 0 PROVE FALSE
    OBVIOUS
  <2>2. 1 \in 1..n
    BY <2>1
  <2> QED BY <1>1, <2>2
<1> QED BY <1>1, <1>2

(* The rows of some corpora, one behind the other.                           *)
Laid(flat, names, rowsOf) ==
  \E lists : /\ flat = Joined(lists)
             /\ lists = [n \in DOMAIN names |-> From(names[n], rowsOf[names[n]])]

(* Each row is there, under its corpus, and the corpora keep their order.    *)
CorporaInOrder(flat, names, at) ==
  /\ \A k \in DOMAIN flat : at[k] \in DOMAIN names /\ flat[k].corpus = names[at[k]]
  /\ \A i, j \in DOMAIN flat : i < j => at[i] <= at[j]

Every(flat, names, rowsOf) ==
  \A n \in DOMAIN names : \A m \in DOMAIN rowsOf[names[n]] :
    [corpus |-> names[n], row |-> rowsOf[names[n]][m]] \in ToSet(flat)

Sized(flat, names, rowsOf) ==
  /\ flat = <<>> <=> \A c \in ToSet(names) : rowsOf[c] = <<>>
  /\ \A limit \in Nat : (\A c \in ToSet(names) : Len(rowsOf[c]) <= limit)
                           => Len(flat) <= limit * Len(names)

LEMMA FlatIs ==
  ASSUME NEW W, NEW Kind, NEW names \in Seq(W), NEW rowsOf,
         \A c \in ToSet(names) : rowsOf[c] \in Seq(Kind),
         NEW flat, Laid(flat, names, rowsOf)
  PROVE  /\ flat \in Seq([corpus : W, row : Kind])
         /\ Every(flat, names, rowsOf)
         /\ \E at : CorporaInOrder(flat, names, at)
         /\ Sized(flat, names, rowsOf)
<1>1. PICK lists : flat = Joined(lists) /\ lists = [n \in DOMAIN names |-> From(names[n], rowsOf[names[n]])]
  BY DEF Laid
<1>2. PICK l : l = Len(names) /\ l \in Nat /\ DOMAIN names = 1..l
  OBVIOUS
<1>3. \A n \in 1..l : names[n] \in W /\ names[n] \in ToSet(names)
  BY <1>2 DEF ToSet
<1> DEFINE V == [corpus : W, row : Kind]
<1>4. ASSUME NEW n \in 1..l
      PROVE  /\ lists[n] \in Seq(V) /\ DOMAIN lists[n] = DOMAIN rowsOf[names[n]]
             /\ Len(lists[n]) = Len(rowsOf[names[n]]) /\ Len(lists[n]) \in Nat
             /\ \A m \in DOMAIN lists[n] : lists[n][m] = [corpus |-> names[n], row |-> rowsOf[names[n]][m]]
  <2>1. PICK rows, name : rows = rowsOf[names[n]] /\ name = names[n]
    OBVIOUS
  <2>2. rows \in Seq(Kind) /\ name \in W
    BY <1>3, <2>1
  <2>3. PICK p \in Nat : p = Len(rows) /\ DOMAIN rows = 1..p
    BY <2>2
  <2>4. lists[n] = [m \in 1..p |-> [corpus |-> name, row |-> rows[m]]]
    BY <1>1, <1>2, <2>1, <2>3 DEF From
  <2>5. \A m \in 1..p : [corpus |-> name, row |-> rows[m]] \in V
    BY <2>2, <2>3
  <2>6. PICK listed : listed = [m \in 1..p |-> [corpus |-> name, row |-> rows[m]]]
    OBVIOUS
  <2>7. listed \in [1..p -> V]
    BY <2>5, <2>6
  <2> HIDE DEF V
  <2>8. listed \in Seq(V) /\ DOMAIN listed = 1..p /\ Len(listed) = p
    BY <2>3, <2>6, <2>7
  <2> QED BY <2>1, <2>3, <2>4, <2>6, <2>8
<1> HIDE DEF V
<1>5. DOMAIN lists = 1..l /\ lists \in Seq(Seq(V))
  <2>1. DOMAIN lists = 1..l
    BY <1>1, <1>2
  <2>2. lists = [n \in 1..l |-> lists[n]]
    BY <1>1, <1>2
  <2>3. lists \in [1..l -> Seq(V)]
    BY <1>4, <2>2
  <2> QED BY <1>2, <2>1, <2>3
<1>6. flat \in Seq(V) /\ Len(flat) = Total([n \in DOMAIN lists |-> Len(lists[n])])
  BY <1>1, <1>5, JoinedIs
<1>7. PICK at, of : Behind(flat, lists, at, of)
  BY <1>1, <1>5, JoinedIs
<1>8. /\ \A k \in DOMAIN flat : /\ at[k] \in 1..l /\ of[k] \in DOMAIN lists[at[k]]
                                /\ flat[k] = lists[at[k]][of[k]]
      /\ \A i, j \in DOMAIN flat : i < j => at[i] <= at[j]
      /\ \A n \in 1..l : \A m \in DOMAIN lists[n] : \E k \in DOMAIN flat : at[k] = n /\ of[k] = m
  BY <1>5, <1>7 DEF Behind
<1>9. Every(flat, names, rowsOf)
  <2> SUFFICES ASSUME NEW n \in 1..l, NEW m \in DOMAIN rowsOf[names[n]]
               PROVE  [corpus |-> names[n], row |-> rowsOf[names[n]][m]] \in ToSet(flat)
    BY <1>2 DEF Every
  <2>1. m \in DOMAIN lists[n] /\ lists[n][m] = [corpus |-> names[n], row |-> rowsOf[names[n]][m]]
    BY <1>4
  <2>2. PICK k \in DOMAIN flat : at[k] = n /\ of[k] = m
    BY <1>8, <2>1
  <2>3. flat[k] = lists[n][m]
    BY <1>8, <2>2
  <2> QED BY <2>1, <2>3 DEF ToSet
<1>10. CorporaInOrder(flat, names, at)
  <2>1. ASSUME NEW k \in DOMAIN flat PROVE flat[k].corpus = names[at[k]]
    <3>1. PICK n \in 1..l : n = at[k]
      BY <1>8
    <3>2. of[k] \in DOMAIN lists[n] /\ flat[k] = lists[n][of[k]]
      BY <1>8, <3>1
    <3>3. flat[k] = [corpus |-> names[n], row |-> rowsOf[names[n]][of[k]]]
      BY <1>4, <3>2
    <3> QED BY <3>1, <3>3
  <2> QED BY <1>2, <1>8, <2>1 DEF CorporaInOrder
<1>11. flat = <<>> <=> \A c \in ToSet(names) : rowsOf[c] = <<>>
  <2>1. ASSUME flat = <<>>, NEW c \in ToSet(names) PROVE rowsOf[c] = <<>>
    <3>1. PICK n \in 1..l : names[n] = c
      BY <1>2 DEF ToSet
    <3>2. \A m \in DOMAIN rowsOf[c] : FALSE
      <4>1. SUFFICES ASSUME NEW m \in DOMAIN rowsOf[c] PROVE FALSE
        OBVIOUS
      <4>2. PICK k \in DOMAIN flat : at[k] = n /\ of[k] = m
        BY <1>4, <1>8, <3>1, <4>1
      <4> QED BY <2>1, <4>2
    <3>3. PICK rows : rows = rowsOf[c] /\ rows \in Seq(Kind)
      OBVIOUS
    <3> QED BY <3>2, <3>3, NoElement
  <2>2. ASSUME \A c \in ToSet(names) : rowsOf[c] = <<>> PROVE flat = <<>>
    <3>1. ASSUME NEW k \in DOMAIN flat PROVE FALSE
      <4>1. PICK n \in 1..l : n = at[k]
        BY <1>8
      <4>2. of[k] \in DOMAIN rowsOf[names[n]]
        BY <1>4, <1>8, <4>1
      <4>3. rowsOf[names[n]] = <<>>
        BY <1>3, <2>2
      <4> QED BY <4>2, <4>3
    <3> QED BY <1>6, <3>1, NoElement
  <2> QED BY <2>1, <2>2
<1>12. ASSUME NEW limit \in Nat, \A c \in ToSet(names) : Len(rowsOf[c]) <= limit
       PROVE  Len(flat) <= limit * Len(names)
  <2>1. PICK lens : lens = [n \in DOMAIN lists |-> Len(lists[n])]
    OBVIOUS
  <2>2. \A n \in 1..l : lens[n] \in Nat /\ lens[n] <= limit
    BY <1>3, <1>4, <1>5, <1>12, <2>1
  <2>3. lens \in [1..l -> Nat]
    BY <1>5, <2>1, <2>2
  <2>4. lens \in Seq(Nat) /\ DOMAIN lens = 1..l /\ Len(lens) = l
    BY <1>2, <2>3
  <2>5. Total(lens) <= limit * Len(lens)
    BY <2>2, <2>4, SumsAreBounded
  <2> QED BY <1>2, <1>6, <2>1, <2>4, <2>5
<1>13. Sized(flat, names, rowsOf)
  BY <1>11, <1>12 DEF Sized
<1> QED BY <1>6, <1>9, <1>10, <1>13 DEF V

(* A corpus that is not of work is of the library, and was asked for by name *)
(* or with everything.                                                       *)
LEMMA NamedIs ==
  ASSUME NEW name, NEW world
  PROVE  /\ name = "all" => Named(name, world) = CORPORA
         /\ name = "everything" => Named(name, world) = AllCorpora(world)
         /\ name \notin {"all", "everything"} => /\ Named(name, world) = <<name>>
                                                 /\ \A c \in ToSet(Named(name, world)) : c = name
<1>1. ToSet(<<name>>) = {name}
  BY DEF ToSet
<1> QED BY <1>1 DEF Named

LEMMA ScopeIs ==
  ASSUME NEW W, NEW Kind, NEW world, World(world, W, Kind), NEW asked,
         asked.scope = Unscoped \/ asked.scope \in Seq(W)
  PROVE  /\ SearchScope(asked, world) \in Seq(W)
         /\ asked.scope = Unscoped => SearchScope(asked, world) \in {<<"all">>, <<"curated">>}
         /\ SearchScope(asked, world) # Unscoped
         /\ asked.scope # Unscoped => SearchScope(asked, world) = asked.scope
<1>1. "all" \in W /\ "curated" \in W
  BY CorporaAre DEF World, Reserved
<1>2. asked.scope = Unscoped => SearchScope(asked, world) \in {<<"all">>, <<"curated">>}
  BY DEF SearchScope, RouteScope
<1>3. asked.scope # Unscoped => SearchScope(asked, world) = asked.scope
  BY DEF SearchScope
<1>4. <<"all">> \in Seq(W) /\ <<"curated">> \in Seq(W)
  BY <1>1
<1> QED BY <1>2, <1>3, <1>4, ScopesAssumption

LEMMA LibraryByName ==
  ASSUME NEW W, NEW Kind, NEW world, World(world, W, Kind), NEW asked,
         asked.scope = Unscoped \/ asked.scope \in Seq(W),
         asked.scope # Unscoped => ValidScope(asked.scope, world),
         NEW c \in ToSet(ExpandScope(SearchScope(asked, world), world)) \ ToSet(CORPORA)
  PROVE  /\ asked.scope # Unscoped
         /\ {c, "everything"} \cap ToSet(asked.scope) # {}
         /\ c \in ToSet(LibraryCorpora(world))
<1>1. PICK scope, work : scope = SearchScope(asked, world) /\ work = ToSet(CORPORA)
  OBVIOUS
<1>2. /\ scope \in Seq(W)
      /\ asked.scope = Unscoped => scope \in {<<"all">>, <<"curated">>}
      /\ asked.scope # Unscoped => scope = asked.scope
  BY <1>1, ScopeIs
<1>3. PICK n \in DOMAIN scope : c \in ToSet(Named(scope[n], world))
  BY <1>1, <1>2, AsksFor, ExpandIs
<1>4. PICK name : name = scope[n] /\ name \in ToSet(scope)
  BY DEF ToSet
<1>5. c \notin work /\ "curated" \in work
  BY <1>1, CorporaAre
<1>6. name # "all"
  BY <1>1, <1>3, <1>4, <1>5, NamedIs
<1>7. name = "everything" => c \in ToSet(AllCorpora(world))
  BY <1>3, <1>4, NamedIs
<1>8. name # "everything" => c = name
  BY <1>3, <1>4, <1>6, NamedIs
<1>9. asked.scope # Unscoped
  <2>1. SUFFICES ASSUME asked.scope = Unscoped PROVE FALSE
    OBVIOUS
  <2>2. scope \in {<<"all">>, <<"curated">>}
    BY <1>2, <2>1
  <2>3. name \in {"all", "curated"}
    BY <1>3, <1>4, <2>2
  <2> QED BY <1>5, <1>6, <1>8, <2>3
<1>10. scope = asked.scope /\ ToSet(scope) \subseteq ToSet(AllCorpora(world)) \cup {"all", "everything"}
  BY <1>2, <1>9 DEF ValidScope
<1>11. c \in ToSet(AllCorpora(world))
  BY <1>4, <1>6, <1>7, <1>8, <1>10
<1>12. c \in ToSet(LibraryCorpora(world))
  BY <1>1, <1>5, <1>11, LibraryIs
<1>13. c \in ToSet(scope) \/ "everything" \in ToSet(scope)
  BY <1>4, <1>8
<1> QED BY <1>9, <1>10, <1>12, <1>13

LEMMA NamesAreKnown ==
  ASSUME NEW W, NEW Kind, NEW world, World(world, W, Kind), NEW asked,
         asked.scope = Unscoped \/ asked.scope \in Seq(W),
         asked.scope # Unscoped => ValidScope(asked.scope, world)
  PROVE  ToSet(ExpandScope(SearchScope(asked, world), world)) \subseteq ToSet(AllCorpora(world))
BY LibraryByName, LibraryIs

(* A scope that is no list is one name.                                      *)
OneName(asked) == asked.scope # Unscoped /\ ~asked.list => Len(asked.scope) = 1

(* What a single corpus is asked of is that corpus.                          *)
LEMMA SingleName ==
  ASSUME NEW W, NEW Kind, NEW world, World(world, W, Kind), NEW asked, OneName(asked),
         asked.scope = Unscoped \/ asked.scope \in Seq(W),
         NEW scope, scope = SearchScope(asked, world), ~IsMultiScope(asked, scope)
  PROVE  \A c : c \in ToSet(ExpandScope(scope, world)) <=> c = scope[1]
<1>1. /\ scope \in Seq(W) /\ scope # Unscoped
      /\ asked.scope = Unscoped => scope \in {<<"all">>, <<"curated">>}
      /\ asked.scope # Unscoped => scope = asked.scope
  BY ScopeIs
<1>2. scope \notin {<<"all">>, <<"everything">>} /\ ~asked.list
  BY DEF IsMultiScope
<1>3. Len(scope) = 1
  <2>1. CASE asked.scope = Unscoped
    BY <1>1, <1>2, <2>1
  <2>2. CASE asked.scope # Unscoped
    BY <1>1, <1>2, <2>2 DEF OneName
  <2> QED BY <2>1, <2>2
<1>4. scope = <<scope[1]>> /\ DOMAIN scope = {1}
  BY <1>1, <1>3
<1>5. PICK name : name = scope[1]
  OBVIOUS
<1>6. name \notin {"all", "everything"}
  BY <1>2, <1>4, <1>5
<1>7. Named(name, world) = <<name>>
  BY <1>6, NamedIs
<1>8. \A c : c \in ToSet(Named(name, world)) <=> c = name
  BY <1>7 DEF ToSet
<1>9. \A c : c \in ToSet(Asks(scope, world)) <=> c = name
  BY <1>1, <1>4, <1>5, <1>8, AsksFor
<1>10. ToSet(ExpandScope(scope, world)) = ToSet(Asks(scope, world))
  BY <1>1, AsksFor, ExpandIs
<1> QED BY <1>5, <1>9, <1>10

(* The corpora that are asked are those of work first, and each once; those  *)
(* of the library that are not are named, of one corpus only if it is ranked *)
(* and the curated one; and an index job builds the same.                    *)
Told(names, asked, scope, world) ==
  /\ \A n, m \in DOMAIN names :
       n < m => names[n] # names[m] /\ (names[m] \in ToSet(CORPORA) => names[n] \in ToSet(CORPORA))
  /\ ToSet(WantedScopes(scope, world)) = ToSet(names)
  /\ ToSet(NotSearched(scope, asked, world)) \cap ToSet(names) = {}
  /\ \/ ToSet(names) \cap ToSet(CORPORA) # {} /\ IsMultiScope(asked, scope)
     \/ names = <<"curated">> /\ world.index["curated"].state = "rows"
     => ToSet(LibraryCorpora(world))
          = (ToSet(names) \ ToSet(CORPORA)) \cup ToSet(NotSearched(scope, asked, world))

LEMMA NamesAgree ==
  ASSUME NEW W, NEW Kind, NEW world, World(world, W, Kind), NEW asked, OneName(asked),
         asked.scope = Unscoped \/ asked.scope \in Seq(W),
         asked.scope # Unscoped => ValidScope(asked.scope, world),
         NEW scope, scope = SearchScope(asked, world)
  PROVE  Told(ExpandScope(scope, world), asked, scope, world)
<1>1. PICK names, work, told : /\ names = ExpandScope(scope, world) /\ work = ToSet(CORPORA)
                               /\ told = NotSearched(scope, asked, world)
  OBVIOUS
<1>2. scope \in Seq(W) /\ scope # Unscoped
  BY ScopeIs
<1>3. /\ names \in Seq(W) /\ IsInjective(names) /\ FrontIs(names, work)
      /\ ToSet(names) = ToSet(Once(Asks(scope, world)))
  BY <1>1, <1>2, ExpandIs
<1>4. ASSUME NEW n \in DOMAIN names, NEW m \in DOMAIN names, n < m
      PROVE  names[n] # names[m] /\ (names[m] \in work => names[n] \in work)
  <2>1. n \in Int /\ n # m
    BY <1>3, <1>4
  <2> QED BY <1>3, <1>4, <2>1 DEF IsInjective, FrontIs
<1>5. ToSet(WantedScopes(scope, world)) = ToSet(names)
  BY <1>2, <1>3 DEF WantedScopes, Asks
<1>6. PICK library : library = LibraryCorpora(world)
  OBVIOUS
<1>7. library \in Seq(W) /\ ToSet(library) \cap work = {} /\ ToSet(<<>>) = {}
  <2>1. library \in Seq(W) /\ ToSet(library) \cap Reserved = {}
    BY <1>6, LibraryIs
  <2>2. ToSet(<<>>) = {}
    BY DEF ToSet
  <2> QED BY <1>1, <2>1, <2>2 DEF Reserved
<1>8. CASE IsMultiScope(asked, scope)
  <2>1. told = IF ToSet(names) \cap work # {} THEN Picked(library, ToSet(library) \ ToSet(names)) ELSE <<>>
    BY <1>1, <1>6, <1>8 DEF SearchAll, NotSearched
  <2>2. ToSet(Picked(library, ToSet(library) \ ToSet(names))) = ToSet(library) \cap (ToSet(library) \ ToSet(names))
    BY <1>7, PickedIs
  <2>3. ASSUME NEW c \in ToSet(names) \ work PROVE c \in ToSet(library)
    BY <1>1, <1>6, LibraryByName
  <2>4. ToSet(told) \cap ToSet(names) = {}
    BY <1>7, <2>1, <2>2
  <2>5. ToSet(names) \cap work # {} => ToSet(library) = (ToSet(names) \ work) \cup ToSet(told)
    BY <1>7, <2>1, <2>2, <2>3
  <2>6. names = <<"curated">> => ToSet(names) \cap work # {}
    <3>1. names = <<"curated">> => "curated" \in ToSet(names)
      BY DEF ToSet
    <3> QED BY <1>1, <3>1, CorporaAre
  <2> QED BY <1>1, <1>4, <1>5, <1>6, <2>4, <2>5, <2>6 DEF Told
<1>9. CASE ~IsMultiScope(asked, scope)
  <2>1. PICK name : name = scope[1] /\ \A c : c \in ToSet(names) <=> c = name
    BY <1>1, <1>9, SingleName
  <2>2. told = IF name = "curated" /\ Single(name, asked, world).mode = "ranked" THEN library ELSE <<>>
    BY <1>1, <1>6, <1>9, <2>1 DEF NotSearched, SearchOne
  <2>3. "curated" \in work
    BY <1>1, CorporaAre
  <2>4. ToSet(told) \cap ToSet(names) = {}
    BY <1>7, <2>1, <2>2, <2>3
  <2>5. ASSUME names = <<"curated">>, world.index["curated"].state = "rows"
        PROVE  ToSet(library) = (ToSet(names) \ work) \cup ToSet(told)
    <3>1. "curated" \in ToSet(names)
      BY <2>5 DEF ToSet
    <3>2. name = "curated" /\ ToSet(names) \ work = {}
      BY <2>1, <2>3, <3>1
    <3>3. Single(name, asked, world).mode = "ranked"
      BY <2>5, <3>2 DEF Single
    <3> QED BY <2>2, <3>2, <3>3
  <2> QED BY <1>1, <1>4, <1>5, <1>6, <1>9, <2>4, <2>5 DEF Told
<1> QED BY <1>8, <1>9

(* The verdict on the whole is that of its sections as they are shown, and   *)
(* what is shown first of each is in the flat list.                          *)
Overall(answer, names, rated) ==
  /\ rated => (answer.noStrongMatch <=> \A c \in ToSet(names) : answer.groups[c].noStrongMatch)
  /\ rated => (answer.noStrongMatch <=> answer.results = <<>>)
  /\ \A c \in ToSet(names) : answer.groups[c].results # <<>> =>
       [corpus |-> c, row |-> answer.groups[c].results[1]] \in ToSet(answer.results)

LEMMA GroupsAgree ==
  ASSUME NEW W, NEW Kind, NEW world, World(world, W, Kind), NEW scope \in Seq(W),
         ToSet(ExpandScope(scope, world)) \subseteq ToSet(AllCorpora(world)),
         NEW asked, asked.limit \in Nat \ {0},
         NEW rated, rated \in BOOLEAN,
         rated => \/ "curated" \notin ToSet(ExpandScope(scope, world))
                  \/ world.index["curated"].state # "none"
  PROVE  Overall(SearchAll(scope, asked, world), ExpandScope(scope, world), rated)
<1> DEFINE names == ExpandScope(scope, world)
           groups == [c \in ToSet(names) |-> Single(c, asked, world)]
           all == scope = <<"everything">> /\ ~asked.list
           cap == IF asked.explicit THEN asked.limit ELSE ViewRows
           shown == IF all THEN [c \in DOMAIN groups |-> Compact(groups[c], cap)] ELSE groups
           lists == [n \in DOMAIN names |-> From(names[n], shown[names[n]].results)]
           flat == Joined(lists)
           answer == SearchAll(scope, asked, world)
           rowsOf == [c \in ToSet(names) |-> shown[c].results]
<1>1. /\ answer.groups = shown
      /\ answer.results = IF all THEN flat ELSE Trim(flat, asked.limit * Len(names))
      /\ answer.noStrongMatch = \A c \in DOMAIN groups : groups[c].noStrongMatch
  BY DEF SearchAll
<1>2. names \in Seq(W)
  BY ExpandIs
<1>3. cap \in Nat \ {0}
  BY ScopesAssumption
<1>4. ToSet(names) \subseteq ToSet(AllCorpora(world))
  OBVIOUS
<1> HIDE DEF names, cap
<1>5. /\ \A c \in ToSet(names) : groups[c] = Single(c, asked, world)
      /\ DOMAIN groups = ToSet(names)
  OBVIOUS
<1> HIDE DEF groups
<1>6. /\ all => \A c \in ToSet(names) : shown[c] = Compact(groups[c], cap)
      /\ ~all => \A c \in ToSet(names) : shown[c] = groups[c]
  BY <1>5
<1> HIDE DEF all, shown
<1>7. ASSUME NEW c \in ToSet(names)
      PROVE  /\ Part(shown[c], Kind, rated)
             /\ rated => (groups[c].noStrongMatch <=> shown[c].noStrongMatch)
             /\ ~all => Len(shown[c].results) <= asked.limit
  <2>1. PICK part, known : /\ part = groups[c]
                           /\ known = (c # "curated" \/ world.index[c].state # "none")
    OBVIOUS
  <2>2. known \in BOOLEAN /\ (rated => known)
    BY <2>1 DEF names
  <2>3. /\ Part(part, Kind, known) /\ Len(part.results) <= asked.limit
        /\ part.bestWeak \in Seq(Kind)
        /\ DOMAIN part = {"mode", "results", "bestWeak", "noStrongMatch", "indexStale"}
    BY <1>4, <1>5, <2>1, SingleIs
  <2>4. Part(part, Kind, rated)
    BY <2>2, <2>3 DEF Part
  <2>5. CASE all
    <3>1. PICK small : small = Compact(part, cap)
      OBVIOUS
    <3>2. Part(small, Kind, rated) /\ (rated => (small.noStrongMatch <=> part.noStrongMatch))
      BY <1>3, <2>3, <2>4, <3>1, CompactIs
    <3>3. shown[c] = small
      BY <1>6, <2>1, <2>5, <3>1
    <3> QED BY <2>1, <2>5, <3>2, <3>3
  <2>6. CASE ~all
    BY <1>6, <2>1, <2>3, <2>4, <2>6
  <2> QED BY <2>5, <2>6
<1>8. /\ \A c \in ToSet(names) : rowsOf[c] = shown[c].results
      /\ \A c \in ToSet(names) : rowsOf[c] \in Seq(Kind)
  <2>1. \A c \in ToSet(names) : rowsOf[c] = shown[c].results
    OBVIOUS
  <2> HIDE DEF rowsOf
  <2> QED BY <1>7, <2>1 DEF Part
<1>9. lists = [n \in DOMAIN names |-> From(names[n], rowsOf[names[n]])]
  BY DEF ToSet
<1>10. Laid(flat, names, rowsOf)
  BY <1>9 DEF Laid
<1> HIDE DEF lists, flat, rowsOf
<1>11. flat \in Seq([corpus : W, row : Kind])
  BY <1>2, <1>8, <1>10, FlatIs
<1>12. Every(flat, names, rowsOf) /\ Sized(flat, names, rowsOf)
  BY <1>2, <1>8, <1>10, FlatIs
<1>13. /\ Every(flat, names, rowsOf)
       /\ flat = <<>> <=> \A c \in ToSet(names) : rowsOf[c] = <<>>
       /\ \A limit \in Nat : (\A c \in ToSet(names) : Len(rowsOf[c]) <= limit)
                               => Len(flat) <= limit * Len(names)
  BY <1>12 DEF Sized
<1>14. answer.results = flat
  <2>1. SUFFICES ASSUME ~all PROVE Trim(flat, asked.limit * Len(names)) = flat
    BY <1>1
  <2>2. PICK limit, l, f : limit = asked.limit /\ l = Len(names) /\ f = Len(flat)
    OBVIOUS
  <2>3. f <= limit * l
    BY <1>7, <1>8, <1>13, <2>1, <2>2
  <2>4. limit \in Nat /\ l \in Nat /\ f \in Nat
    BY <1>2, <1>11, <2>2
  <2>5. limit * l \in Int
    BY <2>4
  <2>6. limit * l \in Nat
    BY <2>3, <2>4, <2>5
  <2> QED BY <1>11, <2>2, <2>3, <2>6, TrimIs
<1> HIDE DEF answer
<1>15. ASSUME rated PROVE /\ answer.noStrongMatch <=> \A c \in ToSet(names) : shown[c].noStrongMatch
                          /\ answer.noStrongMatch <=> answer.results = <<>>
  <2>1. answer.noStrongMatch <=> \A c \in ToSet(names) : shown[c].noStrongMatch
    BY <1>1, <1>5, <1>7, <1>15
  <2>2. \A c \in ToSet(names) : shown[c].noStrongMatch <=> rowsOf[c] = <<>>
    BY <1>7, <1>8, <1>15 DEF Part
  <2> QED BY <1>13, <1>14, <2>1, <2>2
<1>16. ASSUME NEW c \in ToSet(names), shown[c].results # <<>>
       PROVE  [corpus |-> c, row |-> shown[c].results[1]] \in ToSet(flat)
  <2>1. PICK n \in DOMAIN names : names[n] = c
    BY DEF ToSet
  <2>2. 1 \in DOMAIN rowsOf[c]
    <3>1. PICK rows : rows = rowsOf[c]
      OBVIOUS
    <3>2. rows \in Seq(Kind) /\ rows # <<>>
      BY <1>8, <1>16, <3>1
    <3> QED BY <3>1, <3>2
  <2>3. [corpus |-> names[n], row |-> rowsOf[names[n]][1]] \in ToSet(flat)
    BY <1>13, <2>1, <2>2 DEF Every
  <2> QED BY <1>8, <2>1, <2>3
<1>17. Overall(answer, names, rated)
  BY <1>1, <1>14, <1>15, <1>16 DEF Overall
<1> QED BY <1>17 DEF answer, names

(* In latest, rows with a time come first, and no corpus is left out that    *)
(* mentions what is asked.                                                   *)
TimesFirst(results, world) ==
  \A n, m \in DOMAIN results :
    n < m /\ Timed(results[m].corpus, world) => Timed(results[n].corpus, world)

AllMentions(results, names, asked, world) ==
  \A c \in ToSet(names) : \A row \in ToSet(Trim(world.index[c].rows, asked.limit)) :
    [corpus |-> c, row |-> row] \in ToSet(results)

LEMMA LatestAgrees ==
  ASSUME NEW W, NEW Kind, NEW world, World(world, W, Kind), NEW scope \in Seq(W),
         ToSet(ExpandScope(scope, world)) \subseteq ToSet(AllCorpora(world)),
         NEW asked, asked.limit \in Nat
  PROVE  /\ TimesFirst(LatestAll(scope, asked, world).results, world)
         /\ AllMentions(LatestAll(scope, asked, world).results, ExpandScope(scope, world), asked, world)
<1> DEFINE mentions(c) == Trim(world.index[c].rows, asked.limit)
           wanted == ExpandScope(scope, world)
           some == {c \in ToSet(wanted) : mentions(c) # <<>>}
           names == Picked(wanted, some)
           timed == {c \in ToSet(names) : Timed(c, world)}
           sections == Picked(names, timed) \o Picked(names, ToSet(names) \ timed)
           lists == [n \in DOMAIN sections |-> From(sections[n], mentions(sections[n]))]
           results == Joined(lists)
           rowsOf == [c \in ToSet(sections) |-> mentions(c)]
<1>1. LatestAll(scope, asked, world).results = results
  BY DEF LatestAll
<1>2. wanted \in Seq(W) /\ ToSet(wanted) \subseteq ToSet(AllCorpora(world))
  BY ExpandIs
<1> HIDE DEF wanted
<1>3. \A c \in ToSet(AllCorpora(world)) : mentions(c) \in Seq(Kind)
  <2> SUFFICES ASSUME NEW c \in ToSet(AllCorpora(world)) PROVE mentions(c) \in Seq(Kind)
    OBVIOUS
  <2>1. PICK rows, limit : rows = world.index[c].rows /\ limit = asked.limit
    OBVIOUS
  <2>2. rows \in Seq(Kind) /\ limit \in Nat
    BY <2>1 DEF World
  <2> QED BY <2>1, <2>2, TrimIs
<1>4. \A c : c \in some <=> c \in ToSet(wanted) /\ mentions(c) # <<>>
  OBVIOUS
<1> HIDE DEF mentions, some
<1>5. names \in Seq(W) /\ ToSet(names) = ToSet(wanted) \cap some
  BY <1>2, PickedIs
<1> HIDE DEF names
<1>6. /\ \A c : c \in timed <=> c \in ToSet(names) /\ Timed(c, world)
      /\ timed \subseteq ToSet(names)
  OBVIOUS
<1> HIDE DEF timed
<1>7. PICK s, t : s = Picked(names, timed) /\ t = Picked(names, ToSet(names) \ timed)
  OBVIOUS
<1>8. /\ s \in Seq(W) /\ ToSet(s) = ToSet(names) \cap timed
      /\ t \in Seq(W) /\ ToSet(t) = ToSet(names) \cap (ToSet(names) \ timed)
  BY <1>5, <1>7, PickedIs
<1>9. sections = s \o t
  BY <1>7
<1> HIDE DEF sections
<1>10. ToSet(s) \subseteq timed /\ ToSet(t) \cap timed = {} /\ ToSet(s) \cup ToSet(t) = ToSet(names)
  BY <1>6, <1>8
<1>11. sections \in Seq(W) /\ ToSet(sections) = ToSet(names)
  BY <1>8, <1>9, <1>10, BothAreIn
<1>12. FrontIs(sections, timed)
  BY <1>8, <1>9, <1>10, FrontFirst
<1>13. ToSet(sections) \subseteq ToSet(AllCorpora(world))
  BY <1>2, <1>5, <1>11
<1>14. /\ \A c \in ToSet(sections) : rowsOf[c] = mentions(c)
       /\ \A c \in ToSet(sections) : rowsOf[c] \in Seq(Kind)
  <2>1. \A c \in ToSet(sections) : rowsOf[c] = mentions(c)
    OBVIOUS
  <2> HIDE DEF rowsOf
  <2> QED BY <1>3, <1>13, <2>1
<1>15. lists = [n \in DOMAIN sections |-> From(sections[n], rowsOf[sections[n]])]
  BY DEF ToSet
<1>16. Laid(results, sections, rowsOf)
  BY <1>15 DEF Laid
<1> HIDE DEF lists, results, rowsOf
<1>17. Every(results, sections, rowsOf)
  BY <1>11, <1>14, <1>16, FlatIs
<1>18. PICK at : CorporaInOrder(results, sections, at)
  BY <1>11, <1>14, <1>16, FlatIs
<1>19. TimesFirst(results, world)
  <2> SUFFICES ASSUME NEW n \in DOMAIN results, NEW m \in DOMAIN results, n < m,
                      Timed(results[m].corpus, world)
               PROVE  Timed(results[n].corpus, world)
    BY DEF TimesFirst
  <2>1. PICK i, j : i = at[n] /\ j = at[m]
    OBVIOUS
  <2>2. /\ i \in DOMAIN sections /\ results[n].corpus = sections[i]
        /\ j \in DOMAIN sections /\ results[m].corpus = sections[j]
        /\ i <= j
    BY <1>18, <2>1 DEF CorporaInOrder
  <2>3. i = j \/ i < j
    BY <1>11, <2>2
  <2>4. sections[i] \in ToSet(names) /\ sections[j] \in ToSet(names)
    BY <1>11, <2>2 DEF ToSet
  <2>5. sections[j] \in timed
    BY <1>6, <2>2, <2>4
  <2>6. sections[i] \in timed
    BY <1>12, <2>2, <2>3, <2>5 DEF FrontIs
  <2> QED BY <1>6, <2>2, <2>6
<1>20. ASSUME NEW c \in ToSet(wanted), NEW row \in ToSet(mentions(c))
       PROVE  [corpus |-> c, row |-> row] \in ToSet(results)
  <2>1. PICK k \in DOMAIN mentions(c) : mentions(c)[k] = row
    BY DEF ToSet
  <2>2. mentions(c) # <<>>
    BY <2>1
  <2>3. c \in ToSet(sections)
    BY <1>4, <1>5, <1>11, <2>2
  <2>4. PICK n \in DOMAIN sections : sections[n] = c
    BY <2>3 DEF ToSet
  <2>5. rowsOf[c] = mentions(c)
    BY <1>14, <2>3
  <2> QED BY <1>17, <2>1, <2>4, <2>5 DEF Every
<1>21. AllMentions(results, wanted, asked, world)
  BY <1>20 DEF AllMentions, mentions
<1> QED BY <1>1, <1>19, <1>21 DEF wanted

(* On any machine, and of any scope that is known, the answers of several    *)
(* corpora are put together as they should be: the names that are asked, the *)
(* verdict on the whole, the flat list, and what latest says (search.js      *)
(* 828-921, 1748-1955, memory.js 878-892).                                   *)
Scoped(c) ==
  \E W, Kind : /\ World(c.world, W, Kind)
               /\ c.asked.limit \in Nat \ {0}
               /\ c.asked.scope = Unscoped \/ c.asked.scope \in Seq(W)
               /\ OneName(c.asked)

THEOREM SectionsAreOneAnswer ==
  ASSUME \A c \in Cases : c.kind = "scope" => Scoped(c)
  PROVE  AnswersSpec => []SectionsAgree
<1>1. case = None \/ case \in Cases => SectionsAgree
  <2> SUFFICES ASSUME case \in Cases, case.kind = "scope",
                      case.asked.scope # Unscoped => ValidScope(case.asked.scope, case.world)
               PROVE  SectionsAgree
    BY DEF SectionsAgree, Is
  <2>1. PICK world, asked : world = case.world /\ asked = case.asked
    OBVIOUS
  <2>2. Scoped(case)
    OBVIOUS
  <2>3. PICK W, Kind : World(case.world, W, Kind) /\ case.asked.limit \in Nat \ {0}
                       /\ (case.asked.scope = Unscoped \/ case.asked.scope \in Seq(W))
                       /\ OneName(case.asked)
    BY <2>2 DEF Scoped
  <2>4. /\ World(world, W, Kind) /\ asked.limit \in Nat \ {0} /\ OneName(asked)
        /\ asked.scope = Unscoped \/ asked.scope \in Seq(W)
        /\ asked.scope # Unscoped => ValidScope(asked.scope, world)
    BY <2>1, <2>3
  <2>5. PICK scope, names, answer, last, rated :
          /\ scope = SearchScope(asked, world)
          /\ names = ExpandScope(scope, world)
          /\ answer = SearchAll(scope, asked, world)
          /\ last = LatestAll(scope, asked, world)
          /\ rated = ("curated" \notin ToSet(names) \/ world.index["curated"].state # "none")
    OBVIOUS
  <2>6. scope \in Seq(W)
    BY <2>4, <2>5, ScopeIs
  <2>7. ToSet(names) \subseteq ToSet(AllCorpora(world))
    BY <2>4, <2>5, NamesAreKnown
  <2>8. Told(names, asked, scope, world)
    BY <2>4, <2>5, NamesAgree
  <2>9. \A c \in ToSet(names) \ ToSet(CORPORA) :
          asked.scope # Unscoped /\ ({c, "everything"} \cap ToSet(asked.scope)) # {}
    BY <2>4, <2>5, LibraryByName
  <2>10. Overall(answer, names, rated)
    <3>1. /\ rated \in BOOLEAN
          /\ rated => \/ "curated" \notin ToSet(ExpandScope(scope, world))
                      \/ world.index["curated"].state # "none"
          /\ ToSet(ExpandScope(scope, world)) \subseteq ToSet(AllCorpora(world))
      BY <2>5, <2>7
    <3> QED BY <2>4, <2>5, <2>6, <3>1, GroupsAgree
  <2>11. TimesFirst(last.results, world) /\ AllMentions(last.results, names, asked, world)
    BY <2>4, <2>5, <2>6, <2>7, LatestAgrees
  <2> HIDE DEF SectionsAgree
  <2>12. SectionsAgree
    <3>1. /\ \A n, m \in DOMAIN names :
               n < m => names[n] # names[m] /\ (names[m] \in ToSet(CORPORA) => names[n] \in ToSet(CORPORA))
          /\ ToSet(WantedScopes(scope, world)) = ToSet(names)
          /\ ToSet(NotSearched(scope, asked, world)) \cap ToSet(names) = {}
          /\ \/ ToSet(names) \cap ToSet(CORPORA) # {} /\ IsMultiScope(asked, scope)
             \/ names = <<"curated">> /\ world.index["curated"].state = "rows"
             => ToSet(LibraryCorpora(world))
                  = (ToSet(names) \ ToSet(CORPORA)) \cup ToSet(NotSearched(scope, asked, world))
      BY <2>8 DEF Told
    <3>2. /\ rated => (answer.noStrongMatch <=> \A c \in ToSet(names) : answer.groups[c].noStrongMatch)
          /\ rated => (answer.noStrongMatch <=> answer.results = <<>>)
          /\ \A c \in ToSet(names) : answer.groups[c].results # <<>> =>
               [corpus |-> c, row |-> answer.groups[c].results[1]] \in ToSet(answer.results)
      BY <2>10 DEF Overall
    <3>3. /\ \A n, m \in DOMAIN last.results :
               n < m /\ Timed(last.results[m].corpus, world) => Timed(last.results[n].corpus, world)
          /\ \A c \in ToSet(names) : \A row \in ToSet(Trim(world.index[c].rows, asked.limit)) :
               [corpus |-> c, row |-> row] \in ToSet(last.results)
      BY <2>11 DEF TimesFirst, AllMentions
    <3> QED BY <2>1, <2>5, <2>9, <3>1, <3>2, <3>3, ZenonT(60) DEF SectionsAgree
  <2> QED BY <2>12
<1> QED BY <1>1, CaseIsGiven, PTL

-----------------------------------------------------------------------------
(* Passages. Scores of windows, as ratios. *)
LEMMA ProductsGrow ==
  ASSUME NEW m \in Nat, NEW n \in Nat, m <= n, NEW k \in Nat
  PROVE  m * k <= n * k /\ k * m <= k * n
<1>1. PICK d \in Nat : n = m + d
  <2>1. n - m \in Nat /\ n = m + (n - m)
    OBVIOUS
  <2> QED BY <2>1
<1>2. n * k = m * k + d * k /\ k * n = k * m + k * d
  BY <1>1
<1>3. d * k \in Nat /\ k * d \in Nat /\ m * k \in Nat /\ k * m \in Nat
  BY <1>1
<1> QED BY <1>2, <1>3

LEMMA ProductsShrink ==
  ASSUME NEW m \in Nat, NEW n \in Nat, NEW k \in Nat \ {0}, m * k <= n * k
  PROVE  m <= n
<1>1. SUFFICES ASSUME n + 1 <= m PROVE FALSE
  OBVIOUS
<1>2. (n + 1) * k <= m * k
  BY <1>1, ProductsGrow
<1>3. (n + 1) * k = n * k + k
  OBVIOUS
<1>4. n * k \in Nat /\ m * k \in Nat
  OBVIOUS
<1> QED BY <1>2, <1>3, <1>4

LEMMA RatiosCompare ==
  ASSUME NEW a \in Nat, NEW b \in Nat, NEW c \in Nat,
         NEW s \in Nat \ {0}, NEW t \in Nat \ {0}, NEW u \in Nat \ {0},
         a * t <= b * s, b * u <= c * t
  PROVE  a * u <= c * s
<1>1. a * t \in Nat /\ b * s \in Nat /\ b * u \in Nat /\ c * t \in Nat /\ a * u \in Nat /\ c * s \in Nat
  OBVIOUS
<1>2. (a * t) * u <= (b * s) * u
  BY <1>1, ProductsGrow
<1>3. (b * u) * s <= (c * t) * s
  BY <1>1, ProductsGrow
<1>4. (a * u) * t = (a * t) * u /\ (b * s) * u = (b * u) * s /\ (c * t) * s = (c * s) * t
  OBVIOUS
<1>5. (a * t) * u \in Nat /\ (b * u) * s \in Nat /\ (c * t) * s \in Nat
  BY <1>1
<1>6. (a * u) * t <= (c * s) * t
  BY <1>2, <1>3, <1>4, <1>5
<1> QED BY <1>1, <1>6, ProductsShrink

LEMMA CubesGrow ==
  ASSUME NEW m \in Nat, NEW n \in Nat, m <= n
  PROVE  Cubed(m) \in Nat /\ Cubed(n) \in Nat /\ Cubed(m) <= Cubed(n)
<1>1. m * m <= n * n
  <2>1. m * m <= n * m /\ n * m <= n * n
    BY ProductsGrow
  <2>2. m * m \in Nat /\ n * m \in Nat /\ n * n \in Nat
    OBVIOUS
  <2> QED BY <2>1, <2>2
<1>2. m * m \in Nat /\ n * n \in Nat
  OBVIOUS
<1>3. (m * m) * m <= (n * n) * m /\ (n * n) * m <= (n * n) * n
  BY <1>1, <1>2, ProductsGrow
<1>4. (m * m) * m \in Nat /\ (n * n) * m \in Nat /\ (n * n) * n \in Nat
  BY <1>2
<1> QED BY <1>3, <1>4 DEF Cubed

(* A part of a list. *)
LEMMA PartIs ==
  ASSUME NEW V, NEW list \in Seq(V), NEW i \in Nat, NEW j \in Nat, i <= j, j <= Len(list)
  PROVE  /\ SubSeq(list, i + 1, j) \in Seq(V)
         /\ Len(SubSeq(list, i + 1, j)) = j - i
         /\ \A m \in 1..(j - i) : SubSeq(list, i + 1, j)[m] = list[i + m]
<1>1. PICK part : part = SubSeq(list, i + 1, j)
  OBVIOUS
<1>2. part \in Seq(V) /\ Len(part) = j - i
  BY <1>1
<1>3. \A m \in 1..(j - i) : part[m] = list[i + m]
  BY <1>1
<1> QED BY <1>1, <1>2, <1>3

(* A text that is cut into chunks and put together again is the text.        *)
Starts(F, n, last) ==
  /\ F[1] = 0
  /\ \A k \in 1..n : F[k] \in Nat /\ F[k + 1] = F[k] + (ChunkWords - ChunkOverlap)
  /\ last \in 1..n
  /\ F[last] + ChunkWords >= n
  /\ \A k \in 1..n : F[k] + ChunkWords >= n => last <= k

CutAt(words, F, n, last, chunks) ==
  chunks = [k \in 1..last |-> SubSeq(words, F[k] + 1, IF n < F[k] + ChunkWords THEN n ELSE F[k] + ChunkWords)]

LEMMA ChunksAre ==
  ASSUME NEW V, NEW words \in Seq(V), words # <<>>
  PROVE  \E F, last : Starts(F, Len(words), last) /\ CutAt(words, F, Len(words), last, ChunkBody(words))
<1>1. PICK n \in Nat : n = Len(words) /\ n # 0
  OBVIOUS
<1>2. Step \in Nat \ {0} /\ Step = ChunkWords - ChunkOverlap
  <2>1. PICK s : s = ChunkWords - ChunkOverlap
    OBVIOUS
  <2>2. s \in Int /\ 1 \in Int /\ s >= 1
    BY <2>1, PassageAssumption
  <2>3. Max({1, s}) = IF 1 < s THEN s ELSE 1
    BY <2>2, LargerOfTwo
  <2>4. Max({1, s}) = s
    BY <2>2, <2>3
  <2> QED BY <2>1, <2>2, <2>4 DEF Step
<1> DEFINE F == [k \in 1..(n + 1) |-> Step * (k - 1)]
<1>3. \A k \in 1..(n + 1) : F[k] = Step * (k - 1)
  OBVIOUS
<1>4. \A k \in 1..(n + 1) : Step * (k - 1) \in Nat
  <2> SUFFICES ASSUME NEW k \in 1..(n + 1) PROVE Step * (k - 1) \in Nat
    OBVIOUS
  <2>1. k - 1 \in Nat
    OBVIOUS
  <2> QED BY <1>2, <2>1
<1> HIDE DEF F
<1>5. F[1] = 0
  <2>1. 1 \in 1..(n + 1) /\ 1 - 1 = 0 /\ Step * 0 = 0
    BY <1>2
  <2> QED BY <1>3, <2>1
<1>6. ASSUME NEW k \in 1..n PROVE F[k] \in Nat /\ F[k + 1] = F[k] + (ChunkWords - ChunkOverlap)
  <2>1. k \in 1..(n + 1) /\ k + 1 \in 1..(n + 1) /\ (k + 1) - 1 = k
    OBVIOUS
  <2>2. Step * k = Step * (k - 1) + Step
    BY <1>2
  <2> QED BY <1>2, <1>3, <1>4, <2>1, <2>2
<1> DEFINE Enough == {k \in 1..n : Step * (k - 1) + ChunkWords >= n}
           last == Min(Enough)
<1>7. n \in Enough
  <2>1. PICK m \in Nat : m = n - 1
    BY <1>1
  <2>2. 1 * m <= Step * m
    BY <1>2, ProductsGrow
  <2>3. Step * m \in Nat
    BY <1>2
  <2>4. Step * m + ChunkWords >= n
    BY <1>1, <2>1, <2>2, <2>3, PassageAssumption
  <2> QED BY <1>1, <2>1, <2>4
<1>8. Enough \subseteq Nat /\ Enough \subseteq 1..n
  OBVIOUS
<1>9. \A k \in 1..n : k \in Enough <=> F[k] + ChunkWords >= n
  <2>1. \A k \in 1..n : k \in 1..(n + 1)
    OBVIOUS
  <2> QED BY <1>3, <2>1
<1>10. ChunkBody(words) = [k \in 1..last |-> SubSeq(words, Step * (k - 1) + 1, Min({n, Step * (k - 1) + ChunkWords}))]
  BY <1>1 DEF ChunkBody
<1> HIDE DEF Enough
<1>11. last \in Enough /\ \A k \in Enough : last <= k
  <2>1. PICK k \in Enough : \A j \in Enough : k <= j
    BY <1>7, <1>8, Least
  <2> QED BY <2>1 DEF Min
<1> HIDE DEF last
<1>12. Starts(F, n, last)
  BY <1>5, <1>6, <1>8, <1>9, <1>11 DEF Starts
<1>13. ASSUME NEW k \in 1..last
       PROVE  SubSeq(words, Step * (k - 1) + 1, Min({n, Step * (k - 1) + ChunkWords}))
                = SubSeq(words, F[k] + 1, IF n < F[k] + ChunkWords THEN n ELSE F[k] + ChunkWords)
  <2>1. k \in 1..n /\ k \in 1..(n + 1)
    BY <1>8, <1>11
  <2>2. PICK f \in Nat : f = F[k] /\ f = Step * (k - 1)
    BY <1>3, <1>4, <2>1
  <2>3. n \in Int /\ f + ChunkWords \in Int
    BY PassageAssumption
  <2>4. Min({n, f + ChunkWords}) = IF n < f + ChunkWords THEN n ELSE f + ChunkWords
    BY <2>3, LargerOfTwo
  <2> QED BY <2>2, <2>4
<1>14. CutAt(words, F, n, last, ChunkBody(words))
  BY <1>10, <1>13 DEF CutAt
<1> QED BY <1>1, <1>12, <1>14

LEMMA UnchunkIs ==
  ASSUME NEW V, NEW words \in Seq(V)
  PROVE  UnchunkBody(ChunkBody(words)) = words
<1>1. CASE words = <<>>
  <2>1. ChunkBody(words) = <<>>
    BY <1>1 DEF ChunkBody
  <2>2. PICK lists : lists = [k \in DOMAIN ChunkBody(words) |->
                               IF k = 1 THEN ChunkBody(words)[k]
                               ELSE SubSeq(ChunkBody(words)[k], ChunkOverlap + 1, Len(ChunkBody(words)[k]))]
    OBVIOUS
  <2>3. lists = <<>>
    BY <2>1, <2>2
  <2>4. lists \in Seq(Seq(V)) /\ Len(lists) = 0
    BY <2>3
  <2>5. EndsOf(lists)[0] = 0
    BY <2>4, EndsAre
  <2>6. Joined(lists) = words
    <3>1. EndsOf(lists)[Len(lists)] = Len(words)
      BY <1>1, <2>4, <2>5
    <3>2. \A p \in DOMAIN lists : \A m \in DOMAIN lists[p] : lists[p][m] = words[EndsOf(lists)[p - 1] + m]
      BY <2>3
    <3> QED BY <2>4, <3>1, <3>2, JoinedPieces
  <2> QED BY <2>2, <2>6 DEF UnchunkBody
<1>2. CASE words # <<>>
  <2>1. PICK n \in Nat : n = Len(words) /\ n # 0
    BY <1>2
  <2>2. PICK chunks : chunks = ChunkBody(words)
    OBVIOUS
  <2>3. PICK F, last : Starts(F, n, last) /\ CutAt(words, F, n, last, chunks)
    BY <1>2, <2>1, <2>2, ChunksAre
  <2> DEFINE end(k) == IF n < F[k] + ChunkWords THEN n ELSE F[k] + ChunkWords
             lists == [k \in DOMAIN chunks |-> IF k = 1 THEN chunks[k]
                                               ELSE SubSeq(chunks[k], ChunkOverlap + 1, Len(chunks[k]))]
  <2>4. last \in 1..n /\ DOMAIN chunks = 1..last /\ \A k \in 1..last : chunks[k] = SubSeq(words, F[k] + 1, end(k))
    BY <2>3 DEF Starts, CutAt
  <2>5. \A k \in 1..last : lists[k] = IF k = 1 THEN chunks[k]
                                      ELSE SubSeq(chunks[k], ChunkOverlap + 1, Len(chunks[k]))
    BY <2>4
  <2>6. DOMAIN lists = 1..last /\ lists = [k \in 1..last |-> lists[k]]
    BY <2>4
  <2>7. UnchunkBody(chunks) = Joined(lists)
    BY DEF UnchunkBody
  <2> HIDE DEF lists
  <2>8. ASSUME NEW k \in 1..last PROVE F[k] \in Nat /\ end(k) \in Nat /\ end(k) <= n /\ F[k] < end(k)
    <3>1. k \in 1..n /\ F[k] \in Nat
      BY <2>4, <2>3 DEF Starts
    <3>2. F[k] < n
      <4>1. CASE k = 1
        BY <2>1, <2>3, <4>1 DEF Starts
      <4>2. CASE k # 1
        <5>1. k - 1 \in 1..n /\ (k - 1) + 1 = k /\ ~(last <= k - 1)
          BY <2>4, <3>1, <4>2
        <5>2. F[k - 1] \in Nat /\ F[k] = F[k - 1] + (ChunkWords - ChunkOverlap)
          BY <2>3, <5>1 DEF Starts
        <5>3. ~(F[k - 1] + ChunkWords >= n)
          BY <2>3, <5>1 DEF Starts
        <5> QED BY <5>2, <5>3, PassageAssumption
      <4> QED BY <4>1, <4>2
    <3> QED BY <3>1, <3>2, PassageAssumption
  <2>9. ASSUME NEW k \in 1..last, k # 1
        PROVE  /\ k - 1 \in 1..last
               /\ end(k - 1) = F[k] + ChunkOverlap /\ F[k] + ChunkOverlap <= end(k)
    <3>1. k - 1 \in 1..n /\ k - 1 \in 1..last /\ (k - 1) + 1 = k /\ ~(last <= k - 1)
      BY <2>4, <2>9
    <3>2. F[k - 1] \in Nat /\ F[k] = F[k - 1] + (ChunkWords - ChunkOverlap)
      BY <2>3, <3>1 DEF Starts
    <3>3. ~(F[k - 1] + ChunkWords >= n)
      BY <2>3, <3>1 DEF Starts
    <3> QED BY <3>1, <3>2, <3>3, PassageAssumption
  <2>10. end(last) = n
    <3>1. F[last] \in Nat /\ F[last] + ChunkWords >= n
      BY <2>3, <2>4 DEF Starts
    <3> QED BY <2>1, <3>1, PassageAssumption
  <2>11. ASSUME NEW k \in 1..last
         PROVE  LET from == IF k = 1 THEN 0 ELSE F[k] + ChunkOverlap
                IN /\ lists[k] \in Seq(V) /\ Len(lists[k]) = end(k) - from
                   /\ \A m \in DOMAIN lists[k] : lists[k][m] = words[from + m]
    <3>1. PICK f, e : f = F[k] /\ e = end(k)
      OBVIOUS
    <3>2. f \in Nat /\ e \in Nat /\ e <= n /\ f < e
      BY <2>8, <3>1
    <3>3. PICK c : c = chunks[k]
      OBVIOUS
    <3>4. c = SubSeq(words, f + 1, e)
      BY <2>4, <3>1, <3>3
    <3>5. c \in Seq(V) /\ Len(c) = e - f /\ \A m \in 1..(e - f) : c[m] = words[f + m]
      BY <2>1, <3>2, <3>4
    <3>6. CASE k = 1
      <4>1. f = 0
        BY <2>3, <3>1, <3>6 DEF Starts
      <4>2. lists[k] = c
        BY <2>5, <3>3, <3>6
      <4> QED BY <3>1, <3>2, <3>5, <3>6, <4>1, <4>2
    <3>7. CASE k # 1
      <4>1. f + ChunkOverlap <= e /\ ChunkOverlap \in Nat
        BY <2>9, <3>1, <3>7, PassageAssumption
      <4>2. PICK o, s : o = ChunkOverlap /\ s = SubSeq(c, o + 1, e - f)
        OBVIOUS
      <4>3. lists[k] = s
        BY <2>5, <3>3, <3>5, <3>7, <4>2
      <4>4. o \in Nat /\ f + o <= e
        BY <4>1, <4>2
      <4>5. s \in Seq(V) /\ Len(s) = e - (f + o) /\ \A m \in 1..(e - (f + o)) : s[m] = c[o + m]
        <5>1. c \in Seq(V) /\ Len(c) = e - f /\ e - f \in Nat /\ o <= e - f
          BY <3>2, <3>5, <4>4
        <5>2. (e - f) - o = e - (f + o)
          BY <3>2, <4>4
        <5> QED BY <4>2, <4>4, <5>1, <5>2, PartIs
      <4>6. \A m \in 1..(e - (f + o)) : o + m \in 1..(e - f) /\ f + (o + m) = (f + o) + m
        BY <3>2, <4>4
      <4>7. \A m \in 1..(e - (f + o)) : s[m] = words[(f + o) + m]
        BY <3>5, <4>5, <4>6
      <4>8. DOMAIN s = 1..(e - (f + o))
        BY <4>5
      <4> QED BY <3>1, <3>7, <4>2, <4>3, <4>5, <4>7, <4>8
    <3> QED BY <3>6, <3>7
  <2>12. lists \in Seq(Seq(V)) /\ Len(lists) = last
    <3>1. lists \in [1..last -> Seq(V)]
      BY <2>6, <2>11
    <3> QED BY <2>4, <3>1, IsAList
  <2>13. PICK ends : ends = EndsOf(lists)
    OBVIOUS
  <2>14. /\ ends[0] = 0
         /\ \A k \in 1..last : ends[k] = ends[k - 1] + Len(lists[k])
    BY <2>12, <2>13, EndsAre
  <2>15. \A k \in 1..last : ends[k] = end(k)
    <3> DEFINE Other == {k \in 1..last : ends[k] # end(k)}
    <3>1. SUFFICES ASSUME Other # {} PROVE FALSE
      OBVIOUS
    <3>2. Other \subseteq Nat /\ Other \subseteq 1..last /\ \A k \in 1..last : k \in Other <=> ends[k] # end(k)
      OBVIOUS
    <3> HIDE DEF Other
    <3>3. PICK k \in Other : \A j \in Other : k <= j
      BY <3>1, <3>2, Least
    <3>4. k \in 1..last /\ ends[k] # end(k) /\ ends[k] = ends[k - 1] + Len(lists[k])
      BY <2>14, <3>2
    <3>5. CASE k = 1
      BY <2>8, <2>11, <2>14, <3>4, <3>5
    <3>6. CASE k # 1
      <4>1. k - 1 \in 1..last /\ end(k - 1) = F[k] + ChunkOverlap
        BY <2>9, <3>4, <3>6
      <4>2. ~(k <= k - 1)
        BY <3>4
      <4>3. ends[k - 1] = F[k] + ChunkOverlap
        BY <3>2, <3>3, <4>1, <4>2
      <4>4. Len(lists[k]) = end(k) - (F[k] + ChunkOverlap)
        BY <2>11, <3>4, <3>6
      <4>5. F[k] \in Nat /\ end(k) \in Nat
        BY <2>8, <3>4
      <4>6. ends[k] = (F[k] + ChunkOverlap) + (end(k) - (F[k] + ChunkOverlap))
        BY <3>4, <4>3, <4>4
      <4>7. ends[k] = end(k)
        BY <4>5, <4>6, PassageAssumption
      <4> QED BY <3>4, <4>7
    <3> QED BY <3>5, <3>6
  <2>16. ASSUME NEW p \in 1..last, NEW m \in DOMAIN lists[p] PROVE lists[p][m] = words[ends[p - 1] + m]
    <3>1. ends[p - 1] = IF p = 1 THEN 0 ELSE F[p] + ChunkOverlap
      <4>1. CASE p = 1
        BY <2>14, <4>1
      <4>2. CASE p # 1
        BY <2>9, <2>15, <4>2
      <4> QED BY <4>1, <4>2
    <3> QED BY <2>11, <3>1
  <2>17. ends[last] = n
    BY <2>4, <2>10, <2>15
  <2>18. Joined(lists) = words
    <3>1. EndsOf(lists)[Len(lists)] = Len(words)
      BY <2>1, <2>12, <2>13, <2>17
    <3>2. \A p \in DOMAIN lists : \A m \in DOMAIN lists[p] : lists[p][m] = words[EndsOf(lists)[p - 1] + m]
      BY <2>6, <2>13, <2>16
    <3> QED BY <2>12, <3>1, <3>2, JoinedPieces
  <2> QED BY <2>2, <2>7, <2>18
<1> QED BY <1>1, <1>2

(* The hits of a text, in order; what a window and its score can be.         *)
HitsIn(hits, m, wanted) ==
  /\ m \in Nat /\ DOMAIN hits = 1..m /\ Len(hits) = m
  /\ \A k \in 1..m : hits[k].at \in Nat /\ hits[k].term \in wanted
  /\ \A i, j \in 1..m : i < j => hits[i].at < hits[j].at

LEMMA HitsAre ==
  ASSUME NEW V, NEW words \in Seq(V), NEW wanted
  PROVE  \E m : HitsIn(HitsOf(words, wanted), m, wanted)
<1> DEFINE P == {i \in DOMAIN words : words[i] \in wanted}
           at == Ascending(P)
<1>1. PICK n \in Nat : DOMAIN words = 1..n
  OBVIOUS
<1>2. P \subseteq 1..n /\ \A i \in P : words[i] \in wanted
  BY <1>1
<1>3. HitsOf(words, wanted) = SubSeq([k \in DOMAIN at |-> [at |-> at[k], term |-> words[at[k]]]], 1, Len(at))
  BY DEF HitsOf
<1> HIDE DEF P
<1>4. IsFiniteSet(P) /\ P \subseteq Int /\ P \subseteq Nat
  <2>1. IsFiniteSet(1..n)
    BY <1>1, FS_Interval
  <2>2. IsFiniteSet(P)
    BY <1>2, <2>1, FS_Subset
  <2>3. 1..n \subseteq Nat /\ 1..n \subseteq Int
    OBVIOUS
  <2> QED BY <1>2, <2>2, <2>3
<1>5. PICK c : c = Cardinality(P)
  OBVIOUS
<1>6. /\ c \in Nat /\ at \in [1..c -> P]
      /\ \A i, j \in 1..c : at[i] < at[j] <=> i < j
  BY <1>4, <1>5, AscendingIs
<1> HIDE DEF at
<1>7. Len(at) = c /\ DOMAIN at = 1..c
  BY <1>6, IsAList
<1>8. PICK f : f = [k \in 1..c |-> [at |-> at[k], term |-> words[at[k]]]]
  OBVIOUS
<1>9. /\ DOMAIN f = 1..c
      /\ \A k \in 1..c : f[k].at = at[k] /\ f[k].term = words[at[k]] /\ at[k] \in P
  BY <1>6, <1>8
<1>10. f \in Seq([at : P, term : wanted]) /\ Len(f) = c
  <2> DEFINE R == [at : P, term : wanted]
  <2>1. \A k \in 1..c : [at |-> at[k], term |-> words[at[k]]] \in R
    BY <1>2, <1>6
  <2> HIDE DEF R
  <2>2. f \in [1..c -> R]
    BY <1>8, <2>1
  <2>3. f \in Seq(R) /\ Len(f) = c
    BY <1>6, <2>2, IsAList
  <2> QED BY <2>3 DEF R
<1>11. SubSeq(f, 1, c) = f
  BY <1>6, <1>10
<1>12. HitsOf(words, wanted) = f
  BY <1>3, <1>7, <1>8, <1>11
<1>13. \A k \in 1..c : f[k].at \in Nat /\ f[k].term \in wanted
  BY <1>2, <1>4, <1>9
<1>14. \A i, j \in 1..c : i < j => f[i].at < f[j].at
  BY <1>6, <1>9
<1>15. HitsIn(f, c, wanted)
  BY <1>6, <1>9, <1>10, <1>13, <1>14 DEF HitsIn
<1> QED BY <1>12, <1>15

Windows(n) == [distinct : 0..n, span : Nat \ {0}, from : Nat, to : Nat]

(* Hits are as far apart as they are numbered. *)
LEMMA HitsSpreadOut ==
  ASSUME NEW hits, NEW m, NEW wanted, HitsIn(hits, m, wanted), NEW l \in 1..m
  PROVE  \A r \in 1..m : l <= r => hits[r].at - hits[l].at >= r - l
<1>1. m \in Nat /\ \A k \in 1..m : hits[k].at \in Nat
  BY DEF HitsIn
<1> DEFINE Near == {r \in 1..m : l <= r /\ ~(hits[r].at - hits[l].at >= r - l)}
<1>2. SUFFICES ASSUME Near # {} PROVE FALSE
  OBVIOUS
<1>3. Near \subseteq Nat /\ Near \subseteq 1..m
      /\ \A r \in 1..m : r \in Near <=> l <= r /\ ~(hits[r].at - hits[l].at >= r - l)
  OBVIOUS
<1> HIDE DEF Near
<1>4. PICK r \in Near : \A k \in Near : r <= k
  BY <1>2, <1>3, Least
<1>5. r \in 1..m /\ l <= r /\ ~(hits[r].at - hits[l].at >= r - l)
  BY <1>3
<1>6. r # l
  BY <1>1, <1>5
<1>7. r - 1 \in 1..m /\ l <= r - 1 /\ ~(r <= r - 1) /\ r - 1 < r
  BY <1>1, <1>5, <1>6
<1>8. hits[r - 1].at - hits[l].at >= (r - 1) - l
  BY <1>3, <1>4, <1>7
<1>9. hits[r - 1].at < hits[r].at
  BY <1>5, <1>7 DEF HitsIn
<1>10. PICK a, b, c : a = hits[r].at /\ b = hits[r - 1].at /\ c = hits[l].at
  OBVIOUS
<1>11. a \in Nat /\ b \in Nat /\ c \in Nat /\ b - c >= (r - 1) - l /\ b < a /\ ~(a - c >= r - l)
  BY <1>1, <1>5, <1>7, <1>8, <1>9, <1>10
<1> QED BY <1>5, <1>11

LEMMA WindowIs ==
  ASSUME NEW hits, NEW m, NEW wanted, IsFiniteSet(wanted), HitsIn(hits, m, wanted),
         NEW r \in 1..m, NEW l \in 1..r
  PROVE  /\ Window(hits, l, r) \in Windows(Cardinality(wanted))
         /\ Window(hits, l, r).distinct # 0
         /\ Window(hits, l, r).span >= (r - l) + 1
         /\ \A k \in 1..l : Window(hits, l, r).span <= Window(hits, k, r).span
<1>1. m \in Nat /\ l \in 1..m /\ l <= r /\ r \in Nat /\ l \in Nat
  BY DEF HitsIn
<1>2. PICK n : n = Cardinality(wanted)
  OBVIOUS
<1>3. n \in Nat
  BY <1>2, FS_CardinalityType
<1>4. PICK T : T = {hits[i].term : i \in l..r}
  OBVIOUS
<1>5. T \subseteq wanted /\ T # {}
  <2>1. l..r \subseteq 1..m /\ l \in l..r
    BY <1>1
  <2>2. \A i \in 1..m : hits[i].term \in wanted
    BY DEF HitsIn
  <2> QED BY <1>4, <2>1, <2>2
<1>6. IsFiniteSet(T) /\ Cardinality(T) \in Nat /\ Cardinality(T) <= n /\ Cardinality(T) # 0
  BY <1>2, <1>5, FS_Subset, FS_CardinalityType, FS_EmptySet
<1>7. PICK d : d = Cardinality(T)
  OBVIOUS
<1>8. ASSUME NEW k \in 1..l
      PROVE  /\ hits[k].at \in Nat /\ hits[r].at \in Nat
             /\ hits[r].at - hits[k].at >= r - k
             /\ hits[k].at <= hits[l].at /\ hits[l].at \in Nat
  <2>1. k \in 1..m /\ k <= r /\ (k = l \/ k < l)
    BY <1>1
  <2>2. hits[k].at \in Nat /\ hits[r].at \in Nat /\ hits[l].at \in Nat
    BY <1>1, <2>1 DEF HitsIn
  <2>3. hits[r].at - hits[k].at >= r - k
    BY <2>1, HitsSpreadOut
  <2>4. k = l \/ hits[k].at < hits[l].at
    BY <1>1, <2>1 DEF HitsIn
  <2> QED BY <2>2, <2>3, <2>4
<1>9. PICK a, b : a = hits[r].at /\ b = hits[l].at
  OBVIOUS
<1>10. a \in Nat /\ b \in Nat /\ a - b >= r - l
  BY <1>1, <1>8, <1>9
<1>11. PICK w : w = Window(hits, l, r)
  OBVIOUS
<1>12. w = [distinct |-> d, span |-> (a - b) + 1, from |-> b, to |-> a]
  BY <1>4, <1>7, <1>9, <1>11 DEF Window
<1>13. (a - b) + 1 \in Nat \ {0} /\ (a - b) + 1 >= (r - l) + 1
  BY <1>1, <1>10
<1>14. w \in Windows(n) /\ w.distinct # 0 /\ w.span >= (r - l) + 1
  BY <1>3, <1>6, <1>7, <1>10, <1>12, <1>13 DEF Windows
<1>15. ASSUME NEW k \in 1..l PROVE w.span <= Window(hits, k, r).span
  <2>1. PICK c : c = hits[k].at
    OBVIOUS
  <2>2. Window(hits, k, r).span = (a - c) + 1
    BY <1>9, <2>1 DEF Window
  <2>3. c \in Nat /\ c <= b
    BY <1>8, <1>9, <2>1
  <2>4. (a - b) + 1 <= (a - c) + 1
    BY <1>10, <2>3
  <2> QED BY <1>12, <2>2, <2>4
<1> QED BY <1>2, <1>11, <1>14, <1>15

(* Better is an order of windows. *)
LEMMA BetterIs ==
  ASSUME NEW n \in Nat, NEW v \in Windows(n), NEW w \in Windows(n)
  PROVE  /\ ~Better(v, w) <=> Cubed(v.distinct) * w.span <= Cubed(w.distinct) * v.span
         /\ Better(v, w) => ~Better(w, v)
<1>1. PICK c, d, s, t : c = Cubed(v.distinct) /\ d = Cubed(w.distinct) /\ s = v.span /\ t = w.span
  OBVIOUS
<1>2. v.distinct \in Nat /\ w.distinct \in Nat /\ s \in Nat /\ t \in Nat
  BY <1>1 DEF Windows
<1>3. c \in Nat /\ d \in Nat
  BY <1>1, <1>2, CubesGrow
<1>4. c * t \in Nat /\ d * s \in Nat
  BY <1>2, <1>3
<1>5. (Better(v, w) <=> c * t > d * s) /\ (Better(w, v) <=> d * s > c * t)
  BY <1>1 DEF Better
<1> QED BY <1>1, <1>4, <1>5

LEMMA NoneIsBetter ==
  ASSUME NEW n \in Nat, NEW v \in Windows(n), NEW w \in Windows(n), NEW x \in Windows(n),
         ~Better(v, w), ~Better(w, x)
  PROVE  ~Better(v, x)
<1>1. PICK a, b, c, s, t, u : /\ a = Cubed(v.distinct) /\ b = Cubed(w.distinct) /\ c = Cubed(x.distinct)
                              /\ s = v.span /\ t = w.span /\ u = x.span
  OBVIOUS
<1>2. v.distinct \in Nat /\ w.distinct \in Nat /\ x.distinct \in Nat
      /\ s \in Nat \ {0} /\ t \in Nat \ {0} /\ u \in Nat \ {0}
  BY <1>1 DEF Windows
<1>3. a \in Nat /\ b \in Nat /\ c \in Nat
  BY <1>1, <1>2, CubesGrow
<1>4. a * t <= b * s /\ b * u <= c * t
  BY <1>1, BetterIs
<1>5. a * u <= c * s
  BY <1>2, <1>3, <1>4, RatiosCompare
<1> QED BY <1>1, <1>5, BetterIs

(* Of some windows BestOf finds one than which none is better.               *)
LEMMA BestOfIs ==
  ASSUME NEW n \in Nat, NEW k \in Nat, NEW windows \in [1..k -> Windows(n)], NEW best \in Windows(n)
  PROVE  LET found == BestOf(windows, best)
         IN /\ found \in Windows(n)
            /\ found = best \/ \E i \in 1..k : found = windows[i]
            /\ ~Better(best, found)
            /\ \A i \in 1..k : ~Better(windows[i], found)
<1> DEFINE winners == {i \in 1..k : /\ Better(windows[i], best)
                                    /\ \A j \in 1..k : ~Better(windows[j], windows[i])}
<1>1. BestOf(windows, best) = IF winners = {} THEN best ELSE windows[Min(winners)]
  BY DEF BestOf
<1>2. /\ \A i \in 1..k : i \in winners <=> /\ Better(windows[i], best)
                                           /\ \A j \in 1..k : ~Better(windows[j], windows[i])
      /\ winners \subseteq Nat /\ winners \subseteq 1..k
  OBVIOUS
<1> HIDE DEF winners
<1>3. CASE winners # {}
  <2>1. PICK i \in winners : \A j \in winners : i <= j
    BY <1>2, <1>3, Least
  <2>2. Min(winners) \in winners
    BY <2>1 DEF Min
  <2>3. PICK j \in 1..k : j = Min(winners)
    BY <1>2, <2>2
  <2>4. Better(windows[j], best) /\ \A h \in 1..k : ~Better(windows[h], windows[j])
    BY <1>2, <2>2, <2>3
  <2>5. windows[j] \in Windows(n)
    OBVIOUS
  <2>6. ~Better(best, windows[j])
    BY <2>4, <2>5, BetterIs
  <2> QED BY <1>1, <1>3, <2>3, <2>4, <2>5, <2>6
<1>4. CASE winners = {}
  <2>1. ~Better(best, best)
    BY BetterIs
  <2>2. ASSUME NEW i \in 1..k, Better(windows[i], best) PROVE FALSE
    <3> DEFINE Over(j) == {h \in 1..k : Better(windows[h], windows[j])}
               S == {Cardinality(Over(j)) : j \in {j \in 1..k : Better(windows[j], best)}}
    <3>1. \A j \in 1..k : IsFiniteSet(Over(j)) /\ Cardinality(Over(j)) \in Nat
      <4>1. IsFiniteSet(1..k)
        BY FS_Interval
      <4>2. \A j \in 1..k : Over(j) \subseteq 1..k
        OBVIOUS
      <4> HIDE DEF Over
      <4> QED BY <4>1, <4>2, FS_Subset, FS_CardinalityType
    <3>2. \A j, h \in 1..k : h \in Over(j) <=> Better(windows[h], windows[j])
      OBVIOUS
    <3>3. \A j \in 1..k : Over(j) \subseteq 1..k
      OBVIOUS
    <3> HIDE DEF Over
    <3>4. S \subseteq Nat /\ S # {}
      BY <2>2, <3>1
    <3>5. \A c : c \in S <=> \E j \in 1..k : Better(windows[j], best) /\ c = Cardinality(Over(j))
      OBVIOUS
    <3> HIDE DEF S
    <3>6. PICK c \in S : \A b \in S : c <= b
      BY <3>4, Least
    <3>7. PICK j \in 1..k : Better(windows[j], best) /\ c = Cardinality(Over(j))
      BY <3>5, <3>6
    <3>8. PICK h \in 1..k : Better(windows[h], windows[j])
      BY <1>2, <1>4, <3>7
    <3>9. windows[h] \in Windows(n) /\ windows[j] \in Windows(n)
      OBVIOUS
    <3>10. Better(windows[h], best)
      BY <3>7, <3>8, <3>9, BetterIs, NoneIsBetter
    <3>11. Cardinality(Over(h)) \in S
      BY <3>5, <3>10
    <3>12. ASSUME NEW x \in Over(h) PROVE x \in Over(j)
      <4>1. x \in 1..k /\ Better(windows[x], windows[h])
        BY <3>2, <3>3, <3>12
      <4>2. windows[x] \in Windows(n)
        BY <4>1
      <4>3. Better(windows[x], windows[j])
        BY <3>8, <3>9, <4>1, <4>2, BetterIs, NoneIsBetter
      <4> QED BY <3>2, <4>1, <4>3
    <3>13. h \in Over(j) /\ h \notin Over(h)
      BY <3>2, <3>8, <3>9, BetterIs
    <3>14. Over(h) \subseteq Over(j) /\ Over(h) # Over(j)
      BY <3>12, <3>13
    <3>15. Cardinality(Over(h)) < Cardinality(Over(j))
      BY <3>1, <3>14, FS_Subset
    <3> QED BY <3>1, <3>6, <3>7, <3>11, <3>15
  <2> QED BY <1>1, <1>4, <2>1, <2>2
<1> QED BY <1>3, <1>4

(* A walk back from a hit finds a window than which none is better that ends *)
(* there, of as many hits as it visits; it may stop before, for full         *)
(* coverage would not help.                                                  *)
Enough(hits, r, n, best) ==
  \A l \in 1..r : r - l < BackPerTerm * n + BackExtra => ~Better(Window(hits, l, r), best)

Reached(hits, r, before, best) == best = before \/ \E l \in 1..r : best = Window(hits, l, r)

LEMMA BackIs ==
  ASSUME NEW n \in Nat
  PROVE  BackPerTerm * n + BackExtra \in Nat \ {0}
<1>1. BackPerTerm \in Nat /\ BackExtra \in Nat \ {0}
  BY PassageAssumption
<1>2. BackPerTerm * n \in Nat
  BY <1>1
<1> QED BY <1>1, <1>2

LEMMA WalkBackIs ==
  ASSUME NEW hits, NEW m, NEW wanted, IsFiniteSet(wanted), HitsIn(hits, m, wanted),
         NEW r \in 1..m, NEW n, n = Cardinality(wanted), NEW before \in Windows(n)
  PROVE  LET best == WalkBack(hits, r, before, n)
         IN /\ best \in Windows(n)
            /\ Reached(hits, r, before, best)
            /\ ~Better(before, best)
            /\ Enough(hits, r, n, best)
<1> DEFINE windows(k) == [i \in 1..k |-> Window(hits, r - i + 1, r)]
           back == Min({r, MaxBack(hits, n)})
           over(k) == k = back \/ Hopeless(Window(hits, r - k + 1, r), BestOf(windows(k), before), n)
           Over == {k \in 1..back : over(k)}
           stop == Min(Over)
           best == BestOf(windows(stop), before)
<1>1. n \in Nat /\ m \in Nat /\ r \in Nat
  BY FS_CardinalityType DEF HitsIn
<1>2. PICK B \in Nat \ {0} : B = BackPerTerm * n + BackExtra
  BY <1>1, BackIs
<1>3. back = IF r < B THEN r ELSE B
  <2>1. MaxBack(hits, n) = IF m < B THEN m ELSE B
    <3>1. Len(hits) = m /\ m \in Int /\ B \in Int
      BY <1>1 DEF HitsIn
    <3> QED BY <1>2, <3>1, LargerOfTwo DEF MaxBack
  <2>2. MaxBack(hits, n) \in Int /\ r \in Int
    BY <1>1, <2>1
  <2>3. back = IF r < MaxBack(hits, n) THEN r ELSE MaxBack(hits, n)
    BY <2>2, LargerOfTwo
  <2>4. r <= m
    OBVIOUS
  <2> QED BY <1>1, <2>1, <2>3, <2>4
<1>4. WalkBack(hits, r, before, n) = best
  BY DEF WalkBack
<1> HIDE DEF back
<1>5. back \in 1..r
  BY <1>1, <1>3
<1>6. back \in Over
  BY <1>5
<1>7. Over \subseteq Nat /\ Over \subseteq 1..back
      /\ \A k \in Over : k # back => Hopeless(Window(hits, r - k + 1, r), BestOf(windows(k), before), n)
  OBVIOUS
<1> HIDE DEF Over
<1>8. stop \in Over
  <2>1. PICK k \in Over : \A j \in Over : k <= j
    BY <1>6, <1>7, Least
  <2> QED BY <2>1 DEF Min
<1> HIDE DEF stop
<1>9. stop \in Nat /\ stop \in 1..back /\ stop \in 1..r
  BY <1>5, <1>7, <1>8
<1>10. \A i \in 1..stop : r - i + 1 \in 1..r
  BY <1>1, <1>9
<1>11. windows(stop) \in [1..stop -> Windows(n)]
  BY <1>10, WindowIs
<1>12. \A i \in 1..stop : windows(stop)[i] = Window(hits, r - i + 1, r)
  OBVIOUS
<1> HIDE DEF windows
<1>13. /\ best \in Windows(n)
       /\ best = before \/ \E i \in 1..stop : best = windows(stop)[i]
       /\ ~Better(before, best)
       /\ \A i \in 1..stop : ~Better(windows(stop)[i], best)
  BY <1>1, <1>9, <1>11, BestOfIs
<1>14. stop # back => Hopeless(Window(hits, r - stop + 1, r), best, n)
  BY <1>7, <1>8
<1> HIDE DEF best
<1>15. Reached(hits, r, before, best)
  BY <1>10, <1>12, <1>13 DEF Reached
<1>16. ASSUME NEW l \in 1..r, r - l < B PROVE ~Better(Window(hits, l, r), best)
  <2>1. PICK k : k = r - l + 1
    OBVIOUS
  <2>2. k \in 1..back /\ r - k + 1 = l
    BY <1>1, <1>3, <1>16, <2>1
  <2>3. CASE k <= stop
    <3>1. k \in 1..stop
      BY <1>9, <2>2, <2>3
    <3> QED BY <1>12, <1>13, <2>2, <3>1
  <2>4. CASE ~(k <= stop)
    <3>1. stop # back
      BY <1>5, <1>9, <2>2, <2>4
    <3>2. PICK p \in 1..r : p = r - stop + 1
      BY <1>9, <1>10
    <3>3. l \in 1..p
      BY <1>1, <1>9, <2>1, <2>4, <3>2
    <3>4. PICK v, w : v = Window(hits, l, r) /\ w = Window(hits, p, r)
      OBVIOUS
    <3>5. v \in Windows(n) /\ w \in Windows(n) /\ w.span <= v.span
      BY <3>2, <3>3, <3>4, WindowIs
    <3>6. Cubed(n) * best.span <= Cubed(best.distinct) * w.span
      BY <1>14, <3>1, <3>2, <3>4 DEF Hopeless
    <3>7. PICK a, b, s : a = Cubed(v.distinct) /\ b = Cubed(best.distinct) /\ s = best.span
      OBVIOUS
    <3>8. /\ v.distinct \in Nat /\ v.distinct <= n /\ best.distinct \in Nat
          /\ s \in Nat /\ w.span \in Nat /\ v.span \in Nat
      BY <1>1, <1>13, <3>5, <3>7 DEF Windows
    <3>9. a \in Nat /\ b \in Nat /\ Cubed(n) \in Nat /\ a <= Cubed(n)
      BY <1>1, <3>7, <3>8, CubesGrow
    <3>10. a * s <= Cubed(n) * s /\ b * w.span <= b * v.span
      BY <3>5, <3>8, <3>9, ProductsGrow
    <3>11. a * s \in Nat /\ Cubed(n) * s \in Nat /\ b * w.span \in Nat /\ b * v.span \in Nat
      BY <3>8, <3>9
    <3>12. a * s <= b * v.span
      BY <3>6, <3>7, <3>10, <3>11
    <3> QED BY <1>1, <1>13, <3>4, <3>5, <3>7, <3>12, BetterIs
  <2> QED BY <2>3, <2>4
<1>17. Enough(hits, r, n, best)
  BY <1>2, <1>16 DEF Enough
<1> QED BY <1>4, <1>13, <1>15, <1>17

(* Walks from all hits, one after the other. *)
Walks(best, hits, m, n) ==
  /\ best[0] = NoWindow
  /\ \A r \in 1..m : best[r] = WalkBack(hits, r, best[r - 1], n)

LEMMA WalksAre ==
  ASSUME NEW hits, NEW m, NEW wanted, IsFiniteSet(wanted), HitsIn(hits, m, wanted),
         NEW n, n = Cardinality(wanted), NEW best,
         best = CHOOSE f : f = [r \in 0..m |-> IF r = 0 THEN NoWindow ELSE WalkBack(hits, r, f[r - 1], n)]
  PROVE  /\ Walks(best, hits, m, n)
         /\ \A r \in 0..m : best[r] \in Windows(n)
<1> DEFINE G == [p \in (1..m) \X Windows(n) |-> WalkBack(hits, p[1], p[2], n)]
           body(f) == [r \in 0..m |-> IF r = 0 THEN NoWindow ELSE WalkBack(hits, r, f[r - 1], n)]
<1>1. n \in Nat /\ m \in Nat
  BY FS_CardinalityType DEF HitsIn
<1>2. NoWindow \in Windows(n)
  BY <1>1 DEF NoWindow, Windows
<1>3. ASSUME NEW r \in 1..m, NEW w \in Windows(n) PROVE WalkBack(hits, r, w, n) \in Windows(n)
  BY WalkBackIs
<1>4. G \in [(1..m) \X Windows(n) -> Windows(n)]
      /\ \A r \in 1..m, w \in Windows(n) : G[<<r, w>>] = WalkBack(hits, r, w, n)
  BY <1>3
<1> HIDE DEF G
<1>5. PICK f \in [0..m -> Windows(n)] : Follows(f, NoWindow, G, m)
  BY <1>1, <1>2, <1>4, Recursion
<1>6. f = body(f)
  <2>1. f[0] = NoWindow /\ \A r \in 1..m : f[r] = G[<<r, f[r - 1]>>]
    BY <1>5 DEF Follows
  <2>2. ASSUME NEW r \in 1..m PROVE f[r] = WalkBack(hits, r, f[r - 1], n)
    <3>1. f[r - 1] \in Windows(n)
      BY <1>1, <1>5
    <3> QED BY <1>4, <2>1, <3>1
  <2>3. \A r \in 0..m : r = 0 \/ r \in 1..m
    BY <1>1
  <2>4. \A r \in 0..m : f[r] = IF r = 0 THEN NoWindow ELSE WalkBack(hits, r, f[r - 1], n)
    BY <2>1, <2>2, <2>3
  <2> QED BY <1>5, <2>4
<1>7. best = CHOOSE g : g = body(g)
  OBVIOUS
<1> HIDE DEF body
<1>8. best = body(best)
  BY <1>6, <1>7
<1>9. best = [r \in 0..m |-> IF r = 0 THEN NoWindow ELSE WalkBack(hits, r, best[r - 1], n)]
  BY <1>8 DEF body
<1>10. 0 \in 0..m /\ \A r \in 1..m : r \in 0..m /\ r # 0
  BY <1>1
<1>11. Walks(best, hits, m, n)
  <2>1. best[0] = NoWindow
    BY <1>9, <1>10
  <2>2. ASSUME NEW r \in 1..m PROVE best[r] = WalkBack(hits, r, best[r - 1], n)
    BY <1>9, <1>10
  <2> QED BY <2>1, <2>2 DEF Walks
<1>12. DOMAIN best = 0..m
  BY <1>9
<1>13. \A r \in 1..m : best[r - 1] \in Windows(n) => best[r] \in Windows(n)
  BY <1>3, <1>11 DEF Walks
<1>14. best[0] = NoWindow
  BY <1>11 DEF Walks
<1>15. \A r \in 0..m : best[r] \in Windows(n)
  BY <1>1, <1>2, <1>12, <1>13, <1>14, RecursionIs
<1> QED BY <1>11, <1>15

(* What the walks up to a hit have found. *)
UpTo(hits, r, n, best) ==
  /\ \/ r = 0 /\ best = NoWindow
     \/ \E j \in 1..r : \E l \in 1..j : best = Window(hits, l, j)
  /\ \A j \in 1..r : Enough(hits, j, n, best)

LEMMA WalksFind ==
  ASSUME NEW hits, NEW m, NEW wanted, IsFiniteSet(wanted), HitsIn(hits, m, wanted),
         NEW n, n = Cardinality(wanted), NEW best, Walks(best, hits, m, n),
         \A r \in 0..m : best[r] \in Windows(n)
  PROVE  UpTo(hits, m, n, best[m])
<1>1. n \in Nat /\ m \in Nat
  BY FS_CardinalityType DEF HitsIn
<1>2. BackPerTerm * n + BackExtra \in Nat \ {0}
  BY <1>1, BackIs
<1> DEFINE Lost == {r \in 0..m : ~UpTo(hits, r, n, best[r])}
<1>3. SUFFICES ASSUME Lost # {} PROVE FALSE
  BY <1>1
<1>4. Lost \subseteq Nat /\ Lost \subseteq 0..m /\ \A r \in 0..m : r \in Lost <=> ~UpTo(hits, r, n, best[r])
  OBVIOUS
<1> HIDE DEF Lost
<1>5. PICK r \in Lost : \A k \in Lost : r <= k
  BY <1>3, <1>4, Least
<1>6. r \in 0..m /\ ~UpTo(hits, r, n, best[r])
  BY <1>4
<1>7. r # 0
  <2>1. UpTo(hits, 0, n, NoWindow)
    BY DEF UpTo
  <2> QED BY <1>6, <2>1 DEF Walks
<1>8. r \in 1..m /\ r - 1 \in 0..m /\ ~(r <= r - 1)
  BY <1>1, <1>6, <1>7
<1>9. UpTo(hits, r - 1, n, best[r - 1])
  BY <1>4, <1>5, <1>8
<1>10. PICK w, v : w = best[r] /\ v = best[r - 1] /\ w \in Windows(n) /\ v \in Windows(n)
  BY <1>6, <1>8
<1>11. w = WalkBack(hits, r, v, n)
  BY <1>8, <1>10 DEF Walks
<1>12. Reached(hits, r, v, w) /\ ~Better(v, w) /\ Enough(hits, r, n, w)
  BY <1>8, <1>10, <1>11, WalkBackIs
<1>13. ASSUME NEW j \in 1..r PROVE Enough(hits, j, n, w)
  <2>1. CASE j = r
    BY <1>12, <2>1
  <2>2. CASE j # r
    <3>1. j \in 1..(r - 1) /\ j \in 1..m
      <4>1. r \in Nat /\ j \in Nat /\ j # r /\ 1 <= j /\ j <= r /\ r <= m
        BY <1>1, <1>8, <2>2
      <4> QED BY <1>1, <4>1
    <3>2. Enough(hits, j, n, v)
      BY <1>9, <1>10, <3>1 DEF UpTo
    <3>3. ASSUME NEW l \in 1..j, j - l < BackPerTerm * n + BackExtra PROVE ~Better(Window(hits, l, j), w)
      <4>1. ~Better(Window(hits, l, j), v)
        BY <3>2, <3>3 DEF Enough
      <4>2. Window(hits, l, j) \in Windows(n)
        BY <3>1, WindowIs
      <4> QED BY <1>1, <1>10, <1>12, <4>1, <4>2, NoneIsBetter
    <3> QED BY <3>3 DEF Enough
  <2> QED BY <2>1, <2>2
<1>14. w # NoWindow
  <2>1. PICK x : x = Window(hits, r, r)
    OBVIOUS
  <2>2. r \in 1..r /\ r - r = 0
    BY <1>8
  <2>3. ~Better(x, w)
    BY <1>2, <1>12, <2>1, <2>2 DEF Enough
  <2>4. x \in Windows(n) /\ x.distinct # 0
    BY <1>8, <2>1, <2>2, WindowIs
  <2>5. PICK d : d = x.distinct
    OBVIOUS
  <2>6. d \in Nat \ {0}
    BY <1>1, <2>4, <2>5 DEF Windows
  <2>7. d * d \in Nat \ {0}
    BY <2>6
  <2>8. (d * d) * d \in Nat \ {0}
    BY <2>6, <2>7
  <2>9. SUFFICES ASSUME w = NoWindow PROVE FALSE
    OBVIOUS
  <2>10. w.distinct = 0 /\ w.span = 1
    BY <2>9 DEF NoWindow
  <2>11. Cubed(d) * 1 <= Cubed(0) * x.span
    BY <1>1, <1>10, <2>3, <2>4, <2>5, <2>10, BetterIs
  <2>12. Cubed(0) = 0 /\ x.span \in Nat
    BY <1>1, <2>4 DEF Cubed, Windows
  <2>13. Cubed(d) \in Nat \ {0}
    BY <2>8 DEF Cubed
  <2> QED BY <2>11, <2>12, <2>13
<1>15. \E j \in 1..r : \E l \in 1..j : w = Window(hits, l, j)
  <2>1. CASE \E l \in 1..r : w = Window(hits, l, r)
    BY <1>8, <2>1
  <2>2. CASE w = v
    <3>1. \E j \in 1..(r - 1) : \E l \in 1..j : w = Window(hits, l, j)
      BY <1>9, <1>10, <1>14, <2>2 DEF UpTo
    <3>2. 1..(r - 1) \subseteq 1..r
      BY <1>8
    <3> QED BY <3>1, <3>2
  <2> QED BY <1>12, <2>1, <2>2 DEF Reached
<1>16. UpTo(hits, r, n, w)
  BY <1>13, <1>15 DEF UpTo
<1> QED BY <1>6, <1>10, <1>16

(* What wins though a walk did not visit it has a low score.                 *)
LEMMA WideIsWeak ==
  ASSUME NEW n \in Nat, NEW d \in 0..n, NEW s \in Nat, NEW g \in Int, n >= 2,
         g >= BackPerTerm * n + BackExtra, s >= g + 1
  PROVE  BackPerTerm * Cubed(d) < n * n * s
<1>1. PICK b, e : b = BackPerTerm /\ e = BackExtra
  OBVIOUS
<1>2. b \in Nat /\ e \in Nat
  BY <1>1, PassageAssumption
<1>3. PICK p \in Nat : p = b * n
  BY <1>2
<1>4. p + 1 <= s
  BY <1>1, <1>2, <1>3
<1>5. PICK q \in Nat : q = n * n
  OBVIOUS
<1>6. q # 0
  <2>1. 2 * n <= n * n /\ n * n \in Nat
    BY ProductsGrow
  <2> QED BY <1>5, <2>1
<1>7. q * (p + 1) <= q * s
  BY <1>4, ProductsGrow
<1>8. q * (p + 1) = q * p + q
  OBVIOUS
<1>9. PICK c, f : c = Cubed(d) /\ f = Cubed(n)
  OBVIOUS
<1>10. c \in Nat /\ f \in Nat /\ c <= f
  BY <1>9, CubesGrow
<1>11. b * c <= b * f
  BY <1>2, <1>10, ProductsGrow
<1>12. b * f = q * p
  <2>1. f = q * n
    BY <1>5, <1>9 DEF Cubed
  <2>2. b * (q * n) = q * (b * n)
    BY <1>2
  <2> QED BY <1>3, <2>1, <2>2
<1>13. b * c \in Nat /\ q * p \in Nat /\ q * s \in Nat
  BY <1>2, <1>10
<1>14. b * c < q * s
  BY <1>6, <1>7, <1>8, <1>11, <1>12, <1>13
<1> QED BY <1>1, <1>5, <1>9, <1>14

LEMMA PassageIsABestOne ==
  ASSUME NEW V, NEW words \in Seq(V), NEW wanted, IsFiniteSet(wanted)
  PROVE  LET n == Cardinality(wanted)
             best == BestWindow(words, wanted)
             hits == HitsOf(words, wanted)
         IN /\ IsBestWindow(best, words, wanted)
            /\ n >= 2 => \A r \in DOMAIN hits : \A l \in 1..r :
                 Better(Window(hits, l, r), best) =>
                   BackPerTerm * Cubed(Window(hits, l, r).distinct) < n * n * Window(hits, l, r).span
<1>1. PICK hits, n, best : /\ hits = HitsOf(words, wanted)
                           /\ n = Cardinality(wanted)
                           /\ best = BestWindow(words, wanted)
  OBVIOUS
<1>2. PICK m : HitsIn(hits, m, wanted)
  BY <1>1, HitsAre
<1>3. n \in Nat /\ m \in Nat /\ DOMAIN hits = 1..m /\ Len(hits) = m
  BY <1>1, <1>2, FS_CardinalityType DEF HitsIn
<1>4. CASE n < 2
  <2>1. best = NoWindow
    BY <1>1, <1>4 DEF BestWindow
  <2> QED BY <1>1, <1>3, <1>4, <2>1 DEF IsBestWindow
<1>5. CASE n >= 2
  <2>1. PICK f : f = CHOOSE g : g = [r \in 0..m |-> IF r = 0 THEN NoWindow ELSE WalkBack(hits, r, g[r - 1], n)]
    OBVIOUS
  <2>2. best = f[m]
    BY <1>1, <1>3, <1>5, <2>1 DEF BestWindow
  <2>3. Walks(f, hits, m, n) /\ \A r \in 0..m : f[r] \in Windows(n)
    BY <1>1, <1>2, <2>1, WalksAre
  <2>4. UpTo(hits, m, n, best)
    BY <1>1, <1>2, <2>2, <2>3, WalksFind
  <2>5. m \in 0..m /\ best \in Windows(n)
    BY <1>3, <2>2, <2>3
  <2>6. ASSUME NEW r \in 1..m, NEW l \in 1..r, Better(Window(hits, l, r), best)
        PROVE  /\ r - l >= BackPerTerm * n + BackExtra
               /\ BackPerTerm * Cubed(Window(hits, l, r).distinct) < n * n * Window(hits, l, r).span
    <3>1. Enough(hits, r, n, best)
      BY <2>4 DEF UpTo
    <3>2. ~(r - l < BackPerTerm * n + BackExtra)
      BY <2>6, <3>1 DEF Enough
    <3>3. BackPerTerm * n + BackExtra \in Nat /\ r - l \in Int
      BY <1>3, BackIs
    <3>4. r - l >= BackPerTerm * n + BackExtra
      BY <3>2, <3>3
    <3>5. PICK w : w = Window(hits, l, r)
      OBVIOUS
    <3>6. w \in Windows(n) /\ w.span >= (r - l) + 1
      BY <1>1, <1>2, <3>5, WindowIs
    <3>7. w.distinct \in 0..n /\ w.span \in Nat
      BY <3>6 DEF Windows
    <3>8. BackPerTerm * Cubed(w.distinct) < n * n * w.span
      BY <1>3, <1>5, <3>3, <3>4, <3>6, <3>7, WideIsWeak
    <3> QED BY <3>4, <3>5, <3>8
  <2>7. IsBestWindow(best, words, wanted)
    <3>1. CASE m = 0
      <4>1. best = NoWindow
        BY <2>4, <3>1 DEF UpTo
      <4>2. hits = <<>>
        <5>1. hits = SubSeq([k \in DOMAIN Ascending({i \in DOMAIN words : words[i] \in wanted}) |->
                               [at |-> Ascending({i \in DOMAIN words : words[i] \in wanted})[k],
                                term |-> words[Ascending({i \in DOMAIN words : words[i] \in wanted})[k]]]],
                            1, Len(Ascending({i \in DOMAIN words : words[i] \in wanted})))
          BY <1>1 DEF HitsOf
        <5> QED BY <1>3, <3>1, <5>1
      <4> QED BY <1>1, <4>1, <4>2 DEF IsBestWindow
    <3>2. CASE m # 0
      <4>1. \E r \in 1..m : \E l \in 1..r : best = Window(hits, l, r)
        BY <2>4, <3>2 DEF UpTo
      <4>2. hits # <<>>
        BY <1>3, <3>2
      <4>3. \A r \in 1..m : \A l \in 1..r :
              Better(Window(hits, l, r), best) => r - l >= BackPerTerm * n + BackExtra
        BY <2>6
      <4>4. ~(n < 2)
        BY <1>3, <1>5
      <4>5. hits = HitsOf(words, wanted) /\ n = Cardinality(wanted) /\ DOMAIN hits = 1..m
        BY <1>1, <1>3
      <4> QED BY Zenon, <4>1, <4>2, <4>3, <4>4, <4>5 DEF IsBestWindow
    <3> QED BY <3>1, <3>2
  <2> QED BY <1>1, <1>3, <2>6, <2>7
<1> QED BY <1>3, <1>4, <1>5

(* A question wants a finite set of terms. In any text, a window that is     *)
(* found in what its chunks are put together to is a best one of the text    *)
(* that was written, but for windows too wide for a walk, and those have a   *)
(* low score (embed.js 90-130, lexical.js 46-107).                           *)
THEOREM QuotesAreTheBest ==
  ASSUME \A c \in Cases : c.kind = "passage" => IsFiniteSet(c.wanted) /\ \E V : c.words \in Seq(V)
  PROVE  AnswersSpec => []QuotesAreFound
<1>1. case = None \/ case \in Cases => QuotesAreFound
  <2> SUFFICES ASSUME case \in Cases, case.kind = "passage" PROVE QuotesAreFound
    BY DEF QuotesAreFound, Is
  <2>1. PICK words, wanted : words = case.words /\ wanted = case.wanted
    OBVIOUS
  <2>2. IsFiniteSet(wanted) /\ \E V : words \in Seq(V)
    BY <2>1
  <2>3. PICK V : words \in Seq(V)
    BY <2>2
  <2>4. UnchunkBody(ChunkBody(words)) = words
    BY <2>3, UnchunkIs
  <2>5. PICK n, best, hits : /\ n = Cardinality(wanted)
                             /\ best = BestWindow(words, wanted)
                             /\ hits = HitsOf(words, wanted)
    OBVIOUS
  <2>6. /\ IsBestWindow(best, words, wanted)
        /\ n >= 2 => \A r \in DOMAIN hits : \A l \in 1..r :
             Better(Window(hits, l, r), best) =>
               BackPerTerm * Cubed(Window(hits, l, r).distinct) < n * n * Window(hits, l, r).span
    BY <2>2, <2>3, <2>5, PassageIsABestOne
  <2> QED BY <2>1, <2>4, <2>5, <2>6 DEF QuotesAreFound
<1> QED BY <1>1, CaseIsGiven, PTL

-----------------------------------------------------------------------------
(* Reading. The version of a title is that of the first word that has one.   *)
LEMMA MinIs ==
  ASSUME NEW S, S \subseteq Int, NEW k \in S, \A m \in S : k <= m
  PROVE  Min(S) = k
<1>1. Min(S) \in S /\ \A m \in S : Min(S) <= m
  BY DEF Min
<1>2. Min(S) <= k /\ k <= Min(S)
  BY <1>1
<1>3. Min(S) \in Int /\ k \in Int
  BY <1>1
<1> QED BY <1>2, <1>3

LEMMA VersionIs ==
  ASSUME NEW V, NEW title \in Seq(V), NEW k \in DOMAIN title, title[k] \in DOMAIN Versioned,
         \A j \in DOMAIN title : j < k => title[j] \notin DOMAIN Versioned
  PROVE  VersionOf(title) = Versioned[title[k]]
<1> DEFINE at == {j \in DOMAIN title : title[j] \in DOMAIN Versioned}
<1>1. VersionOf(title) = IF at = {} THEN 0 ELSE Versioned[title[Min(at)]]
  BY DEF VersionOf
<1>2. DOMAIN title \subseteq Int
  OBVIOUS
<1>3. k \in at /\ at \subseteq Int
  BY <1>2
<1>4. \A j \in at : k <= j
  BY <1>2
<1> HIDE DEF at
<1>5. Min(at) = k
  BY <1>3, <1>4, MinIs
<1> QED BY <1>1, <1>3, <1>5

LEMMA NoVersionIs ==
  ASSUME NEW title, \A j \in DOMAIN title : title[j] \notin DOMAIN Versioned
  PROVE  VersionOf(title) = 0
BY DEF VersionOf

LEMMA VersionOrNone ==
  ASSUME NEW V, NEW title \in Seq(V)
  PROVE  \/ \A j \in DOMAIN title : title[j] \notin DOMAIN Versioned
         \/ \E k \in DOMAIN title : /\ title[k] \in DOMAIN Versioned
                                    /\ \A j \in DOMAIN title : j < k => title[j] \notin DOMAIN Versioned
<1> DEFINE at == {j \in DOMAIN title : title[j] \in DOMAIN Versioned}
<1>1. CASE at = {}
  BY <1>1
<1>2. CASE at # {}
  <2>1. DOMAIN title \subseteq Nat /\ at \subseteq Nat
    OBVIOUS
  <2>2. \A j \in DOMAIN title : title[j] \in DOMAIN Versioned => j \in at
    OBVIOUS
  <2>3. \A j \in at : j \in DOMAIN title /\ title[j] \in DOMAIN Versioned
    OBVIOUS
  <2> HIDE DEF at
  <2>4. PICK k \in at : \A j \in at : k <= j
    BY <1>2, <2>1, Least
  <2>5. \A j \in DOMAIN title : j < k => j \notin at
    BY <2>1, <2>4
  <2> QED BY <2>2, <2>3, <2>4, <2>5
<1> QED BY <1>1, <1>2

LEMMA VersionsAreNaturals ==
  ASSUME NEW V, NEW title \in Seq(V)
  PROVE  VersionOf(title) \in Nat
<1>1. CASE \A j \in DOMAIN title : title[j] \notin DOMAIN Versioned
  BY <1>1, NoVersionIs
<1>2. CASE \E k \in DOMAIN title : /\ title[k] \in DOMAIN Versioned
                                   /\ \A j \in DOMAIN title : j < k => title[j] \notin DOMAIN Versioned
  <2>1. PICK k \in DOMAIN title : /\ title[k] \in DOMAIN Versioned
                                  /\ \A j \in DOMAIN title : j < k => title[j] \notin DOMAIN Versioned
    BY <1>2
  <2>2. VersionOf(title) = Versioned[title[k]]
    BY <2>1, VersionIs
  <2> QED BY <2>1, <2>2, ReadingAssumption
<1> QED BY <1>1, <1>2, VersionOrNone

(* So has its slug, which loses only signs, *)
LEMMA SlugKeepsVersion ==
  ASSUME NEW V, NEW title \in Seq(V)
  PROVE  Slug(title) \in Seq(V) /\ VersionOf(Slug(title)) = VersionOf(title)
<1> DEFINE P == {k \in DOMAIN title : title[k] \notin Signs}
<1>1. Slug(title) = Only(title, P) /\ P \in SUBSET DOMAIN title
  BY DEF Slug
<1>2. \A k \in DOMAIN title : title[k] \in DOMAIN Versioned => k \in P
  BY ReadingAssumption
<1> HIDE DEF P
<1>3. PICK slug, c : slug = Slug(title) /\ c = Cardinality(P)
  OBVIOUS
<1>4. slug \in Seq(V) /\ c \in Nat /\ \E at : Kept(title, P, at, c)
  BY <1>1, <1>3, OnlyIs
<1>5. PICK at : Kept(title, P, at, c)
  BY <1>4
<1>6. /\ at \in [1..c -> P]
      /\ \A x \in P : \E k \in 1..c : at[k] = x
      /\ \A i, j \in 1..c : at[i] < at[j] <=> i < j
      /\ DOMAIN slug = 1..c
      /\ \A k \in 1..c : slug[k] = title[at[k]]
  BY <1>1, <1>3, <1>5 DEF Kept, LaidOut
<1>7. VersionOf(slug) = VersionOf(title)
  <2>1. CASE \A j \in DOMAIN title : title[j] \notin DOMAIN Versioned
    <3>1. \A k \in DOMAIN slug : slug[k] \notin DOMAIN Versioned
      BY <1>1, <1>6, <2>1
    <3> QED BY <2>1, <3>1, NoVersionIs
  <2>2. CASE \E k \in DOMAIN title : /\ title[k] \in DOMAIN Versioned
                                     /\ \A j \in DOMAIN title : j < k => title[j] \notin DOMAIN Versioned
    <3>1. PICK k \in DOMAIN title : /\ title[k] \in DOMAIN Versioned
                                    /\ \A j \in DOMAIN title : j < k => title[j] \notin DOMAIN Versioned
      BY <2>2
    <3>2. PICK i \in 1..c : at[i] = k
      BY <1>2, <1>6, <3>1
    <3>3. slug[i] = title[k]
      BY <1>6, <3>2
    <3>4. \A j \in DOMAIN slug : j < i => slug[j] \notin DOMAIN Versioned
      <4>1. ASSUME NEW j \in 1..c, j < i PROVE slug[j] \notin DOMAIN Versioned
        <5>1. at[j] < k /\ at[j] \in DOMAIN title
          BY <1>1, <1>6, <3>2, <4>1
        <5> QED BY <1>6, <3>1, <5>1
      <4> QED BY <1>6, <4>1
    <3>5. VersionOf(slug) = Versioned[slug[i]]
      <4>1. i \in DOMAIN slug /\ slug[i] \in DOMAIN Versioned
        BY <1>6, <3>1, <3>3
      <4> QED BY <1>4, <3>4, <4>1, VersionIs
    <3>6. VersionOf(title) = Versioned[title[k]]
      BY <3>1, VersionIs
    <3> QED BY <3>3, <3>5, <3>6
  <2> QED BY <2>1, <2>2, VersionOrNone
<1> QED BY <1>3, <1>4, <1>7

(* and its name, which gains no more than an ordinal. *)
LEMMA OrdinalKeepsVersion ==
  ASSUME NEW V, NEW slug \in Seq(V), NEW n \in Nat
  PROVE  Append(slug, n) \in Seq(V \cup Nat) /\ VersionOf(Append(slug, n)) = VersionOf(slug)
<1>1. PICK m, name : m = Len(slug) /\ name = Append(slug, n)
  OBVIOUS
<1>2. m \in Nat /\ DOMAIN slug = 1..m
  BY <1>1
<1>3. name \in Seq(V \cup Nat)
  <2>1. slug \in Seq(V \cup Nat) /\ n \in V \cup Nat
    OBVIOUS
  <2> QED BY <1>1, <2>1
<1>4. DOMAIN name = 1..(m + 1) /\ name[m + 1] = n /\ \A k \in 1..m : name[k] = slug[k]
  BY <1>1
<1>5. n \notin DOMAIN Versioned
  BY ReadingAssumption
<1>6. \A k \in DOMAIN name : k = m + 1 \/ k \in 1..m
  BY <1>2, <1>4
<1>7. CASE \A j \in DOMAIN slug : slug[j] \notin DOMAIN Versioned
  <2>1. \A k \in DOMAIN name : name[k] \notin DOMAIN Versioned
    BY <1>2, <1>4, <1>5, <1>6, <1>7
  <2> QED BY <1>1, <1>3, <1>7, <2>1, NoVersionIs
<1>8. CASE \E k \in DOMAIN slug : /\ slug[k] \in DOMAIN Versioned
                                  /\ \A j \in DOMAIN slug : j < k => slug[j] \notin DOMAIN Versioned
  <2>1. PICK k \in 1..m : /\ slug[k] \in DOMAIN Versioned
                          /\ \A j \in 1..m : j < k => slug[j] \notin DOMAIN Versioned
    BY <1>2, <1>8
  <2>2. k \in DOMAIN name /\ name[k] \in DOMAIN Versioned
    BY <1>2, <1>4, <2>1
  <2>3. \A j \in DOMAIN name : j < k => j \in 1..m
    BY <1>2, <1>6
  <2>4. \A j \in DOMAIN name : j < k => name[j] \notin DOMAIN Versioned
    BY <1>4, <2>1, <2>3
  <2>5. VersionOf(name) = Versioned[name[k]]
    BY <1>3, <2>2, <2>4, VersionIs
  <2>6. VersionOf(slug) = Versioned[slug[k]]
    BY <1>2, <2>1, VersionIs
  <2> QED BY <1>1, <1>3, <1>4, <2>1, <2>5, <2>6
<1> QED BY <1>7, <1>8, VersionOrNone

Headed(secs, N, V) ==
  N \in Nat /\ DOMAIN secs = 1..N /\ \A k \in 1..N : secs[k].title \in Seq(V)

LEMMA NameKeepsVersion ==
  ASSUME NEW V, NEW secs, NEW N, Headed(secs, N, V), NEW k \in 1..N
  PROVE  NameOf(secs, k) \in Seq(V \cup Nat) /\ VersionOf(NameOf(secs, k)) = VersionOf(secs[k].title)
<1> DEFINE alike == {j \in 1..k : Slug(secs[j].title) = Slug(secs[k].title)}
<1>1. N \in Nat /\ DOMAIN secs = 1..N /\ \A j \in 1..N : secs[j].title \in Seq(V)
  BY DEF Headed
<1>2. PICK slug, n : slug = Slug(secs[k].title) /\ n = Cardinality(alike)
  OBVIOUS
<1>3. NameOf(secs, k) = IF n > 1 THEN Append(slug, n) ELSE slug
  BY <1>2 DEF NameOf
<1>4. n \in Nat
  <2>1. IsFiniteSet(1..k) /\ alike \in SUBSET (1..k)
    <3>1. k \in Nat
      BY <1>1
    <3> QED BY <3>1, FS_Interval
  <2> HIDE DEF alike
  <2>2. IsFiniteSet(alike)
    BY <2>1, FS_Subset
  <2> QED BY <1>2, <2>2, FS_CardinalityType
<1>5. slug \in Seq(V) /\ VersionOf(slug) = VersionOf(secs[k].title)
  BY <1>1, <1>2, SlugKeepsVersion
<1>6. Append(slug, n) \in Seq(V \cup Nat) /\ VersionOf(Append(slug, n)) = VersionOf(slug)
  BY <1>4, <1>5, OrdinalKeepsVersion
<1>7. slug \in Seq(V \cup Nat)
  BY <1>5
<1> QED BY <1>3, <1>5, <1>6, <1>7

(* So a version is archived only for others that are as new. *)
LEMMA TiersAre ==
  ASSUME NEW V, NEW secs, NEW N, Headed(secs, N, V),
         NEW n \in 1..N, NEW m \in 1..N,
         TierOf(secs, n) = "archive", TierOf(secs, m) = "hot", VersionOf(secs[m].title) # 0
  PROVE  \/ StaleMark \in ToSet(secs[n].title)
         \/ VersionOf(secs[n].title) <= VersionOf(secs[m].title)
<1> DEFINE version(j) == VersionOf(secs[j].title)
           before(i) == {j \in DOMAIN secs : \/ version(j) > version(i)
                                             \/ version(j) = version(i) /\ j < i}
           kept == {i \in DOMAIN secs : version(i) # 0 /\ Cardinality(before(i)) < KeepVersions}
           keep == {NameOf(secs, i) : i \in kept}
<1>1. N \in Nat /\ DOMAIN secs = 1..N /\ \A j \in 1..N : secs[j].title \in Seq(V)
  BY DEF Headed
<1>2. \A k \in 1..N : TierOf(secs, k) = IF \/ StaleMark \in ToSet(secs[k].title)
                                           \/ version(k) # 0 /\ NameOf(secs, k) \notin keep
                                        THEN "archive" ELSE "hot"
  BY DEF TierOf
<1>3. \A k \in 1..N : version(k) \in Nat
  BY <1>1, VersionsAreNaturals
<1>4. \A j, k \in 1..N : /\ k \in kept <=> version(k) # 0 /\ Cardinality(before(k)) < KeepVersions
                         /\ j \in before(k) <=> \/ version(j) > version(k)
                                                \/ version(j) = version(k) /\ j < k
  BY <1>1
<1>5. \A k \in 1..N : before(k) \in SUBSET (1..N)
  BY <1>1
<1>6. (\A k \in kept : k \in 1..N) /\ \A x : x \in keep <=> \E i \in kept : x = NameOf(secs, i)
  BY <1>1
<1> HIDE DEF version, before, kept, keep
<1>7. SUFFICES ASSUME StaleMark \notin ToSet(secs[n].title), ~(version(n) <= version(m)) PROVE FALSE
  BY DEF version
<1>8. version(n) # 0 /\ NameOf(secs, n) \notin keep
  BY <1>2, <1>7
<1>9. NameOf(secs, m) \in keep
  BY <1>2 DEF version
<1>10. PICK i \in kept : NameOf(secs, m) = NameOf(secs, i)
  BY <1>6, <1>9
<1>11. i \in 1..N /\ Cardinality(before(i)) < KeepVersions
  BY <1>4, <1>6, <1>10
<1>12. version(i) = version(m)
  <2>1. VersionOf(NameOf(secs, i)) = VersionOf(secs[i].title)
    BY <1>11, NameKeepsVersion
  <2>2. VersionOf(NameOf(secs, m)) = VersionOf(secs[m].title)
    BY NameKeepsVersion
  <2> QED BY <1>10, <2>1, <2>2 DEF version
<1>13. version(n) > version(i)
  BY <1>3, <1>7, <1>11, <1>12
<1>14. before(n) \subseteq before(i)
  <2>1. ASSUME NEW j \in before(n) PROVE j \in before(i)
    <3>1. j \in 1..N /\ (version(j) > version(n) \/ version(j) = version(n))
      BY <1>4, <1>5
    <3>2. version(j) > version(i)
      BY <1>3, <1>11, <1>13, <3>1
    <3> QED BY <1>4, <1>11, <3>1, <3>2
  <2> QED BY <2>1
<1>15. Cardinality(before(n)) <= Cardinality(before(i)) /\ Cardinality(before(n)) \in Nat /\ Cardinality(before(i)) \in Nat
  <2>1. IsFiniteSet(1..N)
    BY <1>1, FS_Interval
  <2>2. IsFiniteSet(before(i))
    BY <1>5, <1>11, <2>1, FS_Subset
  <2>3. before(n) \in SUBSET before(i)
    BY <1>14
  <2>4. IsFiniteSet(before(n)) /\ Cardinality(before(n)) <= Cardinality(before(i))
    BY <2>2, <2>3, FS_Subset
  <2> QED BY <2>2, <2>4, FS_CardinalityType
<1>16. Cardinality(before(n)) < KeepVersions
  BY <1>11, <1>15, ReadingAssumption
<1>17. n \in kept
  BY <1>4, <1>8, <1>16
<1> QED BY <1>6, <1>8, <1>17

(* Reading on. From a place in a body, a page is what fits, and says whether *)
(* there is more.                                                            *)
PageAt(docs, body, from, cap) ==
  Get(docs, body, [name |-> Unnamed, section |-> Unnamed, outline |-> FALSE,
                   offset |-> from, maxChars |-> cap])

LEMMA SameList ==
  ASSUME NEW V, NEW s \in Seq(V), NEW t \in Seq(V), Len(s) = Len(t), \A k \in 1..Len(s) : s[k] = t[k]
  PROVE  s = t
OBVIOUS

LEMMA WholeIs ==
  ASSUME NEW V, NEW list \in Seq(V)
  PROVE  SubSeq(list, 1, Len(list)) = list
<1>1. PICK n, whole : n = Len(list) /\ whole = SubSeq(list, 0 + 1, n)
  OBVIOUS
<1>2. n \in Nat
  BY <1>1
<1>3. whole \in Seq(V) /\ Len(whole) = n - 0 /\ \A m \in 1..(n - 0) : whole[m] = list[0 + m]
  BY <1>1, <1>2, PartIs
<1>4. Len(whole) = n /\ \A m \in 1..n : whole[m] = list[m]
  BY <1>2, <1>3
<1>5. whole = list
  BY <1>1, <1>3, <1>4, SameList
<1> QED BY <1>1, <1>5

LEMMA PageAtIs ==
  ASSUME NEW V, NEW body \in Seq(V), NEW docs, ResolveDoc(docs, Unnamed).heading = Unnamed,
         NEW cap \in Nat \ {0}, NEW from \in 0..Len(body)
  PROVE  LET page == PageAt(docs, body, from, cap)
         IN IF from + cap < Len(body)
            THEN page.truncated /\ page.body = SubSeq(body, from + 1, from + cap)
            ELSE ~page.truncated /\ page.body = SubSeq(body, from + 1, Len(body))
<1>1. PICK n, page : n = Len(body) /\ page = PageAt(docs, body, from, cap)
  OBVIOUS
<1>2. n \in Nat /\ from \in Nat /\ from <= n
  BY <1>1
<1>3. PICK slice : slice = Slice(body, from, cap)
  OBVIOUS
<1>4. page = IF n > cap \/ from > 0
             THEN [mode |-> "slice", body |-> slice, truncated |-> from + Len(slice) < n]
             ELSE [mode |-> "full", body |-> body, truncated |-> FALSE]
  <2>1. PICK asked : asked = [name |-> Unnamed, section |-> Unnamed, outline |-> FALSE,
                              offset |-> from, maxChars |-> cap]
    OBVIOUS
  <2>2. /\ asked.name = Unnamed /\ asked.section = Unnamed /\ asked.outline = FALSE
        /\ asked.offset = from /\ asked.maxChars = cap
    BY <2>1
  <2>3. page = Get(docs, body, asked)
    BY <1>1, <2>1 DEF PageAt
  <2>4. Get(docs, body, asked) = IF Len(body) > cap \/ from > 0
                                 THEN [mode |-> "slice", body |-> Slice(body, from, cap),
                                       truncated |-> from + Len(Slice(body, from, cap)) < Len(body)]
                                 ELSE [mode |-> "full", body |-> body, truncated |-> FALSE]
    BY <2>2 DEF Get
  <2> QED BY <1>1, <1>3, <2>3, <2>4
<1>5. slice = SubSeq(body, from + 1, IF n < from + cap THEN n ELSE from + cap)
  <2>1. PICK e \in Nat : e = from + cap
    BY <1>2
  <2>2. Min({n, e}) = IF n < e THEN n ELSE e
    <3>1. n \in Int /\ e \in Int
      BY <1>2
    <3> QED BY <3>1, LargerOfTwo
  <2> QED BY <1>1, <1>3, <2>1, <2>2 DEF Slice
<1>6. CASE from + cap < n
  <2>1. slice = SubSeq(body, from + 1, from + cap)
    BY <1>2, <1>5, <1>6
  <2>2. Len(slice) = (from + cap) - from
    <3>1. from + cap \in Nat /\ from <= from + cap /\ from + cap <= Len(body)
      BY <1>1, <1>2, <1>6
    <3> QED BY <1>2, <2>1, <3>1, PartIs
  <2>3. from + Len(slice) < n /\ n > cap
    BY <1>2, <1>6, <2>2
  <2>4. page.truncated /\ page.body = slice
    BY <1>4, <2>3
  <2> QED BY <1>1, <1>6, <2>1, <2>4
<1>7. CASE ~(from + cap < n)
  <2>1. slice = SubSeq(body, from + 1, n)
    BY <1>2, <1>5, <1>7
  <2>2. Len(slice) = n - from
    BY <1>1, <1>2, <2>1, PartIs
  <2>3. ~(from + Len(slice) < n)
    BY <1>2, <2>2
  <2>4. CASE n > cap \/ from > 0
    <3>1. ~page.truncated /\ page.body = slice
      BY <1>4, <2>3, <2>4
    <3> QED BY <1>1, <1>7, <2>1, <3>1
  <2>5. CASE ~(n > cap \/ from > 0)
    <3>1. from = 0
      BY <1>2, <2>5
    <3>2. SubSeq(body, 1, n) = body
      BY <1>1, WholeIs
    <3>3. page.body = body /\ ~page.truncated
      BY <1>4, <2>5
    <3> QED BY <1>1, <1>7, <3>1, <3>2, <3>3
  <2> QED BY <2>4, <2>5
<1> QED BY <1>1, <1>6, <1>7

(* Two parts of a list, one behind the other. *)
LEMMA PartsJoin ==
  ASSUME NEW V, NEW list \in Seq(V), NEW i \in Nat, NEW j \in Nat, i <= j, j <= Len(list)
  PROVE  SubSeq(list, i + 1, j) \o SubSeq(list, j + 1, Len(list)) = SubSeq(list, i + 1, Len(list))
<1>1. PICK n, s, t, u : /\ n = Len(list) /\ s = SubSeq(list, i + 1, j)
                        /\ t = SubSeq(list, j + 1, n) /\ u = SubSeq(list, i + 1, n)
  OBVIOUS
<1>2. n \in Nat
  BY <1>1
<1>3. s \in Seq(V) /\ Len(s) = j - i /\ \A m \in 1..(j - i) : s[m] = list[i + m]
  BY <1>1, PartIs
<1>4. t \in Seq(V) /\ Len(t) = n - j /\ \A m \in 1..(n - j) : t[m] = list[j + m]
  BY <1>1, <1>2, PartIs
<1>5. u \in Seq(V) /\ Len(u) = n - i /\ \A m \in 1..(n - i) : u[m] = list[i + m]
  BY <1>1, <1>2, PartIs
<1>6. /\ s \o t \in Seq(V)
      /\ Len(s \o t) = n - i
      /\ \A m \in 1..(n - i) : (s \o t)[m] = IF m <= j - i THEN s[m] ELSE t[m - (j - i)]
  <2>1. s \in Seq(V) /\ t \in Seq(V)
    BY <1>3, <1>4
  <2>2. s \o t \in Seq(V) /\ Len(s \o t) = Len(s) + Len(t)
    BY <2>1
  <2>3. \A m \in 1..(Len(s) + Len(t)) : (s \o t)[m] = IF m <= Len(s) THEN s[m] ELSE t[m - Len(s)]
    BY <2>1
  <2>4. Len(s) + Len(t) = n - i
    BY <1>2, <1>3, <1>4
  <2>5. Len(s) = j - i
    BY <1>3
  <2> QED BY <2>2, <2>3, <2>4, <2>5
<1>7. ASSUME NEW m \in 1..(n - i) PROVE (s \o t)[m] = u[m]
  <2>1. CASE m <= j - i
    <3>1. m \in 1..(j - i)
      BY <2>1
    <3> QED BY <1>3, <1>5, <1>6, <2>1, <3>1
  <2>2. CASE ~(m <= j - i)
    <3>1. m - (j - i) \in 1..(n - j) /\ j + (m - (j - i)) = i + m
      BY <1>2, <2>2
    <3> QED BY <1>4, <1>5, <1>6, <2>2, <3>1
  <2> QED BY <2>1, <2>2
<1>8. s \o t = u
  BY <1>2, <1>5, <1>6, <1>7, SameList
<1> QED BY <1>1, <1>8

(* Page after page, a reader has read it all. *)
LEMMA ReadOnReadsAll ==
  ASSUME NEW V, NEW body \in Seq(V), NEW docs, ResolveDoc(docs, Unnamed).heading = Unnamed,
         NEW cap \in Nat \ {0}
  PROVE  ReadOn(docs, body, cap) = body
<1> DEFINE n == Len(body)
           page(from) == PageAt(docs, body, from, cap)
           rest(from) == SubSeq(body, from + 1, n)
           on(f) == [from \in 0..n |-> IF page(from).truncated
                                       THEN page(from).body \o f[from + Len(page(from).body)]
                                       ELSE page(from).body]
<1>1. PICK read : read = CHOOSE f : f = on(f)
  OBVIOUS
<1>2. ReadOn(docs, body, cap) = read[0]
  BY <1>1 DEF ReadOn, PageAt
<1>3. n \in Nat
  OBVIOUS
<1>4. ASSUME NEW from \in 0..n
      PROVE  IF from + cap < n
             THEN /\ page(from).truncated /\ Len(page(from).body) = cap
                  /\ from + cap \in 0..n
                  /\ page(from).body \o rest(from + cap) = rest(from)
             ELSE ~page(from).truncated /\ page(from).body = rest(from)
  <2>1. IF from + cap < n
        THEN page(from).truncated /\ page(from).body = SubSeq(body, from + 1, from + cap)
        ELSE ~page(from).truncated /\ page(from).body = rest(from)
    BY PageAtIs
  <2>2. CASE from + cap < n
    <3>1. page(from).body = SubSeq(body, from + 1, from + cap)
      BY <2>1, <2>2
    <3>2. from \in Nat /\ from + cap \in Nat /\ from <= from + cap /\ from + cap <= n
      BY <2>2
    <3>3. Len(SubSeq(body, from + 1, from + cap)) = (from + cap) - from
      BY <3>2, PartIs
    <3>4. SubSeq(body, from + 1, from + cap) \o rest(from + cap) = rest(from)
      BY <3>2, PartsJoin
    <3>5. page(from).truncated /\ from + cap \in 0..n
      BY <2>1, <2>2, <3>2
    <3>6. /\ Len(page(from).body) = cap
          /\ page(from).body \o rest(from + cap) = rest(from)
      <4>1. (from + cap) - from = cap
        BY <3>2
      <4> QED BY <3>1, <3>3, <3>4, <4>1
    <3> QED BY <2>2, <3>5, <3>6
  <2> QED BY <2>1, <2>2
<1> HIDE DEF page, rest
<1>5. on([from \in 0..n |-> rest(from)]) = [from \in 0..n |-> rest(from)]
  <2>1. ASSUME NEW from \in 0..n
        PROVE  on([f \in 0..n |-> rest(f)])[from] = rest(from)
    BY <1>4
  <2> QED BY <2>1
<1> HIDE DEF on
<1>6. read = on(read)
  BY <1>1, <1>5
<1>7. \A from \in 0..n : read[from] = IF page(from).truncated
                                      THEN page(from).body \o read[from + Len(page(from).body)]
                                      ELSE page(from).body
  BY <1>6 DEF on
<1> DEFINE Lost == {from \in 0..n : read[from] # rest(from)}
<1>8. Lost = {}
  <2>1. SUFFICES ASSUME Lost # {} PROVE FALSE
    OBVIOUS
  <2>2. Lost \subseteq Nat /\ (\A k \in Lost : k <= n /\ k \in 0..n) /\ \A k \in 0..n : k \in Lost <=> read[k] # rest(k)
    BY <1>3
  <2> HIDE DEF Lost
  <2>3. PICK from \in Lost : \A k \in Lost : k <= from
    BY <1>3, <2>1, <2>2, Greatest
  <2>4. from \in 0..n /\ read[from] # rest(from)
    BY <2>2
  <2>5. CASE from + cap < n
    <3>1. from + cap \in 0..n /\ ~(from + cap <= from)
      BY <1>3, <2>4, <2>5
    <3>2. read[from + cap] = rest(from + cap)
      BY <2>2, <2>3, <3>1
    <3>3. read[from] = rest(from)
      BY <1>4, <1>7, <2>4, <2>5, <3>2
    <3> QED BY <2>4, <3>3
  <2>6. CASE ~(from + cap < n)
    BY <1>4, <1>7, <2>4, <2>6
  <2> QED BY <2>5, <2>6
<1>9. read[0] = rest(0)
  BY <1>3, <1>8
<1>10. rest(0) = body
  BY DEF rest
<1> QED BY <1>2, <1>9, <1>10

(* Fences. Those before a line are counted one by one. *)
LEMMA FencesAre ==
  ASSUME NEW body
  PROVE  /\ FencesBefore(body, 1) = 0
         /\ \A i \in Nat \ {0} : /\ FencesBefore(body, i) \in Nat
                                 /\ FencesBefore(body, i + 1) = IF IsFence(body[i]) THEN FencesBefore(body, i) + 1
                                                                ELSE FencesBefore(body, i)
<1> DEFINE fences(i) == {j \in 1..(i - 1) : IsFence(body[j])}
<1>1. \A i : FencesBefore(body, i) = Cardinality(fences(i))
  BY DEF FencesBefore
<1>2. ASSUME NEW i \in Nat \ {0} PROVE IsFiniteSet(fences(i)) /\ Cardinality(fences(i)) \in Nat
  <2>1. IsFiniteSet(1..(i - 1)) /\ fences(i) \in SUBSET (1..(i - 1))
    <3>1. i - 1 \in Nat
      OBVIOUS
    <3> QED BY <3>1, FS_Interval
  <2> HIDE DEF fences
  <2>2. IsFiniteSet(fences(i))
    BY <2>1, FS_Subset
  <2> QED BY <2>2, FS_CardinalityType
<1>3. fences(1) = {}
  OBVIOUS
<1>4. ASSUME NEW i \in Nat \ {0}
      PROVE  /\ fences(i + 1) = IF IsFence(body[i]) THEN fences(i) \cup {i} ELSE fences(i)
             /\ i \notin fences(i)
  <2>1. (i + 1) - 1 = i /\ \A j : j \in 1..i <=> j \in 1..(i - 1) \/ j = i
    OBVIOUS
  <2>2. \A j : j \in fences(i + 1) <=> j \in 1..i /\ IsFence(body[j])
    BY <2>1
  <2>3. \A j : j \in fences(i) <=> j \in 1..(i - 1) /\ IsFence(body[j])
    OBVIOUS
  <2>4. i \notin 1..(i - 1)
    OBVIOUS
  <2> HIDE DEF fences
  <2> QED BY <2>1, <2>2, <2>3, <2>4
<1> HIDE DEF fences
<1>5. FencesBefore(body, 1) = 0
  BY <1>1, <1>3, FS_EmptySet
<1>6. ASSUME NEW i \in Nat \ {0}
      PROVE  /\ FencesBefore(body, i) \in Nat
             /\ FencesBefore(body, i + 1) = IF IsFence(body[i]) THEN FencesBefore(body, i) + 1
                                            ELSE FencesBefore(body, i)
  <2>1. IsFiniteSet(fences(i)) /\ Cardinality(fences(i)) \in Nat
    BY <1>2
  <2>2. CASE IsFence(body[i])
    <3>1. fences(i + 1) = fences(i) \cup {i} /\ i \notin fences(i)
      BY <1>4, <2>2
    <3>2. Cardinality(fences(i) \cup {i}) = Cardinality(fences(i)) + 1
      BY <2>1, <3>1, FS_AddElement
    <3> QED BY <1>1, <2>1, <2>2, <3>1, <3>2
  <2>3. CASE ~IsFence(body[i])
    BY <1>1, <1>4, <2>1, <2>3
  <2> QED BY <2>2, <2>3
<1> QED BY <1>5, <1>6

(* Fences of one mark are open after an odd number of them. *)
OneMark(body) ==
  \A i, j \in DOMAIN body : IsFence(body[i]) /\ IsFence(body[j]) => body[i].mark = body[j].mark

OutOfFences(body) == {i \in DOMAIN body : IsHeading(body[i]) /\ FencesBefore(body, i) % 2 = 0}

LEMMA HeadingsAreOutOfFences ==
  ASSUME NEW V, NEW body \in Seq(V), OneMark(body),
         \A i \in DOMAIN body : IsFence(body[i]) => body[i].mark # Unnamed
  PROVE  Headings(body) = HeadingsAt(body, OutOfFences(body))
<1> DEFINE n == Len(body)
           even(i) == FencesBefore(body, i) % 2 = 0
           on(f) == [i \in 0..n |-> IF i = 0 THEN Unnamed ELSE Fenced(f[i - 1], body[i])]
<1>1. PICK open : open = CHOOSE f : f = on(f)
  OBVIOUS
<1>2. Headings(body) = HeadingsAt(body, {i \in DOMAIN body : IsHeading(body[i]) /\ open[i - 1] = Unnamed})
  BY <1>1 DEF Headings
<1>3. n \in Nat /\ DOMAIN body = 1..n
  OBVIOUS
<1>4. PICK mark : mark # Unnamed /\ \A i \in 1..n : IsFence(body[i]) => body[i].mark = mark
  <2>1. CASE \E i \in 1..n : IsFence(body[i])
    <3>1. PICK i \in 1..n : IsFence(body[i])
      BY <2>1
    <3> WITNESS body[i].mark
    <3> QED BY <1>3, <3>1 DEF OneMark
  <2>2. CASE ~\E i \in 1..n : IsFence(body[i])
    <3>1. \E x : x # Unnamed
      <4>1. 1 # Unnamed \/ 2 # Unnamed
        OBVIOUS
      <4> QED BY <4>1
    <3> QED BY <2>2, <3>1
  <2> QED BY <2>1, <2>2
<1>5. even(1)
  BY FencesAre
<1>6. ASSUME NEW i \in 1..n PROVE even(i + 1) <=> IF IsFence(body[i]) THEN ~even(i) ELSE even(i)
  <2>1. PICK c \in Nat : c = FencesBefore(body, i)
    BY FencesAre
  <2>2. FencesBefore(body, i + 1) = IF IsFence(body[i]) THEN c + 1 ELSE c
    <3>1. i \in Nat \ {0}
      BY <1>3
    <3> QED BY <2>1, <3>1, FencesAre
  <2>3. (c + 1) % 2 = 0 <=> c % 2 # 0
    OBVIOUS
  <2> QED BY <2>1, <2>2, <2>3
<1> HIDE DEF even
<1> DEFINE shut(i) == IF even(i + 1) THEN Unnamed ELSE mark
<1>7. shut(0) = Unnamed
  BY <1>5
<1>8. ASSUME NEW i \in 1..n PROVE shut(i) = Fenced(shut(i - 1), body[i])
  <2>1. (i - 1) + 1 = i
    OBVIOUS
  <2>2. shut(i - 1) = IF even(i) THEN Unnamed ELSE mark
    BY <2>1
  <2>3. CASE ~IsFence(body[i])
    BY <1>6, <2>2, <2>3 DEF Fenced
  <2>4. CASE IsFence(body[i])
    <3>1. body[i].mark = mark /\ (even(i + 1) <=> ~even(i))
      BY <1>4, <1>6, <2>4
    <3>2. CASE even(i)
      BY <2>2, <2>4, <3>1, <3>2 DEF Fenced
    <3>3. CASE ~even(i)
      BY <1>4, <2>2, <2>4, <3>1, <3>3 DEF Fenced
    <3> QED BY <3>2, <3>3
  <2> QED BY <2>3, <2>4
<1> HIDE DEF shut
<1>9. on([i \in 0..n |-> shut(i)]) = [i \in 0..n |-> shut(i)]
  <2>1. ASSUME NEW i \in 0..n PROVE on([j \in 0..n |-> shut(j)])[i] = shut(i)
    <3>1. CASE i = 0
      BY <1>7, <3>1
    <3>2. CASE i # 0
      <4>1. i \in 1..n /\ i - 1 \in 0..n
        BY <1>3, <3>2
      <4> QED BY <1>8, <3>2, <4>1
    <3> QED BY <3>1, <3>2
  <2> QED BY <2>1
<1> HIDE DEF on
<1>10. open = on(open)
  BY <1>1, <1>9
<1>11. \A i \in 0..n : open[i] = IF i = 0 THEN Unnamed ELSE Fenced(open[i - 1], body[i])
  BY <1>10 DEF on
<1> DEFINE Wrong == {i \in 0..n : open[i] # shut(i)}
<1>12. Wrong = {}
  <2>1. SUFFICES ASSUME Wrong # {} PROVE FALSE
    OBVIOUS
  <2>2. Wrong \subseteq Nat /\ (\A i \in Wrong : i \in 0..n) /\ \A i \in 0..n : i \in Wrong <=> open[i] # shut(i)
    BY <1>3
  <2> HIDE DEF Wrong
  <2>3. PICK i \in Wrong : \A j \in Wrong : i <= j
    BY <2>1, <2>2, Least
  <2>4. i \in 0..n /\ open[i] # shut(i)
    BY <2>2
  <2>5. i # 0
    BY <1>7, <1>11, <2>4
  <2>6. i \in 1..n /\ i - 1 \in 0..n /\ ~(i <= i - 1)
    BY <1>3, <2>4, <2>5
  <2>7. open[i - 1] = shut(i - 1)
    BY <2>2, <2>3, <2>6
  <2> QED BY <1>8, <1>11, <2>4, <2>5, <2>6, <2>7
<1>13. ASSUME NEW i \in 1..n PROVE open[i - 1] = Unnamed <=> even(i)
  <2>1. i - 1 \in 0..n /\ (i - 1) + 1 = i
    BY <1>3
  <2>2. open[i - 1] = shut(i - 1)
    BY <1>12, <2>1
  <2> QED BY <1>4, <2>1, <2>2 DEF shut
<1>14. {i \in DOMAIN body : IsHeading(body[i]) /\ open[i - 1] = Unnamed} = OutOfFences(body)
  BY <1>3, <1>13 DEF OutOfFences, even
<1> QED BY <1>2, <1>14

(* Where a section ends: at the next that starts, or with the body.          *)
EndsAt(e, i, S, n) ==
  /\ e \in S \cup {n + 1} /\ e \in Nat /\ i < e /\ e <= n + 1
  /\ \A j \in S : i < j => e <= j

LEMMA OneEnd ==
  ASSUME NEW n \in Nat, NEW S, NEW i, NEW d, NEW e, EndsAt(d, i, S, n), EndsAt(e, i, S, n)
  PROVE  d = e
<1>1. d <= e
  <2>1. CASE e \in S
    BY <2>1 DEF EndsAt
  <2>2. CASE e = n + 1
    BY <2>2 DEF EndsAt
  <2> QED BY <2>1, <2>2 DEF EndsAt
<1>2. e <= d
  <2>1. CASE d \in S
    BY <2>1 DEF EndsAt
  <2>2. CASE d = n + 1
    BY <2>2 DEF EndsAt
  <2> QED BY <2>1, <2>2 DEF EndsAt
<1> QED BY <1>1, <1>2 DEF EndsAt

(* Headings, and sections as search has them.                                *)
LEMMA StartsAre ==
  ASSUME NEW V, NEW body \in Seq(V)
  PROVE  \A S : S = OutOfFences(body) \/ S = SectionStarts(body) =>
           /\ IsFiniteSet(S) /\ S \subseteq Int /\ S \subseteq 1..Len(body)
           /\ Cardinality(S) \in Nat
           /\ Ascending(S) \in [1..Cardinality(S) -> S]
           /\ \A i \in S : \E k \in 1..Cardinality(S) : Ascending(S)[k] = i
           /\ \A j, k \in 1..Cardinality(S) : Ascending(S)[j] < Ascending(S)[k] <=> j < k
<1> SUFFICES ASSUME NEW S, S = OutOfFences(body) \/ S = SectionStarts(body)
             PROVE  /\ IsFiniteSet(S) /\ S \subseteq Int /\ S \subseteq 1..Len(body)
                    /\ Cardinality(S) \in Nat
                    /\ Ascending(S) \in [1..Cardinality(S) -> S]
                    /\ \A i \in S : \E k \in 1..Cardinality(S) : Ascending(S)[k] = i
                    /\ \A j, k \in 1..Cardinality(S) : Ascending(S)[j] < Ascending(S)[k] <=> j < k
  OBVIOUS
<1>1. PICK n \in Nat : n = Len(body) /\ DOMAIN body = 1..n
  OBVIOUS
<1>2. S \in SUBSET (1..n)
  BY <1>1 DEF OutOfFences, SectionStarts
<1>3. IsFiniteSet(S)
  <2>1. IsFiniteSet(1..n)
    BY <1>1, FS_Interval
  <2> QED BY <1>2, <2>1, FS_Subset
<1>4. S \subseteq Int
  BY <1>1, <1>2
<1>5. /\ Cardinality(S) \in Nat
      /\ Ascending(S) \in [1..Cardinality(S) -> S]
      /\ \A i \in S : \E k \in 1..Cardinality(S) : Ascending(S)[k] = i
      /\ \A j, k \in 1..Cardinality(S) : Ascending(S)[j] < Ascending(S)[k] <=> j < k
  BY <1>3, <1>4, AscendingIs
<1> QED BY <1>1, <1>2, <1>3, <1>4, <1>5

SectionAt(body, i, title, text) ==
  /\ i \in SectionStarts(body) /\ title = body[i].title
  /\ \E e : EndsAt(e, i, SectionStarts(body), Len(body)) /\ text = SubSeq(body, i, e - 1)

(* A stretch from a start that is long enough to be a section.               *)
LongFrom(body, i) == (i + 1)..(i + MinSection - 1) \subseteq DOMAIN body \ SectionStarts(body)

(* Sections begin at the starts, and every long stretch is one.              *)
LEMMA SectionsAre ==
  ASSUME NEW V, NEW body \in Seq(V)
  PROVE  /\ \E R : SplitSections(body) \in Seq(R)
         /\ \A k \in DOMAIN SplitSections(body) :
              \E i : SectionAt(body, i, SplitSections(body)[k].title, SplitSections(body)[k].text)
         /\ \A i \in SectionStarts(body) : LongFrom(body, i) =>
              \E k \in DOMAIN SplitSections(body) :
                SectionAt(body, i, SplitSections(body)[k].title, SplitSections(body)[k].text)
<1>1. PICK n, S, c, starts : /\ n = Len(body) /\ S = SectionStarts(body) /\ c = Cardinality(S)
                             /\ starts = Ascending(S)
  OBVIOUS
<1>2. n \in Nat
  BY <1>1
<1>3. /\ S \subseteq Int /\ S \subseteq 1..n /\ c \in Nat
      /\ starts \in [1..c -> S]
      /\ \A i \in S : \E k \in 1..c : starts[k] = i
      /\ \A j, k \in 1..c : starts[j] < starts[k] <=> j < k
  BY <1>1, StartsAre
<1>4. Len(starts) = c /\ DOMAIN starts = 1..c
  BY <1>3, IsAList
<1> DEFINE end(k) == IF k < c THEN starts[k + 1] ELSE n + 1
<1>5. PICK all : all = [k \in 1..c |-> [title |-> body[starts[k]].title,
                                        text |-> SubSeq(body, starts[k], end(k) - 1)]]
  OBVIOUS
<1>7. SplitSections(body) = Only(all, {k \in 1..c : Len(all[k].text) >= MinSection})
  BY <1>1, <1>4, <1>5 DEF SplitSections
<1>8. ASSUME NEW k \in 1..c
      PROVE  SectionAt(body, starts[k], all[k].title, all[k].text)
  <2>1. PICK i, e : i = starts[k] /\ e = end(k)
    OBVIOUS
  <2>2. i \in S /\ i \in 1..n
    BY <1>3, <2>1
  <2>3. e \in S \cup {n + 1} /\ e \in Nat /\ i < e /\ e <= n + 1
    <3>1. CASE k < c
      <4>1. k + 1 \in 1..c /\ k < k + 1 /\ e = starts[k + 1]
        BY <1>3, <2>1, <3>1
      <4>2. e \in S /\ e \in 1..n /\ i < e
        BY <1>3, <2>1, <4>1
      <4> QED BY <1>2, <4>2
    <3>2. CASE ~(k < c)
      BY <1>2, <2>1, <2>2, <3>2
    <3> QED BY <3>1, <3>2
  <2>4. ASSUME NEW j \in S, i < j PROVE e <= j
    <3>1. PICK m \in 1..c : starts[m] = j
      BY <1>3
    <3>2. k < m /\ k < c /\ k + 1 \in 1..c
      BY <1>3, <2>1, <2>4, <3>1
    <3>3. e = starts[k + 1] /\ ~(m < k + 1)
      BY <1>3, <2>1, <3>2
    <3>4. ~(j < e)
      BY <1>3, <3>1, <3>2, <3>3
    <3>5. j \in Int /\ e \in Int
      BY <1>3, <2>3
    <3> QED BY <3>4, <3>5
  <2>5. EndsAt(e, i, S, n)
    BY <2>3, <2>4 DEF EndsAt
  <2>6. all[k].title = body[i].title /\ all[k].text = SubSeq(body, i, e - 1)
    BY <1>5, <2>1
  <2> QED BY <1>1, <2>1, <2>2, <2>5, <2>6 DEF SectionAt
<1> HIDE DEF end
<1> DEFINE R == {all[k] : k \in 1..c}
           P == {k \in 1..c : Len(all[k].text) >= MinSection}
<1>9. all \in Seq(R) /\ DOMAIN all = 1..c
  <2>1. all \in [1..c -> R]
    BY <1>5
  <2> HIDE DEF R
  <2> QED BY <1>3, <2>1, IsAList
<1>10. P \in SUBSET DOMAIN all /\ P \subseteq 1..c
  BY <1>9
<1> HIDE DEF P, R
<1>11. PICK secs, m : secs = SplitSections(body) /\ m = Cardinality(P)
  OBVIOUS
<1>12. secs \in Seq(R) /\ \E at : Kept(all, P, at, m)
  BY <1>7, <1>9, <1>10, <1>11, OnlyIs DEF P
<1>13. PICK at : Kept(all, P, at, m)
  BY <1>12
<1>14. at \in [1..m -> P] /\ DOMAIN secs = 1..m /\ \A k \in 1..m : secs[k] = all[at[k]]
  BY <1>7, <1>11, <1>13 DEF Kept, LaidOut, P
<1>15. ASSUME NEW k \in DOMAIN secs PROVE \E i : SectionAt(body, i, secs[k].title, secs[k].text)
  <2>1. at[k] \in 1..c /\ secs[k] = all[at[k]]
    BY <1>10, <1>14
  <2> QED BY <1>8, <2>1
<1>16. ASSUME NEW i \in S, LongFrom(body, i)
       PROVE  \E k \in DOMAIN secs : SectionAt(body, i, secs[k].title, secs[k].text)
  <2>1. PICK j \in 1..c : starts[j] = i
    BY <1>3
  <2>2. SectionAt(body, i, all[j].title, all[j].text)
    BY <1>8, <2>1
  <2>3. PICK e : EndsAt(e, i, S, n) /\ all[j].text = SubSeq(body, i, e - 1)
    BY <1>1, <2>2 DEF SectionAt
  <2>4. i \in 1..n /\ e \in Nat /\ i < e /\ e <= n + 1 /\ (e \in S \/ e = n + 1)
    BY <1>3, <2>3 DEF EndsAt
  <2>5. MinSection \in Nat \ {0}
    BY ReadingAssumption
  <2>6. DOMAIN body = 1..n
    BY <1>1
  <2>7. e \notin (i + 1)..(i + MinSection - 1)
    <3>1. (i + 1)..(i + MinSection - 1) \subseteq 1..n \ S
      BY <1>1, <1>16, <2>6 DEF LongFrom
    <3> QED BY <1>2, <2>4, <3>1
  <2>8. Len(all[j].text) >= MinSection
    <3>1. e - i >= MinSection
      BY <1>2, <2>4, <2>5, <2>7
    <3>2. Len(SubSeq(body, i, e - 1)) = e - i
      BY <1>1, <1>2, <2>4
    <3> QED BY <2>3, <3>1, <3>2
  <2>9. j \in P
    BY <2>8 DEF P
  <2>10. PICK k \in 1..m : at[k] = j
    BY <1>13, <2>9 DEF Kept
  <2> QED BY <1>14, <2>2, <2>10
<1> QED BY <1>1, <1>11, <1>12, <1>15, <1>16

-----------------------------------------------------------------------------
(* The weights of terms. *)

LEMMA FilesAreFinite ==
  ASSUME NEW docs, IsFiniteSet(DOMAIN docs)
  PROVE  IsFiniteSet(FilesOf(docs))
<1> DEFINE f == [i \in DOMAIN docs |-> docs[i].file]
<1>1. f \in Surjection(DOMAIN docs, FilesOf(docs))
  BY DEF Surjection, FilesOf
<1> QED BY <1>1, FS_Surjection

(* Words of some lines are words of the text.                                *)
LEMMA WordsOfPart ==
  ASSUME NEW V, NEW body \in Seq(V), NEW part, \A k \in DOMAIN part : \E i \in DOMAIN body : part[k] = body[i]
  PROVE  WordsOf(part) \subseteq WordsOf(body)
<1> SUFFICES ASSUME NEW k \in DOMAIN part, NEW t \in TermsOf(part[k])
             PROVE  t \in WordsOf(body)
  BY DEF WordsOf
<1>1. PICK i \in DOMAIN body : part[k] = body[i]
  OBVIOUS
<1>2. t \in TermsOf(body[i])
  BY <1>1
<1> QED BY <1>2 DEF WordsOf

(* A section has words of the text only, and those of all its lines.         *)
LEMMA WordsOfSection ==
  ASSUME NEW V, NEW body \in Seq(V), NEW i, NEW title, NEW text, SectionAt(body, i, title, text)
  PROVE  /\ ToSet(title) \cup WordsOf(text) \subseteq WordsOf(body)
         /\ \A j \in DOMAIN body : i <= j /\ SectionStarts(body) \cap ((i + 1)..j) = {} =>
              TermsOf(body[j]) \subseteq WordsOf(text)
<1>1. PICK n \in Nat : n = Len(body) /\ DOMAIN body = 1..n
  OBVIOUS
<1>2. PICK e : EndsAt(e, i, SectionStarts(body), n) /\ text = SubSeq(body, i, e - 1)
  BY <1>1 DEF SectionAt
<1>3. i \in SectionStarts(body) /\ title = body[i].title /\ IsHeading(body[i]) /\ i \in 1..n
  BY <1>1 DEF SectionAt, SectionStarts
<1>4. e \in Nat /\ i < e /\ e <= n + 1 /\ (e \in SectionStarts(body) \/ e = n + 1)
  BY <1>2 DEF EndsAt
<1>5. /\ DOMAIN text = 1..(e - i)
      /\ \A k \in 1..(e - i) : text[k] = body[i + k - 1] /\ i + k - 1 \in 1..n
  <2>1. DOMAIN SubSeq(body, i, e - 1) = 1..(e - i)
    BY <1>1, <1>3, <1>4
  <2>2. \A k \in 1..(e - i) : SubSeq(body, i, e - 1)[k] = body[i + k - 1]
    BY <1>1, <1>3, <1>4
  <2>3. \A k \in 1..(e - i) : i + k - 1 \in 1..n
    BY <1>1, <1>3, <1>4
  <2> QED BY <1>2, <2>1, <2>2, <2>3
<1>6. WordsOf(text) \subseteq WordsOf(body)
  <2>1. \A k \in DOMAIN text : \E j \in DOMAIN body : text[k] = body[j]
    BY <1>1, <1>5
  <2> QED BY <2>1, WordsOfPart
<1>7. ToSet(title) \subseteq WordsOf(body)
  <2>1. TermsOf(body[i]) = ToSet(title)
    BY <1>3 DEF TermsOf, IsHeading
  <2> QED BY <1>1, <1>3, <2>1 DEF WordsOf
<1>8. ASSUME NEW j \in DOMAIN body, i <= j, SectionStarts(body) \cap ((i + 1)..j) = {}
      PROVE  TermsOf(body[j]) \subseteq WordsOf(text)
  <2>1. e \notin (i + 1)..j \/ e = n + 1
    BY <1>4, <1>8
  <2>2. j \in 1..n
    BY <1>1
  <2>3. j < e
    BY <1>3, <1>4, <2>1, <2>2
  <2>4. j - i + 1 \in 1..(e - i) /\ i + (j - i + 1) - 1 = j
    BY <1>3, <1>4, <1>8, <2>2, <2>3
  <2>5. j - i + 1 \in DOMAIN text /\ text[j - i + 1] = body[j]
    BY <1>5, <2>4
  <2> QED BY <2>5 DEF WordsOf
<1> QED BY <1>6, <1>7, <1>8

(* The headings of a stub are lines of the text.                             *)
LEMMA StubsAre ==
  ASSUME NEW V, NEW body \in Seq(V)
  PROVE  WordsOf(StubTitles(body)) \subseteq WordsOf(body)
<1> DEFINE secs == SplitSections(body)
           F == {i \in DOMAIN body :
                   IsHeading(body[i]) /\ \A k \in DOMAIN secs : ~Within(secs[k].title, body[i].title)}
<1>1. F \in SUBSET DOMAIN body
  OBVIOUS
<1>2. StubTitles(body) = SubSeq(Only(body, F), 1, Min({StubHeadings, Len(Only(body, F))}))
  BY DEF StubTitles
<1> HIDE DEF F
<1>3. PICK free, c : free = Only(body, F) /\ c = Cardinality(F)
  OBVIOUS
<1>4. c \in Nat /\ \E at : Kept(body, F, at, c)
  BY <1>1, <1>3, OnlyIs
<1>5. PICK at : Kept(body, F, at, c)
  BY <1>4
<1>6. Len(free) = c /\ DOMAIN free = 1..c /\ \A k \in 1..c : at[k] \in DOMAIN body /\ free[k] = body[at[k]]
  BY <1>1, <1>3, <1>5 DEF Kept, LaidOut
<1>7. PICK m : m = Min({StubHeadings, Len(free)})
  OBVIOUS
<1>8. m \in Nat /\ m <= c
  <2>1. StubHeadings \in Nat
    BY ReadingAssumption
  <2>2. Min({StubHeadings, c}) = IF StubHeadings < c THEN StubHeadings ELSE c
    <3>1. c \in Int /\ StubHeadings \in Int
      BY <1>4, <2>1
    <3> QED BY <3>1, LargerOfTwo
  <2>3. m = IF StubHeadings < c THEN StubHeadings ELSE c
    BY <1>6, <1>7, <2>2
  <2> QED BY <1>4, <2>1, <2>3
<1>9. \A k \in 1..m : SubSeq(free, 1, m)[k] = free[k]
  BY <1>8
<1>10. DOMAIN SubSeq(free, 1, m) = 1..m
  BY <1>8
<1>11. \A k \in DOMAIN SubSeq(free, 1, m) : \E i \in DOMAIN body : SubSeq(free, 1, m)[k] = body[i]
  <2> SUFFICES ASSUME NEW k \in 1..m PROVE \E i \in DOMAIN body : SubSeq(free, 1, m)[k] = body[i]
    BY <1>10
  <2>1. k \in 1..c
    BY <1>4, <1>8
  <2> QED BY <1>6, <1>9, <2>1
<1>12. WordsOf(SubSeq(free, 1, m)) \subseteq WordsOf(body)
  BY <1>11, WordsOfPart
<1> QED BY <1>2, <1>3, <1>7, <1>12

(* The entries of a file: one at least, all of that file, with no word that  *)
(* the file has not but those of a stub, and with all its words but those    *)
(* that are left out.                                                        *)
EntriesAre(file, entries) ==
  /\ DOMAIN entries # {}
  /\ \A k \in DOMAIN entries : /\ entries[k].file = file.id
                              /\ entries[k].terms \subseteq WholeEntry(file).terms \cup StubWords
  /\ \A t \in WholeEntry(file).terms \ LeftOut(file) : \E k \in DOMAIN entries : t \in entries[k].terms

LEMMA SplitEntriesAre ==
  ASSUME NEW V, NEW file, file.body \in Seq(V)
  PROVE  /\ \E R : Entries(file) \in Seq(R)
         /\ EntriesAre(file, Entries(file))
<1>1. PICK body, secs : body = file.body /\ secs = SplitSections(body)
  OBVIOUS
<1>2. CASE ~Eligible(body)
  <2>1. Entries(file) = <<WholeEntry(file)>> /\ WholeEntry(file).file = file.id
    BY <1>1, <1>2 DEF Entries, WholeEntry
  <2>2. PICK entry, entries : entry = WholeEntry(file) /\ entries = <<entry>>
    OBVIOUS
  <2>3. entries \in Seq({entry}) /\ DOMAIN entries = {1} /\ entries[1] = entry
    BY <2>2
  <2> QED BY <2>1, <2>2, <2>3 DEF EntriesAre
<1>3. CASE Eligible(body)
  <2> DEFINE entry(words) == [file |-> file.id, terms |-> file.named \cup words]
             parts == [k \in DOMAIN secs |-> entry(ToSet(secs[k].title) \cup WordsOf(secs[k].text))]
             stub == entry(file.described \cup StubWords \cup WordsOf(StubTitles(body)))
  <2>1. Entries(file) = Append(parts, stub)
    BY <1>1, <1>3 DEF Entries
  <2>2. /\ \E R : secs \in Seq(R)
        /\ \A k \in DOMAIN secs : \E i : SectionAt(body, i, secs[k].title, secs[k].text)
        /\ \A i \in SectionStarts(body) : LongFrom(body, i) =>
             \E k \in DOMAIN secs : SectionAt(body, i, secs[k].title, secs[k].text)
    BY <1>1, SectionsAre
  <2>3. PICK n \in Nat : DOMAIN secs = 1..n
    BY <2>2
  <2>4. \A k \in 1..n : /\ parts[k].file = file.id
                        /\ parts[k].terms = file.named \cup ToSet(secs[k].title) \cup WordsOf(secs[k].text)
    BY <2>3
  <2>5. /\ stub.file = file.id
        /\ stub.terms = file.named \cup file.described \cup StubWords \cup WordsOf(StubTitles(body))
    OBVIOUS
  <2>6. DOMAIN parts = 1..n
    BY <2>3
  <2> HIDE DEF stub, parts
  <2>7. PICK R : R = {parts[k] : k \in 1..n} \cup {stub}
    OBVIOUS
  <2>8. parts \in Seq(R) /\ Len(parts) = n
    <3>1. parts = [k \in 1..n |-> parts[k]]
      BY <2>6 DEF parts
    <3>2. parts \in [1..n -> R]
      BY <2>7, <3>1
    <3> QED BY <2>3, <3>2, IsAList
  <2>9. PICK entries : entries = Append(parts, stub)
    OBVIOUS
  <2>10. /\ entries \in Seq(R) /\ DOMAIN entries = 1..(n + 1)
         /\ \A k \in 1..n : entries[k] = parts[k]
         /\ entries[n + 1] = stub
    BY <2>3, <2>7, <2>8, <2>9
  <2>11. WholeEntry(file).terms = file.named \cup file.described \cup WordsOf(body)
    BY <1>1 DEF WholeEntry
  <2>12. ASSUME NEW k \in DOMAIN entries
         PROVE  /\ entries[k].file = file.id
                /\ entries[k].terms \subseteq WholeEntry(file).terms \cup StubWords
    <3>1. CASE k \in 1..n
      <4>1. PICK i : SectionAt(body, i, secs[k].title, secs[k].text)
        BY <2>2, <2>3, <3>1
      <4>2. ToSet(secs[k].title) \cup WordsOf(secs[k].text) \subseteq WordsOf(body)
        BY <1>1, <4>1, WordsOfSection
      <4> QED BY <2>4, <2>10, <2>11, <3>1, <4>2
    <3>2. CASE k = n + 1
      <4>1. WordsOf(StubTitles(body)) \subseteq WordsOf(body)
        BY <1>1, StubsAre
      <4> QED BY <2>5, <2>10, <2>11, <3>2, <4>1
    <3> QED BY <2>3, <2>10, <3>1, <3>2
  <2>13. ASSUME NEW t \in WordsOf(body), t \notin LeftOut(file)
         PROVE  \E k \in DOMAIN entries : t \in entries[k].terms
    <3>1. PICK i \in DOMAIN body : t \in TermsOf(body[i])
      BY DEF WordsOf
    <3> DEFINE L == {j \in DOMAIN body : ~InSection(body, j)}
    <3>2. LeftOut(file) = WordsOf(Only(body, L))
      BY <1>1, <1>3 DEF LeftOut
    <3>3. L \in SUBSET DOMAIN body /\ (i \in L <=> ~InSection(body, i))
      OBVIOUS
    <3> HIDE DEF L
    <3>4. InSection(body, i)
      <4>1. SUFFICES ASSUME i \in L PROVE FALSE
        BY <3>3
      <4>2. PICK only, c : only = Only(body, L) /\ c = Cardinality(L)
        OBVIOUS
      <4>3. PICK at : Kept(body, L, at, c)
        BY <1>1, <3>3, <4>2, OnlyIs
      <4>4. PICK k \in 1..c : at[k] = i
        BY <4>1, <4>3 DEF Kept
      <4>5. k \in DOMAIN only /\ only[k] = body[i]
        BY <4>2, <4>3, <4>4 DEF Kept, LaidOut
      <4>6. t \in WordsOf(only)
        BY <3>1, <4>5 DEF WordsOf
      <4> QED BY <2>13, <3>2, <4>2, <4>6
    <3>5. PICK j \in SectionStarts(body) :
            j <= i /\ SectionStarts(body) \cap ((j + 1)..i) = {} /\ LongFrom(body, j)
      BY <3>4 DEF InSection, LongFrom
    <3>6. PICK k \in DOMAIN secs : SectionAt(body, j, secs[k].title, secs[k].text)
      BY <2>2, <3>5
    <3>7. t \in WordsOf(secs[k].text)
      BY <1>1, <3>1, <3>5, <3>6, WordsOfSection
    <3> QED BY <2>3, <2>4, <2>10, <3>6, <3>7
  <2>14. n + 1 \in DOMAIN entries
    BY <2>3, <2>10
  <2>15. ASSUME NEW t \in WholeEntry(file).terms \ LeftOut(file)
         PROVE  \E k \in DOMAIN entries : t \in entries[k].terms
    <3>1. CASE t \in file.named \cup file.described
      BY <2>5, <2>10, <2>14, <3>1
    <3> QED BY <2>11, <2>13, <2>15, <3>1
  <2> QED BY <2>1, <2>9, <2>10, <2>12, <2>14, <2>15 DEF EntriesAre
<1> QED BY <1>1, <1>2, <1>3

(* Files are a list, and so is the text of each.                             *)
GivenFiles(files) ==
  /\ files \in Seq({files[n] : n \in DOMAIN files})
  /\ \A n \in DOMAIN files : \E V : files[n].body \in Seq(V)

(* The entries of all files, and those of the files whole.                   *)
Split(files) == Joined([n \in DOMAIN files |-> Entries(files[n])])
Unsplit(files) == [n \in DOMAIN files |-> WholeEntry(files[n])]
Lost(files) == UNION {LeftOut(files[n]) : n \in DOMAIN files}

LEMMA SplitIs ==
  ASSUME NEW files, GivenFiles(files)
  PROVE  /\ \A k \in DOMAIN Split(files) : \E n \in DOMAIN files : \E m \in DOMAIN Entries(files[n]) :
              Split(files)[k] = Entries(files[n])[m]
         /\ \A n \in DOMAIN files : \A m \in DOMAIN Entries(files[n]) :
              \E k \in DOMAIN Split(files) : Split(files)[k] = Entries(files[n])[m]
<1>1. PICK l \in Nat : DOMAIN files = 1..l
  BY DEF GivenFiles
<1>2. PICK lists : lists = [n \in 1..l |-> Entries(files[n])]
  OBVIOUS
<1>3. DOMAIN lists = 1..l /\ \A n \in 1..l : lists[n] = Entries(files[n])
  BY <1>2
<1> DEFINE V == UNION {{lists[n][m] : m \in DOMAIN lists[n]} : n \in 1..l}
<1>4. ASSUME NEW n \in 1..l PROVE lists[n] \in Seq(V)
  <2>1. PICK R : lists[n] \in Seq(R)
    <3>1. \E B : files[n].body \in Seq(B)
      BY <1>1 DEF GivenFiles
    <3>2. \E R : Entries(files[n]) \in Seq(R)
      BY <3>1, SplitEntriesAre
    <3> QED BY <1>3, <3>2
  <2>2. PICK k \in Nat : DOMAIN lists[n] = 1..k /\ lists[n] = [m \in 1..k |-> lists[n][m]]
    BY <2>1
  <2>3. \A m \in 1..k : lists[n][m] \in V
    BY <2>2
  <2> HIDE DEF V
  <2>4. lists[n] \in [1..k -> V]
    BY <2>2, <2>3
  <2> QED BY <2>4, IsAList
<1> HIDE DEF V
<1>5. lists \in Seq(Seq(V))
  <2>1. lists \in [1..l -> Seq(V)]
    BY <1>2, <1>3, <1>4
  <2> QED BY <2>1, IsAList
<1>6. PICK joined : joined = Joined(lists)
  OBVIOUS
<1>7. PICK at, of : Behind(joined, lists, at, of)
  BY <1>5, <1>6, JoinedIs
<1>8. Split(files) = joined
  BY <1>1, <1>2, <1>6 DEF Split
<1>9. ASSUME NEW k \in DOMAIN joined
      PROVE  \E n \in 1..l : \E m \in DOMAIN Entries(files[n]) : joined[k] = Entries(files[n])[m]
  <2>1. at[k] \in DOMAIN lists /\ of[k] \in DOMAIN lists[at[k]] /\ joined[k] = lists[at[k]][of[k]]
    BY <1>7 DEF Behind
  <2> QED BY <1>3, <2>1
<1>10. ASSUME NEW n \in 1..l, NEW m \in DOMAIN Entries(files[n])
       PROVE  \E k \in DOMAIN joined : joined[k] = Entries(files[n])[m]
  <2>1. n \in DOMAIN lists /\ m \in DOMAIN lists[n]
    BY <1>3
  <2>2. PICK k \in DOMAIN joined : at[k] = n /\ of[k] = m
    BY <1>7, <2>1 DEF Behind
  <2>3. joined[k] = lists[at[k]][of[k]]
    BY <1>7 DEF Behind
  <2> QED BY <1>3, <2>2, <2>3
<1>11. DOMAIN files = 1..l
  BY <1>1
<1>12. /\ \A k \in DOMAIN joined : \E n \in DOMAIN files : \E m \in DOMAIN Entries(files[n]) :
            joined[k] = Entries(files[n])[m]
       /\ \A n \in DOMAIN files : \A m \in DOMAIN Entries(files[n]) :
            \E k \in DOMAIN joined : joined[k] = Entries(files[n])[m]
  BY <1>9, <1>10, <1>11, Zenon
<1> QED BY <1>8, <1>12, Zenon

(* The files that have a term, in sections and whole.                        *)
FilesWith(docs, t) == {docs[i].file : i \in Posting(docs, t)}

LEMMA FilesCompare ==
  ASSUME NEW files, GivenFiles(files)
  PROVE  /\ FilesOf(Split(files)) = FilesOf(Unsplit(files))
         /\ IsFiniteSet(FilesOf(Unsplit(files)))
         /\ \A t : t \notin StubWords => FilesWith(Split(files), t) \subseteq FilesWith(Unsplit(files), t)
         /\ \A t : t \notin Lost(files) => FilesWith(Unsplit(files), t) \subseteq FilesWith(Split(files), t)
<1>1. PICK split, whole : split = Split(files) /\ whole = Unsplit(files)
  OBVIOUS
<1>2. /\ \A k \in DOMAIN split : \E n \in DOMAIN files : \E m \in DOMAIN Entries(files[n]) :
           split[k] = Entries(files[n])[m]
      /\ \A n \in DOMAIN files : \A m \in DOMAIN Entries(files[n]) :
           \E k \in DOMAIN split : split[k] = Entries(files[n])[m]
  BY <1>1, SplitIs
<1>3. ASSUME NEW n \in DOMAIN files PROVE EntriesAre(files[n], Entries(files[n]))
  <2>1. \E V : files[n].body \in Seq(V)
    BY DEF GivenFiles
  <2> QED BY <2>1, SplitEntriesAre
<1>4. DOMAIN whole = DOMAIN files /\ \A n \in DOMAIN files : whole[n] = WholeEntry(files[n])
  BY <1>1 DEF Unsplit
<1>5. \A n \in DOMAIN files : whole[n].file = files[n].id
  BY <1>4 DEF WholeEntry
<1>6. FilesOf(split) = FilesOf(whole)
  <2>1. ASSUME NEW k \in DOMAIN split PROVE split[k].file \in FilesOf(whole)
    <3>1. PICK n \in DOMAIN files : \E m \in DOMAIN Entries(files[n]) : split[k] = Entries(files[n])[m]
      BY <1>2
    <3>2. split[k].file = files[n].id
      BY <1>3, <3>1 DEF EntriesAre
    <3> QED BY <1>4, <1>5, <3>2 DEF FilesOf
  <2>2. ASSUME NEW n \in DOMAIN files PROVE whole[n].file \in FilesOf(split)
    <3>1. PICK m \in DOMAIN Entries(files[n]) : Entries(files[n])[m].file = files[n].id
      BY <1>3 DEF EntriesAre
    <3>2. PICK k \in DOMAIN split : split[k] = Entries(files[n])[m]
      BY <1>2
    <3> QED BY <1>5, <3>1, <3>2 DEF FilesOf
  <2> QED BY <1>4, <2>1, <2>2 DEF FilesOf
<1>7. IsFiniteSet(FilesOf(whole))
  <2>1. PICK l \in Nat : DOMAIN files = 1..l
    BY DEF GivenFiles
  <2>2. IsFiniteSet(DOMAIN whole)
    BY <1>4, <2>1, FS_Interval
  <2> QED BY <2>2, FilesAreFinite
<1>8. ASSUME NEW t, t \notin StubWords PROVE FilesWith(split, t) \subseteq FilesWith(whole, t)
  <2> SUFFICES ASSUME NEW k \in DOMAIN split, t \in split[k].terms
               PROVE  split[k].file \in FilesWith(whole, t)
    BY DEF FilesWith, Posting
  <2>1. PICK n \in DOMAIN files : \E m \in DOMAIN Entries(files[n]) : split[k] = Entries(files[n])[m]
    BY <1>2
  <2>2. split[k].file = files[n].id /\ t \in WholeEntry(files[n]).terms
    BY <1>3, <1>8, <2>1 DEF EntriesAre
  <2> QED BY <1>4, <1>5, <2>2 DEF FilesWith, Posting
<1>9. ASSUME NEW t, t \notin Lost(files) PROVE FilesWith(whole, t) \subseteq FilesWith(split, t)
  <2> SUFFICES ASSUME NEW n \in DOMAIN files, t \in whole[n].terms
               PROVE  whole[n].file \in FilesWith(split, t)
    BY <1>4 DEF FilesWith, Posting
  <2>1. t \in WholeEntry(files[n]).terms \ LeftOut(files[n])
    BY <1>4, <1>9 DEF Lost
  <2>2. PICK m \in DOMAIN Entries(files[n]) : t \in Entries(files[n])[m].terms
    BY <1>3, <2>1 DEF EntriesAre
  <2>3. Entries(files[n])[m].file = files[n].id
    BY <1>3 DEF EntriesAre
  <2>4. PICK k \in DOMAIN split : split[k] = Entries(files[n])[m]
    BY <1>2
  <2> QED BY <1>5, <2>2, <2>3, <2>4 DEF FilesWith, Posting
<1> QED BY <1>1, <1>6, <1>7, <1>8, <1>9

(* Of any files, a file that is split counts once, as it would whole. No     *)
(* term is found in more files for it but those that every stub has, and     *)
(* none in fewer but those of lines in no section; a question without such   *)
(* words has the weights, the absent terms and the orphans it would have     *)
(* (section-docs.js 97-130, 178-267, bm25.js 150-180, 230-293).              *)
THEOREM SectionsCountAsTheirFile ==
  ASSUME \A c \in Cases : c.kind = "corpus" => GivenFiles(c.files)
  PROVE  AnswersSpec => []SectionsCountOnce
<1>1. ASSUME NEW files, GivenFiles(files), NEW asked, NEW split, NEW whole, NEW lost,
             split = TermStats(Split(files), asked, Compounds),
             whole = TermStats(Unsplit(files), asked, Compounds), lost = Lost(files)
      PROVE  /\ split.documents = whole.documents
             /\ \A t \in asked \ StubWords : split.df[t] <= whole.df[t]
             /\ \A t \in asked \ (StubWords \cup lost) : split.df[t] = whole.df[t]
             /\ asked \cap (StubWords \cup lost) = {} => split = whole
  <2>1. PICK docs, files2 : docs = Split(files) /\ files2 = Unsplit(files)
    OBVIOUS
  <2>2. /\ FilesOf(docs) = FilesOf(files2)
        /\ IsFiniteSet(FilesOf(files2))
        /\ \A t : t \notin StubWords => FilesWith(docs, t) \subseteq FilesWith(files2, t)
        /\ \A t : t \notin lost => FilesWith(files2, t) \subseteq FilesWith(docs, t)
    BY <1>1, <2>1, FilesCompare
  <2>3. ASSUME NEW d
        PROVE  /\ TermStats(d, asked, Compounds).documents = Cardinality(FilesOf(d))
               /\ \A t \in asked : TermStats(d, asked, Compounds).df[t] = Cardinality(FilesWith(d, t))
    BY DEF TermStats, DfOf, FilesWith
  <2>4. split.documents = whole.documents
    BY <1>1, <2>1, <2>2, <2>3
  <2>5. ASSUME NEW t \in asked \ StubWords PROVE split.df[t] <= whole.df[t]
    <3>1. FilesWith(files2, t) \subseteq FilesOf(files2)
      BY DEF FilesWith, FilesOf, Posting
    <3>2. IsFiniteSet(FilesWith(files2, t))
      BY <2>2, <3>1, FS_Subset
    <3>3. FilesWith(docs, t) \in SUBSET FilesWith(files2, t)
      BY <2>2
    <3>4. Cardinality(FilesWith(docs, t)) <= Cardinality(FilesWith(files2, t))
      BY <3>2, <3>3, FS_Subset
    <3> QED BY <1>1, <2>1, <2>3, <3>4
  <2>6. ASSUME NEW t, t \notin StubWords \cup lost PROVE FilesWith(docs, t) = FilesWith(files2, t)
    BY <2>2, <2>6
  <2>7. ASSUME NEW t \in asked \ (StubWords \cup lost) PROVE split.df[t] = whole.df[t]
    BY <1>1, <2>1, <2>3, <2>6
  <2>8. ASSUME asked \cap (StubWords \cup lost) = {} PROVE split = whole
    <3>1. ASSUME NEW t \in asked
          PROVE  /\ DfOf(docs, t) = DfOf(files2, t)
                 /\ Posting(docs, t) = {} <=> Posting(files2, t) = {}
      <4>1. FilesWith(docs, t) = FilesWith(files2, t)
        BY <2>6, <2>8
      <4>2. \A d : DfOf(d, t) = Cardinality(FilesWith(d, t))
        BY DEF DfOf, FilesWith
      <4>3. \A d : Posting(d, t) = {} <=> FilesWith(d, t) = {}
        BY DEF FilesWith
      <4> QED BY <4>1, <4>2, <4>3
    <3>2. [t \in asked |-> DfOf(docs, t)] = [t \in asked |-> DfOf(files2, t)]
      BY <3>1
    <3>3. {t \in asked : Posting(docs, t) = {}} = {t \in asked : Posting(files2, t) = {}}
      BY <3>1
    <3> QED BY <1>1, <2>1, <2>2, <3>2, <3>3, Zenon DEF TermStats
  <2> QED BY <2>4, <2>5, <2>7, <2>8
<1>2. case = None \/ case \in Cases => SectionsCountOnce
  <2> SUFFICES ASSUME case \in Cases, case.kind = "corpus" PROVE SectionsCountOnce
    BY DEF SectionsCountOnce, Is
  <2>1. PICK files, asked : files = case.files /\ asked = case.question
    OBVIOUS
  <2>2. GivenFiles(files)
    BY <2>1
  <2>3. PICK split, whole, lost : /\ split = TermStats(Split(files), asked, Compounds)
                                  /\ whole = TermStats(Unsplit(files), asked, Compounds)
                                  /\ lost = Lost(files)
    OBVIOUS
  <2>4. /\ split.documents = whole.documents
        /\ \A t \in asked \ StubWords : split.df[t] <= whole.df[t]
        /\ \A t \in asked \ (StubWords \cup lost) : split.df[t] = whole.df[t]
        /\ asked \cap (StubWords \cup lost) = {} => split = whole
    BY <1>1, <2>2, <2>3
  <2> QED BY <2>1, <2>3, <2>4 DEF SectionsCountOnce, Split, Unsplit, Lost
<1> QED BY <1>2, CaseIsGiven, PTL

-----------------------------------------------------------------------------
(* What search names and get opens. *)

(* A body as it is written: its headings have levels and titles of words, a  *)
(* fence has a mark, and what stands for no name is none.                    *)
Written(body, V, W) ==
  /\ body \in Seq(V)
  /\ \A i \in DOMAIN body : IsHeading(body[i]) => body[i].level \in Nat \ {0} /\ body[i].title \in Seq(W)
  /\ \A i \in DOMAIN body : IsFence(body[i]) => body[i].mark # Unnamed
  /\ Unnamed \notin Seq(W \cup Nat)

(* In a plain body, get finds at the start of a section what search has.     *)
HeadingAt(body, i, heading) ==
  /\ i \in OutOfFences(body) /\ heading.level = body[i].level /\ heading.title = body[i].title
  /\ i \in SectionStarts(body) =>
       \E e : EndsAt(e, i, SectionStarts(body), Len(body)) /\ heading.text = SubSeq(body, i, e - 1)

LEMMA HeadingsAre ==
  ASSUME NEW V, NEW W, NEW body, Written(body, V, W), Plain(body)
  PROVE  LET heads == Headings(body)
         IN \E c \in Nat : \E lines :
              /\ DOMAIN heads = 1..c /\ \E R : heads \in Seq(R)
              /\ \A k \in 1..c : HeadingAt(body, lines[k], heads[k])
              /\ \A i \in SectionStarts(body) : \E k \in 1..c : lines[k] = i
<1>1. PICK n, S, c, lines : /\ n = Len(body) /\ S = OutOfFences(body) /\ c = Cardinality(S)
                            /\ lines = Ascending(S)
  OBVIOUS
<1>2. body \in Seq(V) /\ n \in Nat /\ DOMAIN body = 1..n
  BY <1>1 DEF Written
<1>3. /\ S \subseteq Int /\ S \subseteq 1..n /\ c \in Nat
      /\ lines \in [1..c -> S]
      /\ \A i \in S : \E k \in 1..c : lines[k] = i
      /\ \A j, k \in 1..c : lines[j] < lines[k] <=> j < k
  BY <1>1, <1>2, StartsAre
<1>4. Len(lines) = c /\ DOMAIN lines = 1..c
  BY <1>3, IsAList
<1> DEFINE after(i) == {j \in S : j > i /\ body[j].level <= body[i].level}
           end(i) == Min({n + 1} \cup after(i))
<1>5. PICK heads : heads = [k \in 1..c |-> [level |-> body[lines[k]].level, title |-> body[lines[k]].title,
                                            text |-> SubSeq(body, lines[k], end(lines[k]) - 1)]]
  OBVIOUS
<1>6. Headings(body) = heads
  <2>1. OneMark(body)
    BY DEF Plain, OneMark
  <2>2. Headings(body) = HeadingsAt(body, S)
    BY <1>1, <1>2, <2>1, HeadingsAreOutOfFences DEF Written
  <2> QED BY <1>1, <1>4, <1>5, <2>2 DEF HeadingsAt
<1>7. \A k \in 1..c : /\ heads[k].level = body[lines[k]].level /\ heads[k].title = body[lines[k]].title
                      /\ heads[k].text = SubSeq(body, lines[k], end(lines[k]) - 1)
  BY <1>5
<1>8. \A j, k \in 1..c : k < j /\ heads[k].level = 2 => heads[j].level # 1
  BY <1>5, <1>6 DEF Plain
<1>9. \A i \in S : IsHeading(body[i]) /\ body[i].level \in Nat \ {0}
  BY <1>1, <1>2 DEF OutOfFences, Written
<1>10. \A i : i \in SectionStarts(body) <=> i \in S /\ body[i].level = 2
  BY <1>1 DEF SectionStarts, OutOfFences
<1>11. ASSUME NEW i \in SectionStarts(body) PROVE EndsAt(end(i), i, SectionStarts(body), n)
  <2>1. PICK T : T = {n + 1} \cup after(i)
    OBVIOUS
  <2>2. ASSUME NEW j PROVE j \in after(i) <=> j \in SectionStarts(body) /\ i < j
    <3>1. CASE j \in SectionStarts(body) /\ i < j
      BY <1>10, <3>1
    <3>2. CASE j \in after(i)
      <4>1. j \in S /\ i < j /\ body[j].level <= 2
        BY <1>3, <1>10, <3>2
      <4>2. PICK k \in 1..c : lines[k] = i
        BY <1>3, <1>10
      <4>3. PICK m \in 1..c : lines[m] = j
        BY <1>3, <4>1
      <4>4. k < m
        BY <1>3, <4>1, <4>2, <4>3
      <4>5. body[j].level # 1
        BY <1>7, <1>8, <1>10, <4>2, <4>3, <4>4
      <4>6. body[j].level = 2
        BY <1>9, <4>1, <4>5
      <4> QED BY <1>10, <4>1, <4>6
    <3> QED BY <3>1, <3>2
  <2> HIDE DEF after
  <2>3. SectionStarts(body) \subseteq 1..n /\ SectionStarts(body) \subseteq Nat /\ i \in 1..n /\ i \in Nat
    <3>1. SectionStarts(body) \subseteq S
      BY <1>10
    <3>2. 1..n \subseteq Nat
      OBVIOUS
    <3> QED BY <1>3, <3>1, <3>2
  <2>4. T \subseteq Nat /\ T # {} /\ n + 1 \in T
    <3>1. n + 1 \in Nat /\ after(i) \subseteq Nat
      BY <1>2, <2>2, <2>3
    <3> QED BY <2>1, <3>1
  <2>5. PICK e \in T : \A j \in T : e <= j
    BY <2>4, Least
  <2>6. end(i) = e
    <3>1. T \subseteq Int
      BY <2>4
    <3> QED BY <2>1, <2>5, <3>1, MinIs
  <2>7. e \in SectionStarts(body) \cup {n + 1} /\ e \in Nat /\ i < e /\ e <= n + 1
    <3>1. e \in Nat /\ e <= n + 1
      BY <2>4, <2>5
    <3>2. \/ e = n + 1
          \/ e \in SectionStarts(body) /\ i < e
      BY <2>1, <2>2
    <3>3. i < n + 1
      BY <1>2, <2>3
    <3> QED BY <3>1, <3>2, <3>3
  <2>8. ASSUME NEW j \in SectionStarts(body), i < j PROVE e <= j
    BY <2>1, <2>2, <2>5, <2>8
  <2> QED BY <2>6, <2>7, <2>8 DEF EndsAt
<1> HIDE DEF end
<1>12. ASSUME NEW k \in 1..c PROVE HeadingAt(body, lines[k], heads[k])
  <2>1. lines[k] \in S
    BY <1>3
  <2>2. lines[k] \in SectionStarts(body) =>
          \E e : EndsAt(e, lines[k], SectionStarts(body), n) /\ heads[k].text = SubSeq(body, lines[k], e - 1)
    BY <1>7, <1>11
  <2> QED BY <1>1, <1>7, <2>1, <2>2 DEF HeadingAt
<1>13. DOMAIN heads = 1..c /\ \E R : heads \in Seq(R)
  <2> DEFINE R == {heads[k] : k \in 1..c}
  <2>1. heads \in [1..c -> R]
    BY <1>5
  <2> HIDE DEF R
  <2>2. heads \in Seq(R) /\ DOMAIN heads = 1..c
    BY <1>3, <2>1, IsAList
  <2> QED BY <2>2
<1>14. \A i \in SectionStarts(body) : \E k \in 1..c : lines[k] = i
  BY <1>3, <1>10
<1> QED BY <1>3, <1>6, <1>12, <1>13, <1>14

LEMMA FirstOfJoined ==
  ASSUME NEW V, NEW s \in Seq(V), NEW t \in Seq(V), Len(s) >= 1
  PROVE  s \o t \in Seq(V) /\ Len(s \o t) >= 1 /\ (s \o t)[1] = s[1]
OBVIOUS

LEMMA SectionIsFound ==
  ASSUME NEW V, NEW W, NEW body, Written(body, V, W), Plain(body),
         NEW i, NEW title, NEW text, SectionAt(body, i, title, text)
  PROVE  SectionOf(body, title) # <<>> /\ SectionOf(body, title)[1].text = text
<1>1. PICK heads : heads = Headings(body)
  OBVIOUS
<1>2. PICK c \in Nat :
        \E lines :
          /\ DOMAIN heads = 1..c /\ \E R : heads \in Seq(R)
          /\ \A k \in 1..c : HeadingAt(body, lines[k], heads[k])
          /\ \A j \in SectionStarts(body) : \E k \in 1..c : lines[k] = j
  BY <1>1, HeadingsAre
<1>3. PICK lines :
        /\ DOMAIN heads = 1..c /\ \E R : heads \in Seq(R)
        /\ \A k \in 1..c : HeadingAt(body, lines[k], heads[k])
        /\ \A j \in SectionStarts(body) : \E k \in 1..c : lines[k] = j
  BY <1>2
<1>4. PICK R : heads \in Seq(R)
  BY <1>3
<1>5. i \in SectionStarts(body) /\ title = body[i].title
  BY DEF SectionAt
<1>6. PICK k \in 1..c : lines[k] = i
  BY <1>3, <1>5
<1>7. HeadingAt(body, i, heads[k])
  BY <1>3, <1>6
<1>8. heads[k].title = title /\ heads[k].text = text
  <2>1. PICK n \in Nat : n = Len(body)
    BY DEF Written
  <2>2. PICK d : EndsAt(d, i, SectionStarts(body), n) /\ heads[k].text = SubSeq(body, i, d - 1)
    BY <1>5, <1>7, <2>1 DEF HeadingAt
  <2>3. PICK e : EndsAt(e, i, SectionStarts(body), n) /\ text = SubSeq(body, i, e - 1)
    BY <2>1 DEF SectionAt
  <2>4. d = e
    BY <2>2, <2>3, OneEnd
  <2> QED BY <1>5, <1>7, <2>2, <2>3, <2>4 DEF HeadingAt
<1> DEFINE P == {j \in DOMAIN heads : heads[j].title = title}
           Q == {j \in DOMAIN heads : IsPrefix(title, heads[j].title)}
           T == {j \in DOMAIN heads : Within(title, heads[j].title)}
<1>9. SectionOf(body, title) = Only(heads, P) \o Only(heads, Q) \o Only(heads, T)
  BY <1>1 DEF SectionOf
<1>10. P = {k}
  <2>1. k \in P
    BY <1>3, <1>8
  <2>2. \A j \in DOMAIN heads : j # k => heads[j].title # heads[k].title
    BY <1>1, <1>3 DEF Plain
  <2> QED BY <1>8, <2>1, <2>2
<1>11. P \in SUBSET DOMAIN heads /\ Q \in SUBSET DOMAIN heads /\ T \in SUBSET DOMAIN heads
  OBVIOUS
<1> HIDE DEF P, Q, T
<1>12. PICK s : s = Only(heads, P)
  OBVIOUS
<1>13. s \in Seq(R) /\ \E at : Kept(heads, P, at, Cardinality(P))
  BY <1>4, <1>11, <1>12, OnlyIs
<1>14. Only(heads, Q) \in Seq(R) /\ Only(heads, T) \in Seq(R)
  BY <1>4, <1>11, OnlyIs
<1>15. Cardinality(P) = 1
  BY <1>10, FS_Singleton
<1>16. PICK at : Kept(heads, P, at, 1)
  BY <1>13, <1>15
<1>17. Len(s) = 1 /\ s[1] = heads[k]
  <2>1. at \in [1..1 -> P] /\ Len(s) = 1 /\ \A j \in 1..1 : s[j] = heads[at[j]]
    BY <1>12, <1>16 DEF Kept, LaidOut
  <2>2. 1 \in 1..1
    OBVIOUS
  <2>3. at[1] \in P
    BY <2>1, <2>2
  <2> QED BY <1>10, <2>1, <2>2, <2>3
<1>18. PICK u : u = s \o Only(heads, Q)
  OBVIOUS
<1>19. u \in Seq(R) /\ Len(u) >= 1 /\ u[1] = s[1]
  <2>1. s \in Seq(R) /\ Len(s) >= 1
    BY <1>13, <1>17
  <2> QED BY <1>14, <1>18, <2>1, FirstOfJoined
<1>20. PICK found : found = u \o Only(heads, T)
  OBVIOUS
<1>21. found \in Seq(R) /\ Len(found) >= 1 /\ found[1] = u[1]
  BY <1>14, <1>19, <1>20, FirstOfJoined
<1>22. found # <<>>
  BY <1>21
<1> QED BY <1>8, <1>9, <1>12, <1>17, <1>18, <1>19, <1>20, <1>21, <1>22

(* What the index has of a body: its sections, then the body itself.         *)
Indexed(docs, body, N) ==
  /\ N \in Nat /\ DOMAIN docs = 1..(N + 1)
  /\ docs[N + 1].name = Unnamed /\ docs[N + 1].heading = Unnamed
  /\ N > 0 => DOMAIN SplitSections(body) = 1..N
  /\ \A k \in 1..N : /\ docs[k].name = NameOf(SplitSections(body), k)
                     /\ docs[k].heading = SplitSections(body)[k].title
                     /\ docs[k].tier = TierOf(SplitSections(body), k)
                     /\ docs[k].text = SplitSections(body)[k].text

LEMMA DocsAre ==
  ASSUME NEW V, NEW body \in Seq(V)
  PROVE  \E N : Indexed(DocsOf(body), body, N)
<1>1. PICK docs, secs : docs = DocsOf(body) /\ secs = SplitSections(body)
  OBVIOUS
<1> DEFINE child(k) == [name |-> NameOf(secs, k), heading |-> secs[k].title,
                        tier |-> TierOf(secs, k), text |-> secs[k].text]
           whole == [name |-> Unnamed, heading |-> Unnamed, tier |-> "hot", text |-> body]
           stub == [whole EXCEPT !.text = <<>>]
<1>2. docs = IF Eligible(body) THEN Append([k \in DOMAIN secs |-> child(k)], stub) ELSE <<whole>>
  BY <1>1 DEF DocsOf
<1>3. CASE ~Eligible(body)
  <2>1. docs = <<whole>>
    BY <1>2, <1>3
  <2>2. DOMAIN docs = 1..1 /\ docs[1].name = Unnamed /\ docs[1].heading = Unnamed
    BY <2>1
  <2>3. 0 \in Nat /\ 0 + 1 = 1 /\ 1..0 = {}
    OBVIOUS
  <2>4. Indexed(docs, body, 0)
    BY <2>2, <2>3 DEF Indexed
  <2> QED BY <1>1, <2>4
<1>4. CASE Eligible(body)
  <2>1. PICK S : secs \in Seq(S)
    BY <1>1, SectionsAre
  <2>2. PICK N \in Nat : N = Len(secs) /\ DOMAIN secs = 1..N
    BY <2>1
  <2>3. stub.name = Unnamed /\ stub.heading = Unnamed
    OBVIOUS
  <2>4. PICK list : list = [k \in 1..N |-> child(k)]
    OBVIOUS
  <2>5. \A k \in 1..N : /\ list[k].name = NameOf(secs, k) /\ list[k].heading = secs[k].title
                        /\ list[k].tier = TierOf(secs, k) /\ list[k].text = secs[k].text
    BY <2>4
  <2> DEFINE D == {child(k) : k \in 1..N} \cup {stub}
  <2>6. list \in Seq(D) /\ Len(list) = N
    <3>1. list \in [1..N -> D]
      BY <2>4
    <3> HIDE DEF D
    <3> QED BY <3>1, IsAList
  <2>7. stub \in D
    OBVIOUS
  <2>8. docs = Append(list, stub)
    BY <1>2, <1>4, <2>2, <2>4
  <2> HIDE DEF D, stub
  <2>9. DOMAIN docs = 1..(N + 1) /\ docs[N + 1] = stub /\ \A k \in 1..N : docs[k] = list[k]
    BY <2>6, <2>7, <2>8
  <2>10. \A k \in 1..N : /\ docs[k].name = NameOf(secs, k) /\ docs[k].heading = secs[k].title
                         /\ docs[k].tier = TierOf(secs, k) /\ docs[k].text = secs[k].text
    BY <2>5, <2>9
  <2>11. Indexed(docs, body, N)
    BY <1>1, <2>2, <2>3, <2>9, <2>10 DEF Indexed
  <2> QED BY <1>1, <2>11
<1> QED BY <1>3, <1>4

(* The names of sections are names, so what has none is the body.            *)
LEMMA IndexedAre ==
  ASSUME NEW V, NEW W, NEW body, Written(body, V, W),
         NEW docs, NEW N, Indexed(docs, body, N)
  PROVE  /\ N > 0 => Headed(SplitSections(body), N, W)
         /\ \A k \in 1..N : docs[k].name # Unnamed /\ docs[k].heading # Unnamed
<1>1. PICK secs : secs = SplitSections(body)
  OBVIOUS
<1>2. body \in Seq(V) /\ N \in Nat
  BY DEF Written, Indexed
<1>3. ASSUME N > 0 PROVE Headed(secs, N, W)
  <2>1. DOMAIN secs = 1..N
    BY <1>1, <1>3 DEF Indexed
  <2>2. ASSUME NEW k \in 1..N PROVE secs[k].title \in Seq(W)
    <3>1. PICK i : SectionAt(body, i, secs[k].title, secs[k].text)
      BY <1>1, <1>2, <2>1, SectionsAre
    <3>2. i \in DOMAIN body /\ IsHeading(body[i]) /\ secs[k].title = body[i].title
      BY <3>1 DEF SectionAt, SectionStarts, OutOfFences
    <3> QED BY <3>2 DEF Written
  <2> QED BY <1>2, <2>1, <2>2 DEF Headed
<1>4. ASSUME NEW k \in 1..N PROVE docs[k].name # Unnamed /\ docs[k].heading # Unnamed
  <2>1. N > 0
    BY <1>2
  <2>2. Headed(secs, N, W)
    BY <1>3, <2>1
  <2>3. NameOf(secs, k) \in Seq(W \cup Nat)
    BY <2>2, NameKeepsVersion
  <2>4. secs[k].title \in Seq(W \cup Nat)
    <3>1. secs[k].title \in Seq(W)
      BY <2>2 DEF Headed
    <3> QED BY <3>1
  <2>5. docs[k].name = NameOf(secs, k) /\ docs[k].heading = secs[k].title
    BY <1>1 DEF Indexed
  <2> QED BY <2>3, <2>4, <2>5 DEF Written
<1> QED BY <1>1, <1>3, <1>4

LEMMA SectionIsGot ==
  ASSUME NEW docs, NEW body, NEW name, ResolveDoc(docs, name).heading # Unnamed,
         SectionOf(body, ResolveDoc(docs, name).heading) # <<>>
  PROVE  GetByName(docs, body, name).body = SectionOf(body, ResolveDoc(docs, name).heading)[1].text
<1>1. PICK asked : asked = [name |-> name, section |-> Unnamed, outline |-> FALSE, offset |-> 0,
                            maxChars |-> Len(body) + 1]
  OBVIOUS
<1>2. asked.name = name /\ asked.section = Unnamed /\ asked.outline = FALSE
  BY <1>1
<1>3. GetByName(docs, body, name) = Get(docs, body, asked)
  BY <1>1 DEF GetByName
<1>4. Get(docs, body, asked) =
        [mode |-> "section", body |-> SectionOf(body, ResolveDoc(docs, name).heading)[1].text, truncated |-> FALSE]
  BY <1>2 DEF Get
<1> QED BY <1>3, <1>4

LEMMA TheOnlyOneOfItsName ==
  ASSUME NEW docs, NEW N \in Nat, DOMAIN docs = 1..N, NEW n \in 1..N,
         \A m \in 1..N : docs[m].name = docs[n].name => m = n
  PROVE  ResolveDoc(docs, docs[n].name) = docs[n]
<1>1. PICK named : named = {m \in DOMAIN docs : docs[m].name = docs[n].name}
  OBVIOUS
<1>2. named = {n}
  BY <1>1
<1>3. Min(named) = n
  <2>1. named \subseteq Int /\ n \in named /\ \A m \in named : n <= m
    BY <1>2
  <2> QED BY <2>1, MinIs
<1>4. ResolveDoc(docs, docs[n].name) = docs[IF named # {} THEN Min(named) ELSE 1]
  BY <1>1 DEF ResolveDoc
<1> QED BY <1>2, <1>3, <1>4

LEMMA SectionsAreGot ==
  ASSUME NEW V, NEW W, NEW body, Written(body, V, W),
         NEW docs, NEW N, Indexed(docs, body, N)
  PROVE  /\ \A n \in DOMAIN docs : docs[n].heading # Unnamed => n \in 1..N
         /\ Plain(body) =>
              \A n \in 1..N :
                (\A m \in 1..N : docs[m].name = docs[n].name => m = n) =>
                  GetByName(docs, body, docs[n].name).body = docs[n].text
         /\ \A cap \in Nat \ {0} : ReadOn(docs, body, cap) = body
         /\ \A n, m \in 1..N :
              docs[n].tier = "archive" /\ docs[m].tier = "hot" /\ VersionOf(docs[m].heading) # 0 =>
                \/ StaleMark \in ToSet(docs[n].heading)
                \/ VersionOf(docs[n].heading) <= VersionOf(docs[m].heading)
<1>1. N \in Nat /\ DOMAIN docs = 1..(N + 1) /\ docs[N + 1].name = Unnamed /\ docs[N + 1].heading = Unnamed
  BY DEF Indexed
<1>2. /\ N > 0 => Headed(SplitSections(body), N, W)
      /\ \A k \in 1..N : docs[k].name # Unnamed /\ docs[k].heading # Unnamed
  BY IndexedAre
<1>3. body \in Seq(V)
  BY DEF Written
<1>4. \A n \in 1..N : n \in 1..(N + 1) /\ N > 0
  BY <1>1
<1>5. \A n \in 1..(N + 1) : n \in 1..N \/ n = N + 1
  BY <1>1
<1>6. ASSUME Plain(body), NEW n \in 1..N, \A m \in 1..N : docs[m].name = docs[n].name => m = n
      PROVE  GetByName(docs, body, docs[n].name).body = docs[n].text
  <2>1. ResolveDoc(docs, docs[n].name) = docs[n]
    <3>1. \A m \in 1..(N + 1) : docs[m].name = docs[n].name => m = n
      BY <1>1, <1>2, <1>5, <1>6
    <3>2. N + 1 \in Nat /\ n \in 1..(N + 1)
      BY <1>1, <1>4
    <3> QED BY <1>1, <3>1, <3>2, TheOnlyOneOfItsName
  <2>2. DOMAIN SplitSections(body) = 1..N
    BY <1>4 DEF Indexed
  <2>3. docs[n].heading = SplitSections(body)[n].title /\ docs[n].text = SplitSections(body)[n].text
    BY DEF Indexed
  <2>4. PICK i : SectionAt(body, i, docs[n].heading, docs[n].text)
    BY <1>3, <2>2, <2>3, SectionsAre
  <2>5. SectionOf(body, docs[n].heading) # <<>> /\ SectionOf(body, docs[n].heading)[1].text = docs[n].text
    BY <1>6, <2>4, SectionIsFound
  <2>6. docs[n].heading # Unnamed
    BY <1>2
  <2> QED BY <2>1, <2>5, <2>6, SectionIsGot
<1>7. ResolveDoc(docs, Unnamed).heading = Unnamed
  <2>1. \A m \in 1..(N + 1) : docs[m].name = docs[N + 1].name => m = N + 1
    BY <1>1, <1>2, <1>5
  <2>2. N + 1 \in Nat /\ N + 1 \in 1..(N + 1)
    BY <1>1
  <2>3. ResolveDoc(docs, docs[N + 1].name) = docs[N + 1]
    BY <1>1, <2>1, <2>2, TheOnlyOneOfItsName
  <2> QED BY <1>1, <2>3
<1>8. \A cap \in Nat \ {0} : ReadOn(docs, body, cap) = body
  BY <1>3, <1>7, ReadOnReadsAll
<1>9. ASSUME NEW n \in 1..N, NEW m \in 1..N,
             docs[n].tier = "archive", docs[m].tier = "hot", VersionOf(docs[m].heading) # 0
      PROVE  \/ StaleMark \in ToSet(docs[n].heading)
             \/ VersionOf(docs[n].heading) <= VersionOf(docs[m].heading)
  <2>1. PICK secs : secs = SplitSections(body)
    OBVIOUS
  <2>2. Headed(secs, N, W)
    BY <1>2, <1>4, <2>1
  <2>3. \A k \in 1..N : docs[k].heading = secs[k].title /\ docs[k].tier = TierOf(secs, k)
    BY <2>1 DEF Indexed
  <2>4. TierOf(secs, n) = "archive" /\ TierOf(secs, m) = "hot" /\ VersionOf(secs[m].title) # 0
    BY <1>9, <2>3
  <2>5. \/ StaleMark \in ToSet(secs[n].title)
        \/ VersionOf(secs[n].title) <= VersionOf(secs[m].title)
    BY <2>2, <2>4, TiersAre
  <2> QED BY <2>3, <2>5
<1>10. \A n \in DOMAIN docs : docs[n].heading # Unnamed => n \in 1..N
  BY <1>1, <1>5
<1> QED BY <1>6, <1>8, <1>9, <1>10

(* A body is lines, with headings of a level and a title of words, and       *)
(* fences of a mark. In any such, what search names, get opens; reading on   *)
(* gives all of it; and a version is archived only for others as new         *)
(* (section-docs.js 87-139, 155-175, memory.js 277-327, 577-660).            *)
THEOREM WhatSearchNamesGetOpens ==
  ASSUME \A c \in Cases : c.kind = "body" => \E V, W : Written(c.body, V, W)
  PROVE  AnswersSpec => []SectionsOpen
<1>1. case = None \/ case \in Cases => SectionsOpen
  <2> SUFFICES ASSUME case \in Cases, case.kind = "body" PROVE SectionsOpen
    BY DEF SectionsOpen, Is
  <2>1. PICK body, docs : body = case.body /\ docs = DocsOf(body)
    OBVIOUS
  <2>2. PICK V, W : Written(body, V, W)
    BY <2>1
  <2>3. body \in Seq(V)
    BY <2>2 DEF Written
  <2>4. PICK N : Indexed(docs, body, N)
    BY <2>1, <2>3, DocsAre
  <2> DEFINE sections == {n \in DOMAIN docs : docs[n].heading # Unnamed}
             shared(n) == \E m \in sections \ {n} : docs[m].name = docs[n].name
  <2>5. /\ \A n \in DOMAIN docs : docs[n].heading # Unnamed => n \in 1..N
        /\ Plain(body) =>
             \A n \in 1..N :
               (\A m \in 1..N : docs[m].name = docs[n].name => m = n) =>
                 GetByName(docs, body, docs[n].name).body = docs[n].text
        /\ \A cap \in Nat \ {0} : ReadOn(docs, body, cap) = body
        /\ \A n, m \in 1..N :
             docs[n].tier = "archive" /\ docs[m].tier = "hot" /\ VersionOf(docs[m].heading) # 0 =>
               \/ StaleMark \in ToSet(docs[n].heading)
               \/ VersionOf(docs[n].heading) <= VersionOf(docs[m].heading)
    BY <2>2, <2>4, SectionsAreGot
  <2>6. sections = 1..N
    <3>1. ASSUME NEW n \in 1..N PROVE n \in DOMAIN docs /\ docs[n].heading # Unnamed
      <4>1. n \in DOMAIN docs
        BY <2>4 DEF Indexed
      <4> QED BY <2>2, <2>4, <4>1, IndexedAre
    <3> QED BY <2>5, <3>1
  <2>7. ASSUME Plain(body), NEW n \in sections, ~shared(n)
        PROVE  GetByName(docs, body, docs[n].name).body = docs[n].text
    <3>1. \A m \in 1..N : docs[m].name = docs[n].name => m = n
      BY <2>6, <2>7
    <3> QED BY <2>5, <2>6, <2>7, <3>1
  <2>8. \A cap \in 1..3 : ReadOn(docs, body, cap) = body
    <3>1. 1..3 \subseteq Nat \ {0}
      OBVIOUS
    <3> QED BY <2>5, <3>1
  <2>9. \A n, m \in sections :
          docs[n].tier = "archive" /\ docs[m].tier = "hot" /\ VersionOf(docs[m].heading) # 0 =>
            \/ StaleMark \in ToSet(docs[n].heading)
            \/ VersionOf(docs[n].heading) <= VersionOf(docs[m].heading)
    BY <2>5, <2>6
  <2>10. Plain(body) => \A n \in sections : shared(n) \/ GetByName(docs, body, docs[n].name).body = docs[n].text
    BY <2>7
  <2> HIDE DEF sections
  <2> QED BY <2>1, <2>8, <2>9, <2>10 DEF SectionsOpen, Is, sections
<1> QED BY <1>1, CaseIsGiven, PTL

=============================================================================
