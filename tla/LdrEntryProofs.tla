--------------------------- MODULE LdrEntryProofs ---------------------------
(***************************************************************************)
(* Proofs about LdrEntry for every number of entries, native modules and   *)
(* dependencies, and on every version.  Whatever fails and whenever ntdll's*)
(* loader runs: the rings of dependencies are whole, and the counts of the *)
(* modules are what holds them.  When ntdll's loader runs only between the *)
(* calls of this one or while dependencies are freed: the lists and the    *)
(* tree hold the loaded modules only.                                      *)
(*                                                                         *)
(* A ring is a set of blocks that the links permute and no part of which is*)
(* closed under them (Circle).  What the walk of Reached meets follows from*)
(* that, and so does what is left of a ring while it is being freed (Rest).*)
(***************************************************************************)
EXTENDS LdrEntry, TLAPS, FiniteSetTheorems, SequenceTheorems, WellFoundedInduction

\* A non-empty set of numbers has a least element.
LEMMA LeastNumber ==
  ASSUME NEW S, S \subseteq Nat, S # {}
  PROVE  \E x \in S : \A y \in S : x <= y
<1> DEFINE Less == { p \in Nat \X Nat : p[1] < p[2] }
<1>1. IsWellFoundedOn(Less, Nat)
  BY Zenon, NatLessThanWellFounded DEF OpToRel
<1> HIDE DEF Less
<1>2. PICK x \in S : \A y \in S : <<y, x>> \notin Less
  BY <1>1, WFMin
<1>3. ASSUME NEW y \in S PROVE x <= y
  <2>1. x \in Nat /\ y \in Nat /\ <<y, x>> \notin Less
    BY <1>2
  <2>2. y < x => <<y, x>> \in Less
    BY <2>1 DEF Less
  <2> QED BY <2>1, <2>2
<1> QED BY <1>3

\* Any blocks are finitely many.
LEMMA SomeBlocks ==
  ASSUME NEW S \in SUBSET Blocks
  PROVE  IsFiniteSet(S) /\ Cardinality(S) \in Nat
BY HeapAssumption, FS_Subset, FS_CardinalityType

-----------------------------------------------------------------------------
(* Circular lists.                                                         *)

\* The first k steps of a walk from the block that the list of x names.
Walks(ring, x, k) ==
  { f \in [0 .. k -> Blocks \cup {None}] :
      /\ f[0] = ring.head[x]
      /\ \A i \in 1 .. k : f[i] = IF f[i - 1] = None THEN None ELSE ring.next[f[i - 1]] }

\* A walk of any length exists: the first length without one would have one.
LEMMA WalkExists ==
  ASSUME NEW ring \in Ring, NEW x \in Nodes, NEW n \in Nat
  PROVE  Walks(ring, x, n) # {}
<1> DEFINE Wrong == { k \in Nat : Walks(ring, x, k) = {} }
<1>1. SUFFICES ASSUME Wrong # {} PROVE FALSE
  OBVIOUS
<1>2. PICK k \in Wrong : \A j \in Wrong : k <= j
  BY <1>1, LeastNumber
<1>3. k \in Nat /\ Walks(ring, x, k) = {}
  BY <1>2
<1>4. ring.head[x] \in Blocks \cup {None} /\ \A b \in Blocks : ring.next[b] \in Blocks \cup {None}
  BY DEF Ring
<1>5. k # 0
  <2>1. [i \in 0 .. 0 |-> ring.head[x]] \in Walks(ring, x, 0)
    BY <1>4 DEF Walks
  <2> QED BY <1>3, <2>1
<1>6. k - 1 \in Nat /\ k - 1 \notin Wrong
  BY <1>2, <1>3, <1>5
<1>7. PICK f : f \in Walks(ring, x, k - 1)
  BY <1>6
<1> HIDE DEF Wrong
<1>8. /\ f \in [0 .. k - 1 -> Blocks \cup {None}] /\ f[0] = ring.head[x]
      /\ \A i \in 1 .. k - 1 : f[i] = IF f[i - 1] = None THEN None ELSE ring.next[f[i - 1]]
  BY <1>7 DEF Walks
<1> DEFINE last == IF f[k - 1] = None THEN None ELSE ring.next[f[k - 1]]
           g == [i \in 0 .. k |-> IF i = k THEN last ELSE f[i]]
<1>9. last \in Blocks \cup {None}
  BY <1>3, <1>4, <1>5, <1>8
<1> HIDE DEF last
<1>10. g \in [0 .. k -> Blocks \cup {None}] /\ g[0] = ring.head[x]
  BY <1>3, <1>5, <1>8, <1>9
<1>11. ASSUME NEW i \in 1 .. k PROVE g[i] = IF g[i - 1] = None THEN None ELSE ring.next[g[i - 1]]
  <2>1. i - 1 \in 0 .. k /\ i - 1 # k /\ g[i - 1] = f[i - 1]
    BY <1>3
  <2>2. CASE i = k
    BY <2>1, <2>2 DEF last
  <2>3. CASE i # k
    BY <1>3, <1>8, <2>1, <2>3
  <2> QED BY <2>2, <2>3
<1>12. g \in Walks(ring, x, k)
  BY <1>10, <1>11 DEF Walks
<1> QED BY <1>3, <1>12

\* Reached is such a walk.
LEMMA ReachedWalks ==
  ASSUME NEW ring \in Ring, NEW x \in Nodes
  PROVE  Reached(ring, x) \in Walks(ring, x, Cardinality(Blocks))
<1> DEFINE n == Cardinality(Blocks)
           IsIt(f) == f = [k \in 0 .. n |->
                             IF k = 0 THEN ring.head[x]
                             ELSE IF f[k - 1] = None THEN None ELSE ring.next[f[k - 1]]]
<1>1. n \in Nat
  BY SomeBlocks
<1>2. PICK f : f \in Walks(ring, x, n)
  BY <1>1, WalkExists
<1>3. IsIt(f)
  <2>1. f = [k \in 0 .. n |-> f[k]]
    BY <1>2 DEF Walks
  <2>2. \A k \in 0 .. n : f[k] = IF k = 0 THEN ring.head[x]
                                 ELSE IF f[k - 1] = None THEN None ELSE ring.next[f[k - 1]]
    BY <1>1, <1>2 DEF Walks
  <2> QED BY <2>1, <2>2
<1>4. Reached(ring, x) = CHOOSE g : IsIt(g)
  BY DEF Reached
<1> HIDE DEF IsIt
<1>5. IsIt(Reached(ring, x))
  BY <1>3, <1>4, Zenon
<1> DEFINE at == Reached(ring, x)
<1>6. at = [k \in 0 .. n |-> IF k = 0 THEN ring.head[x]
                            ELSE IF at[k - 1] = None THEN None ELSE ring.next[at[k - 1]]]
  BY <1>5 DEF IsIt
<1> HIDE DEF at
<1>7. /\ DOMAIN at = 0 .. n /\ at[0] = ring.head[x]
      /\ \A i \in 1 .. n : at[i] = IF at[i - 1] = None THEN None ELSE ring.next[at[i - 1]]
  BY <1>1, <1>6
<1>8. \A i \in 0 .. n : at[i] \in Blocks \cup {None}
  <2> DEFINE Wrong == { k \in 0 .. n : at[k] \notin Blocks \cup {None} }
  <2>1. SUFFICES ASSUME Wrong # {} PROVE FALSE
    OBVIOUS
  <2>2. Wrong \subseteq Nat
    BY <1>1
  <2>3. PICK k \in Wrong : \A j \in Wrong : k <= j
    BY <2>1, <2>2, LeastNumber
  <2>4. k \in 0 .. n /\ at[k] \notin Blocks \cup {None}
    BY <2>3
  <2>5. ring.head[x] \in Blocks \cup {None} /\ \A b \in Blocks : ring.next[b] \in Blocks \cup {None}
    BY DEF Ring
  <2>6. k # 0
    BY <1>7, <2>4, <2>5
  <2>7. k - 1 \in 0 .. n /\ k - 1 \notin Wrong
    BY <1>1, <2>3, <2>4, <2>6
  <2>8. at[k - 1] \in Blocks \cup {None}
    BY <2>7
  <2>9. at[k] = IF at[k - 1] = None THEN None ELSE ring.next[at[k - 1]]
    BY <1>1, <1>7, <2>4, <2>6
  <2> QED BY <2>4, <2>5, <2>8, <2>9
<1>9. at = [i \in 0 .. n |-> at[i]]
  BY <1>6
<1>10. at \in [0 .. n -> Blocks \cup {None}]
  BY <1>8, <1>9
<1> QED BY <1>7, <1>10 DEF Walks, at

\* The blocks S are one circle: no part of them is closed under the links.
Circle(next, S) ==
  /\ \A b \in S : next[b] \in S
  /\ \A b, c \in S : next[b] = next[c] => b = c
  /\ \A T \in SUBSET S : T # {} /\ (\A b \in T : next[b] \in T) => T = S

\* The list of x is the circle of S.
Whole(ring, x, S) ==
  /\ S = {} => ring.head[x] = None
  /\ S # {} => ring.head[x] \in S
  /\ Circle(ring.next, S)

\* A walk stays in the circle.
LEMMA WalkStays ==
  ASSUME NEW ring \in Ring, NEW x \in Nodes, NEW S \in SUBSET Blocks, S # {}, Whole(ring, x, S),
         NEW n \in Nat, NEW at \in Walks(ring, x, n)
  PROVE  /\ \A k \in 0 .. n : at[k] \in S
         /\ \A k \in 1 .. n : at[k] = ring.next[at[k - 1]]
<1> DEFINE Wrong == { k \in 0 .. n : at[k] \notin S }
<1>1. None \notin S
  BY HeapAssumption
<1>2. ASSUME NEW k \in 1 .. n, at[k - 1] \in S
      PROVE  at[k] = ring.next[at[k - 1]] /\ at[k] \in S
  BY <1>1, <1>2 DEF Walks, Whole, Circle
<1>3. Wrong = {}
  <2>1. SUFFICES ASSUME Wrong # {} PROVE FALSE
    OBVIOUS
  <2>2. Wrong \subseteq Nat
    OBVIOUS
  <2>3. PICK k \in Wrong : \A j \in Wrong : k <= j
    BY <2>1, <2>2, LeastNumber
  <2>4. k \in 0 .. n /\ at[k] \notin S
    BY <2>3
  <2>5. k # 0
    BY <2>4 DEF Walks, Whole
  <2>6. k - 1 \in 0 .. n /\ k - 1 \notin Wrong
    BY <2>3, <2>4, <2>5
  <2>7. at[k - 1] \in S
    BY <2>6
  <2>8. k \in 1 .. n
    BY <2>4, <2>5
  <2> QED BY <1>2, <2>4, <2>7, <2>8
<1>4. \A k \in 0 .. n : at[k] \in S
  BY <1>3
<1>5. ASSUME NEW k \in 1 .. n PROVE at[k] = ring.next[at[k - 1]]
  <2>1. k - 1 \in 0 .. n
    OBVIOUS
  <2> QED BY <1>2, <1>4, <2>1
<1> QED BY <1>4, <1>5

\* The numbers below n are n.
LEMMA InitialSegment ==
  ASSUME NEW n \in Nat
  PROVE  IsFiniteSet(0 .. n - 1) /\ Cardinality(0 .. n - 1) = n
<1>1. CASE n = 0
  <2>1. 0 .. n - 1 = {}
    BY <1>1
  <2> QED BY <1>1, <2>1, FS_EmptySet
<1>2. CASE n # 0
  BY <1>2, FS_Interval
<1> QED BY <1>1, <1>2

\* In as many steps as the circle has blocks a walk meets each and is back.
LEMMA WalkGoesRound ==
  ASSUME NEW ring \in Ring, NEW x \in Nodes, NEW S \in SUBSET Blocks, S # {}, Whole(ring, x, S),
         NEW n \in Nat, Cardinality(S) <= n, NEW at \in Walks(ring, x, n)
  PROVE  /\ { at[k] : k \in 0 .. Cardinality(S) - 1 } = S
         /\ at[Cardinality(S)] = ring.head[x]
<1> DEFINE m == Cardinality(S)
           Seen(k) == { at[j] : j \in 0 .. k - 1 }
           Again == { k \in 1 .. m : at[k] \in Seen(k) }
<1>1. /\ IsFiniteSet(S) /\ m \in Nat /\ m # 0
      /\ \A k \in 0 .. n : at[k] \in S
      /\ \A k \in 1 .. n : at[k] = ring.next[at[k - 1]]
      /\ at[0] = ring.head[x]
  <2>1. IsFiniteSet(S) /\ m \in Nat /\ m # 0
    BY SomeBlocks, FS_EmptySet
  <2>2. at[0] = ring.head[x]
    BY DEF Walks
  <2> QED BY <2>1, <2>2, WalkStays
<1>2. \A b, c \in S : ring.next[b] = ring.next[c] => b = c
  BY DEF Whole, Circle
<1> HIDE DEF m
\* Steps without a repetition meet as many blocks as there are steps.
<1>3. ASSUME NEW p \in 0 .. m + 1, p <= n + 1,
             \A k \in 1 .. p - 1 : at[k] \notin Seen(k)
      PROVE  IsFiniteSet(Seen(p)) /\ Cardinality(Seen(p)) = p
  <2> DEFINE f == [j \in 0 .. p - 1 |-> at[j]]
  <2>1. p \in Nat /\ IsFiniteSet(0 .. p - 1) /\ Cardinality(0 .. p - 1) = p
    BY <1>1, InitialSegment
  <2>2. ASSUME NEW i \in 0 .. p - 1, NEW j \in 0 .. p - 1, i < j PROVE at[i] # at[j]
    <3>1. j \in 1 .. p - 1 /\ i \in 0 .. j - 1
      BY <2>1, <2>2
    <3> QED BY <1>3, <3>1
  <2>3. \A i, j \in 0 .. p - 1 : i # j => at[i] # at[j]
    <3>1. SUFFICES ASSUME NEW i \in 0 .. p - 1, NEW j \in 0 .. p - 1, i # j PROVE at[i] # at[j]
      OBVIOUS
    <3>2. i < j \/ j < i
      BY <2>1, <3>1
    <3> QED BY <2>2, <3>2
  <2>4. f \in Bijection(0 .. p - 1, Seen(p))
    <3>1. f \in Surjection(0 .. p - 1, Seen(p))
      BY DEF Surjection
    <3>2. f \in [0 .. p - 1 -> Seen(p)] /\ \A i \in 0 .. p - 1 : f[i] = at[i]
      OBVIOUS
    <3> HIDE DEF f, Seen
    <3>3. f \in Injection(0 .. p - 1, Seen(p))
      BY <2>3, <3>2 DEF Injection, IsInjective
    <3> QED BY <3>1, <3>3 DEF Bijection
  <2>5. ExistsBijection(0 .. p - 1, Seen(p))
    BY <2>4 DEF ExistsBijection
  <2> QED BY <2>1, <2>5, FS_Bijection
<1>4. Again # {}
  <2>1. SUFFICES ASSUME Again = {} PROVE FALSE
    OBVIOUS
  <2>2. \A k \in 1 .. m : at[k] \notin Seen(k)
    BY <2>1
  <2>3. m + 1 \in 0 .. m + 1 /\ m + 1 <= n + 1 /\ (m + 1) - 1 = m
    BY <1>1 DEF m
  <2>4. Cardinality(Seen(m + 1)) = m + 1
    BY <1>3, <2>2, <2>3
  <2>5. Seen(m + 1) \subseteq S
    BY <1>1, <2>3
  <2>6. Cardinality(Seen(m + 1)) <= m
    BY <1>1, <2>5, FS_Subset DEF m
  <2> QED BY <1>1, <2>4, <2>6
<1>5. PICK p \in Again : \A q \in Again : p <= q
  <2>1. Again \subseteq Nat
    BY <1>1
  <2> QED BY <1>4, <2>1, LeastNumber
<1>6. p \in 1 .. m /\ at[p] \in Seen(p) /\ \A k \in 1 .. p - 1 : at[k] \notin Seen(k)
  <2>1. p \in 1 .. m /\ at[p] \in Seen(p)
    BY <1>5
  <2>2. ASSUME NEW k \in 1 .. p - 1, at[k] \in Seen(k) PROVE FALSE
    <3>1. k \in Again
      BY <1>1, <2>1, <2>2
    <3>2. p <= k
      BY <1>5, <3>1
    <3> QED BY <1>1, <2>1, <3>2
  <2> QED BY <2>1, <2>2
<1> HIDE DEF Again
<1>7. PICK j \in 0 .. p - 1 : at[p] = at[j]
  BY <1>6
<1>8. m <= n
  BY DEF m
<1>9. j = 0
  <2>1. SUFFICES ASSUME j # 0 PROVE FALSE
    OBVIOUS
  <2>2. /\ p - 1 \in 1 .. n /\ j - 1 \in 0 .. n /\ j \in 1 .. n /\ p \in 1 .. n
        /\ p - 1 \in 1 .. p - 1 /\ j - 1 \in 0 .. (p - 1) - 1 /\ p - 1 \in 0 .. n
    BY <1>1, <1>6, <1>7, <1>8, <2>1
  <2>3. at[p] = ring.next[at[p - 1]] /\ at[j] = ring.next[at[j - 1]]
    BY <1>1, <2>2
  <2>4. at[p - 1] = at[j - 1]
    <3>1. at[p - 1] \in S /\ at[j - 1] \in S
      BY <1>1, <2>2
    <3> QED BY <1>7, <1>2, <2>3, <3>1
  <2>5. at[p - 1] \in Seen(p - 1)
    BY <2>2, <2>4
  <2> QED BY <1>6, <2>2, <2>5
<1>10. at[p] = ring.head[x]
  BY <1>1, <1>7, <1>9
<1>11. Seen(p) = S
  <2>1. Seen(p) \in SUBSET S
    BY <1>1, <1>6, <1>8
  <2>2. at[0] \in Seen(p)
    BY <1>1, <1>6
  <2>3. ASSUME NEW b \in Seen(p) PROVE ring.next[b] \in Seen(p)
    <3>1. PICK i \in 0 .. p - 1 : b = at[i]
      OBVIOUS
    <3>2. i + 1 \in 1 .. n /\ (i + 1) - 1 = i
      BY <1>1, <1>6, <1>8
    <3>3. ring.next[b] = at[i + 1]
      BY <1>1, <3>1, <3>2
    <3>4. i + 1 = p \/ i + 1 \in 0 .. p - 1
      BY <1>1, <1>6
    <3> QED BY <1>1, <1>10, <2>2, <3>3, <3>4
  <2> HIDE DEF Seen
  <2> QED BY <2>1, <2>2, <2>3 DEF Whole, Circle
<1>12. p = m
  <2>1. p \in 0 .. m + 1 /\ p <= n + 1
    BY <1>1, <1>6, <1>8
  <2>2. Cardinality(Seen(p)) = p
    BY <1>3, <1>6, <2>1
  <2> QED BY <1>11, <2>2 DEF m
<1> QED BY <1>10, <1>11, <1>12 DEF m

\* What the invariant of the project says of a ring follows from the circle.
LEMMA WholeIsRing ==
  ASSUME NEW ring \in Ring, NEW x \in Nodes, NEW S \in SUBSET Blocks, Whole(ring, x, S)
  PROVE  IsRing(ring, x, S)
<1>1. CASE S = {}
  BY <1>1 DEF IsRing, Whole
<1>2. CASE S # {}
  <2>1. Cardinality(S) <= Cardinality(Blocks) /\ Cardinality(Blocks) \in Nat
    BY HeapAssumption, SomeBlocks, FS_Subset
  <2> QED BY <1>2, <2>1, ReachedWalks, WalkGoesRound DEF IsRing
<1> QED BY <1>1, <1>2

-----------------------------------------------------------------------------
(* Blocks go in and out of a circle.                                       *)

\* Every block of a circle has one before it.
LEMMA HasBefore ==
  ASSUME NEW next, NEW S, Circle(next, S), NEW b \in S
  PROVE  \E c \in S : next[c] = b
<1> DEFINE T == { next[c] : c \in S }
<1>1. T \in SUBSET S /\ T # {} /\ \A c \in T : next[c] \in T
  BY DEF Circle
<1>2. T = S
  BY <1>1 DEF Circle
<1> QED BY <1>2

\* The lists new are those in which RingsWith put b into the circle S of x.
Growth(new, ring, x, S, b) ==
  /\ ring \in Ring /\ x \in Nodes /\ S \in SUBSET Blocks /\ Whole(ring, x, S)
  /\ b \in Blocks \ S /\ new \in RingsWith(ring, x, b)

\* The list is a circle with one block more, and no other block is touched.
Grown(new, ring, x, S, b) ==
  /\ new \in Ring /\ Whole(new, x, S \cup {b})
  /\ \A y \in Nodes : y # x => new.head[y] = ring.head[y]
  /\ \A c \in Blocks \ (S \cup {b}) : new.next[c] = ring.next[c]

\* A block put behind the one that the list names leaves the list a circle.
LEMMA RingGrows ==
  ASSUME NEW new, NEW ring, NEW x, NEW S, NEW b, Growth(new, ring, x, S, b)
  PROVE  Grown(new, ring, x, S, b)
<1> USE DEF Growth, Grown
<1>1. /\ ring.head \in [Nodes -> Blocks \cup {None}] /\ ring.next \in [Blocks -> Blocks \cup {None}]
      /\ None \notin Blocks
  BY HeapAssumption DEF Ring
<1>2. CASE S = {}
  <2>1. /\ new.head = [ring.head EXCEPT ![x] = b] /\ new.next = [ring.next EXCEPT ![b] = b]
        /\ new = [head |-> new.head, next |-> new.next]
    BY <1>2 DEF RingsWith, Whole
  <2>2. new.head[x] = b /\ new.next[b] = b /\ S \cup {b} = {b}
    BY <1>1, <1>2, <2>1
  <2>3. Whole(new, x, {b})
    BY <2>2 DEF Whole, Circle
  <2>4. new \in Ring
    BY <1>1, <2>1 DEF Ring
  <2> QED BY <1>1, <2>1, <2>2, <2>3, <2>4
<1>3. CASE S # {}
  <2> DEFINE h == ring.head[x]
  <2>1. h \in S /\ h # None /\ h # b
    BY <1>1, <1>3 DEF Whole
  <2>2. PICK k \in {h, b} :
          new = [head |-> [ring.head EXCEPT ![x] = k],
                 next |-> [ring.next EXCEPT ![b] = ring.next[h], ![h] = b]]
    BY <2>1 DEF RingsWith
  <2> HIDE DEF h
  <2>3. /\ new.next[b] = ring.next[h] /\ new.next[h] = b /\ new.head[x] = k
        /\ \A c \in Blocks : c # b /\ c # h => new.next[c] = ring.next[c]
        /\ \A y \in Nodes : y # x => new.head[y] = ring.head[y]
    BY <1>1, <2>1, <2>2
  <2>4. new \in Ring
    BY <1>1, <2>1, <2>2 DEF Ring
  <2>5. /\ \A c \in S : ring.next[c] \in S
        /\ \A c, d \in S : ring.next[c] = ring.next[d] => c = d
        /\ \A T \in SUBSET S : T # {} /\ (\A c \in T : ring.next[c] \in T) => T = S
    BY DEF Whole, Circle
  <2>6. \A c \in S \cup {b} : new.next[c] \in S \cup {b}
    BY <2>1, <2>3, <2>5
  <2>7. \A c, d \in S \cup {b} : new.next[c] = new.next[d] => c = d
    <3>1. \A c \in S : c # h => new.next[c] = ring.next[c] /\ ring.next[c] \in S
      BY <2>3, <2>5
    <3>2. \A c \in S : ring.next[c] # b
      BY <2>5
    <3> QED BY <2>1, <2>3, <2>5, <3>1, <3>2
  <2>8. ASSUME NEW T \in SUBSET (S \cup {b}), T # {}, \A c \in T : new.next[c] \in T
        PROVE  T = S \cup {b}
    <3> DEFINE R == T \ {b}
    <3>1. R # {}
      <4>1. SUFFICES ASSUME T = {b} PROVE FALSE
        BY <2>8
      <4> QED BY <2>1, <2>3, <2>5, <2>8, <4>1
    <3>2. \A c \in R : ring.next[c] \in R
      <4>1. SUFFICES ASSUME NEW c \in R PROVE ring.next[c] \in R
        OBVIOUS
      <4>2. c \in S /\ ring.next[c] \in S /\ ring.next[c] # b
        BY <2>5
      <4>3. CASE c = h
        <5>1. b \in T
          BY <2>3, <2>8, <4>3
        <5>2. ring.next[h] \in T
          BY <2>3, <2>8, <5>1
        <5> QED BY <4>2, <4>3, <5>2
      <4>4. CASE c # h
        BY <2>3, <2>8, <4>2, <4>4
      <4> QED BY <4>3, <4>4
    <3>3. R = S
      BY <2>5, <3>1, <3>2
    <3>4. b \in T
      BY <2>1, <2>3, <2>8, <3>3
    <3> QED BY <3>3, <3>4
  <2>9. Whole(new, x, S \cup {b})
    <3>1. Circle(new.next, S \cup {b})
      BY <2>6, <2>7, <2>8 DEF Circle
    <3>2. new.head[x] \in S \cup {b}
      BY <2>1, <2>3
    <3> QED BY <3>1, <3>2 DEF Whole
  <2>10. \A c \in Blocks \ (S \cup {b}) : new.next[c] = ring.next[c]
    BY <2>1, <2>3
  <2> QED BY <2>3, <2>4, <2>9, <2>10
<1> QED BY <1>2, <1>3

\* The links new lead past b, which comes after a.
Bypass(new, next, S, a, b) ==
  /\ a \in S /\ b \in S /\ next[a] = b /\ a # b
  /\ new[a] = next[b] /\ \A c \in S : c # a /\ c # b => new[c] = next[c]

\* A circle without one of its blocks.
LEMMA CircleShrinks ==
  ASSUME NEW next, NEW S, NEW a, NEW b, NEW new, Circle(next, S), Bypass(new, next, S, a, b)
  PROVE  Circle(new, S \ {b}) /\ next[b] \in S \ {b}
<1>1. /\ a \in S /\ b \in S /\ next[a] = b /\ a # b
      /\ new[a] = next[b] /\ \A c \in S : c # a /\ c # b => new[c] = next[c]
  BY DEF Bypass
<1>2. /\ \A c \in S : next[c] \in S
      /\ \A c, d \in S : next[c] = next[d] => c = d
      /\ \A T \in SUBSET S : T # {} /\ (\A c \in T : next[c] \in T) => T = S
  BY DEF Circle
<1>3. next[b] \in S \ {b}
  BY <1>1, <1>2
<1>4. ASSUME NEW c \in S, c # a, c # b PROVE new[c] = next[c] /\ next[c] # b /\ next[c] # next[b]
  BY <1>1, <1>2, <1>4
<1>5. \A c \in S \ {b} : new[c] \in S \ {b}
  BY <1>1, <1>2, <1>3, <1>4
<1>6. \A c, d \in S \ {b} : new[c] = new[d] => c = d
  BY <1>1, <1>2, <1>4
<1>7. ASSUME NEW T \in SUBSET (S \ {b}), T # {}, \A c \in T : new[c] \in T
      PROVE  T = S \ {b}
  <2>1. CASE a \in T
    <3> DEFINE U == T \cup {b}
    <3>1. ASSUME NEW c \in U PROVE next[c] \in U
      BY <1>1, <1>4, <1>7, <2>1, <3>1
    <3>2. U \in SUBSET S /\ U # {}
      BY <1>1
    <3>3. U = S
      BY <1>2, <3>1, <3>2
    <3> QED BY <3>3
  <2>2. CASE a \notin T
    <3>1. \A c \in T : next[c] \in T
      BY <1>4, <1>7, <2>2
    <3>2. T = S
      BY <1>2, <1>7, <3>1
    <3> QED BY <1>1, <3>2
  <2> QED BY <2>1, <2>2
<1> QED BY <1>3, <1>5, <1>6, <1>7 DEF Circle

\* The dependencies of an owner, and those on a target.
Owns(e) == { b \in DOMAIN dep : dep[b].owner = e }
Targets(n) == { b \in DOMAIN dep : dep[b].target = n }

\* The three cases of RtlFreeDependencies take one block out of the target's ring
\* and touch no other.
LEMMA RingShrinks ==
  ASSUME incoming \in Ring, NEW n \in Natives,
         Targets(n) \in SUBSET Blocks, Whole(incoming, n, Targets(n)), NEW b \in Targets(n)
  PROVE  /\ Unlinked(n, b) \in Ring /\ Whole(Unlinked(n, b), n, Targets(n) \ {b})
         /\ \A y \in Nodes : y # n => Unlinked(n, b).head[y] = incoming.head[y]
         /\ \A c \in Blocks \ Targets(n) : Unlinked(n, b).next[c] = incoming.next[c]
<1>1. PICK S : S = Targets(n)
  OBVIOUS
<1>2. /\ S = { c \in DOMAIN dep : dep[c].target = n } /\ S \in SUBSET Blocks
      /\ Whole(incoming, n, S) /\ b \in S
  BY <1>1 DEF Targets
<1> SUFFICES /\ Unlinked(n, b) \in Ring /\ Whole(Unlinked(n, b), n, S \ {b})
             /\ \A y \in Nodes : y # n => Unlinked(n, b).head[y] = incoming.head[y]
             /\ \A c \in Blocks \ S : Unlinked(n, b).next[c] = incoming.next[c]
  BY <1>1
<1> USE <1>2
<1> DEFINE next == incoming.next
           new == Unlinked(n, b)
<1>3. /\ incoming.head \in [Nodes -> Blocks \cup {None}] /\ next \in [Blocks -> Blocks \cup {None}]
      /\ incoming = [head |-> incoming.head, next |-> next] /\ n \in Nodes
  BY DEF Ring, Nodes
<1>4. CASE next[b] = b
  <2>1. S = {b}
    <3>1. {b} \in SUBSET S /\ {b} # {} /\ \A c \in {b} : next[c] \in {b}
      BY <1>4
    <3> QED BY <3>1 DEF Whole, Circle
  <2>2. new = [incoming EXCEPT !.head[n] = None, !.next[b] = None]
    BY <1>4 DEF Unlinked
  <2>3. new = [head |-> [incoming.head EXCEPT ![n] = None], next |-> [next EXCEPT ![b] = None]]
    BY <1>3, <2>2
  <2>4. new.head[n] = None /\ S \ {b} = {}
    BY <1>3, <2>1, <2>3
  <2>5. Whole(new, n, S \ {b})
    BY <2>4 DEF Whole, Circle
  <2>6. new \in Ring
    BY <1>3, <2>3 DEF Ring
  <2> QED BY <1>3, <2>1, <2>3, <2>5, <2>6
<1>5. CASE next[b] # b
  <2> DEFINE a == CHOOSE c \in DOMAIN dep : dep[c].target = n /\ next[c] = b
  <2>1. a \in S /\ next[a] = b
    <3>1. Circle(next, S)
      BY DEF Whole
    <3>2. \E c \in S : next[c] = b
      BY <3>1, HasBefore
    <3> QED BY <3>2
  <2>2. a # b
    BY <1>5, <2>1
  <2>3. new = [head |-> [incoming.head EXCEPT ![n] = IF @ = b THEN next[b] ELSE @],
               next |-> [next EXCEPT ![a] = next[b], ![b] = None]]
    BY <1>5 DEF Unlinked
  <2> HIDE DEF a
  <2>4. /\ new.next[a] = next[b] /\ \A c \in Blocks : c # a /\ c # b => new.next[c] = next[c]
        /\ new.head[n] = (IF incoming.head[n] = b THEN next[b] ELSE incoming.head[n])
        /\ \A y \in Nodes : y # n => new.head[y] = incoming.head[y]
    BY <1>3, <2>1, <2>2, <2>3
  <2>5. new \in Ring
    BY <1>3, <2>1, <2>3 DEF Ring
  <2> HIDE DEF next, new
  <2>6. Circle(new.next, S \ {b}) /\ next[b] \in S \ {b}
    <3>1. Circle(next, S)
      BY DEF Whole, next
    <3>2. \A c \in S : c # a /\ c # b => new.next[c] = next[c]
      BY <2>4
    <3>3. Bypass(new.next, next, S, a, b)
      BY <2>1, <2>2, <2>4, <3>2 DEF Bypass
    <3> QED BY <3>1, <3>3, CircleShrinks
  <2>7. incoming.head[n] \in S
    BY DEF Whole
  <2>8. Whole(new, n, S \ {b})
    BY <2>4, <2>6, <2>7 DEF Whole
  <2> QED BY <2>1, <2>4, <2>5, <2>8 DEF next, new
<1> QED BY <1>4, <1>5

-----------------------------------------------------------------------------
(* The walk of RtlFreeDependencies.                                        *)

\* The blocks S are what is left of a circle that began at f, when the list now
\* begins at h: the links lead from h through all of them and to f.
Rest(next, S, h, f) ==
  /\ h \in S
  /\ \A b \in S : next[b] \in S \cup {f}
  /\ \A b, c \in S : next[b] = next[c] => b = c
  /\ \A b \in S : next[b] = h => h = f
  /\ \A T \in SUBSET S : h \in T /\ (\A b \in T : next[b] \in T \cup {f}) => T = S

\* In the beginning all of it is left.
LEMMA RestBegins ==
  ASSUME NEW ring, NEW x, NEW S, Whole(ring, x, S), S # {}
  PROVE  Rest(ring.next, S, ring.head[x], ring.head[x])
BY DEF Rest, Whole, Circle

\* The walk ends with the last block,
LEMMA RestEnds ==
  ASSUME NEW next, NEW S, NEW h, NEW f, Rest(next, S, h, f), next[h] = f
  PROVE  S = {h}
<1>1. {h} \in SUBSET S /\ h \in {h} /\ \A b \in {h} : next[b] \in {h} \cup {f}
  BY DEF Rest
<1> QED BY <1>1 DEF Rest

\* and before that the next block is the head of what is left.
LEMMA RestShrinks ==
  ASSUME NEW next, NEW S, NEW h, NEW f, Rest(next, S, h, f), next[h] # f,
         NEW new, \A b \in S : b # h => new[b] = next[b]
  PROVE  Rest(new, S \ {h}, next[h], f)
<1>1. /\ h \in S
      /\ \A b \in S : next[b] \in S \cup {f}
      /\ \A b, c \in S : next[b] = next[c] => b = c
      /\ \A b \in S : next[b] = h => h = f
      /\ \A T \in SUBSET S : h \in T /\ (\A b \in T : next[b] \in T \cup {f}) => T = S
  BY DEF Rest
<1>2. next[h] \in S \ {h}
  BY <1>1
<1>3. \A b \in S \ {h} : new[b] = next[b] /\ next[b] \in (S \ {h}) \cup {f} /\ next[b] # next[h]
  BY <1>1
<1>4. ASSUME NEW T \in SUBSET (S \ {h}), next[h] \in T, \A b \in T : new[b] \in T \cup {f}
      PROVE  T = S \ {h}
  <2> DEFINE U == T \cup {h}
  <2>1. U \in SUBSET S /\ h \in U
    BY <1>1
  <2>2. ASSUME NEW b \in U PROVE next[b] \in U \cup {f}
    BY <1>3, <1>4
  <2>3. U = S
    BY <1>1, <2>1, <2>2
  <2> QED BY <2>3
<1>5. \A b, c \in S \ {h} : new[b] = new[c] => b = c
  BY <1>1, <1>3
<1> QED BY <1>2, <1>3, <1>4, <1>5 DEF Rest

\* The owner's mark on the walk through the target's ring is found at the block
\* that the owner's own list names: ntdll records each target once.
LEMMA FindsItsBlock ==
  ASSUME incoming \in Ring,
         NEW n \in Natives, NEW e \in Entries,
         Targets(n) \in SUBSET Blocks, Whole(incoming, n, Targets(n)),
         \A b, c \in DOMAIN dep : dep[b].owner = dep[c].owner /\ dep[b].target = dep[c].target
                                  => b = c,
         NEW b \in Targets(n), dep[b].owner = e
  PROVE  OwnBlock(n, e) = b
<1> DEFINE at == Reached(incoming, n)
           N == Cardinality(Blocks)
           S == Targets(n)
           hits == { k \in DOMAIN at : at[k] # None /\ dep[at[k]].owner = e }
           found == CHOOSE k \in hits : \A j \in hits : k <= j
<1>1. /\ S # {} /\ S \subseteq Blocks /\ n \in Nodes
      /\ N \in Nat /\ IsFiniteSet(S) /\ Cardinality(S) \in Nat /\ Cardinality(S) <= N
      /\ Cardinality(S) # 0
  <2>1. N \in Nat /\ IsFiniteSet(Blocks) /\ IsFiniteSet(S) /\ Cardinality(S) \in Nat
    BY SomeBlocks, HeapAssumption
  <2>2. Cardinality(S) <= N
    BY <2>1, FS_Subset
  <2> QED BY <2>1, <2>2, FS_EmptySet DEF Nodes
<1>2. at \in Walks(incoming, n, N)
  BY <1>1, ReachedWalks
<1>3. DOMAIN at = 0 .. N
  BY <1>2 DEF Walks
<1>4. \A k \in 0 .. N : at[k] \in S
  BY <1>1, <1>2, WalkStays
<1>5. { at[k] : k \in 0 .. Cardinality(S) - 1 } = S
  BY <1>1, <1>2, WalkGoesRound
<1> HIDE DEF at, N
<1>6. PICK k \in 0 .. Cardinality(S) - 1 : at[k] = b
  BY <1>5
<1>7. b # None
  BY <1>1, HeapAssumption
<1>8. k \in hits /\ hits \subseteq Nat
  BY <1>1, <1>3, <1>6, <1>7
<1>9. \E i \in hits : \A j \in hits : i <= j
  BY <1>8, LeastNumber
<1>10. found \in hits
  BY <1>9, Zenon
<1>11. at[found] \in S /\ dep[at[found]].owner = e
  BY <1>3, <1>4, <1>10
<1>12. at[found] = b
  BY <1>11 DEF Targets
<1> QED BY <1>12 DEF OwnBlock, at

-----------------------------------------------------------------------------
(* The inductive invariant.                                                *)

Freeing(e) == call.pc \in {"dependencies", "release"} /\ call.entry = e

\* The dependencies in the ring of n.
Hooked(n) == Targets(n) \ Unhooked

\* Every list of dependencies is one circle, but the one that is being freed, and
\* ntdll records a target once for an owner.
RingInv ==
  /\ \A b, c \in DOMAIN dep : dep[b].owner = dep[c].owner /\ dep[b].target = dep[c].target => b = c
  /\ \A n \in Natives : Whole(incoming, n, Hooked(n))
  /\ \A e \in Entries : IF Freeing(e) THEN Rest(owned.next, Owns(e), owned.head[e], call.first)
                                      ELSE Whole(owned, e, Owns(e))

\* The entry that is made or taken apart is allocated and not in the host's hands.
CallInv ==
  /\ mapped \subseteq live
  /\ call.pc # "idle" => call.entry \in (live \cap Entries) \ mapped

\* The counts l and d of x loads by the host and t dependencies: dependencies have a
\* count of their own up to Windows 8.
Tally(w, l, d, x, t) ==
  /\ w < Ten => d = t /\ l = x
  /\ ~(w < Ten) => d = 0 /\ l = x + t

Counts(n) ==
  /\ Tally(os, load[n], depCount[n], explicit[n], Cardinality(Targets(n)))
  /\ n \in live <=> load[n] + depCount[n] > 0

CountInv == \A n \in Natives : Counts(n)

IInv == TypeOK /\ RingInv /\ CallInv /\ CountInv /\ FastFailsOnCycleOnly

-----------------------------------------------------------------------------
(* Sequences.                                                              *)

\* What InsertAt puts where.
LEMMA InsertItem ==
  ASSUME NEW S, NEW s \in Seq(S), NEW i \in 1 .. Len(s) + 1, NEW x \in S
  PROVE  /\ InsertAt(s, i, x) \in Seq(S)
         /\ Len(InsertAt(s, i, x)) = Len(s) + 1
         /\ \A j \in 1 .. Len(s) + 1 :
              InsertAt(s, i, x)[j] = IF j < i THEN s[j] ELSE IF j = i THEN x ELSE s[j - 1]
<1> DEFINE front == SubSeq(s, 1, i - 1)
           back  == SubSeq(s, i, Len(s))
           start == front \o <<x>>
<1>1. Len(s) \in Nat /\ i \in Nat /\ 1 <= i /\ i <= Len(s) + 1
  OBVIOUS
<1>2. front \in Seq(S) /\ Len(front) = i - 1 /\ \A j \in 1 .. i - 1 : front[j] = s[j]
  BY <1>1
<1>3. back \in Seq(S) /\ Len(back) = Len(s) + 1 - i
        /\ \A j \in 1 .. Len(s) + 1 - i : back[j] = s[j + i - 1]
  BY <1>1
<1>4. InsertAt(s, i, x) = start \o back
  BY DEF InsertAt
<1> HIDE DEF front, back
<1>5. start \in Seq(S) /\ Len(start) = i /\ start[i] = x /\ \A j \in 1 .. i - 1 : start[j] = s[j]
  BY <1>1, <1>2
<1> HIDE DEF start
<1>6. start \o back \in Seq(S) /\ Len(start \o back) = Len(s) + 1
  <2>1. start \o back \in Seq(S) /\ Len(start \o back) = Len(start) + Len(back)
    BY <1>3, <1>5, ConcatProperties
  <2> QED BY <2>1, <1>1, <1>3, <1>5
<1>7. ASSUME NEW j \in 1 .. Len(s) + 1
      PROVE  (start \o back)[j] = IF j < i THEN s[j] ELSE IF j = i THEN x ELSE s[j - 1]
  <2>1. CASE j <= i
    <3>1. (start \o back)[j] = start[j]
      BY <2>1, <1>1, <1>3, <1>5
    <3> QED BY <3>1, <2>1, <1>1, <1>5
  <2>2. CASE ~(j <= i)
    <3>1. (start \o back)[j] = back[j - i]
      BY <2>2, <1>1, <1>3, <1>5
    <3>2. j - i \in 1 .. Len(s) + 1 - i /\ (j - i) + i - 1 = j - 1
      BY <2>2, <1>1
    <3> QED BY <3>1, <3>2, <1>3, <2>2
  <2> QED BY <2>1, <2>2
<1> QED BY <1>4, <1>6, <1>7

\* What RemoveAt leaves where.
LEMMA EraseItem ==
  ASSUME NEW S, NEW s \in Seq(S), NEW i \in 1 .. Len(s)
  PROVE  /\ RemoveAt(s, i) \in Seq(S)
         /\ Len(RemoveAt(s, i)) = Len(s) - 1
         /\ \A j \in 1 .. Len(s) - 1 :
              RemoveAt(s, i)[j] = IF j < i THEN s[j] ELSE s[j + 1]
<1> DEFINE front == SubSeq(s, 1, i - 1)
           back  == SubSeq(s, i + 1, Len(s))
<1>1. Len(s) \in Nat /\ i \in Nat /\ 1 <= i /\ i <= Len(s)
  OBVIOUS
<1>2. front \in Seq(S) /\ Len(front) = i - 1 /\ \A j \in 1 .. i - 1 : front[j] = s[j]
  BY <1>1
<1>3. back \in Seq(S) /\ Len(back) = Len(s) - i
        /\ \A j \in 1 .. Len(s) - i : back[j] = s[j + i]
  BY <1>1
<1>4. RemoveAt(s, i) = front \o back
  BY DEF RemoveAt
<1> HIDE DEF front, back
<1>5. front \o back \in Seq(S) /\ Len(front \o back) = Len(s) - 1
  <2>1. front \o back \in Seq(S) /\ Len(front \o back) = Len(front) + Len(back)
    BY <1>2, <1>3, ConcatProperties
  <2> QED BY <2>1, <1>1, <1>2, <1>3
<1>6. ASSUME NEW j \in 1 .. Len(s) - 1
      PROVE  (front \o back)[j] = IF j < i THEN s[j] ELSE s[j + 1]
  <2>1. CASE j < i
    BY <2>1, <1>1, <1>2, <1>3
  <2>2. CASE ~(j < i)
    <3>1. (front \o back)[j] = back[j - (i - 1)]
      BY <2>2, <1>1, <1>2, <1>3
    <3>2. j - (i - 1) \in 1 .. Len(s) - i /\ (j - (i - 1)) + i = j + 1
      BY <2>2, <1>1
    <3> QED BY <3>1, <3>2, <1>3, <2>2
  <2> QED BY <2>1, <2>2
<1> QED BY <1>4, <1>5, <1>6

\* RemoveFirst leaves the sequence alone or takes out one item that equals x, the
\* first.
LEMMA RemoveItem ==
  ASSUME NEW S, NEW s \in Seq(S), NEW x
  PROVE  \/ RemoveFirst(s, x) = s /\ \A i \in 1 .. Len(s) : s[i] # x
         \/ \E i \in 1 .. Len(s) : s[i] = x /\ RemoveFirst(s, x) = RemoveAt(s, i)
<1> DEFINE I == { i \in 1 .. Len(s) : s[i] = x }
<1>1. Len(s) \in Nat
  OBVIOUS
<1>2. CASE I = {}
  BY <1>2 DEF RemoveFirst
<1>3. CASE I # {}
  <2>1. I \subseteq Nat
    BY <1>1
  <2>2. \E i \in I : \A j \in I : i <= j
    BY <1>3, <2>1, LeastNumber
  <2>3. Min(I) \in I
    BY <2>2, Zenon DEF Min
  <2>4. RemoveFirst(s, x) = RemoveAt(s, Min(I))
    BY <1>3, <2>3 DEF RemoveFirst, SelectInSeq
  <2> QED BY <2>3, <2>4
<1> QED BY <1>2, <1>3

\* What goes into a sequence, or out of it, leaves its items what they were.
LEMMA SequencesTyped ==
  ASSUME NEW S, NEW s \in Seq(S), NEW x
  PROVE  /\ RemoveFirst(s, x) \in Seq(S)
         /\ x \in S => \A g \in 1 .. Len(s) + 1 : InsertAt(s, g, x) \in Seq(S)
<1>1. RemoveFirst(s, x) \in Seq(S)
  BY RemoveItem, EraseItem
<1>2. x \in S => \A g \in 1 .. Len(s) + 1 : InsertAt(s, g, x) \in Seq(S)
  BY InsertItem
<1> QED BY <1>1, <1>2

-----------------------------------------------------------------------------
(* Steps.                                                                  *)

\* The types of what ntdll's unloading changes.
LEMMA SettledTyped ==
  ASSUME TypeOK, NEW n \in Natives, NEW l \in Nat, NEW d \in Nat, Settled(n, l, d)
  PROVE  /\ load' = [load EXCEPT ![n] = l] /\ depCount' = [depCount EXCEPT ![n] = d]
         /\ load' \in [Natives -> Nat] /\ depCount' \in [Natives -> Nat]
         /\ live' \subseteq live /\ live \subseteq live' \cup {n}
         /\ (n \in live' <=> n \in live /\ l + d > 0)
         /\ modules' \subseteq modules
         /\ base' \in [Nodes -> Bases \cup {0}] /\ tree' \in Seq(Nodes)
<1>1. /\ load' = [load EXCEPT ![n] = l] /\ depCount' = [depCount EXCEPT ![n] = d]
      /\ load' \in [Natives -> Nat] /\ depCount' \in [Natives -> Nat]
  BY DEF Settled, TypeOK
<1>2. CASE l = 0 /\ d = 0
  <2>1. /\ live' = live \ {n} /\ modules' = modules \ {n}
        /\ tree' = RemoveFirst(tree, n) /\ base' = [base EXCEPT ![n] = 0]
    BY <1>2 DEF Settled
  <2>2. tree' \in Seq(Nodes)
    BY <2>1, SequencesTyped DEF TypeOK
  <2>3. base' \in [Nodes -> Bases \cup {0}]
    BY <2>1 DEF TypeOK
  <2>4. ~(l + d > 0) /\ n \notin live' /\ live' \subseteq live /\ live \subseteq live' \cup {n}
    BY <1>2, <2>1
  <2> QED BY <1>1, <2>1, <2>2, <2>3, <2>4
<1>3. CASE ~(l = 0 /\ d = 0)
  <2>1. UNCHANGED <<live, base, modules, tree>>
    BY <1>3 DEF Settled, treeVars
  <2>2. l + d > 0
    BY <1>3
  <2> QED BY <1>1, <2>1, <2>2 DEF TypeOK
<1> QED BY <1>2, <1>3

\* The rings, the marks and the walk are typed.
LEMMA RingsTyped ==
  ASSUME NEW ring \in Ring, NEW x \in Nodes, NEW b \in Blocks, NEW new \in RingsWith(ring, x, b)
  PROVE  new \in Ring
<1>1. ring.head \in [Nodes -> Blocks \cup {None}] /\ ring.next \in [Blocks -> Blocks \cup {None}]
  BY DEF Ring
<1>2. CASE ring.head[x] = None
  <2>1. new = [head |-> [ring.head EXCEPT ![x] = b], next |-> [ring.next EXCEPT ![b] = b]]
    BY <1>2 DEF RingsWith
  <2> QED BY <1>1, <2>1 DEF Ring
<1>3. CASE ring.head[x] # None
  <2> DEFINE h == ring.head[x]
  <2>1. PICK k \in {h, b} :
          new = [head |-> [ring.head EXCEPT ![x] = k],
                 next |-> [ring.next EXCEPT ![b] = ring.next[h], ![h] = b]]
    BY <1>3 DEF RingsWith
  <2>2. h \in Blocks
    BY <1>1, <1>3
  <2> HIDE DEF h
  <2> QED BY <1>1, <2>1, <2>2 DEF Ring
<1> QED BY <1>2, <1>3

\* What the blocks of a list can be.
LEMMA BlocksTyped ==
  ASSUME TypeOK
  PROVE  /\ \A e : Owns(e) \in SUBSET Blocks /\ IsFiniteSet(Owns(e))
         /\ \A n : Targets(n) \in SUBSET Blocks /\ IsFiniteSet(Targets(n))
                   /\ Cardinality(Targets(n)) \in Nat
<1>1. \A e : Owns(e) \in SUBSET Blocks
  BY DEF Owns, TypeOK
<1>2. \A n : Targets(n) \in SUBSET Blocks
  BY DEF Targets, TypeOK
<1> QED BY <1>1, <1>2, HeapAssumption, FS_Subset, FS_CardinalityType

CallState == [pc : {"idle", "index", "ddag", "fields", "link", "dependencies", "release",
                    "remove"},
              entry : Entries \cup {None}, at : Bases \cup {0}, first : Blocks \cup {None}]

\* The fields of the call.
LEMMA CallTyped == TypeOK => call \in CallState /\ Idle \in CallState
BY DEF TypeOK, Idle, CallState

\* What RtlFreeDependencies works on: the owner's first block, which is the block that
\* it finds in the target's ring.
LEMMA FreesBlock ==
  ASSUME IInv, call.pc \in {"dependencies", "release"},
         NEW e, e = call.entry, NEW b, b = Current, NEW n, n = Target
  PROVE  /\ e \in Entries /\ b \in Owns(e) /\ b \in Targets(n) /\ n \in Natives /\ b \in Blocks
         /\ Freeing(e) /\ e \in Nodes /\ b = owned.head[e]
         /\ Rest(owned.next, Owns(e), b, call.first)
         /\ call.pc = "dependencies" => /\ OwnBlock(n, e) = b
                                        /\ \A m : Hooked(m) = Targets(m)
         /\ call.pc = "release" => Unhooked = {b}
<1>1. e \in Entries /\ Freeing(e) /\ b = owned.head[e]
  BY DEF IInv, CallInv, Freeing, Current
<1>2. Rest(owned.next, Owns(e), b, call.first)
  BY <1>1 DEF IInv, RingInv
<1>3. b \in Owns(e) /\ b \in DOMAIN dep /\ dep[b].owner = e /\ n = dep[b].target
  BY <1>2 DEF Rest, Owns, Target
<1>4. n \in Natives /\ b \in Blocks /\ b \in Targets(n)
  BY <1>3 DEF IInv, TypeOK, Targets
<1>5. ASSUME call.pc = "dependencies"
      PROVE  OwnBlock(n, e) = b /\ \A m : Hooked(m) = Targets(m)
  <2>1. TypeOK /\ RingInv
    BY DEF IInv
  <2>2. \A m : Hooked(m) = Targets(m)
    BY <1>5 DEF Hooked, Unhooked
  <2>3. incoming \in Ring /\ Targets(n) \in SUBSET Blocks
    BY <2>1, BlocksTyped DEF TypeOK
  <2>4. /\ Whole(incoming, n, Targets(n))
        /\ \A c, d \in DOMAIN dep : dep[c].owner = dep[d].owner /\ dep[c].target = dep[d].target
                                    => c = d
    BY <1>4, <2>1, <2>2 DEF RingInv
  <2> QED BY <1>1, <1>3, <1>4, <2>2, <2>3, <2>4, FindsItsBlock
<1>6. call.pc = "release" => Unhooked = {b}
  BY <1>3 DEF Unhooked
<1> QED BY <1>1, <1>2, <1>3, <1>4, <1>5, <1>6 DEF Nodes

\* A step that leaves the lists alone keeps them whole, if it starts no walk.
LEMMA RingsKept ==
  ASSUME RingInv, UNCHANGED ringVars,
         \/ UNCHANGED call
         \/ /\ call.pc \notin {"dependencies", "release"}
            /\ call'.pc \notin {"dependencies", "release"}
  PROVE  RingInv'
<1>1. /\ \A n : Targets(n)' = Targets(n) /\ \A e : Owns(e)' = Owns(e)
      /\ owned' = owned /\ incoming' = incoming /\ dep' = dep
  BY DEF ringVars, Targets, Owns
<1>2. \A e : Freeing(e)' <=> Freeing(e)
  BY DEF Freeing
<1>3. \A e : Freeing(e) => call'.first = call.first
  BY DEF Freeing
<1>4. Unhooked' = Unhooked
  BY <1>1 DEF Unhooked, Current
<1>5. \A n : Hooked(n)' = Hooked(n)
  BY <1>1, <1>4 DEF Hooked
<1>6. \A n \in Natives : Whole(incoming, n, Hooked(n))'
  BY <1>1, <1>5 DEF RingInv, Whole
<1>7. ASSUME NEW e \in Entries
      PROVE  IF Freeing(e)' THEN Rest(owned.next, Owns(e), owned.head[e], call.first)'
                            ELSE Whole(owned, e, Owns(e))'
  <2>1. CASE Freeing(e)
    BY <1>1, <1>2, <1>3, <2>1 DEF RingInv
  <2>2. CASE ~Freeing(e)
    BY <1>1, <1>2, <2>2 DEF RingInv, Whole
  <2> QED BY <2>1, <2>2
<1> QED BY <1>1, <1>6, <1>7 DEF RingInv

\* A circle depends on the list's head and on the links of its own blocks.
LEMMA WholeElsewhere ==
  ASSUME NEW ring, NEW new, NEW x, NEW S, Whole(ring, x, S),
         new.head[x] = ring.head[x], \A b \in S : new.next[b] = ring.next[b]
  PROVE  Whole(new, x, S)
<1>1. Circle(new.next, S)
  BY DEF Whole, Circle
<1> QED BY <1>1 DEF Whole

\* What is left of a circle depends on its own links.
LEMMA RestElsewhere ==
  ASSUME NEW next, NEW new, NEW S, NEW h, NEW f, Rest(next, S, h, f),
         \A b \in S : new[b] = next[b]
  PROVE  Rest(new, S, h, f)
BY DEF Rest

\* A recorded dependency enters two circles, the owner's and the target's.
LEMMA RecordDependencyRings ==
  ASSUME IInv, NEW e \in Entries, NEW n \in Natives, NEW b \in Blocks, RecordDependency(e, n, b)
  PROVE  RingInv'
<1>1. /\ e \in mapped /\ b \notin DOMAIN dep
      /\ \A c \in DOMAIN dep : dep[c] # [owner |-> e, target |-> n]
      /\ owned' \in RingsWith(owned, e, b) /\ incoming' \in RingsWith(incoming, n, b)
      /\ dep' = [c \in DOMAIN dep \cup {b} |->
                   IF c = b THEN [owner |-> e, target |-> n] ELSE dep[c]]
      /\ UNCHANGED call
  BY DEF RecordDependency
<1>2. TypeOK /\ RingInv /\ CallInv
  BY DEF IInv
<1>3. ~Freeing(e) /\ \A f : Freeing(f)' <=> Freeing(f)
  BY <1>1, <1>2 DEF Freeing, CallInv
<1>4. /\ DOMAIN dep' = DOMAIN dep \cup {b} /\ dep'[b] = [owner |-> e, target |-> n]
      /\ \A c \in DOMAIN dep : dep'[c] = dep[c] /\ c # b
  BY <1>1
<1>5. /\ Owns(e)' = Owns(e) \cup {b} /\ \A f : f # e => Owns(f)' = Owns(f)
      /\ Targets(n)' = Targets(n) \cup {b} /\ \A m : m # n => Targets(m)' = Targets(m)
      /\ \A f : b \notin Owns(f) /\ b \notin Targets(f)
  BY <1>1, <1>4 DEF Owns, Targets
<1>6. /\ e \in Nodes /\ n \in Nodes /\ Entries \subseteq Nodes /\ Natives \subseteq Nodes
      /\ owned \in Ring /\ incoming \in Ring
  BY <1>2 DEF Nodes, TypeOK
<1>7. (\A f : Owns(f) \in SUBSET Blocks) /\ (\A m : Targets(m) \in SUBSET Blocks)
  BY <1>2, BlocksTyped
<1>8. /\ Whole(owned', e, Owns(e) \cup {b})
      /\ (\A y \in Nodes : y # e => owned'.head[y] = owned.head[y])
      /\ \A c \in Blocks \ (Owns(e) \cup {b}) : owned'.next[c] = owned.next[c]
  <2>1. Whole(owned, e, Owns(e))
    BY <1>2, <1>3 DEF RingInv
  <2>2. Growth(owned', owned, e, Owns(e), b)
    BY <1>1, <1>5, <1>6, <1>7, <2>1 DEF Growth
  <2>3. Grown(owned', owned, e, Owns(e), b)
    BY <2>2, RingGrows
  <2> QED BY <2>3 DEF Grown
<1>9. Unhooked' = Unhooked /\ b \notin Unhooked
  <2>1. CASE call.pc # "release"
    BY <1>1, <2>1 DEF Unhooked
  <2>2. CASE call.pc = "release"
    <3>1. /\ call.entry \in Entries /\ call.entry # e /\ Current \in DOMAIN dep
          /\ Unhooked = {Current}
      <4>1. Current \in Owns(call.entry) /\ call.entry \in Entries /\ Unhooked = {Current}
        BY <2>2, FreesBlock
      <4>2. call.entry \notin mapped
        BY <1>2, <2>2 DEF CallInv
      <4> QED BY <1>1, <4>1, <4>2 DEF Owns
    <3>2. owned'.head[call.entry] = owned.head[call.entry]
      BY <1>6, <1>8, <3>1
    <3>3. Current' = Current
      BY <1>1, <3>2 DEF Current
    <3>4. Unhooked' = {Current}
      BY <1>1, <1>4, <2>2, <3>1, <3>3 DEF Unhooked
    <3> QED BY <1>1, <3>1, <3>4
  <2> QED BY <2>1, <2>2
<1>10. /\ Hooked(n)' = Hooked(n) \cup {b} /\ \A m : m # n => Hooked(m)' = Hooked(m)
       /\ (\A m : Hooked(m) \in SUBSET Blocks) /\ \A m : b \notin Hooked(m)
  BY <1>5, <1>7, <1>9 DEF Hooked
<1>11. /\ Whole(incoming', n, Hooked(n) \cup {b})
      /\ \A y \in Nodes : y # n => incoming'.head[y] = incoming.head[y]
      /\ \A c \in Blocks \ (Hooked(n) \cup {b}) : incoming'.next[c] = incoming.next[c]
  <2>1. Whole(incoming, n, Hooked(n))
    BY <1>2 DEF RingInv
  <2>2. /\ Hooked(n) \in SUBSET Blocks /\ b \in Blocks \ Hooked(n)
        /\ incoming \in Ring /\ n \in Nodes /\ incoming' \in RingsWith(incoming, n, b)
    BY <1>1, <1>6, <1>10
  <2>3. Growth(incoming', incoming, n, Hooked(n), b)
    BY <2>1, <2>2 DEF Growth
  <2>4. Grown(incoming', incoming, n, Hooked(n), b)
    BY <2>3, RingGrows
  <2> QED BY <2>4 DEF Grown
<1>12. ASSUME NEW m \in Natives PROVE Whole(incoming', m, Hooked(m)')
  <2>1. CASE m = n
    BY <1>11, <1>10, <2>1
  <2>2. CASE m # n
    <3>1. Whole(incoming, m, Hooked(m)) /\ Hooked(m)' = Hooked(m)
      BY <1>2, <1>10, <2>2 DEF RingInv
    <3>2. \A c \in Hooked(m) : c \in Blocks \ (Hooked(n) \cup {b})
      BY <1>7, <1>10, <2>2 DEF Hooked, Targets
    <3>3. /\ incoming'.head[m] = incoming.head[m]
          /\ \A c \in Hooked(m) : incoming'.next[c] = incoming.next[c]
      BY <1>6, <1>11, <2>2, <3>2
    <3> QED BY <3>1, <3>3, WholeElsewhere
  <2> QED BY <2>1, <2>2
<1>13. ASSUME NEW f \in Entries
       PROVE  IF Freeing(f)' THEN Rest(owned'.next, Owns(f)', owned'.head[f], call'.first)
                             ELSE Whole(owned', f, Owns(f)')
  <2>1. CASE f = e
    BY <1>3, <1>5, <1>8, <2>1
  <2>2. CASE f # e
    <3>1. Owns(f)' = Owns(f) /\ call' = call
      BY <1>1, <1>5, <2>2
    <3>2. \A c \in Owns(f) : c \in Blocks \ (Owns(e) \cup {b})
      BY <1>5, <1>7, <2>2 DEF Owns
    <3>3. owned'.head[f] = owned.head[f] /\ \A c \in Owns(f) : owned'.next[c] = owned.next[c]
      BY <1>6, <1>8, <2>2, <3>2
    <3>4. CASE Freeing(f)
      <4>1. Rest(owned.next, Owns(f), owned.head[f], call.first)
        BY <1>2, <3>4 DEF RingInv
      <4>2. Rest(owned'.next, Owns(f), owned.head[f], call.first)
        BY <3>3, <4>1, RestElsewhere
      <4> QED BY <1>3, <3>1, <3>3, <3>4, <4>2
    <3>5. CASE ~Freeing(f)
      <4>1. Whole(owned, f, Owns(f))
        BY <1>2, <3>5 DEF RingInv
      <4>2. Whole(owned', f, Owns(f))
        BY <3>3, <4>1, WholeElsewhere
      <4> QED BY <1>3, <3>1, <3>5, <4>2
    <3> QED BY <3>4, <3>5
  <2> QED BY <2>1, <2>2
<1>14. \A c, d \in DOMAIN dep' :
         dep'[c].owner = dep'[d].owner /\ dep'[c].target = dep'[d].target => c = d
  <2>1. \A c \in DOMAIN dep : ~(dep[c].owner = e /\ dep[c].target = n)
    <3>1. \A c \in DOMAIN dep : dep[c] \in [owner : Entries, target : Natives]
      BY <1>2 DEF TypeOK
    <3> QED BY <1>1, <3>1
  <2>2. \A c, d \in DOMAIN dep :
           dep[c].owner = dep[d].owner /\ dep[c].target = dep[d].target => c = d
    BY <1>2 DEF RingInv
  <2> QED BY <1>4, <2>1, <2>2
<1> QED BY <1>12, <1>13, <1>14 DEF RingInv

\* The first half of a round: the owner's block goes out of the circle of its target.
LEMMA UnlinkDependencyRings ==
  ASSUME IInv, UnlinkDependency
  PROVE  RingInv'
<1>1. PICK e, b, n : e = call.entry /\ b = Current /\ n = Target
  OBVIOUS
<1>2. /\ call.pc = "dependencies" /\ incoming' = Unlinked(n, OwnBlock(n, e))
      /\ call' = [call EXCEPT !.pc = "release"] /\ UNCHANGED <<owned, dep>>
  BY <1>1 DEF UnlinkDependency
<1>3. /\ e \in Entries /\ b \in Owns(e) /\ b \in Targets(n) /\ n \in Natives /\ b \in Blocks
      /\ OwnBlock(n, e) = b /\ \A m : Hooked(m) = Targets(m)
  BY <1>1, <1>2, FreesBlock
<1>4. TypeOK /\ RingInv /\ call \in CallState
  BY CallTyped DEF IInv
<1>5. call'.pc = "release" /\ call'.entry = e /\ call'.first = call.first
  BY <1>1, <1>2, <1>4 DEF CallState
<1>6. (\A m : Targets(m)' = Targets(m)) /\ \A f : Owns(f)' = Owns(f)
  BY <1>2 DEF Targets, Owns
<1>7. Unhooked' = {b}
  <2>1. Current' = b /\ b \in DOMAIN dep
    BY <1>1, <1>2, <1>3, <1>5 DEF Current, Targets
  <2> QED BY <1>2, <1>5, <2>1 DEF Unhooked
<1>8. Hooked(n)' = Targets(n) \ {b} /\ \A m : m # n => Hooked(m)' = Targets(m)
  BY <1>3, <1>6, <1>7 DEF Hooked, Targets
<1>9. \A m : Targets(m) \in SUBSET Blocks
  BY <1>4, BlocksTyped
<1>10. /\ Whole(incoming', n, Targets(n) \ {b})
       /\ \A y \in Nodes : y # n => incoming'.head[y] = incoming.head[y]
       /\ \A c \in Blocks \ Targets(n) : incoming'.next[c] = incoming.next[c]
  <2>1. /\ Whole(incoming, n, Targets(n)) /\ incoming \in Ring
        /\ Targets(n) \in SUBSET Blocks /\ b \in Targets(n) /\ n \in Natives
    BY <1>3, <1>4, <1>9 DEF RingInv, TypeOK
  <2> QED BY <1>2, <1>3, <2>1, RingShrinks
<1>11. ASSUME NEW m \in Natives PROVE Whole(incoming', m, Hooked(m)')
  <2>1. CASE m = n
    BY <1>8, <1>10, <2>1
  <2>2. CASE m # n
    <3>1. Whole(incoming, m, Targets(m))
      BY <1>3, <1>4 DEF RingInv
    <3>2. \A c \in Targets(m) : c \in Blocks \ Targets(n)
      BY <1>9, <2>2 DEF Targets
    <3>3. /\ incoming'.head[m] = incoming.head[m]
          /\ \A c \in Targets(m) : incoming'.next[c] = incoming.next[c]
      BY <1>10, <2>2, <3>2 DEF Nodes
    <3> QED BY <1>8, <2>2, <3>1, <3>3, WholeElsewhere
  <2> QED BY <2>1, <2>2
<1>12. \A f : Freeing(f)' <=> Freeing(f)
  BY <1>1, <1>2, <1>5 DEF Freeing
<1>13. ASSUME NEW f \in Entries
       PROVE  IF Freeing(f)' THEN Rest(owned'.next, Owns(f)', owned'.head[f], call'.first)
                             ELSE Whole(owned', f, Owns(f)')
  BY <1>2, <1>4, <1>5, <1>6, <1>12 DEF RingInv
<1> QED BY <1>2, <1>4, <1>11, <1>13 DEF RingInv

\* The second half: the owner's block is left behind.
LEMMA ReleaseDependencyRings ==
  ASSUME IInv, ReleaseDependency
  PROVE  RingInv'
<1>1. PICK e, b, n, next : e = call.entry /\ b = Current /\ n = Target /\ next = owned.next[b]
  OBVIOUS
<1>2. /\ call.pc = "release"
      /\ dep' = [c \in DOMAIN dep \ {b} |-> dep[c]] /\ UNCHANGED incoming
      /\ owned' = [owned EXCEPT !.head[e] = IF next = call.first THEN None ELSE next,
                                !.next[b] = None]
      /\ call' = [call EXCEPT !.pc = IF next = call.first THEN "remove" ELSE "dependencies"]
  BY <1>1 DEF ReleaseDependency
<1>3. /\ e \in Entries /\ b \in Owns(e) /\ b \in Targets(n) /\ n \in Natives /\ b \in Blocks
      /\ Freeing(e) /\ e \in Nodes /\ Unhooked = {b}
      /\ Rest(owned.next, Owns(e), b, call.first)
  BY <1>1, <1>2, FreesBlock
<1>4. TypeOK /\ RingInv /\ call \in CallState
  BY CallTyped DEF IInv
<1>5. /\ owned.head \in [Nodes -> Blocks \cup {None}]
      /\ owned.next \in [Blocks -> Blocks \cup {None}]
      /\ owned = [head |-> owned.head, next |-> owned.next]
      /\ \A f \in Entries : f \in Nodes
  BY <1>4 DEF TypeOK, Ring, Nodes
<1>6. /\ owned'.head = [owned.head EXCEPT ![e] = IF next = call.first THEN None ELSE next]
      /\ owned'.next = [owned.next EXCEPT ![b] = None]
  BY <1>2, <1>5
<1>7. /\ owned'.head[e] = (IF next = call.first THEN None ELSE next)
      /\ \A f \in Entries : f # e => owned'.head[f] = owned.head[f]
      /\ \A c \in Blocks : c # b => owned'.next[c] = owned.next[c]
  BY <1>3, <1>5, <1>6
<1>8. DOMAIN dep' = DOMAIN dep \ {b} /\ \A c \in DOMAIN dep \ {b} : dep'[c] = dep[c]
  BY <1>2
<1>9. /\ Owns(e)' = Owns(e) \ {b} /\ \A f : f # e => Owns(f)' = Owns(f) /\ b \notin Owns(f)
      /\ \A m : Targets(m)' = Targets(m) \ {b}
  <2>1. dep[b].owner = e
    BY <1>3 DEF Owns
  <2> QED BY <1>8, <2>1 DEF Owns, Targets
<1>10. /\ call'.pc = (IF next = call.first THEN "remove" ELSE "dependencies")
       /\ call'.entry = e /\ call'.first = call.first
  BY <1>1, <1>2, <1>4 DEF CallState
<1>11. \A f : Owns(f) \in SUBSET Blocks
  BY <1>4, BlocksTyped
<1>12. ASSUME NEW m \in Natives PROVE Whole(incoming', m, Hooked(m)')
  <2>1. Hooked(m)' = Hooked(m)
    BY <1>3, <1>9, <1>10 DEF Hooked, Unhooked
  <2> QED BY <1>2, <1>4, <2>1 DEF RingInv
<1>13. ASSUME NEW f \in Entries
       PROVE  IF Freeing(f)' THEN Rest(owned'.next, Owns(f)', owned'.head[f], call'.first)
                             ELSE Whole(owned', f, Owns(f)')
  <2>1. CASE f # e
    <3>1. ~Freeing(f) /\ ~Freeing(f)'
      BY <1>1, <1>10, <2>1 DEF Freeing
    <3>2. Whole(owned, f, Owns(f))
      BY <1>4, <3>1 DEF RingInv
    <3>3. owned'.head[f] = owned.head[f] /\ \A c \in Owns(f) : owned'.next[c] = owned.next[c]
      BY <1>7, <1>9, <1>11, <2>1
    <3> QED BY <1>9, <2>1, <3>1, <3>2, <3>3, WholeElsewhere
  <2>2. CASE f = e /\ next = call.first
    <3>1. Owns(e) = {b}
      BY <1>1, <1>3, <2>2, RestEnds
    <3>2. ~Freeing(f)'
      BY <1>10, <2>2 DEF Freeing
    <3>3. Owns(f)' = {} /\ owned'.head[f] = None
      BY <1>7, <1>9, <2>2, <3>1
    <3> QED BY <3>2, <3>3 DEF Whole, Circle
  <2>3. CASE f = e /\ next # call.first
    <3>1. Freeing(f)'
      BY <1>10, <2>3 DEF Freeing
    <3>2. \A c \in Owns(e) : c # b => owned'.next[c] = owned.next[c]
      BY <1>7, <1>11
    <3>3. Rest(owned'.next, Owns(e) \ {b}, next, call.first)
      BY <1>1, <1>3, <2>3, <3>2, RestShrinks
    <3> QED BY <1>7, <1>9, <1>10, <2>3, <3>1, <3>3
  <2> QED BY <2>1, <2>2, <2>3
<1>14. \A c, d \in DOMAIN dep' :
         dep'[c].owner = dep'[d].owner /\ dep'[c].target = dep'[d].target => c = d
  BY <1>4, <1>8 DEF RingInv
<1> QED BY <1>12, <1>13, <1>14 DEF RingInv

\* When the walk begins, all of the owner's circle is left to free.
LEMMA RtlFreeLdrDataTableEntryRings ==
  ASSUME IInv, NEW e \in Entries, RtlFreeLdrDataTableEntry(e)
  PROVE  RingInv'
<1>1. /\ call.pc = "idle" /\ UNCHANGED ringVars
      /\ call' = [Idle EXCEPT !.entry = e, !.first = owned.head[e],
                   !.pc = IF owned.head[e] # None THEN "dependencies" ELSE "remove"]
  BY DEF RtlFreeLdrDataTableEntry, Free
<1>2. call'.entry = e /\ call'.first = owned.head[e]
  BY <1>1 DEF Idle
<1>3. RingInv
  BY DEF IInv
<1>4. CASE call'.pc # "dependencies"
  <2>1. call'.pc = "remove"
    BY <1>1, <1>4 DEF Idle
  <2> QED BY <1>1, <1>3, <2>1, RingsKept
<1>5. CASE call'.pc = "dependencies"
  <2>1. owned.head[e] # None
    BY <1>1, <1>5 DEF Idle
  <2>2. \A f : ~Freeing(f) /\ (Freeing(f)' <=> f = e)
    BY <1>1, <1>2, <1>5 DEF Freeing
  <2>3. Whole(owned, e, Owns(e)) /\ Owns(e) # {}
    BY <1>3, <2>1, <2>2 DEF RingInv, Whole
  <2>4. Rest(owned.next, Owns(e), owned.head[e], owned.head[e])
    BY <2>3, RestBegins
  <2>5. /\ \A n : Targets(n)' = Targets(n) /\ \A f : Owns(f)' = Owns(f)
        /\ owned' = owned /\ incoming' = incoming /\ dep' = dep
    BY <1>1 DEF ringVars, Targets, Owns
  <2>6. \A n \in Natives : Whole(incoming', n, Hooked(n)')
    <3>1. \A n : Hooked(n)' = Hooked(n)
      BY <1>1, <1>5, <2>5 DEF Hooked, Unhooked
    <3> QED BY <1>3, <2>5, <3>1 DEF RingInv
  <2>7. ASSUME NEW f \in Entries
        PROVE  IF Freeing(f)' THEN Rest(owned'.next, Owns(f)', owned'.head[f], call'.first)
                              ELSE Whole(owned', f, Owns(f)')
    <3>1. CASE f = e
      BY <1>2, <2>2, <2>4, <2>5, <3>1
    <3>2. CASE f # e
      BY <1>3, <2>2, <2>5, <3>2 DEF RingInv
    <3> QED BY <3>1, <3>2
  <2> QED BY <1>3, <2>5, <2>6, <2>7 DEF RingInv
<1> QED BY <1>4, <1>5

-----------------------------------------------------------------------------
(* Counts.                                                                 *)

\* One more and one less of each kind.
LEMMA Tallies ==
  ASSUME NEW w, NEW l \in Nat, NEW d \in Nat, NEW x \in Nat, NEW t \in Nat, Tally(w, l, d, x, t)
  PROVE  /\ Tally(w, l + 1, d, x + 1, t) /\ Tally(w, l - 1, d, x - 1, t)
         /\ w < Ten => Tally(w, l, d + 1, x, t + 1) /\ Tally(w, l, d - 1, x, t - 1)
         /\ ~(w < Ten) => Tally(w, l + 1, d, x, t + 1) /\ Tally(w, l - 1, d, x, t - 1)
         /\ (x > 0 => l > 0)
         /\ t > 0 => IF w < Ten THEN d > 0 ELSE l > 0
<1>1. CASE w < Ten
  BY <1>1 DEF Tally
<1>2. CASE ~(w < Ten)
  BY <1>2 DEF Tally
<1> QED BY <1>1, <1>2

\* Whatever holds a module shows in its counts.
LEMMA HeldCounts ==
  ASSUME IInv, NEW n \in Natives
  PROVE  /\ load[n] \in Nat /\ depCount[n] \in Nat /\ explicit[n] \in Nat
         /\ explicit[n] > 0 => load[n] > 0
         /\ Targets(n) # {} => IF os < Ten THEN depCount[n] > 0 ELSE load[n] > 0
<1>1. load[n] \in Nat /\ depCount[n] \in Nat /\ explicit[n] \in Nat /\ Counts(n)
  BY DEF IInv, TypeOK, CountInv
<1>2. /\ IsFiniteSet(Targets(n)) /\ Cardinality(Targets(n)) \in Nat
  BY BlocksTyped DEF IInv
<1>3. Targets(n) # {} => Cardinality(Targets(n)) > 0
  BY <1>2, FS_EmptySet
<1>4. Tally(os, load[n], depCount[n], explicit[n], Cardinality(Targets(n)))
  BY <1>1 DEF Counts
<1> QED BY <1>1, <1>2, <1>3, <1>4, Tallies

\* The counts of a module depend on who holds it,
LEMMA CountsSame ==
  ASSUME NEW m, Counts(m), UNCHANGED os, load'[m] = load[m], depCount'[m] = depCount[m],
         explicit'[m] = explicit[m], Targets(m)' = Targets(m),
         m \in live' <=> m \in live
  PROVE  Counts(m)'
BY DEF Counts

\* and a step that changes none of it keeps them.
LEMMA CountsKept ==
  ASSUME CountInv, UNCHANGED <<os, load, depCount, explicit, dep>>,
         \A n \in Natives : n \in live' <=> n \in live
  PROVE  CountInv'
<1>1. \A n : Targets(n)' = Targets(n)
  BY DEF Targets
<1> QED BY <1>1, CountsSame DEF CountInv

\* A set with one element more or less.
LEMMA OneMore ==
  ASSUME NEW S, IsFiniteSet(S), NEW x
  PROVE  /\ Cardinality(S) \in Nat
         /\ x \notin S => Cardinality(S \cup {x}) = Cardinality(S) + 1
         /\ x \in S => Cardinality(S \ {x}) = Cardinality(S) - 1
BY FS_CardinalityType, FS_AddElement, FS_RemoveElement

\* The host's own load of a module is one holder more,
LEMMA NtdllLoadsCounts ==
  ASSUME IInv, NEW n \in Natives, NtdllLoads(n)
  PROVE  CountInv'
<1>1. /\ explicit' = [explicit EXCEPT ![n] = @ + 1] /\ load' = [load EXCEPT ![n] = @ + 1]
      /\ UNCHANGED <<os, depCount, dep>> /\ live' = live \cup {n}
  BY DEF NtdllLoads, ringVars
<1>2. TypeOK /\ CountInv
  BY DEF IInv
<1>3. \A m : Targets(m)' = Targets(m)
  BY <1>1 DEF Targets
<1>4. /\ explicit'[n] = explicit[n] + 1 /\ load'[n] = load[n] + 1
      /\ load[n] \in Nat /\ explicit[n] \in Nat /\ depCount[n] \in Nat
      /\ \A m \in Natives : m # n => explicit'[m] = explicit[m] /\ load'[m] = load[m]
  BY <1>1, <1>2 DEF TypeOK
<1>5. Cardinality(Targets(n)) \in Nat
  BY <1>2, BlocksTyped
<1>6. ASSUME NEW m \in Natives PROVE Counts(m)'
  <2>1. CASE m # n
    BY <1>1, <1>2, <1>3, <1>4, <2>1, CountsSame DEF CountInv
  <2>2. CASE m = n
    <3>1. Counts(n)
      BY <1>2 DEF CountInv
    <3>2. Tally(os, load[n], depCount[n], explicit[n], Cardinality(Targets(n)))
      BY <3>1 DEF Counts
    <3>3. Tally(os, load[n] + 1, depCount[n], explicit[n] + 1, Cardinality(Targets(n)))
      BY <1>1, <1>2, <1>3, <1>4, <1>5, <3>2, Tallies
    <3>4. n \in live' <=> load'[n] + depCount'[n] > 0
      BY <1>1, <1>4
    <3> QED BY <1>1, <1>2, <1>3, <1>4, <1>5, <2>2, <3>3, <3>4 DEF Counts
  <2> QED BY <2>1, <2>2
<1> QED BY <1>6 DEF CountInv

\* and its release one less: a module that nobody holds is unloaded.
LEMMA HostFreesCounts ==
  ASSUME IInv, NEW n \in Natives, HostFrees(n)
  PROVE  CountInv'
<1>1. /\ explicit[n] > 0 /\ explicit' = [explicit EXCEPT ![n] = @ - 1]
      /\ Settled(n, load[n] - 1, depCount[n]) /\ UNCHANGED <<os, dep>>
  BY DEF HostFrees, LdrUnloadDll, ringVars
<1>2. TypeOK /\ CountInv
  BY DEF IInv
<1>3. \A m : Targets(m)' = Targets(m)
  BY <1>1 DEF Targets
<1>4. load[n] - 1 \in Nat /\ depCount[n] \in Nat /\ load[n] \in Nat /\ explicit[n] \in Nat
  BY <1>1, HeldCounts
<1>5. /\ load' = [load EXCEPT ![n] = load[n] - 1]
      /\ depCount' = [depCount EXCEPT ![n] = depCount[n]]
      /\ live' \subseteq live /\ live \subseteq live' \cup {n}
      /\ (n \in live' <=> n \in live /\ (load[n] - 1) + depCount[n] > 0)
  <2>1. TypeOK /\ Settled(n, load[n] - 1, depCount[n]) /\ load[n] - 1 \in Nat /\ depCount[n] \in Nat
    BY <1>1, <1>2, <1>4
  <2> QED BY <2>1, SettledTyped
<1>6. /\ explicit'[n] = explicit[n] - 1 /\ load'[n] = load[n] - 1 /\ depCount'[n] = depCount[n]
      /\ \A m \in Natives : m # n => /\ explicit'[m] = explicit[m] /\ load'[m] = load[m]
                                     /\ depCount'[m] = depCount[m] /\ (m \in live' <=> m \in live)
  BY <1>1, <1>2, <1>5 DEF TypeOK
<1>7. Cardinality(Targets(n)) \in Nat
  BY <1>2, BlocksTyped
<1>8. ASSUME NEW m \in Natives PROVE Counts(m)'
  <2>1. CASE m # n
    BY <1>1, <1>2, <1>3, <1>6, <2>1, CountsSame DEF CountInv
  <2>2. CASE m = n
    <3>1. Counts(n)
      BY <1>2 DEF CountInv
    <3>2. Tally(os, load[n], depCount[n], explicit[n], Cardinality(Targets(n)))
      BY <3>1 DEF Counts
    <3>3. Tally(os, load[n] - 1, depCount[n], explicit[n] - 1, Cardinality(Targets(n)))
      BY <1>1, <1>3, <1>4, <1>6, <1>7, <3>2, Tallies
    <3>4. n \in live' <=> load'[n] + depCount'[n] > 0
      BY <1>4, <1>5, <1>6, <3>1 DEF Counts
    <3> QED BY <1>1, <1>3, <1>4, <1>6, <1>7, <2>2, <3>3, <3>4 DEF Counts
  <2> QED BY <2>1, <2>2
<1> QED BY <1>8 DEF CountInv

\* A recorded dependency holds its target once more.
LEMMA RecordDependencyCounts ==
  ASSUME IInv, NEW e \in Entries, NEW n \in Natives, NEW b \in Blocks, RecordDependency(e, n, b)
  PROVE  CountInv'
<1>1. /\ n \in live /\ b \notin DOMAIN dep
      /\ dep' = [c \in DOMAIN dep \cup {b} |->
                   IF c = b THEN [owner |-> e, target |-> n] ELSE dep[c]]
      /\ IF os < Ten
         THEN depCount' = [depCount EXCEPT ![n] = @ + 1] /\ UNCHANGED load
         ELSE load' = [load EXCEPT ![n] = @ + 1] /\ UNCHANGED depCount
      /\ UNCHANGED <<os, explicit, live>>
  BY DEF RecordDependency
<1>2. TypeOK /\ CountInv
  BY DEF IInv
<1>3. /\ \A m : m # n => Targets(m)' = Targets(m)
      /\ Targets(n)' = Targets(n) \cup {b} /\ b \notin Targets(n)
  <2>1. /\ DOMAIN dep' = DOMAIN dep \cup {b} /\ dep'[b].target = n
        /\ \A c \in DOMAIN dep : dep'[c] = dep[c] /\ c # b
    BY <1>1
  <2> QED BY <1>1, <2>1 DEF Targets
<1>4. /\ load[n] \in Nat /\ explicit[n] \in Nat /\ depCount[n] \in Nat
      /\ os < Ten => depCount'[n] = depCount[n] + 1 /\ load'[n] = load[n]
      /\ ~(os < Ten) => load'[n] = load[n] + 1 /\ depCount'[n] = depCount[n]
      /\ \A m \in Natives : m # n => load'[m] = load[m] /\ depCount'[m] = depCount[m]
  BY <1>1, <1>2 DEF TypeOK
<1>5. /\ Cardinality(Targets(n)) \in Nat
      /\ Cardinality(Targets(n) \cup {b}) = Cardinality(Targets(n)) + 1
  BY <1>2, <1>3, BlocksTyped, OneMore
<1>6. ASSUME NEW m \in Natives PROVE Counts(m)'
  <2>1. CASE m # n
    BY <1>1, <1>2, <1>3, <1>4, <2>1, CountsSame DEF CountInv
  <2>2. CASE m = n
    <3>1. Counts(n)
      BY <1>2 DEF CountInv
    <3>2. Tally(os, load[n], depCount[n], explicit[n], Cardinality(Targets(n)))
      BY <3>1 DEF Counts
    <3>3. Tally(os, load'[n], depCount'[n], explicit[n], Cardinality(Targets(n)) + 1)
      <4>1. CASE os < Ten
        <5>1. Tally(os, load[n], depCount[n] + 1, explicit[n], Cardinality(Targets(n)) + 1)
          BY <1>4, <1>5, <3>2, <4>1, Tallies
        <5> QED BY <1>4, <4>1, <5>1
      <4>2. CASE ~(os < Ten)
        <5>1. Tally(os, load[n] + 1, depCount[n], explicit[n], Cardinality(Targets(n)) + 1)
          BY <1>4, <1>5, <3>2, <4>2, Tallies
        <5> QED BY <1>4, <4>2, <5>1
      <4> QED BY <4>1, <4>2
    <3>4. n \in live' <=> load'[n] + depCount'[n] > 0
      BY <1>1, <1>4
    <3> QED BY <1>1, <1>3, <1>4, <1>5, <2>2, <3>3, <3>4 DEF Counts
  <2> QED BY <2>1, <2>2
<1> QED BY <1>6 DEF CountInv

\* One dependency goes: what Released makes of the counts.
LEMMA ReleasedTyped ==
  ASSUME IInv, NEW n \in Natives, Targets(n) # {}, Released(n)
  PROVE  /\ load' \in [Natives -> Nat] /\ depCount' \in [Natives -> Nat]
         /\ base' \in [Nodes -> Bases \cup {0}] /\ tree' \in Seq(Nodes)
         /\ live' \subseteq live /\ live \subseteq live' \cup {n} /\ modules' \subseteq modules
         /\ os < Ten => depCount'[n] = depCount[n] - 1 /\ load'[n] = load[n]
         /\ ~(os < Ten) => load'[n] = load[n] - 1 /\ depCount'[n] = depCount[n]
         /\ \A m \in Natives : m # n => /\ load'[m] = load[m] /\ depCount'[m] = depCount[m]
                                        /\ (m \in live' <=> m \in live)
         /\ (n \in live' <=> n \in live /\ load'[n] + depCount'[n] > 0)
<1>1. /\ load[n] \in Nat /\ depCount[n] \in Nat
      /\ IF os < Ten THEN depCount[n] > 0 ELSE load[n] > 0
  BY HeldCounts
<1>2. TypeOK
  BY DEF IInv
<1>3. CASE os < Ten
  <2>1. /\ Settled(n, load[n], depCount[n] - 1) /\ TypeOK
        /\ load[n] \in Nat /\ depCount[n] - 1 \in Nat
    BY <1>1, <1>2, <1>3 DEF Released
  <2>2. /\ load' = [load EXCEPT ![n] = load[n]]
        /\ depCount' = [depCount EXCEPT ![n] = depCount[n] - 1]
        /\ load' \in [Natives -> Nat] /\ depCount' \in [Natives -> Nat]
        /\ live' \subseteq live /\ live \subseteq live' \cup {n}
        /\ (n \in live' <=> n \in live /\ load[n] + (depCount[n] - 1) > 0)
        /\ modules' \subseteq modules
        /\ base' \in [Nodes -> Bases \cup {0}] /\ tree' \in Seq(Nodes)
    BY <2>1, SettledTyped
  <2>3. /\ load'[n] = load[n] /\ depCount'[n] = depCount[n] - 1
        /\ \A m \in Natives : m # n => load'[m] = load[m] /\ depCount'[m] = depCount[m]
    BY <1>2, <2>2 DEF TypeOK
  <2> QED BY <1>3, <2>2, <2>3
<1>4. CASE ~(os < Ten)
  <2>1. /\ Settled(n, load[n] - 1, depCount[n]) /\ TypeOK
        /\ load[n] - 1 \in Nat /\ depCount[n] \in Nat
    BY <1>1, <1>2, <1>4 DEF Released, LdrUnloadDll
  <2>2. /\ load' = [load EXCEPT ![n] = load[n] - 1]
        /\ depCount' = [depCount EXCEPT ![n] = depCount[n]]
        /\ load' \in [Natives -> Nat] /\ depCount' \in [Natives -> Nat]
        /\ live' \subseteq live /\ live \subseteq live' \cup {n}
        /\ (n \in live' <=> n \in live /\ (load[n] - 1) + depCount[n] > 0)
        /\ modules' \subseteq modules
        /\ base' \in [Nodes -> Bases \cup {0}] /\ tree' \in Seq(Nodes)
    BY <2>1, SettledTyped
  <2>3. /\ load'[n] = load[n] - 1 /\ depCount'[n] = depCount[n]
        /\ \A m \in Natives : m # n => load'[m] = load[m] /\ depCount'[m] = depCount[m]
    BY <1>2, <2>2 DEF TypeOK
  <2> QED BY <1>4, <2>2, <2>3
<1> QED BY <1>3, <1>4

\* A round of RtlFreeDependencies releases one target.
LEMMA ReleaseDependencyCounts ==
  ASSUME IInv, ReleaseDependency
  PROVE  CountInv'
<1>1. PICK e, b, n : e = call.entry /\ b = Current /\ n = Target
  OBVIOUS
<1>2. b \in Targets(n) /\ n \in Natives
  <2>1. call.pc = "release"
    BY DEF ReleaseDependency
  <2> QED BY <1>1, <2>1, FreesBlock
<1>3. /\ dep' = [c \in DOMAIN dep \ {b} |-> dep[c]] /\ Released(n)
      /\ UNCHANGED <<os, explicit>>
  BY <1>1 DEF ReleaseDependency
<1>4. TypeOK /\ CountInv
  BY DEF IInv
<1>5. /\ \A m : m # n => Targets(m)' = Targets(m)
      /\ Targets(n)' = Targets(n) \ {b}
  <2>1. /\ DOMAIN dep' = DOMAIN dep \ {b}
        /\ (\A c \in DOMAIN dep' : dep'[c] = dep[c]) /\ dep[b].target = n
    BY <1>2, <1>3 DEF Targets
  <2> QED BY <1>3, <2>1 DEF Targets
<1>6. /\ os < Ten => depCount'[n] = depCount[n] - 1 /\ load'[n] = load[n]
      /\ ~(os < Ten) => load'[n] = load[n] - 1 /\ depCount'[n] = depCount[n]
      /\ \A m \in Natives : m # n => /\ load'[m] = load[m] /\ depCount'[m] = depCount[m]
                                     /\ (m \in live' <=> m \in live)
      /\ (n \in live' <=> n \in live /\ load'[n] + depCount'[n] > 0)
  BY <1>2, <1>3, ReleasedTyped
<1>7. /\ Cardinality(Targets(n)) \in Nat
      /\ Cardinality(Targets(n) \ {b}) = Cardinality(Targets(n)) - 1
  BY <1>2, <1>4, BlocksTyped, OneMore
<1>8. /\ load[n] \in Nat /\ depCount[n] \in Nat /\ explicit[n] \in Nat
      /\ IF os < Ten THEN depCount[n] > 0 ELSE load[n] > 0
  BY <1>2, HeldCounts
<1>9. ASSUME NEW m \in Natives PROVE Counts(m)'
  <2>1. CASE m # n
    BY <1>3, <1>4, <1>5, <1>6, <2>1, CountsSame DEF CountInv
  <2>2. CASE m = n
    <3>1. Counts(n)
      BY <1>2, <1>4 DEF CountInv
    <3>2. Tally(os, load[n], depCount[n], explicit[n], Cardinality(Targets(n)))
      BY <3>1 DEF Counts
    <3>3. Tally(os, load'[n], depCount'[n], explicit[n], Cardinality(Targets(n)) - 1)
      <4>1. CASE os < Ten
        <5>1. Tally(os, load[n], depCount[n] - 1, explicit[n], Cardinality(Targets(n)) - 1)
          BY <1>7, <1>8, <3>2, <4>1, Tallies
        <5> QED BY <1>6, <4>1, <5>1
      <4>2. CASE ~(os < Ten)
        <5>1. Tally(os, load[n] - 1, depCount[n], explicit[n], Cardinality(Targets(n)) - 1)
          BY <1>7, <1>8, <3>2, <4>2, Tallies
        <5> QED BY <1>6, <4>2, <5>1
      <4> QED BY <4>1, <4>2
    <3>4. n \in live' <=> load'[n] + depCount'[n] > 0
      BY <1>6, <1>8, <3>1 DEF Counts
    <3> QED BY <1>3, <1>5, <1>6, <1>7, <1>8, <2>2, <3>3, <3>4 DEF Counts
  <2> QED BY <2>1, <2>2
<1> QED BY <1>9 DEF CountInv

-----------------------------------------------------------------------------
(* Types, and what is known of the entries.                                *)

\* Steps of ntdll keep the types,
LEMMA NtdllTypes ==
  ASSUME IInv, NtdllStep
  PROVE  TypeOK'
<1>1. PICK n \in Natives : \/ NtdllLoads(n) \/ HostFrees(n)
                           \/ \E e \in Entries, b \in Blocks : RecordDependency(e, n, b)
  BY DEF NtdllStep
<1>2. TypeOK /\ n \in Nodes
  BY DEF IInv, Nodes
<1>3. CASE NtdllLoads(n)
  <2>1. /\ explicit' = [explicit EXCEPT ![n] = @ + 1] /\ load' = [load EXCEPT ![n] = @ + 1]
        /\ UNCHANGED <<os, index, shared, ddag, owned, incoming, dep, depCount, mapped,
                       stray, crashed, call>>
        /\ IF n \in live THEN UNCHANGED <<live, base, modules, tree>>
           ELSE \E b \in FreeBases :
                  /\ live' = live \cup {n}
                  /\ base' = [base EXCEPT ![n] = b]
                  /\ modules' = modules \cup {n}
                  /\ IF HasTree THEN tree' \in TreeWith(n, b) ELSE UNCHANGED tree
    BY <1>3 DEF NtdllLoads, treeVars, ringVars
  <2>2. load' \in [Natives -> Nat] /\ explicit' \in [Natives -> Nat]
    BY <1>2, <2>1 DEF TypeOK
  <2>3. CASE n \in live
    BY <1>2, <2>1, <2>2, <2>3 DEF TypeOK
  <2>4. CASE n \notin live
    <3>1. PICK b \in FreeBases :
            /\ live' = live \cup {n}
            /\ base' = [base EXCEPT ![n] = b]
            /\ modules' = modules \cup {n}
            /\ IF HasTree THEN tree' \in TreeWith(n, b) ELSE UNCHANGED tree
      BY <2>1, <2>4
    <3>2. tree' \in Seq(Nodes)
      BY <1>2, <3>1, SequencesTyped DEF TypeOK, TreeWith
    <3>3. base' \in [Nodes -> Bases \cup {0}]
      BY <1>2, <3>1 DEF TypeOK, FreeBases
    <3> QED BY <1>2, <2>1, <2>2, <3>1, <3>2, <3>3 DEF TypeOK
  <2> QED BY <2>3, <2>4
<1>4. CASE HostFrees(n)
  <2>1. /\ explicit[n] > 0 /\ explicit' = [explicit EXCEPT ![n] = @ - 1]
        /\ Settled(n, load[n] - 1, depCount[n])
        /\ UNCHANGED <<os, index, shared, ddag, owned, incoming, dep, mapped, stray,
                       crashed, call>>
    BY <1>4 DEF HostFrees, LdrUnloadDll, ringVars
  <2>2. load[n] - 1 \in Nat /\ depCount[n] \in Nat
    BY <2>1, HeldCounts
  <2>3. /\ load' \in [Natives -> Nat] /\ depCount' \in [Natives -> Nat]
        /\ live' \subseteq live /\ modules' \subseteq modules
        /\ base' \in [Nodes -> Bases \cup {0}] /\ tree' \in Seq(Nodes)
    BY <1>2, <2>1, <2>2, SettledTyped
  <2>4. explicit' \in [Natives -> Nat]
    BY <1>2, <2>1 DEF TypeOK
  <2> QED BY <1>2, <2>1, <2>3, <2>4 DEF TypeOK
<1>5. ASSUME NEW e \in Entries, NEW b \in Blocks, RecordDependency(e, n, b) PROVE TypeOK'
  <2>1. /\ owned' \in RingsWith(owned, e, b) /\ incoming' \in RingsWith(incoming, n, b)
        /\ dep' = [c \in DOMAIN dep \cup {b} |->
                     IF c = b THEN [owner |-> e, target |-> n] ELSE dep[c]]
        /\ IF os < Ten
           THEN depCount' = [depCount EXCEPT ![n] = @ + 1] /\ UNCHANGED load
           ELSE load' = [load EXCEPT ![n] = @ + 1] /\ UNCHANGED depCount
        /\ UNCHANGED <<os, index, live, base, modules, tree, shared, ddag, explicit,
                       mapped, stray, crashed, call>>
    BY <1>5 DEF RecordDependency, treeVars
  <2>2. owned' \in Ring /\ incoming' \in Ring
    BY <1>2, <2>1, RingsTyped DEF TypeOK, Nodes
  <2>3. /\ dep' \in [DOMAIN dep' -> [owner : Entries, target : Natives]]
        /\ DOMAIN dep' \subseteq Blocks
    BY <1>2, <2>1 DEF TypeOK
  <2>4. load' \in [Natives -> Nat] /\ depCount' \in [Natives -> Nat]
    <3>0. load \in [Natives -> Nat] /\ depCount \in [Natives -> Nat] /\ n \in Natives
      BY <1>2 DEF TypeOK
    <3>1. CASE os < Ten
      <4>1. depCount' = [depCount EXCEPT ![n] = @ + 1] /\ load' = load
        BY <2>1, <3>1
      <4> QED BY <3>0, <4>1
    <3>2. CASE ~(os < Ten)
      <4>1. load' = [load EXCEPT ![n] = @ + 1] /\ depCount' = depCount
        BY <2>1, <3>2
      <4> QED BY <3>0, <4>1
    <3> QED BY <3>1, <3>2
  <2> QED BY <1>2, <2>1, <2>2, <2>3, <2>4 DEF TypeOK
<1> QED BY <1>1, <1>3, <1>4, <1>5

\* and so do the steps of a load,
LEMMA MapTypes ==
  ASSUME IInv, MapStep
  PROVE  TypeOK'
<1>1. TypeOK
  BY DEF IInv
<1> USE DEF CallState
<1>2. call \in CallState /\ Idle \in CallState
  BY <1>1, CallTyped
<1>3. call.pc # "idle" => call.entry \in Entries /\ call.entry \in Nodes
  BY DEF IInv, CallInv, Nodes
<1>4. ASSUME NEW e \in Entries, NEW b \in Bases, RtlAllocateDataTableEntry(e, b) PROVE TypeOK'
  <2>1. call' \in CallState
    BY <1>4 DEF RtlAllocateDataTableEntry, Idle
  <2>2. e \in Nodes /\ base' \in [Nodes -> Bases \cup {0}]
    BY <1>1, <1>4 DEF RtlAllocateDataTableEntry, Nodes, TypeOK
  <2> QED BY <1>1, <1>4, <2>1, <2>2
          DEF RtlAllocateDataTableEntry, treeVars, ringVars, countVars, TypeOK
<1>5. CASE RtlInsertModuleBaseAddressIndexNode
  <2>1. call' = [call EXCEPT !.pc = "ddag"]
    BY <1>5 DEF RtlInsertModuleBaseAddressIndexNode
  <2>2. call' \in CallState
    BY <1>2, <2>1
  <2>3. tree' \in Seq(Nodes)
    BY <1>1, <1>3, <1>5, SequencesTyped DEF RtlInsertModuleBaseAddressIndexNode, TreeWith, TypeOK
  <2> QED BY <1>1, <1>5, <2>2, <2>3
          DEF RtlInsertModuleBaseAddressIndexNode, ringVars, countVars, TypeOK
<1>6. CASE IndexRefused
  BY <1>1, <1>2, <1>6 DEF IndexRefused, treeVars, ringVars, countVars, TypeOK
<1>7. CASE DdagAllocated
  <2>1. call' = [call EXCEPT !.pc = "fields"] /\ call.entry \in Entries
    BY <1>3, <1>7 DEF DdagAllocated
  <2>2. call' \in CallState
    BY <1>2, <2>1
  <2> QED BY <1>1, <1>7, <2>1, <2>2 DEF DdagAllocated, treeVars, ringVars, countVars, TypeOK
<1>8. CASE DdagRefused
  BY <1>1, <1>2, <1>3, <1>8 DEF DdagRefused, treeVars, ringVars, countVars, TypeOK
<1>9. CASE RtlInitializeLdrDataTableEntry
  <2>1. /\ call' = [call EXCEPT !.pc = "link"] /\ call.entry \in Entries
        /\ base' = [base EXCEPT ![call.entry] = call.at]
    BY <1>3, <1>9 DEF RtlInitializeLdrDataTableEntry
  <2>2. call' \in CallState
    BY <1>2, <2>1
  <2>3. base' \in [Nodes -> Bases \cup {0}]
    BY <1>1, <1>2, <2>1 DEF TypeOK
  <2> QED BY <1>1, <1>9, <2>2, <2>3
          DEF RtlInitializeLdrDataTableEntry, treeVars, ringVars, countVars, TypeOK
<1>10. CASE RtlInsertMemoryTableEntry
  BY <1>1, <1>2, <1>3, <1>10 DEF RtlInsertMemoryTableEntry, ringVars, countVars, TypeOK
<1> QED BY <1>4, <1>5, <1>6, <1>7, <1>8, <1>9, <1>10 DEF MapStep

\* and of an unload.
LEMMA FreeTypes ==
  ASSUME IInv, FreeStep
  PROVE  TypeOK'
<1>1. TypeOK
  BY DEF IInv
<1> USE DEF CallState
<1>2. call \in CallState /\ Idle \in CallState
  BY <1>1, CallTyped
<1>3. call.pc # "idle" => call.entry \in Entries /\ call.entry \in Nodes
  BY DEF IInv, CallInv, Nodes
<1>4. ASSUME NEW e \in Entries, RtlFreeLdrDataTableEntry(e) PROVE TypeOK'
  <2>1. owned.head[e] \in Blocks \cup {None}
    BY <1>1 DEF TypeOK, Ring, Nodes
  <2>2. call' \in CallState
    BY <1>4, <2>1 DEF RtlFreeLdrDataTableEntry, Idle
  <2> QED BY <1>1, <1>4, <2>2 DEF RtlFreeLdrDataTableEntry, treeVars, ringVars, countVars, TypeOK
<1>5. CASE UnlinkDependency
  <2>1. PICK e, b, n : e = call.entry /\ b = Current /\ n = Target
    OBVIOUS
  <2>2. /\ call.pc = "dependencies" /\ incoming' = Unlinked(n, OwnBlock(n, e))
        /\ call' = [call EXCEPT !.pc = "release"]
        /\ UNCHANGED <<os, index, shared, live, base, modules, tree, ddag, owned, dep, load,
                       depCount, explicit, mapped, stray, crashed>>
    BY <1>5, <2>1 DEF UnlinkDependency, treeVars, countVars
  <2>3. /\ b \in Targets(n) /\ n \in Natives /\ OwnBlock(n, e) = b
        /\ \A m : Hooked(m) = Targets(m)
    BY <2>1, <2>2, FreesBlock
  <2>4. incoming' \in Ring
    <3>1. Whole(incoming, n, Targets(n)) /\ Targets(n) \in SUBSET Blocks /\ incoming \in Ring
      BY <1>1, <2>3, BlocksTyped DEF IInv, RingInv, TypeOK
    <3> QED BY <2>2, <2>3, <3>1, RingShrinks
  <2>5. call' \in CallState
    BY <1>2, <2>2
  <2> QED BY <1>1, <2>2, <2>4, <2>5 DEF TypeOK
<1>6. CASE ReleaseDependency
  <2>1. PICK e, b, n, next : e = call.entry /\ b = Current /\ n = Target /\ next = owned.next[b]
    OBVIOUS
  <2>2. /\ Released(n) /\ dep' = [c \in DOMAIN dep \ {b} |-> dep[c]] /\ call.pc = "release"
        /\ owned' = [owned EXCEPT !.head[e] = IF next = call.first THEN None ELSE next,
                                  !.next[b] = None]
        /\ call' = [call EXCEPT !.pc = IF next = call.first THEN "remove" ELSE "dependencies"]
        /\ UNCHANGED <<os, index, shared, ddag, incoming, explicit, mapped, stray, crashed>>
    BY <1>6, <2>1 DEF ReleaseDependency
  <2>3. e \in Nodes /\ b \in Targets(n) /\ n \in Natives /\ b \in Blocks
    BY <2>1, <2>2, FreesBlock
  <2>4. /\ load' \in [Natives -> Nat] /\ depCount' \in [Natives -> Nat]
        /\ base' \in [Nodes -> Bases \cup {0}] /\ tree' \in Seq(Nodes)
        /\ live' \subseteq live /\ modules' \subseteq modules
    BY <2>2, <2>3, ReleasedTyped
  <2>5. owned' \in Ring
    <3>1. /\ owned.head \in [Nodes -> Blocks \cup {None}]
          /\ owned.next \in [Blocks -> Blocks \cup {None}]
          /\ owned = [head |-> owned.head, next |-> owned.next]
      BY <1>1 DEF TypeOK, Ring
    <3>2. /\ owned' = [head |-> owned'.head, next |-> owned'.next]
          /\ owned'.head = [owned.head EXCEPT ![e] = IF next = call.first THEN None ELSE next]
          /\ owned'.next = [owned.next EXCEPT ![b] = None]
      BY <2>2, <3>1
    <3>3. next \in Blocks \cup {None}
      BY <2>1, <2>3, <3>1
    <3>4. owned'.head \in [Nodes -> Blocks \cup {None}]
      BY <2>3, <3>1, <3>2, <3>3
    <3>5. owned'.next \in [Blocks -> Blocks \cup {None}]
      BY <2>3, <3>1, <3>2
    <3> QED BY <3>2, <3>4, <3>5 DEF Ring
  <2>6. call' \in CallState
    BY <1>2, <2>2
  <2>7. /\ dep' \in [DOMAIN dep' -> [owner : Entries, target : Natives]]
        /\ DOMAIN dep' \subseteq Blocks
    BY <1>1, <2>2 DEF TypeOK
  <2> QED BY <1>1, <2>2, <2>4, <2>5, <2>6, <2>7 DEF TypeOK
<1>7. CASE FastFail
  BY <1>1, <1>7 DEF FastFail, treeVars, ringVars, countVars, TypeOK
<1>8. CASE Removed
  <2>1. tree' \in Seq(Nodes)
    BY <1>1, <1>8, SequencesTyped DEF Removed, TypeOK
  <2>2. base' \in [Nodes -> Bases \cup {0}]
    BY <1>1, <1>3, <1>8 DEF Removed, TypeOK
  <2> QED BY <1>1, <1>2, <1>8, <2>1, <2>2 DEF Removed, ringVars, countVars, TypeOK
<1> QED BY <1>4, <1>5, <1>6, <1>7, <1>8 DEF FreeStep

\* A step that makes or takes apart no entry leaves what is known of the entries.
LEMMA EntriesKept ==
  ASSUME CallInv, UNCHANGED <<mapped, call>>,
         live \cap Entries \subseteq live', mapped \subseteq Entries
  PROVE  CallInv'
<1>1. mapped' \subseteq live'
  BY DEF CallInv
<1>2. call'.pc # "idle" => call'.entry \in (live' \cap Entries) \ mapped'
  BY DEF CallInv
<1> QED BY <1>1, <1>2 DEF CallInv

\* What the call at work holds is still what it was after a step of ntdll,
LEMMA NtdllEntries ==
  ASSUME IInv, NtdllStep
  PROVE  CallInv'
<1>1. PICK n \in Natives : \/ NtdllLoads(n) \/ HostFrees(n)
                           \/ \E e \in Entries, b \in Blocks : RecordDependency(e, n, b)
  BY DEF NtdllStep
<1>2. TypeOK /\ CallInv /\ mapped \subseteq Entries /\ n \notin Entries
  BY HeapAssumption DEF IInv, TypeOK
<1>3. CASE NtdllLoads(n)
  BY <1>2, <1>3, EntriesKept DEF NtdllLoads
<1>4. CASE HostFrees(n)
  <2>1. Settled(n, load[n] - 1, depCount[n]) /\ load[n] - 1 \in Nat /\ depCount[n] \in Nat
    BY <1>4, HeldCounts DEF HostFrees, LdrUnloadDll
  <2>2. live \subseteq live' \cup {n}
    BY <1>2, <2>1, SettledTyped
  <2>3. live \cap Entries \subseteq live'
    BY <1>2, <2>2
  <2> QED BY <1>2, <1>4, <2>3, EntriesKept DEF HostFrees
<1>5. ASSUME NEW e \in Entries, NEW b \in Blocks, RecordDependency(e, n, b) PROVE CallInv'
  BY <1>2, <1>5, EntriesKept DEF RecordDependency
<1> QED BY <1>1, <1>3, <1>4, <1>5

\* after a step of the load,
LEMMA MapEntries ==
  ASSUME IInv, MapStep
  PROVE  CallInv'
<1>1. TypeOK /\ CallInv
  BY DEF IInv
<1>2. call \in CallState
  BY <1>1, CallTyped
<1> USE DEF CallState
<1>3. Idle.pc = "idle" /\ Idle.entry = None /\ None \notin Entries
  BY HeapAssumption DEF Idle
<1>4. ASSUME NEW e \in Entries, NEW b \in Bases, RtlAllocateDataTableEntry(e, b) PROVE CallInv'
  <2>1. /\ call'.pc = (IF HasTree THEN "index" ELSE "fields") /\ call'.entry = e
        /\ live' = live \cup {e} /\ e \notin live /\ UNCHANGED <<os, mapped, crashed>>
    BY <1>4 DEF RtlAllocateDataTableEntry, Idle
  <2> QED BY <1>1, <2>1 DEF CallInv
<1>5. CASE RtlInsertModuleBaseAddressIndexNode
  <2>1. /\ call'.pc = "ddag" /\ call'.entry = call.entry /\ call.pc = "index"
        /\ UNCHANGED <<os, live, mapped, crashed>>
    BY <1>2, <1>5 DEF RtlInsertModuleBaseAddressIndexNode
  <2> QED BY <1>1, <2>1 DEF CallInv
<1>6. CASE IndexRefused
  <2>1. /\ call' = Idle /\ live' = live \ {call.entry} /\ call.pc = "index"
        /\ UNCHANGED <<os, mapped, crashed>>
    BY <1>6 DEF IndexRefused
  <2> QED BY <1>1, <1>3, <2>1 DEF CallInv
<1>7. CASE DdagAllocated
  <2>1. /\ call'.pc = "fields" /\ call'.entry = call.entry /\ call.pc = "ddag"
        /\ UNCHANGED <<os, live, mapped, crashed>>
    BY <1>2, <1>7 DEF DdagAllocated
  <2> QED BY <1>1, <2>1 DEF CallInv
<1>8. CASE DdagRefused
  <2>1. /\ call' = Idle /\ live' = live \ {call.entry} /\ call.pc = "ddag"
        /\ UNCHANGED <<os, mapped, crashed>>
    BY <1>8 DEF DdagRefused
  <2> QED BY <1>1, <1>3, <2>1 DEF CallInv
<1>9. CASE RtlInitializeLdrDataTableEntry
  <2>1. /\ call'.pc = "link" /\ call'.entry = call.entry /\ call.pc = "fields"
        /\ UNCHANGED <<os, live, mapped, crashed>>
    BY <1>2, <1>9 DEF RtlInitializeLdrDataTableEntry
  <2> QED BY <1>1, <2>1 DEF CallInv
<1>10. CASE RtlInsertMemoryTableEntry
  <2>1. /\ call' = Idle /\ mapped' = mapped \cup {call.entry} /\ call.pc = "link"
        /\ UNCHANGED <<os, live, crashed>>
    BY <1>10 DEF RtlInsertMemoryTableEntry
  <2> QED BY <1>1, <1>3, <2>1 DEF CallInv
<1> QED BY <1>4, <1>5, <1>6, <1>7, <1>8, <1>9, <1>10 DEF MapStep

\* and after one of the unload.
LEMMA FreeEntries ==
  ASSUME IInv, FreeStep
  PROVE  CallInv'
<1>1. TypeOK /\ CallInv /\ mapped \subseteq Entries
  BY DEF IInv, TypeOK
<1>2. call \in CallState
  BY <1>1, CallTyped
<1> USE DEF CallState
<1>3. Idle.pc = "idle" /\ Idle.entry = None /\ None \notin Entries
  BY HeapAssumption DEF Idle
<1>4. ASSUME NEW e \in Entries, RtlFreeLdrDataTableEntry(e) PROVE CallInv'
  <2>1. /\ call'.entry = e /\ e \in mapped /\ mapped' = mapped \ {e}
        /\ UNCHANGED <<os, live, crashed>>
    BY <1>4 DEF RtlFreeLdrDataTableEntry, Idle
  <2> QED BY <1>1, <2>1 DEF CallInv
<1>5. CASE UnlinkDependency
  <2>1. /\ call'.pc = "release" /\ call'.entry = call.entry /\ call.pc = "dependencies"
        /\ UNCHANGED <<live, mapped>>
    BY <1>2, <1>5 DEF UnlinkDependency
  <2> QED BY <1>1, <2>1 DEF CallInv
<1>6. CASE ReleaseDependency
  <2>1. PICK n : n = Target
    OBVIOUS
  <2>2. Released(n) /\ call.pc = "release" /\ call'.entry = call.entry /\ UNCHANGED mapped
    BY <1>2, <1>6, <2>1 DEF ReleaseDependency
  <2>3. Targets(n) # {} /\ n \in Natives /\ n \notin Entries
    BY <2>1, <2>2, FreesBlock, HeapAssumption
  <2>4. live \subseteq live' \cup {n}
    BY <2>2, <2>3, ReleasedTyped
  <2> QED BY <1>1, <2>2, <2>3, <2>4 DEF CallInv
<1>7. CASE FastFail
  BY <1>1, <1>7, EntriesKept DEF FastFail
<1>8. CASE Removed
  <2>1. /\ call' = Idle /\ live' = live \ {call.entry}
        /\ call.pc = "remove" /\ UNCHANGED <<os, mapped, crashed>>
    BY <1>8 DEF Removed
  <2> QED BY <1>1, <1>3, <2>1 DEF CallInv
<1> QED BY <1>4, <1>5, <1>6, <1>7, <1>8 DEF FreeStep

-----------------------------------------------------------------------------
(* __fastfail.                                                             *)

\* A dependency's target is a loaded module whose ring names it and which is counted.
LEMMA TargetIsThere ==
  ASSUME IInv, call.pc \in {"dependencies", "release"}
  PROVE  /\ call.pc = "dependencies" => Target \in live /\ incoming.head[Target] # None
         /\ call.pc = "release" => ~Uncounted(Target)
<1>1. PICK n : n = Target
  OBVIOUS
<1>2. /\ n \in Natives /\ Targets(n) # {}
      /\ call.pc = "dependencies" => \A m : Hooked(m) = Targets(m)
  BY <1>1, FreesBlock
<1>3. /\ load[n] \in Nat /\ depCount[n] \in Nat
      /\ IF os < Ten THEN depCount[n] > 0 ELSE load[n] > 0
  BY <1>2, HeldCounts
<1>4. n \in live
  BY <1>2, <1>3 DEF IInv, CountInv, Counts
<1>5. ~Uncounted(n)
  BY <1>3 DEF Uncounted
<1>6. ASSUME call.pc = "dependencies" PROVE incoming.head[n] # None
  <2>1. Whole(incoming, n, Targets(n))
    BY <1>2, <1>6 DEF IInv, RingInv
  <2>2. incoming.head[n] \in Blocks
    BY <1>2, <2>1, BlocksTyped DEF IInv, Whole
  <2> QED BY <2>2, HeapAssumption
<1> QED BY <1>1, <1>4, <1>5, <1>6

\* Only the test for a shared node can end the process, and no step follows.
LEMMA NextFastFails ==
  ASSUME IInv, Next
  PROVE  FastFailsOnCycleOnly'
<1>1. ~crashed
  BY DEF Next, NtdllStep, MapStep, FreeStep, NtdllLoads, HostFrees, RecordDependency,
     RtlAllocateDataTableEntry, RtlInsertModuleBaseAddressIndexNode, IndexRefused, DdagAllocated,
     DdagRefused, RtlInitializeLdrDataTableEntry, RtlInsertMemoryTableEntry,
     RtlFreeLdrDataTableEntry, UnlinkDependency, ReleaseDependency, FastFail, Removed,
     NtdllRuns, Free, Defined
<1>2. CASE FastFail
  <2>1. /\ UNCHANGED <<shared, owned, dep, call>>
        /\ \/ call.pc = "dependencies" /\ Corrupt(Target)
           \/ call.pc = "release" /\ Uncounted(Target)
    BY <1>2 DEF FastFail, ringVars
  <2>2. Target \in shared
    BY <2>1, TargetIsThere DEF Corrupt
  <2>3. Current' = Current
    BY <2>1 DEF Current
  <2>4. Target' = Target
    BY <2>1, <2>3 DEF Target
  <2> QED BY <2>1, <2>2, <2>4 DEF FastFailsOnCycleOnly
<1>3. CASE ~FastFail
  <2>1. UNCHANGED crashed
    BY <1>3 DEF Next, NtdllStep, MapStep, FreeStep, NtdllLoads, HostFrees, RecordDependency,
       RtlAllocateDataTableEntry, RtlInsertModuleBaseAddressIndexNode, IndexRefused, DdagAllocated,
       DdagRefused, RtlInitializeLdrDataTableEntry, RtlInsertMemoryTableEntry,
       RtlFreeLdrDataTableEntry, UnlinkDependency, ReleaseDependency, Removed
  <2> QED BY <1>1, <2>1 DEF FastFailsOnCycleOnly
<1> QED BY <1>2, <1>3

-----------------------------------------------------------------------------
(* The invariant.                                                          *)

\* Before the first load there are no entries and no dependencies.
LEMMA InitIInv == Init => IInv
<1> SUFFICES ASSUME Init PROVE IInv
  OBVIOUS
<1>1. TypeOK
  <2>1. NoRings \in Ring
    BY DEF NoRings, Ring
  <2>2. Idle \in CallState
    BY DEF Idle, CallState
  <2>3. dep \in [DOMAIN dep -> [owner : Entries, target : Natives]] /\ DOMAIN dep \subseteq Blocks
    BY DEF Init
  <2>4. os \in Versions /\ index \in BOOLEAN /\ shared \subseteq Natives
    BY DEF Init
  <2>5. /\ base \in [Nodes -> Bases \cup {0}]
        /\ load \in [Natives -> Nat] /\ depCount \in [Natives -> Nat]
        /\ explicit \in [Natives -> Nat]
    BY DEF Init
  <2>6. /\ live = {} /\ modules = {} /\ tree = <<>> /\ ddag = {}
        /\ mapped = {} /\ stray = {} /\ crashed = FALSE
        /\ owned = NoRings /\ incoming = NoRings /\ call = Idle
    BY DEF Init
  <2>7. tree \in Seq(Nodes)
    BY <2>6
  <2> QED BY <2>1, <2>2, <2>3, <2>4, <2>5, <2>6, <2>7 DEF TypeOK, CallState
<1>2. \A x : Targets(x) = {} /\ Owns(x) = {} /\ Hooked(x) = {}
  BY DEF Init, Targets, Owns, Hooked
<1>3. RingInv
  BY <1>2 DEF Init, RingInv, Whole, Circle, NoRings, Idle, Freeing, Nodes
<1>4. CallInv
  BY HeapAssumption DEF Init, CallInv, Idle
<1>5. ASSUME NEW n \in Natives PROVE Counts(n)
  <2>1. Targets(n) = {} /\ Cardinality({}) = 0
    BY <1>2, FS_EmptySet
  <2> QED BY <2>1 DEF Init, Counts, Tally
<1>6. FastFailsOnCycleOnly
  BY DEF Init, FastFailsOnCycleOnly
<1> QED BY <1>1, <1>3, <1>4, <1>5, <1>6 DEF IInv, CountInv

\* Every step keeps the circles.
LEMMA NextRings ==
  ASSUME IInv, Next
  PROVE  RingInv'
<1>1. RingInv /\ CallInv
  BY DEF IInv
<1>2. ASSUME NtdllStep PROVE RingInv'
  <2>1. PICK n \in Natives : \/ NtdllLoads(n) \/ HostFrees(n)
                             \/ \E e \in Entries, b \in Blocks : RecordDependency(e, n, b)
    BY <1>2 DEF NtdllStep
  <2>2. CASE NtdllLoads(n) \/ HostFrees(n)
    BY <1>1, <2>2, RingsKept DEF NtdllLoads, HostFrees
  <2> QED BY <2>1, <2>2, RecordDependencyRings
<1>3. ASSUME MapStep PROVE RingInv'
  <2> DEFINE Elsewhere == /\ call.pc \notin {"dependencies", "release"}
                          /\ call'.pc \notin {"dependencies", "release"}
  <2>1. UNCHANGED ringVars /\ Elsewhere
    <3>1. call \in CallState
      BY CallTyped DEF IInv
    <3>2. ASSUME NEW e \in Entries, NEW b \in Bases, RtlAllocateDataTableEntry(e, b)
          PROVE  UNCHANGED ringVars /\ Elsewhere
      BY <3>2 DEF RtlAllocateDataTableEntry, Free, Idle
    <3>3. CASE \/ RtlInsertModuleBaseAddressIndexNode \/ DdagAllocated
               \/ RtlInitializeLdrDataTableEntry
      BY <3>1, <3>3 DEF RtlInsertModuleBaseAddressIndexNode, DdagAllocated,
         RtlInitializeLdrDataTableEntry, CallState
    <3>4. CASE IndexRefused \/ DdagRefused \/ RtlInsertMemoryTableEntry
      BY <3>4 DEF IndexRefused, DdagRefused, RtlInsertMemoryTableEntry, Idle
    <3> QED BY <1>3, <3>2, <3>3, <3>4 DEF MapStep
  <2> QED BY <1>1, <2>1, RingsKept
<1>4. ASSUME FreeStep PROVE RingInv'
  <2>1. CASE Removed
    BY <1>1, <2>1, RingsKept DEF Removed, Idle
  <2>2. CASE FastFail
    BY <1>1, <2>2, RingsKept DEF FastFail
  <2> QED BY <1>4, <2>1, <2>2, RtlFreeLdrDataTableEntryRings, UnlinkDependencyRings,
             ReleaseDependencyRings DEF FreeStep
<1> QED BY <1>2, <1>3, <1>4 DEF Next

\* Every step keeps the counts.
LEMMA NextCounts ==
  ASSUME IInv, Next
  PROVE  CountInv'
<1>1. CountInv /\ CallInv
  BY DEF IInv
<1>2. ASSUME NtdllStep PROVE CountInv'
  BY <1>2, NtdllLoadsCounts, HostFreesCounts, RecordDependencyCounts
     DEF NtdllStep
<1>3. ASSUME MapStep PROVE CountInv'
  <2>1. /\ UNCHANGED <<os, load, depCount, explicit, dep>>
        /\ \E e \in Entries : live' \subseteq live \cup {e} /\ live \subseteq live' \cup {e}
    <3>1. ASSUME NEW e \in Entries, NEW b \in Bases, RtlAllocateDataTableEntry(e, b)
          PROVE  /\ UNCHANGED <<os, load, depCount, explicit, dep>>
                 /\ live' \subseteq live \cup {e} /\ live \subseteq live' \cup {e}
      BY <3>1 DEF RtlAllocateDataTableEntry, ringVars, countVars
    <3>2. CASE \/ RtlInsertModuleBaseAddressIndexNode \/ IndexRefused \/ DdagAllocated
               \/ DdagRefused
               \/ RtlInitializeLdrDataTableEntry \/ RtlInsertMemoryTableEntry
      <4>1. call.entry \in Entries
        BY <1>1, <3>2 DEF CallInv, RtlInsertModuleBaseAddressIndexNode, IndexRefused, DdagAllocated,
           DdagRefused, RtlInitializeLdrDataTableEntry, RtlInsertMemoryTableEntry
      <4>2. UNCHANGED <<os, load, depCount, explicit, dep>>
        BY <3>2 DEF RtlInsertModuleBaseAddressIndexNode, IndexRefused, DdagAllocated, DdagRefused,
           RtlInitializeLdrDataTableEntry, RtlInsertMemoryTableEntry, ringVars, countVars
      <4>3. live' = live \/ live' = live \ {call.entry}
        BY <3>2 DEF RtlInsertModuleBaseAddressIndexNode, IndexRefused, DdagAllocated, DdagRefused,
           RtlInitializeLdrDataTableEntry, RtlInsertMemoryTableEntry
      <4> QED BY <4>1, <4>2, <4>3
    <3> QED BY <1>3, <3>1, <3>2 DEF MapStep
  <2>2. \A n \in Natives : n \in live' <=> n \in live
    BY <2>1, HeapAssumption
  <2> QED BY <1>1, <2>1, <2>2, CountsKept
<1>4. ASSUME FreeStep PROVE CountInv'
  <2>1. CASE \/ UnlinkDependency \/ FastFail \/ Removed
             \/ \E e \in Entries : RtlFreeLdrDataTableEntry(e)
    <3>1. UNCHANGED <<os, load, depCount, explicit, dep>>
      BY <2>1 DEF UnlinkDependency, FastFail, Removed, RtlFreeLdrDataTableEntry, ringVars, countVars
    <3>2. live' = live \/ (live' = live \ {call.entry} /\ call.entry \in Entries)
      BY <1>1, <2>1 DEF UnlinkDependency, FastFail, Removed, RtlFreeLdrDataTableEntry, CallInv
    <3>3. \A n \in Natives : n \in live' <=> n \in live
      BY <3>2, HeapAssumption
    <3> QED BY <1>1, <3>1, <3>3, CountsKept
  <2> QED BY <1>4, <2>1, ReleaseDependencyCounts DEF FreeStep
<1> QED BY <1>2, <1>3, <1>4 DEF Next

\* Every step keeps the invariant, whatever it is a step of.
LEMMA NextIInv == IInv /\ [Next]_vars => IInv'
<1> SUFFICES ASSUME IInv, [Next]_vars PROVE IInv'
  OBVIOUS
<1>1. CASE Next
  <2>1. TypeOK' /\ CallInv'
    BY <1>1, NtdllTypes, MapTypes, FreeTypes, NtdllEntries, MapEntries, FreeEntries DEF Next
  <2>2. RingInv' /\ CountInv' /\ FastFailsOnCycleOnly'
    BY <1>1, NextRings, NextCounts, NextFastFails
  <2> QED BY <2>1, <2>2 DEF IInv
<1>2. CASE UNCHANGED vars
  <2>1. UNCHANGED <<os, shared, live, ringVars, countVars, mapped, crashed, call>>
    BY <1>2 DEF vars
  <2>2. TypeOK'
    BY <1>2 DEF IInv, TypeOK, vars, treeVars, ringVars, countVars
  <2>3. RingInv'
    BY <2>1, RingsKept DEF IInv
  <2>4. CallInv'
    BY <2>1, EntriesKept DEF IInv, TypeOK
  <2>5. CountInv'
    BY <2>1, CountsKept DEF IInv, ringVars, countVars
  <2>6. FastFailsOnCycleOnly'
    BY <2>1 DEF IInv, FastFailsOnCycleOnly, Target, Current, ringVars
  <2> QED BY <2>2, <2>3, <2>4, <2>5, <2>6 DEF IInv
<1> QED BY <1>1, <1>2

\* Types, rings, counts and what is known of the entries hold in every state,
\* whatever fails and whenever ntdll runs.
THEOREM IInvariance == Spec => []IInv
<1> QED BY InitIInv, NextIInv, PTL DEF Spec

\* Every module's two rings of dependencies are circular lists of exactly its
\* dependencies, but for that of the entry being taken apart and for the dependency that
\* a round has unlinked and not yet freed: the walk from the head meets each block once
\* and is back.
THEOREM RingsTheorem == Spec => []RingsAreWhole
<1>1. ASSUME IInv PROVE RingsAreWhole
  <2>1. TypeOK /\ RingInv
    BY <1>1 DEF IInv
  <2>2. owned \in Ring /\ incoming \in Ring
    BY <2>1 DEF TypeOK
  <2>3. ASSUME NEW n \in Natives
        PROVE  IsRing(incoming, n, { b \in DOMAIN dep \ Unhooked : dep[b].target = n })
    <3>1. Whole(incoming, n, Hooked(n)) /\ Hooked(n) \in SUBSET Blocks /\ n \in Nodes
      BY <2>1, BlocksTyped DEF RingInv, Nodes, Hooked
    <3>2. IsRing(incoming, n, Hooked(n))
      BY <2>2, <3>1, WholeIsRing
    <3>3. Hooked(n) = { b \in DOMAIN dep \ Unhooked : dep[b].target = n }
      BY DEF Hooked, Targets
    <3> QED BY <3>2, <3>3
  <2>4. ASSUME NEW e \in Entries, e # call.entry
        PROVE  IsRing(owned, e, { b \in DOMAIN dep : dep[b].owner = e })
    <3>1. Whole(owned, e, Owns(e)) /\ Owns(e) \in SUBSET Blocks /\ e \in Nodes
      BY <2>1, <2>4, BlocksTyped DEF RingInv, Freeing, Nodes
    <3>2. IsRing(owned, e, Owns(e))
      BY <2>2, <3>1, WholeIsRing
    <3> QED BY <3>2 DEF Owns
  <2> QED BY <2>3, <2>4 DEF RingsAreWhole
<1> QED BY <1>1, IInvariance, PTL

\* A native module stays exactly while the host or an entry of this loader holds it.
THEOREM CountsTheorem == Spec => []CountsMatch
<1>1. ASSUME IInv PROVE CountsMatch
  <2>1. SUFFICES ASSUME NEW n \in Natives
                 PROVE  /\ load[n] + depCount[n] = explicit[n] + Holds(n)
                        /\ n \in live <=> explicit[n] + Holds(n) > 0
    BY DEF CountsMatch
  <2>2. Holds(n) = Cardinality(Targets(n))
    BY DEF Holds, Targets
  <2>3. /\ Tally(os, load[n], depCount[n], explicit[n], Cardinality(Targets(n)))
        /\ n \in live <=> load[n] + depCount[n] > 0
    BY <1>1 DEF IInv, CountInv, Counts
  <2>4. /\ load[n] \in Nat /\ depCount[n] \in Nat /\ explicit[n] \in Nat
        /\ Cardinality(Targets(n)) \in Nat
    BY <1>1, BlocksTyped DEF IInv, TypeOK
  <2>5. load[n] + depCount[n] = explicit[n] + Holds(n)
    BY <2>2, <2>3, <2>4 DEF Tally
  <2> QED BY <2>3, <2>5
<1> QED BY <1>1, IInvariance, PTL

\* Of the tests that end the process while an entry is taken apart only that for a target
\* in a cycle of imports can fail: the rings and the counts answer the others.
THEOREM FastFailTheorem == Spec => []FastFailsOnCycleOnly
<1>1. IInv => FastFailsOnCycleOnly
  BY DEF IInv
<1> QED BY <1>1, IInvariance, PTL

-----------------------------------------------------------------------------
(* The lists and the tree, when ntdll's loader waits for the end of a call. *)

\* The keys of the nodes: an entry goes into the tree before its DllBase is set.
Keys == [x \in Nodes |->
           IF x = call.entry /\ call.pc \in {"ddag", "fields"} THEN call.at ELSE base[x]]

Ascending(s, key) == \A i, j \in 1 .. Len(s) : i < j => key[s[i]] < key[s[j]]

\* Who is in the lists, and who is in the tree.
Linked ==
  mapped \cup (live \cap Natives)
    \cup { e \in {call.entry} : call.pc \in {"dependencies", "release", "remove"} }
Indexed == Linked \cup { e \in {call.entry} : call.pc \in {"ddag", "fields", "link"} }

OrderInv ==
  Defined => /\ modules = Linked
             /\ HasTree => ToSet(tree) = Indexed /\ Ascending(tree, Keys)

\* The sequence s is in order and has a gap at i for x.
HasGap(s, key, i, x) ==
  /\ s \in Seq(Nodes) /\ x \in Nodes /\ key \in [Nodes -> Nat] /\ Ascending(s, key)
  /\ i \in 1 .. Len(s) + 1
  /\ i > 1 => key[s[i - 1]] < key[x]
  /\ i <= Len(s) => key[x] < key[s[i]]

\* What goes in behind all smaller and before all larger leaves the order an order.
LEMMA InsertInOrder ==
  ASSUME NEW s, NEW key, NEW i, NEW x, HasGap(s, key, i, x)
  PROVE  Ascending(InsertAt(s, i, x), key) /\ ToSet(InsertAt(s, i, x)) = ToSet(s) \cup {x}
<1>1. /\ s \in Seq(Nodes) /\ x \in Nodes /\ i \in 1 .. Len(s) + 1 /\ Len(s) \in Nat
      /\ \A y \in Nodes : key[y] \in Nat
      /\ \A j, k \in 1 .. Len(s) : j < k => key[s[j]] < key[s[k]]
      /\ i > 1 => key[s[i - 1]] < key[x]
      /\ i <= Len(s) => key[x] < key[s[i]]
  BY DEF HasGap, Ascending
<1>2. PICK r : r = InsertAt(s, i, x)
  OBVIOUS
<1>3. /\ r \in Seq(Nodes) /\ Len(r) = Len(s) + 1
      /\ \A j \in 1 .. Len(s) + 1 : r[j] = IF j < i THEN s[j] ELSE IF j = i THEN x ELSE s[j - 1]
  <2>1. s \in Seq(Nodes) /\ x \in Nodes /\ i \in 1 .. Len(s) + 1
    BY <1>1
  <2>2. /\ InsertAt(s, i, x) \in Seq(Nodes) /\ Len(InsertAt(s, i, x)) = Len(s) + 1
        /\ \A j \in 1 .. Len(s) + 1 :
             InsertAt(s, i, x)[j] = IF j < i THEN s[j] ELSE IF j = i THEN x ELSE s[j - 1]
    BY <2>1, InsertItem
  <2> QED BY <1>2, <2>2
<1>4. \A j \in 1 .. Len(s) : key[s[j]] \in Nat
  BY <1>1, ElementOfSeq
<1>5. key[x] \in Nat
  BY <1>1
<1>6. ASSUME NEW j \in 1 .. Len(s), j < i PROVE key[s[j]] < key[x]
  <2>1. CASE j = i - 1
    BY <1>1, <1>6, <2>1
  <2>2. CASE j # i - 1
    <3>1. i - 1 \in 1 .. Len(s) /\ j < i - 1 /\ i > 1
      BY <1>1, <1>6, <2>2
    <3> QED BY <1>1, <1>4, <1>5, <3>1
  <2> QED BY <2>1, <2>2
<1>7. ASSUME NEW j \in 1 .. Len(s), i <= j PROVE key[x] < key[s[j]]
  <2>1. i \in 1 .. Len(s) /\ i <= Len(s)
    BY <1>1, <1>7
  <2>2. CASE j = i
    BY <1>1, <2>1, <2>2
  <2>3. CASE j # i
    BY <1>1, <1>4, <1>5, <1>7, <2>1, <2>3
  <2> QED BY <2>2, <2>3
<1>8. ASSUME NEW j \in 1 .. Len(r), NEW k \in 1 .. Len(r), j < k PROVE key[r[j]] < key[r[k]]
  <2>1. CASE k < i
    <3>1. r[j] = s[j] /\ r[k] = s[k] /\ j \in 1 .. Len(s) /\ k \in 1 .. Len(s)
      BY <1>1, <1>3, <1>8, <2>1
    <3> QED BY <1>1, <1>8, <3>1
  <2>2. CASE k = i
    <3>1. r[j] = s[j] /\ r[k] = x /\ j \in 1 .. Len(s) /\ j < i
      BY <1>1, <1>3, <1>8, <2>2
    <3> QED BY <1>6, <3>1
  <2>3. CASE k > i
    <3>1. r[k] = s[k - 1] /\ k - 1 \in 1 .. Len(s) /\ i <= k - 1
      BY <1>1, <1>3, <1>8, <2>3
    <3>2. CASE j < i
      <4>1. r[j] = s[j] /\ j \in 1 .. Len(s) /\ j < k - 1
        BY <1>1, <1>3, <1>8, <2>3, <3>2
      <4> QED BY <1>1, <3>1, <4>1
    <3>3. CASE j = i
      <4>1. r[j] = x
        BY <1>3, <3>3
      <4> QED BY <1>7, <3>1, <4>1
    <3>4. CASE j > i
      <4>1. r[j] = s[j - 1] /\ j - 1 \in 1 .. Len(s) /\ j - 1 < k - 1
        BY <1>1, <1>3, <1>8, <3>4
      <4> QED BY <1>1, <3>1, <4>1
    <3> QED BY <1>1, <1>8, <3>2, <3>3, <3>4
  <2> QED BY <1>1, <1>3, <2>1, <2>2, <2>3
<1>9. DOMAIN r = 1 .. Len(s) + 1 /\ DOMAIN s = 1 .. Len(s)
  BY <1>1, <1>3, LenProperties
<1>10. ASSUME NEW j \in 1 .. Len(s) + 1 PROVE r[j] \in ToSet(s) \cup {x}
  <2>1. CASE j < i
    BY <1>1, <1>3, <1>9, <2>1 DEF ToSet
  <2>2. CASE j > i
    <3>1. j - 1 \in 1 .. Len(s) /\ r[j] = s[j - 1]
      BY <1>1, <1>3, <2>2
    <3> QED BY <1>9, <3>1 DEF ToSet
  <2> QED BY <1>1, <1>3, <2>1, <2>2
<1>11. ASSUME NEW j \in 1 .. Len(s) PROVE s[j] \in ToSet(r)
  <2>1. CASE j < i
    BY <1>1, <1>3, <1>9, <2>1 DEF ToSet
  <2>2. CASE ~(j < i)
    <3>1. j + 1 \in 1 .. Len(s) + 1 /\ r[j + 1] = s[j]
      BY <1>1, <1>3, <2>2
    <3> QED BY <1>9, <3>1 DEF ToSet
  <2> QED BY <2>1, <2>2
<1>12. x \in ToSet(r)
  BY <1>1, <1>3, <1>9 DEF ToSet
<1>13. ToSet(r) = ToSet(s) \cup {x}
  BY <1>9, <1>10, <1>11, <1>12 DEF ToSet
<1> QED BY <1>2, <1>8, <1>13 DEF Ascending

\* Nothing that is in order occurs twice, and taking one out leaves the rest in order.
LEMMA RemoveInOrder ==
  ASSUME NEW s \in Seq(Nodes), NEW key \in [Nodes -> Nat], Ascending(s, key), NEW x
  PROVE  /\ Ascending(RemoveFirst(s, x), key) /\ ToSet(RemoveFirst(s, x)) = ToSet(s) \ {x}
         /\ IsInjective(s)
<1>1. /\ Len(s) \in Nat /\ DOMAIN s = 1 .. Len(s)
      /\ \A j, k \in 1 .. Len(s) : j < k => key[s[j]] < key[s[k]]
      /\ \A j \in 1 .. Len(s) : key[s[j]] \in Nat
  BY LenProperties, ElementOfSeq DEF Ascending
<1>2. ASSUME NEW j \in 1 .. Len(s), NEW k \in 1 .. Len(s), s[j] = s[k] PROVE j = k
  BY <1>1, <1>2
<1>3. IsInjective(s)
  BY <1>1, <1>2 DEF IsInjective
<1>4. CASE RemoveFirst(s, x) = s /\ \A i \in 1 .. Len(s) : s[i] # x
  <2>1. ToSet(s) = ToSet(s) \ {x}
    BY <1>1, <1>4 DEF ToSet
  <2> QED BY <1>3, <1>4, <2>1
<1>5. CASE \E i \in 1 .. Len(s) : s[i] = x /\ RemoveFirst(s, x) = RemoveAt(s, i)
  <2>1. PICK i \in 1 .. Len(s) : s[i] = x /\ RemoveFirst(s, x) = RemoveAt(s, i)
    BY <1>5
  <2>2. PICK r : r = RemoveAt(s, i)
    OBVIOUS
  <2>3. /\ r \in Seq(Nodes) /\ Len(r) = Len(s) - 1
        /\ \A j \in 1 .. Len(s) - 1 : r[j] = IF j < i THEN s[j] ELSE s[j + 1]
    BY <2>2, EraseItem
  <2>4. /\ DOMAIN r = 1 .. Len(s) - 1 /\ Len(s) \in Nat /\ i \in 1 .. Len(s)
        /\ Len(r) = Len(s) - 1
    BY <1>1, <2>3, LenProperties
  <2>5. ASSUME NEW j \in 1 .. Len(s) - 1
        PROVE  \E k \in 1 .. Len(s) : r[j] = s[k] /\ k # i /\ k = IF j < i THEN j ELSE j + 1
    <3>1. CASE j < i
      <4>1. j \in 1 .. Len(s) /\ j # i
        BY <2>4, <3>1
      <4>2. r[j] = s[j]
        BY <2>3, <3>1
      <4> QED BY <3>1, <4>1, <4>2
    <3>2. CASE ~(j < i)
      <4>1. j + 1 \in 1 .. Len(s) /\ j + 1 # i
        BY <2>4, <3>2
      <4>2. r[j] = s[j + 1]
        BY <2>3, <3>2
      <4> QED BY <3>2, <4>1, <4>2
    <3> QED BY <3>1, <3>2
  <2>6. ASSUME NEW j \in 1 .. Len(r), NEW k \in 1 .. Len(r), j < k PROVE key[r[j]] < key[r[k]]
    <3>1. PICK a \in 1 .. Len(s) : r[j] = s[a] /\ a = IF j < i THEN j ELSE j + 1
      BY <2>3, <2>5
    <3>2. PICK b \in 1 .. Len(s) : r[k] = s[b] /\ b = IF k < i THEN k ELSE k + 1
      BY <2>3, <2>5
    <3>3. a < b
      <4>1. j \in Nat /\ k \in Nat /\ i \in Nat
        BY <2>4
      <4>2. CASE j < i
        BY <2>6, <3>1, <3>2, <4>1, <4>2
      <4>3. CASE ~(j < i)
        <5>1. ~(k < i)
          BY <2>6, <4>1, <4>3
        <5> QED BY <2>6, <3>1, <3>2, <4>1, <4>3, <5>1
      <4> QED BY <4>2, <4>3
    <3> QED BY <1>1, <3>1, <3>2, <3>3
  <2>7. ASSUME NEW j \in 1 .. Len(s) - 1 PROVE r[j] \in ToSet(s) \ {x}
    <3>1. PICK k \in 1 .. Len(s) : r[j] = s[k] /\ k # i
      BY <2>5
    <3> QED BY <1>1, <1>2, <2>1, <3>1 DEF ToSet
  <2>8. ASSUME NEW j \in 1 .. Len(s), s[j] # x PROVE s[j] \in ToSet(r)
    <3>1. CASE j < i
      <4>1. j \in 1 .. Len(s) - 1
        BY <2>4, <3>1
      <4>2. r[j] = s[j]
        BY <2>3, <3>1, <4>1
      <4> QED BY <2>4, <4>1, <4>2 DEF ToSet
    <3>2. CASE ~(j < i)
      <4>1. j # i
        BY <2>1, <2>8
      <4>2. j - 1 \in 1 .. Len(s) - 1 /\ ~(j - 1 < i) /\ (j - 1) + 1 = j
        BY <2>4, <3>2, <4>1
      <4>3. r[j - 1] = s[j]
        BY <2>3, <4>2
      <4> QED BY <2>4, <4>2, <4>3 DEF ToSet
    <3> QED BY <3>1, <3>2
  <2>9. ToSet(r) = ToSet(s) \ {x}
    BY <1>1, <2>4, <2>7, <2>8 DEF ToSet
  <2> QED BY <1>3, <2>1, <2>2, <2>6, <2>9 DEF Ascending
<1> QED BY <1>4, <1>5, RemoveItem

\* The order depends on the keys of the items.
LEMMA OrderElsewhere ==
  ASSUME NEW s \in Seq(Nodes), NEW key, NEW new, Ascending(s, key),
         \A x \in ToSet(s) : new[x] = key[x]
  PROVE  Ascending(s, new)
<1>1. \A i \in 1 .. Len(s) : s[i] \in ToSet(s)
  BY LenProperties DEF ToSet
<1> QED BY <1>1 DEF Ascending

\* The list, the tree and the keys are typed.
LEMMA OrderTyped ==
  ASSUME IInv
  PROVE  /\ Keys \in [Nodes -> Nat] /\ tree \in Seq(Nodes)
         /\ mapped \subseteq Entries /\ (call.pc # "idle" => call.entry \in Entries)
         /\ Linked \subseteq Nodes /\ Indexed \subseteq Nodes
         /\ \A n \in Natives : (n \in Linked <=> n \in live) /\ (n \in Indexed <=> n \in live)
<1>1. /\ base \in [Nodes -> Bases \cup {0}] /\ call.at \in Bases \cup {0} /\ tree \in Seq(Nodes)
      /\ mapped \subseteq Entries /\ (call.pc # "idle" => call.entry \in Entries)
  BY CallTyped DEF IInv, TypeOK, CallInv, CallState
<1>2. Bases \cup {0} \subseteq Nat
  BY BasesAssumption
<1>3. Keys \in [Nodes -> Nat]
  <2>1. \A x \in Nodes : base[x] \in Nat
    BY <1>1, <1>2
  <2>2. call.at \in Nat
    BY <1>1, <1>2
  <2> QED BY <2>1, <2>2 DEF Keys
<1>4. Linked \subseteq Nodes /\ Indexed \subseteq Nodes
  BY <1>1 DEF Linked, Indexed, Nodes
<1>5. \A n \in Natives : (n \in Linked <=> n \in live) /\ (n \in Indexed <=> n \in live)
  BY <1>1, HeapAssumption DEF Linked, Indexed
<1> QED BY <1>1, <1>3, <1>4, <1>5

\* ntdll takes a module out of the lists and the tree, or leaves all as it is.
LEMMA SettledOrder ==
  ASSUME IInv, OrderInv, NEW n \in Natives, NEW l \in Nat, NEW d \in Nat, Settled(n, l, d),
         UNCHANGED <<os, mapped, stray, crashed>>, call'.entry = call.entry, call'.at = call.at,
         \/ call'.pc = call.pc
         \/ call.pc = "release" /\ call'.pc \in {"dependencies", "remove"}
  PROVE  OrderInv'
<1>1. (Defined' <=> Defined) /\ (HasTree' <=> HasTree)
  BY DEF Defined, HasTree
<1>2. PICK c : c = { e \in {call.entry} : call.pc \in {"dependencies", "release", "remove"} }
  OBVIOUS
<1>3. PICK i : i = { e \in {call.entry} : call.pc \in {"ddag", "fields", "link"} }
  OBVIOUS
<1>4. /\ Linked = mapped \cup (live \cap Natives) \cup c /\ Indexed = Linked \cup i
      /\ Linked' = mapped \cup (live' \cap Natives) \cup c /\ Indexed' = Linked' \cup i
      /\ n \notin mapped /\ n \notin c /\ n \notin i
  <2>1. { e \in {call'.entry} : call'.pc \in {"dependencies", "release", "remove"} } = c
    BY <1>2
  <2>2. { e \in {call'.entry} : call'.pc \in {"ddag", "fields", "link"} } = i
    BY <1>3
  <2>3. n \notin mapped /\ n \notin c /\ n \notin i
    BY <1>2, <1>3, OrderTyped, HeapAssumption
  <2> QED BY <1>2, <1>3, <2>1, <2>2, <2>3 DEF Linked, Indexed
<1>5. CASE l = 0 /\ d = 0
  <2>1. /\ live' = live \ {n} /\ modules' = modules \ {n}
        /\ tree' = RemoveFirst(tree, n) /\ base' = [base EXCEPT ![n] = 0]
    BY <1>5 DEF Settled
  <2>2. Linked' = Linked \ {n} /\ Indexed' = Indexed \ {n}
    BY <1>4, <2>1
  <2>3. \A x \in Nodes : x # n => Keys'[x] = Keys[x]
    <3>1. \A x \in Nodes : x # n => base'[x] = base[x]
      BY <2>1 DEF IInv, TypeOK
    <3> QED BY <3>1 DEF Keys
  <2>4. ASSUME Defined, HasTree PROVE ToSet(tree') = Indexed' /\ Ascending(tree', Keys')
    <3>1. ToSet(tree) = Indexed /\ Ascending(tree, Keys)
      BY <2>4 DEF OrderInv
    <3>2. /\ Ascending(RemoveFirst(tree, n), Keys)
          /\ ToSet(RemoveFirst(tree, n)) = ToSet(tree) \ {n}
      BY <3>1, OrderTyped, RemoveInOrder
    <3>3. tree' \in Seq(Nodes) /\ tree \in Seq(Nodes)
      BY <2>1, OrderTyped, SequencesTyped
    <3>4. \A x \in ToSet(tree') : Keys'[x] = Keys[x]
      BY <2>1, <2>3, <3>1, <3>2, OrderTyped
    <3>5. Ascending(tree', Keys')
      BY <2>1, <3>2, <3>3, <3>4, OrderElsewhere
    <3> QED BY <2>1, <2>2, <3>1, <3>2, <3>5
  <2>5. Defined => modules' = Linked'
    BY <2>1, <2>2 DEF OrderInv
  <2> QED BY <1>1, <2>4, <2>5 DEF OrderInv
<1>6. CASE ~(l = 0 /\ d = 0)
  <2>1. UNCHANGED <<live, base, modules, tree>>
    BY <1>6 DEF Settled, treeVars
  <2>2. Linked' = Linked /\ Indexed' = Indexed /\ Keys' = Keys
    BY <1>4, <2>1 DEF Keys
  <2> QED BY <1>1, <2>1, <2>2 DEF OrderInv, Ascending, ToSet
<1> QED BY <1>5, <1>6

\* A step that leaves the lists and the tree alone, and who is in them.
LEMMA OrderKept ==
  ASSUME IInv, OrderInv, UNCHANGED <<os, modules, tree>>, Defined' => Defined,
         Linked' = Linked, HasTree => Indexed' = Indexed,
         \A x \in Nodes : HasTree /\ x \in Indexed => Keys'[x] = Keys[x]
  PROVE  OrderInv'
<1>1. HasTree' <=> HasTree
  BY DEF HasTree
<1>2. ASSUME Defined, HasTree PROVE ToSet(tree') = Indexed' /\ Ascending(tree', Keys')
  <2>1. ToSet(tree) = Indexed /\ Ascending(tree, Keys)
    BY <1>2 DEF OrderInv
  <2>2. \A x \in ToSet(tree) : Keys'[x] = Keys[x]
    BY <1>2, <2>1, OrderTyped
  <2>3. Ascending(tree, Keys')
    BY <2>1, <2>2, OrderTyped, OrderElsewhere
  <2> QED BY <1>2, <2>1, <2>3
<1>3. Defined => modules' = Linked'
  BY DEF OrderInv
<1> QED BY <1>1, <1>2, <1>3 DEF OrderInv

\* A node goes into the tree.
LEMMA TreeWithOrder ==
  ASSUME IInv, OrderInv, Defined, HasTree, NEW x \in Nodes, NEW k \in Nat, tree' \in TreeWith(x, k),
         x \notin Indexed, \A y \in Nodes : y # x => Keys'[y] = Keys[y] /\ Keys[y] = base[y],
         Keys' \in [Nodes -> Nat], Keys'[x] = k
  PROVE  ToSet(tree') = Indexed \cup {x} /\ Ascending(tree', Keys')
<1>1. PICK g \in 1 .. Len(tree) + 1 : IsGap(k, g) /\ tree' = InsertAt(tree, g, x)
  BY DEF TreeWith
<1>2. /\ tree \in Seq(Nodes) /\ Len(tree) \in Nat /\ ToSet(tree) = Indexed /\ Ascending(tree, Keys)
      /\ \A i \in 1 .. Len(tree) : tree[i] \in Nodes /\ tree[i] \in ToSet(tree)
  BY OrderTyped, LenProperties, ElementOfSeq DEF OrderInv, ToSet
<1>3. ASSUME NEW i \in 1 .. Len(tree) PROVE Keys'[tree[i]] = base[tree[i]]
  <2>1. tree[i] \in Nodes /\ tree[i] # x
    BY <1>2
  <2> QED BY <2>1
<1>4. Ascending(tree, Keys')
  BY <1>2, OrderElsewhere, OrderTyped
<1>5. g > 1 => Keys'[tree[g - 1]] < Keys'[x]
  <2>1. SUFFICES ASSUME g > 1 PROVE Keys'[tree[g - 1]] < Keys'[x]
    OBVIOUS
  <2>2. g - 1 \in 1 .. Len(tree) /\ base[tree[g - 1]] < k
    BY <1>1, <1>2, <2>1 DEF IsGap
  <2> QED BY <1>3, <2>2
<1>6. g <= Len(tree) => Keys'[x] < Keys'[tree[g]]
  <2>1. SUFFICES ASSUME g <= Len(tree) PROVE Keys'[x] < Keys'[tree[g]]
    OBVIOUS
  <2>2. g \in 1 .. Len(tree) /\ k < base[tree[g]]
    BY <1>1, <1>2, <2>1 DEF IsGap
  <2> QED BY <1>3, <2>2
<1>7. HasGap(tree, Keys', g, x)
  BY <1>1, <1>2, <1>4, <1>5, <1>6 DEF HasGap
<1>8. /\ Ascending(InsertAt(tree, g, x), Keys')
      /\ ToSet(InsertAt(tree, g, x)) = ToSet(tree) \cup {x}
  BY <1>7, InsertInOrder
<1> QED BY <1>1, <1>2, <1>8

\* Steps of ntdll between two calls keep the order,
LEMMA NtdllOrder ==
  ASSUME "ntdll" \notin Overlap, IInv, OrderInv, NtdllStep
  PROVE  OrderInv'
<1>1. PICK n \in Natives : \/ NtdllLoads(n) \/ HostFrees(n)
                           \/ \E e \in Entries, b \in Blocks : RecordDependency(e, n, b)
  BY DEF NtdllStep
<1>2. TypeOK /\ n \in Nodes
  BY DEF IInv, Nodes
<1>3. CASE NtdllLoads(n)
  <2>1. /\ Defined /\ call.pc \in {"idle", "dependencies", "release"}
        /\ UNCHANGED <<os, mapped, stray, crashed, call>>
        /\ IF n \in live THEN UNCHANGED <<live, base, modules, tree>>
           ELSE \E b \in FreeBases :
                  /\ live' = live \cup {n}
                  /\ base' = [base EXCEPT ![n] = b]
                  /\ modules' = modules \cup {n}
                  /\ IF HasTree THEN tree' \in TreeWith(n, b) ELSE UNCHANGED tree
    BY <1>3 DEF NtdllLoads, NtdllRuns, treeVars
  <2>2. CASE n \in live
    <3>1. UNCHANGED <<os, live, base, modules, tree, mapped, stray, crashed, call>>
      BY <2>1, <2>2
    <3> QED BY <3>1, OrderKept DEF Linked, Indexed, Keys, Defined
  <2>3. CASE n \notin live
    <3>1. PICK b \in FreeBases :
            /\ live' = live \cup {n}
            /\ base' = [base EXCEPT ![n] = b]
            /\ modules' = modules \cup {n}
            /\ IF HasTree THEN tree' \in TreeWith(n, b) ELSE UNCHANGED tree
      BY <2>1, <2>3
    <3>2. b \in Nat /\ n \notin Indexed
      BY <2>3, BasesAssumption, OrderTyped DEF FreeBases
    <3>3. Linked' = Linked \cup {n} /\ Indexed' = Indexed \cup {n}
      BY <2>1, <3>1 DEF Linked, Indexed
    <3>4. /\ Keys'[n] = b /\ Keys' \in [Nodes -> Nat]
          /\ \A y \in Nodes : y # n => Keys'[y] = Keys[y] /\ Keys[y] = base[y]
      <4>1. /\ base'[n] = b /\ base' \in [Nodes -> Bases \cup {0}]
            /\ \A y \in Nodes : y # n => base'[y] = base[y]
        BY <1>2, <3>1 DEF TypeOK, FreeBases
      <4>2. \A y \in Nodes : Keys'[y] = base'[y] /\ Keys[y] = base[y]
        BY <2>1 DEF Keys
      <4>3. DOMAIN Keys' = Nodes /\ Keys' = [y \in Nodes |-> Keys'[y]]
        BY DEF Keys
      <4>4. Keys' \in [Nodes -> Nat]
        <5>1. Bases \cup {0} \subseteq Nat
          BY BasesAssumption
        <5>2. \A y \in Nodes : base'[y] \in Nat
          BY <4>1, <5>1
        <5> QED BY <4>2, <4>3, <5>2
      <4> QED BY <1>2, <4>1, <4>2, <4>4
    <3>5. HasTree => ToSet(tree') = Indexed' /\ Ascending(tree', Keys')
      BY <1>2, <2>1, <3>1, <3>2, <3>3, <3>4, TreeWithOrder
    <3>6. modules' = Linked'
      BY <2>1, <3>1, <3>3 DEF OrderInv
    <3>7. HasTree' <=> HasTree
      BY <2>1 DEF HasTree
    <3> QED BY <3>5, <3>6, <3>7 DEF OrderInv
  <2> QED BY <2>2, <2>3
<1>4. CASE HostFrees(n)
  <2>1. /\ Settled(n, load[n] - 1, depCount[n]) /\ explicit[n] > 0
        /\ UNCHANGED <<os, mapped, stray, crashed, call>>
    BY <1>4 DEF HostFrees, LdrUnloadDll
  <2>2. load[n] - 1 \in Nat /\ depCount[n] \in Nat
    BY <2>1, HeldCounts
  <2> QED BY <2>1, <2>2, SettledOrder
<1>5. ASSUME NEW e \in Entries, NEW b \in Blocks, RecordDependency(e, n, b) PROVE OrderInv'
  <2>1. UNCHANGED <<os, live, base, modules, tree, mapped, stray, crashed, call>>
    BY <1>5 DEF RecordDependency, treeVars
  <2> QED BY <2>1, OrderKept DEF Linked, Indexed, Keys, Defined
<1> QED BY <1>1, <1>3, <1>4, <1>5

\* and so do the steps of a load,
LEMMA MapOrder ==
  ASSUME IInv, OrderInv, MapStep
  PROVE  OrderInv'
<1>1. TypeOK /\ CallInv /\ call \in CallState /\ Idle.pc = "idle" /\ Idle.entry = None
  BY CallTyped DEF IInv, Idle
<1>2. \A x \in Nodes : base[x] \in Nat
  BY BasesAssumption DEF IInv, TypeOK
<1>3. ASSUME NEW e \in Entries, NEW b \in Bases, RtlAllocateDataTableEntry(e, b) PROVE OrderInv'
  <2>1. /\ call.pc = "idle" /\ call'.pc \in {"index", "fields"} /\ call'.entry = e
        /\ (call'.pc = "fields" => ~HasTree)
        /\ e \notin live /\ live' = live \cup {e} /\ base' = [base EXCEPT ![e] = 0]
        /\ UNCHANGED <<os, modules, tree, mapped, stray, crashed>>
    BY <1>3 DEF RtlAllocateDataTableEntry, Free, Idle, treeVars
  <2>2. Linked' = Linked
    BY <2>1, HeapAssumption DEF Linked
  <2>3. HasTree => Indexed' = Indexed
    BY <2>1, <2>2 DEF Indexed
  <2>4. e \notin Indexed
    BY <1>1, <2>1 DEF Indexed, Linked, CallInv
  <2>5. \A x \in Nodes : HasTree /\ x \in Indexed => Keys'[x] = Keys[x]
    BY <1>1, <2>1, <2>4 DEF Keys, TypeOK
  <2> QED BY <2>1, <2>2, <2>3, <2>5, OrderKept DEF Defined
<1>4. CASE RtlInsertModuleBaseAddressIndexNode
  <2>1. PICK e : e = call.entry
    OBVIOUS
  <2>2. /\ Defined /\ call.pc = "index" /\ tree' \in TreeWith(e, call.at)
        /\ call'.pc = "ddag" /\ call'.entry = e /\ call'.at = call.at
        /\ UNCHANGED <<os, live, base, modules, mapped, stray, crashed>>
    BY <1>1, <1>4, <2>1 DEF RtlInsertModuleBaseAddressIndexNode, CallState
  <2>3. e \in Entries /\ e \in Nodes /\ e \notin mapped
    BY <1>1, <2>1, <2>2 DEF CallInv, Nodes
  <2>4. Linked' = Linked /\ Indexed' = Indexed \cup {e} /\ e \notin Indexed
    BY <2>1, <2>2, <2>3, HeapAssumption DEF Linked, Indexed
  <2>5. /\ Keys'[e] = call.at /\ Keys' \in [Nodes -> Nat] /\ call.at \in Nat
        /\ \A y \in Nodes : y # e => Keys'[y] = Keys[y] /\ Keys[y] = base[y]
    <3>1. call.at \in Nat
      <4>1. Bases \cup {0} \subseteq Nat
        BY BasesAssumption
      <4>2. call.at \in Bases \cup {0}
        BY <1>1 DEF CallState
      <4> QED BY <4>1, <4>2
    <3>2. /\ Keys'[e] = call.at
          /\ \A y \in Nodes : y # e => Keys'[y] = base[y] /\ Keys[y] = base[y]
      BY <2>1, <2>2, <2>3 DEF Keys
    <3>3. Keys' = [y \in Nodes |-> Keys'[y]]
      BY DEF Keys
    <3> QED BY <1>2, <3>1, <3>2, <3>3
  <2>6. HasTree => ToSet(tree') = Indexed' /\ Ascending(tree', Keys')
    BY <2>2, <2>3, <2>4, <2>5, TreeWithOrder
  <2>7. modules' = Linked'
    BY <2>2, <2>4 DEF OrderInv
  <2>8. HasTree' <=> HasTree
    BY <2>2 DEF HasTree
  <2> QED BY <2>6, <2>7, <2>8 DEF OrderInv
<1>5. CASE IndexRefused
  <2>1. /\ call.pc = "index" /\ call' = Idle /\ live' = live \ {call.entry}
        /\ UNCHANGED <<os, base, modules, tree, mapped, stray, crashed>>
    BY <1>5 DEF IndexRefused, treeVars
  <2>2. Linked' = Linked /\ Indexed' = Indexed
    BY <1>1, <2>1, HeapAssumption DEF Linked, Indexed, CallInv
  <2>3. \A x \in Nodes : Keys'[x] = Keys[x]
    BY <1>1, <2>1 DEF Keys
  <2> QED BY <2>1, <2>2, <2>3, OrderKept DEF Defined
<1>6. CASE DdagAllocated
  <2>1. /\ call.pc = "ddag" /\ call'.pc = "fields" /\ call'.entry = call.entry /\ call'.at = call.at
        /\ UNCHANGED <<os, live, base, modules, tree, mapped, stray, crashed>>
    BY <1>1, <1>6 DEF DdagAllocated, CallState, treeVars
  <2>2. Linked' = Linked /\ Indexed' = Indexed
    BY <2>1 DEF Linked, Indexed
  <2>3. \A x \in Nodes : Keys'[x] = Keys[x]
    BY <2>1 DEF Keys
  <2> QED BY <2>1, <2>2, <2>3, OrderKept DEF Defined
<1>7. CASE DdagRefused
  <2>1. ~Defined'
    BY <1>7 DEF DdagRefused, Defined
  <2> QED BY <2>1 DEF OrderInv
<1>8. CASE RtlInitializeLdrDataTableEntry
  <2>1. /\ call.pc = "fields" /\ call'.pc = "link" /\ call'.entry = call.entry /\ call'.at = call.at
        /\ base' = [base EXCEPT ![call.entry] = call.at]
        /\ UNCHANGED <<os, live, modules, tree, mapped, stray, crashed>>
    BY <1>1, <1>8 DEF RtlInitializeLdrDataTableEntry, CallState, treeVars
  <2>2. Linked' = Linked /\ Indexed' = Indexed
    BY <2>1 DEF Linked, Indexed
  <2>3. \A x \in Nodes : Keys'[x] = Keys[x]
    BY <1>1, <2>1 DEF Keys, TypeOK
  <2> QED BY <2>1, <2>2, <2>3, OrderKept DEF Defined
<1>9. CASE RtlInsertMemoryTableEntry
  <2>1. /\ call.pc = "link" /\ call' = Idle /\ modules' = modules \cup {call.entry}
        /\ mapped' = mapped \cup {call.entry}
        /\ UNCHANGED <<os, live, base, tree, stray, crashed>>
    BY <1>9 DEF RtlInsertMemoryTableEntry
  <2>2. Linked' = Linked \cup {call.entry} /\ Indexed' = Indexed
    BY <1>1, <2>1 DEF Linked, Indexed
  <2>3. Keys' = Keys
    BY <1>1, <2>1 DEF Keys
  <2>4. (Defined' <=> Defined) /\ (HasTree' <=> HasTree)
    BY <2>1 DEF Defined, HasTree
  <2> QED BY <2>1, <2>2, <2>3, <2>4 DEF OrderInv, Ascending, ToSet
<1> QED BY <1>3, <1>4, <1>5, <1>6, <1>7, <1>8, <1>9 DEF MapStep

\* and of an unload.
LEMMA FreeOrder ==
  ASSUME IInv, OrderInv, FreeStep
  PROVE  OrderInv'
<1>1. TypeOK /\ CallInv /\ call \in CallState /\ Idle.pc = "idle" /\ Idle.entry = None
  BY CallTyped DEF IInv, Idle
<1>2. ASSUME NEW e \in Entries, RtlFreeLdrDataTableEntry(e) PROVE OrderInv'
  <2>1. /\ call.pc = "idle" /\ call'.pc \in {"dependencies", "release", "remove"}
        /\ call'.entry = e
        /\ e \in mapped /\ mapped' = mapped \ {e}
        /\ UNCHANGED <<os, live, base, modules, tree, stray, crashed>>
    BY <1>2 DEF RtlFreeLdrDataTableEntry, Free, Idle, treeVars
  <2>2. Linked' = Linked /\ Indexed' = Indexed
    BY <2>1 DEF Linked, Indexed
  <2>3. \A x \in Nodes : Keys'[x] = Keys[x]
    BY <2>1 DEF Keys
  <2> QED BY <2>1, <2>2, <2>3, OrderKept DEF Defined
<1>3. CASE UnlinkDependency
  <2>1. /\ call.pc = "dependencies" /\ call'.pc = "release" /\ call'.entry = call.entry
        /\ UNCHANGED <<os, live, base, modules, tree, mapped, stray, crashed>>
    BY <1>1, <1>3 DEF UnlinkDependency, CallState, treeVars
  <2>2. Linked' = Linked /\ Indexed' = Indexed
    BY <2>1 DEF Linked, Indexed
  <2>3. \A x \in Nodes : Keys'[x] = Keys[x]
    BY <2>1 DEF Keys
  <2> QED BY <2>1, <2>2, <2>3, OrderKept DEF Defined
<1>4. CASE ReleaseDependency
  <2>1. PICK n, next : n = Target /\ next = owned.next[Current]
    OBVIOUS
  <2>2. /\ Released(n) /\ call.pc = "release"
        /\ call' = [call EXCEPT !.pc = IF next = call.first THEN "remove" ELSE "dependencies"]
        /\ UNCHANGED <<os, mapped, stray, crashed>>
    BY <1>4, <2>1 DEF ReleaseDependency
  <2>3. Targets(n) # {} /\ n \in Natives
    BY <2>1, <2>2, FreesBlock
  <2>4. /\ call'.entry = call.entry /\ call'.at = call.at
        /\ call'.pc \in {"dependencies", "remove"}
    BY <1>1, <2>2 DEF CallState
  <2>5. /\ load[n] \in Nat /\ depCount[n] \in Nat
        /\ IF os < Ten THEN depCount[n] > 0 ELSE load[n] > 0
    BY <2>3, HeldCounts
  <2>6. CASE os < Ten
    <3>1. Settled(n, load[n], depCount[n] - 1) /\ depCount[n] - 1 \in Nat
      BY <2>2, <2>5, <2>6 DEF Released
    <3> QED BY <2>2, <2>3, <2>4, <2>5, <3>1, SettledOrder
  <2>7. CASE ~(os < Ten)
    <3>1. Settled(n, load[n] - 1, depCount[n]) /\ load[n] - 1 \in Nat
      BY <2>2, <2>5, <2>7 DEF Released, LdrUnloadDll
    <3> QED BY <2>2, <2>3, <2>4, <2>5, <3>1, SettledOrder
  <2> QED BY <2>6, <2>7
<1>5. CASE FastFail
  <2>1. ~Defined'
    BY <1>5 DEF FastFail, Defined
  <2> QED BY <2>1 DEF OrderInv
<1>6. CASE Removed
  <2>1. PICK e : e = call.entry
    OBVIOUS
  <2>2. /\ call.pc = "remove" /\ call' = Idle /\ live' = live \ {e} /\ modules' = modules \ {e}
        /\ tree' = RemoveFirst(tree, e) /\ base' = [base EXCEPT ![e] = 0]
        /\ UNCHANGED <<os, mapped, stray, crashed>>
    BY <1>6, <2>1 DEF Removed
  <2>3. e \in Entries /\ e \in Nodes /\ e \notin mapped
    BY <1>1, <2>1, <2>2 DEF CallInv, Nodes
  <2>4. Linked' = Linked \ {e} /\ Indexed' = Indexed \ {e}
    BY <1>1, <2>1, <2>2, <2>3, HeapAssumption DEF Linked, Indexed
  <2>5. (Defined' <=> Defined) /\ (HasTree' <=> HasTree)
    BY <2>2 DEF Defined, HasTree
  <2>6. ASSUME Defined, HasTree PROVE ToSet(tree') = Indexed' /\ Ascending(tree', Keys')
    <3>1. ToSet(tree) = Indexed /\ Ascending(tree, Keys)
      BY <2>6 DEF OrderInv
    <3>2. Ascending(tree', Keys) /\ ToSet(tree') = ToSet(tree) \ {e}
      BY <2>2, <3>1, OrderTyped, RemoveInOrder
    <3>3. \A x \in Nodes : x # e => Keys'[x] = Keys[x]
      BY <1>1, <2>2 DEF Keys, TypeOK
    <3>4. \A x \in ToSet(tree') : Keys'[x] = Keys[x]
      BY <3>1, <3>2, <3>3, OrderTyped
    <3>5. tree' \in Seq(Nodes)
      BY <2>2, OrderTyped, SequencesTyped
    <3>6. Ascending(tree', Keys')
      BY <3>2, <3>4, <3>5, OrderElsewhere
    <3> QED BY <2>4, <3>1, <3>2, <3>6
  <2>7. Defined => modules' = Linked'
    BY <2>2, <2>4 DEF OrderInv
  <2> QED BY <2>5, <2>6, <2>7 DEF OrderInv
<1> QED BY <1>2, <1>3, <1>4, <1>5, <1>6 DEF FreeStep

\* The lists hold who is linked, and the tree who is indexed, in order of bases.
THEOREM OrderInvariance ==
  ASSUME "ntdll" \notin Overlap
  PROVE  Spec => [](IInv /\ OrderInv)
<1>1. Init => OrderInv
  <2>1. SUFFICES ASSUME Init PROVE OrderInv
    OBVIOUS
  <2>2. modules = Linked /\ ToSet(tree) = Indexed /\ Len(tree) = 0
    BY <2>1 DEF Init, Linked, Indexed, Idle, ToSet
  <2> QED BY <2>2 DEF OrderInv, Ascending
<1>2. IInv /\ OrderInv /\ [Next]_vars => OrderInv'
  <2>1. SUFFICES ASSUME IInv, OrderInv, [Next]_vars PROVE OrderInv'
    OBVIOUS
  <2>2. CASE Next
    BY <2>1, <2>2, NtdllOrder, MapOrder, FreeOrder DEF Next
  <2>3. CASE UNCHANGED vars
    <3>1. UNCHANGED <<os, live, base, modules, tree, mapped, stray, crashed, call>>
      BY <2>3 DEF vars, treeVars
    <3> QED BY <2>1, <3>1, OrderKept DEF Linked, Indexed, Keys, Defined
  <2> QED BY <2>1, <2>2, <2>3
<1> QED BY <1>1, <1>2, InitIInv, NextIInv, PTL DEF Spec

\* Between calls the lists and the tree hold the loaded modules and no others, once
\* each and in order of bases, if ntdll's loader runs in a call only while dependencies
\* are freed.
THEOREM RegisteredTheorem ==
  ASSUME "ntdll" \notin Overlap
  PROVE  Spec => []RegisteredOnce
<1>1. ASSUME IInv, OrderInv PROVE RegisteredOnce
  <2>1. SUFFICES ASSUME call.pc = "idle", Defined
                 PROVE  /\ modules = mapped \cup (live \cap Natives)
                        /\ HasTree => InOrder /\ IsInjective(tree) /\ ToSet(tree) = modules
    BY DEF RegisteredOnce
  <2>2. Linked = mapped \cup (live \cap Natives) /\ Indexed = Linked /\ modules = Linked
    BY <1>1, <2>1 DEF Linked, Indexed, OrderInv
  <2>3. ASSUME HasTree PROVE InOrder /\ IsInjective(tree) /\ ToSet(tree) = modules
    <3>1. ToSet(tree) = Indexed /\ Ascending(tree, Keys)
      BY <1>1, <2>1, <2>3 DEF OrderInv
    <3>2. tree \in Seq(Nodes) /\ Keys \in [Nodes -> Nat]
      BY <1>1, OrderTyped
    <3>3. \A i \in 1 .. Len(tree) : Keys[tree[i]] = base[tree[i]]
      <4>1. \A i \in 1 .. Len(tree) : tree[i] \in Nodes
        BY <3>2, ElementOfSeq
      <4> QED BY <2>1, <4>1 DEF Keys
    <3>4. InOrder
      BY <3>1, <3>3 DEF InOrder, Ascending
    <3>5. IsInjective(tree)
      BY <3>1, <3>2, RemoveInOrder
    <3> QED BY <2>2, <3>1, <3>4, <3>5
  <2> QED BY <2>2, <2>3
<1> QED BY <1>1, OrderInvariance, PTL
=============================================================================
