-------------------- MODULE InvertedFunctionTableProofs --------------------
(***************************************************************************)
(* Proofs about InvertedFunctionTable for every set of bases, every size   *)
(* and every capacity.  The invariant is inductive once it also says that  *)
(* ntdll's own entry is in the table and its base is taken: that is why    *)
(* the table never becomes empty and why entry 0 is never the one removed. *)
(* That each image has its entry, and each entry its image, rests on bases *)
(* that are not shared: an edit reaches the entries of its own base only,  *)
(* and a base is in the table twice only where a refused re-protection     *)
(* left an entry behind.                                                   *)
(***************************************************************************)
EXTENDS InvertedFunctionTable, TLAPS, WellFoundedInduction

\* What holds of the array: well formed, sorted, never empty, ntdll in its place.
ArrayInv ==
  /\ Entries \in [Slots -> Entry \cup {Free}]
  /\ Count \in 1 .. MaxCount
  /\ \A j \in 0 .. (Count - 1) : Entries[j] \in Entry
  /\ Overflow \in BOOLEAN
  /\ TableSorted
  /\ OverflowOnlyWhenFull
  /\ \E j \in 0 .. (Count - 1) : Entries[j] = Ntdll
  /\ NtdllStaysFirst

\* What holds of the images: the base of ntdll is taken, by ntdll alone.
ImagesInv ==
  /\ os \in Platform
  /\ images \subseteq Entry /\ ldrImages \subseteq Entry /\ stranded \subseteq Entry
  /\ failfast \in BOOLEAN
  /\ Ntdll \in ldrImages \ images
  /\ \A e \in images \cup ldrImages : e.base = NtdllBase => e = Ntdll

IInv == ArrayInv /\ ImagesInv

USE BasesAssumption, NtdllAssumption, CapacityAssumption, FreeAssumption

-----------------------------------------------------------------------------
(* What the two array edits leave behind.                                  *)

\* The entries of the table after an insertion at i, in terms of those before.
LEMMA InsertShape ==
  ASSUME TypeOK, Count # MaxCount, NEW e \in Entry, NEW i \in Slots,
         IsInsertIndex(i, e.base), Entries' = InsertedAt(i, e), Count' = Count + 1
  PROVE  /\ Entries' \in [Slots -> Entry \cup {Free}]
         /\ Count' \in 2 .. MaxCount
         /\ \A j \in 0 .. (Count' - 1) :
              Entries'[j] = IF j < i THEN Entries[j]
                            ELSE IF j = i THEN e ELSE Entries[j - 1]
         /\ \A j \in 0 .. (Count' - 1) : Entries'[j] \in Entry
<1>1. i \in 0 .. Count /\ Count \in 1 .. (MaxCount - 1)
  BY DEF IsInsertIndex, FirstIndex, TypeOK, Slots
<1>2. \A j \in Slots : j > 0 => j - 1 \in Slots
  BY DEF Slots
<1>3. Entries' \in [Slots -> Entry \cup {Free}]
  BY <1>1, <1>2 DEF InsertedAt, TypeOK, Slots
<1>4. \A j \in 0 .. (Count' - 1) :
        Entries'[j] = IF j < i THEN Entries[j] ELSE IF j = i THEN e ELSE Entries[j - 1]
  BY <1>1 DEF InsertedAt, Slots
<1>5. \A j \in 0 .. (Count' - 1) : Entries'[j] \in Entry
  BY <1>1, <1>4 DEF TypeOK
<1>. QED BY <1>1, <1>3, <1>4, <1>5

\* The entries of the table after the entry at i went out, on both builds.
LEMMA RemoveShape ==
  ASSUME TypeOK, Count >= 2, NEW b \in Bases, NEW i \in Slots,
         IsRemoveIndex(i, b), Entries' = RemovedAt(i), Count' = Count - 1
  PROVE  /\ Entries' \in [Slots -> Entry \cup {Free}]
         /\ Count' \in 1 .. (MaxCount - 1)
         /\ \A j \in 0 .. (Count' - 1) :
              Entries'[j] = IF j < i THEN Entries[j] ELSE Entries[j + 1]
         /\ \A j \in 0 .. (Count' - 1) : Entries'[j] \in Entry
<1>1. i \in 0 .. (Count - 1) /\ Count \in 2 .. MaxCount
  BY DEF IsRemoveIndex, TypeOK
<1>2. MovedBy(i) \in {Count - i - 1, Count - i}
  BY DEF MovedBy
<1>3. \A j \in i .. (i + MovedBy(i) - 1) : j \in Slots /\ j + 1 \in Slots
  BY <1>1, <1>2 DEF Slots
<1>4. Entries' \in [Slots -> Entry \cup {Free}]
  BY <1>3 DEF RemovedAt, TypeOK
<1>5. \A j \in 0 .. (Count' - 1) :
        Entries'[j] = IF j < i THEN Entries[j] ELSE Entries[j + 1]
  BY <1>1, <1>2 DEF RemovedAt, Slots
<1>6. \A j \in 0 .. (Count' - 1) : Entries'[j] \in Entry
  BY <1>1, <1>5 DEF TypeOK
<1>. QED BY <1>1, <1>4, <1>5, <1>6

-----------------------------------------------------------------------------
(* The array part of the invariant.                                        *)

LEMMA IInvTypeOK == IInv => TypeOK
BY DEF IInv, ArrayInv, ImagesInv, TypeOK

\* An insertion of any image keeps the array part of the invariant.
LEMMA InsertKeepsArrayInv ==
  ASSUME IInv, NEW e \in Entry, RtlpInsertInvertedFunctionTable(e), os' = os
  PROVE  ArrayInv'
<1>0. ArrayInv /\ TypeOK /\ TableSorted
  BY IInvTypeOK DEF IInv, ArrayInv
<1>. USE <1>0
<1>1. CASE Count = MaxCount
  <2>1. UNCHANGED <<Entries, Count>> /\ Overflow' = TRUE
    BY <1>1 DEF RtlpInsertInvertedFunctionTable
  <2>. QED
    BY <1>1, <2>1 DEF ArrayInv, TableSorted, OverflowOnlyWhenFull, NtdllStaysFirst,
                      FirstIndex
<1>2. CASE Count # MaxCount
  <2>1. PICK i \in Slots : IsInsertIndex(i, e.base) /\ Entries' = InsertedAt(i, e)
    BY <1>2 DEF RtlpInsertInvertedFunctionTable
  <2>2. Count' = Count + 1 /\ Overflow' = Overflow
    BY <1>2 DEF RtlpInsertInvertedFunctionTable
  <2>3. /\ Entries' \in [Slots -> Entry \cup {Free}]
        /\ Count' \in 2 .. MaxCount
        /\ \A j \in 0 .. (Count' - 1) :
             Entries'[j] = IF j < i THEN Entries[j]
                           ELSE IF j = i THEN e ELSE Entries[j - 1]
        /\ \A j \in 0 .. (Count' - 1) : Entries'[j] \in Entry
    BY <1>2, <2>1, <2>2, InsertShape
  <2>4. i \in FirstIndex .. Count /\ FirstIndex \in {0, 1} /\ FirstIndex' = FirstIndex
    BY <2>1 DEF IsInsertIndex, FirstIndex
  <2>5. Count \in 1 .. (MaxCount - 1)
    BY <1>2 DEF TypeOK
  <2>6. TableSorted'
    <3>1. SUFFICES ASSUME NEW j \in FirstIndex .. Count, NEW k \in FirstIndex .. Count, j < k
                   PROVE  Entries'[j].base <= Entries'[k].base
      BY <2>2, <2>4, <2>5 DEF TableSorted
    <3>2. \A m \in FirstIndex .. (Count - 1) : Entries[m].base \in Nat /\ e.base \in Nat
      <4>1. \A f \in Entry : f.base \in Nat
        BY DEF Entry
      <4>2. \A m \in FirstIndex .. (Count - 1) : Entries[m] \in Entry
        BY <2>4, <2>5 DEF TypeOK
      <4>. QED BY <4>1, <4>2
    <3>3. \A m \in FirstIndex .. (i - 1) : Entries[m].base <= e.base
      BY <2>1 DEF IsInsertIndex
    <3>4. \A m \in i .. (Count - 1) : e.base <= Entries[m].base
      <4>1. SUFFICES ASSUME NEW m \in i .. (Count - 1) PROVE e.base <= Entries[m].base
        OBVIOUS
      <4>2. e.base < Entries[i].base
        BY <2>1, <2>4, <2>5, <4>1 DEF IsInsertIndex
      <4>3. m = i \/ Entries[i].base <= Entries[m].base
        BY <2>4, <2>5, <4>1 DEF TableSorted
      <4>. QED BY <2>4, <2>5, <3>2, <4>1, <4>2, <4>3
    <3>5. \A m, n \in FirstIndex .. (Count - 1) : m < n => Entries[m].base <= Entries[n].base
      BY DEF TableSorted
    <3>6. /\ Entries'[j] = IF j < i THEN Entries[j] ELSE IF j = i THEN e ELSE Entries[j - 1]
          /\ Entries'[k] = IF k < i THEN Entries[k] ELSE IF k = i THEN e ELSE Entries[k - 1]
      BY <2>2, <2>3, <2>4, <2>5
    <3>7. CASE k < i
      BY <2>4, <2>5, <3>1, <3>5, <3>6, <3>7
    <3>8. CASE k = i
      BY <2>4, <2>5, <3>1, <3>3, <3>6, <3>8
    <3>9. CASE k > i /\ j < i
      BY <2>4, <2>5, <3>1, <3>5, <3>6, <3>9
    <3>10. CASE k > i /\ j = i
      BY <2>4, <2>5, <3>1, <3>4, <3>6, <3>10
    <3>11. CASE k > i /\ j > i
      BY <2>4, <2>5, <3>1, <3>5, <3>6, <3>11
    <3>. QED BY <2>4, <2>5, <3>7, <3>8, <3>9, <3>10, <3>11
  <2>7. OverflowOnlyWhenFull'
    <3>1. ~Overflow
      BY <1>2 DEF ArrayInv, OverflowOnlyWhenFull
    <3>. QED BY <2>2, <3>1 DEF OverflowOnlyWhenFull
  <2>8. \E j \in 0 .. (Count' - 1) : Entries'[j] = Ntdll
    <3>1. PICK j \in 0 .. (Count - 1) : Entries[j] = Ntdll
      BY DEF ArrayInv
    <3>2. CASE j < i
      BY <2>2, <2>3, <2>5, <3>1, <3>2
    <3>3. CASE j >= i
      BY <2>2, <2>3, <2>4, <2>5, <3>1, <3>3
    <3>. QED BY <2>4, <2>5, <3>2, <3>3
  <2>9. NtdllStaysFirst'
    BY <2>2, <2>3, <2>4, <2>5 DEF ArrayInv, NtdllStaysFirst, FirstIndex
  <2>10. Overflow' \in BOOLEAN /\ Count' \in 1 .. MaxCount
    BY <2>2, <2>3 DEF ArrayInv
  <2>. QED BY <2>3, <2>6, <2>7, <2>8, <2>9, <2>10 DEF ArrayInv
<1>. QED BY <1>1, <1>2

\* A removal of any image but ntdll keeps the array part of the invariant.
LEMMA RemoveKeepsArrayInv ==
  ASSUME IInv, NEW b \in Bases, b # NtdllBase, RtlpRemoveInvertedFunctionTable(b), os' = os
  PROVE  ArrayInv'
<1>0. ArrayInv /\ TypeOK /\ TableSorted
  BY IInvTypeOK DEF IInv, ArrayInv
<1>. USE <1>0
<1>1. CASE ~\E i \in Slots : IsRemoveIndex(i, b)
  <2>1. UNCHANGED <<Entries, Count>>
    BY <1>1 DEF RtlpRemoveInvertedFunctionTable
  <2>2. Overflow' \in BOOLEAN /\ OverflowOnlyWhenFull'
    BY <2>1 DEF RtlpRemoveInvertedFunctionTable, ArrayInv, OverflowOnlyWhenFull
  <2>. QED
    BY <2>1, <2>2 DEF ArrayInv, TableSorted, NtdllStaysFirst, FirstIndex
<1>2. CASE \E i \in Slots : IsRemoveIndex(i, b)
  <2>1. PICK i \in Slots : IsRemoveIndex(i, b) /\ Entries' = RemovedAt(i)
    BY <1>2 DEF RtlpRemoveInvertedFunctionTable
  <2>2. Count' = Count - 1
    BY <1>2 DEF RtlpRemoveInvertedFunctionTable
  <2>3. i \in 0 .. (Count - 1) /\ Entries[i].base = b
    BY <2>1 DEF IsRemoveIndex
  <2>4. PICK n \in 0 .. (Count - 1) : Entries[n] = Ntdll
    BY DEF ArrayInv
  <2>5. n # i
    BY <2>3, <2>4 DEF Ntdll
  <2>6. Count \in 2 .. MaxCount
    BY <2>3, <2>4, <2>5 DEF TypeOK
  <2>7. /\ Entries' \in [Slots -> Entry \cup {Free}]
        /\ Count' \in 1 .. (MaxCount - 1)
        /\ \A j \in 0 .. (Count' - 1) :
             Entries'[j] = IF j < i THEN Entries[j] ELSE Entries[j + 1]
        /\ \A j \in 0 .. (Count' - 1) : Entries'[j] \in Entry
    BY <2>1, <2>2, <2>6, RemoveShape
  <2>8. Overflow' = FALSE
    BY <2>2, <2>6, <2>7 DEF RtlpRemoveInvertedFunctionTable
  <2>9. FirstIndex \in {0, 1} /\ FirstIndex' = FirstIndex
    BY DEF FirstIndex
  <2>10. TableSorted'
    <3>1. SUFFICES ASSUME NEW j \in FirstIndex .. (Count - 2), NEW k \in FirstIndex .. (Count - 2),
                          j < k
                   PROVE  Entries'[j].base <= Entries'[k].base
      BY <2>2, <2>6, <2>9 DEF TableSorted
    <3>2. /\ Entries'[j] = IF j < i THEN Entries[j] ELSE Entries[j + 1]
          /\ Entries'[k] = IF k < i THEN Entries[k] ELSE Entries[k + 1]
      BY <2>2, <2>6, <2>7, <2>9
    <3>3. \A m, p \in FirstIndex .. (Count - 1) : m < p => Entries[m].base <= Entries[p].base
      BY DEF TableSorted
    <3>. QED BY <2>3, <2>6, <2>9, <3>1, <3>2, <3>3
  <2>11. \E j \in 0 .. (Count' - 1) : Entries'[j] = Ntdll
    <3>1. CASE n < i
      BY <2>2, <2>3, <2>4, <2>6, <2>7, <3>1
    <3>2. CASE n > i
      BY <2>2, <2>3, <2>4, <2>6, <2>7, <3>2
    <3>. QED BY <2>3, <2>4, <2>5, <3>1, <3>2
  <2>12. NtdllStaysFirst'
    <3>1. SUFFICES ASSUME os.win8 PROVE Entries'[0] = Ntdll
      BY DEF NtdllStaysFirst
    <3>2. Entries[0] = Ntdll
      BY <3>1 DEF ArrayInv, NtdllStaysFirst
    <3>3. i # 0
      BY <2>3, <3>2 DEF Ntdll
    <3>. QED BY <2>2, <2>3, <2>6, <2>7, <3>2, <3>3
  <2>13. OverflowOnlyWhenFull' /\ Overflow' \in BOOLEAN
    BY <2>8 DEF OverflowOnlyWhenFull
  <2>14. Count' \in 1 .. MaxCount
    BY <2>7
  <2>. QED BY <2>7, <2>10, <2>11, <2>12, <2>13, <2>14 DEF ArrayInv
<1>. QED BY <1>1, <1>2

-----------------------------------------------------------------------------
(* The invariant of the specification.                                     *)

\* The table ntdll hands over satisfies the invariant.
LEMMA InitIInv == Init => IInv
<1>. SUFFICES ASSUME Init PROVE IInv
  OBVIOUS
<1>1. Ntdll \in Entry
  BY DEF Ntdll, Entry
<1>2. ImagesInv
  BY <1>1 DEF Init, ImagesInv
<1>3. Entries = [j \in Slots |-> IF j = 0 THEN Ntdll ELSE Free] /\ Count = 1 /\ Overflow = FALSE
  BY DEF Init
<1>4. Entries[0] = Ntdll
  BY <1>3 DEF Slots
<1>5. TableSorted /\ OverflowOnlyWhenFull /\ NtdllStaysFirst
  BY <1>3, <1>4 DEF TableSorted, OverflowOnlyWhenFull, NtdllStaysFirst, FirstIndex
<1>6. Overflow \in BOOLEAN
  BY <1>3
<1>7. /\ Entries \in [Slots -> Entry \cup {Free}]
      /\ Count \in 1 .. MaxCount
      /\ \A j \in 0 .. (Count - 1) : Entries[j] \in Entry
      /\ \E j \in 0 .. (Count - 1) : Entries[j] = Ntdll
  BY <1>1, <1>3, <1>4 DEF Slots
<1>8. ArrayInv
  BY <1>5, <1>6, <1>7 DEF ArrayInv
<1>. QED BY <1>2, <1>8 DEF IInv

\* Every call of the loader or of ntdll keeps the invariant.
LEMMA NextIInv == IInv /\ [Next]_vars => IInv'
<1>. SUFFICES ASSUME IInv, [Next]_vars PROVE IInv'
  OBVIOUS
<1>0. ASSUME UNCHANGED vars PROVE IInv'
  BY <1>0 DEF vars, IInv, ArrayInv, ImagesInv, TableSorted, OverflowOnlyWhenFull,
              NtdllStaysFirst, FirstIndex
<1>1. ASSUME UNCHANGED <<os, Entries, Count, Overflow>> PROVE ArrayInv'
  BY <1>1 DEF IInv, ArrayInv, TableSorted, OverflowOnlyWhenFull, NtdllStaysFirst, FirstIndex
<1>2. NtdllBase \in Occupied /\ ImagesInv
  BY DEF IInv, ImagesInv, Occupied, Ntdll
<1>3. ASSUME NEW e \in Entry, InsertCompleted(e) PROVE IInv'
  <2>1. ArrayInv'
    BY <1>3, InsertKeepsArrayInv DEF InsertCompleted
  <2>2. e.base # NtdllBase /\ e # Ntdll
    BY <1>2, <1>3 DEF InsertCompleted, Ntdll
  <2>3. images' \subseteq images \cup {e} /\ UNCHANGED <<os, ldrImages, stranded, failfast>>
    BY <1>3 DEF InsertCompleted
  <2>. QED BY <1>2, <2>1, <2>2, <2>3 DEF IInv, ImagesInv
<1>4. ASSUME NEW e \in Entry, InsertNotReprotected(e) PROVE IInv'
  <2>1. ArrayInv'
    BY <1>4, InsertKeepsArrayInv DEF InsertNotReprotected
  <2>2. stranded' \subseteq Entry /\ UNCHANGED <<os, images, ldrImages, failfast>>
    BY <1>2, <1>4 DEF InsertNotReprotected, ImagesInv
  <2>. QED BY <1>2, <2>1, <2>2 DEF IInv, ImagesInv
<1>5. ASSUME NEW e \in images, RemoveCompleted(e) PROVE IInv'
  <2>1. e \in Entry /\ e.base \in Bases /\ e.base # NtdllBase
    BY <1>2 DEF ImagesInv, Entry
  <2>2. ArrayInv'
    BY <1>5, <2>1, RemoveKeepsArrayInv DEF RemoveCompleted
  <2>. QED BY <1>2, <1>5, <2>2 DEF RemoveCompleted, IInv, ImagesInv
<1>6. ASSUME NEW e \in images, RemoveRefused(e) PROVE IInv'
  BY <1>1, <1>2, <1>6 DEF RemoveRefused, IInv, ImagesInv
<1>7. ASSUME NEW e \in images, RemoveNotReprotected(e) PROVE IInv'
  <2>1. e \in Entry /\ e.base \in Bases /\ e.base # NtdllBase
    BY <1>2 DEF ImagesInv, Entry
  <2>2. ArrayInv'
    BY <1>7, <2>1, RemoveKeepsArrayInv DEF RemoveNotReprotected
  <2>. QED BY <1>2, <1>7, <2>2 DEF RemoveNotReprotected, IInv, ImagesInv
<1>8. ASSUME NEW e \in Entry, LdrInsert(e) PROVE IInv'
  <2>1. ArrayInv'
    BY <1>8, InsertKeepsArrayInv DEF LdrInsert
  <2>2. e.base # NtdllBase
    BY <1>2, <1>8 DEF LdrInsert
  <2>. QED BY <1>2, <1>8, <2>1, <2>2 DEF LdrInsert, IInv, ImagesInv
<1>9. ASSUME NEW e \in Entry, LdrRemove(e) PROVE IInv'
  <2>1. e \in ldrImages \ {Ntdll} /\ e.base \in Bases /\ e.base # NtdllBase
    BY <1>2, <1>9 DEF LdrRemove, ImagesInv, Entry
  <2>2. ArrayInv'
    BY <1>9, <2>1, RemoveKeepsArrayInv DEF LdrRemove
  <2>. QED BY <1>2, <1>9, <2>1, <2>2 DEF LdrRemove, IInv, ImagesInv
<1>. QED
  BY <1>0, <1>3, <1>4, <1>5, <1>6, <1>7, <1>8, <1>9
  DEF Next, RtlInsertInvertedFunctionTable, RtlRemoveInvertedFunctionTable, InsertRefused,
      RemoveCompleted, RemoveRefused, RemoveNotReprotected

THEOREM Invariance == Spec => []IInv
BY InitIInv, NextIInv, PTL DEF Spec

\* The variables keep their types; the array is never written behind its end.
THEOREM TypeCorrect == Spec => []TypeOK
BY Invariance, IInvTypeOK, PTL

\* The movable part of the table is sorted after every mix of calls, failed ones
\* included, on every platform (RtlpInsertInvertedFunctionTable and its inverse).
THEOREM SortedTheorem == Spec => []TableSorted
<1>1. IInv => TableSorted
  BY DEF IInv, ArrayInv
<1>. QED BY <1>1, Invariance, PTL

\* Overflow is never left set in a table with room.
THEOREM OverflowTheorem == Spec => []OverflowOnlyWhenFull
<1>1. IInv => OverflowOnlyWhenFull
  BY DEF IInv, ArrayInv
<1>. QED BY <1>1, Invariance, PTL

\* On Windows 8 and later no call moves or removes the entry of ntdll.
THEOREM NtdllFirstTheorem == Spec => []NtdllStaysFirst
<1>1. IInv => NtdllStaysFirst
  BY DEF IInv, ArrayInv
<1>. QED BY <1>1, Invariance, PTL

-----------------------------------------------------------------------------
(* What is in the table.  An insertion that failed after the fact leaves   *)
(* an entry, and its base may be mapped again and registered a second      *)
(* time: the table then holds the base twice, and the removal takes the    *)
(* entry that comes first, which may be the other one.  That this is       *)
(* harmless needs the images' bases to be distinct, and every base that is *)
(* in the table twice to be a stranded one.                                *)

StrandedBases == { e.base : e \in stranded }

\* No two images share a base, and no image is both ntdll's and ours.
OneImagePerBase ==
  /\ images \cap ldrImages = {}
  /\ \A e, f \in images \cup ldrImages : e.base = f.base => e = f

\* A base that is in the table twice is one whose insertion failed after the fact.
TwiceIsStranded ==
  \A i, j \in 0 .. (Count - 1) :
    i # j /\ Entries[i].base = Entries[j].base => Entries[i].base \in StrandedBases

EntriesInv ==
  /\ OneImagePerBase
  /\ FlaggedAreRegistered
  /\ NoStaleEntry
  /\ ~failfast => TwiceIsStranded

\* Among array positions there is a first one.
LEMMA LeastPosition ==
  ASSUME NEW S, S \subseteq Nat, S # {}
  PROVE  \E i \in S : \A j \in S : i <= j
<1> DEFINE Less == { p \in Nat \X Nat : p[1] < p[2] }
<1>1. IsWellFoundedOn(Less, Nat)
  BY Zenon, NatLessThanWellFounded DEF OpToRel
<1> HIDE DEF Less
<1>2. PICK i \in S : \A j \in S : <<j, i>> \notin Less
  BY <1>1, WFMin
<1>3. ASSUME NEW j \in S PROVE i <= j
  <2>1. i \in Nat /\ j \in Nat /\ <<j, i>> \notin Less
    BY <1>2
  <2>2. j < i => <<j, i>> \in Less
    BY <2>1 DEF Less
  <2> QED BY <2>1, <2>2
<1> QED BY <1>3

\* An insertion adds its entry, unless the table is full, and drops nothing; it
\* puts a base in twice only if that base was in the table.
LEMMA InsertContents ==
  ASSUME IInv, NEW e \in Entry, RtlpInsertInvertedFunctionTable(e)
  PROVE  /\ InTable \subseteq InTable' /\ InTable' \subseteq InTable \cup {e}
         /\ ~Overflow' => e \in InTable'
         /\ \A j, k \in 0 .. (Count' - 1) : j # k /\ Entries'[j].base = Entries'[k].base =>
              \/ Entries'[j].base = e.base /\ \E f \in InTable : f.base = e.base
              \/ \E m, n \in 0 .. (Count - 1) : /\ m # n /\ Entries[m].base = Entries[n].base
                                                /\ Entries[m].base = Entries'[j].base
<1>0. ArrayInv /\ TypeOK
  BY IInvTypeOK DEF IInv
<1>1. CASE Count = MaxCount
  <2>1. UNCHANGED <<Entries, Count>> /\ Overflow' = TRUE
    BY <1>1 DEF RtlpInsertInvertedFunctionTable
  <2>. QED BY <2>1 DEF InTable
<1>2. CASE Count # MaxCount
  <2>1. PICK i \in Slots : IsInsertIndex(i, e.base) /\ Entries' = InsertedAt(i, e)
    BY <1>2 DEF RtlpInsertInvertedFunctionTable
  <2>2. Count' = Count + 1
    BY <1>2 DEF RtlpInsertInvertedFunctionTable
  <2>3. \A j \in 0 .. (Count' - 1) :
          Entries'[j] = IF j < i THEN Entries[j] ELSE IF j = i THEN e ELSE Entries[j - 1]
    BY <1>0, <1>2, <2>1, <2>2, InsertShape
  <2>4. i \in 0 .. Count /\ Count \in 1 .. (MaxCount - 1)
    BY <1>0, <1>2, <2>1 DEF IsInsertIndex, FirstIndex, TypeOK
  <2>5. ASSUME NEW j \in 0 .. (Count - 1) PROVE Entries[j] \in InTable'
    <3>1. CASE j < i
      BY <2>2, <2>3, <2>4, <3>1 DEF InTable
    <3>2. CASE j >= i
      <4>1. j + 1 \in 0 .. (Count' - 1) /\ Entries'[j + 1] = Entries[j]
        BY <2>2, <2>3, <2>4, <3>2
      <4>. QED BY <4>1 DEF InTable
    <3>. QED BY <2>4, <3>1, <3>2
  <2>6. i \in 0 .. (Count' - 1) /\ Entries'[i] = e
    BY <2>2, <2>3, <2>4
  <2>7. ASSUME NEW j \in 0 .. (Count' - 1), j # i
        PROVE  \E m \in 0 .. (Count - 1) : Entries'[j] = Entries[m] /\ m = IF j < i THEN j ELSE j - 1
    BY <2>2, <2>3, <2>4, <2>7
  <2>8. ASSUME NEW j \in 0 .. (Count' - 1), NEW k \in 0 .. (Count' - 1),
               j # k, Entries'[j].base = Entries'[k].base
        PROVE  \/ Entries'[j].base = e.base /\ \E f \in InTable : f.base = e.base
               \/ \E m, n \in 0 .. (Count - 1) : /\ m # n /\ Entries[m].base = Entries[n].base
                                                 /\ Entries[m].base = Entries'[j].base
    <3>1. CASE j = i
      BY <2>6, <2>7, <2>8, <3>1 DEF InTable
    <3>2. CASE k = i
      BY <2>6, <2>7, <2>8, <3>2 DEF InTable
    <3>3. CASE j # i /\ k # i
      <4>1. PICK m \in 0 .. (Count - 1) : Entries'[j] = Entries[m] /\ m = IF j < i THEN j ELSE j - 1
        BY <2>7, <3>3
      <4>2. PICK n \in 0 .. (Count - 1) : Entries'[k] = Entries[n] /\ n = IF k < i THEN k ELSE k - 1
        BY <2>7, <3>3
      <4>3. m # n
        BY <2>2, <2>4, <2>8, <3>3, <4>1, <4>2
      <4>. QED BY <2>8, <4>1, <4>2, <4>3
    <3>. QED BY <3>1, <3>2, <3>3
  <2>9. InTable \subseteq InTable'
    BY <2>5 DEF InTable
  <2>10. InTable' \subseteq InTable \cup {e}
    BY <2>6, <2>7 DEF InTable
  <2>11. e \in InTable'
    BY <2>6 DEF InTable
  <2>. QED BY <2>8, <2>9, <2>10, <2>11
<1>. QED BY <1>1, <1>2

\* A removal drops one entry of its base, if there is one, and no other.
LEMMA RemoveContents ==
  ASSUME IInv, NEW b \in Bases, b # NtdllBase, RtlpRemoveInvertedFunctionTable(b)
  PROVE  /\ InTable' \subseteq InTable
         /\ \A f \in InTable : f.base # b => f \in InTable'
         /\ \A j, k \in 0 .. (Count' - 1) : j # k /\ Entries'[j].base = Entries'[k].base =>
              \E m, n \in 0 .. (Count - 1) : /\ m # n /\ Entries[m].base = Entries[n].base
                                             /\ Entries[m].base = Entries'[j].base
         /\ \A f \in InTable' : f.base = b =>
              \E m, n \in 0 .. (Count - 1) : /\ m # n /\ Entries[m].base = Entries[n].base
                                             /\ Entries[m].base = b
<1>0. ArrayInv /\ TypeOK
  BY IInvTypeOK DEF IInv
<1>1. CASE ~\E i \in Slots : IsRemoveIndex(i, b)
  <2>1. UNCHANGED <<Entries, Count>>
    BY <1>1 DEF RtlpRemoveInvertedFunctionTable
  <2>2. \A f \in InTable : f.base # b
    <3> SUFFICES ASSUME \E j \in 0 .. (Count - 1) : Entries[j].base = b PROVE FALSE
      BY DEF InTable
    <3> DEFINE S == { j \in 0 .. (Count - 1) : Entries[j].base = b }
    <3>1. PICK i \in S : \A j \in S : i <= j
      <4>1. S \subseteq Nat /\ S # {}
        BY <1>0 DEF TypeOK
      <4> HIDE DEF S
      <4>. QED BY <4>1, LeastPosition
    <3>2. i \in Slots /\ IsRemoveIndex(i, b)
      BY <1>0, <3>1 DEF TypeOK, Slots, IsRemoveIndex
    <3>. QED BY <1>1, <3>2
  <2>. QED BY <2>1, <2>2 DEF InTable
<1>2. CASE \E i \in Slots : IsRemoveIndex(i, b)
  <2>1. PICK i \in Slots : IsRemoveIndex(i, b) /\ Entries' = RemovedAt(i)
    BY <1>2 DEF RtlpRemoveInvertedFunctionTable
  <2>2. Count' = Count - 1
    BY <1>2 DEF RtlpRemoveInvertedFunctionTable
  <2>3. i \in 0 .. (Count - 1) /\ Entries[i].base = b
    BY <2>1 DEF IsRemoveIndex
  <2>4. PICK n \in 0 .. (Count - 1) : Entries[n] = Ntdll
    BY <1>0 DEF ArrayInv
  <2>5. n # i
    BY <2>3, <2>4 DEF Ntdll
  <2>6. Count \in 2 .. MaxCount
    BY <1>0, <2>3, <2>4, <2>5 DEF TypeOK
  <2>7. \A j \in 0 .. (Count' - 1) : Entries'[j] = IF j < i THEN Entries[j] ELSE Entries[j + 1]
    BY <1>0, <2>1, <2>2, <2>6, RemoveShape
  <2>8. ASSUME NEW j \in 0 .. (Count' - 1)
        PROVE  \E m \in 0 .. (Count - 1) : /\ Entries'[j] = Entries[m] /\ m # i
                                           /\ m = IF j < i THEN j ELSE j + 1
    BY <2>2, <2>3, <2>6, <2>7
  <2>9. ASSUME NEW m \in 0 .. (Count - 1), m # i PROVE Entries[m] \in InTable'
    <3>1. CASE m < i
      BY <2>2, <2>3, <2>6, <2>7, <3>1 DEF InTable
    <3>2. CASE m > i
      <4>1. m - 1 \in 0 .. (Count' - 1) /\ Entries'[m - 1] = Entries[m]
        BY <2>2, <2>3, <2>6, <2>7, <3>2
      <4>. QED BY <4>1 DEF InTable
    <3>. QED BY <2>3, <2>9, <3>1, <3>2
  <2>10. InTable' \subseteq InTable
    BY <2>8 DEF InTable
  <2>11. \A f \in InTable : f.base # b => f \in InTable'
    BY <2>3, <2>9 DEF InTable
  <2>12. ASSUME NEW j \in 0 .. (Count' - 1), NEW k \in 0 .. (Count' - 1),
                j # k, Entries'[j].base = Entries'[k].base
         PROVE  \E m, p \in 0 .. (Count - 1) : /\ m # p /\ Entries[m].base = Entries[p].base
                                               /\ Entries[m].base = Entries'[j].base
    <3>1. PICK m \in 0 .. (Count - 1) : /\ Entries'[j] = Entries[m]
                                        /\ m = IF j < i THEN j ELSE j + 1
      BY <2>8
    <3>2. PICK p \in 0 .. (Count - 1) : /\ Entries'[k] = Entries[p]
                                        /\ p = IF k < i THEN k ELSE k + 1
      BY <2>8
    <3>3. m # p
      BY <2>2, <2>3, <2>6, <2>12, <3>1, <3>2
    <3>. QED BY <2>12, <3>1, <3>2, <3>3
  <2>13. ASSUME NEW f \in InTable', f.base = b
         PROVE  \E m, p \in 0 .. (Count - 1) : /\ m # p /\ Entries[m].base = Entries[p].base
                                               /\ Entries[m].base = b
    BY <2>3, <2>8, <2>13 DEF InTable
  <2>. QED BY <2>10, <2>11, <2>12, <2>13
<1>. QED BY <1>1, <1>2

-----------------------------------------------------------------------------
(* The invariant about entries and its theorems.                           *)

\* Before the process is gone, the parts of EntriesInv that speak of the table hold.
LEMMA EntriesFacts ==
  ASSUME EntriesInv, ~failfast
  PROVE  /\ images \subseteq InTable
         /\ \A f \in InTable : f.base \in Occupied \cup StrandedBases
         /\ TwiceIsStranded
BY DEF EntriesInv, FlaggedAreRegistered, NoStaleEntry, StrandedBases

LEMMA InitEntriesInv == Init => EntriesInv
<1>. SUFFICES ASSUME Init PROVE EntriesInv
  OBVIOUS
<1>1. images = {} /\ ldrImages = {Ntdll} /\ stranded = {} /\ Count = 1
  BY DEF Init
<1>2. OneImagePerBase /\ FlaggedAreRegistered
  BY <1>1 DEF OneImagePerBase, FlaggedAreRegistered
<1>3. Entries[0] = Ntdll
  BY DEF Init, Slots
<1>4. InTable = {Ntdll} /\ Occupied = {Ntdll.base}
  BY <1>1, <1>3 DEF InTable, Occupied
<1>5. NoStaleEntry /\ TwiceIsStranded
  BY <1>1, <1>4 DEF NoStaleEntry, TwiceIsStranded
<1>. QED BY <1>2, <1>5 DEF EntriesInv

\* Every call keeps it: insertions and removals by what they leave in the table.
LEMMA NextEntriesInv == IInv /\ EntriesInv /\ [Next]_vars => EntriesInv'
<1>. SUFFICES ASSUME IInv, EntriesInv, [Next]_vars PROVE EntriesInv'
  OBVIOUS
<1>0. ImagesInv /\ OneImagePerBase
  BY DEF IInv, EntriesInv
<1>1. ASSUME UNCHANGED vars PROVE EntriesInv'
  BY <1>1 DEF vars, EntriesInv, OneImagePerBase, FlaggedAreRegistered, NoStaleEntry, InTable,
              Occupied, TwiceIsStranded, StrandedBases
<1>2. ASSUME ~failfast, NEW e \in Entry, e.base \notin Occupied,
             RtlpInsertInvertedFunctionTable(e), stranded \subseteq stranded',
             images \subseteq images', images' \ images \subseteq {e},
             ldrImages \subseteq ldrImages', ldrImages' \ ldrImages \subseteq {e},
             images' = images \/ ldrImages' = ldrImages,
             images' # images => ~Overflow',
             ~Overflow' => e.base \in Occupied' \cup StrandedBases'
      PROVE  EntriesInv'
  <2>1. /\ images \subseteq InTable
        /\ \A f \in InTable : f.base \in Occupied \cup StrandedBases
        /\ TwiceIsStranded
    BY <1>2, EntriesFacts
  <2>2. /\ InTable \subseteq InTable' /\ InTable' \subseteq InTable \cup {e}
        /\ ~Overflow' => e \in InTable'
        /\ \A j, k \in 0 .. (Count' - 1) : j # k /\ Entries'[j].base = Entries'[k].base =>
             \/ Entries'[j].base = e.base /\ \E f \in InTable : f.base = e.base
             \/ \E m, n \in 0 .. (Count - 1) : /\ m # n /\ Entries[m].base = Entries[n].base
                                               /\ Entries[m].base = Entries'[j].base
    BY <1>2, InsertContents
  <2>3. Occupied \subseteq Occupied' /\ StrandedBases \subseteq StrandedBases'
    BY <1>2 DEF Occupied, StrandedBases
  <2>4. \A f \in images \cup ldrImages : f.base # e.base
    BY <1>2 DEF Occupied
  <2>5. OneImagePerBase'
    BY <1>0, <1>2, <2>4 DEF OneImagePerBase
  <2>6. FlaggedAreRegistered'
    BY <1>2, <2>1, <2>2 DEF FlaggedAreRegistered
  <2>7. Overflow' => InTable' = InTable
    BY <1>2 DEF RtlpInsertInvertedFunctionTable, InTable, IInv, ArrayInv, OverflowOnlyWhenFull
  <2>8. \A f \in InTable' : f.base \in Occupied' \cup StrandedBases'
    BY <1>2, <2>1, <2>2, <2>3, <2>7
  <2>9. NoStaleEntry'
    BY <2>8 DEF NoStaleEntry, StrandedBases
  <2>10. \A f \in InTable : f.base = e.base => e.base \in StrandedBases
    BY <1>2, <2>1
  <2>11. TwiceIsStranded'
    BY <2>1, <2>2, <2>3, <2>10 DEF TwiceIsStranded
  <2>. QED BY <2>5, <2>6, <2>9, <2>11 DEF EntriesInv
<1>3. ASSUME ~failfast, NEW e \in images \cup ldrImages, e.base # NtdllBase,
             RtlpRemoveInvertedFunctionTable(e.base), stranded' = stranded,
             images' = images \ {e}, ldrImages' = ldrImages \ {e}
      PROVE  EntriesInv'
  <2>1. /\ images \subseteq InTable
        /\ \A f \in InTable : f.base \in Occupied \cup StrandedBases
        /\ TwiceIsStranded
    BY <1>3, EntriesFacts
  <2>2. e.base \in Bases
    BY <1>0, <1>3 DEF ImagesInv, Entry
  <2>3. /\ InTable' \subseteq InTable
        /\ \A f \in InTable : f.base # e.base => f \in InTable'
        /\ \A j, k \in 0 .. (Count' - 1) : j # k /\ Entries'[j].base = Entries'[k].base =>
             \E m, n \in 0 .. (Count - 1) : /\ m # n /\ Entries[m].base = Entries[n].base
                                            /\ Entries[m].base = Entries'[j].base
        /\ \A f \in InTable' : f.base = e.base =>
             \E m, n \in 0 .. (Count - 1) : /\ m # n /\ Entries[m].base = Entries[n].base
                                            /\ Entries[m].base = e.base
    BY <1>3, <2>2, RemoveContents
  <2>4. \A f \in images \cup ldrImages : f.base = e.base => f = e
    BY <1>0, <1>3 DEF OneImagePerBase
  <2>5. OneImagePerBase'
    BY <1>0, <1>3 DEF OneImagePerBase
  <2>6. FlaggedAreRegistered'
    BY <1>3, <2>1, <2>3, <2>4 DEF FlaggedAreRegistered
  <2>7. \A f \in InTable' : f.base = e.base => f.base \in StrandedBases
    BY <2>1, <2>3 DEF TwiceIsStranded
  <2>8. \A f \in InTable' : f.base # e.base => f.base \in Occupied' \cup StrandedBases
    <3>1. ASSUME NEW x \in Occupied, x # e.base PROVE x \in Occupied'
      BY <1>3, <3>1 DEF Occupied
    <3>. QED BY <2>1, <2>3, <3>1
  <2>9. NoStaleEntry'
    BY <1>3, <2>7, <2>8 DEF NoStaleEntry, StrandedBases
  <2>10. TwiceIsStranded'
    BY <1>3, <2>1, <2>3 DEF TwiceIsStranded, StrandedBases
  <2>. QED BY <2>5, <2>6, <2>9, <2>10 DEF EntriesInv
<1>4. ASSUME failfast', images' = images, ldrImages' = ldrImages PROVE EntriesInv'
  BY <1>0, <1>4 DEF EntriesInv, OneImagePerBase, FlaggedAreRegistered, NoStaleEntry
<1>5. ASSUME ~failfast, NEW e \in Entry, InsertCompleted(e) PROVE EntriesInv'
  <2>1. images' = (IF Overflow' THEN images ELSE images \cup {e})
        /\ UNCHANGED <<ldrImages, stranded>>
    BY <1>5 DEF InsertCompleted
  <2>2. ~Overflow' => e.base \in Occupied'
    BY <2>1 DEF Occupied
  <2>. QED BY <1>2, <1>5, <2>1, <2>2 DEF InsertCompleted
<1>6. ASSUME ~failfast, NEW e \in Entry, InsertNotReprotected(e) PROVE EntriesInv'
  <2>1. stranded' = (IF Overflow' THEN stranded ELSE stranded \cup {e})
        /\ UNCHANGED <<ldrImages, images>>
    BY <1>6 DEF InsertNotReprotected
  <2>2. ~Overflow' => e.base \in StrandedBases'
    BY <2>1 DEF StrandedBases
  <2>. QED BY <1>2, <1>6, <2>1, <2>2 DEF InsertNotReprotected
<1>7. ASSUME ~failfast, NEW e \in Entry, LdrInsert(e) PROVE EntriesInv'
  <2>1. ldrImages' = ldrImages \cup {e} /\ UNCHANGED <<images, stranded>>
    BY <1>7 DEF LdrInsert
  <2>2. e.base \in Occupied'
    BY <2>1 DEF Occupied
  <2>. QED BY <1>2, <1>7, <2>1, <2>2 DEF LdrInsert
<1>8. ASSUME ~failfast, NEW e \in Entry, RemoveCompleted(e) PROVE EntriesInv'
  <2>1. e \notin ldrImages /\ e.base # NtdllBase
    BY <1>0, <1>8 DEF RemoveCompleted, ImagesInv, OneImagePerBase
  <2>. QED BY <1>3, <1>8, <2>1 DEF RemoveCompleted
<1>9. ASSUME ~failfast, NEW e \in Entry, LdrRemove(e) PROVE EntriesInv'
  <2>1. e \notin images /\ e.base # NtdllBase
    BY <1>0, <1>9 DEF LdrRemove, ImagesInv, OneImagePerBase
  <2>. QED BY <1>3, <1>9, <2>1 DEF LdrRemove
<1>10. ASSUME NEW e \in Entry, RemoveRefused(e) \/ RemoveNotReprotected(e) PROVE EntriesInv'
  BY <1>4, <1>10 DEF RemoveRefused, RemoveNotReprotected
<1>. QED
  BY <1>1, <1>5, <1>6, <1>7, <1>8, <1>9, <1>10
  DEF Next, RtlInsertInvertedFunctionTable, RtlRemoveInvertedFunctionTable, InsertRefused

THEOREM EntriesInvariance == Spec => [](IInv /\ EntriesInv)
BY InitIInv, NextIInv, InitEntriesInv, NextEntriesInv, PTL DEF Spec

\* Whatever calls fail, and although a base can be in the table twice, an image
\* whose flag is set has its entry (Loader.cpp:177 and 274-282).
THEOREM RegisteredTheorem == Spec => []FlaggedAreRegistered
<1>1. EntriesInv => FlaggedAreRegistered
  BY DEF EntriesInv
<1>. QED BY <1>1, EntriesInvariance, PTL

\* No entry outlives its image but for those of insertions that failed after the fact.
THEOREM NoStaleEntryTheorem == Spec => []NoStaleEntry
<1>1. EntriesInv => NoStaleEntry
  BY DEF EntriesInv
<1>. QED BY <1>1, EntriesInvariance, PTL

\* No call touches the entry of an image that stays loaded: the tail moves on both
\* builds take every entry behind the place of the edit along, and no other.
THEOREM OthersUntouchedTheorem == Spec => OthersUntouched
<1> DEFINE A == \A e \in (images \cap images') \cup (ldrImages \cap ldrImages') :
                  ~failfast' => (e \in InTable <=> e \in InTable')
<1>1. ASSUME IInv, EntriesInv, [Next]_vars PROVE A \/ UNCHANGED vars
  <2>1. SUFFICES ASSUME NEW x \in (images \cap images') \cup (ldrImages \cap ldrImages'),
                        ~failfast', Next
                 PROVE  x \in InTable <=> x \in InTable'
    BY <1>1
  <2>2. x \in images \cup ldrImages /\ ImagesInv /\ OneImagePerBase /\ x.base \in Occupied
    BY <1>1, <2>1 DEF IInv, EntriesInv, Occupied
  <2>3. ASSUME NEW e \in Entry, e.base \notin Occupied, RtlpInsertInvertedFunctionTable(e)
        PROVE  x \in InTable <=> x \in InTable'
    BY <1>1, <2>2, <2>3, InsertContents
  <2>4. ASSUME NEW e \in images \cup ldrImages, e # Ntdll, x # e,
               RtlpRemoveInvertedFunctionTable(e.base)
        PROVE  x \in InTable <=> x \in InTable'
    <3>1. x.base # e.base /\ e.base \in Bases /\ e.base # NtdllBase
      BY <2>2, <2>4 DEF OneImagePerBase, ImagesInv, Entry
    <3>. QED BY <1>1, <2>4, <3>1, RemoveContents
  <2>5. ASSUME NEW e \in Entry, RemoveCompleted(e) PROVE x \in InTable <=> x \in InTable'
    BY <2>1, <2>2, <2>4, <2>5 DEF RemoveCompleted, OneImagePerBase, ImagesInv
  <2>6. ASSUME NEW e \in Entry, LdrRemove(e) PROVE x \in InTable <=> x \in InTable'
    BY <2>1, <2>2, <2>4, <2>6 DEF LdrRemove, OneImagePerBase, ImagesInv
  <2>7. ASSUME NEW e \in Entry, InsertCompleted(e) \/ InsertNotReprotected(e) \/ LdrInsert(e)
        PROVE  x \in InTable <=> x \in InTable'
    BY <2>3, <2>7 DEF InsertCompleted, InsertNotReprotected, LdrInsert
  <2>8. ASSUME UNCHANGED vars PROVE x \in InTable <=> x \in InTable'
    BY <2>8 DEF vars, InTable
  <2>. QED
    BY <2>1, <2>5, <2>6, <2>7, <2>8
    DEF Next, RtlInsertInvertedFunctionTable, RtlRemoveInvertedFunctionTable, InsertRefused,
        RemoveRefused, RemoveNotReprotected
<1>2. IInv /\ EntriesInv /\ [Next]_vars => [A]_vars
  BY <1>1
<1>. QED BY <1>2, EntriesInvariance, PTL DEF Spec, OthersUntouched
=============================================================================
