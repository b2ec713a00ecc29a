-------------------------- MODULE GlobalDataProofs --------------------------
(***************************************************************************)
(* Proofs about the block that the copies of the library share and about   *)
(* the searches of ntdll that fill it.  They hold for every set of copies, *)
(* whatever their versions are, every Windows, every contents of the       *)
(* searched section and every system call that fails.                      *)
(***************************************************************************)
EXTENDS GlobalData, TLAPS, WellFoundedInduction

-----------------------------------------------------------------------------
(* The inductive invariant: the section passes through five phases.        *)

Known == WindowsVersion(os) # "invalid"
Unused == \A c \in Copies : status[c] # "success"
Creating(c) == pc[c] \in {"write", "index", "table"}

Unnamed ==
  /\ ~named /\ mapped = {} /\ Unused
  /\ \A c \in Copies : pc[c] \in {"idle", "allocate"}

Writing ==
  /\ named /\ Unused
  /\ \E c \in Copies : pc[c] = "write" /\ mapped = {ptr[c]}

Searching ==
  /\ named /\ Unused /\ Known
  /\ mapped = {content.BaseAddress}
  /\ \E c \in Copies : pc[c] \in {"index", "table"} /\ ptr[c] = content.BaseAddress

Complete ==
  /\ named /\ Known /\ content.ready
  /\ mapped = {content.BaseAddress}
  /\ \A c \in Copies : ~Creating(c)
  /\ \A c \in Copies : status[c] = "success" => ptr[c] = content.BaseAddress

\* The name is left without a block.
Abandoned ==
  /\ named /\ ~Known /\ mapped = {} /\ Unused
  /\ \A c \in Copies : ~Creating(c)

Phases == Unnamed \/ Writing \/ Searching \/ Complete \/ Abandoned

\* The lock's owner alone is inside Initialize.
LockInv ==
  /\ \A c \in Copies : pc[c] # "idle" => lock = c
  /\ \A c \in Copies : pc[c] = "check" => ptr[c] = content.BaseAddress
  /\ \A c \in Copies : status[c] = "wild" => ~Known

BlockTypes ==
  /\ pc \in [Copies -> {"idle", "allocate", "write", "check", "index", "table"}]
  /\ status \in [Copies -> {"none", "success", "not_supported", "failed", "wild"}]
  /\ ptr \in [Copies -> Addresses \cup {None}]
  /\ DOMAIN content = DOMAIN Zero
  /\ content.BaseAddress \in Addresses \cup {None}

IInv == BlockTypes /\ LockInv /\ Phases

LEMMA InitIInv == Init => IInv
<1> SUFFICES ASSUME Init PROVE IInv
  OBVIOUS
<1>1. BlockTypes
  BY DEF Init, BlockTypes, Zero
<1>2. LockInv
  BY DEF Init, LockInv
<1>3. Unnamed
  BY DEF Init, Unnamed, Unused
<1> QED BY <1>1, <1>2, <1>3 DEF IInv, Phases

LEMMA NextIInv == IInv /\ [Next]_vars => IInv'
<1> SUFFICES ASSUME IInv, [Next]_vars PROVE IInv'
  OBVIOUS
<1> USE NoneAssumption
<1>0. BlockTypes /\ LockInv /\ Phases
  BY DEF IInv
<1>1. CASE UNCHANGED vars
  <2>1. BlockTypes' /\ LockInv'
    BY <1>0, <1>1 DEF vars, ntdllVars, searchVars, BlockTypes, LockInv, Known, Zero
  <2>2. Phases'
    BY <1>0, <1>1 DEF vars, ntdllVars, Phases, Unnamed, Writing, Searching, Complete, Abandoned,
       Known, Unused, Creating
  <2> QED BY <2>1, <2>2 DEF IInv
<1>2. ASSUME NEW c \in Copies, RtlAcquirePebLock(c) PROVE IInv'
  <2> USE DEF RtlAcquirePebLock, ntdllVars, searchVars
  <2>1. BlockTypes'
    BY <1>0, <1>2 DEF BlockTypes, Zero
  <2>2. LockInv' /\ \A d \in Copies : pc[d] = "idle"
    BY <1>0, <1>2 DEF BlockTypes, LockInv, Known
  <2>3. ~Writing /\ ~Searching
    BY <2>2 DEF Writing, Searching
  <2>4. Unnamed \/ Complete \/ Abandoned
    BY <2>3, <1>0 DEF Phases
  <2>5. (Unnamed \/ Complete \/ Abandoned)'
    BY <2>4, <1>0, <1>2
       DEF BlockTypes, Unnamed, Complete, Abandoned, Known, Unused, Creating
  <2> QED BY <2>1, <2>2, <2>5 DEF IInv, Phases
<1>3. ASSUME NEW c \in Copies, CreatesSection(c) PROVE IInv'
  <2> USE DEF CreatesSection, Goes, ntdllVars, searchVars
  <2>1. BlockTypes'
    BY <1>0, <1>3 DEF BlockTypes, Zero
  <2>2. LockInv'
    BY <1>0, <1>3 DEF BlockTypes, LockInv, Known, Phases, Unnamed, Writing, Searching, Complete,
       Abandoned
  <2>3. Unnamed
    BY <1>0, <1>3 DEF Phases, Writing, Searching, Complete, Abandoned
  <2>4. Writing'
    BY <2>3, <1>0, <1>3 DEF BlockTypes, Unnamed, Writing, Unused
  <2> QED BY <2>1, <2>2, <2>4 DEF IInv, Phases
<1>4. ASSUME NEW c \in Copies, CreationFails(c) PROVE IInv'
  <2> USE DEF CreationFails, Returns, ntdllVars, searchVars
  <2>1. BlockTypes'
    BY <1>0, <1>4 DEF BlockTypes, Zero
  <2>2. LockInv'
    BY <1>0, <1>4 DEF BlockTypes, LockInv, Known
  <2>3. Unnamed
    BY <1>0, <1>4 DEF Phases, Writing, Searching, Complete, Abandoned
  <2>4. Unnamed'
    BY <2>3, <1>0, <1>4 DEF BlockTypes, Unnamed, Unused
  <2> QED BY <2>1, <2>2, <2>4 DEF IInv, Phases
<1>5. ASSUME NEW c \in Copies, OpensSection(c) PROVE IInv'
  <2> USE DEF OpensSection, Goes, ntdllVars, searchVars
  <2>1. \A d \in Copies : d # c => pc[d] = "idle"
    BY <1>0, <1>5 DEF LockInv
  <2>2. Complete \/ Abandoned
    BY <2>1, <1>0, <1>5 DEF Phases, Unnamed, Writing, Searching
  <2>3. BlockTypes'
    BY <1>0, <1>5 DEF BlockTypes, Zero
  <2>4. LockInv'
    BY <2>1, <1>0, <1>5 DEF BlockTypes, LockInv, Known
  <2>5. (Complete \/ Abandoned)'
    BY <2>2, <1>0, <1>5 DEF BlockTypes, Complete, Abandoned, Known, Unused, Creating
  <2> QED BY <2>3, <2>4, <2>5 DEF IInv, Phases
<1>6. ASSUME NEW c \in Copies, OpeningFails(c) PROVE IInv'
  <2> USE DEF OpeningFails, Returns, ntdllVars, searchVars
  <2>1. \A d \in Copies : d # c => pc[d] = "idle"
    BY <1>0, <1>6 DEF LockInv
  <2>2. Complete \/ Abandoned
    BY <2>1, <1>0, <1>6 DEF Phases, Unnamed, Writing, Searching
  <2>3. BlockTypes'
    BY <1>0, <1>6 DEF BlockTypes, Zero
  <2>4. LockInv'
    BY <2>1, <1>0, <1>6 DEF BlockTypes, LockInv, Known
  <2>5. (Complete \/ Abandoned)'
    BY <2>2, <1>0, <1>6 DEF BlockTypes, Complete, Abandoned, Known, Unused, Creating
  <2> QED BY <2>3, <2>4, <2>5 DEF IInv, Phases
<1>7. ASSUME NEW c \in Copies, ChecksVersion(c) PROVE IInv'
  <2> USE DEF ChecksVersion, Returns, ntdllVars, searchVars
  <2>1. \A d \in Copies : d # c => pc[d] = "idle"
    BY <1>0, <1>7 DEF LockInv
  <2>2. Complete \/ Abandoned
    BY <2>1, <1>0, <1>7 DEF Phases, Unnamed, Writing, Searching
  <2>3. ptr[c] = content.BaseAddress
    BY <1>0, <1>7 DEF LockInv
  <2>4. BlockTypes'
    BY <1>0, <1>7 DEF BlockTypes, Zero
  <2>5. CASE Complete
    <3>1. ptr[c] \in mapped
      BY <2>3, <2>5 DEF Complete
    <3>2. LockInv'
      BY <3>1, <2>1, <1>0, <1>7 DEF BlockTypes, LockInv, Known
    <3>3. Complete'
      BY <2>3, <2>5, <1>0, <1>7 DEF BlockTypes, Complete, Known, Creating
    <3> QED BY <2>4, <3>2, <3>3 DEF IInv, Phases
  <2>6. CASE Abandoned
    <3>1. ptr[c] \notin mapped /\ ~Known
      BY <2>6 DEF Abandoned
    <3>2. LockInv'
      BY <3>1, <2>1, <1>0, <1>7 DEF BlockTypes, LockInv, Known
    <3>3. Abandoned'
      BY <3>1, <2>6, <1>0, <1>7 DEF BlockTypes, Abandoned, Known, Unused, Creating
    <3> QED BY <2>4, <3>2, <3>3 DEF IInv, Phases
  <2> QED BY <2>2, <2>5, <2>6
<1>8. ASSUME NEW c \in Copies, WritesBlock(c) PROVE IInv'
  <2> USE DEF WritesBlock, ntdllVars, searchVars
  <2>1. \A d \in Copies : d # c => pc[d] = "idle"
    BY <1>0, <1>8 DEF LockInv
  <2>2. Writing /\ mapped = {ptr[c]}
    BY <2>1, <1>0, <1>8 DEF Phases, Unnamed, Writing, Searching, Complete, Abandoned, Creating
  <2>3. BlockTypes'
    BY <1>0, <1>8 DEF BlockTypes, Zero, Returns, Goes
  <2>4. content'.BaseAddress = ptr[c]
    BY <1>0, <1>8 DEF BlockTypes, Zero
  <2>5. CASE Known
    <3>1. LockInv'
      BY <2>1, <2>5, <1>0, <1>8 DEF BlockTypes, LockInv, Known, Goes
    <3>2. Searching'
      BY <2>2, <2>4, <2>5, <1>0, <1>8 DEF BlockTypes, Writing, Searching, Known, Unused, Goes
    <3> QED BY <2>3, <3>1, <3>2 DEF IInv, Phases
  <2>6. CASE ~Known
    <3>1. LockInv'
      BY <2>1, <2>6, <1>0, <1>8 DEF BlockTypes, LockInv, Known, Returns
    <3>2. Abandoned'
      BY <2>1, <2>2, <2>6, <1>0, <1>8
         DEF BlockTypes, Writing, Abandoned, Known, Unused, Creating, Returns
    <3> QED BY <2>3, <3>1, <3>2 DEF IInv, Phases
  <2> QED BY <2>5, <2>6
<1>9. ASSUME NEW c \in Copies, FindLdrpModuleBaseAddressIndex(c) PROVE IInv'
  <2> USE DEF ntdllVars, searchVars
  <2>1. /\ pc[c] = "index"
        /\ \/ UNCHANGED <<ntdllVars, lock, pc, status, ptr, index, named, mapped, content>>
           \/ \E i : EndsIndexSearch(c, i)
    BY <1>9, Zenon DEF FindLdrpModuleBaseAddressIndex
  <2>2. \A d \in Copies : d # c => pc[d] = "idle"
    BY <2>1, <1>0 DEF LockInv
  <2>3. Searching /\ ptr[c] = content.BaseAddress
    BY <2>1, <2>2, <1>0 DEF Phases, Unnamed, Writing, Searching, Complete, Abandoned, Creating
  <2>4. CASE UNCHANGED <<ntdllVars, lock, pc, status, ptr, index, named, mapped, content>>
    <3>1. BlockTypes' /\ LockInv'
      BY <2>4, <1>0 DEF BlockTypes, LockInv, Known, Zero
    <3>2. Searching'
      BY <2>3, <2>4 DEF Searching, Known, Unused
    <3> QED BY <3>1, <3>2 DEF IInv, Phases
  <2>5. ASSUME NEW i, EndsIndexSearch(c, i) PROVE IInv'
    <3> USE DEF EndsIndexSearch, Goes
    <3>1. BlockTypes' /\ content'.BaseAddress = content.BaseAddress
      BY <2>5, <1>0 DEF BlockTypes, Zero
    <3>2. LockInv'
      BY <2>1, <2>2, <2>5, <3>1, <1>0 DEF BlockTypes, LockInv, Known
    <3>3. Searching'
      BY <2>3, <2>5, <3>1, <1>0 DEF BlockTypes, Searching, Known, Unused
    <3> QED BY <3>1, <3>2, <3>3 DEF IInv, Phases
  <2> QED BY <2>1, <2>4, <2>5
<1>10. ASSUME NEW c \in Copies, FindLdrpInvertedFunctionTable(c) PROVE IInv'
  <2> USE DEF ntdllVars, searchVars
  <2>1. /\ pc[c] = "table"
        /\ UNCHANGED <<ntdllVars, ptr, named, mapped>>
        /\ \/ UNCHANGED <<lock, pc, status, content>>
           \/ /\ \E i : content' = [content EXCEPT !.table = i, !.ready = TRUE]
              /\ Returns(c, "success")
    BY <1>10, Zenon DEF FindLdrpInvertedFunctionTable
  <2>2. \A d \in Copies : d # c => pc[d] = "idle"
    BY <2>1, <1>0 DEF LockInv
  <2>3. Searching /\ ptr[c] = content.BaseAddress
    BY <2>1, <2>2, <1>0 DEF Phases, Unnamed, Writing, Searching, Complete, Abandoned, Creating
  <2>4. CASE UNCHANGED <<lock, pc, status, content>>
    <3>1. BlockTypes' /\ LockInv'
      BY <2>1, <2>4, <1>0 DEF BlockTypes, LockInv, Known, Zero
    <3>2. Searching'
      BY <2>1, <2>3, <2>4 DEF Searching, Known, Unused
    <3> QED BY <3>1, <3>2 DEF IInv, Phases
  <2>5. ASSUME NEW i, content' = [content EXCEPT !.table = i, !.ready = TRUE],
               Returns(c, "success")
        PROVE  IInv'
    <3> USE DEF Returns
    <3>1. /\ BlockTypes'
          /\ content'.BaseAddress = content.BaseAddress /\ content'.ready
      BY <2>1, <2>5, <1>0 DEF BlockTypes, Zero
    <3>2. \A d \in Copies : pc'[d] = "idle"
      BY <2>2, <2>5, <1>0 DEF BlockTypes
    <3>3. \A d \in Copies : status'[d] = IF d = c THEN "success" ELSE status[d]
      BY <2>5, <1>0 DEF BlockTypes
    <3>4. LockInv'
      BY <2>1, <3>1, <3>2, <3>3, <1>0 DEF LockInv, Known
    <3>5. Complete'
      BY <2>1, <2>3, <3>1, <3>2, <3>3 DEF Searching, Complete, Known, Unused, Creating
    <3> QED BY <3>1, <3>4, <3>5 DEF IInv, Phases
  <2> QED BY <2>1, <2>4, <2>5
<1> QED BY <1>1, <1>2, <1>3, <1>4, <1>5, <1>6, <1>7, <1>8, <1>9, <1>10 DEF Next

-----------------------------------------------------------------------------
(* The searches.                                                           *)

\* A set of places has a first one.
LEMMA MinInSet ==
  ASSUME NEW S, S \subseteq Nat, S # {}
  PROVE  Min(S) \in S /\ \A j \in S : Min(S) <= j
<1> DEFINE Less == { p \in Nat \X Nat : p[1] < p[2] }
<1>1. IsWellFoundedOn(Less, Nat)
  BY Zenon, NatLessThanWellFounded DEF OpToRel
<1> HIDE DEF Less
<1>2. PICK i \in S : \A j \in S : <<j, i>> \notin Less
  BY <1>1, WFMin
<1>3. ASSUME NEW j \in S PROVE i <= j
  <2>1. i \in Nat /\ j \in Nat /\ <<j, i>> \notin Less
    BY <1>2
  <2>2. j < i => <<j, i>> \in Less
    BY <2>1 DEF Less
  <2> QED BY <2>1, <2>2
<1> QED BY <1>3 DEF Min

\* The context is new or stands at an occurrence, and the rest of the block ends with s.
Standing(s, pattern, ctx) ==
  ctx.result # 0 =>
    /\ ctx.result \in Occurrences(s, pattern)
    /\ ctx.result + ctx.size = Len(s) + 1 /\ ctx.size \in Nat

\* A search goes to the next occurrence, and ends if there is none.
Advances(s, pattern, ctx, new) ==
  /\ Standing(s, pattern, new)
  /\ new.result # 0 => ctx.result < new.result
  /\ \A i \in Occurrences(s, pattern) :
       ctx.result < i => new.result # 0 /\ new.result <= i

\* RtlFindMemoryBlockFromModuleSection, from a new context or a used one.
LEMMA FindsNext ==
  ASSUME NEW s \in Seq(Byte), NEW pattern \in Seq(Byte) \ {<<>>}, NEW ctx,
         Standing(s, pattern, ctx)
  PROVE  Advances(s, pattern, ctx, RtlFindMemoryBlockFromModuleSection(s, pattern, ctx))
<1> DEFINE from == Resumed(s, ctx)
           end == from.result + from.size - Len(pattern)
           hits == { i \in from.result .. end :
                       IsAt(s, pattern, i) \/ i + Len(pattern) - 1 > Len(s) }
           new == RtlFindMemoryBlockFromModuleSection(s, pattern, ctx)
<1>1. /\ Len(s) \in Nat /\ Len(pattern) \in Nat /\ Len(pattern) > 0
      /\ DOMAIN s = 1 .. Len(s)
  OBVIOUS
<1>2. /\ ctx.result \in 0 .. Len(s)
      /\ ctx.result # 0 => ctx.size \in Nat /\ ctx.result + ctx.size = Len(s) + 1
  BY <1>1 DEF Standing, Occurrences
<1>3. /\ from.result = ctx.result + 1 /\ from.size \in Nat
      /\ from.result + from.size = Len(s) + 1
  BY <1>1, <1>2 DEF Resumed
<1> HIDE DEF from
<1>4. end = Len(s) + 1 - Len(pattern) /\ end \in Int
  <2>1. from.result \in Nat
    BY <1>2, <1>3
  <2> QED BY <1>1, <1>3, <2>1
<1> HIDE DEF end
<1>5. hits = { i \in Occurrences(s, pattern) : ctx.result < i }
  <2>1. ASSUME NEW i \in from.result .. end
        PROVE  i \in 1 .. Len(s) /\ ctx.result < i /\ ~(i + Len(pattern) - 1 > Len(s))
    BY <1>1, <1>2, <1>3, <1>4
  <2>2. ASSUME NEW i \in 1 .. Len(s), ctx.result < i, i + Len(pattern) - 1 <= Len(s)
        PROVE  i \in from.result .. end
    BY <1>1, <1>2, <1>3, <1>4, <2>2
  <2>3. hits \subseteq { i \in Occurrences(s, pattern) : ctx.result < i }
    BY <1>1, <2>1 DEF Occurrences
  <2>4. \A i \in Occurrences(s, pattern) : ctx.result < i => i \in hits
    BY <1>1, <2>2 DEF Occurrences, IsAt
  <2> QED BY <2>3, <2>4
<1>6. new = IF hits = {} THEN NewSearch
            ELSE [result |-> Min(hits), size |-> from.size - (Min(hits) - from.result)]
  BY <1>1 DEF RtlFindMemoryBlockFromModuleSection, from, end
<1>7. SUFFICES Advances(s, pattern, ctx, new)
  OBVIOUS
<1> HIDE DEF hits, new
<1>8. CASE hits = {}
  <2>1. new.result = 0 /\ \A i \in Occurrences(s, pattern) : ~(ctx.result < i)
    BY <1>5, <1>6, <1>8 DEF NewSearch
  <2> QED BY <2>1 DEF Advances, Standing
<1>9. CASE hits # {}
  <2>1. hits \subseteq Nat
    BY <1>1, <1>5 DEF Occurrences
  <2>2. Min(hits) \in hits /\ \A i \in hits : Min(hits) <= i
    BY <1>9, <2>1, MinInSet
  <2>3. PICK m : m = Min(hits)
    OBVIOUS
  <2>4. /\ m \in Occurrences(s, pattern) /\ ctx.result < m /\ m \in 1 .. Len(s)
        /\ \A i \in Occurrences(s, pattern) : ctx.result < i => m <= i
    BY <1>1, <1>5, <2>2, <2>3 DEF Occurrences
  <2>5. new.result = m /\ new.size = from.size - (m - from.result)
    BY <1>6, <1>9, <2>3
  <2>6. new.size \in Nat /\ new.result + new.size = Len(s) + 1
    BY <1>1, <1>2, <1>3, <2>4, <2>5
  <2> QED BY <1>2, <2>4, <2>5, <2>6 DEF Advances, Standing
<1> QED BY <1>8, <1>9

\* Where ntdll's structures are.
NtdllInv ==
  /\ section \in Seq(Byte)
  /\ SearchesIndex => tree \in Occurrences(section, Root)
  /\ table \in Occurrences(section, Entry) \cup {0}

\* The search for the tree has met nothing, or the first place that looks like it;
IndexSearchInv ==
  /\ search.result = seen /\ Standing(section, Root, search)
  /\ seen # 0 => SearchesIndex /\ \A i \in Occurrences(section, Root) : seen <= i

\* nothing that the search for the table has met passes for it.
TableSearchInv ==
  /\ Standing(section, Entry, search)
  /\ \A i \in Occurrences(section, Entry) : i <= search.result => ~LooksLikeTable(i)
  /\ \E c \in Copies : index[c] = TheIndex

SearchInv ==
  /\ NtdllInv /\ index \in [Copies -> Nat]
  /\ SearchStaysInside /\ FindsNtdlls
  /\ \A c \in Copies : pc[c] = "index" => IndexSearchInv
  /\ \A c \in Copies : pc[c] = "table" => TableSearchInv

\* In the beginning nothing is found.
LEMMA InitSearchInv == Init => SearchInv
<1> SUFFICES ASSUME Init PROVE SearchInv
  OBVIOUS
<1>1. NtdllInv
  <2>1. section \in Seq(Byte) /\ table \in Occurrences(section, Entry) \cup {0}
    BY SectionsAssumption DEF Init
  <2>2. SearchesIndex => tree \in Occurrences(section, Root)
    BY DEF Init, SearchesIndex
  <2> QED BY <2>1, <2>2 DEF NtdllInv
<1>2. SearchStaysInside /\ FindsNtdlls /\ index \in [Copies -> Nat]
  BY DEF Init, NewSearch, Zero, SearchStaysInside, FindsNtdlls
<1> QED BY <1>1, <1>2 DEF Init, SearchInv

\* ntdll does not move.
LEMMA NtdllKept ==
  ASSUME NtdllInv, UNCHANGED ntdllVars
  PROVE  /\ NtdllInv' /\ (SearchesIndex' <=> SearchesIndex) /\ TheIndex' = TheIndex
         /\ \A t : IsTheTable(t)' <=> IsTheTable(t)
         /\ \A i \in Occurrences(section, Entry) : LooksLikeTable(i)' <=> LooksLikeTable(i)
<1>1. SearchesIndex' <=> SearchesIndex
  BY DEF ntdllVars, SearchesIndex, RtlIsWindowsVersionOrGreater
<1>2. HasMin(tree)' <=> HasMin(tree)
  BY DEF ntdllVars, HasMin
<1>3. NtdllInv'
  BY <1>1 DEF ntdllVars, NtdllInv, Occurrences, IsAt
<1>4. TheIndex' = TheIndex
  BY <1>1, <1>2 DEF ntdllVars, TheIndex, Occurrences, IsAt
<1>5. \A i : LooksLikeTable(i)' <=> LooksLikeTable(i)
  BY DEF ntdllVars, LooksLikeTable, HasHeader, RtlIsWindowsVersionOrGreater
<1>6. \A t : IsTheTable(t)' <=> IsTheTable(t)
  <2>1. Decoys' = Decoys /\ table' = table
    BY <1>5 DEF ntdllVars, Decoys, Occurrences, IsAt
  <2> QED BY <1>5, <2>1 DEF IsTheTable
<1> QED BY <1>1, <1>3, <1>4, <1>5, <1>6

\* The first place that passes is what IsTheTable describes.
LEMMA FirstIsTheTable ==
  ASSUME NtdllInv, NEW t \in Nat,
         t # 0 => t \in Occurrences(section, Entry) /\ LooksLikeTable(t),
         \A i \in Occurrences(section, Entry) : LooksLikeTable(i) => t # 0 /\ t <= i
  PROVE  IsTheTable(t)
<1>1. /\ Occurrences(section, Entry) \subseteq Nat \ {0}
      /\ table \in Occurrences(section, Entry) \cup {0}
  BY DEF NtdllInv, Occurrences
<1>2. \A i \in Decoys : t # 0 /\ t <= i /\ i \in Nat /\ i # table
  BY <1>1 DEF Decoys
<1>3. CASE t = 0
  <2>1. Decoys = {} /\ ~(table # 0 /\ LooksLikeTable(table))
    BY <1>1, <1>2, <1>3
  <2> QED BY <1>3, <2>1 DEF IsTheTable
<1>4. CASE t # 0 /\ t = table
  BY <1>1, <1>2, <1>4 DEF IsTheTable
<1>5. CASE t # 0 /\ t # table
  <2>1. t \in Decoys
    BY <1>5 DEF Decoys
  <2>2. table # 0 /\ LooksLikeTable(table) => t <= table
    BY <1>1
  <2>3. ~(table # 0 /\ LooksLikeTable(table) /\ \A i \in Decoys : table < i)
    BY <1>1, <1>5, <2>1, <2>2
  <2> QED BY <1>5, <2>1, <2>3 DEF IsTheTable
<1> QED BY <1>3, <1>4, <1>5

\* What is found stays found.
LEMMA FoundKept ==
  ASSUME NtdllInv, FindsNtdlls, UNCHANGED <<ntdllVars, index>>,
         content'.ready => content.ready /\ content'.table = content.table
  PROVE  FindsNtdlls'
<1>1. TheIndex' = TheIndex /\ \A t : IsTheTable(t)' <=> IsTheTable(t)
  BY NtdllKept
<1>2. PICK t : t = content'.table
  OBVIOUS
<1>3. content'.ready => IsTheTable(t)
  BY <1>2 DEF FindsNtdlls
<1>4. content'.ready => IsTheTable(content.table)'
  BY <1>1, <1>2, <1>3 DEF IsTheTable
<1> QED BY <1>1, <1>4 DEF FindsNtdlls

\* A step after which no search is under way, or one that has just begun.
LEMMA OutsideSearches ==
  ASSUME SearchInv, UNCHANGED <<ntdllVars, index>>,
         search' = NewSearch \/ search' = search,
         content'.ready => content.ready /\ content'.table = content.table,
         \A d \in Copies : /\ pc'[d] # "table"
                           /\ pc'[d] = "index" => search' = NewSearch /\ seen' = 0
  PROVE  SearchInv'
<1>1. /\ NtdllInv' /\ TheIndex' = TheIndex /\ section' = section /\ table' = table
      /\ \A t : IsTheTable(t)' <=> IsTheTable(t)
  BY NtdllKept DEF SearchInv, ntdllVars
<1>2. SearchStaysInside'
  <2>1. CASE search' = NewSearch
    BY <2>1 DEF SearchStaysInside, NewSearch
  <2>2. CASE search' = search
    BY <1>1, <2>2 DEF SearchInv, SearchStaysInside, Occurrences, IsAt
  <2> QED BY <2>1, <2>2
<1>3. FindsNtdlls'
  BY <1>1, FoundKept DEF SearchInv
<1>4. ASSUME NEW d \in Copies, pc'[d] = "index" PROVE IndexSearchInv'
  BY <1>4 DEF IndexSearchInv, Standing, NewSearch
<1> QED BY <1>1, <1>2, <1>3, <1>4 DEF SearchInv

\* One search for the tree.
LEMMA IndexSearched ==
  ASSUME IInv, SearchInv, NEW c \in Copies, FindLdrpModuleBaseAddressIndex(c)
  PROVE  SearchInv'
<1> DEFINE ctx == RtlFindMemoryBlockFromModuleSection(section, Root, search)
<1>1. /\ pc[c] = "index" /\ UNCHANGED ntdllVars /\ content' = content
      /\ IF SearchesIndex /\ ctx.result # 0 /\ seen = 0
         THEN search' = ctx /\ seen' = ctx.result /\ UNCHANGED <<pc, index>>
         ELSE EndsIndexSearch(c, IF ctx.result = 0 /\ seen # 0 /\ HasMin(seen) THEN seen ELSE 0)
  BY DEF FindLdrpModuleBaseAddressIndex, EndsIndexSearch
<1>2. /\ NtdllInv /\ IndexSearchInv /\ FindsNtdlls
      /\ index \in [Copies -> Nat]
      /\ \A d \in Copies : d # c => pc[d] = "idle"
  BY <1>1 DEF SearchInv, IInv, LockInv
<1>3. /\ NtdllInv' /\ TheIndex' = TheIndex /\ (SearchesIndex' <=> SearchesIndex)
      /\ section' = section /\ table' = table
      /\ \A i \in Occurrences(section, Entry) : LooksLikeTable(i)' <=> LooksLikeTable(i)
  BY <1>1, <1>2, NtdllKept DEF ntdllVars
<1>4. Advances(section, Root, search, ctx)
  BY <1>2, PatternAssumption, FindsNext DEF NtdllInv, IndexSearchInv
<1> HIDE DEF ctx
<1>5. content'.ready => IsTheTable(content.table)'
  <2>1. PICK t : t = content.table
    OBVIOUS
  <2>2. content.ready => IsTheTable(t)'
    BY <1>1, <1>2, <2>1, NtdllKept DEF FindsNtdlls
  <2> QED BY <1>1, <2>1, <2>2 DEF IsTheTable
<1>6. Occurrences(section, Root) \subseteq Nat \ {0}
  BY <1>2 DEF NtdllInv, Occurrences
<1>7. CASE SearchesIndex /\ ctx.result # 0 /\ seen = 0
  <2>1. search' = ctx /\ seen' = ctx.result /\ pc' = pc /\ index' = index
    BY <1>1, <1>7
  <2>2. search.result = 0
    BY <1>2, <1>7 DEF IndexSearchInv
  <2>3. /\ Standing(section, Root, ctx)
        /\ \A i \in Occurrences(section, Root) : ctx.result <= i
    BY <1>4, <1>6, <2>2 DEF Advances
  <2>4. IndexSearchInv'
    BY <1>3, <1>7, <2>1, <2>3 DEF IndexSearchInv
  <2>5. SearchStaysInside'
    BY <1>3, <2>1, <2>3 DEF Standing, SearchStaysInside
  <2>6. FindsNtdlls'
    BY <1>1, <1>2, <2>1, FoundKept
  <2>7. \A d \in Copies : pc'[d] # "table"
    BY <1>1, <1>2, <2>1
  <2> QED BY <1>2, <1>3, <2>1, <2>4, <2>5, <2>6, <2>7 DEF SearchInv
<1>8. CASE ~(SearchesIndex /\ ctx.result # 0 /\ seen = 0)
  <2> DEFINE found == IF ctx.result = 0 /\ seen # 0 /\ HasMin(seen) THEN seen ELSE 0
  <2>1. EndsIndexSearch(c, found)
    BY <1>1, <1>8
  <2>2. found = TheIndex
    <3>1. CASE ~SearchesIndex
      BY <1>2, <3>1 DEF IndexSearchInv, TheIndex
    <3>2. CASE SearchesIndex /\ seen = 0
      <4>1. ctx.result = 0 /\ search.result = 0
        BY <1>2, <1>8, <3>2 DEF IndexSearchInv
      <4>2. Occurrences(section, Root) = {}
        BY <1>4, <1>6, <4>1 DEF Advances
      <4> QED BY <3>2, <4>2 DEF TheIndex
    <3>3. CASE SearchesIndex /\ seen # 0 /\ ctx.result = 0
      <4>1. /\ search.result = seen /\ seen \in Occurrences(section, Root)
            /\ \A i \in Occurrences(section, Root) : seen <= i
        BY <1>2, <3>3 DEF IndexSearchInv, Standing
      <4>2. \A i \in Occurrences(section, Root) : ~(seen < i)
        BY <1>4, <3>3, <4>1 DEF Advances
      <4>3. Occurrences(section, Root) = {seen}
        BY <1>6, <4>1, <4>2
      <4>4. tree = seen
        BY <1>2, <3>3, <4>3 DEF NtdllInv
      <4> QED BY <3>3, <4>3, <4>4 DEF TheIndex
    <3>4. CASE SearchesIndex /\ seen # 0 /\ ctx.result # 0
      <4>1. search.result = seen /\ seen \in Occurrences(section, Root)
        BY <1>2, <3>4 DEF IndexSearchInv, Standing
      <4>2. ctx.result \in Occurrences(section, Root) /\ seen < ctx.result
        BY <1>4, <3>4, <4>1 DEF Advances, Standing
      <4>3. Occurrences(section, Root) # {tree}
        BY <1>6, <4>1, <4>2
      <4> QED BY <3>4, <4>3 DEF TheIndex
    <3> QED BY <3>1, <3>2, <3>3, <3>4
  <2> HIDE DEF found
  <2>3. PICK t : t = TheIndex
    OBVIOUS
  <2>4. /\ index' = [index EXCEPT ![c] = t] /\ search' = NewSearch
        /\ pc' = [pc EXCEPT ![c] = "table"]
    BY <2>1, <2>2, <2>3 DEF EndsIndexSearch, Goes
  <2>5. t \in Nat
    <3>1. SearchesIndex => tree \in Nat
      BY <1>2 DEF NtdllInv, Occurrences
    <3> QED BY <3>1, <2>3 DEF TheIndex
  <2>6. index' \in [Copies -> Nat] /\ index'[c] = t
    BY <1>2, <2>4, <2>5
  <2>7. TableSearchInv'
    <3>1. Standing(section, Entry, search)'
      BY <2>4 DEF Standing, NewSearch
    <3>2. \A i \in Occurrences(section, Entry)' : ~(i <= search'.result)
      BY <1>3, <2>4 DEF NewSearch, NtdllInv, Occurrences
    <3>3. \E d \in Copies : index'[d] = TheIndex'
      BY <1>3, <2>3, <2>6
    <3> QED BY <3>1, <3>2, <3>3 DEF TableSearchInv
  <2>8. SearchStaysInside'
    BY <2>4 DEF SearchStaysInside, NewSearch
  <2>9. FindsNtdlls'
    <3>1. ASSUME NEW d \in Copies PROVE index'[d] \in {0, t}
      <4>1. index[d] \in {0, t}
        BY <1>2, <2>3 DEF FindsNtdlls
      <4> QED BY <1>2, <2>4, <4>1
    <3>2. \A d \in Copies : index'[d] \in {0, TheIndex'}
      BY <1>3, <2>3, <3>1
    <3> QED BY <1>3, <1>5, <2>3, <2>6, <3>2 DEF FindsNtdlls
  <2>10. \A d \in Copies : pc'[d] # "index"
    BY <1>2, <2>4 DEF IInv, BlockTypes
  <2> QED BY <1>3, <2>6, <2>7, <2>8, <2>9, <2>10 DEF SearchInv
<1> QED BY <1>7, <1>8

\* One search for the table.
LEMMA TableSearched ==
  ASSUME IInv, SearchInv, NEW c \in Copies, FindLdrpInvertedFunctionTable(c)
  PROVE  SearchInv'
<1> DEFINE ctx == RtlFindMemoryBlockFromModuleSection(section, Entry, search)
<1>1. /\ pc[c] = "table" /\ UNCHANGED ntdllVars /\ index' = index
      /\ IF ctx.result # 0 /\ ~LooksLikeTable(ctx.result)
         THEN search' = ctx /\ UNCHANGED <<pc, content>>
         ELSE /\ content' = [content EXCEPT !.table = ctx.result, !.ready = TRUE]
              /\ search' = NewSearch /\ pc' = [pc EXCEPT ![c] = "idle"]
  BY DEF FindLdrpInvertedFunctionTable, Returns
<1>2. /\ NtdllInv /\ TableSearchInv /\ FindsNtdlls
      /\ index \in [Copies -> Nat]
      /\ \A d \in Copies : d # c => pc[d] = "idle"
  BY <1>1 DEF SearchInv, IInv, LockInv
<1>3. /\ NtdllInv' /\ TheIndex' = TheIndex /\ section' = section
      /\ \A t : IsTheTable(t)' <=> IsTheTable(t)
      /\ \A i \in Occurrences(section, Entry) : LooksLikeTable(i)' <=> LooksLikeTable(i)
      /\ Occurrences(section, Entry)' = Occurrences(section, Entry)
  BY <1>1, <1>2, NtdllKept DEF ntdllVars, Occurrences, IsAt
<1>4. Advances(section, Entry, search, ctx)
  BY <1>2, PatternAssumption, FindsNext DEF NtdllInv, TableSearchInv
<1> HIDE DEF ctx
<1>5. /\ Occurrences(section, Entry) \subseteq Nat \ {0} /\ search.result \in Nat
      /\ ctx.result \in Occurrences(section, Entry) \cup {0}
  BY <1>2, <1>4 DEF NtdllInv, TableSearchInv, Advances, Standing, Occurrences
<1>6. ASSUME NEW i \in Occurrences(section, Entry), LooksLikeTable(i)
      PROVE  ctx.result # 0 /\ ctx.result <= i
  BY <1>2, <1>4, <1>5, <1>6 DEF TableSearchInv, Advances
<1>7. CASE ctx.result # 0 /\ ~LooksLikeTable(ctx.result)
  <2>1. search' = ctx /\ pc' = pc /\ content' = content
    BY <1>1, <1>7
  <2>2. Standing(section, Entry, ctx)
    BY <1>4 DEF Advances
  <2>3. TableSearchInv'
    <3>1. Standing(section, Entry, search)'
      BY <1>3, <2>1, <2>2
    <3>2. ASSUME NEW i \in Occurrences(section, Entry), i <= ctx.result
          PROVE  ~LooksLikeTable(i)
      BY <1>5, <1>6, <1>7, <3>2
    <3>3. \A i \in Occurrences(section, Entry)' : i <= search'.result => ~LooksLikeTable(i)'
      BY <1>3, <2>1, <3>2
    <3>4. \E d \in Copies : index'[d] = TheIndex'
      BY <1>1, <1>2, <1>3 DEF TableSearchInv
    <3> QED BY <3>1, <3>3, <3>4 DEF TableSearchInv
  <2>4. SearchStaysInside'
    BY <1>3, <2>1, <2>2 DEF Standing, SearchStaysInside
  <2>5. FindsNtdlls'
    BY <1>1, <1>2, <2>1, FoundKept
  <2>6. \A d \in Copies : pc'[d] # "index"
    BY <1>1, <1>2, <2>1
  <2> QED BY <1>1, <1>2, <1>3, <2>3, <2>4, <2>5, <2>6 DEF SearchInv
<1>8. CASE ~(ctx.result # 0 /\ ~LooksLikeTable(ctx.result))
  <2>1. /\ content' = [content EXCEPT !.table = ctx.result, !.ready = TRUE]
        /\ search' = NewSearch /\ pc' = [pc EXCEPT ![c] = "idle"]
    BY <1>1, <1>8
  <2>2. PICK t : t = ctx.result
    OBVIOUS
  <2>3. IsTheTable(t)
    BY <1>2, <1>5, <1>6, <1>8, <2>2, FirstIsTheTable
  <2>4. content'.table = t
    BY <2>1, <2>2 DEF IInv, BlockTypes, Zero
  <2>5. FindsNtdlls'
    <3>1. IsTheTable(t)'
      BY <1>3, <2>3
    <3>2. IsTheTable(content.table)'
      BY <2>4, <3>1 DEF IsTheTable
    <3>3. \A d \in Copies : index'[d] \in {0, TheIndex'}
      BY <1>1, <1>2, <1>3 DEF FindsNtdlls
    <3>4. \E d \in Copies : index'[d] = TheIndex'
      BY <1>1, <1>2, <1>3 DEF TableSearchInv
    <3> QED BY <3>2, <3>3, <3>4 DEF FindsNtdlls
  <2>6. SearchStaysInside'
    BY <2>1 DEF SearchStaysInside, NewSearch
  <2>7. \A d \in Copies : pc'[d] = "idle"
    BY <1>2, <2>1 DEF IInv, BlockTypes
  <2> QED BY <1>1, <1>2, <1>3, <2>5, <2>6, <2>7 DEF SearchInv
<1> QED BY <1>7, <1>8

\* Every step keeps what is known of the searches.
LEMMA NextSearchInv == IInv /\ SearchInv /\ [Next]_vars => SearchInv'
<1> SUFFICES ASSUME IInv, SearchInv, [Next]_vars PROVE SearchInv'
  OBVIOUS
<1> USE NoneAssumption
<1>1. CASE UNCHANGED vars
  <2> USE DEF vars, ntdllVars, searchVars
  <2>1. /\ NtdllInv' /\ TheIndex' = TheIndex
        /\ \A i \in Occurrences(section, Entry) : LooksLikeTable(i)' <=> LooksLikeTable(i)
    BY <1>1, NtdllKept DEF SearchInv
  <2>2. FindsNtdlls'
    BY <1>1, FoundKept DEF SearchInv
  <2>3. SearchStaysInside'
    BY <1>1 DEF SearchInv, SearchStaysInside, Occurrences, IsAt
  <2>4. IndexSearchInv => IndexSearchInv'
    BY <1>1 DEF IndexSearchInv, Standing, SearchesIndex, Occurrences, IsAt,
       RtlIsWindowsVersionOrGreater
  <2>5. TableSearchInv => TableSearchInv'
    <3>1. Occurrences(section, Entry)' = Occurrences(section, Entry)
      BY <1>1 DEF Occurrences, IsAt
    <3>2. Standing(section, Entry, search) => Standing(section, Entry, search)'
      BY <1>1, <3>1 DEF Standing
    <3>3. search' = search /\ index' = index
      BY <1>1
    <3> QED BY <2>1, <3>1, <3>2, <3>3 DEF TableSearchInv
  <2>6. pc' = pc /\ index' = index
    BY <1>1
  <2> QED BY <2>1, <2>2, <2>3, <2>4, <2>5, <2>6 DEF SearchInv
<1>2. ASSUME NEW c \in Copies,
             \/ RtlAcquirePebLock(c) \/ CreatesSection(c) \/ CreationFails(c)
             \/ OpensSection(c) \/ OpeningFails(c) \/ ChecksVersion(c) \/ WritesBlock(c)
      PROVE  SearchInv'
  <2>1. \A d \in Copies : d # c => pc[d] = "idle"
    BY <1>2 DEF IInv, LockInv, RtlAcquirePebLock, CreatesSection, CreationFails, OpensSection,
       OpeningFails, ChecksVersion, WritesBlock
  <2>2. /\ UNCHANGED <<ntdllVars, index>>
        /\ search' = NewSearch \/ search' = search
    BY <1>2 DEF searchVars, RtlAcquirePebLock, CreatesSection, CreationFails, OpensSection,
       OpeningFails, ChecksVersion, WritesBlock
  <2>3. content'.ready => content.ready /\ content'.table = content.table
    <3>1. CASE CreatesSection(c)
      BY <3>1 DEF CreatesSection, Zero
    <3>2. CASE WritesBlock(c)
      <4>1. DOMAIN content = DOMAIN Zero
        BY DEF IInv, BlockTypes
      <4>2. \E a, v, w : content' = [content EXCEPT !.BaseAddress = a, !.version = v, !.os = w]
        BY <3>2 DEF WritesBlock
      <4> QED BY <4>1, <4>2 DEF Zero
    <3>3. CASE \/ RtlAcquirePebLock(c) \/ CreationFails(c) \/ OpensSection(c)
               \/ OpeningFails(c) \/ ChecksVersion(c)
      BY <3>3 DEF RtlAcquirePebLock, CreationFails, OpensSection, OpeningFails, ChecksVersion
    <3> QED BY <1>2, <3>1, <3>2, <3>3
  <2>4. /\ \E place : pc' = [pc EXCEPT ![c] = place]
        /\ pc'[c] # "table"
        /\ pc'[c] = "index" => search' = NewSearch /\ seen' = 0
    BY <1>2 DEF RtlAcquirePebLock, CreatesSection, CreationFails, OpensSection,
       OpeningFails, ChecksVersion, WritesBlock, Goes, Returns, IInv, BlockTypes
  <2>5. \A d \in Copies : /\ pc'[d] # "table"
                          /\ pc'[d] = "index" => search' = NewSearch /\ seen' = 0
    BY <2>1, <2>4 DEF IInv, BlockTypes
  <2> QED BY <2>2, <2>3, <2>5, OutsideSearches
<1> QED BY <1>1, <1>2, IndexSearched, TableSearched DEF Next

-----------------------------------------------------------------------------
(* The theorems.                                                           *)

\* The section is unnamed, being written, being completed, complete or abandoned, and
\* the copies' states fit it.
THEOREM Invariance == Spec => []IInv
<1> QED BY InitIInv, NextIInv, PTL DEF Spec

\* All copies whose Initialize succeeded use one block, mapped and complete
\* (Initialize.cpp, MmpAllocateGlobalData and InitializeLockHeld).
THEOREM OneBlockTheorem == Spec => []OneBlock
<1>1. IInv => OneBlock
  BY DEF IInv, Phases, Unnamed, Writing, Searching, Complete, Abandoned, Unused, OneBlock
<1> QED BY <1>1, Invariance, PTL

\* On a Windows that the code knows no copy follows the name to a block that is not
\* there, whichever system calls fail.
THEOREM NameTheorem == Spec => []BlockBehindTheName
<1>1. ASSUME IInv PROVE BlockBehindTheName
  <2>1. Wild => ~Known
    BY <1>1 DEF IInv, LockInv, Wild
  <2>2. named /\ lock = None /\ Known => content.BaseAddress \in mapped
    BY <1>1, NoneAssumption
       DEF IInv, LockInv, Phases, Unnamed, Writing, Searching, Complete, Abandoned
  <2> QED BY <2>1, <2>2 DEF BlockBehindTheName, Known
<1> QED BY <1>1, Invariance, PTL

\* ntdll stays where it is, a search for the tree has met at most the first place that
\* looks like it, and nothing that one for the table has met passes for a table.
THEOREM SearchInvariance == Spec => [](IInv /\ SearchInv)
<1> QED BY InitIInv, NextIInv, InitSearchInv, NextSearchInv, PTL DEF Spec

\* A search that is resumed stays inside its section, at an occurrence of its pattern
\* (BaseAddressIndex.cpp, RtlFindMemoryBlockFromModuleSection).
THEOREM SearchTheorem == Spec => []SearchStaysInside
<1>1. SearchInv => SearchStaysInside
  BY DEF SearchInv
<1> QED BY <1>1, SearchInvariance, PTL

\* The tree is found exactly when nothing else looks like the pointer to its root, and
\* the table exactly when its header passes the tests and no decoy that passes them too
\* stands in front of it (BaseAddressIndex.cpp, lines 135-145; Initialize.cpp, lines
\* 130-136).
THEOREM FoundTheorem == Spec => []FindsNtdlls
<1>1. SearchInv => FindsNtdlls
  BY DEF SearchInv
<1> QED BY <1>1, SearchInvariance, PTL

=============================================================================
