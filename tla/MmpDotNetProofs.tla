-------------------------- MODULE MmpDotNetProofs --------------------------
(***************************************************************************)
(* Proofs about MmpDotNet for every number of threads, handles, addresses  *)
(* and files, when no thread uses an address while another is unmapping it.*)
(* The list is read and written under the lock, but every hook calls the   *)
(* original function outside of it, between a search and an insertion or a *)
(* removal; the invariant says what each such call may still rely on.  An  *)
(* object is in the list from the end of the call that made it to the one  *)
(* that lets go of it, at most once, and described as it was opened.       *)
(***************************************************************************)
EXTENDS MmpDotNet, SequenceTheorems, FiniteSetTheorems, WellFoundedInduction, TLAPS

-----------------------------------------------------------------------------
(* The inductive invariant.                                                *)

Items == [hObject : Keys \cup {None}, value : Files \cup Bases \cup {None}, image : BOOLEAN]

CallState ==
  [pc : {"idle", "open", "found", "insert", "unmapped"},
   call : {"query", "data", "image", "map", "close", "unmap", None},
   key : Keys \cup {None}, iter : Entries \cup {None}, new : Keys \cup {None}, item : Items]

Modules == [kind : {"file", "data", "image"}, file : Files \cup {None}]
Copies  == [kind : {"copy"}, file : Files \cup {None}]

TypeInv ==
  /\ preHooked \in BOOLEAN
  /\ open \in [Handles -> {Closed, Other} \cup Modules]
  /\ view \in [Bases -> {Closed, Other} \cup Copies]
  /\ at \in [Threads -> CallState]

\* The blocks of the list are distinct, and so are the objects they stand for.
ListInv ==
  /\ list \in Seq(Entries) /\ IsInjective(list)
  /\ item \in [Entries -> Items]
  /\ \A e \in Entries : item[e] = NoItem <=> e \notin Allocated
  /\ \A e, f \in Allocated : item[e].hObject = item[f].hObject => e = f

Using(t, k) == at[t].pc = "found" /\ at[t].key = k
Entered(k)  == \E e \in Allocated : item[e].hObject = k

\* What a thread remembers of the list while it does not hold the lock is still there.
ThreadInv ==
  \A t \in Threads :
    /\ IF at[t].pc = "insert" THEN at[t].new \in Keys /\ at[t].item.hObject = at[t].new
                              ELSE at[t].new = None
    /\ at[t].pc = "found" =>
         /\ IF at[t].call = "unmap" THEN at[t].key \in Bases ELSE at[t].key \in Handles
         /\ at[t].iter # None => at[t].iter \in Allocated /\ item[at[t].iter].hObject = at[t].key
    /\ at[t].pc = "unmapped" =>
         /\ at[t].key \in Bases /\ view[at[t].key] = Closed
         /\ at[t].iter \in Allocated /\ item[at[t].iter].hObject = at[t].key

\* One call makes an object, and one that lets go of it is alone with it.
ExclusiveInv ==
  \A t, u \in Threads : t # u =>
    /\ at[t].new # None => at[u].new # at[t].new
    /\ at[t].pc = "found" /\ at[t].call \in LettingGo => ~Using(u, at[t].key)
    /\ at[t].pc = "unmapped" /\ at[u].pc = "unmapped" => at[u].key # at[t].key

Describes(it, h) == it.value = open[h].file /\ it.image = (open[h].kind = "image")

\* Only an object that a hook made is in the list or about to be,
HandleBare(h) ==
  open[h] \in {Closed, Other} => ~Entered(h) /\ \A t \in Threads : at[t].new # h

\* and it is, from the call that makes it to the one that closes it.
HandleKnown(h) ==
  open[h] \in Modules =>
    \/ Entered(h)
    \/ \E t \in Threads : at[t].new = h
    \/ \E t \in Threads : Using(t, h) /\ at[t].call = "close" /\ at[t].iter = None

HandleDescribed(h) ==
  \A e \in Allocated : item[e].hObject = h => Describes(item[e], h)

\* A call on a handle is on an open one that the call which made it has returned.
HandleUsed(h) ==
  \A t \in Threads : Using(t, h) =>
    /\ open[h] # Closed
    /\ \A u \in Threads : at[u].new # h
    /\ at[t].iter = None => ~Entered(h) /\ (open[h] = Other \/ at[t].call = "close")

HandleMade(h) ==
  \A t \in Threads : at[t].new = h => ~Entered(h) /\ Describes(at[t].item, h)

HandleInv ==
  \A h \in Handles :
    HandleBare(h) /\ HandleKnown(h) /\ HandleDescribed(h) /\ HandleUsed(h) /\ HandleMade(h)

\* The same of addresses, which stay in the list until the view is gone.
BaseBare(b) ==
  /\ view[b] = Other => ~Entered(b)
  /\ view[b] = Closed /\ Entered(b) =>
       \E t \in Threads : at[t].pc = "unmapped" /\ at[t].key = b
  /\ view[b] \in {Closed, Other} => \A t \in Threads : at[t].new # b

BaseKnown(b) ==
  view[b] \in Copies => Entered(b) \/ \E t \in Threads : at[t].new = b

BaseUsed(b) ==
  \A t \in Threads : Using(t, b) =>
    /\ view[b] # Closed
    /\ \A u \in Threads : at[u].new # b
    /\ at[t].iter = None => view[b] = Other

BaseMade(b) ==
  \A t \in Threads : at[t].new = b => ~Entered(b)

BaseInv ==
  \A b \in Bases : BaseBare(b) /\ BaseKnown(b) /\ BaseUsed(b) /\ BaseMade(b)

HookInv ==
  ~preHooked =>
    /\ list = <<>>
    /\ \A h \in Handles : open[h] \in {Closed, Other}
    /\ \A b \in Bases : view[b] \in {Closed, Other}

IInv == TypeInv /\ ListInv /\ ThreadInv /\ ExclusiveInv /\ HandleInv /\ BaseInv /\ HookInv

\* A call that is about to make the handle of a module is in a hook, and has the entry of
\* a module or of one that is gone.
OpeningInv ==
  \A t \in Threads :
    at[t].pc = "open" => preHooked /\ at[t].item.value \in Files \cup {None}

USE KeysAssumption, EntriesAssumption

-----------------------------------------------------------------------------
(* The list.                                                               *)

\* A set of positions has a first one.
LEMMA MinInSet ==
  ASSUME NEW S, S \subseteq Nat, S # {}
  PROVE  Min(S) \in S /\ \A j \in S : Min(S) <= j
<1> DEFINE Less == { p \in Nat \X Nat : p[1] < p[2] }
<1>1. IsWellFoundedOn(Less, Nat)
  BY Zenon, NatLessThanWellFounded DEF OpToRel
<1> HIDE DEF Less
<1>2. PICK i \in S : \A j \in S : <<j, i>> \notin Less
  BY <1>1, WFMin
<1>3. ASSUME NEW j \in S PROVE i <= j
  <2>1. i \in Nat /\ j \in Nat /\ <<j, i>> \notin Less
    BY <1>2
  <2>2. j < i => <<j, i>> \in Less
    BY <2>1 DEF Less
  <2> QED BY <2>1, <2>2
<1> QED BY <1>3 DEF Min

\* MmpFindHandleEntry returns an entry of the object exactly when the list has one.
LEMMA FindEntry ==
  ASSUME ListInv, NEW k
  PROVE  IF Entered(k)
         THEN /\ MmpFindHandleEntry(k) \in Allocated
              /\ item[MmpFindHandleEntry(k)].hObject = k
         ELSE MmpFindHandleEntry(k) = None
<1> DEFINE S == { i \in DOMAIN list : item[list[i]].hObject = k }
<1>1. Entered(k) <=> S # {}
  BY DEF Entered, Allocated, Range
<1>2. S \subseteq Nat
  BY LenProperties DEF ListInv
<1>3. S # {} => Min(S) \in S
  BY <1>2, MinInSet
<1>4. MmpFindHandleEntry(k) = IF S = {} THEN None ELSE list[Min(S)]
  BY DEF MmpFindHandleEntry
<1> QED BY <1>1, <1>3, <1>4 DEF Allocated, Range

\* An entry that goes in is new, and the others stay.
LEMMA InsertEntry ==
  ASSUME ListInv, NEW it \in Items, it # NoItem, ~Entered(it.hObject), MmpInsertHandleEntry(it)
  PROVE  /\ ListInv'
         /\ \E e \in Entries \ Allocated :
               Allocated' = Allocated \cup {e} /\ item' = [item EXCEPT ![e] = it]
<1>1. PICK e \in Entries \ Allocated : list' = Append(list, e) /\ item' = [item EXCEPT ![e] = it]
  BY DEF MmpInsertHandleEntry
<1>2. list \in Seq(Entries)
  BY DEF ListInv
<1>3. /\ list' \in Seq(Entries) /\ Len(list') = Len(list) + 1 /\ Len(list) \in Nat
      /\ \A i \in 1 .. Len(list) : list'[i] = list[i]
      /\ list'[Len(list) + 1] = e
  BY <1>1, <1>2, AppendProperties, LenProperties
<1>4. DOMAIN list = 1 .. Len(list) /\ DOMAIN list' = 1 .. Len(list')
  BY <1>2, <1>3, LenProperties
<1>5. Allocated' = Allocated \cup {e}
  BY <1>3, <1>4 DEF Allocated, Range
<1>6. IsInjective(list')
  BY <1>3, <1>4 DEF ListInv, IsInjective, Allocated, Range
<1>7. item' \in [Entries -> Items]
  BY <1>1 DEF ListInv
<1>8. Allocated \subseteq Entries /\ \A f \in Entries : item'[f] = IF f = e THEN it ELSE item[f]
  BY <1>1, <1>2, <1>4, ElementOfSeq DEF ListInv, Allocated, Range
<1>9. \A f \in Entries : item'[f] = NoItem <=> f \notin Allocated'
  BY <1>5, <1>8 DEF ListInv
<1>10. \A f, g \in Allocated' : item'[f].hObject = item'[g].hObject => f = g
  BY <1>5, <1>8 DEF ListInv, Entered
<1>11. ListInv'
  BY <1>3, <1>6, <1>7, <1>9, <1>10 DEF ListInv
<1> QED BY <1>1, <1>5, <1>11

\* RemoveAt closes the gap that it makes.
LEMMA EraseItem ==
  ASSUME NEW S, NEW s \in Seq(S), NEW i \in 1 .. Len(s)
  PROVE  /\ RemoveAt(s, i) \in Seq(S)
         /\ Len(RemoveAt(s, i)) = Len(s) - 1
         /\ \A j \in 1 .. Len(s) - 1 :
              RemoveAt(s, i)[j] = IF j < i THEN s[j] ELSE s[j + 1]
<1> DEFINE front == SubSeq(s, 1, i - 1)
           back  == SubSeq(s, i + 1, Len(s))
<1>1. Len(s) \in Nat /\ i \in Nat /\ 1 <= i /\ i <= Len(s)
  OBVIOUS
<1>2. front \in Seq(S) /\ Len(front) = i - 1 /\ \A j \in 1 .. i - 1 : front[j] = s[j]
  BY <1>1
<1>3. back \in Seq(S) /\ Len(back) = Len(s) - i
        /\ \A j \in 1 .. Len(s) - i : back[j] = s[j + i]
  BY <1>1
<1>4. RemoveAt(s, i) = front \o back
  BY DEF RemoveAt
<1> HIDE DEF front, back
<1>5. front \o back \in Seq(S) /\ Len(front \o back) = Len(s) - 1
  <2>1. front \o back \in Seq(S) /\ Len(front \o back) = Len(front) + Len(back)
    BY <1>2, <1>3, ConcatProperties
  <2> QED BY <2>1, <1>1, <1>2, <1>3
<1>6. ASSUME NEW j \in 1 .. Len(s) - 1
      PROVE  (front \o back)[j] = IF j < i THEN s[j] ELSE s[j + 1]
  <2>1. CASE j < i
    BY <2>1, <1>1, <1>2, <1>3
  <2>2. CASE ~(j < i)
    <3>1. (front \o back)[j] = back[j - (i - 1)]
      BY <2>2, <1>1, <1>2, <1>3
    <3>2. j - (i - 1) \in 1 .. Len(s) - i /\ (j - (i - 1)) + i = j + 1
      BY <2>2, <1>1
    <3> QED BY <3>1, <3>2, <1>3, <2>2
  <2> QED BY <2>1, <2>2
<1> QED BY <1>4, <1>5, <1>6

\* RemoveFirst takes one element out of a sequence without duplicates.
LEMMA RemoveFirstContents ==
  ASSUME NEW S, NEW s \in Seq(S), IsInjective(s), NEW e \in Range(s)
  PROVE  /\ RemoveFirst(s, e) \in Seq(S)
         /\ IsInjective(RemoveFirst(s, e))
         /\ Range(RemoveFirst(s, e)) = Range(s) \ {e}
<1> DEFINE I == { i \in 1 .. Len(s) : s[i] = e }
           m == Min(I)
           r == RemoveAt(s, m)
<1>1. Len(s) \in Nat /\ DOMAIN s = 1 .. Len(s)
  BY LenProperties
<1>2. I # {} /\ I \subseteq Nat
  BY <1>1 DEF Range
<1>3. m \in I
  BY <1>2, MinInSet
<1>4. m \in 1 .. Len(s) /\ s[m] = e
  BY <1>3
<1>5. RemoveFirst(s, e) = r
  BY <1>2, <1>4 DEF RemoveFirst, SelectInSeq
<1> HIDE DEF I, m
<1>6. /\ r \in Seq(S) /\ Len(r) = Len(s) - 1
      /\ \A i \in 1 .. Len(s) - 1 : r[i] = IF i < m THEN s[i] ELSE s[i + 1]
  BY <1>4, EraseItem
<1> HIDE DEF r
<1>7. DOMAIN r = 1 .. (Len(s) - 1)
  BY <1>6, LenProperties
<1>8. \A x, y \in 1 .. Len(s) : s[x] = s[y] => x = y
  BY <1>1 DEF IsInjective
<1>9. ASSUME NEW i \in 1 .. (Len(s) - 1)
      PROVE  \E x \in 1 .. Len(s) : r[i] = s[x] /\ x # m /\ x = IF i < m THEN i ELSE i + 1
  BY <1>1, <1>4, <1>6
<1>10. IsInjective(r)
  <2>1. SUFFICES ASSUME NEW i \in 1 .. (Len(s) - 1), NEW j \in 1 .. (Len(s) - 1), r[i] = r[j]
                 PROVE  i = j
    BY <1>7 DEF IsInjective
  <2>2. PICK x \in 1 .. Len(s) : r[i] = s[x] /\ x = IF i < m THEN i ELSE i + 1
    BY <1>9
  <2>3. PICK y \in 1 .. Len(s) : r[j] = s[y] /\ y = IF j < m THEN j ELSE j + 1
    BY <1>9
  <2>4. x = y
    BY <1>8, <2>1, <2>2, <2>3
  <2> QED BY <1>1, <1>4, <2>1, <2>2, <2>3, <2>4
<1>11. Range(r) \subseteq Range(s) \ {e}
  <2>1. SUFFICES ASSUME NEW i \in 1 .. (Len(s) - 1) PROVE r[i] \in Range(s) /\ r[i] # e
    BY <1>7 DEF Range
  <2>2. PICK x \in 1 .. Len(s) : r[i] = s[x] /\ x # m
    BY <1>9
  <2> QED BY <1>1, <1>4, <1>8, <2>2 DEF Range
<1>12. ASSUME NEW x \in 1 .. Len(s), s[x] # e PROVE s[x] \in Range(r)
  <2>1. CASE x < m
    BY <1>1, <1>4, <1>6, <1>7, <2>1 DEF Range
  <2>2. CASE x > m
    <3>1. x - 1 \in 1 .. (Len(s) - 1) /\ r[x - 1] = s[x]
      BY <1>1, <1>4, <1>6, <2>2
    <3> QED BY <1>7, <3>1 DEF Range
  <2> QED BY <1>1, <1>4, <1>12, <2>1, <2>2
<1>13. Range(s) \ {e} \subseteq Range(r)
  BY <1>1, <1>12 DEF Range
<1> QED BY <1>5, <1>6, <1>10, <1>11, <1>13

\* The entry that goes out is gone, and the others stay.
LEMMA FreeEntry ==
  ASSUME ListInv, NEW e \in Allocated, MmpFreeHandleEntry(e)
  PROVE  ListInv' /\ Allocated' = Allocated \ {e} /\ item' = [item EXCEPT ![e] = NoItem]
<1>1. list' = RemoveFirst(list, e) /\ item' = [item EXCEPT ![e] = NoItem]
  BY DEF MmpFreeHandleEntry
<1>2. list' \in Seq(Entries) /\ IsInjective(list') /\ Allocated' = Allocated \ {e}
  BY <1>1, RemoveFirstContents DEF ListInv, Allocated
<1>3. Allocated \subseteq Entries
  BY RangeOfSeq, LenProperties, ElementOfSeq DEF ListInv, Allocated, Range
<1>4. /\ item' \in [Entries -> Items]
      /\ \A f \in Entries : item'[f] = IF f = e THEN NoItem ELSE item[f]
  BY <1>1, <1>3 DEF ListInv, NoItem, Items
<1>5. \A f \in Entries : item'[f] = NoItem <=> f \notin Allocated'
  BY <1>2, <1>3, <1>4 DEF ListInv
<1>6. \A f, g \in Allocated' : item'[f].hObject = item'[g].hObject => f = g
  BY <1>2, <1>3, <1>4 DEF ListInv
<1> QED BY <1>1, <1>2, <1>4, <1>5, <1>6 DEF ListInv

-----------------------------------------------------------------------------
(* The steps.                                                              *)

\* The blocks of the list are blocks.
LEMMA AllocatedTyped == ListInv => Allocated \subseteq Entries
BY RangeOfSeq DEF ListInv, Allocated

\* A step that leaves the list alone leaves alone what is entered in it.
LEMMA ListKept ==
  ASSUME ListInv, UNCHANGED <<list, item>>
  PROVE  ListInv' /\ Allocated' = Allocated /\ \A k : Entered(k)' <=> Entered(k)
BY DEF ListInv, Allocated, Entered

\* In the beginning nothing is hooked, open or in the list.
LEMMA InitIInv == Init => IInv
<1> SUFFICES ASSUME Init PROVE IInv
  OBVIOUS
<1>1. list = <<>> /\ Allocated = {}
  BY DEF Init, Allocated, Range
<1>2. TypeInv
  BY DEF Init, TypeInv, CallState, Idle, NoItem, Items
<1>3. ListInv
  BY <1>1 DEF Init, ListInv, IsInjective, NoItem, Items
<1>4. ThreadInv /\ ExclusiveInv
  BY DEF Init, ThreadInv, ExclusiveInv, Idle
<1>5. HandleInv /\ BaseInv /\ HookInv
  BY <1>1
     DEF Init, HandleInv, HandleBare, HandleKnown, HandleDescribed, HandleUsed, HandleMade,
         BaseInv, BaseBare, BaseKnown, BaseUsed, BaseMade, HookInv, Idle, Entered, Using,
         Closed, Modules, Copies
<1> QED BY <1>2, <1>3, <1>4, <1>5 DEF IInv

\* What the fields of a call may hold.
LEMMA IdleTyped == NoItem \in Items /\ Idle \in CallState
<1>1. NoItem \in Items
  BY DEF NoItem, Items
<1> QED BY <1>1 DEF Idle, CallState

\* A search with the object as its key, while the caller holds the lock, ends with
\* the entry of the object or with none.
LEMMA Searching ==
  ASSUME NEW call \in {"query", "data", "image", "map", "close", "unmap"}, NEW k \in Keys,
         NEW e \in Entries \cup {None}
  PROVE  [Idle EXCEPT !.pc = "found", !.call = call, !.key = k, !.iter = e] \in CallState
BY IdleTyped DEF CallState

\* A call that made an object is on its way to the list with an item for it.
LEMMA Entering ==
  ASSUME NEW c \in CallState, NEW k \in Keys, NEW i \in Items
  PROVE  [c EXCEPT !.pc = "insert", !.new = k, !.item = i] \in CallState
BY DEF CallState

\* A step that leaves the list, the handles and the addresses alone, and only moves calls
\* between their beginning and the making of a handle.
LEMMA QuietKeeps ==
  ASSUME IInv, UNCHANGED <<list, item, open, view>>,
         preHooked' \in BOOLEAN, preHooked => preHooked',
         at' \in [Threads -> CallState],
         \A t \in Threads :
           \/ at'[t] = at[t]
           \/ /\ at[t].pc \in {"idle", "open"} /\ at'[t].pc \in {"idle", "open"}
              /\ at'[t].new = at[t].new
  PROVE  IInv'
<1>1. TypeInv /\ ListInv /\ ThreadInv /\ ExclusiveInv /\ HandleInv /\ BaseInv /\ HookInv
  BY DEF IInv
<1>2. ListInv' /\ Allocated' = Allocated /\ \A k : Entered(k)' <=> Entered(k)
  BY <1>1, ListKept
<1>3. ASSUME NEW t \in Threads
      PROVE  /\ at'[t].new = at[t].new
             /\ \/ at'[t] = at[t]
                \/ at[t].pc \in {"idle", "open"} /\ at'[t].pc \in {"idle", "open"}
  OBVIOUS
<1>5. TypeInv'
  BY <1>1 DEF TypeInv
<1>6. ThreadInv'
  BY <1>1, <1>2, <1>3 DEF ThreadInv
<1>7. ExclusiveInv'
  BY <1>1, <1>3 DEF ExclusiveInv, Using
<1>8. ASSUME NEW h \in Handles
      PROVE  /\ HandleBare(h)' /\ HandleKnown(h)' /\ HandleDescribed(h)'
             /\ HandleUsed(h)' /\ HandleMade(h)'
  <2>1. /\ HandleBare(h) /\ HandleKnown(h) /\ HandleDescribed(h) /\ HandleUsed(h)
        /\ HandleMade(h) /\ h # None
    BY <1>1 DEF HandleInv
  <2>2. HandleBare(h)'
    BY <1>2, <1>3, <2>1 DEF HandleBare
  <2>3. HandleKnown(h)'
    BY <1>2, <1>3, <2>1 DEF HandleKnown, Using
  <2>4. HandleDescribed(h)'
    BY <1>2, <2>1 DEF HandleDescribed, Describes
  <2>5. HandleUsed(h)'
    BY <1>2, <1>3, <2>1 DEF HandleUsed, Using
  <2>6. HandleMade(h)'
    <3>1. ASSUME NEW t \in Threads, at'[t].new = h PROVE at'[t] = at[t]
      BY <1>1, <1>3, <2>1, <3>1 DEF ThreadInv
    <3> QED BY <1>2, <2>1, <3>1 DEF HandleMade, Describes
  <2> QED BY <2>2, <2>3, <2>4, <2>5, <2>6
<1>9. ASSUME NEW b \in Bases PROVE BaseBare(b)' /\ BaseKnown(b)' /\ BaseUsed(b)' /\ BaseMade(b)'
  <2>1. BaseBare(b) /\ BaseKnown(b) /\ BaseUsed(b) /\ BaseMade(b)
    BY <1>1 DEF BaseInv
  <2>2. BaseBare(b)'
    BY <1>2, <1>3, <2>1 DEF BaseBare
  <2>3. BaseKnown(b)'
    BY <1>2, <1>3, <2>1 DEF BaseKnown
  <2>4. BaseUsed(b)'
    BY <1>3, <2>1 DEF BaseUsed, Using
  <2>5. BaseMade(b)'
    BY <1>2, <1>3, <2>1 DEF BaseMade
  <2> QED BY <2>2, <2>3, <2>4, <2>5
<1>10. HookInv'
  BY <1>1 DEF HookInv
<1> QED BY <1>2, <1>5, <1>6, <1>7, <1>8, <1>9, <1>10 DEF IInv, HandleInv, BaseInv

\* CreateFileW finds a module, or makes a handle that was free for another file.
LEMMA CreateFileWKeeps ==
  ASSUME IInv, NEW t \in Threads, NEW f \in Files, CreateFileW(t, f)
  PROVE  IInv'
<1>1. TypeInv /\ ListInv /\ ThreadInv /\ ExclusiveInv /\ HandleInv /\ BaseInv /\ HookInv
  BY DEF IInv
<1>2. /\ ListInv' /\ list' = list /\ item' = item /\ Allocated' = Allocated
      /\ \A k : Entered(k)' <=> Entered(k)
  BY <1>1, ListKept DEF CreateFileW
<1>3. at[t] = Idle /\ UNCHANGED <<preHooked, view>>
  BY DEF CreateFileW
<1>4. CASE preHooked /\ f \in loaded
  <2>1. PICK c \in CallState : c = [Idle EXCEPT !.pc = "open", !.item = [NoItem EXCEPT !.value = f]]
    BY DEF Idle, NoItem, CallState, Items
  <2>2. at' = [at EXCEPT ![t] = c] /\ open' = open
    BY <1>4, <2>1 DEF CreateFileW
  <2>3. c.pc = "open" /\ c.new = None /\ at[t].pc = "idle" /\ at[t].new = None
    BY <1>3, <2>1 DEF Idle
  <2>4. at' \in [Threads -> CallState]
    BY <1>1, <2>2 DEF TypeInv
  <2>5. \A u \in Threads : at'[u] = IF u = t THEN c ELSE at[u]
    BY <1>1, <2>2 DEF TypeInv
  <2>6. preHooked' \in BOOLEAN
    BY <1>1, <1>3 DEF TypeInv
  <2> QED BY <1>2, <1>3, <2>2, <2>3, <2>4, <2>5, <2>6, QuietKeeps
<1>5. CASE ~(preHooked /\ f \in loaded)
  <2> SUFFICES ASSUME NEW h \in FreeHandles, open' = [open EXCEPT ![h] = Other], at' = at
               PROVE  IInv'
    BY <1>5 DEF CreateFileW
  <2>9. h \in Handles /\ open[h] = Closed
    BY DEF FreeHandles
  <2>10. ~Entered(h) /\ \A u \in Threads : at[u].new # h /\ ~Using(u, h)
    BY <1>1, <2>9 DEF HandleInv, HandleBare, HandleUsed
  <2>1. /\ at' = at
        /\ \A g \in Handles : open'[g] = IF g = h THEN Other ELSE open[g]
    BY <1>1, <2>9 DEF TypeInv
  <2>2. open' \in [Handles -> {Closed, Other} \cup Modules]
    BY <1>1, <2>9 DEF TypeInv
  <2>3. TypeInv'
    BY <1>1, <1>3, <2>9, <2>1, <2>2 DEF TypeInv
  <2>4. ThreadInv'
    BY <1>1, <1>2, <1>3, <2>9, <2>1 DEF ThreadInv
  <2>5. ExclusiveInv'
    BY <1>1, <2>1 DEF ExclusiveInv, Using
  <2>6. HookInv'
    BY <1>1, <1>2, <1>3, <2>9, <2>1 DEF HookInv
  <2>7. ASSUME NEW g \in Handles
        PROVE  /\ HandleBare(g)' /\ HandleKnown(g)' /\ HandleDescribed(g)'
               /\ HandleUsed(g)' /\ HandleMade(g)'
    <3>1. /\ HandleInv /\ HandleBare(g) /\ HandleKnown(g) /\ HandleDescribed(g) /\ HandleUsed(g)
          /\ HandleMade(g)
      BY <1>1 DEF HandleInv
    <3>2. HandleBare(g)'
      BY <1>2, <3>1, <1>3, <2>9, <2>1 DEF HandleBare
    <3>3. HandleKnown(g)'
      BY <1>2, <3>1, <2>1 DEF HandleKnown, Using, Other, Modules
    <3>4. HandleDescribed(g)'
      BY <1>2, <3>1, <2>10, <2>1 DEF HandleDescribed, Describes, Entered
    <3>5. HandleUsed(g)'
      BY <1>2, <3>1, <1>3, <2>9, <2>1 DEF HandleUsed, Using
    <3>6. HandleMade(g)'
      BY <1>2, <3>1, <2>10, <2>1 DEF HandleMade, Describes
    <3> QED BY <3>2, <3>3, <3>4, <3>5, <3>6
  <2>8. ASSUME NEW c \in Bases PROVE BaseBare(c)' /\ BaseKnown(c)' /\ BaseUsed(c)' /\ BaseMade(c)'
    <3>1. BaseInv /\ BaseBare(c) /\ BaseKnown(c) /\ BaseUsed(c) /\ BaseMade(c)
      BY <1>1 DEF BaseInv
    <3>2. BaseBare(c)'
      BY <1>2, <3>1, <1>3, <2>9, <2>1 DEF BaseBare
    <3>3. BaseKnown(c)'
      BY <1>2, <3>1, <1>3, <2>9, <2>1 DEF BaseKnown
    <3>4. BaseUsed(c)'
      BY <3>1, <1>3, <2>9, <2>1 DEF BaseUsed, Using
    <3>5. BaseMade(c)'
      BY <1>2, <3>1, <2>1 DEF BaseMade
    <3> QED BY <3>2, <3>3, <3>4, <3>5
  <2> QED BY <1>2, <2>3, <2>4, <2>5, <2>7, <2>8, <2>6 DEF IInv, HandleInv, BaseInv
<1> QED BY <1>4, <1>5

\* The handle of a module that was found is a free one, and on its way to the list.
LEMMA CreateEventWKeeps ==
  ASSUME IInv, OpeningInv, NEW t \in Threads, CreateEventW(t)
  PROVE  IInv'
<1>1. TypeInv /\ ListInv /\ ThreadInv /\ ExclusiveInv /\ HandleInv /\ BaseInv /\ HookInv
  BY DEF IInv
<1>2. /\ ListInv' /\ list' = list /\ item' = item /\ Allocated' = Allocated
      /\ \A k : Entered(k)' <=> Entered(k)
  BY <1>1, ListKept DEF CreateEventW
<1>3. PICK f \in Files \cup {None} : f = at[t].item.value
  BY DEF CreateEventW, OpeningInv
<1>4. PICK h \in FreeHandles :
        /\ open' = [open EXCEPT ![h] = [kind |-> "file", file |-> f]]
        /\ at' = [at EXCEPT ![t] =
             [@ EXCEPT !.pc = "insert", !.new = h,
                       !.item = [hObject |-> h, value |-> f, image |-> FALSE]]]
  BY <1>3 DEF CreateEventW
<1>5. /\ h \in Handles /\ open[h] = Closed /\ UNCHANGED <<preHooked, view>>
      /\ at[t].pc = "open" /\ preHooked
  BY DEF CreateEventW, FreeHandles, OpeningInv
<1>6. ~Entered(h) /\ \A u \in Threads : at[u].new # h /\ ~Using(u, h)
  BY <1>1, <1>5 DEF HandleInv, HandleBare, HandleUsed
<1> QED
  <2>2. at[t].pc = "open" /\ at[t].new = None /\ at[t] \in CallState
    BY <1>1, <1>5 DEF TypeInv, ThreadInv
  <2>3. PICK i \in Items : i = [hObject |-> h, value |-> f, image |-> FALSE]
    BY <1>5 DEF Items, Keys
  <2>4. i.hObject = h /\ i.value = f /\ i.image = (FALSE) /\ h \in Keys
    BY <1>5, <2>3 DEF Keys
  <2>5. at' = [at EXCEPT ![t] = [@ EXCEPT !.pc = "insert", !.new = h, !.item = i]]
    BY <1>4, <2>3
  <2>6. /\ \A u \in Threads \ {t} : at'[u] = at[u]
        /\ at'[t].pc = "insert" /\ at'[t].new = h /\ at'[t].item = i
    BY <1>1, <2>5 DEF TypeInv
  <2>7. at' \in [Threads -> CallState]
    BY <1>1, <2>2, <2>4, <2>5, Entering DEF TypeInv
  <2>8. open' \in [Handles -> {Closed, Other} \cup Modules]
    BY <1>1, <1>4 DEF TypeInv, Modules
  <2>9. \A g \in Handles : open'[g] = IF g = h THEN [kind |-> "file", file |-> f] ELSE open[g]
    BY <1>1, <1>4 DEF TypeInv
  <2>10. TypeInv'
    BY <1>1, <1>5, <2>7, <2>8 DEF TypeInv
  <2>11. ThreadInv'
    BY <1>1, <1>2, <1>5, <2>4, <2>6 DEF ThreadInv
  <2>12. ExclusiveInv'
    BY <1>1, <1>6, <2>6 DEF ExclusiveInv, Using
  <2>13. HookInv'
    BY <1>5 DEF HookInv
  <2>14. ASSUME NEW g \in Handles
         PROVE  /\ HandleBare(g)' /\ HandleKnown(g)' /\ HandleDescribed(g)'
                /\ HandleUsed(g)' /\ HandleMade(g)'
    <3>1. /\ HandleInv /\ HandleBare(g) /\ HandleKnown(g) /\ HandleDescribed(g) /\ HandleUsed(g)
          /\ HandleMade(g)
      BY <1>1 DEF HandleInv
    <3>2. HandleBare(g)'
      BY <1>2, <3>1, <2>6, <2>9 DEF HandleBare, Closed, Other
    <3>3. HandleKnown(g)'
      BY <1>2, <3>1, <2>2, <2>6, <2>9 DEF HandleKnown, Using
    <3>4. HandleDescribed(g)'
      BY <1>2, <3>1, <1>6, <2>9 DEF HandleDescribed, Describes, Entered
    <3>5. HandleUsed(g)'
      BY <1>2, <3>1, <1>5, <2>6, <2>9 DEF HandleUsed, Using
    <3>6. HandleMade(g)'
        <4>1. open'[h].file = f /\ open'[h].kind # "image"
          BY <1>5, <2>9
        <4>2. ASSUME NEW u \in Threads, at'[u].new = g
              PROVE  /\ ~Entered(g)' /\ at'[u].item.value = open'[g].file
                     /\ at'[u].item.image = (open'[g].kind = "image")
          <5>1. CASE u = t
            <6>1. g = h /\ at'[u].item = i
              BY <2>6, <4>2, <5>1
            <6>2. i.image = (open'[h].kind = "image")
              BY <2>4, <4>1
            <6> QED BY <1>6, <1>2, <2>4, <4>1, <6>1
          <5>2. CASE u # t
            <6>1. at'[u] = at[u] /\ g # h /\ open'[g] = open[g]
              BY <1>6, <2>6, <2>9, <4>2, <5>2
            <6> QED BY <1>2, <3>1, <4>2, <6>1 DEF HandleMade, Describes
          <5> QED BY <5>1, <5>2
        <4> QED BY <4>2 DEF HandleMade, Describes
    <3> QED BY <3>2, <3>3, <3>4, <3>5, <3>6
  <2>15. ASSUME NEW c \in Bases PROVE BaseBare(c)' /\ BaseKnown(c)' /\ BaseUsed(c)' /\ BaseMade(c)'
    <3>1. BaseInv /\ BaseBare(c) /\ BaseKnown(c) /\ BaseUsed(c) /\ BaseMade(c)
      BY <1>1 DEF BaseInv
    <3>2. BaseBare(c)'
      BY <1>2, <3>1, <1>5, <2>2, <2>6 DEF BaseBare
    <3>3. BaseKnown(c)'
      BY <1>2, <3>1, <1>5, <2>2, <2>6 DEF BaseKnown
    <3>4. BaseUsed(c)'
      BY <3>1, <1>5, <2>6 DEF BaseUsed, Using
    <3>5. BaseMade(c)'
      BY <1>2, <3>1, <1>5, <2>6 DEF BaseMade
    <3> QED BY <3>2, <3>3, <3>4, <3>5
  <2> QED BY <1>2, <2>10, <2>11, <2>12, <2>14, <2>15, <2>13 DEF IInv, HandleInv, BaseInv

\* The calls on a handle begin with a search, and end there when it is not entered.
LEMMA FindsHandleKeeps ==
  ASSUME IInv, NEW t \in Threads, NEW h \in Handles, open[h] # Closed,
         NEW call \in {"query", "data", "image", "map", "close"}, Finds(t, call, h)
  PROVE  IInv'
<1>1. TypeInv /\ ListInv /\ ThreadInv /\ ExclusiveInv /\ HandleInv /\ BaseInv /\ HookInv
  BY DEF IInv
<1>2. /\ ListInv' /\ list' = list /\ item' = item /\ Allocated' = Allocated
      /\ \A k : Entered(k)' <=> Entered(k)
  BY <1>1, ListKept DEF Finds
<1>3. /\ Entered(h) => /\ preHooked /\ MmpFindHandleEntry(h) \in Allocated
                             /\ item[MmpFindHandleEntry(h)].hObject = h
      /\ ~Entered(h) /\ preHooked => MmpFindHandleEntry(h) = None
  <2>1. ~preHooked => ~Entered(h)
    BY <1>1 DEF HookInv, Entered, Allocated, Range
  <2> QED BY <1>1, <2>1, FindEntry
<1>4. h \in Keys /\ (preHooked => MmpFindHandleEntry(h) \in Entries \cup {None})
  BY <1>1, <1>3, AllocatedTyped DEF Keys
<1>5. /\ \A u \in Threads \ {t} : at'[u] = at[u]
      /\ at'[t].pc = "found" /\ at'[t].call = call /\ at'[t].key = h /\ at'[t].new = None
      /\ at'[t].item = NoItem
      /\ IF Entered(h)
           THEN /\ at'[t].iter # None /\ at'[t].iter \in Allocated
                /\ item[at'[t].iter].hObject = h
           ELSE at'[t].iter = None
      /\ at[t].pc = "idle" /\ at[t].new = None
      /\ UNCHANGED <<preHooked, open, view>>
  BY <1>1, AllocatedTyped, <1>3 DEF Finds, TypeInv, Idle
<1>6. at' \in [Threads -> CallState]
  BY <1>1, <1>4, Searching DEF Finds, TypeInv
<1>7. \A u \in Threads :
         at[u].new # h /\ (Using(u, h) => call \notin LettingGo /\ at[u].call \notin LettingGo)
  BY DEF Finds, May, Using
<1>8. ~Entered(h) => open[h] = Other \/ call = "close"
  BY <1>1, <1>7 DEF HandleInv, HandleKnown, TypeInv, LettingGo
<1>9. TypeInv'
  BY <1>1, <1>5, <1>6 DEF TypeInv
<1>10. ThreadInv'
  BY <1>1, <1>2, <1>5 DEF ThreadInv
<1>11. ExclusiveInv'
  BY <1>1, <1>5, <1>7 DEF ExclusiveInv, Using
<1>12. HookInv'
  BY <1>1, <1>2, <1>5 DEF HookInv
<1>13. ASSUME NEW g \in Handles
       PROVE  /\ HandleBare(g)' /\ HandleKnown(g)' /\ HandleDescribed(g)'
              /\ HandleUsed(g)' /\ HandleMade(g)'
  <2>1. /\ HandleInv /\ HandleBare(g) /\ HandleKnown(g) /\ HandleDescribed(g) /\ HandleUsed(g)
        /\ HandleMade(g)
    BY <1>1 DEF HandleInv
  <2>2. HandleBare(g)'
    BY <1>2, <2>1, <1>5 DEF HandleBare
  <2>3. HandleKnown(g)'
    BY <1>2, <2>1, <1>5 DEF HandleKnown, Using
  <2>4. HandleDescribed(g)'
    BY <1>2, <2>1, <1>5 DEF HandleDescribed, Describes
  <2>5. HandleUsed(g)'
    BY <1>2, <2>1, <1>5, <1>7, <1>8 DEF HandleUsed, Using
  <2>6. HandleMade(g)'
    BY <1>2, <2>1, <1>5 DEF HandleMade, Describes
  <2> QED BY <2>2, <2>3, <2>4, <2>5, <2>6
<1>14. ASSUME NEW c \in Bases PROVE BaseBare(c)' /\ BaseKnown(c)' /\ BaseUsed(c)' /\ BaseMade(c)'
  <2>1. BaseInv /\ BaseBare(c) /\ BaseKnown(c) /\ BaseUsed(c) /\ BaseMade(c)
    BY <1>1 DEF BaseInv
  <2>2. BaseBare(c)'
    BY <1>2, <2>1, <1>5 DEF BaseBare
  <2>3. BaseKnown(c)'
    BY <1>2, <2>1, <1>5 DEF BaseKnown
  <2>4. BaseUsed(c)'
    BY <2>1, <1>5 DEF BaseUsed, Using
  <2>5. BaseMade(c)'
    BY <1>2, <2>1, <1>5 DEF BaseMade
  <2> QED BY <2>2, <2>3, <2>4, <2>5
<1> QED BY <1>2, <1>9, <1>10, <1>11, <1>13, <1>14, <1>12 DEF IInv, HandleInv, BaseInv

\* UnmapViewOfFile begins with a search for the address.
LEMMA FindsBaseKeeps ==
  ASSUME IInv, NEW t \in Threads, NEW b \in Bases, view[b] # Closed, Finds(t, "unmap", b)
  PROVE  IInv'
<1>1. TypeInv /\ ListInv /\ ThreadInv /\ ExclusiveInv /\ HandleInv /\ BaseInv /\ HookInv
  BY DEF IInv
<1>2. /\ ListInv' /\ list' = list /\ item' = item /\ Allocated' = Allocated
      /\ \A k : Entered(k)' <=> Entered(k)
  BY <1>1, ListKept DEF Finds
<1>3. /\ Entered(b) => /\ preHooked /\ MmpFindHandleEntry(b) \in Allocated
                             /\ item[MmpFindHandleEntry(b)].hObject = b
      /\ ~Entered(b) /\ preHooked => MmpFindHandleEntry(b) = None
  <2>1. ~preHooked => ~Entered(b)
    BY <1>1 DEF HookInv, Entered, Allocated, Range
  <2> QED BY <1>1, <2>1, FindEntry
<1>4. b \in Keys /\ (preHooked => MmpFindHandleEntry(b) \in Entries \cup {None})
  BY <1>1, <1>3, AllocatedTyped DEF Keys
<1>5. /\ \A u \in Threads \ {t} : at'[u] = at[u]
      /\ at'[t].pc = "found" /\ at'[t].call = "unmap" /\ at'[t].key = b /\ at'[t].new = None
      /\ at'[t].item = NoItem
      /\ IF Entered(b)
           THEN /\ at'[t].iter # None /\ at'[t].iter \in Allocated
                /\ item[at'[t].iter].hObject = b
           ELSE at'[t].iter = None
      /\ at[t].pc = "idle" /\ at[t].new = None
      /\ UNCHANGED <<preHooked, open, view>>
  BY <1>1, AllocatedTyped, <1>3 DEF Finds, TypeInv, Idle
<1>6. at' \in [Threads -> CallState]
  BY <1>1, <1>4, Searching DEF Finds, TypeInv
<1>7. \A u \in Threads :
         at[u].new # b /\ (Using(u, b) => "unmap" \notin LettingGo /\ at[u].call \notin LettingGo)
  BY DEF Finds, May, Using
<1>8. ~Entered(b) => view[b] = Other
  BY <1>1, <1>7 DEF BaseInv, BaseKnown, TypeInv
<1>9. TypeInv'
  BY <1>1, <1>5, <1>6 DEF TypeInv
<1>10. ThreadInv'
  BY <1>1, <1>2, <1>5 DEF ThreadInv
<1>11. ExclusiveInv'
  BY <1>1, <1>5, <1>7 DEF ExclusiveInv, Using
<1>12. HookInv'
  BY <1>1, <1>2, <1>5 DEF HookInv
<1>13. ASSUME NEW g \in Handles
       PROVE  /\ HandleBare(g)' /\ HandleKnown(g)' /\ HandleDescribed(g)'
              /\ HandleUsed(g)' /\ HandleMade(g)'
  <2>1. /\ HandleInv /\ HandleBare(g) /\ HandleKnown(g) /\ HandleDescribed(g) /\ HandleUsed(g)
        /\ HandleMade(g)
    BY <1>1 DEF HandleInv
  <2>2. HandleBare(g)'
    BY <1>2, <2>1, <1>5 DEF HandleBare
  <2>3. HandleKnown(g)'
    BY <1>2, <2>1, <1>5 DEF HandleKnown, Using
  <2>4. HandleDescribed(g)'
    BY <1>2, <2>1, <1>5 DEF HandleDescribed, Describes
  <2>5. HandleUsed(g)'
    BY <1>2, <2>1, <1>5 DEF HandleUsed, Using
  <2>6. HandleMade(g)'
    BY <1>2, <2>1, <1>5 DEF HandleMade, Describes
  <2> QED BY <2>2, <2>3, <2>4, <2>5, <2>6
<1>14. ASSUME NEW c \in Bases PROVE BaseBare(c)' /\ BaseKnown(c)' /\ BaseUsed(c)' /\ BaseMade(c)'
  <2>1. BaseInv /\ BaseBare(c) /\ BaseKnown(c) /\ BaseUsed(c) /\ BaseMade(c)
    BY <1>1 DEF BaseInv
  <2>2. BaseBare(c)'
    BY <1>2, <2>1, <1>5 DEF BaseBare
  <2>3. BaseKnown(c)'
    BY <1>2, <2>1, <1>5 DEF BaseKnown
  <2>4. BaseUsed(c)'
    BY <2>1, <1>5, <1>7, <1>8 DEF BaseUsed, Using
  <2>5. BaseMade(c)'
    BY <1>2, <2>1, <1>5 DEF BaseMade
  <2> QED BY <2>2, <2>3, <2>4, <2>5
<1> QED BY <1>2, <1>9, <1>10, <1>11, <1>13, <1>14, <1>12 DEF IInv, HandleInv, BaseInv

\* What is answered from the entry changes nothing but the caller.
LEMMA AnswersKeeps ==
  ASSUME IInv, NEW t \in Threads, Answers(t) \/ MapsBytes(t)
  PROVE  IInv'
<1>1. TypeInv /\ ListInv /\ ThreadInv /\ ExclusiveInv /\ HandleInv /\ BaseInv /\ HookInv
  BY DEF IInv
<1>2. /\ ListInv' /\ list' = list /\ item' = item /\ Allocated' = Allocated
      /\ \A k : Entered(k)' <=> Entered(k)
  BY <1>1, ListKept DEF Answers, MapsBytes
<1>3. /\ \A u \in Threads \ {t} : at'[u] = at[u]
      /\ at'[t].pc = "idle" /\ at'[t].call = None /\ at'[t].new = None
      /\ at[t].call # "close" /\ at[t].call # "unmap" /\ at[t].pc = "found"
      /\ UNCHANGED <<preHooked, open, view>>
  BY <1>1 DEF Answers, MapsBytes, Found, TypeInv, Idle
<1>4. at' \in [Threads -> CallState]
  BY <1>1, IdleTyped DEF Answers, MapsBytes, TypeInv
<1>5. at[t].new = None
  BY <1>1, <1>3 DEF ThreadInv
<1>6. TypeInv'
  BY <1>1, <1>3, <1>4 DEF TypeInv
<1>7. ThreadInv'
  BY <1>1, <1>2, <1>3 DEF ThreadInv
<1>8. ExclusiveInv'
  BY <1>1, <1>3 DEF ExclusiveInv, Using
<1>9. HookInv'
  BY <1>1, <1>2, <1>3 DEF HookInv
<1>10. ASSUME NEW g \in Handles
       PROVE  /\ HandleBare(g)' /\ HandleKnown(g)' /\ HandleDescribed(g)'
              /\ HandleUsed(g)' /\ HandleMade(g)'
  <2>1. /\ HandleInv /\ HandleBare(g) /\ HandleKnown(g) /\ HandleDescribed(g) /\ HandleUsed(g)
        /\ HandleMade(g)
    BY <1>1 DEF HandleInv
  <2>2. HandleBare(g)'
    BY <1>2, <2>1, <1>3 DEF HandleBare
  <2>3. HandleKnown(g)'
    BY <1>2, <2>1, <1>3, <1>5 DEF HandleKnown, Using
  <2>4. HandleDescribed(g)'
    BY <1>2, <2>1, <1>3 DEF HandleDescribed, Describes
  <2>5. HandleUsed(g)'
    BY <1>2, <2>1, <1>3 DEF HandleUsed, Using
  <2>6. HandleMade(g)'
    BY <1>2, <2>1, <1>3 DEF HandleMade, Describes
  <2> QED BY <2>2, <2>3, <2>4, <2>5, <2>6
<1>11. ASSUME NEW c \in Bases PROVE BaseBare(c)' /\ BaseKnown(c)' /\ BaseUsed(c)' /\ BaseMade(c)'
  <2>1. BaseInv /\ BaseBare(c) /\ BaseKnown(c) /\ BaseUsed(c) /\ BaseMade(c)
    BY <1>1 DEF BaseInv
  <2>2. BaseBare(c)'
    BY <1>2, <2>1, <1>3 DEF BaseBare
  <2>3. BaseKnown(c)'
    BY <1>2, <2>1, <1>3, <1>5 DEF BaseKnown
  <2>4. BaseUsed(c)'
    BY <2>1, <1>3 DEF BaseUsed, Using
  <2>5. BaseMade(c)'
    BY <1>2, <2>1, <1>3 DEF BaseMade
  <2> QED BY <2>2, <2>3, <2>4, <2>5
<1> QED BY <1>2, <1>6, <1>7, <1>8, <1>10, <1>11, <1>9 DEF IInv, HandleInv, BaseInv

\* A mapping of a module's handle gets a handle and an item of its own.
LEMMA CreateFileMappingWKeeps ==
  ASSUME IInv, NEW t \in Threads, NEW kind \in {"data", "image"}, CreateFileMappingW(t, kind)
  PROVE  IInv'
<1>1. TypeInv /\ ListInv /\ ThreadInv /\ ExclusiveInv /\ HandleInv /\ BaseInv /\ HookInv
  BY DEF IInv
<1>2. /\ ListInv' /\ list' = list /\ item' = item /\ Allocated' = Allocated
      /\ \A k : Entered(k)' <=> Entered(k)
  BY <1>1, ListKept DEF CreateFileMappingW
<1>3. PICK h \in FreeHandles :
        IF at[t].iter # None
        THEN /\ open' = [open EXCEPT ![h] = [kind |-> kind, file |-> open[at[t].key].file]]
             /\ at' = [at EXCEPT ![t] =
                  [@ EXCEPT !.pc = "insert", !.new = h,
                            !.item = [hObject |-> h, value |-> item[at[t].iter].value,
                                      image |-> kind = "image"]]]
        ELSE open' = [open EXCEPT ![h] = Other] /\ at' = [at EXCEPT ![t] = Idle]
  BY DEF CreateFileMappingW
<1>4. /\ h \in Handles /\ open[h] = Closed /\ UNCHANGED <<preHooked, view>>
      /\ at[t].pc = "found" /\ at[t].call = kind /\ at[t].new = None /\ at[t].key \in Handles
  BY <1>1 DEF CreateFileMappingW, FreeHandles, Found, ThreadInv
<1>5. ~Entered(h) /\ \A u \in Threads : at[u].new # h /\ ~Using(u, h)
  BY <1>1, <1>4 DEF HandleInv, HandleBare, HandleUsed
<1>6. CASE at[t].iter # None
  <2>1. at[t].iter \in Allocated /\ item[at[t].iter].hObject = at[t].key
    BY <1>1, <1>4, <1>6 DEF ThreadInv
  <2>2. Entered(at[t].key)
    BY <2>1 DEF Entered
  <2>3. open[at[t].key] \in Modules
    BY <1>1, <1>4, <2>2 DEF HandleInv, HandleBare, TypeInv
  <2>4. item[at[t].iter].value = open[at[t].key].file
    BY <1>1, <1>4, <2>1 DEF HandleInv, HandleDescribed, Describes
  <2>5. preHooked
    BY <1>1, <1>4, <2>3 DEF Modules, HookInv, Closed, Other
  <2>6. open[at[t].key].file \in Files \cup {None} /\ (kind = "image") \in BOOLEAN
    BY <2>3 DEF Modules
  <2>7. PICK i \in Items : i = [hObject |-> h, value |-> open[at[t].key].file,
                                image |-> kind = "image"]
    BY <1>4, <2>6 DEF Items, Keys
  <2>8. i.hObject = h /\ i.value = open[at[t].key].file /\ i.image = (kind = "image") /\ h \in Keys
    BY <1>4, <2>7 DEF Keys
  <2>9. at' = [at EXCEPT ![t] = [@ EXCEPT !.pc = "insert", !.new = h, !.item = i]]
    BY <1>3, <1>6, <2>4, <2>7
  <2>10. /\ \A u \in Threads \ {t} : at'[u] = at[u]
        /\ at'[t].pc = "insert" /\ at'[t].new = h /\ at'[t].item = i
    BY <1>1, <2>9 DEF TypeInv
  <2>11. at' \in [Threads -> CallState]
    BY <1>1, <2>8, <2>9, Entering DEF TypeInv
  <2>12. open' \in [Handles -> {Closed, Other} \cup Modules]
    BY <1>1, <1>3, <2>6 DEF TypeInv, Modules
  <2>13. \A g \in Handles :
            open'[g] = IF g = h THEN [kind |-> kind, file |-> open[at[t].key].file] ELSE open[g]
    BY <1>1, <1>3, <1>6 DEF TypeInv
  <2>14. TypeInv'
    BY <1>1, <1>4, <2>11, <2>12 DEF TypeInv
  <2>15. ThreadInv'
    BY <1>1, <1>2, <1>4, <2>8, <2>10 DEF ThreadInv
  <2>16. ExclusiveInv'
    BY <1>1, <1>5, <2>10 DEF ExclusiveInv, Using
  <2>17. HookInv'
    BY <1>4, <2>5 DEF HookInv
  <2>18. ASSUME NEW g \in Handles
         PROVE  /\ HandleBare(g)' /\ HandleKnown(g)' /\ HandleDescribed(g)'
                /\ HandleUsed(g)' /\ HandleMade(g)'
    <3>1. /\ HandleInv /\ HandleBare(g) /\ HandleKnown(g) /\ HandleDescribed(g) /\ HandleUsed(g)
          /\ HandleMade(g)
      BY <1>1 DEF HandleInv
    <3>2. HandleBare(g)'
      BY <1>2, <3>1, <2>10, <2>13 DEF HandleBare, Closed, Other
    <3>3. HandleKnown(g)'
      BY <1>2, <3>1, <1>4, <2>10, <2>13 DEF HandleKnown, Using
    <3>4. HandleDescribed(g)'
      BY <1>2, <3>1, <1>5, <2>13 DEF HandleDescribed, Describes, Entered
    <3>5. HandleUsed(g)'
      BY <1>2, <3>1, <1>4, <2>10, <2>13 DEF HandleUsed, Using
    <3>6. HandleMade(g)'
      BY <1>2, <3>1, <1>5, <2>8, <2>10, <2>13 DEF HandleMade, Describes
    <3> QED BY <3>2, <3>3, <3>4, <3>5, <3>6
  <2>19. ASSUME NEW c \in Bases PROVE BaseBare(c)' /\ BaseKnown(c)' /\ BaseUsed(c)' /\ BaseMade(c)'
    <3>1. BaseInv /\ BaseBare(c) /\ BaseKnown(c) /\ BaseUsed(c) /\ BaseMade(c)
      BY <1>1 DEF BaseInv
    <3>2. BaseBare(c)'
      BY <1>2, <3>1, <1>4, <2>10 DEF BaseBare
    <3>3. BaseKnown(c)'
      BY <1>2, <3>1, <1>4, <2>10 DEF BaseKnown
    <3>4. BaseUsed(c)'
      BY <3>1, <1>4, <2>10 DEF BaseUsed, Using
    <3>5. BaseMade(c)'
      BY <1>2, <3>1, <1>4, <2>10 DEF BaseMade
    <3> QED BY <3>2, <3>3, <3>4, <3>5
  <2> QED BY <1>2, <2>14, <2>15, <2>16, <2>18, <2>19, <2>17 DEF IInv, HandleInv, BaseInv
<1>7. CASE at[t].iter = None
  <2>1. /\ \A u \in Threads \ {t} : at'[u] = at[u]
        /\ at'[t].pc = "idle" /\ at'[t].call = None /\ at'[t].new = None
        /\ \A g \in Handles : open'[g] = IF g = h THEN Other ELSE open[g]
    BY <1>1, <1>3, <1>7 DEF TypeInv, Idle
  <2>2. at' \in [Threads -> CallState]
    BY <1>1, <1>3, <1>7, IdleTyped DEF TypeInv
  <2>3. open' \in [Handles -> {Closed, Other} \cup Modules]
    BY <1>1, <1>3, <1>7 DEF TypeInv
  <2>4. TypeInv'
    BY <1>1, <1>4, <2>2, <2>3 DEF TypeInv
  <2>5. ThreadInv'
    BY <1>1, <1>2, <1>4, <2>1 DEF ThreadInv
  <2>6. ExclusiveInv'
    BY <1>1, <2>1 DEF ExclusiveInv, Using
  <2>7. HookInv'
    BY <1>1, <1>2, <1>4, <2>1 DEF HookInv
  <2>8. ASSUME NEW g \in Handles
        PROVE  /\ HandleBare(g)' /\ HandleKnown(g)' /\ HandleDescribed(g)'
               /\ HandleUsed(g)' /\ HandleMade(g)'
    <3>1. /\ HandleInv /\ HandleBare(g) /\ HandleKnown(g) /\ HandleDescribed(g) /\ HandleUsed(g)
          /\ HandleMade(g)
      BY <1>1 DEF HandleInv
    <3>2. HandleBare(g)'
      BY <1>2, <3>1, <1>4, <2>1 DEF HandleBare
    <3>3. HandleKnown(g)'
      BY <1>2, <3>1, <1>4, <2>1 DEF HandleKnown, Using, Other, Modules
    <3>4. HandleDescribed(g)'
      BY <1>2, <3>1, <1>5, <2>1 DEF HandleDescribed, Describes, Entered
    <3>5. HandleUsed(g)'
      BY <1>2, <3>1, <1>4, <2>1 DEF HandleUsed, Using
    <3>6. HandleMade(g)'
      BY <1>2, <3>1, <1>5, <2>1 DEF HandleMade, Describes
    <3> QED BY <3>2, <3>3, <3>4, <3>5, <3>6
  <2>9. ASSUME NEW c \in Bases PROVE BaseBare(c)' /\ BaseKnown(c)' /\ BaseUsed(c)' /\ BaseMade(c)'
    <3>1. BaseInv /\ BaseBare(c) /\ BaseKnown(c) /\ BaseUsed(c) /\ BaseMade(c)
      BY <1>1 DEF BaseInv
    <3>2. BaseBare(c)'
      BY <1>2, <3>1, <1>4, <2>1 DEF BaseBare
    <3>3. BaseKnown(c)'
      BY <1>2, <3>1, <1>4, <2>1 DEF BaseKnown
    <3>4. BaseUsed(c)'
      BY <3>1, <1>4, <2>1 DEF BaseUsed, Using
    <3>5. BaseMade(c)'
      BY <1>2, <3>1, <2>1 DEF BaseMade
    <3> QED BY <3>2, <3>3, <3>4, <3>5
  <2> QED BY <1>2, <2>4, <2>5, <2>6, <2>8, <2>9, <2>7 DEF IInv, HandleInv, BaseInv
<1> QED BY <1>6, <1>7

\* A view of a module from memory is a copy at a free address, on its way to the list.
LEMMA MapsCopyKeeps ==
  ASSUME IInv, NEW t \in Threads, "unmap" \notin Overlap, MapsCopy(t)
  PROVE  IInv'
<1>1. TypeInv /\ ListInv /\ ThreadInv /\ ExclusiveInv /\ HandleInv /\ BaseInv /\ HookInv
  BY DEF IInv
<1>2. /\ ListInv' /\ list' = list /\ item' = item /\ Allocated' = Allocated
      /\ \A k : Entered(k)' <=> Entered(k)
  BY <1>1, ListKept DEF MapsCopy
<1>3. PICK b \in FreeBases :
        /\ view' = [view EXCEPT ![b] = [kind |-> "copy", file |-> item[at[t].iter].value]]
        /\ at' = [at EXCEPT ![t] =
             [@ EXCEPT !.pc = "insert", !.new = b,
                       !.item = [hObject |-> b, value |-> b, image |-> FALSE]]]
  BY DEF MapsCopy
<1>4. /\ b \in Bases /\ view[b] = Closed /\ UNCHANGED <<preHooked, open>>
      /\ \A u \in Threads : at[u].key # b
      /\ at[t].pc = "found" /\ at[t].call = "map" /\ at[t].new = None /\ at[t].key \in Handles
  BY <1>1 DEF MapsCopy, FreeBases, Found, ThreadInv
<1>5. ~Entered(b) /\ \A u \in Threads : at[u].new # b /\ ~Using(u, b)
  BY <1>1, <1>4 DEF BaseInv, BaseBare, Using
<1>6. at[t].iter \in Allocated /\ item[at[t].iter].hObject = at[t].key
  BY <1>1, <1>4 DEF ThreadInv, MapsCopy
<1>7. Entered(at[t].key)
  BY <1>6 DEF Entered
<1>8. open[at[t].key] \in Modules
  BY <1>1, <1>4, <1>7 DEF HandleInv, HandleBare, TypeInv
<1>9. item[at[t].iter].value = open[at[t].key].file
  BY <1>1, <1>4, <1>6 DEF HandleInv, HandleDescribed, Describes
<1>10. item[at[t].iter].value \in Files \cup {None} /\ preHooked
  BY <1>1, <1>4, <1>8, <1>9 DEF Modules, HookInv, Closed, Other
<1>11. /\ \A u \in Threads \ {t} : at'[u] = at[u]
      /\ at'[t].pc = "insert" /\ at'[t].new = b
      /\ at'[t].item = [hObject |-> b, value |-> b, image |-> FALSE]
      /\ \A c \in Bases :
            view'[c] = IF c = b THEN [kind |-> "copy", file |-> item[at[t].iter].value] ELSE view[c]
  BY <1>1, <1>3 DEF TypeInv
<1>12. at' \in [Threads -> CallState]
  BY <1>1, <1>3, <1>4, Entering DEF TypeInv, Items, Keys
<1>13. view' \in [Bases -> {Closed, Other} \cup Copies]
  BY <1>1, <1>3, <1>10 DEF TypeInv, Copies
<1>14. TypeInv'
  BY <1>1, <1>4, <1>12, <1>13 DEF TypeInv
<1>15. ThreadInv'
  BY <1>1, <1>2, <1>4, <1>11 DEF ThreadInv, Keys
<1>16. ExclusiveInv'
  BY <1>1, <1>5, <1>11 DEF ExclusiveInv, Using
<1>17. HookInv'
  BY <1>4, <1>10 DEF HookInv
<1>18. ASSUME NEW g \in Handles
       PROVE  /\ HandleBare(g)' /\ HandleKnown(g)' /\ HandleDescribed(g)'
              /\ HandleUsed(g)' /\ HandleMade(g)'
  <2>1. /\ HandleInv /\ HandleBare(g) /\ HandleKnown(g) /\ HandleDescribed(g) /\ HandleUsed(g)
        /\ HandleMade(g)
    BY <1>1 DEF HandleInv
  <2>2. HandleBare(g)'
    BY <1>2, <2>1, <1>4, <1>11 DEF HandleBare
  <2>3. HandleKnown(g)'
    BY <1>2, <2>1, <1>4, <1>11 DEF HandleKnown, Using
  <2>4. HandleDescribed(g)'
    BY <1>2, <2>1, <1>4 DEF HandleDescribed, Describes
  <2>5. HandleUsed(g)'
    BY <1>2, <2>1, <1>4, <1>11 DEF HandleUsed, Using
  <2>6. HandleMade(g)'
    BY <1>2, <2>1, <1>4, <1>11 DEF HandleMade, Describes
  <2> QED BY <2>2, <2>3, <2>4, <2>5, <2>6
<1>19. ASSUME NEW c \in Bases PROVE BaseBare(c)' /\ BaseKnown(c)' /\ BaseUsed(c)' /\ BaseMade(c)'
  <2>1. BaseInv /\ BaseBare(c) /\ BaseKnown(c) /\ BaseUsed(c) /\ BaseMade(c)
    BY <1>1 DEF BaseInv
  <2>2. BaseBare(c)'
    BY <1>2, <2>1, <1>4, <1>11 DEF BaseBare, Closed, Other
  <2>3. BaseKnown(c)'
    BY <1>2, <2>1, <1>4, <1>11 DEF BaseKnown
  <2>4. BaseUsed(c)'
    BY <2>1, <1>4, <1>11 DEF BaseUsed, Using
  <2>5. BaseMade(c)'
    BY <1>2, <2>1, <1>5, <1>11 DEF BaseMade
  <2> QED BY <2>2, <2>3, <2>4, <2>5
<1> QED BY <1>2, <1>14, <1>15, <1>16, <1>18, <1>19, <1>17 DEF IInv, HandleInv, BaseInv

\* A view of another mapping is not entered.
LEMMA OriginMapViewOfFileExKeeps ==
  ASSUME IInv, NEW t \in Threads, "unmap" \notin Overlap, OriginMapViewOfFileEx(t)
  PROVE  IInv'
<1>1. TypeInv /\ ListInv /\ ThreadInv /\ ExclusiveInv /\ HandleInv /\ BaseInv /\ HookInv
  BY DEF IInv
<1>2. /\ ListInv' /\ list' = list /\ item' = item /\ Allocated' = Allocated
      /\ \A k : Entered(k)' <=> Entered(k)
  BY <1>1, ListKept DEF OriginMapViewOfFileEx
<1>3. PICK b \in FreeBases : view' = [view EXCEPT ![b] = Other]
  BY DEF OriginMapViewOfFileEx
<1>4. /\ b \in Bases /\ view[b] = Closed /\ UNCHANGED <<preHooked, open>>
      /\ \A u \in Threads : at[u].key # b
      /\ at[t].pc = "found" /\ at[t].call = "map" /\ at[t].new = None /\ at[t].key \in Handles
  BY <1>1 DEF OriginMapViewOfFileEx, FreeBases, Found, ThreadInv
<1>5. ~Entered(b) /\ \A u \in Threads : at[u].new # b /\ ~Using(u, b)
  BY <1>1, <1>4 DEF BaseInv, BaseBare, Using
<1>6. /\ \A u \in Threads \ {t} : at'[u] = at[u]
      /\ at'[t].pc = "idle" /\ at'[t].call = None /\ at'[t].new = None
      /\ \A c \in Bases : view'[c] = IF c = b THEN Other ELSE view[c]
  BY <1>1, <1>3 DEF OriginMapViewOfFileEx, TypeInv, Idle
<1>7. at' \in [Threads -> CallState]
  BY <1>1, IdleTyped DEF OriginMapViewOfFileEx, TypeInv
<1>8. view' \in [Bases -> {Closed, Other} \cup Copies]
  BY <1>1, <1>3 DEF TypeInv
<1>9. TypeInv'
  BY <1>1, <1>4, <1>7, <1>8 DEF TypeInv
<1>10. ThreadInv'
  BY <1>1, <1>2, <1>4, <1>6 DEF ThreadInv
<1>11. ExclusiveInv'
  BY <1>1, <1>6 DEF ExclusiveInv, Using
<1>12. HookInv'
  BY <1>1, <1>2, <1>4, <1>6 DEF HookInv
<1>13. ASSUME NEW g \in Handles
       PROVE  /\ HandleBare(g)' /\ HandleKnown(g)' /\ HandleDescribed(g)'
              /\ HandleUsed(g)' /\ HandleMade(g)'
  <2>1. /\ HandleInv /\ HandleBare(g) /\ HandleKnown(g) /\ HandleDescribed(g) /\ HandleUsed(g)
        /\ HandleMade(g)
    BY <1>1 DEF HandleInv
  <2>2. HandleBare(g)'
    BY <1>2, <2>1, <1>4, <1>6 DEF HandleBare
  <2>3. HandleKnown(g)'
    BY <1>2, <2>1, <1>4, <1>6 DEF HandleKnown, Using
  <2>4. HandleDescribed(g)'
    BY <1>2, <2>1, <1>4 DEF HandleDescribed, Describes
  <2>5. HandleUsed(g)'
    BY <1>2, <2>1, <1>4, <1>6 DEF HandleUsed, Using
  <2>6. HandleMade(g)'
    BY <1>2, <2>1, <1>4, <1>6 DEF HandleMade, Describes
  <2> QED BY <2>2, <2>3, <2>4, <2>5, <2>6
<1>14. ASSUME NEW c \in Bases PROVE BaseBare(c)' /\ BaseKnown(c)' /\ BaseUsed(c)' /\ BaseMade(c)'
  <2>1. BaseInv /\ BaseBare(c) /\ BaseKnown(c) /\ BaseUsed(c) /\ BaseMade(c)
    BY <1>1 DEF BaseInv
  <2>2. BaseBare(c)'
    BY <1>2, <2>1, <1>4, <1>6 DEF BaseBare
  <2>3. BaseKnown(c)'
    BY <1>2, <2>1, <1>4, <1>6 DEF BaseKnown, Other, Copies
  <2>4. BaseUsed(c)'
    BY <2>1, <1>4, <1>6 DEF BaseUsed, Using
  <2>5. BaseMade(c)'
    BY <1>2, <2>1, <1>6 DEF BaseMade
  <2> QED BY <2>2, <2>3, <2>4, <2>5
<1> QED BY <1>2, <1>9, <1>10, <1>11, <1>13, <1>14, <1>12 DEF IInv, HandleInv, BaseInv

\* The view goes before its entry does: until then the address is nobody's.
LEMMA UnmapViewOfFileKeeps ==
  ASSUME IInv, NEW t \in Threads, UnmapViewOfFile(t)
  PROVE  IInv'
<1>1. TypeInv /\ ListInv /\ ThreadInv /\ ExclusiveInv /\ HandleInv /\ BaseInv /\ HookInv
  BY DEF IInv
<1>2. /\ ListInv' /\ list' = list /\ item' = item /\ Allocated' = Allocated
      /\ \A k : Entered(k)' <=> Entered(k)
  BY <1>1, ListKept DEF UnmapViewOfFile
<1>3. PICK b \in Bases : b = at[t].key
  BY <1>1 DEF UnmapViewOfFile, Found, ThreadInv
<1>4. /\ at[t].pc = "found" /\ at[t].call = "unmap" /\ at[t].new = None /\ Using(t, b)
      /\ UNCHANGED <<preHooked, open>>
      /\ at[t].iter # None => at[t].iter \in Allocated /\ item[at[t].iter].hObject = b
  BY <1>1, <1>3 DEF UnmapViewOfFile, Found, ThreadInv, Using
<1>5. /\ view[b] # Closed
      /\ at[t].iter = None => view[b] = Other /\ ~Entered(b)
      /\ \A u \in Threads : at[u].new # b
  BY <1>1, <1>4 DEF BaseInv, BaseUsed, BaseBare
<1>6. \A u \in Threads : u # t => ~Using(u, b)
  BY <1>1, <1>3, <1>4 DEF ExclusiveInv, LettingGo
<1>7. \A u \in Threads : at[u].pc = "unmapped" => at[u].key # b
  BY <1>1, <1>5 DEF ThreadInv
<1>8. /\ \A u \in Threads \ {t} : at'[u] = at[u]
      /\ at'[t].pc = IF at[t].iter # None THEN "unmapped" ELSE "idle"
      /\ at[t].iter # None => at'[t].key = b /\ at'[t].iter = at[t].iter
      /\ at'[t].new = None
      /\ \A c \in Bases : view'[c] = IF c = b THEN Closed ELSE view[c]
  BY <1>1, <1>3, <1>4 DEF UnmapViewOfFile, TypeInv, Idle
<1>9. at' \in [Threads -> CallState]
  BY <1>1, <1>4 DEF UnmapViewOfFile, TypeInv, CallState, Items, Idle, NoItem
<1>10. view' \in [Bases -> {Closed, Other} \cup Copies]
  BY <1>1 DEF UnmapViewOfFile, TypeInv
<1>11. TypeInv'
  BY <1>1, <1>4, <1>9, <1>10 DEF TypeInv
<1>12. ThreadInv'
  BY <1>1, <1>2, <1>4, <1>8 DEF ThreadInv
<1>13. ExclusiveInv'
  BY <1>1, <1>7, <1>8 DEF ExclusiveInv, Using
<1>14. HookInv'
  BY <1>1, <1>2, <1>4, <1>8 DEF HookInv
<1>15. ASSUME NEW g \in Handles
       PROVE  /\ HandleBare(g)' /\ HandleKnown(g)' /\ HandleDescribed(g)'
              /\ HandleUsed(g)' /\ HandleMade(g)'
  <2>1. /\ HandleInv /\ HandleBare(g) /\ HandleKnown(g) /\ HandleDescribed(g) /\ HandleUsed(g)
        /\ HandleMade(g)
    BY <1>1 DEF HandleInv
  <2>2. HandleBare(g)'
    BY <1>2, <2>1, <1>4, <1>8 DEF HandleBare
  <2>3. HandleKnown(g)'
    BY <1>2, <2>1, <1>4, <1>8 DEF HandleKnown, Using
  <2>4. HandleDescribed(g)'
    BY <1>2, <2>1, <1>4 DEF HandleDescribed, Describes
  <2>5. HandleUsed(g)'
    BY <1>2, <2>1, <1>4, <1>8 DEF HandleUsed, Using
  <2>6. HandleMade(g)'
    BY <1>2, <2>1, <1>4, <1>8 DEF HandleMade, Describes
  <2> QED BY <2>2, <2>3, <2>4, <2>5, <2>6
<1>16. ASSUME NEW c \in Bases PROVE BaseBare(c)' /\ BaseKnown(c)' /\ BaseUsed(c)' /\ BaseMade(c)'
  <2>1. BaseInv /\ BaseBare(c) /\ BaseKnown(c) /\ BaseUsed(c) /\ BaseMade(c)
    BY <1>1 DEF BaseInv
  <2>2. BaseBare(c)'
    BY <1>2, <2>1, <1>4, <1>5, <1>8 DEF BaseBare, Closed, Other
  <2>3. BaseKnown(c)'
    BY <1>2, <2>1, <1>4, <1>8 DEF BaseKnown, Closed, Copies
  <2>4. BaseUsed(c)'
    BY <2>1, <1>6, <1>8 DEF BaseUsed, Using
  <2>5. BaseMade(c)'
    BY <1>2, <2>1, <1>8 DEF BaseMade
  <2> QED BY <2>2, <2>3, <2>4, <2>5
<1> QED BY <1>2, <1>11, <1>12, <1>13, <1>15, <1>16, <1>14 DEF IInv, HandleInv, BaseInv

\* The handle goes after its entry did.
LEMMA OriginCloseHandleKeeps ==
  ASSUME IInv, NEW t \in Threads, OriginCloseHandle(t)
  PROVE  IInv'
<1>1. TypeInv /\ ListInv /\ ThreadInv /\ ExclusiveInv /\ HandleInv /\ BaseInv /\ HookInv
  BY DEF IInv
<1>2. /\ ListInv' /\ list' = list /\ item' = item /\ Allocated' = Allocated
      /\ \A k : Entered(k)' <=> Entered(k)
  BY <1>1, ListKept DEF OriginCloseHandle
<1>3. PICK h \in Handles : h = at[t].key
  BY <1>1 DEF OriginCloseHandle, Found, ThreadInv
<1>4. /\ at[t].pc = "found" /\ at[t].call = "close" /\ at[t].new = None /\ at[t].iter = None
      /\ UNCHANGED <<preHooked, view>> /\ Using(t, h)
  BY <1>1, <1>3 DEF OriginCloseHandle, Found, ThreadInv, Using
<1>5. open[h] # Closed /\ ~Entered(h) /\ \A u \in Threads : at[u].new # h
  BY <1>1, <1>4 DEF HandleInv, HandleUsed
<1>6. \A u \in Threads : u # t => ~Using(u, h)
  BY <1>1, <1>3, <1>4 DEF ExclusiveInv, LettingGo
<1>7. /\ \A u \in Threads \ {t} : at'[u] = at[u]
      /\ at'[t].pc = "idle" /\ at'[t].call = None /\ at'[t].new = None
      /\ \A g \in Handles : open'[g] = IF g = h THEN Closed ELSE open[g]
  BY <1>1, <1>3 DEF OriginCloseHandle, TypeInv, Idle
<1>8. at' \in [Threads -> CallState]
  BY <1>1, IdleTyped DEF OriginCloseHandle, TypeInv
<1>9. open' \in [Handles -> {Closed, Other} \cup Modules]
  BY <1>1 DEF OriginCloseHandle, TypeInv
<1>10. TypeInv'
  BY <1>1, <1>4, <1>8, <1>9 DEF TypeInv
<1>11. ThreadInv'
  BY <1>1, <1>2, <1>4, <1>7 DEF ThreadInv
<1>12. ExclusiveInv'
  BY <1>1, <1>7 DEF ExclusiveInv, Using
<1>13. HookInv'
  BY <1>1, <1>2, <1>4, <1>7 DEF HookInv
<1>14. ASSUME NEW g \in Handles
       PROVE  /\ HandleBare(g)' /\ HandleKnown(g)' /\ HandleDescribed(g)'
              /\ HandleUsed(g)' /\ HandleMade(g)'
  <2>1. /\ HandleInv /\ HandleBare(g) /\ HandleKnown(g) /\ HandleDescribed(g) /\ HandleUsed(g)
        /\ HandleMade(g)
    BY <1>1 DEF HandleInv
  <2>2. HandleBare(g)'
    BY <1>2, <2>1, <1>5, <1>7 DEF HandleBare
  <2>3. HandleKnown(g)'
    BY <1>2, <2>1, <1>4, <1>7 DEF HandleKnown, Using, Closed, Modules
  <2>4. HandleDescribed(g)'
    BY <1>2, <2>1, <1>5, <1>7 DEF HandleDescribed, Describes, Entered
  <2>5. HandleUsed(g)'
    BY <1>2, <2>1, <1>6, <1>7 DEF HandleUsed, Using
  <2>6. HandleMade(g)'
    BY <1>2, <2>1, <1>5, <1>7 DEF HandleMade, Describes
  <2> QED BY <2>2, <2>3, <2>4, <2>5, <2>6
<1>15. ASSUME NEW c \in Bases PROVE BaseBare(c)' /\ BaseKnown(c)' /\ BaseUsed(c)' /\ BaseMade(c)'
  <2>1. BaseInv /\ BaseBare(c) /\ BaseKnown(c) /\ BaseUsed(c) /\ BaseMade(c)
    BY <1>1 DEF BaseInv
  <2>2. BaseBare(c)'
    BY <1>2, <2>1, <1>4, <1>7 DEF BaseBare
  <2>3. BaseKnown(c)'
    BY <1>2, <2>1, <1>4, <1>7 DEF BaseKnown
  <2>4. BaseUsed(c)'
    BY <2>1, <1>4, <1>7 DEF BaseUsed, Using
  <2>5. BaseMade(c)'
    BY <1>2, <2>1, <1>7 DEF BaseMade
  <2> QED BY <2>2, <2>3, <2>4, <2>5
<1> QED BY <1>2, <1>10, <1>11, <1>12, <1>14, <1>15, <1>13 DEF IInv, HandleInv, BaseInv

\* An item goes into the list, and its object is known to every search.
LEMMA InsertsKeeps ==
  ASSUME IInv, NEW t \in Threads, Inserts(t)
  PROVE  IInv'
<1>1. TypeInv /\ ListInv /\ ThreadInv /\ ExclusiveInv /\ HandleInv /\ BaseInv /\ HookInv
  BY DEF IInv
<1>2. /\ at[t].item \in Items /\ at[t].new \in Keys /\ at[t].item.hObject = at[t].new
      /\ at[t].pc = "insert" /\ at[t].new # None
  BY <1>1 DEF Inserts, TypeInv, CallState, ThreadInv, Keys
<1>3. at[t].item # NoItem
  BY <1>2 DEF NoItem
<1>4. ~Entered(at[t].new)
  BY <1>1, <1>2 DEF HandleInv, HandleMade, BaseInv, BaseMade, Keys
<1>5. /\ ListInv'
      /\ \E e \in Entries \ Allocated : /\ Allocated' = Allocated \cup {e}
                                        /\ item' = [item EXCEPT ![e] = at[t].item]
  BY <1>1, <1>2, <1>3, <1>4, InsertEntry DEF Inserts
<1>6. PICK e \in Entries \ Allocated : /\ Allocated' = Allocated \cup {e}
                                       /\ item' = [item EXCEPT ![e] = at[t].item]
  BY <1>5
<1>7. /\ ListInv'
      /\ \A k : Entered(k)' <=> Entered(k) \/ k = at[t].new
      /\ \A f \in Allocated' : (f \in Allocated /\ item'[f] = item[f]) \/ item'[f] = at[t].item
      /\ \A f \in Allocated : f \in Allocated' /\ item'[f] = item[f]
  BY <1>2, <1>5 DEF Entered, ListInv
<1>8. at[t].new \in Handles => open[at[t].new] \in Modules
  BY <1>1 DEF HandleInv, HandleBare, TypeInv
<1>9. at[t].new \in Bases => view[at[t].new] \in Copies
  BY <1>1 DEF BaseInv, BaseBare, TypeInv
<1>10. preHooked
  BY <1>1, <1>2, <1>8, <1>9 DEF HookInv, Keys, Modules, Copies, Closed, Other
<1>11. /\ \A u \in Threads \ {t} : at'[u] = at[u]
      /\ at'[t].pc = "idle" /\ at'[t].call = None /\ at'[t].new = None
      /\ UNCHANGED <<preHooked, open, view>>
  BY <1>1 DEF Inserts, TypeInv, Idle
<1>12. at' \in [Threads -> CallState]
  BY <1>1, IdleTyped DEF Inserts, TypeInv
<1>13. TypeInv'
  BY <1>1, <1>11, <1>12 DEF TypeInv
<1>14. ThreadInv'
  BY <1>1, <1>7, <1>11 DEF ThreadInv
<1>15. ExclusiveInv'
  BY <1>1, <1>11 DEF ExclusiveInv, Using
<1>16. HookInv'
  BY <1>10, <1>11 DEF HookInv
<1>17. ASSUME NEW g \in Handles
       PROVE  /\ HandleBare(g)' /\ HandleKnown(g)' /\ HandleDescribed(g)'
              /\ HandleUsed(g)' /\ HandleMade(g)'
  <2>1. /\ HandleInv /\ HandleBare(g) /\ HandleKnown(g) /\ HandleDescribed(g) /\ HandleUsed(g)
        /\ HandleMade(g)
    BY <1>1 DEF HandleInv
  <2>2. HandleBare(g)'
    BY <1>7, <2>1, <1>11 DEF HandleBare
  <2>3. HandleKnown(g)'
    BY <1>7, <2>1, <1>2, <1>11 DEF HandleKnown, Using
  <2>4. HandleDescribed(g)'
    <3>1. SUFFICES ASSUME NEW f \in Allocated', item'[f].hObject = g
                   PROVE  item'[f].value = open[g].file /\ item'[f].image = (open[g].kind = "image")
      BY <1>11 DEF HandleDescribed, Describes
    <3>2. CASE f \in Allocated /\ item'[f] = item[f]
      BY <2>1, <3>1, <3>2 DEF HandleDescribed, Describes
    <3>3. CASE item'[f] = at[t].item
      BY <1>2, <2>1, <3>1, <3>3 DEF HandleMade, Describes
    <3> QED BY <1>7, <3>2, <3>3
  <2>5. HandleUsed(g)'
    BY <1>7, <2>1, <1>11 DEF HandleUsed, Using
  <2>6. HandleMade(g)'
    BY <1>1, <1>7, <2>1, <1>11 DEF HandleMade, Describes, ExclusiveInv
  <2> QED BY <2>2, <2>3, <2>4, <2>5, <2>6
<1>18. ASSUME NEW c \in Bases PROVE BaseBare(c)' /\ BaseKnown(c)' /\ BaseUsed(c)' /\ BaseMade(c)'
  <2>1. BaseInv /\ BaseBare(c) /\ BaseKnown(c) /\ BaseUsed(c) /\ BaseMade(c)
    BY <1>1 DEF BaseInv
  <2>2. BaseBare(c)'
    BY <1>7, <2>1, <1>2, <1>11 DEF BaseBare
  <2>3. BaseKnown(c)'
    BY <1>7, <2>1, <1>11 DEF BaseKnown
  <2>4. BaseUsed(c)'
    BY <2>1, <1>11 DEF BaseUsed, Using
  <2>5. BaseMade(c)'
    BY <1>1, <1>7, <2>1, <1>11 DEF BaseMade, ExclusiveInv
  <2> QED BY <2>2, <2>3, <2>4, <2>5
<1> QED BY <1>7, <1>13, <1>14, <1>15, <1>17, <1>18, <1>16 DEF IInv, HandleInv, BaseInv

\* The entry of an unmapped view is still there, and it goes.
LEMMA FreesViewEntryKeeps ==
  ASSUME IInv, NEW t \in Threads, FreesViewEntry(t)
  PROVE  IInv'
<1>1. TypeInv /\ ListInv /\ ThreadInv /\ ExclusiveInv /\ HandleInv /\ BaseInv /\ HookInv
  BY DEF IInv
<1>2. /\ at[t].iter \in Allocated /\ item[at[t].iter].hObject = at[t].key
      /\ at[t].key \in Bases /\ at[t].new = None /\ at[t].pc = "unmapped"
  BY <1>1 DEF FreesViewEntry, ThreadInv
<1>3. /\ ListInv' /\ Allocated' = Allocated \ {at[t].iter}
      /\ item' = [item EXCEPT ![at[t].iter] = NoItem]
  BY <1>1, <1>2, FreeEntry DEF FreesViewEntry
<1>4. /\ ListInv'
      /\ \A k : Entered(k)' <=> Entered(k) /\ k # at[t].key
      /\ \A f \in Allocated' : f \in Allocated /\ item'[f] = item[f]
      /\ \A f \in Allocated : item[f].hObject # at[t].key => f \in Allocated' /\ item'[f] = item[f]
  BY <1>1, <1>2, <1>3, AllocatedTyped DEF Entered, ListInv
<1>5. preHooked
  BY <1>1, <1>2 DEF HookInv, Allocated, Range
<1>6. /\ view[at[t].key] = Closed /\ \A u \in Threads : ~Using(u, at[t].key)
      /\ \A u \in Threads : u # t /\ at[u].pc = "unmapped" => at[u].key # at[t].key
  BY <1>1, <1>2 DEF ThreadInv, BaseInv, BaseUsed, ExclusiveInv
<1>7. /\ \A u \in Threads \ {t} : at'[u] = at[u]
      /\ at'[t].pc = "idle" /\ at'[t].call = None /\ at'[t].new = None
      /\ UNCHANGED <<preHooked, open, view>>
  BY <1>1 DEF FreesViewEntry, TypeInv, Idle
<1>8. at' \in [Threads -> CallState]
  BY <1>1 DEF FreesViewEntry, TypeInv, CallState, Items, Idle, NoItem
<1>9. TypeInv'
  BY <1>1, <1>7, <1>8 DEF TypeInv
<1>10. ThreadInv'
  BY <1>1, <1>4, <1>6, <1>7 DEF ThreadInv, Using
<1>11. ExclusiveInv'
  BY <1>1, <1>7 DEF ExclusiveInv, Using
<1>12. HookInv'
  BY <1>5, <1>7 DEF HookInv
<1>13. ASSUME NEW g \in Handles
       PROVE  /\ HandleBare(g)' /\ HandleKnown(g)' /\ HandleDescribed(g)'
              /\ HandleUsed(g)' /\ HandleMade(g)'
  <2>1. /\ HandleInv /\ HandleBare(g) /\ HandleKnown(g) /\ HandleDescribed(g) /\ HandleUsed(g)
        /\ HandleMade(g)
    BY <1>1 DEF HandleInv
  <2>2. HandleBare(g)'
    BY <1>4, <2>1, <1>7 DEF HandleBare
  <2>3. HandleKnown(g)'
    BY <1>4, <2>1, <1>2, <1>7 DEF HandleKnown, Using
  <2>4. HandleDescribed(g)'
    BY <1>4, <2>1, <1>7 DEF HandleDescribed, Describes
  <2>5. HandleUsed(g)'
    BY <1>4, <2>1, <1>7 DEF HandleUsed, Using
  <2>6. HandleMade(g)'
    BY <1>4, <2>1, <1>7 DEF HandleMade, Describes
  <2> QED BY <2>2, <2>3, <2>4, <2>5, <2>6
<1>14. ASSUME NEW c \in Bases PROVE BaseBare(c)' /\ BaseKnown(c)' /\ BaseUsed(c)' /\ BaseMade(c)'
  <2>1. BaseInv /\ BaseBare(c) /\ BaseKnown(c) /\ BaseUsed(c) /\ BaseMade(c)
    BY <1>1 DEF BaseInv
  <2>2. BaseBare(c)'
    BY <1>4, <2>1, <1>7 DEF BaseBare
  <2>3. BaseKnown(c)'
    BY <1>4, <2>1, <1>2, <1>6, <1>7 DEF BaseKnown, Closed, Copies
  <2>4. BaseUsed(c)'
    BY <2>1, <1>7 DEF BaseUsed, Using
  <2>5. BaseMade(c)'
    BY <1>4, <2>1, <1>7 DEF BaseMade
  <2> QED BY <2>2, <2>3, <2>4, <2>5
<1> QED BY <1>4, <1>9, <1>10, <1>11, <1>13, <1>14, <1>12 DEF IInv, HandleInv, BaseInv

\* The entry of a handle goes before the handle is closed.
LEMMA FreesHandleEntryKeeps ==
  ASSUME IInv, NEW t \in Threads, FreesHandleEntry(t)
  PROVE  IInv'
<1>1. TypeInv /\ ListInv /\ ThreadInv /\ ExclusiveInv /\ HandleInv /\ BaseInv /\ HookInv
  BY DEF IInv
<1>2. /\ at[t].iter \in Allocated /\ item[at[t].iter].hObject = at[t].key
      /\ at[t].key \in Handles /\ at[t].new = None /\ at[t].pc = "found" /\ at[t].call = "close"
  BY <1>1 DEF FreesHandleEntry, Found, ThreadInv
<1>3. /\ ListInv' /\ Allocated' = Allocated \ {at[t].iter}
      /\ item' = [item EXCEPT ![at[t].iter] = NoItem]
  BY <1>1, <1>2, FreeEntry DEF FreesHandleEntry
<1>4. /\ ListInv'
      /\ \A k : Entered(k)' <=> Entered(k) /\ k # at[t].key
      /\ \A f \in Allocated' : f \in Allocated /\ item'[f] = item[f]
      /\ \A f \in Allocated : item[f].hObject # at[t].key => f \in Allocated' /\ item'[f] = item[f]
  BY <1>1, <1>2, <1>3 DEF Entered, ListInv
<1>5. preHooked
  BY <1>1, <1>2 DEF HookInv, Allocated, Range
<1>6. /\ Using(t, at[t].key) /\ \A u \in Threads : u # t => ~Using(u, at[t].key)
      /\ \A u \in Threads : at[u].pc = "unmapped" => at[u].key # at[t].key
  BY <1>1, <1>2 DEF ThreadInv, ExclusiveInv, Using, LettingGo
<1>7. /\ \A u \in Threads \ {t} : at'[u] = at[u]
      /\ at'[t].pc = "found" /\ at'[t].call = "close" /\ at'[t].key = at[t].key
      /\ at'[t].iter = None /\ at'[t].new = None
      /\ UNCHANGED <<preHooked, open, view>>
  BY <1>1, <1>2 DEF FreesHandleEntry, TypeInv
<1>8. at' \in [Threads -> CallState]
  BY <1>1 DEF FreesHandleEntry, TypeInv, CallState
<1>9. TypeInv'
  BY <1>1, <1>7, <1>8 DEF TypeInv
<1>10. ThreadInv'
  BY <1>1, <1>4, <1>2, <1>6, <1>7 DEF ThreadInv, Using
<1>11. ExclusiveInv'
  BY <1>1, <1>2, <1>7 DEF ExclusiveInv, Using
<1>12. HookInv'
  BY <1>5, <1>7 DEF HookInv
<1>13. ASSUME NEW g \in Handles
       PROVE  /\ HandleBare(g)' /\ HandleKnown(g)' /\ HandleDescribed(g)'
              /\ HandleUsed(g)' /\ HandleMade(g)'
  <2>1. /\ HandleInv /\ HandleBare(g) /\ HandleKnown(g) /\ HandleDescribed(g) /\ HandleUsed(g)
        /\ HandleMade(g)
    BY <1>1 DEF HandleInv
  <2>2. HandleBare(g)'
    BY <1>4, <2>1, <1>7 DEF HandleBare
  <2>3. HandleKnown(g)'
    BY <1>4, <2>1, <1>2, <1>7 DEF HandleKnown, Using
  <2>4. HandleDescribed(g)'
    BY <1>4, <2>1, <1>7 DEF HandleDescribed, Describes
  <2>5. HandleUsed(g)'
    BY <1>4, <2>1, <1>2, <1>7 DEF HandleUsed, Using
  <2>6. HandleMade(g)'
    BY <1>4, <2>1, <1>7 DEF HandleMade, Describes
  <2> QED BY <2>2, <2>3, <2>4, <2>5, <2>6
<1>14. ASSUME NEW c \in Bases PROVE BaseBare(c)' /\ BaseKnown(c)' /\ BaseUsed(c)' /\ BaseMade(c)'
  <2>1. BaseInv /\ BaseBare(c) /\ BaseKnown(c) /\ BaseUsed(c) /\ BaseMade(c)
    BY <1>1 DEF BaseInv
  <2>2. BaseBare(c)'
    BY <1>4, <2>1, <1>7 DEF BaseBare
  <2>3. BaseKnown(c)'
    BY <1>4, <2>1, <1>2, <1>7 DEF BaseKnown
  <2>4. BaseUsed(c)'
    BY <2>1, <1>2, <1>7 DEF BaseUsed, Using
  <2>5. BaseMade(c)'
    BY <1>4, <2>1, <1>7 DEF BaseMade
  <2> QED BY <2>2, <2>3, <2>4, <2>5
<1> QED BY <1>4, <1>9, <1>10, <1>11, <1>13, <1>14, <1>12 DEF IInv, HandleInv, BaseInv

\* The steps that do not touch handles or addresses in use.
LEMMA OthersKeep ==
  ASSUME IInv,
         \/ MmpPreInitializeHooksForDotNet
         \/ \E f \in Files : LdrLoadDllMemory(f) \/ LdrUnloadDllMemory(f)
         \/ UNCHANGED vars
  PROVE  IInv'
<1>1. TypeInv /\ ListInv /\ ThreadInv /\ ExclusiveInv /\ HandleInv /\ BaseInv /\ HookInv
  BY DEF IInv
<1>2. CASE MmpPreInitializeHooksForDotNet
  <2>1. list = <<>> /\ ~preHooked
    BY <1>1, <1>2 DEF MmpPreInitializeHooksForDotNet, HookInv
  <2>2. Allocated = {}
    BY <2>1 DEF Allocated, Range
  <2>3. item = [e \in Entries |-> NoItem]
    BY <1>1, <2>2 DEF ListInv
  <2>4. UNCHANGED <<list, item, open, view, at>> /\ preHooked'
    BY <1>2, <2>1, <2>3 DEF MmpPreInitializeHooksForDotNet
  <2>5. preHooked' \in BOOLEAN
    BY <1>2 DEF MmpPreInitializeHooksForDotNet
  <2> QED BY <1>1, <2>4, <2>5, QuietKeeps DEF TypeInv
<1>3. ASSUME NEW f \in Files, LdrUnloadDllMemory(f) PROVE IInv'
  <2>1. UNCHANGED <<preHooked, list, item, open, view>>
    BY <1>3 DEF LdrUnloadDllMemory
  <2>2. ASSUME NEW t \in Threads
        PROVE  /\ at'[t] \in CallState
               /\ \/ at'[t] = at[t]
                  \/ at[t].pc = "open" /\ at'[t].pc = "open" /\ at'[t].new = at[t].new
    <3>1. at[t] \in CallState
      BY <1>1 DEF TypeInv
    <3>2. [at[t] EXCEPT !.item = NoItem] \in CallState
      BY <3>1, IdleTyped DEF CallState
    <3>3. at'[t] = IF at[t].pc = "open" /\ at[t].item.value = f
                   THEN [at[t] EXCEPT !.item = NoItem] ELSE at[t]
      BY <1>3 DEF LdrUnloadDllMemory
    <3>4. CASE at[t].pc = "open" /\ at[t].item.value = f
      <4>1. at'[t] = [at[t] EXCEPT !.item = NoItem]
        BY <3>3, <3>4
      <4>2. at'[t].pc = at[t].pc /\ at'[t].new = at[t].new
        BY <3>1, <4>1 DEF CallState
      <4> QED BY <3>2, <3>4, <4>1, <4>2
    <3> QED BY <3>1, <3>3, <3>4
  <2>3. at' \in [Threads -> CallState]
    <3>1. at' = [t \in Threads |-> IF at[t].pc = "open" /\ at[t].item.value = f
                                   THEN [at[t] EXCEPT !.item = NoItem] ELSE at[t]]
      BY <1>3 DEF LdrUnloadDllMemory
    <3> QED BY <2>2, <3>1
  <2> QED BY <1>1, <2>1, <2>2, <2>3, QuietKeeps DEF TypeInv
<1>4. CASE UNCHANGED <<preHooked, open, view, list, item, at>>
  BY <1>1, <1>4, QuietKeeps DEF TypeInv
<1> QED BY <1>2, <1>3, <1>4 DEF LdrLoadDllMemory, vars

\* A call that is about to make a handle has found a module or one that is gone since.
LEMMA NextOpening == IInv /\ OpeningInv /\ [Next]_vars => OpeningInv'
<1> SUFFICES ASSUME IInv, OpeningInv, [Next]_vars PROVE OpeningInv'
  OBVIOUS
<1>1. at \in [Threads -> CallState]
  BY DEF IInv, TypeInv
<1>2. ASSUME NEW t \in Threads, NEW c, at' = [at EXCEPT ![t] = c], preHooked' = preHooked,
             c.pc = "open" => preHooked /\ c.item.value \in Files \cup {None}
      PROVE  OpeningInv'
  <2>1. \A u \in Threads : at'[u] = IF u = t THEN c ELSE at[u]
    BY <1>1, <1>2
  <2> QED BY <1>2, <2>1 DEF OpeningInv
<1>3. ASSUME UNCHANGED <<at, preHooked>> PROVE OpeningInv'
  BY <1>3 DEF OpeningInv
<1>4. ASSUME NEW t \in Threads, Calls(t) PROVE OpeningInv'
  <2>1. ASSUME NEW f \in Files, CreateFileW(t, f) PROVE OpeningInv'
    <3> DEFINE c == [Idle EXCEPT !.pc = "open", !.item = [NoItem EXCEPT !.value = f]]
    <3>1. c.item.value = f
      BY DEF Idle, NoItem
    <3>2. preHooked' = preHooked
      BY <2>1 DEF CreateFileW
    <3>3. CASE preHooked /\ f \in loaded
      <4>1. at' = [at EXCEPT ![t] = c]
        BY <2>1, <3>3 DEF CreateFileW
      <4> QED BY <1>2, <3>1, <3>2, <3>3, <4>1
    <3>4. CASE ~(preHooked /\ f \in loaded)
      BY <1>3, <2>1, <3>2, <3>4 DEF CreateFileW
    <3> QED BY <3>3, <3>4
  <2>2. ASSUME NEW call, NEW key, Finds(t, call, key) PROVE OpeningInv'
    <3> DEFINE c == [Idle EXCEPT !.pc = "found", !.call = call, !.key = key,
                       !.iter = IF preHooked THEN MmpFindHandleEntry(key) ELSE None]
    <3>1. at' = [at EXCEPT ![t] = c] /\ preHooked' = preHooked
      BY <2>2 DEF Finds
    <3>2. c.pc = "found"
      BY DEF Idle
    <3> HIDE DEF c
    <3> QED BY <1>2, <3>1, <3>2
  <2> QED BY <1>4, <2>1, <2>2 DEF Calls
<1>5. ASSUME NEW t \in Threads, Continues(t) PROVE OpeningInv'
  <2>1. at[t] \in CallState
    BY <1>1
  <2>2. preHooked' = preHooked
    BY <1>5 DEF Continues, CreateEventW, Inserts, Answers, CreateFileMappingW, MapsCopy, MapsBytes,
       OriginMapViewOfFileEx, UnmapViewOfFile, FreesViewEntry, FreesHandleEntry, OriginCloseHandle
  <2>3. CASE CreateEventW(t)
    <3>1. PICK h : at' = [at EXCEPT ![t] =
            [at[t] EXCEPT !.pc = "insert", !.new = h,
                      !.item = [hObject |-> h, value |-> at[t].item.value, image |-> FALSE]]]
      BY <2>3 DEF CreateEventW
    <3> DEFINE c == [at[t] EXCEPT !.pc = "insert", !.new = h,
                !.item = [hObject |-> h, value |-> at[t].item.value, image |-> FALSE]]
    <3>2. c.pc = "insert"
      BY <2>1 DEF CallState
    <3>3. at' = [at EXCEPT ![t] = c]
      BY <3>1
    <3> HIDE DEF c
    <3> QED BY <1>2, <2>2, <3>2, <3>3
  <2>4. CASE Inserts(t) \/ Answers(t) \/ MapsBytes(t) \/ OriginMapViewOfFileEx(t)
             \/ FreesViewEntry(t) \/ OriginCloseHandle(t)
    <3>1. at' = [at EXCEPT ![t] = Idle] /\ Idle.pc = "idle"
      BY <2>4 DEF Inserts, Answers, MapsBytes, OriginMapViewOfFileEx, FreesViewEntry,
         OriginCloseHandle, Idle
    <3> QED BY <1>2, <2>2, <3>1
  <2>5. ASSUME NEW kind \in {"data", "image"}, CreateFileMappingW(t, kind) PROVE OpeningInv'
    <3>1. PICK h \in FreeHandles :
            \/ at' = [at EXCEPT ![t] =
                 [@ EXCEPT !.pc = "insert", !.new = h,
                           !.item = [hObject |-> h, value |-> item[at[t].iter].value,
                                     image |-> kind = "image"]]]
            \/ at' = [at EXCEPT ![t] = Idle]
      BY <2>5 DEF CreateFileMappingW
    <3> DEFINE c == [at[t] EXCEPT !.pc = "insert", !.new = h,
                !.item = [hObject |-> h, value |-> item[at[t].iter].value,
                          image |-> (kind = "image")]]
    <3>2. c.pc = "insert"
      BY <2>1 DEF CallState
    <3>3. Idle.pc = "idle"
      BY DEF Idle
    <3>4. at' = [at EXCEPT ![t] = c] \/ at' = [at EXCEPT ![t] = Idle]
      BY <3>1
    <3> HIDE DEF c
    <3> QED BY <1>2, <2>2, <3>2, <3>3, <3>4
  <2>6. CASE MapsCopy(t)
    <3>1. PICK b : at' = [at EXCEPT ![t] =
            [@ EXCEPT !.pc = "insert", !.new = b,
                      !.item = [hObject |-> b, value |-> b, image |-> FALSE]]]
      BY <2>6 DEF MapsCopy
    <3> DEFINE c == [at[t] EXCEPT !.pc = "insert", !.new = b,
                !.item = [hObject |-> b, value |-> b, image |-> FALSE]]
    <3>2. c.pc = "insert"
      BY <2>1 DEF CallState
    <3>3. at' = [at EXCEPT ![t] = c]
      BY <3>1
    <3> HIDE DEF c
    <3> QED BY <1>2, <2>2, <3>2, <3>3
  <2>7. CASE UnmapViewOfFile(t)
    <3> DEFINE c == [at[t] EXCEPT !.pc = "unmapped"]
    <3>1. c.pc = "unmapped" /\ Idle.pc = "idle"
      BY <2>1 DEF CallState, Idle
    <3>2. at' = [at EXCEPT ![t] = c] \/ at' = [at EXCEPT ![t] = Idle]
      BY <2>7 DEF UnmapViewOfFile
    <3> HIDE DEF c
    <3> QED BY <1>2, <2>2, <3>1, <3>2
  <2>8. CASE FreesHandleEntry(t)
    <3> DEFINE c == [at[t] EXCEPT !.iter = None]
    <3>1. c.pc = at[t].pc
      BY <2>1 DEF CallState
    <3>2. at[t].pc = "found" /\ at' = [at EXCEPT ![t] = c]
      BY <2>8 DEF FreesHandleEntry, Found
    <3> HIDE DEF c
    <3> QED BY <1>2, <2>2, <3>1, <3>2
  <2> QED BY <1>5, <2>3, <2>4, <2>5, <2>6, <2>7, <2>8 DEF Continues
<1>6. ASSUME NEW f \in Files, LdrUnloadDllMemory(f) PROVE OpeningInv'
  <2>1. preHooked' = preHooked
    BY <1>6 DEF LdrUnloadDllMemory
  <2>2. ASSUME NEW t \in Threads, at'[t].pc = "open"
        PROVE  preHooked /\ at'[t].item.value \in Files \cup {None}
    <3>1. at[t] \in CallState
      BY <1>1
    <3>2. at'[t] = IF at[t].pc = "open" /\ at[t].item.value = f
                   THEN [at[t] EXCEPT !.item = NoItem] ELSE at[t]
      BY <1>6 DEF LdrUnloadDllMemory
    <3>3. CASE at[t].pc = "open" /\ at[t].item.value = f
      <4>1. at'[t].item = NoItem
        BY <3>1, <3>2, <3>3 DEF CallState
      <4> QED BY <3>3, <4>1 DEF OpeningInv, NoItem
    <3>4. CASE ~(at[t].pc = "open" /\ at[t].item.value = f)
      <4>1. at'[t] = at[t]
        BY <3>2, <3>4
      <4> QED BY <2>2, <4>1 DEF OpeningInv
    <3> QED BY <3>3, <3>4
  <2> QED BY <2>1, <2>2 DEF OpeningInv
<1>7. CASE MmpPreInitializeHooksForDotNet
  BY <1>7 DEF MmpPreInitializeHooksForDotNet, OpeningInv
<1>8. ASSUME NEW f \in Files, LdrLoadDllMemory(f) PROVE OpeningInv'
  BY <1>3, <1>8 DEF LdrLoadDllMemory
<1>9. CASE UNCHANGED vars
  BY <1>3, <1>9 DEF vars
<1> QED BY <1>4, <1>5, <1>6, <1>7, <1>8, <1>9 DEF Next

\* Every step keeps the invariant, if no address is used while it is being unmapped.
LEMMA NextIInv == "unmap" \notin Overlap /\ IInv /\ OpeningInv /\ [Next]_vars => IInv'
<1> SUFFICES ASSUME "unmap" \notin Overlap, IInv, OpeningInv, [Next]_vars PROVE IInv'
  OBVIOUS
<1>1. ASSUME NEW t \in Threads, Calls(t) PROVE IInv'
  <2>1. ASSUME NEW f \in Files, CreateFileW(t, f) PROVE IInv'
    BY <2>1, CreateFileWKeeps
  <2>2. ASSUME NEW h \in Handles, open[h] # Closed,
               NEW call \in {"query", "data", "image", "map", "close"}, Finds(t, call, h)
        PROVE  IInv'
    BY <2>2, FindsHandleKeeps
  <2>3. ASSUME NEW b \in Bases, view[b] # Closed, Finds(t, "unmap", b) PROVE IInv'
    BY <2>3, FindsBaseKeeps
  <2>4. \A h \in Handles : open[h].kind \in {"file", "data", "image"} \/ open[h] = Other
                             => open[h] # Closed
    BY DEF Closed, Other
  <2> QED BY <1>1, <2>1, <2>2, <2>3, <2>4 DEF Calls
<1>2. ASSUME NEW t \in Threads, Continues(t) PROVE IInv'
  <2>1. ASSUME NEW kind \in {"data", "image"}, CreateFileMappingW(t, kind) PROVE IInv'
    BY <2>1, CreateFileMappingWKeeps
  <2>2. CASE CreateEventW(t) \/ Inserts(t) \/ Answers(t) \/ MapsBytes(t)
    BY <2>2, CreateEventWKeeps, InsertsKeeps, AnswersKeeps
  <2>3. CASE MapsCopy(t) \/ OriginMapViewOfFileEx(t) \/ UnmapViewOfFile(t)
    BY <2>3, MapsCopyKeeps, OriginMapViewOfFileExKeeps, UnmapViewOfFileKeeps
  <2>4. CASE FreesViewEntry(t) \/ FreesHandleEntry(t) \/ OriginCloseHandle(t)
    BY <2>4, FreesViewEntryKeeps, FreesHandleEntryKeeps, OriginCloseHandleKeeps
  <2> QED BY <1>2, <2>1, <2>2, <2>3, <2>4 DEF Continues
<1> QED BY <1>1, <1>2, OthersKeep DEF Next

-----------------------------------------------------------------------------
(* The theorems.                                                           *)

\* The inductive invariant above holds in every reachable state of the hooks when no address
\* is used again while its unmapping is under way.
THEOREM IInvariance ==
  ASSUME "unmap" \notin Overlap
  PROVE  Spec => []IInv
<1>1. Init => IInv
  BY InitIInv
<1>2. Init => OpeningInv
  BY DEF Init, OpeningInv, Idle
<1>3. IInv /\ OpeningInv /\ [Next]_vars => IInv'
  BY NextIInv
<1>4. IInv /\ OpeningInv /\ [Next]_vars => OpeningInv'
  BY NextOpening
<1> QED BY <1>1, <1>2, <1>3, <1>4, PTL DEF Spec

\* What a search returns for an open handle that nobody is closing tells what the handle was
\* opened for, and so does what a thread in the middle of a call remembers of its search.
LEMMA IInvTells == IInv => HandleMeansItsModule
<1> SUFFICES ASSUME IInv PROVE HandleMeansItsModule
  OBVIOUS
<1>1. TypeInv /\ ListInv /\ ThreadInv /\ ExclusiveInv /\ HandleInv /\ HookInv
  BY DEF IInv
<1>2. ASSUME NEW h \in Handles
      PROVE  /\ HandleBare(h) /\ HandleKnown(h) /\ HandleDescribed(h) /\ HandleUsed(h)
             /\ open[h] = Closed \/ open[h] = Other \/ open[h] \in Modules
  BY <1>1 DEF HandleInv, TypeInv
<1>3. ASSUME NEW h \in Handles, NEW e \in Allocated, item[e].hObject = h
      PROVE  open[h] \in Modules /\ Tells(e, h)
  <2>1. open[h] \in Modules
    BY <1>2, <1>3 DEF HandleBare, Entered
  <2>2. Describes(item[e], h)
    BY <1>2, <1>3 DEF HandleDescribed
  <2> QED BY <2>1, <2>2 DEF Tells, Describes, Modules
<1>4. ASSUME NEW h \in Handles, open[h] = Other PROVE Tells(None, h)
  BY <1>4 DEF Tells, Other
<1>5. ASSUME NEW h \in Handles, open[h] # Closed, May("close", h)
      PROVE  Tells(MmpFindHandleEntry(h), h)
  <2>1. \A t \in Threads : at[t].new # h /\ ~Using(t, h)
    BY <1>5 DEF May, Using, LettingGo
  <2>2. CASE open[h] = Other
    <3>1. ~Entered(h)
      BY <1>2, <2>2 DEF HandleBare
    <3> QED BY <1>1, <1>4, <2>2, <3>1, FindEntry
  <2>3. CASE open[h] \in Modules
    <3>1. Entered(h)
      BY <1>2, <2>1, <2>3 DEF HandleKnown
    <3> QED BY <1>1, <1>3, <3>1, FindEntry
  <2> QED BY <1>2, <1>5, <2>2, <2>3
<1>6. ASSUME NEW t \in Threads, at[t].pc = "found", at[t].key \in Handles
      PROVE  Tells(at[t].iter, at[t].key) \/ (at[t].call = "close" /\ at[t].iter = None)
  <2>1. CASE at[t].iter = None
    BY <1>2, <1>4, <1>6, <2>1 DEF HandleUsed, Using
  <2>2. CASE at[t].iter # None
    BY <1>1, <1>3, <1>6, <2>2 DEF ThreadInv
  <2> QED BY <2>1, <2>2
<1> QED BY <1>5, <1>6 DEF HandleMeansItsModule

\* A handle means what it was opened for, to every search and until the end of every call
\* that searched for it, for any number of threads, handles and files.
THEOREM HandleMeansTheorem ==
  ASSUME "unmap" \notin Overlap
  PROVE  Spec => []HandleMeansItsModule
<1>1. Spec => []IInv
  BY IInvariance
<1> QED BY <1>1, IInvTells, PTL

\* An address has one entry when it is entered, and none otherwise.
LEMMA EntriesOfAddress ==
  ASSUME ListInv, NEW b
  PROVE  Cardinality({ e \in Allocated : item[e].hObject = b }) = IF Entered(b) THEN 1 ELSE 0
<1>1. CASE Entered(b)
  <2>1. PICK e \in Allocated : item[e].hObject = b
    BY <1>1 DEF Entered
  <2>2. { f \in Allocated : item[f].hObject = b } = {e}
    BY <2>1 DEF ListInv
  <2> QED BY <1>1, <2>2, FS_Singleton
<1>2. CASE ~Entered(b)
  <2>1. { f \in Allocated : item[f].hObject = b } = {}
    BY <1>2 DEF Entered
  <2> QED BY <1>2, <2>1, FS_EmptySet
<1> QED BY <1>1, <1>2

\* So an address is in the list exactly when its copy is mapped and entered or the
\* call that has just unmapped it has yet to remove it.
LEMMA IInvCopies == IInv => CopiesAreEntered
<1> SUFFICES ASSUME IInv, NEW b \in Bases
             PROVE  Cardinality({ e \in Allocated : item[e].hObject = b }) =
                      IF \/ \E t \in Threads : at[t].pc = "unmapped" /\ at[t].key = b
                         \/ /\ view[b].kind = "copy"
                            /\ ~\E t \in Threads : at[t].pc = "insert" /\ at[t].new = b
                      THEN 1 ELSE 0
  BY DEF CopiesAreEntered
<1>1. TypeInv /\ ListInv /\ ThreadInv /\ BaseBare(b) /\ BaseKnown(b) /\ BaseMade(b)
  BY DEF IInv, BaseInv
<1>2. b # None /\ (view[b] = Closed \/ view[b] = Other \/ view[b] \in Copies)
  BY <1>1, KeysAssumption DEF TypeInv
<1>3. view[b].kind = "copy" <=> view[b] \in Copies
  BY <1>2 DEF Closed, Other, Copies
<1>4. \A t \in Threads : at[t].new = b <=> at[t].pc = "insert" /\ at[t].new = b
  BY <1>1, <1>2 DEF ThreadInv
<1>5. ASSUME NEW t \in Threads, at[t].pc = "unmapped", at[t].key = b
      PROVE  Entered(b) /\ view[b] = Closed
  BY <1>1, <1>5 DEF ThreadInv, Entered
<1>6. Entered(b) <=> \/ \E t \in Threads : at[t].pc = "unmapped" /\ at[t].key = b
                     \/ /\ view[b].kind = "copy"
                        /\ ~\E t \in Threads : at[t].pc = "insert" /\ at[t].new = b
  <2>1. CASE view[b] \in Copies
    <3>1. view[b] # Closed
      BY <2>1 DEF Copies, Closed
    <3> QED BY <1>1, <1>3, <1>4, <1>5, <2>1, <3>1 DEF BaseKnown, BaseMade
  <2>2. CASE view[b] = Closed /\ ~(view[b] \in Copies)
    BY <1>1, <1>3, <1>5, <2>2 DEF BaseBare
  <2>3. CASE view[b] = Other /\ ~(view[b] \in Copies)
    <3>1. view[b] # Closed
      BY <2>3 DEF Other, Closed
    <3> QED BY <1>1, <1>3, <1>5, <2>3, <3>1 DEF BaseBare
  <2> QED BY <1>2, <2>1, <2>2, <2>3
<1> QED BY <1>1, <1>6, EntriesOfAddress

\* The addresses in the list are those of the mapped copies, one entry each, but for the one
\* being entered and the one being removed.
THEOREM CopiesTheorem ==
  ASSUME "unmap" \notin Overlap
  PROVE  Spec => []CopiesAreEntered
<1>1. Spec => []IInv
  BY IInvariance
<1> QED BY <1>1, IInvCopies, PTL

=============================================================================
