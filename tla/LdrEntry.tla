------------------------------ MODULE LdrEntry ------------------------------
(***************************************************************************)
(* The loader's entries among ntdll's modules (src/loader/LdrEntry.cpp and *)
(* BaseAddressIndex.cpp): the module lists, the red-black tree of bases,   *)
(* the rings of dependencies and the counts of the modules depended upon.  *)
(*                                                                         *)
(* The three lists and the hash chain take and lose an entry together, so  *)
(* modules, a set, stands for all of them.  tree is the tree in order; its shape   *)
(* and colours belong to ntdll's routines.  A dependency is one heap block *)
(* that is a node of two circular lists, its owner's and its target's.     *)
(*                                                                         *)
(* LdrEntry.cpp's own LdrDataTableEntrySize and LdrpHashTable (lines 9 and *)
(* 10) are file statics that nothing assigns; the members of the same names*)
(* in the block of globals are found (Initialize.cpp:299 and 450), but not *)
(* handed over.  Two things follow.  The branches for the entries of Vista *)
(* and Windows 7 (174, 182 and 219), which compare the size, are never     *)
(* taken and are not here.  The allocation (105) and the hash chain (251)  *)
(* cannot work as they stand: the model is of the rest of the module, with *)
(* an entry large enough and a table that is there.                        *)
(***************************************************************************)
EXTENDS Integers, FiniteSets, SequencesExt

CONSTANTS
  Entries,    \* heap blocks that this loader's entries can occupy
  Natives,    \* modules of ntdll's own loader
  Blocks,     \* heap blocks for dependencies
  Bases,      \* addresses an image can be mapped at
  None,       \* a null pointer
  Versions,   \* Windows versions of the behaviours
  Overlap,    \* where ntdll's loader may run in a call: "free": while dependencies are
              \* freed; "ntdll": anywhere
  Faults,     \* "ddag": no memory for the DDAG node; "index": the tree was not found;
              \* "shared": native modules import each other
  MaxLoads    \* bound: explicit loads of a native module at one time

ASSUME BasesAssumption == Bases \subseteq Nat \ {0}
ASSUME VersionsAssumption == Versions \subseteq Nat
ASSUME HeapAssumption == /\ IsFiniteSet(Entries) /\ IsFiniteSet(Blocks)
                         /\ Entries \cap Natives = {}
                         /\ None \notin Entries \cup Blocks

Eight == 620  Ten == 1000

VARIABLES
  os,        \* WindowsVersion
  index,     \* LdrpModuleBaseAddressIndex is not null
  live,      \* allocated entries and loaded native modules
  base,      \* DllBase; 0 in what is not allocated
  modules,   \* the modules in InLoadOrderModuleList and the other lists
  tree,      \* the base-address index
  shared,    \* native modules in a cycle of imports: one DDAG node for all of the cycle
  ddag,      \* entries of this loader with a DDAG node
  owned, incoming,  \* the rings Dependencies and IncomingDependencies
  dep,       \* the allocated dependencies: owner and target
  load, depCount,   \* LoadCount and, on Windows 8, DependencyCount of native modules
  explicit,  \* history: loads of native modules that the host has not undone
  mapped,    \* history: entries that LdrMapDllMemory returned and nobody freed
  stray,     \* history: freed entries that are still in the tree
  crashed,   \* the process has ended itself by __fastfail
  call       \* the call under way

treeVars == <<modules, tree>>
ringVars == <<owned, incoming, dep>>
countVars == <<load, depCount, explicit>>
vars == <<os, index, shared, live, base, treeVars, ddag, ringVars, countVars, mapped,
          stray, crashed, call>>

-----------------------------------------------------------------------------
Nodes == Entries \cup Natives

HasTree == os >= Eight

Idle == [pc |-> "idle", entry |-> None, at |-> 0, first |-> None]

\* Behind a stray node the program's state is undefined.
Defined == ~crashed /\ stray = {}
Free == Defined /\ call.pc = "idle"
NtdllRuns == /\ Defined
             /\ \/ call.pc = "idle" \/ "ntdll" \in Overlap
                \/ call.pc \in {"dependencies", "release"} /\ "free" \in Overlap

FreeBases == Bases \ ({ base[x] : x \in live } \cup {call.at})

\* Mutant: RtlRbInsertNodeEx is told the wrong side.
IsGapOnOtherSide(key, g) ==
  /\ g > 1 => base[tree[g - 1]] > key
  /\ g <= Len(tree) => key > base[tree[g]]

\* A new node ends in a gap whose neighbours, both on the path of the search,
\* compared below and above the key.
IsGap(key, g) ==
  /\ g > 1 => base[tree[g - 1]] < key
  /\ g <= Len(tree) => key < base[tree[g]]

TreeWith(x, key) ==
  { InsertAt(tree, g, x) : g \in { h \in 1 .. Len(tree) + 1 : IsGap(key, h) } }

Ring == [head : [Nodes -> Blocks \cup {None}], next : [Blocks -> Blocks \cup {None}]]
NoRings == [head |-> [x \in Nodes |-> None], next |-> [b \in Blocks |-> None]]

\* ntdll puts a block behind the one that the list names, which is its head or tail.
RingsWith(ring, x, b) ==
  LET h == ring.head[x] IN
  IF h = None
  THEN { [head |-> [ring.head EXCEPT ![x] = b], next |-> [ring.next EXCEPT ![b] = b]] }
  ELSE { [head |-> [ring.head EXCEPT ![x] = k],
          next |-> [ring.next EXCEPT ![b] = ring.next[h], ![h] = b]] : k \in {h, b} }

\* The block reached from the one that the list names in k steps.
Reached(ring, x) ==
  LET at[k \in 0 .. Cardinality(Blocks)] ==
        IF k = 0 THEN ring.head[x]
        ELSE IF at[k - 1] = None THEN None ELSE ring.next[at[k - 1]]
  IN at

-----------------------------------------------------------------------------
(* ntdll and the host program.                                             *)

NtdllLoads(n) ==
  /\ NtdllRuns
  /\ explicit[n] < MaxLoads
  /\ explicit' = [explicit EXCEPT ![n] = @ + 1]
  /\ load' = [load EXCEPT ![n] = @ + 1]
  /\ IF n \in live THEN UNCHANGED <<live, base, treeVars>>
     ELSE \E b \in FreeBases :
            /\ live' = live \cup {n}
            /\ base' = [base EXCEPT ![n] = b]
            /\ modules' = modules \cup {n}
            /\ IF HasTree THEN tree' \in TreeWith(n, b) ELSE UNCHANGED tree
  /\ UNCHANGED <<os, index, shared, ddag, ringVars, depCount, mapped, stray, crashed, call>>

\* ntdll takes a module down when neither loads nor dependencies hold it.
Settled(n, l, d) ==
  /\ load' = [load EXCEPT ![n] = l]
  /\ depCount' = [depCount EXCEPT ![n] = d]
  /\ IF l = 0 /\ d = 0
     THEN /\ live' = live \ {n}
          /\ modules' = modules \ {n}
          /\ tree' = RemoveFirst(tree, n)
          /\ base' = [base EXCEPT ![n] = 0]
     ELSE UNCHANGED <<live, base, treeVars>>

LdrUnloadDll(n) == Settled(n, load[n] - 1, depCount[n])

HostFrees(n) ==
  /\ NtdllRuns
  /\ explicit[n] > 0
  /\ explicit' = [explicit EXCEPT ![n] = @ - 1]
  /\ LdrUnloadDll(n)
  /\ UNCHANGED <<os, index, shared, ddag, ringVars, mapped, stray, crashed, call>>

\* An import or a forwarded export of a module of this loader: ntdll records each
\* target once.
RecordDependency(e, n, b) ==
  /\ NtdllRuns /\ HasTree
  /\ e \in mapped /\ n \in live /\ b \notin DOMAIN dep
  /\ \A c \in DOMAIN dep : dep[c] # [owner |-> e, target |-> n]
  /\ owned' \in RingsWith(owned, e, b)
  /\ incoming' \in RingsWith(incoming, n, b)
  /\ dep' = [c \in DOMAIN dep \cup {b} |-> IF c = b THEN [owner |-> e, target |-> n] ELSE dep[c]]
  /\ IF os < Ten
     THEN depCount' = [depCount EXCEPT ![n] = @ + 1] /\ UNCHANGED load
     ELSE load' = [load EXCEPT ![n] = @ + 1] /\ UNCHANGED depCount
  /\ UNCHANGED <<os, index, shared, live, base, treeVars, ddag, explicit, mapped, stray, crashed,
                 call>>

-----------------------------------------------------------------------------
(* LdrMapDllMemory.                                                        *)

\* A zeroed entry for an image that has just been mapped.
RtlAllocateDataTableEntry(e, b) ==
  /\ Free
  /\ e \notin live /\ b \in FreeBases
  /\ live' = live \cup {e}
  /\ base' = [base EXCEPT ![e] = 0]
  /\ call' = [Idle EXCEPT !.pc = IF HasTree THEN "index" ELSE "fields", !.entry = e, !.at = b]
  /\ UNCHANGED <<os, index, shared, treeVars, ddag, ringVars, countVars, mapped, stray, crashed>>

\* The node goes in by the image's base while its own DllBase is still zero.
RtlInsertModuleBaseAddressIndexNode ==
  /\ Defined /\ call.pc = "index" /\ index
  /\ tree' \in TreeWith(call.entry, call.at)
  /\ call' = [call EXCEPT !.pc = "ddag"]
  /\ UNCHANGED <<os, index, shared, live, base, modules, ddag, ringVars, countVars, mapped, stray,
                 crashed>>

\* Without the tree the initialisation fails and LdrMapDllMemory frees the entry;
IndexRefused ==
  /\ Defined /\ call.pc = "index" /\ ~index
  /\ live' = live \ {call.entry}
  /\ call' = Idle
  /\ UNCHANGED <<os, index, shared, base, treeVars, ddag, ringVars, countVars, mapped, stray,
                 crashed>>

DdagAllocated ==
  /\ Defined /\ call.pc = "ddag"
  /\ ddag' = ddag \cup {call.entry}
  /\ call' = [call EXCEPT !.pc = "fields"]
  /\ UNCHANGED <<os, index, shared, live, base, treeVars, ringVars, countVars, mapped, stray,
                 crashed>>

\* and so it does without a DDAG node, but leaves it in the tree.
DdagRefused ==
  /\ Defined /\ call.pc = "ddag" /\ "ddag" \in Faults
  /\ live' = live \ {call.entry}
  /\ stray' = stray \cup {call.entry}
  /\ call' = Idle
  /\ UNCHANGED <<os, index, shared, base, treeVars, ddag, ringVars, countVars, mapped, crashed>>

\* The rest of the initialisation.
RtlInitializeLdrDataTableEntry ==
  /\ Defined /\ call.pc = "fields"
  /\ base' = [base EXCEPT ![call.entry] = call.at]
  /\ call' = [call EXCEPT !.pc = "link"]
  /\ UNCHANGED <<os, index, shared, live, treeVars, ddag, ringVars, countVars, mapped, stray,
                 crashed>>

RtlInsertMemoryTableEntry ==
  /\ Defined /\ call.pc = "link"
  /\ modules' = modules \cup {call.entry}
  /\ mapped' = mapped \cup {call.entry}
  /\ call' = Idle
  /\ UNCHANGED <<os, index, shared, live, base, tree, ddag, ringVars, countVars, stray, crashed>>

-----------------------------------------------------------------------------
(* RtlFreeLdrDataTableEntry.                                               *)

RtlFreeLdrDataTableEntry(e) ==
  /\ Free /\ e \in mapped
  /\ mapped' = mapped \ {e}
  /\ call' = [Idle EXCEPT !.entry = e, !.first = owned.head[e],
                !.pc = IF owned.head[e] # None THEN "dependencies" ELSE "remove"]
  /\ UNCHANGED <<os, index, shared, live, base, treeVars, ddag, ringVars, countVars, stray,
                 crashed>>

\* The first block with the owner's mark on the walk through the target's ring.
OwnBlock(n, e) ==
  LET at == Reached(incoming, n)
      hits == { k \in DOMAIN at : at[k] # None /\ dep[at[k]].owner = e }
  IN at[CHOOSE k \in hits : \A j \in hits : k <= j]

\* Mutant: a head takes the rest of its ring with it.
UnlinkedWithRing(n, b) ==
  LET next == incoming.next
      before == CHOOSE c \in DOMAIN dep : dep[c].target = n /\ next[c] = b
  IN IF incoming.head[n] = b THEN [incoming EXCEPT !.head[n] = None, !.next[b] = None]
     ELSE [incoming EXCEPT !.next[before] = next[b], !.next[b] = None]

\* Mutant: the last node of the ring is not linked to the new head.
UnlinkedHeadOnly(n, b) ==
  LET next == incoming.next
      before == CHOOSE c \in DOMAIN dep : dep[c].target = n /\ next[c] = b
  IN IF next[b] = b THEN [incoming EXCEPT !.head[n] = None, !.next[b] = None]
     ELSE IF incoming.head[n] = b
          THEN [incoming EXCEPT !.head[n] = next[b], !.next[b] = None]
     ELSE [incoming EXCEPT !.next[before] = next[b], !.next[b] = None]

\* The three cases: a ring of one, the head, which is found again behind the last
\* node, and the others, behind the trailing pointer.
Unlinked(n, b) ==
  LET next == incoming.next
      before == CHOOSE c \in DOMAIN dep : dep[c].target = n /\ next[c] = b
  IN IF next[b] = b THEN [incoming EXCEPT !.head[n] = None, !.next[b] = None]
     ELSE [head |-> [incoming.head EXCEPT ![n] = IF @ = b THEN next[b] ELSE @],
           next |-> [next EXCEPT ![before] = next[b], ![b] = None]]

\* Mutant: Windows 8 does not take the module down with its last dependency.
ReleasedByCount(n) ==
  IF os < Ten
  THEN depCount' = [depCount EXCEPT ![n] = @ - 1] /\ UNCHANGED <<load, live, base, treeVars>>
  ELSE LdrUnloadDll(n)

\* Windows 8 counts dependencies apart; its LoadCount goes to one and back.
Released(n) ==
  IF os < Ten THEN Settled(n, load[n], depCount[n] - 1) ELSE LdrUnloadDll(n)

\* The dependency that is being freed, and its target.
Current == owned.head[call.entry]
Target == dep[Current].target

\* The tests of a round before the lock: the target's node holds other modules too,
\* it is not the node of the module that it leads to, nobody depends on it.
Corrupt(n) == n \in shared \/ n \notin live \/ incoming.head[n] = None

\* The test of a round on Windows 8 after the lock.
Uncounted(n) == os < Ten /\ depCount[n] = 0

FastFail ==
  /\ Defined
  /\ \/ call.pc = "dependencies" /\ Corrupt(Target)
     \/ call.pc = "release" /\ Uncounted(Target)
  /\ crashed' = TRUE
  /\ UNCHANGED <<os, index, shared, live, base, treeVars, ddag, ringVars, countVars, mapped, stray,
                 call>>

\* A round of RtlFreeDependencies takes the owner's block out of the target's ring under
\* the loader lock, for which it waits (line 39 fails only for bad arguments);
UnlinkDependency ==
  /\ Defined /\ call.pc = "dependencies" /\ ~Corrupt(Target)
  /\ incoming' = Unlinked(Target, OwnBlock(Target, call.entry))
  /\ call' = [call EXCEPT !.pc = "release"]
  /\ UNCHANGED <<os, index, shared, live, base, treeVars, ddag, owned, dep, countVars, mapped,
                 stray, crashed>>

\* then, without the lock, it releases the target and frees the block.
ReleaseDependency ==
  /\ Defined /\ call.pc = "release" /\ ~Uncounted(Target)
  /\ LET e == call.entry
         next == owned.next[Current]
     IN /\ Released(Target)
        /\ dep' = [c \in DOMAIN dep \ {Current} |-> dep[c]]
        /\ owned' = [owned EXCEPT !.head[e] = IF next = call.first THEN None ELSE next,
                                  !.next[Current] = None]
        /\ call' = [call EXCEPT !.pc = IF next = call.first THEN "remove" ELSE "dependencies"]
  /\ UNCHANGED <<os, index, shared, ddag, incoming, explicit, mapped, stray, crashed>>

\* The DDAG node goes, then the node in the tree, then the links and the entry.
Removed ==
  /\ Defined /\ call.pc = "remove"
  /\ ddag' = ddag \ {call.entry}
  /\ tree' = RemoveFirst(tree, call.entry)
  /\ modules' = modules \ {call.entry}
  /\ live' = live \ {call.entry}
  /\ base' = [base EXCEPT ![call.entry] = 0]
  /\ call' = Idle
  /\ UNCHANGED <<os, index, shared, ringVars, countVars, mapped, stray, crashed>>

-----------------------------------------------------------------------------
Init ==
  /\ os \in Versions
  /\ index \in { i \in BOOLEAN : i \/ "index" \in Faults }
  /\ live = {} /\ base = [x \in Nodes |-> 0]
  /\ modules = {} /\ tree = <<>>
  /\ shared \in { s \in SUBSET Natives : s # {} => "shared" \in Faults }
  /\ ddag = {}
  /\ owned = NoRings /\ incoming = NoRings
  /\ dep = [b \in {} |-> None]
  /\ load = [n \in Natives |-> 0] /\ depCount = [n \in Natives |-> 0]
  /\ explicit = [n \in Natives |-> 0]
  /\ mapped = {} /\ stray = {} /\ crashed = FALSE
  /\ call = Idle

NtdllStep ==
  \E n \in Natives :
    \/ NtdllLoads(n) \/ HostFrees(n)
    \/ \E e \in Entries, b \in Blocks : RecordDependency(e, n, b)

MapStep ==
  \/ \E e \in Entries, b \in Bases : RtlAllocateDataTableEntry(e, b)
  \/ RtlInsertModuleBaseAddressIndexNode \/ IndexRefused \/ DdagAllocated \/ DdagRefused
  \/ RtlInitializeLdrDataTableEntry \/ RtlInsertMemoryTableEntry

FreeStep ==
  \/ \E e \in Entries : RtlFreeLdrDataTableEntry(e)
  \/ UnlinkDependency \/ ReleaseDependency \/ FastFail \/ Removed

Next == NtdllStep \/ MapStep \/ FreeStep

Spec == Init /\ [][Next]_vars

-----------------------------------------------------------------------------
TypeOK ==
  /\ os \in Versions /\ index \in BOOLEAN
  /\ live \subseteq Nodes /\ base \in [Nodes -> Bases \cup {0}]
  /\ modules \subseteq Nodes /\ tree \in Seq(Nodes)
  /\ shared \subseteq Natives /\ ddag \subseteq Entries
  /\ owned \in Ring /\ incoming \in Ring
  /\ dep \in [DOMAIN dep -> [owner : Entries, target : Natives]] /\ DOMAIN dep \subseteq Blocks
  /\ load \in [Natives -> Nat] /\ depCount \in [Natives -> Nat] /\ explicit \in [Natives -> Nat]
  /\ mapped \subseteq Entries /\ stray \subseteq Entries /\ crashed \in BOOLEAN
  /\ call \in [pc : {"idle", "index", "ddag", "fields", "link", "dependencies", "release",
                     "remove"},
               entry : Entries \cup {None}, at : Bases \cup {0}, first : Blocks \cup {None}]

InOrder == \A i, j \in 1 .. Len(tree) : i < j => base[tree[i]] < base[tree[j]]

\* Between calls the lists and the tree hold each module once, the modules that
\* are loaded and no others, and the tree is in order of bases: ntdll's search by
\* address finds every module (LdrEntry.cpp:152-208, 214-245).
RegisteredOnce ==
  call.pc = "idle" /\ Defined =>
    /\ modules = mapped \cup (live \cap Natives)
    /\ HasTree => /\ InOrder
                  /\ IsInjective(tree) /\ ToSet(tree) = modules

\* S is the set of blocks of a circular list.
IsRing(ring, x, S) ==
  IF S = {} THEN ring.head[x] = None
  ELSE LET at == Reached(ring, x) IN
       /\ { at[k] : k \in 0 .. Cardinality(S) - 1 } = S
       /\ at[Cardinality(S)] = ring.head[x]

\* The block that is out of its target's ring and not yet freed.
Unhooked == { b \in DOMAIN dep : call.pc = "release" /\ b = Current }

\* Every module's two rings are circular lists of exactly its dependencies, while
\* dependencies of many owners on many targets come and go in any order, those that
\* ntdll records between the two halves of a round too; a walk through a ring ends and
\* meets no freed block (LdrEntry.cpp:36-72).
RingsAreWhole ==
  /\ \A n \in Natives : IsRing(incoming, n, { b \in DOMAIN dep \ Unhooked : dep[b].target = n })
  /\ \A e \in Entries : e # call.entry =>
       IsRing(owned, e, { b \in DOMAIN dep : dep[b].owner = e })

\* What this loader's entries hold of a native module.
Holds(n) == Cardinality({ b \in DOMAIN dep : dep[b].target = n })

\* A native module stays exactly while the host or an entry of this loader holds
\* it, and each entry gives back what ntdll recorded for it, no more and no less
\* (LdrEntry.cpp:74-88).
CountsMatch ==
  \A n \in Natives :
    /\ load[n] + depCount[n] = explicit[n] + Holds(n)
    /\ n \in live <=> explicit[n] + Holds(n) > 0

\* Taking an entry apart ends the process only where the entry depends on a module of
\* a cycle of imports (LdrEntry.cpp:28): whoever else depended on the target and gave
\* it back before, its node is there, its ring names somebody and its count is not
\* used up (LdrEntry.cpp:30, 31 and 78).
FastFailsOnCycleOnly == crashed => Target \in shared
=============================================================================
