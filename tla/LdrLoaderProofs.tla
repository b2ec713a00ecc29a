--------------------------- MODULE LdrLoaderProofs ---------------------------
(***************************************************************************)
(* Proofs about the life of a module when no two calls overlap: for every  *)
(* number of callers, images and modules, every choice of flags and every  *)
(* set of steps that fail.  Where an unload overlaps another call most of  *)
(* it is false, because nothing locks a count between its reading and its  *)
(* use.                                                                    *)
(***************************************************************************)
EXTENDS LdrLoader, FiniteSetTheorems, TLAPS

-----------------------------------------------------------------------------
(* The inductive invariant: where a call is tells what it did to its       *)
(* module; a module that no call is at work on is settled.                 *)

Without == {"idle", "lookup", "reserve"}
Making  == {"map", "import", "protect", "insert", "tls", "init"}
Giving  == {"unload", "dereference"}
Taking  == {"remove", "untls", "unlink", "free"}

Serial == \A c, d \in Callers : pc[c] # "idle" /\ pc[d] # "idle" => c = d

Settled(b) ==
  /\ mod[b].mem = "live" => /\ handles[b] > 0 /\ mod[b].initialized /\ ~mod[b].underUnload
                            /\ mod[b].counted => mod[b].refs = handles[b]
                            /\ ~mod[b].counted => handles[b] = 1 /\ mod[b].refs = 1
  /\ mod[b].mem # "live" => handles[b] = 0

\* Of a module that a load is making.
InMaking(c, b) ==
  /\ handles[b] = 0 /\ mod[b].refs = 1 /\ ~mod[b].underUnload
  /\ mod[b].mapped <=> pc[c] # "map" /\ ~Has(c, "NOT_MAP_DLL")
  /\ mod[b].counted => pc[c] \in {"insert", "tls", "init"}
  /\ pc[c] \in {"map", "insert", "tls"} => ~Has(c, "NOT_MAP_DLL")
  /\ pc[c] = "map" => mod[b].named = call[c].named /\ mod[b].image = call[c].image

\* Of one that an unload, or a load that failed, gives a reference to back.
GivenUp(c, b) ==
  /\ ~mod[b].underUnload
  /\ handles[b] > 0 => mod[b].initialized
  /\ mod[b].counted => mod[b].refs = handles[b] + 1
  /\ ~mod[b].counted => handles[b] = 0 /\ mod[b].refs = 1
  /\ pc[c] = "dereference" => mod[b].counted /\ handles[b] > 0
  /\ call[c].kind = "unload" => mod[b].initialized

CallInv(c) ==
  /\ pc[c] \in Without <=> Base(c) = None
  /\ Base(c) # None => mod[Base(c)].mem = "live"
  /\ pc[c] \in {"lookup", "reserve"} \cup Making => call[c].kind = "load"
  /\ pc[c] = "reference" => mod[Base(c)].counted /\ Settled(Base(c))
  /\ pc[c] \in Making => InMaking(c, Base(c))
  /\ pc[c] \in Giving => GivenUp(c, Base(c))
  /\ pc[c] \in Taking => mod[Base(c)].underUnload /\ handles[Base(c)] = 0

BaseInv(b) ==
  /\ (\A c \in Callers : Base(c) # b) => Settled(b)
  /\ mod[b].counted => mod[b].mem = "live" /\ mod[b].mapped

\* What a taking down has passed: register k does not list the module any more.
Passed(c, k) ==
  \/ k = "inverted" /\ pc[c] \in {"untls", "unlink", "free"}
  \/ k = "tls" /\ pc[c] \in {"unlink", "free"}
  \/ k \in {"list", "index"} /\ pc[c] = "free"

RegInv(k, b) ==
  /\ b \in reg[k] /\ <<k, b>> \notin orphans =>
       /\ mod[b].mem = "live" /\ mod[b].mapped
       /\ k = "inverted" => mod[b].inverted
       /\ k = "tls" => mod[b].tls
       /\ \A c \in Callers : Base(c) = b => ~Passed(c, k)
  /\ k = "list" => <<k, b>> \notin orphans

\* A named load found no module of its name.
NameInv ==
  /\ OneModulePerImage
  /\ \A c \in Callers : pc[c] \in {"reserve", "map"} /\ call[c].named => Matching(c) = {}

IInv ==
  /\ TypeOK /\ Serial /\ NameInv
  /\ \A c \in Callers : CallInv(c)
  /\ \A b \in Bases : BaseInv(b)
  /\ \A k \in Registers, b \in Bases : RegInv(k, b)

\* What a call leaves alone.
OthersIdle(c) == \A d \in Callers \ {c} : pc[d] = "idle"

Touches(c, b) ==
  /\ \A d \in Callers \ {c} : pc'[d] = pc[d] /\ call'[d] = call[d]
  /\ \A e \in Bases \ {b} :
       /\ mod'[e] = mod[e] /\ handles'[e] = handles[e]
       /\ \A k \in Registers : /\ e \in reg'[k] <=> e \in reg[k]
                               /\ <<k, e>> \in orphans' <=> <<k, e>> \in orphans

NamesKept(c) ==
  /\ \A e \in reg'["list"] : /\ e \in reg["list"]
                             /\ mod'[e].named = mod[e].named /\ mod'[e].image = mod[e].image
  /\ pc'[c] \in {"reserve", "map"} /\ call'[c].named => Matching(c)' = {}

\* A call that is under way, or that starts, is alone.
LEMMA Alone ==
  ASSUME Overlap = {}, IInv, NEW c \in Callers, NEW kind,
         pc[c] # "idle" \/ MayStart(kind)
  PROVE  OthersIdle(c)
BY DEF IInv, Serial, MayStart, OthersIdle

\* It is enough to look at the call that takes the step and at its module.
LEMMA OneModuleAtATime ==
  ASSUME IInv, NEW c \in Callers, NEW b, OthersIdle(c), Touches(c, b),
         Base(c) \in {b, None}, Base(c)' \in {b, None}, b \in Bases \cup {None},
         TypeOK', NameInv', CallInv(c)',
         b \in Bases => BaseInv(b)' /\ \A k \in Registers : RegInv(k, b)'
  PROVE  IInv'
<1> USE NoneAssumption
<1>1. Serial'
  BY DEF Serial, OthersIdle, Touches
<1>2. \A d \in Callers \ {c} : Base(d) = None /\ Base(d)' = None /\ pc'[d] = "idle"
  BY DEF IInv, CallInv, Without, OthersIdle, Touches, Base
<1>3. \A d \in Callers : CallInv(d)'
  BY <1>2 DEF CallInv, Without, Making, Giving, Taking
<1>4. ASSUME NEW e \in Bases \ {b} PROVE BaseInv(e)'
  <2>1. (\A d \in Callers : Base(d)' # e) => \A d \in Callers : Base(d) # e
    BY <1>2
  <2>2. BaseInv(e)
    BY DEF IInv
  <2> QED BY <1>4, <2>1, <2>2 DEF BaseInv, Settled, Touches
<1>5. ASSUME NEW e \in Bases \ {b}, NEW k \in Registers PROVE RegInv(k, e)'
  <2>1. \A d \in Callers : Base(d)' # e
    BY <1>2
  <2>2. RegInv(k, e)
    BY DEF IInv
  <2> QED BY <1>5, <2>1, <2>2 DEF RegInv, Touches
<1>6. \A e \in Bases : BaseInv(e)'
  BY <1>4
<1>7. \A k \in Registers, e \in Bases : RegInv(k, e)'
  BY <1>5
<1> QED BY <1>1, <1>3, <1>6, <1>7 DEF IInv

LEMMA NamesStay ==
  ASSUME IInv, NEW c \in Callers, OthersIdle(c), NEW b, Touches(c, b), NamesKept(c)
  PROVE  NameInv'
<1>1. OneModulePerImage'
  BY DEF IInv, NameInv, OneModulePerImage, NamesKept
<1>2. \A d \in Callers \ {c} : pc'[d] \notin {"reserve", "map"}
  BY DEF OthersIdle, Touches
<1> QED BY <1>1, <1>2 DEF NameInv, NamesKept

\* What is known of the module of the call that takes the step.
LEMMA OfTheCall ==
  ASSUME Overlap = {}, IInv, NEW c \in Callers, pc[c] \notin Without
  PROVE  /\ OthersIdle(c) /\ CallInv(c)
         /\ Base(c) \in Bases /\ mod[Base(c)].mem = "live"
         /\ BaseInv(Base(c)) /\ \A k \in Registers : RegInv(k, Base(c))
<1>1. pc[c] # "idle"
  BY DEF Without
<1>2. OthersIdle(c)
  BY <1>1, Alone
<1>3. Base(c) \in Bases /\ mod[Base(c)].mem = "live"
  BY DEF IInv, CallInv, TypeOK, CallType, Base
<1> QED BY <1>2, <1>3 DEF IInv

\* A call that is over, and a module that is freed.
LEMMA FreedModule ==
  /\ NoCall \in CallType /\ NoCall.base = None
  /\ NoModule \in ModuleType /\ [NoModule EXCEPT !.mem = "freed"] \in ModuleType
<1>1. NoCall \in CallType /\ NoCall.base = None
  BY DEF NoCall, CallType
<1>2. NoModule \in ModuleType
  BY DEF NoModule, ModuleType
<1>3. [NoModule EXCEPT !.mem = "freed"] \in ModuleType
  BY <1>2 DEF ModuleType
<1> QED BY <1>1, <1>2, <1>3

-----------------------------------------------------------------------------
(* One lemma for each action of a call that has a module.  The first four   *)
(* steps say what is known before, the others what OneModuleAtATime asks.  *)

LEMMA RtlUpdateReferenceCountStep ==
  ASSUME Overlap = {}, IInv, NEW c \in Callers, RtlUpdateReferenceCount(c)
  PROVE  IInv'
<1> USE NoneAssumption DEF RtlUpdateReferenceCount, Goes, Returns
<1>1. pc[c] \notin Without
  BY DEF Without
<1>2. PICK b \in Bases : b = Base(c)
  BY <1>1, OfTheCall
<1>3. /\ OthersIdle(c) /\ CallInv(c) /\ mod[b].mem = "live"
      /\ BaseInv(b) /\ \A k \in Registers : RegInv(k, b)
  BY <1>1, <1>2, OfTheCall
<1>4. TypeOK
  BY DEF IInv
<1>5. TypeOK'
  <2>1. [mod[b] EXCEPT !.refs = @ + 1] \in ModuleType
    <3>1. PICK m \in ModuleType : m = mod[b]
      BY <1>4 DEF TypeOK
    <3> HIDE DEF RtlUpdateReferenceCount
    <3>2. m.refs + 1 \in Nat \ {0}
      BY DEF ModuleType
    <3>3. [m EXCEPT !.refs = m.refs + 1] \in ModuleType
      BY <3>2 DEF ModuleType
    <3> QED BY <3>1, <3>3
  <2>2. mod' \in [Bases -> ModuleType]
    BY <1>2, <1>4, <2>1 DEF TypeOK
  <2>3. handles' \in [Bases -> Nat]
    BY <1>2, <1>4 DEF TypeOK
  <2> QED BY <1>4, <2>2, <2>3, FreedModule DEF TypeOK
<1>6. Touches(c, b) /\ Base(c)' \in {b, None}
  BY <1>2, <1>4, FreedModule DEF TypeOK, Touches, Base
<1>7. CallInv(c)'
  BY <1>4, FreedModule DEF TypeOK, CallInv, Without, Making, Giving, Taking, Base
<1>8. BaseInv(b)'
  BY <1>2, <1>3, <1>4 DEF TypeOK, CallInv, BaseInv, Settled
<1>9. ASSUME NEW k \in Registers PROVE RegInv(k, b)'
  BY <1>3, <1>4 DEF TypeOK, RegInv, Passed, Base
<1>10. NamesKept(c)
  BY <1>4 DEF TypeOK, NamesKept
<1>11. NameInv'
  BY <1>3, <1>6, <1>10, NamesStay
<1> QED BY <1>2, <1>3, <1>5, <1>6, <1>7, <1>8, <1>9, <1>11, OneModuleAtATime

LEMMA CountUnreadableStep ==
  ASSUME Overlap = {}, IInv, NEW c \in Callers, CountUnreadable(c)
  PROVE  IInv'
<1> USE NoneAssumption DEF CountUnreadable, Goes, Returns
<1>1. pc[c] \notin Without
  BY DEF Without
<1>2. PICK b \in Bases : b = Base(c)
  BY <1>1, OfTheCall
<1>3. /\ OthersIdle(c) /\ CallInv(c) /\ mod[b].mem = "live"
      /\ BaseInv(b) /\ \A k \in Registers : RegInv(k, b)
  BY <1>1, <1>2, OfTheCall
<1>4. TypeOK
  BY DEF IInv
<1>5. TypeOK'
  BY <1>2, <1>4, FreedModule DEF TypeOK, UnloadPc
<1>6. Touches(c, b) /\ Base(c)' \in {b, None}
  BY <1>2, <1>4, FreedModule DEF TypeOK, Touches, Base
<1>7. CallInv(c)'
  BY <1>4, FreedModule DEF TypeOK, CallInv, Without, Making, Giving, Taking, Base
<1>8. BaseInv(b)'
  BY <1>2, <1>3, <1>4 DEF TypeOK, CallInv, BaseInv, GivenUp, Giving, Settled
<1>9. ASSUME NEW k \in Registers PROVE RegInv(k, b)'
  BY <1>3, <1>4 DEF TypeOK, RegInv, Passed, Base
<1>10. NamesKept(c)
  BY <1>4 DEF TypeOK, NamesKept
<1>11. NameInv'
  BY <1>3, <1>6, <1>10, NamesStay
<1> QED BY <1>2, <1>3, <1>5, <1>6, <1>7, <1>8, <1>9, <1>11, OneModuleAtATime

LEMMA LdrMapDllMemoryStep ==
  ASSUME Overlap = {}, IInv, NEW c \in Callers, LdrMapDllMemory(c)
  PROVE  IInv'
<1> USE NoneAssumption DEF LdrMapDllMemory, Goes
<1>1. pc[c] \notin Without
  BY DEF Without
<1>2. PICK b \in Bases : b = Base(c)
  BY <1>1, OfTheCall
<1>3. /\ OthersIdle(c) /\ CallInv(c) /\ mod[b].mem = "live"
      /\ BaseInv(b) /\ \A k \in Registers : RegInv(k, b)
  BY <1>1, <1>2, OfTheCall
<1>4. TypeOK
  BY DEF IInv
<1>5. TypeOK'
  <2>1. [mod[b] EXCEPT !.mapped = TRUE] \in ModuleType
    BY <1>4, FreedModule DEF TypeOK, ModuleType
  <2>2. mod' \in [Bases -> ModuleType]
    BY <1>2, <1>4, <2>1 DEF TypeOK
  <2> QED BY <1>2, <1>4, <2>2 DEF TypeOK, LoadPc
<1>6. Touches(c, b) /\ Base(c)' \in {b, None}
  BY <1>2, <1>4 DEF Touches, TypeOK, Base
<1>7. CallInv(c)'
  BY <1>2, <1>3, <1>4 DEF TypeOK, CallInv, InMaking, GivenUp, Without, Making, Taking, Base, Has
<1>8. BaseInv(b)'
  BY <1>2, <1>3, <1>4 DEF TypeOK, BaseInv, Base
<1>9. ASSUME NEW k \in Registers PROVE RegInv(k, b)'
  BY <1>3, <1>4 DEF TypeOK, RegInv, Passed, OthersIdle
<1>10. NameInv'
  <2>1. /\ \A e \in Bases : mod'[e].named = mod[e].named /\ mod'[e].image = mod[e].image
        /\ reg'["list"] = reg["list"] \cup {b} /\ reg["list"] \subseteq Bases
        /\ mod[b].named = call[c].named /\ mod[b].image = call[c].image
    BY <1>2, <1>3, <1>4 DEF TypeOK, Registers, CallInv, InMaking, Making
  <2>2. OneModulePerImage'
    BY <2>1 DEF IInv, NameInv, OneModulePerImage, Matching
  <2>3. \A d \in Callers : pc'[d] \notin {"reserve", "map"}
    BY <1>3, <1>4 DEF OthersIdle, TypeOK
  <2> QED BY <2>2, <2>3 DEF NameInv
<1> QED BY <1>2, <1>3, <1>5, <1>6, <1>7, <1>8, <1>9, <1>10, OneModuleAtATime

LEMMA MemoryResolveImportTableStep ==
  ASSUME Overlap = {}, IInv, NEW c \in Callers, MemoryResolveImportTable(c)
  PROVE  IInv'
<1> USE NoneAssumption DEF MemoryResolveImportTable, Goes
<1>1. pc[c] \notin Without
  BY DEF Without
<1>2. PICK b \in Bases : b = Base(c)
  BY <1>1, OfTheCall
<1>3. /\ OthersIdle(c) /\ CallInv(c) /\ mod[b].mem = "live"
      /\ BaseInv(b) /\ \A k \in Registers : RegInv(k, b)
  BY <1>1, <1>2, OfTheCall
<1>4. TypeOK
  BY DEF IInv
<1>5. TypeOK'
  BY <1>4 DEF TypeOK, LoadPc
<1>6. Touches(c, b) /\ Base(c)' \in {b, None}
  BY <1>2, <1>4 DEF TypeOK, Touches, Base
<1>7. CallInv(c)'
  BY <1>3, <1>4 DEF TypeOK, CallInv, InMaking, GivenUp, Without, Making, Taking, Base, Has
<1>8. BaseInv(b)'
  BY <1>2, <1>3, <1>4 DEF TypeOK, BaseInv, Base
<1>9. ASSUME NEW k \in Registers PROVE RegInv(k, b)'
  BY <1>3, <1>4 DEF TypeOK, RegInv, Passed, Base
<1>10. NamesKept(c)
  BY <1>4 DEF TypeOK, NamesKept
<1>11. NameInv'
  BY <1>3, <1>6, <1>10, NamesStay
<1> QED BY <1>2, <1>3, <1>5, <1>6, <1>7, <1>8, <1>9, <1>11, OneModuleAtATime

LEMMA MemorySetSectionProtectionStep ==
  ASSUME Overlap = {}, IInv, NEW c \in Callers, MemorySetSectionProtection(c)
  PROVE  IInv'
<1> USE NoneAssumption DEF MemorySetSectionProtection, Goes
<1>1. pc[c] \notin Without
  BY DEF Without
<1>2. PICK b \in Bases : b = Base(c)
  BY <1>1, OfTheCall
<1>3. /\ OthersIdle(c) /\ CallInv(c) /\ mod[b].mem = "live"
      /\ BaseInv(b) /\ \A k \in Registers : RegInv(k, b)
  BY <1>1, <1>2, OfTheCall
<1>4. TypeOK
  BY DEF IInv
<1>5. TypeOK'
  <2>1. [mod[b] EXCEPT !.counted =
           ~Has(c, "NOT_MAP_DLL") /\ ~Has(c, "NOT_USE_REFERENCE_COUNT")] \in ModuleType
    BY <1>4, FreedModule DEF TypeOK, ModuleType
  <2>2. mod' \in [Bases -> ModuleType]
    BY <1>2, <1>4, <2>1 DEF TypeOK
  <2> QED BY <1>4, <2>2 DEF TypeOK, LoadPc
<1>6. Touches(c, b) /\ Base(c)' \in {b, None}
  BY <1>2, <1>4 DEF TypeOK, Touches, Base
<1>7. CallInv(c)'
  BY <1>3, <1>4 DEF TypeOK, CallInv, InMaking, GivenUp, Without, Making, Taking, Base, Has
<1>8. BaseInv(b)'
  BY <1>2, <1>3, <1>4 DEF TypeOK, ModuleType, CallInv, BaseInv, InMaking, Making, Base
<1>9. ASSUME NEW k \in Registers PROVE RegInv(k, b)'
  BY <1>3, <1>4 DEF TypeOK, RegInv, Passed, Base
<1>10. NamesKept(c)
  BY <1>4 DEF TypeOK, NamesKept
<1>11. NameInv'
  BY <1>3, <1>6, <1>10, NamesStay
<1> QED BY <1>2, <1>3, <1>5, <1>6, <1>7, <1>8, <1>9, <1>11, OneModuleAtATime

LEMMA RtlInsertInvertedFunctionTableStep ==
  ASSUME Overlap = {}, IInv, NEW c \in Callers, RtlInsertInvertedFunctionTable(c)
  PROVE  IInv'
<1> USE NoneAssumption DEF RtlInsertInvertedFunctionTable, Goes, Registered
<1>1. pc[c] \notin Without
  BY DEF Without
<1>2. PICK b \in Bases : b = Base(c)
  BY <1>1, OfTheCall
<1>3. /\ OthersIdle(c) /\ CallInv(c) /\ mod[b].mem = "live"
      /\ BaseInv(b) /\ \A k \in Registers : RegInv(k, b)
  BY <1>1, <1>2, OfTheCall
<1>4. TypeOK
  BY DEF IInv
<1>5. TypeOK'
  <2>1. [mod[b] EXCEPT !.inverted = TRUE] \in ModuleType
    BY <1>4, FreedModule DEF TypeOK, ModuleType
  <2>2. mod' \in [Bases -> ModuleType]
    BY <1>2, <1>4, <2>1 DEF TypeOK
  <2> QED BY <1>2, <1>4, <2>2 DEF TypeOK, LoadPc
<1>6. Touches(c, b) /\ Base(c)' \in {b, None}
  BY <1>2, <1>4 DEF Touches, TypeOK, Base
<1>7. CallInv(c)'
  BY <1>3, <1>4
     DEF TypeOK, ModuleType, CallInv, Settled, InMaking, GivenUp, Without, Making, Giving,
         Taking, Base, Has
<1>8. BaseInv(b)'
  BY <1>2, <1>3, <1>4 DEF TypeOK, ModuleType, BaseInv, InMaking, GivenUp, Base
<1>9. /\ mod'[b].mem = mod[b].mem /\ mod'[b].mapped = mod[b].mapped /\ mod'[b].tls = mod[b].tls
     /\ \/ mod' = mod /\ reg' = reg
        \/ mod'[b].inverted /\ \A k \in Registers \ {"inverted"} : reg'[k] = reg[k]
  BY <1>2, <1>4 DEF TypeOK, ModuleType, Base
<1>10. ASSUME NEW k \in Registers PROVE RegInv(k, b)'
  BY <1>2, <1>3, <1>4, <1>9 DEF TypeOK, CallInv, RegInv, Passed, InMaking, Making, OthersIdle
<1>11. NamesKept(c)
  BY <1>3, <1>4 DEF NamesKept, TypeOK, ModuleType, Registers, Making
<1>12. NameInv'
  BY <1>3, <1>6, <1>11, NamesStay
<1> QED BY <1>2, <1>3, <1>5, <1>6, <1>7, <1>8, <1>10, <1>12, OneModuleAtATime

LEMMA MmpHandleTlsDataStep ==
  ASSUME Overlap = {}, IInv, NEW c \in Callers, MmpHandleTlsData(c)
  PROVE  IInv'
<1> USE NoneAssumption DEF MmpHandleTlsData, Goes, Registered
<1>1. pc[c] \notin Without
  BY DEF Without
<1>2. PICK b \in Bases : b = Base(c)
  BY <1>1, OfTheCall
<1>3. /\ OthersIdle(c) /\ CallInv(c) /\ mod[b].mem = "live"
      /\ BaseInv(b) /\ \A k \in Registers : RegInv(k, b)
  BY <1>1, <1>2, OfTheCall
<1>4. TypeOK
  BY DEF IInv
<1>5. TypeOK'
  <2>1. [mod[b] EXCEPT !.tls = TRUE] \in ModuleType
    BY <1>4, FreedModule DEF TypeOK, ModuleType
  <2>2. mod' \in [Bases -> ModuleType]
    BY <1>2, <1>4, <2>1 DEF TypeOK
  <2> QED BY <1>2, <1>4, <2>2 DEF TypeOK, LoadPc
<1>6. Touches(c, b) /\ Base(c)' \in {b, None}
  BY <1>2, <1>4 DEF Touches, TypeOK, Base
<1>7. CallInv(c)'
  BY <1>3, <1>4
     DEF TypeOK, ModuleType, CallInv, Settled, InMaking, GivenUp, Without, Making, Giving,
         Taking, Base, Has
<1>8. BaseInv(b)'
  BY <1>2, <1>3, <1>4 DEF TypeOK, ModuleType, BaseInv, Base, Has
<1>9. /\ mod'[b].mem = mod[b].mem
      /\ mod'[b].mapped = mod[b].mapped /\ mod'[b].inverted = mod[b].inverted
     /\ \/ mod' = mod /\ reg' = reg
        \/ mod'[b].tls /\ \A k \in Registers \ {"tls"} : reg'[k] = reg[k]
  BY <1>2, <1>4 DEF TypeOK, ModuleType, Base
<1>10. ASSUME NEW k \in Registers PROVE RegInv(k, b)'
  BY <1>2, <1>3, <1>4, <1>9 DEF TypeOK, CallInv, RegInv, Passed, InMaking, Making, OthersIdle
<1>11. NamesKept(c)
  BY <1>4 DEF NamesKept, TypeOK, ModuleType, Registers, Making
<1>12. NameInv'
  BY <1>3, <1>6, <1>11, NamesStay
<1> QED BY <1>2, <1>3, <1>5, <1>6, <1>7, <1>8, <1>10, <1>12, OneModuleAtATime

LEMMA LdrpCallInitializersStep ==
  ASSUME Overlap = {}, IInv, NEW c \in Callers, LdrpCallInitializers(c)
  PROVE  IInv'
<1> USE NoneAssumption DEF LdrpCallInitializers, Goes, Returns
<1>1. pc[c] \notin Without
  BY DEF Without
<1>2. PICK b \in Bases : b = Base(c)
  BY <1>1, OfTheCall
<1>3. /\ OthersIdle(c) /\ CallInv(c) /\ mod[b].mem = "live"
      /\ BaseInv(b) /\ \A k \in Registers : RegInv(k, b)
  BY <1>1, <1>2, OfTheCall
<1>4. TypeOK
  BY DEF IInv
<1>5. TypeOK'
  <2>1. [mod[b] EXCEPT !.initialized = TRUE] \in ModuleType
    BY <1>4, FreedModule DEF TypeOK, ModuleType
  <2>2. mod' \in [Bases -> ModuleType]
    BY <1>2, <1>4, <2>1 DEF TypeOK
  <2>3. call' \in [Callers -> CallType]
    BY <1>4, FreedModule DEF TypeOK
  <2> QED BY <1>4, <2>2, <2>3 DEF TypeOK
<1>6. Touches(c, b) /\ Base(c)' \in {b, None}
  BY <1>2, <1>4, FreedModule DEF TypeOK, Touches, Base
<1>7. CallInv(c)'
  BY <1>4, FreedModule DEF TypeOK, CallInv, Without, Making, Giving, Taking, Base
<1>8. BaseInv(b)'
  BY <1>2, <1>3, <1>4 DEF TypeOK, CallInv, BaseInv, Settled, InMaking, Making
<1>9. ASSUME NEW k \in Registers PROVE RegInv(k, b)'
  BY <1>3, <1>4 DEF TypeOK, RegInv, Passed, Base
<1>10. NamesKept(c)
  BY <1>4 DEF TypeOK, NamesKept
<1>11. NameInv'
  BY <1>3, <1>6, <1>10, NamesStay
<1> QED BY <1>2, <1>3, <1>5, <1>6, <1>7, <1>8, <1>9, <1>11, OneModuleAtATime

LEMMA LdrMapDllMemoryFailsStep ==
  ASSUME Overlap = {}, IInv, NEW c \in Callers, LdrMapDllMemoryFails(c)
  PROVE  IInv'
<1> USE NoneAssumption DEF LdrMapDllMemoryFails, Goes, LeavesBehind, Registered
<1>1. pc[c] \notin Without
  BY DEF Without
<1>2. PICK b \in Bases : b = Base(c)
  BY <1>1, OfTheCall
<1>3. /\ OthersIdle(c) /\ CallInv(c) /\ mod[b].mem = "live"
      /\ BaseInv(b) /\ \A k \in Registers : RegInv(k, b)
  BY <1>1, <1>2, OfTheCall
<1>4. TypeOK
  BY DEF IInv
<1>5. TypeOK'
  BY <1>2, <1>4 DEF TypeOK, UnloadPc, Registers
<1>6. Touches(c, b) /\ Base(c)' \in {b, None}
  BY <1>2, <1>4 DEF Touches, TypeOK, Base
<1>7. CallInv(c)'
  BY <1>3, <1>4 DEF TypeOK, CallInv, InMaking, GivenUp, Without, Making, Taking, Base
<1>8. BaseInv(b)'
  BY <1>2, <1>3, <1>4 DEF TypeOK, BaseInv, Base
<1>9. ASSUME NEW k \in Registers PROVE RegInv(k, b)'
  BY <1>2, <1>3, <1>4 DEF TypeOK, CallInv, RegInv, InMaking, Making
<1>10. NamesKept(c)
  BY <1>4 DEF NamesKept, TypeOK, Registers
<1>11. NameInv'
  BY <1>3, <1>6, <1>10, NamesStay
<1> QED BY <1>2, <1>3, <1>5, <1>6, <1>7, <1>8, <1>9, <1>11, OneModuleAtATime

LEMMA MemoryResolveImportTableFailsStep ==
  ASSUME Overlap = {}, IInv, NEW c \in Callers, MemoryResolveImportTableFails(c)
  PROVE  IInv'
<1> USE NoneAssumption DEF MemoryResolveImportTableFails, Goes, Returns, CleansUp
<1>1. pc[c] \notin Without
  BY DEF Without
<1>2. PICK b \in Bases : b = Base(c)
  BY <1>1, OfTheCall
<1>3. /\ OthersIdle(c) /\ CallInv(c) /\ mod[b].mem = "live"
      /\ BaseInv(b) /\ \A k \in Registers : RegInv(k, b)
  BY <1>1, <1>2, OfTheCall
<1>4. TypeOK
  BY DEF IInv
<1>5. TypeOK'
  <2>1. [NoModule EXCEPT !.mem = "freed"] \in ModuleType
    BY FreedModule
  <2>2. mod' \in [Bases -> ModuleType]
    BY <1>4, <2>1 DEF TypeOK
  <2>3. call' \in [Callers -> CallType]
    BY <1>4, FreedModule DEF TypeOK
  <2> QED BY <1>4, <2>2, <2>3 DEF TypeOK, UnloadPc
<1>6. Touches(c, b) /\ Base(c)' \in {b, None}
  BY <1>2, <1>4, FreedModule DEF Touches, TypeOK, Base
<1>7. CallInv(c)'
  BY <1>3, <1>4, FreedModule
     DEF TypeOK, CallInv, InMaking, GivenUp, Without, Making, Giving, Taking, Base
<1>8. BaseInv(b)'
  BY <1>3, <1>4 DEF TypeOK, CallInv, BaseInv, Settled, InMaking, Making, Base, NoModule
<1>9. ASSUME NEW k \in Registers PROVE RegInv(k, b)'
  BY <1>3, <1>4
     DEF TypeOK, CallInv, RegInv, Passed, InMaking, Making, Giving, OthersIdle, NoModule
<1>10. NamesKept(c)
  BY <1>2, <1>3, <1>4 DEF NamesKept, TypeOK, RegInv, Registers, CallInv, InMaking, Making
<1>11. NameInv'
  BY <1>3, <1>6, <1>10, NamesStay
<1> QED BY <1>2, <1>3, <1>5, <1>6, <1>7, <1>8, <1>9, <1>11, OneModuleAtATime

LEMMA MemorySetSectionProtectionFailsStep ==
  ASSUME Overlap = {}, IInv, NEW c \in Callers, MemorySetSectionProtectionFails(c)
  PROVE  IInv'
<1> USE NoneAssumption DEF MemorySetSectionProtectionFails, Goes, Returns, CleansUp
<1>1. pc[c] \notin Without
  BY DEF Without
<1>2. PICK b \in Bases : b = Base(c)
  BY <1>1, OfTheCall
<1>3. /\ OthersIdle(c) /\ CallInv(c) /\ mod[b].mem = "live"
      /\ BaseInv(b) /\ \A k \in Registers : RegInv(k, b)
  BY <1>1, <1>2, OfTheCall
<1>4. TypeOK
  BY DEF IInv
<1>5. TypeOK'
  <2>1. [NoModule EXCEPT !.mem = "freed"] \in ModuleType
    BY FreedModule
  <2>2. mod' \in [Bases -> ModuleType]
    BY <1>4, <2>1 DEF TypeOK
  <2>3. call' \in [Callers -> CallType]
    BY <1>4, FreedModule DEF TypeOK
  <2> QED BY <1>4, <2>2, <2>3 DEF TypeOK, UnloadPc
<1>6. Touches(c, b) /\ Base(c)' \in {b, None}
  BY <1>2, <1>4, FreedModule DEF Touches, TypeOK, Base
<1>7. CallInv(c)'
  BY <1>3, <1>4, FreedModule
     DEF TypeOK, CallInv, InMaking, GivenUp, Without, Making, Giving, Taking, Base
<1>8. BaseInv(b)'
  BY <1>3, <1>4 DEF TypeOK, CallInv, BaseInv, Settled, InMaking, Making, Base, NoModule
<1>9. ASSUME NEW k \in Registers PROVE RegInv(k, b)'
  BY <1>3, <1>4
     DEF TypeOK, CallInv, RegInv, Passed, InMaking, Making, Giving, OthersIdle, NoModule
<1>10. NamesKept(c)
  BY <1>2, <1>3, <1>4 DEF NamesKept, TypeOK, RegInv, Registers, CallInv, InMaking, Making
<1>11. NameInv'
  BY <1>3, <1>6, <1>10, NamesStay
<1> QED BY <1>2, <1>3, <1>5, <1>6, <1>7, <1>8, <1>9, <1>11, OneModuleAtATime

LEMMA RtlInsertInvertedFunctionTableFailsStep ==
  ASSUME Overlap = {}, IInv, NEW c \in Callers, RtlInsertInvertedFunctionTableFails(c)
  PROVE  IInv'
<1> USE NoneAssumption DEF RtlInsertInvertedFunctionTableFails, Goes, LeavesBehind, Registered
<1>1. pc[c] \notin Without
  BY DEF Without
<1>2. PICK b \in Bases : b = Base(c)
  BY <1>1, OfTheCall
<1>3. /\ OthersIdle(c) /\ CallInv(c) /\ mod[b].mem = "live"
      /\ BaseInv(b) /\ \A k \in Registers : RegInv(k, b)
  BY <1>1, <1>2, OfTheCall
<1>4. TypeOK
  BY DEF IInv
<1>5. TypeOK'
  BY <1>2, <1>4 DEF TypeOK, UnloadPc, Registers
<1>6. Touches(c, b) /\ Base(c)' \in {b, None}
  BY <1>2, <1>4 DEF Touches, TypeOK, Base
<1>7. CallInv(c)'
  BY <1>3, <1>4 DEF TypeOK, CallInv, InMaking, GivenUp, Without, Making, Taking, Base
<1>8. BaseInv(b)'
  BY <1>2, <1>3, <1>4 DEF TypeOK, BaseInv, Base
<1>9. ASSUME NEW k \in Registers PROVE RegInv(k, b)'
  BY <1>3, <1>4 DEF TypeOK, RegInv, Passed, Base
<1>10. NamesKept(c)
  BY <1>4 DEF NamesKept, TypeOK, Registers
<1>11. NameInv'
  BY <1>3, <1>6, <1>10, NamesStay
<1> QED BY <1>2, <1>3, <1>5, <1>6, <1>7, <1>8, <1>9, <1>11, OneModuleAtATime

LEMMA MmpHandleTlsDataFailsStep ==
  ASSUME Overlap = {}, IInv, NEW c \in Callers, MmpHandleTlsDataFails(c)
  PROVE  IInv'
<1> USE NoneAssumption DEF MmpHandleTlsDataFails, Goes, LeavesBehind, Registered
<1>1. pc[c] \notin Without
  BY DEF Without
<1>2. PICK b \in Bases : b = Base(c)
  BY <1>1, OfTheCall
<1>3. /\ OthersIdle(c) /\ CallInv(c) /\ mod[b].mem = "live"
      /\ BaseInv(b) /\ \A k \in Registers : RegInv(k, b)
  BY <1>1, <1>2, OfTheCall
<1>4. TypeOK
  BY DEF IInv
<1>5. TypeOK'
  <2>2. reg' \in [Registers -> SUBSET Bases] /\ orphans' \subseteq Registers \X Bases
    BY <1>2, <1>4 DEF TypeOK, Registers
  <2>3. call' \in [Callers -> CallType]
    BY <1>4 DEF TypeOK
  <2> QED BY <1>4, <2>2 DEF TypeOK, LoadPc, UnloadPc
<1>6. Touches(c, b) /\ Base(c)' \in {b, None}
  BY <1>2, <1>4 DEF Touches, TypeOK, Base
<1>7. CallInv(c)'
  BY <1>3, <1>4 DEF TypeOK, CallInv, InMaking, GivenUp, Without, Making, Taking, Base, Has
<1>8. BaseInv(b)'
  BY <1>2, <1>3, <1>4 DEF TypeOK, BaseInv, Base
<1>9. ASSUME NEW k \in Registers PROVE RegInv(k, b)'
  BY <1>3, <1>4 DEF TypeOK, RegInv, Passed, Base
<1>10. NamesKept(c)
  BY <1>4 DEF NamesKept, TypeOK, Registers
<1>11. NameInv'
  BY <1>3, <1>6, <1>10, NamesStay
<1> QED BY <1>2, <1>3, <1>5, <1>6, <1>7, <1>8, <1>9, <1>11, OneModuleAtATime

LEMMA LdrpCallInitializersFailsStep ==
  ASSUME Overlap = {}, IInv, NEW c \in Callers, LdrpCallInitializersFails(c)
  PROVE  IInv'
<1> USE NoneAssumption DEF LdrpCallInitializersFails, Goes, Returns, CleansUp
<1>1. pc[c] \notin Without
  BY DEF Without
<1>2. PICK b \in Bases : b = Base(c)
  BY <1>1, OfTheCall
<1>3. /\ OthersIdle(c) /\ CallInv(c) /\ mod[b].mem = "live"
      /\ BaseInv(b) /\ \A k \in Registers : RegInv(k, b)
  BY <1>1, <1>2, OfTheCall
<1>4. TypeOK
  BY DEF IInv
<1>5. TypeOK'
  <2>1. [NoModule EXCEPT !.mem = "freed"] \in ModuleType
    BY FreedModule
  <2>2. mod' \in [Bases -> ModuleType]
    BY <1>4, <2>1 DEF TypeOK
  <2>3. call' \in [Callers -> CallType]
    BY <1>4, FreedModule DEF TypeOK
  <2> QED BY <1>4, <2>2, <2>3 DEF TypeOK, UnloadPc
<1>6. Touches(c, b) /\ Base(c)' \in {b, None}
  BY <1>2, <1>4, FreedModule DEF Touches, TypeOK, Base
<1>7. CallInv(c)'
  BY <1>3, <1>4, FreedModule
     DEF TypeOK, CallInv, InMaking, GivenUp, Without, Making, Giving, Taking, Base
<1>8. BaseInv(b)'
  BY <1>3, <1>4 DEF TypeOK, CallInv, BaseInv, Settled, InMaking, Making, Base, NoModule
<1>9. ASSUME NEW k \in Registers PROVE RegInv(k, b)'
  BY <1>3, <1>4 DEF TypeOK, CallInv, RegInv, Passed, InMaking, Making, OthersIdle, NoModule
<1>10. NamesKept(c)
  BY <1>2, <1>3, <1>4 DEF NamesKept, TypeOK, RegInv, Registers, CallInv, InMaking, Making
<1>11. NameInv'
  BY <1>3, <1>6, <1>10, NamesStay
<1> QED BY <1>2, <1>3, <1>5, <1>6, <1>7, <1>8, <1>9, <1>11, OneModuleAtATime

LEMMA UnmappedFreedStep ==
  ASSUME Overlap = {}, IInv, NEW c \in Callers, UnmappedFreed(c)
  PROVE  IInv'
<1> USE NoneAssumption DEF UnmappedFreed, Goes, Returns
<1>1. pc[c] \notin Without
  BY DEF Without
<1>2. PICK b \in Bases : b = Base(c)
  BY <1>1, OfTheCall
<1>3. /\ OthersIdle(c) /\ CallInv(c) /\ mod[b].mem = "live"
      /\ BaseInv(b) /\ \A k \in Registers : RegInv(k, b)
  BY <1>1, <1>2, OfTheCall
<1>4. TypeOK
  BY DEF IInv
<1>5. TypeOK'
  <2>1. [NoModule EXCEPT !.mem = "freed"] \in ModuleType
    BY FreedModule
  <2>2. mod' \in [Bases -> ModuleType]
    BY <1>4, <2>1 DEF TypeOK
  <2>3. call' \in [Callers -> CallType]
    BY <1>4, FreedModule DEF TypeOK
  <2> QED BY <1>4, <2>2, <2>3 DEF TypeOK
<1>6. Touches(c, b) /\ Base(c)' \in {b, None}
  BY <1>2, <1>4, FreedModule DEF TypeOK, Touches, Base
<1>7. CallInv(c)'
  BY <1>4, FreedModule DEF TypeOK, CallInv, Without, Making, Giving, Taking, Base
<1>8. BaseInv(b)'
  BY <1>2, <1>3, <1>4 DEF TypeOK, CallInv, BaseInv, Settled, GivenUp, Giving, NoModule
<1>9. ASSUME NEW k \in Registers PROVE RegInv(k, b)'
  BY <1>2, <1>3, <1>4 DEF TypeOK, RegInv
<1>10. NamesKept(c)
  BY <1>2, <1>3, <1>4 DEF TypeOK, NamesKept, RegInv, Registers
<1>11. NameInv'
  BY <1>3, <1>6, <1>10, NamesStay
<1> QED BY <1>2, <1>3, <1>5, <1>6, <1>7, <1>8, <1>9, <1>11, OneModuleAtATime

LEMMA StillReferencedStep ==
  ASSUME Overlap = {}, IInv, NEW c \in Callers, StillReferenced(c)
  PROVE  IInv'
<1> USE NoneAssumption DEF StillReferenced, Goes, OthersReferTo
<1>1. pc[c] \notin Without
  BY DEF Without
<1>2. PICK b \in Bases : b = Base(c)
  BY <1>1, OfTheCall
<1>3. /\ OthersIdle(c) /\ CallInv(c) /\ mod[b].mem = "live"
      /\ BaseInv(b) /\ \A k \in Registers : RegInv(k, b)
  BY <1>1, <1>2, OfTheCall
<1>4. TypeOK
  BY DEF IInv
<1>5. TypeOK'
  BY <1>4 DEF TypeOK, UnloadPc
<1>6. Touches(c, b) /\ Base(c)' \in {b, None}
  BY <1>2, <1>4 DEF TypeOK, Touches, Base
<1>7. CallInv(c)'
  BY <1>2, <1>3, <1>4 DEF TypeOK, CallInv, GivenUp, Without, Making, Giving, Taking, Base
<1>8. BaseInv(b)'
  BY <1>2, <1>4 DEF TypeOK, BaseInv, Base
<1>9. ASSUME NEW k \in Registers PROVE RegInv(k, b)'
  BY <1>3, <1>4 DEF TypeOK, RegInv, Passed, Base
<1>10. NamesKept(c)
  BY <1>4 DEF TypeOK, NamesKept
<1>11. NameInv'
  BY <1>3, <1>6, <1>10, NamesStay
<1> QED BY <1>2, <1>3, <1>5, <1>6, <1>7, <1>8, <1>9, <1>11, OneModuleAtATime

LEMMA DereferencedStep ==
  ASSUME Overlap = {}, IInv, NEW c \in Callers, Dereferenced(c)
  PROVE  IInv'
<1> USE NoneAssumption DEF Dereferenced, Goes, Returns
<1>1. pc[c] \notin Without
  BY DEF Without
<1>2. PICK b \in Bases : b = Base(c)
  BY <1>1, OfTheCall
<1>3. /\ OthersIdle(c) /\ CallInv(c) /\ mod[b].mem = "live"
      /\ BaseInv(b) /\ \A k \in Registers : RegInv(k, b)
  BY <1>1, <1>2, OfTheCall
<1>4. TypeOK
  BY DEF IInv
<1>5. TypeOK'
  BY <1>2, <1>3, <1>4, FreedModule DEF TypeOK, ModuleType, Registers, CallInv, GivenUp, Giving
<1>6. Touches(c, b) /\ Base(c)' \in {b, None}
  BY <1>2, <1>4, FreedModule DEF TypeOK, Touches, Base
<1>7. CallInv(c)'
  BY <1>4, FreedModule DEF TypeOK, CallInv, Without, Making, Giving, Taking, Base
<1>8. BaseInv(b)'
  BY <1>2, <1>3, <1>4 DEF TypeOK, CallInv, BaseInv, Settled, GivenUp, Giving
<1>9. ASSUME NEW k \in Registers PROVE RegInv(k, b)'
  BY <1>3, <1>4 DEF TypeOK, RegInv, Passed, Base
<1>10. NamesKept(c)
  BY <1>4 DEF TypeOK, NamesKept
<1>11. NameInv'
  BY <1>3, <1>6, <1>10, NamesStay
<1> QED BY <1>2, <1>3, <1>5, <1>6, <1>7, <1>8, <1>9, <1>11, OneModuleAtATime

LEMMA TakenDownStep ==
  ASSUME Overlap = {}, IInv, NEW c \in Callers, TakenDown(c)
  PROVE  IInv'
<1> USE NoneAssumption DEF TakenDown, Goes, OthersReferTo
<1>1. pc[c] \notin Without
  BY DEF Without
<1>2. PICK b \in Bases : b = Base(c)
  BY <1>1, OfTheCall
<1>3. /\ OthersIdle(c) /\ CallInv(c) /\ mod[b].mem = "live"
      /\ BaseInv(b) /\ \A k \in Registers : RegInv(k, b)
  BY <1>1, <1>2, OfTheCall
<1>4. TypeOK
  BY DEF IInv
<1>5. TypeOK'
  <2>1. [mod[b] EXCEPT !.underUnload = TRUE] \in ModuleType
    BY <1>4, FreedModule DEF TypeOK, ModuleType
  <2>2. mod' \in [Bases -> ModuleType]
    BY <1>2, <1>4, <2>1 DEF TypeOK
  <2> QED BY <1>4, <2>2 DEF TypeOK, UnloadPc
<1>6. Touches(c, b) /\ Base(c)' \in {b, None}
  BY <1>2, <1>4 DEF TypeOK, Touches, Base
<1>7. CallInv(c)'
  BY <1>2, <1>3, <1>4 DEF TypeOK, CallInv, GivenUp, Without, Making, Giving, Base
<1>8. BaseInv(b)'
  BY <1>2, <1>4 DEF TypeOK, BaseInv, Base
<1>9. ASSUME NEW k \in Registers PROVE RegInv(k, b)'
  BY <1>3, <1>4 DEF TypeOK, RegInv, Passed, Base
<1>10. NamesKept(c)
  BY <1>4 DEF TypeOK, NamesKept
<1>11. NameInv'
  BY <1>3, <1>6, <1>10, NamesStay
<1> QED BY <1>2, <1>3, <1>5, <1>6, <1>7, <1>8, <1>9, <1>11, OneModuleAtATime

LEMMA RtlRemoveInvertedFunctionTableStep ==
  ASSUME Overlap = {}, IInv, NEW c \in Callers, RtlRemoveInvertedFunctionTable(c)
  PROVE  IInv'
<1> USE NoneAssumption DEF RtlRemoveInvertedFunctionTable, Goes, Unregistered
<1>1. pc[c] \notin Without
  BY DEF Without
<1>2. PICK b \in Bases : b = Base(c)
  BY <1>1, OfTheCall
<1>3. /\ OthersIdle(c) /\ CallInv(c) /\ mod[b].mem = "live"
      /\ BaseInv(b) /\ \A k \in Registers : RegInv(k, b)
  BY <1>1, <1>2, OfTheCall
<1>4. TypeOK
  BY DEF IInv
<1>5. TypeOK'
  BY <1>4 DEF TypeOK, UnloadPc
<1>6. Touches(c, b) /\ Base(c)' \in {b, None}
  BY <1>2, <1>4 DEF TypeOK, Touches, Base
<1>7. CallInv(c)'
  BY <1>3, <1>4 DEF TypeOK, CallInv, Without, Making, Giving, Taking, Base
<1>8. BaseInv(b)'
  BY <1>2, <1>3, <1>4 DEF TypeOK, BaseInv, Base
<1>9. ASSUME NEW k \in Registers PROVE RegInv(k, b)'
  BY <1>3, <1>4 DEF TypeOK, RegInv, Passed, Base
<1>10. NamesKept(c)
  BY <1>4 DEF TypeOK, NamesKept
<1>11. NameInv'
  BY <1>3, <1>6, <1>10, NamesStay
<1> QED BY <1>2, <1>3, <1>5, <1>6, <1>7, <1>8, <1>9, <1>11, OneModuleAtATime

LEMMA RtlRemoveInvertedFunctionTableFailsStep ==
  ASSUME Overlap = {}, IInv, NEW c \in Callers, RtlRemoveInvertedFunctionTableFails(c)
  PROVE  IInv'
<1> USE NoneAssumption DEF RtlRemoveInvertedFunctionTableFails
<1>1. pc[c] \notin Without
  BY DEF Without
<1>2. PICK b \in Bases : b = Base(c)
  BY <1>1, OfTheCall
<1>3. /\ OthersIdle(c) /\ CallInv(c) /\ mod[b].mem = "live"
      /\ BaseInv(b) /\ \A k \in Registers : RegInv(k, b)
  BY <1>1, <1>2, OfTheCall
<1>4. TypeOK
  BY DEF IInv
<1>5. TypeOK'
  BY <1>4 DEF TypeOK
<1>6. Touches(c, b) /\ Base(c)' \in {b, None}
  BY <1>2, <1>4 DEF TypeOK, Touches, Base
<1>7. CallInv(c)'
  BY <1>3, <1>4 DEF TypeOK, CallInv, GivenUp, Making, Base
<1>8. BaseInv(b)'
  BY <1>2, <1>3, <1>4 DEF TypeOK, BaseInv, Base
<1>9. ASSUME NEW k \in Registers PROVE RegInv(k, b)'
  BY <1>3, <1>4 DEF TypeOK, RegInv, Passed, Base
<1>10. NamesKept(c)
  BY <1>4 DEF TypeOK, NamesKept
<1>11. NameInv'
  BY <1>3, <1>6, <1>10, NamesStay
<1> QED BY <1>2, <1>3, <1>5, <1>6, <1>7, <1>8, <1>9, <1>11, OneModuleAtATime

LEMMA MmpReleaseTlsEntryStep ==
  ASSUME Overlap = {}, IInv, NEW c \in Callers, MmpReleaseTlsEntry(c)
  PROVE  IInv'
<1> USE NoneAssumption DEF MmpReleaseTlsEntry, Goes, Unregistered
<1>1. pc[c] \notin Without
  BY DEF Without
<1>2. PICK b \in Bases : b = Base(c)
  BY <1>1, OfTheCall
<1>3. /\ OthersIdle(c) /\ CallInv(c) /\ mod[b].mem = "live"
      /\ BaseInv(b) /\ \A k \in Registers : RegInv(k, b)
  BY <1>1, <1>2, OfTheCall
<1>4. TypeOK
  BY DEF IInv
<1>5. TypeOK'
  BY <1>4 DEF TypeOK, UnloadPc
<1>6. Touches(c, b) /\ Base(c)' \in {b, None}
  BY <1>2, <1>4 DEF TypeOK, Touches, Base
<1>7. CallInv(c)'
  BY <1>3, <1>4 DEF TypeOK, CallInv, Without, Making, Giving, Taking, Base
<1>8. BaseInv(b)'
  BY <1>2, <1>3, <1>4 DEF TypeOK, BaseInv, Base
<1>9. ASSUME NEW k \in Registers PROVE RegInv(k, b)'
  BY <1>3, <1>4 DEF TypeOK, RegInv, Passed, Base
<1>10. NamesKept(c)
  BY <1>4 DEF TypeOK, NamesKept
<1>11. NameInv'
  BY <1>3, <1>6, <1>10, NamesStay
<1> QED BY <1>2, <1>3, <1>5, <1>6, <1>7, <1>8, <1>9, <1>11, OneModuleAtATime

LEMMA RtlFreeLdrDataTableEntryStep ==
  ASSUME Overlap = {}, IInv, NEW c \in Callers, RtlFreeLdrDataTableEntry(c)
  PROVE  IInv'
<1> USE NoneAssumption DEF RtlFreeLdrDataTableEntry, Goes
<1>1. pc[c] \notin Without
  BY DEF Without
<1>2. PICK b \in Bases : b = Base(c)
  BY <1>1, OfTheCall
<1>3. /\ OthersIdle(c) /\ CallInv(c) /\ mod[b].mem = "live"
      /\ BaseInv(b) /\ \A k \in Registers : RegInv(k, b)
  BY <1>1, <1>2, OfTheCall
<1>4. TypeOK
  BY DEF IInv
<1>5. TypeOK'
  BY <1>4 DEF TypeOK, UnloadPc
<1>6. Touches(c, b) /\ Base(c)' \in {b, None}
  BY <1>2, <1>4 DEF Touches, TypeOK, Base
<1>7. CallInv(c)'
  BY <1>3, <1>4 DEF TypeOK, CallInv, Without, Making, Giving, Taking, Base
<1>8. BaseInv(b)'
  BY <1>2, <1>3, <1>4 DEF TypeOK, BaseInv, Base
<1>9. ASSUME NEW k \in Registers PROVE RegInv(k, b)'
  BY <1>2, <1>3, <1>4 DEF TypeOK, RegInv, Passed
<1>10. NamesKept(c)
  BY <1>4 DEF NamesKept, TypeOK, Registers
<1>11. NameInv'
  BY <1>3, <1>6, <1>10, NamesStay
<1> QED BY <1>2, <1>3, <1>5, <1>6, <1>7, <1>8, <1>9, <1>11, OneModuleAtATime

LEMMA MemoryFreeLibraryStep ==
  ASSUME Overlap = {}, IInv, NEW c \in Callers, MemoryFreeLibrary(c)
  PROVE  IInv'
<1> USE NoneAssumption DEF MemoryFreeLibrary, Goes, Returns
<1>1. pc[c] \notin Without
  BY DEF Without
<1>2. PICK b \in Bases : b = Base(c)
  BY <1>1, OfTheCall
<1>3. /\ OthersIdle(c) /\ CallInv(c) /\ mod[b].mem = "live"
      /\ BaseInv(b) /\ \A k \in Registers : RegInv(k, b)
  BY <1>1, <1>2, OfTheCall
<1>4. TypeOK
  BY DEF IInv
<1>5. TypeOK'
  <2>1. [NoModule EXCEPT !.mem = "freed"] \in ModuleType
    BY FreedModule
  <2>2. mod' \in [Bases -> ModuleType]
    BY <1>4, <2>1 DEF TypeOK
  <2>3. call' \in [Callers -> CallType]
    BY <1>4, FreedModule DEF TypeOK
  <2> QED BY <1>4, <2>2, <2>3 DEF TypeOK
<1>6. Touches(c, b) /\ Base(c)' \in {b, None}
  BY <1>2, <1>4, FreedModule DEF TypeOK, Touches, Base
<1>7. CallInv(c)'
  BY <1>4, FreedModule DEF TypeOK, CallInv, Without, Making, Giving, Taking, Base
<1>8. BaseInv(b)'
  BY <1>2, <1>3, <1>4 DEF TypeOK, CallInv, BaseInv, Settled, Taking, NoModule
<1>9. ASSUME NEW k \in Registers PROVE RegInv(k, b)'
  BY <1>2, <1>3, <1>4 DEF TypeOK, RegInv, Passed, Registers
<1>10. NamesKept(c)
  BY <1>2, <1>3, <1>4 DEF TypeOK, NamesKept, RegInv, Registers, Passed
<1>11. NameInv'
  BY <1>3, <1>6, <1>10, NamesStay
<1> QED BY <1>2, <1>3, <1>5, <1>6, <1>7, <1>8, <1>9, <1>11, OneModuleAtATime
-----------------------------------------------------------------------------
(* The actions of a call that has none, or gets one.                       *)

LEMMA LdrLoadDllMemoryExWStep ==
  ASSUME Overlap = {}, IInv, NEW c \in Callers, LdrLoadDllMemoryExW(c)
  PROVE  IInv'
<1> USE NoneAssumption, FlagsAssumption DEF LdrLoadDllMemoryExW, Goes
<1>1. OthersIdle(c) /\ CallInv(c) /\ TypeOK /\ Base(c) = None
  BY Alone DEF IInv, CallInv, Without
<1>2. /\ pc'[c] = "lookup" \/ (pc'[c] = "reserve" /\ ~call'[c].named)
      /\ call'[c] \in CallType /\ call'[c].base = None
      /\ \A d \in Callers \ {c} : call'[d] = call[d]
      /\ call' \in [Callers -> CallType]
  <2>1. PICK i \in Images, asked \in FlagSets, name \in BOOLEAN, valid \in BOOLEAN :
          LET unmapped == "NOT_MAP_DLL" \in asked
              flags == IF unmapped THEN {"NOT_MAP_DLL"} ELSE asked
              named == name /\ ~unmapped IN
          /\ pc' = [pc EXCEPT ![c] = IF named THEN "lookup" ELSE "reserve"]
          /\ call' = [call EXCEPT ![c] = [kind |-> "load", image |-> i, flags |-> flags,
                                          named |-> named, valid |-> valid, base |-> None]]
    BY ZenonT(60)
  <2>2. call'[c] \in CallType /\ call'[c].base = None
    BY <1>1, <2>1 DEF TypeOK, CallType, Flags
  <2>3. pc'[c] = "lookup" \/ (pc'[c] = "reserve" /\ ~call'[c].named)
    <3>1. CASE name /\ "NOT_MAP_DLL" \notin asked
      BY <1>1, <2>1, <3>1 DEF TypeOK
    <3>2. CASE ~(name /\ "NOT_MAP_DLL" \notin asked)
      <4>1. call'[c].named <=> name /\ "NOT_MAP_DLL" \notin asked
        BY <1>1, <2>1 DEF TypeOK
      <4> QED BY <1>1, <2>1, <3>2, <4>1 DEF TypeOK
    <3> QED BY <3>1, <3>2
  <2>4. \A d \in Callers \ {c} : call'[d] = call[d]
    BY <1>1, <2>1 DEF TypeOK
  <2> QED BY <1>1, <2>1, <2>2, <2>3, <2>4 DEF TypeOK
<1>3. TypeOK'
  BY <1>1, <1>2 DEF TypeOK, LoadPc
<1>4. Touches(c, None) /\ Base(c)' = None
  BY <1>1, <1>2 DEF Touches, TypeOK, Base
<1>5. CallInv(c)'
  BY <1>2, <1>4 DEF CallInv, Without, Making, Giving, Taking
<1>6. NamesKept(c)
  BY <1>2 DEF NamesKept
<1>7. NameInv'
  BY <1>1, <1>4, <1>6, NamesStay
<1> QED BY <1>1, <1>3, <1>4, <1>5, <1>7, OneModuleAtATime

LEMMA LookupStep ==
  ASSUME Overlap = {}, IInv, NEW c \in Callers,
         NoMatch(c) \/ ReferenceRefused(c) \/ MemoryLoadLibraryFails(c)
  PROVE  IInv'
<1> USE NoneAssumption DEF NoMatch, ReferenceRefused, MemoryLoadLibraryFails, Goes, Returns
<1>1. OthersIdle(c) /\ CallInv(c) /\ TypeOK /\ Base(c) = None
  BY Alone DEF IInv, CallInv, Without
<1>2. TypeOK'
  BY <1>1, FreedModule DEF TypeOK, LoadPc
<1>3. Touches(c, None) /\ Base(c)' = None
  BY <1>1, FreedModule DEF Touches, TypeOK, Base
<1>4. CallInv(c)'
  BY <1>1, <1>3 DEF TypeOK, CallInv, Without, Making, Giving, Taking
<1>5. NamesKept(c)
  BY <1>1 DEF NamesKept, TypeOK, Matching
<1>6. NameInv'
  BY <1>1, <1>3, <1>5, NamesStay
<1> QED BY <1>1, <1>2, <1>3, <1>4, <1>6, OneModuleAtATime

\* The module that is found is settled: no other call is at work on it.
LEMMA ModuleFoundStep ==
  ASSUME Overlap = {}, IInv, NEW c \in Callers, ModuleFound(c)
  PROVE  IInv'
<1> USE NoneAssumption DEF ModuleFound, Goes
<1>1. OthersIdle(c) /\ CallInv(c) /\ TypeOK /\ Base(c) = None
  BY Alone DEF IInv, CallInv, Without
<1>2. PICK b \in Matching(c) : mod[b].counted /\ call' = [call EXCEPT ![c].base = b]
  OBVIOUS
<1>3. b \in Bases /\ BaseInv(b) /\ \A k \in Registers : RegInv(k, b)
  BY <1>1 DEF IInv, Matching, TypeOK, Registers
<1>4. \A d \in Callers : Base(d) = None
  BY <1>1 DEF IInv, CallInv, OthersIdle, Without
<1>5. Settled(b) /\ mod[b].mem = "live"
  BY <1>2, <1>3, <1>4 DEF BaseInv
<1>6. TypeOK'
  <2>1. pc' = [pc EXCEPT ![c] = "reference"] /\ UNCHANGED <<mod, reg, orphans, handles, crashed>>
    OBVIOUS
  <2> HIDE DEF ModuleFound
  <2>2. [call[c] EXCEPT !.base = b] \in CallType
    <3>1. call[c] \in CallType
      BY <1>1 DEF TypeOK
    <3> QED BY <1>3, <3>1 DEF CallType
  <2>3. call' \in [Callers -> CallType]
    BY <1>1, <1>2, <2>2 DEF TypeOK
  <2> QED BY <1>1, <2>1, <2>3 DEF TypeOK, LoadPc
<1>7. Touches(c, b) /\ Base(c)' = b /\ pc'[c] = "reference"
  BY <1>1, <1>2 DEF Touches, TypeOK, CallType, Base
<1>8. CallInv(c)'
  BY <1>2, <1>3, <1>5, <1>7 DEF CallInv, Settled, Without, Making, Giving, Taking
<1>9. BaseInv(b)'
  BY <1>3, <1>7 DEF BaseInv
<1>10. \A k \in Registers : RegInv(k, b)'
  BY <1>1, <1>3, <1>4, <1>7 DEF RegInv, Passed, OthersIdle, TypeOK
<1>11. NamesKept(c)
  BY <1>7 DEF NamesKept
<1>12. NameInv'
  BY <1>1, <1>7, <1>11, NamesStay
<1> QED BY <1>1, <1>3, <1>6, <1>7, <1>8, <1>9, <1>10, <1>12, OneModuleAtATime

LEMMA MemoryLoadLibraryStep ==
  ASSUME Overlap = {}, IInv, NEW c \in Callers, MemoryLoadLibrary(c)
  PROVE  IInv'
<1> USE NoneAssumption DEF MemoryLoadLibrary, Goes
<1> DEFINE new == [NoModule EXCEPT !.image = call[c].image, !.mem = "live",
                                   !.named = call[c].named]
<1>1. OthersIdle(c) /\ CallInv(c) /\ TypeOK /\ Base(c) = None /\ pc[c] = "reserve"
  BY Alone DEF IInv, CallInv, Without
<1>2. PICK b \in Bases : /\ mod[b].mem = "none" /\ mod' = [mod EXCEPT ![b] = new]
                         /\ call' = [call EXCEPT ![c].base = b]
  OBVIOUS
<1>3. BaseInv(b) /\ \A k \in Registers : RegInv(k, b)
  BY DEF IInv
<1>4. \A d \in Callers : Base(d) = None
  BY <1>1 DEF IInv, CallInv, OthersIdle, Without
<1>5. new \in ModuleType
  <2>1. call[c].image \in Images \cup {None} /\ call[c].named \in BOOLEAN
    BY <1>1 DEF TypeOK, CallType
  <2>2. NoModule \in ModuleType
    BY FreedModule
  <2> QED BY <2>1, <2>2 DEF ModuleType
<1>5a. /\ new.mem = "live" /\ ~new.mapped /\ ~new.counted /\ new.refs = 1
       /\ ~new.underUnload /\ new.named = call[c].named /\ new.image = call[c].image
  BY DEF NoModule
<1> HIDE DEF new
<1>6. mod'[b] = new /\ handles[b] = 0 /\ \A k \in Registers : b \in reg[k] => <<k, b>> \in orphans
  BY <1>1, <1>2, <1>3, <1>4 DEF TypeOK, BaseInv, Settled, RegInv
<1>7. TypeOK'
  <2>1. [call[c] EXCEPT !.base = b] \in CallType
    BY <1>1, <1>2 DEF TypeOK, CallType
  <2> QED BY <1>1, <1>2, <1>5, <2>1 DEF TypeOK, LoadPc
<1>8. Touches(c, b) /\ Base(c)' = b /\ pc'[c] \in {"map", "import"}
  BY <1>1, <1>2 DEF Touches, TypeOK, CallType, Base
<1>9. CallInv(c)'
  <2>1. /\ call'[c].named = call[c].named /\ call'[c].image = call[c].image
        /\ call'[c].flags = call[c].flags /\ call'[c].kind = "load"
    BY <1>1, <1>2 DEF TypeOK, CallType, CallInv
  <2>2. pc'[c] = IF Has(c, "NOT_MAP_DLL") THEN "import" ELSE "map"
    BY <1>1 DEF TypeOK
  <2>3. handles'[b] = 0 /\ mod'[b] = new
    BY <1>6
  <2>4. InMaking(c, b)'
    <3> HIDE DEF MemoryLoadLibrary
    <3> QED BY <1>5a, <2>1, <2>2, <2>3 DEF InMaking, Has
  <2> QED BY <1>2, <1>5a, <1>6, <1>8, <2>1, <2>4 DEF CallInv, Without, Making, Giving, Taking
<1>10. BaseInv(b)'
  BY <1>5a, <1>6, <1>8 DEF BaseInv
<1>11. \A k \in Registers : RegInv(k, b)'
  BY <1>3, <1>6 DEF RegInv
<1>12. b \notin reg["list"]
  BY <1>3, <1>6 DEF RegInv, Registers
<1>13. NamesKept(c)
  <2>1. \A e \in reg["list"] : e \in Bases /\ e # b /\ mod'[e] = mod[e]
    BY <1>1, <1>2, <1>12 DEF TypeOK, Registers
  <2>2. call[c].named => Matching(c) = {}
    BY <1>1 DEF IInv, NameInv
  <2>3. call'[c].named = call[c].named /\ call'[c].image = call[c].image
    BY <1>1, <1>2 DEF TypeOK, CallType
  <2>4. call'[c].named => Matching(c)' = {}
    BY <2>1, <2>2, <2>3 DEF Matching
  <2> QED BY <2>1, <2>4 DEF NamesKept
<1>14. NameInv'
  BY <1>1, <1>8, <1>13, NamesStay
<1> QED BY <1>1, <1>7, <1>8, <1>9, <1>10, <1>11, <1>14, OneModuleAtATime

\* The image that is leaked was nobody's, and nobody gets it.
LEMMA SectionsFailStep ==
  ASSUME Overlap = {}, IInv, NEW c \in Callers, SectionsFail(c)
  PROVE  IInv'
<1> USE NoneAssumption DEF SectionsFail, Goes, Returns
<1> DEFINE new == [NoModule EXCEPT !.mem = "reserved"]
<1>1. OthersIdle(c) /\ CallInv(c) /\ TypeOK /\ Base(c) = None /\ pc[c] = "reserve"
  BY Alone DEF IInv, CallInv, Without
<1>2. PICK b \in Bases : mod[b].mem = "none" /\ mod' = [mod EXCEPT ![b] = new]
  OBVIOUS
<1>3. BaseInv(b) /\ \A k \in Registers : RegInv(k, b)
  BY DEF IInv
<1>4. \A d \in Callers : Base(d) = None
  BY <1>1 DEF IInv, CallInv, OthersIdle, Without
<1>5. new \in ModuleType
  <2>1. NoModule \in ModuleType
    BY FreedModule
  <2> QED BY <2>1 DEF ModuleType
<1>6. new.mem = "reserved" /\ ~new.counted
  BY DEF NoModule
<1> HIDE DEF new
<1>7. mod'[b] = new /\ handles[b] = 0 /\ \A k \in Registers : b \in reg[k] => <<k, b>> \in orphans
  BY <1>1, <1>2, <1>3, <1>4 DEF TypeOK, BaseInv, Settled, RegInv
<1>8. TypeOK'
  BY <1>1, <1>2, <1>5, FreedModule DEF TypeOK, LoadPc
<1>9. Touches(c, b) /\ Base(c)' = None /\ pc'[c] = "idle"
  BY <1>1, <1>2, FreedModule DEF Touches, TypeOK, Base
<1>10. CallInv(c)'
  BY <1>9 DEF CallInv, Without, Making, Giving, Taking
<1>11. BaseInv(b)'
  BY <1>6, <1>7 DEF BaseInv, Settled
<1>12. \A k \in Registers : RegInv(k, b)'
  BY <1>3, <1>7 DEF RegInv
<1>13. b \notin reg["list"]
  BY <1>3, <1>7 DEF RegInv, Registers
<1>14. NamesKept(c)
  BY <1>1, <1>2, <1>9, <1>13 DEF NamesKept, TypeOK, Registers
<1>15. NameInv'
  BY <1>1, <1>9, <1>14, NamesStay
<1> QED BY <1>1, <1>8, <1>9, <1>10, <1>11, <1>12, <1>15, OneModuleAtATime

LEMMA LdrUnloadDllMemoryStep ==
  ASSUME Overlap = {}, IInv, NEW c \in Callers, LdrUnloadDllMemory(c)
  PROVE  IInv'
<1> USE NoneAssumption DEF LdrUnloadDllMemory, Goes
<1>1. OthersIdle(c) /\ CallInv(c) /\ TypeOK /\ Base(c) = None
  BY Alone DEF IInv, CallInv, Without
<1>2. PICK b \in Bases : /\ handles[b] > 0 /\ handles' = [handles EXCEPT ![b] = @ - 1]
                         /\ call' = [call EXCEPT ![c] =
                                           [NoCall EXCEPT !.kind = "unload", !.base = b]]
  OBVIOUS
<1>3. BaseInv(b) /\ \A k \in Registers : RegInv(k, b)
  BY DEF IInv
<1>4. \A d \in Callers : Base(d) = None
  BY <1>1 DEF IInv, CallInv, OthersIdle, Without
<1>5. Settled(b) /\ mod[b].mem = "live" /\ handles[b] \in Nat
  BY <1>1, <1>2, <1>3, <1>4 DEF BaseInv, Settled, TypeOK
<1>6. [NoCall EXCEPT !.kind = "unload", !.base = b] \in CallType
  BY <1>2 DEF NoCall, CallType
<1>7. Touches(c, b) /\ Base(c)' = b /\ pc'[c] = "unload" /\ handles'[b] = handles[b] - 1
  BY <1>1, <1>2 DEF Touches, TypeOK, NoCall, Base
<1>8. TypeOK'
  BY <1>1, <1>2, <1>5, <1>6 DEF TypeOK, UnloadPc
<1>9. CallInv(c)'
  BY <1>1, <1>2, <1>5, <1>7
     DEF CallInv, Settled, GivenUp, TypeOK, ModuleType, Without, Making, Giving, Taking
<1>10. BaseInv(b)'
  BY <1>3, <1>7 DEF BaseInv
<1>11. \A k \in Registers : RegInv(k, b)'
  BY <1>1, <1>3, <1>4, <1>7 DEF RegInv, Passed, OthersIdle, TypeOK
<1>12. NamesKept(c)
  BY <1>7 DEF NamesKept
<1>13. NameInv'
  BY <1>1, <1>7, <1>12, NamesStay
<1> QED BY <1>1, <1>7, <1>8, <1>9, <1>10, <1>11, <1>13, OneModuleAtATime

-----------------------------------------------------------------------------
LEMMA InitIInv == Init => IInv
<1> SUFFICES ASSUME Init PROVE IInv
  OBVIOUS
<1> USE NoneAssumption DEF Init
<1>1. TypeOK
  BY FreedModule DEF TypeOK, ModuleType, NoModule
<1>2. Serial /\ NameInv
  BY DEF Serial, NameInv, OneModulePerImage, Registers
<1>3. \A c \in Callers : CallInv(c)
  BY DEF CallInv, Base, NoCall, Without, Making, Giving, Taking
<1>4. \A b \in Bases : BaseInv(b)
  BY DEF BaseInv, Settled, NoModule
<1>5. \A k \in Registers, b \in Bases : RegInv(k, b)
  BY DEF RegInv
<1> QED BY <1>1, <1>2, <1>3, <1>4, <1>5 DEF IInv

LEMMA NextIInv == Overlap = {} /\ IInv /\ [Next]_vars => IInv'
<1> SUFFICES ASSUME Overlap = {}, IInv, [Next]_vars PROVE IInv'
  OBVIOUS
<1>1. CASE UNCHANGED vars
  <2>1. TypeOK' /\ Serial' /\ NameInv'
    BY <1>1 DEF vars, IInv, TypeOK, Serial, NameInv, OneModulePerImage, Matching
  <2>2. (\A c \in Callers : CallInv(c))' /\ (\A b \in Bases : BaseInv(b))'
    BY <1>1 DEF vars, IInv, CallInv, BaseInv, Settled, InMaking, GivenUp, Has, Base
  <2>3. (\A k \in Registers, b \in Bases : RegInv(k, b))'
    BY <1>1, ZenonT(60) DEF vars, IInv, RegInv, Passed, Base
  <2> QED BY <2>1, <2>2, <2>3 DEF IInv
<1>2. ASSUME NEW c \in Callers, Load(c) PROVE IInv'
  BY <1>2, LdrLoadDllMemoryExWStep, LookupStep, ModuleFoundStep, RtlUpdateReferenceCountStep,
     MemoryLoadLibraryStep, LdrMapDllMemoryStep, MemoryResolveImportTableStep,
     MemorySetSectionProtectionStep, RtlInsertInvertedFunctionTableStep, MmpHandleTlsDataStep,
     LdrpCallInitializersStep DEF Load
<1>3. ASSUME NEW c \in Callers, LoadFails(c) PROVE IInv'
  BY <1>3, LookupStep, SectionsFailStep, LdrMapDllMemoryFailsStep, MemoryResolveImportTableFailsStep,
     MemorySetSectionProtectionFailsStep, RtlInsertInvertedFunctionTableFailsStep,
     MmpHandleTlsDataFailsStep, LdrpCallInitializersFailsStep DEF LoadFails
<1>4. ASSUME NEW c \in Callers, Unload(c) PROVE IInv'
  BY <1>4, LdrUnloadDllMemoryStep, UnmappedFreedStep, StillReferencedStep, CountUnreadableStep,
     DereferencedStep, TakenDownStep, RtlRemoveInvertedFunctionTableStep,
     RtlRemoveInvertedFunctionTableFailsStep, MmpReleaseTlsEntryStep, RtlFreeLdrDataTableEntryStep, MemoryFreeLibraryStep DEF Unload
<1> QED BY <1>1, <1>2, <1>3, <1>4 DEF Next

-----------------------------------------------------------------------------
(* What the invariant implies.                                             *)

\* The invariant holds in every state, if no two calls overlap: where a call is
\* tells what it did to its module, and the others are settled.
THEOREM Invariance == ASSUME Overlap = {} PROVE Spec => []IInv
<1>1. Init => IInv
  BY InitIInv
<1>2. IInv /\ [Next]_vars => IInv'
  BY NextIInv
<1> QED BY <1>1, <1>2, PTL DEF Spec

\* Every variable has its type; a reference count never reaches 0.
THEOREM TypeCorrect == ASSUME Overlap = {} PROVE Spec => []TypeOK
<1>1. IInv => TypeOK
  BY DEF IInv
<1> QED BY <1>1, Invariance, PTL

AtWork(c, b) ==
  /\ Base(c) = b /\ CallInv(c)
  /\ pc[c] \in (LoadPc \cup UnloadPc) \ Without
  /\ \A d \in Callers \ {c} : pc[d] = "idle" /\ Base(d) = None

LEMMA OneAtWork ==
  ASSUME IInv, NEW b \in Bases
  PROVE  (\A c \in Callers : Base(c) # b) \/ (\E c \in Callers : AtWork(c, b))
<1> SUFFICES ASSUME NEW c \in Callers, Base(c) = b PROVE AtWork(c, b)
  OBVIOUS
<1>1. CallInv(c) /\ pc[c] \in (LoadPc \cup UnloadPc) \ Without
  BY NoneAssumption DEF IInv, CallInv, TypeOK, Without
<1>2. \A d \in Callers \ {c} : pc[d] = "idle" /\ CallInv(d)
  BY <1>1 DEF IInv, Serial, Without
<1> QED BY <1>1, <1>2 DEF AtWork, CallInv, Without

\* A handle is to a live module that nobody takes down and whose DllMain accepted
\* the process: failed loads, flags and references by name never break it.
LEMMA HandleImplies == IInv => HandlesAreLive /\ HoldersSeeInitialized /\ UncountedHeldOnce
<1> SUFFICES ASSUME IInv, NEW b \in Bases
             PROVE  /\ handles[b] > 0 => /\ mod[b].mem = "live" /\ ~mod[b].underUnload
                                       /\ mod[b].initialized
                    /\ mod[b].mem = "live" /\ ~mod[b].counted => handles[b] <= 1
  BY DEF HandlesAreLive, HoldersSeeInitialized, UncountedHeldOnce
<1>1. handles[b] \in Nat /\ BaseInv(b)
  BY DEF IInv, TypeOK
<1>2. CASE \A c \in Callers : Base(c) # b
  BY <1>1, <1>2 DEF BaseInv, Settled
<1>3. CASE \E c \in Callers : AtWork(c, b)
  BY <1>1, <1>3, NoneAssumption
     DEF AtWork, CallInv, InMaking, GivenUp, Settled, LoadPc, UnloadPc, Without, Making, Giving,
         Taking
<1> QED BY <1>2, <1>3, OneAtWork

LEMMA CountImplies == IInv => CountIsExact
<1> SUFFICES ASSUME IInv, NEW b \in Bases,
                    mod[b].mem = "live", mod[b].counted, ~mod[b].underUnload
             PROVE  mod[b].refs = handles[b] + Cardinality(Holders(b))
  BY DEF CountIsExact
<1>1. handles[b] \in Nat /\ BaseInv(b)
  BY DEF IInv, TypeOK
<1>2. CASE \A c \in Callers : Base(c) # b
  <2>1. Holders(b) = {}
    BY <1>2 DEF Holders
  <2>2. Cardinality(Holders(b)) = 0
    BY <2>1, FS_EmptySet
  <2> QED BY <1>1, <1>2, <2>2 DEF BaseInv, Settled
<1>3. CASE \E c \in Callers : AtWork(c, b)
  <2>1. PICK c \in Callers : AtWork(c, b)
    BY <1>3
  <2>2. CASE pc[c] = "reference"
    <3>1. Holders(b) = {}
      BY <2>1, <2>2, NoneAssumption DEF AtWork, Holders
    <3>2. Cardinality(Holders(b)) = 0
      BY <3>1, FS_EmptySet
    <3> QED BY <1>1, <2>1, <2>2, <3>2 DEF AtWork, CallInv, Settled
  <2>3. CASE pc[c] \in {"insert", "tls", "init", "unload", "dereference"}
    <3>1. Holders(b) = {c}
      BY <2>1, <2>3, NoneAssumption DEF AtWork, Holders
    <3>2. Cardinality(Holders(b)) = 1
      BY <3>1, FS_Singleton
    <3> QED BY <1>1, <2>1, <2>3, <3>2 DEF AtWork, CallInv, InMaking, GivenUp, Making, Giving
  <2>4. CASE pc[c] \in {"map", "import", "protect"} \cup Taking
    BY <2>1, <2>4 DEF AtWork, CallInv, InMaking, Making, Taking
  <2> QED BY <2>1, <2>2, <2>3, <2>4 DEF AtWork, LoadPc, UnloadPc, Without, Taking
<1> QED BY <1>2, <1>3, OneAtWork

LEMMA RestImplies == IInv => NothingLeftBehind /\ NoDanglingRegistration /\ OneModulePerImage
<1> SUFFICES ASSUME IInv PROVE NothingLeftBehind /\ NoDanglingRegistration /\ OneModulePerImage
  OBVIOUS
<1>1. NothingLeftBehind
  <2> SUFFICES ASSUME Quiet, NEW b \in Bases, mod[b].mem = "live" PROVE handles[b] > 0
    BY DEF NothingLeftBehind, Leaked, IInv, TypeOK, ModuleType
  <2>1. \A c \in Callers : Base(c) # b
    BY NoneAssumption DEF Quiet, IInv, CallInv, Without
  <2> QED BY <2>1 DEF IInv, BaseInv, Settled
<1>2. NoDanglingRegistration
  BY DEF NoDanglingRegistration, IInv, RegInv, TypeOK
<1> QED BY <1>1, <1>2 DEF IInv, NameInv

\* A handle that a caller owns is to a module in memory that nobody takes down, for
\* every choice of flags and every set of failing steps, if no two calls overlap.
THEOREM HandlesTheorem == ASSUME Overlap = {} PROVE Spec => []HandlesAreLive
BY Invariance, HandleImplies, PTL

\* Nobody owns a handle to a module whose DllMain did not accept the process.
THEOREM InitializedTheorem == ASSUME Overlap = {} PROVE Spec => []HoldersSeeInitialized
BY Invariance, HandleImplies, PTL

\* A module without a reference count has at most one handle.
THEOREM UncountedTheorem == ASSUME Overlap = {} PROVE Spec => []UncountedHeldOnce
BY Invariance, HandleImplies, PTL

\* The reference count is the number of handles and of the call that holds one.
THEOREM CountTheorem == ASSUME Overlap = {} PROVE Spec => []CountIsExact
BY Invariance, CountImplies, PTL

\* Between calls every image in memory has a handle, whatever failed before, except those
\* that MemoryLoadLibrary reserved and did not release (MemoryModule.cpp:162-175).
THEOREM NothingLeftTheorem == ASSUME Overlap = {} PROVE Spec => []NothingLeftBehind
BY Invariance, RestImplies, PTL

\* A register lists no freed module, other than what its own failing step left.
THEOREM RegistersTheorem == ASSUME Overlap = {} PROVE Spec => []NoDanglingRegistration
BY Invariance, RestImplies, PTL

\* The load-order list has one module of each image, by name and headers.
THEOREM NamesTheorem == ASSUME Overlap = {} PROVE Spec => []OneModulePerImage
BY Invariance, RestImplies, PTL
=============================================================================
