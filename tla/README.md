# TLA+ models of win-polyfill-loader

The repository is a library that loads DLLs from memory into a Windows process and makes them look, to
the rest of the process, as if the system loader had loaded them. Its code is a fork of MemoryModulePP
in the middle of a rework: `src/loader/CMakeLists.txt` builds five of the files, while the others still
include a `stdafx.h` that the repository does not have. The models cover the code that is there, built
or not. What it calls without defining it (the `MEMORYMODULE` record, `RtlUpdateReferenceCount`,
`MemoryFreeLibrary`, `LdrpCallInitializers`, ntdll, the kernel) is modelled from how it is used.

## The system

Paths are relative to `src/loader/`.

| Component | State | Operations | Talks to |
|---|---|---|---|
| Module loader, `Loader.cpp` | per module: mapped, counted, reference count, which registrations were made, under unload | `LdrLoadDllMemoryExW`, `LdrUnloadDllMemory`, `LdrMapDllMemory` | every component below, in order |
| Inverted function table, `InvertedFunctionTable.cpp` | ntdll's sorted array of images with exception handlers: count, overflow flag, page protection | insert, remove, re-protect | ntdll edits the same array |
| Static TLS, `MmpTls.cpp` | records of threads with a long TLS vector, list of TLS modules, index bitmap, thread count, three locks | hooks for thread start, thread shutdown and `NtSetInformationProcess`; `MmpHandleTlsData`, `MmpReleaseTlsEntry` | every thread of the process; the kernel swaps pointers in all vectors |
| Postponed TLS worker, `MmpTlsFiber.cpp` | list of copies of vectors of exiting threads, an event | queue, release after the thread is gone, `OnExit` | threads that exit, the TLS module list |
| LDR entries, `LdrEntry.cpp` | ntdll's four module lists, the entry's DDAG node and dependency rings | allocate, initialise, link, free, find | ntdll's own loader |
| Base-address index, `BaseAddressIndex.cpp` | ntdll's red-black tree of modules | find the tree, insert, remove | LDR entries |
| Image mapping, `MemoryModule.cpp` | the pages of an image | reserve, copy, relocate, protect | the loader |
| Import resolution, `ImportTable.cpp` | the import address table | resolve each thunk | ntdll |
| .NET hooks, `MmpDotNet.cpp` | list of fake file and mapping handles, two hook transactions | file API hooks | module lists, image mapping |
| Initialisation, `Initialize.cpp` | one named section per process that every copy of the library shares | create or open, check versions, fill | everything reads it |
| ntdll TLS by pattern, `MmpLdrpTls.cpp` | two pointers into ntdll | pattern search | static TLS |
| Utilities, `Utils.cpp` | none | checksum, version tests, access tests | loader, initialisation |
| Wrappers, `LoadDllMemoryApi.cpp` | none | Win32 forms of load and unload | the loader |
| Reflective loader, `ReflectiveLoader.c` | none of its own | maps the library itself | third-party code |

What makes it hard: the hooks run on every thread of a foreign program; the thread count is changed under
one lock, changed under another and read under none; data of a dead thread is freed later, by what is
loaded then; the loader takes no lock of its own; every load has seven steps that can fail with others
already done; and several of the structures are ntdll's,
edited without ntdll's locks, laid out by the version of Windows, and found by searching its memory.

What each component must guarantee, and where it is stated:

- *Module loader.* A handle is good until it is given back; references are counted exactly; the last
  unload and every failing load take down all that was built; an image that is loaded by name is loaded
  once. (`LdrLoader`)
- *Inverted function table.* Always sorted by base, with every registered image and no stale one; ntdll
  first; overflow exactly when something did not fit. (`InvertedFunctionTable`)
- *Static TLS.* Every thread has its own, allocated copy of every module's data; nothing is freed twice;
  an index has one owner; the count is exact between operations; no thread hangs on a lock. (`MmpTls`)
- *Worker.* Data goes once, only after its thread is gone, and it goes eventually; no push is missed; the
  worker ends when the library goes. (`PostponedTls`, `MmpTlsFiber`)
- *LDR entries and index.* Lists and tree hold exactly the loaded modules; dependency rings stay rings; what
  an entry holds of other modules is given back exactly; `__fastfail` ends the process only for a cycle of
  imports. (`LdrEntry`)
- *.NET hooks.* A handle means the module it was opened for until it is closed, and no other object is
  taken for one, although handle values are used again. (`MmpDotNet`)
- *Initialisation.* All copies use one filled block or none; the searches stay inside their section and
  find ntdll's own structures where nothing in front of them looks the same. (`GlobalData`, `PatternSearch`)
- *Checksum.* An image whose header holds a checksum is accepted if and only if it is the right one, but for
  the two sums 0 and 65535 that one's-complement arithmetic confuses; a header without one (a zero field,
  `Utils.cpp:84`) is accepted unchecked. (`CheckSum`)

## The modules

| Module | Models |
|---|---|
| `InvertedFunctionTable.tla` | the array, both edits, the loader and ntdll as editors |
| `InvertedFunctionTableProofs.tla` | its proofs |
| `MmpTls.tla` | threads that start, run, exit or are killed; the loading thread; the kernel; the worker |
| `MmpTlsProofs.tla` | its proofs |
| `LdrLoader.tla` | the life of a module over the registers of all components |
| `LdrLoaderProofs.tla` | its proofs |
| `PostponedTls.tla` | the promise of the postponed release, in five variables |
| `MmpTlsFiber.tla` | exiting threads, the worker and its event, `OnExit`; implements `PostponedTls` |
| `MmpTlsFiberProofs.tla` | its proofs |
| `LdrEntry.tla` | entries, lists, tree, dependency rings and counts on three versions of Windows |
| `LdrEntryProofs.tla` | its proofs |
| `MmpDotNet.tla` | the list of fake handles and the hooks that use it |
| `MmpDotNetProofs.tla` | its proofs |
| `PatternSearch.tla` | the resumable search for bytes in a section |
| `GlobalData.tla` | the start of the copies of the library and its searches; uses `PatternSearch` |
| `GlobalDataProofs.tla` | its proofs |
| `CheckSum.tla` | the checksum of an image as operators, with their theorems |
| `MC*.tla`, `*.cfg` | values for TLC |

Definitions have the names of the functions they stand for; an operator of its own name is one step or
one branch of a function. Operators marked "Mutant" are plausible bugs of the definition after them; no
specification uses them. They are there to show that the properties can fail.

**InvertedFunctionTable.** `Entries` has one slot more than the capacity because the 32-bit removal moves
one entry too many (line 117) and that slot is the memory it reads. `os` fixes the build and the Windows
version of a behaviour. An action is a whole call. `images` are the modules whose
`InsertInvertedFunctionTableEntry` is set, `ldrImages` what ntdll's own loader put in. A failure of the
second protection call leaves the entry in while the load is undone; `stranded` remembers those entries,
and the properties speak of them.

**MmpTls.** Each thread has a `pc`; a step is what happens between two points where another thread can
observe or change something: taking a lock, a critical section as a whole when everything it touches is
guarded by its lock, each plain access to the thread count, which is not. `teb` is the kind of vector a
thread has and `slot` its upper part. `ld` is the state of the one loading call. Heap blocks are
numbers, and `live` is the set of allocated ones, so that freeing twice, using after freeing and
confusing two owners are visible. `Overlap` says which of start, exit and load the host lets happen at
the same time, `Faults` whether memory runs out, the kernel refuses, or a thread is terminated from
outside. A thread id is free again when its thread is gone and no handle in the postponed list keeps it.
Blocks are handed out lowest first; the code never compares addresses, so which free block is taken makes
no difference. A thread is terminated only in its own code: a termination inside a hook, which would
leave a lock taken for ever, is not modelled. Nor are ntdll's own calls through the hook of
`NtSetInformationProcess` (lines 450-475 and 506-523): ntdll's modules use indices of their own, below those
of this loader, and what they change, the lower part of a vector, is not in the model.

**LdrLoader.** A call of `LdrLoadDllMemoryExW` or `LdrUnloadDllMemory` is a sequence of steps over `mod`
(the `MEMORYMODULE` of each instance) and `reg` (who is in the LDR lists, the index, the inverted table and
the TLS list). What the other components do inside a registration is their own module; here a registration
happens, fails cleanly, or fails and leaves its entry (`LeftBehind`), which are the cases that
`InvertedFunctionTable` (a refused re-protection), `MmpTls` (a kernel refusal) and `LdrEntry.cpp:152-153`
show. `MemoryLoadLibrary` fails in two ways: before it has reserved the image (`MemoryLoadLibraryFails`),
and after (`SectionsFail`), when it returns without a handle and the reserved image stays. An image is a
name with its headers: the search takes a module whose name and headers both match (line 105), so that a
module of the same name with other headers is a different image. `Overlap` says which calls the host lets
overlap. A base is not used twice. The `STATUS_INVALID_PARAMETER_5` test and the exception filters of the
entry change nothing and are left out; a header that does not match its entry (line 245) and a missing
handle record (line 123) cannot arise from the steps modelled. `RtlGetReferenceCount`, which the repository
does not define, may fail in an unload (`CountUnreadable`, lines 248-250); in the unload by which a failing
load cleans up it does not.

**MmpTlsFiber.** A thread hands its data over in three steps: it opens itself and copies its vector
(`OpenThread`), pushes under the lock (`Pushed`, or `Dropped` after `OnExit`), and ends some time later
(`Ends`). `wpc` is the worker's place: about to wait, waiting, about to enter the critical section, in it, or
done; a step inside is one item of the list. `waitTime`, `code` and `iter` are its locals; `code` has no
value at first and is not written when the handle is null. `handed` and `freed` are history. `KeepsPromise`
maps a thread to alive until it is gone and is the specification of `PostponedTls`. `MmpTls` has the whole
release as one step and looks at what is freed; this module looks at when. When memory for the copy of the
vector runs out, line 101 writes through the null pointer and the process ends; that is left out.

**LdrEntry.** `tree` is ntdll's tree in order: a search by key ends in a gap, and the node is put there.
`modules` stands for the three lists and the hash chain, which take and lose an entry together. A dependency
is one block in two circular lists, `owned` and `incoming`, each a head and a successor function. `call` is
the call under way with its place: the steps are those between which ntdll can run. A round of
`RtlFreeDependencies` is two of them: the block leaves the target's ring under the loader lock
(`UnlinkDependency`), and the target is released without it (`ReleaseDependency`); `FastFail` stands for
the tests on which the code ends the process, and `shared` for the modules of a cycle of imports, which
have one DDAG node. `NtdllLoads`, `HostFrees` and `RecordDependency` are ntdll and the host program, modelled
from what the code expects to find. `stray` and `crashed` end a behaviour: behind a freed node in the tree
nothing is defined. Every dependency is of an entry of this loader on a module of ntdll's:
if a module of ntdll's depended on an entry, the entry would be freed under it, since nothing looks at the
entry's own incoming ring when it goes (line 214).

`LdrEntry.cpp` has two file statics, `LdrDataTableEntrySize` and `LdrpHashTable`, that nothing assigns; the
members of the same names in the block of globals are filled but not handed over. So the branches of lines
174, 182 and 219, which compare the size, are never taken and are left out, with them the lists of forwarders
of Vista and Windows 7. The allocation at line 105 and the hash chain at line 251 cannot work as they stand;
the model is of the rest, with an entry large enough and a table that is there. The lock of line 39, which
fails only for bad arguments, is waited for. The test of the count at line 78 and the unload at line 85 are
one step: a load of the target by another thread in between is not modelled.

**MmpDotNet.** A hook is a search under the lock, then the rest outside; `at` holds what it found in
between. `open` and `view` say what the caller asked for behind each handle and address, which the hooks
cannot see; `May` says what a correct program does with handles: it does not use one after it began to let it
go. The list's order, its entries as heap blocks, and the values of handles that are used again are all
there, because a stale entry shows only through them. `CreateFileW` finds the module under the loader lock,
and `CreateEventW` makes its handle without it; an unload in between leaves the call with a pointer to the
freed entry, whose value is then `None`. `Dangling` says which handles have such an entry; the calls that
would read it are not followed. The bytes that `MapsBytes` returns (line 263) are no view: no entry is made
for them, their unmapping is refused by the original function, and they end with the module.

**GlobalData, PatternSearch.** A copy's `Initialize` holds the PEB lock over a sequence of steps: allocate
(create or open the section), check or write the block, search for the tree, search for the table. A copy
that failed may be loaded again. `section` is the part of ntdll that is searched, as bytes; `tree` and
`table` are the true places, which the code does not know. `Root` and `Entry` are the patterns. The search
for the table tests the header in front of each hit as the code does (`LooksLikeTable`, lines 130-134):
`MaxCount` has the right value, and `Overflow` (since Windows 8) or `Epoch` is zero; each of these members is
one place of the section. The table's place goes into the shared block, the tree's into `index`, a file
static of each copy, which only the copy that creates the block writes; line 446 still assigns the result
of the search, which no longer has one, to the block. A search
that runs behind the end of its section compares with memory that the model does not know and may match.

**CheckSum.** `CalcCheckSum` folds `Plus` over the words; `Recomputed` takes the two words of the stored
checksum off. No run: the theorems hold for all words, and a theorem of its own, `PlusLaws`, says that the
order of the words does not matter. They speak of the sum of the words other than the field and of the two
words of the field added to it; that the fold over a whole image is such a sum is an induction over the
image, which the prover cannot do.

`TypeOK` documents the types of every component but `GlobalData`, whose types are part of its proof
(`BlockTypes`). Runs check it for the table and for TLS, and theorems state it for these two and the worker.

## The runs

| Run | Configuration | Shows |
|---|---|---|
| `inverted_table` | 4 bases with ntdll third, 2 sizes, capacity 3, all platforms, both protection failures | the array stays sorted, complete and without stale entries under every order of edits of loader and ntdll |
| `tls_quiet` | ids 1..3, two present at the start, id 3 may have no vector; 2 modules, 2 indices, 8 blocks; 2 starts, 2 loads; nothing overlaps | data, ownership and counts are right when the host keeps loads, starts and exits apart |
| `tls_stress` | ids 1..3, one present at the start; 2 modules, one index, 2 blocks; 2 starts, 2 loads; everything overlaps and every fault occurs; fairness | the only index has one owner while two modules compete for it; starts that contend with each other, and loads, finish |
| `tls_empty_directory` | a module without raw data; nothing overlaps | finding: `MmpTls.cpp:307` fails |
| `tls_exit_during_load` | exits overlap loads | finding: `MmpTls.cpp:734` fails |
| `loader_serial` | 1 caller, 2 DLLs, 4 bases, 6 flag sets, every step may fail | handles, counts, cleanup and registrations are right for calls one after the other |
| `loader_overlap` | 2 callers whose loads overlap; failures up to the section protection | still right, because `UseReferenceCount` is set after those steps |
| `loader_unloading` | loads and unloads overlap | finding: the check at `Loader.cpp:88` does not find modules being unloaded |
| `tls_worker` | 3 threads, exit code 259 possible, `OnExit` at any time; fairness of the worker | it implements `PostponedTls`, misses no push, frees all data at last and returns |
| `ldr_entries` | 3 entries, 2 modules of ntdll, 4 dependencies, 4 bases, 3 versions of Windows; ntdll runs while dependencies are freed; no memory for a DDAG node, no tree, a cycle of imports | lists, tree, rings and counts stay right; only the cycle ends the process |
| `dot_net` | 2 threads, 2 files, 2 handle values, 2 addresses; a copy may fail | handles and addresses mean what they were made for |
| `global_data` | 4 copies of 3 versions, 2 addresses, 4 versions of Windows, every section of 0, 3, 5 and 8 bytes, `MaxCount` 1; every system call may fail | one filled block for all; searches stay inside; they find ntdll's own unless a decoy is in front or the header does not pass |

*Bounds.* Capacity 3 with four bases lets the table be full with an image left over, lets an entry go in
before, between and behind two others, and lets a removal take the first, the middle and the last. Three
thread ids make a start race two exits and let an id be used again; two modules make an unload leave stale
data in a vector, which the next module with that index meets. Eight blocks are more than two modules for
three threads need, so that blocks of unloaded modules may pile up without blocking a start. In `tls_stress`
two threads start at once and wait for the loader lock, one index for two modules makes the second load find
the bitmap exhausted or take the index over, and two blocks are too few for three threads and two modules,
so that memory runs out at every allocation. `MaxStarts`, `MaxLoads` and `MaxHandles` bound only how often;
two of each give first use and re-use. Four bases of the loader leave room for an image that stays reserved,
one that is left in a register, and two that are loaded. Three entries give a target a ring with a head, a
node between and a tail, two targets give an owner more than one dependency, and four bases let a node go in
at either end and in between; the versions are one without a tree and the two that count dependencies apart
or together. Two threads, two handle values and two addresses make every value be used again while another
thread's call is under way; more of them give larger state spaces of the same behaviours. Eight bytes hold a
table with its header and a second one in front of it, in its header or behind it, that passes or not, and
overlapping occurrences of `Root`; three versions are a preview, an older and a newer release. Modules are
symmetric (they differ in nothing), and so are callers, images and bases of the loader; the runs with
liveness use no symmetry. Deadlock is not checked, since the host may stop calling and, in the table's
model, `__fastfail` ends the process; that no thread is stuck inside a call is what `StartsFinish` and
`LoadsFinish` say.

*Fairness.* `FairSpec` of `MmpTls` asks weak fairness of the steps of each starting and exiting thread and of
the loading call: Windows schedules every runnable thread, and each of these steps is taken by one thread as
soon as its lock is free. Nothing is asked of the host: no thread need start or exit and no module need
load. The list lock needs no strong fairness within the bounds because only a bounded number of threads
start while a load waits for it; in a program that starts threads without end it rests on the SRW lock
being fair. `FairSpec` of `MmpTlsFiber` asks weak fairness of the worker only: its thread is scheduled and a
wait with a limit ends. No thread need push, end or call `OnExit`.

## What does not hold

Three runs end in a counterexample that is a behaviour of the code. Two break an assertion of `MmpTls.cpp`:
a TLS directory without raw data makes a starting thread uncounted while its exit is counted, and a thread
that exits inside a load is counted off twice. The third contradicts a comment: nothing of this loader ever
nulls the link by which a lookup recognises a module that is being unloaded.

Other properties are stated under the conditions in which the code keeps them. With starts or exits
overlapping loads, `EveryThreadHasItsData`, `NtdllVectorUntouched`, `DataOwnedOnce` and `CountIsExact` do
not hold: the code counts threads, prepares their data and lets the kernel swap pointers without holding
anything that keeps threads from starting or exiting in between. A host has to keep them apart. With unloads
overlapping, or loads overlapping that fail after `UseReferenceCount` was set, `HandlesAreLive` and
`NothingLeftBehind` do not hold: the loader takes no lock between reading a count and acting on it. With
memory running out `UnrecordedHasNoVector` does not hold: the failed registration of a thread is ignored,
and the assertion at `MmpTls.cpp:320` fails when it exits.

`KeepsPromise` does not hold if `OpenThread` fails: `GetExitCodeThread` leaves `code` as the item before it
left it, and data of a living thread may go (`MmpTlsFiber.cpp:35`). `FreedEventually` excuses threads whose
exit code is 259, which the worker cannot tell from running ones, and `WorkerReturns` a worker that waits
without limit on the event that `OnExit` closes without signalling it: it never returns.

`NothingLeftBehind` excuses one leak openly: the image that `MemoryLoadLibrary` has reserved when it fails
later (`MemoryModule.cpp:162-175`, 187 and 238) is not released and its handle not returned, so that nobody
can free it. Every other step that fails leaves nothing.

`RegisteredOnce` does not hold if ntdll's loader runs in the middle of an insertion: the node is in ntdll's
tree while its `DllBase` is still zero. A failed allocation of the DDAG node leaves a
freed entry in the tree; the model ends there. `FastFailsOnCycleOnly` says what does end the process: an entry
that depends on a module of a cycle of imports cannot be freed, because line 28 takes the node of such a
module, which lists them all, for a corrupt one.

`CopiesAreEntered` does not hold if an address is used again
before its unmapping returns: `HookUnmapViewOfFile` frees the copy before it removes the entry. An unload
between `HookCreateFileW`'s search and its handle (`MmpDotNet.cpp:102-105`) leaves a handle whose entry points
to freed memory; `HandleMeansItsModule` counts it as such a handle, and later calls read that memory.

`BlockBehindTheName` excuses a Windows that the code does not know: there the first copy unmaps the block,
keeps the section, and the next copy reads where the block was. `FindsNtdlls` says that a decoy of the root's
pointer makes the search for the tree give up: the library then works without the index. It also says that a
table whose header does not pass (one that has overflowed and, on Windows 8 and later, whose `Epoch` is not
zero) is not found, and that other bytes which pass and stand in front of it are taken for it.
`StoredIsAccepted` excuses images whose other words add up to 65535: their right checksum is refused.

Read from the code without a model: between the two hook transactions of `MmpDotNet.cpp` the original
`GetFileVersion` is null although its hook is active, and each later call of `MmpInitializeHooksForDotNet`
overwrites the trampoline with the hooked function (line 420). `Loader.h:20` says that `NOT_MAP_DLL` makes the
loader ignore all flags after it, but `PASS_IMAGE_CHECK` is honoured before they are cleared
(`Loader.cpp:64-72`).

## What is proved

The `*Proofs` modules and `CheckSum` prove with TLAPS, for all values of the constants that satisfy the
modules' assumptions, what TLC checks on the instances above, and the laws of the checksum.

*Table.* `TypeCorrect`, `SortedTheorem`, `OverflowTheorem` and `NtdllFirstTheorem` follow from one inductive
invariant, `IInv`. Sortedness alone is not inductive: a removal could empty the table, and an insertion
could put a second entry with ntdll's base in front, unless the invariant also says that ntdll's entry is in
the table, that ntdll is among the images of its loader and never unloaded, and that its base is taken.
`InsertShape` and `RemoveShape` describe the array after an edit on both builds; `RemoveShape` is where the
extra entry of the 32-bit move is shown to land behind the table. That every registered image has its entry
and every entry its image (`RegisteredTheorem`, `NoStaleEntryTheorem`), and that an edit touches no image but
its own (`OthersUntouchedTheorem`, an action property), needs more (`EntriesInv`): no two images share a base,
so that an edit by base reaches no other image, and a base that is in the table twice is one whose insertion
failed after the fact, so that the removal of one of the two leaves nothing unaccounted for.

*TLS.* `Invariance` proves types, the locals of the loading call against its position (`LocalsInv`), the
list (`ListInv`) and the owners of indices (`IndexInv`), whatever overlaps and whatever fails; `TypeCorrect`
and `IndexTheorem` follow. The index property is inductive only with the position of the loading call: between
the bit and the list entry the index is owned by the call. `RecordTheorem` and `UnrecordedTheorem` prove the
two assertions about a thread's record and its TEB under assumptions on `Faults`; both assumptions are
needed: a terminated thread leaves its record behind, and without memory a thread has none. The
assumptions used are the modules' own: sets of numbers are numbers, the main thread is one of the
initial threads, null is none of the values. `NtdllVectorTheorem` adds that no start overlaps a load.

The three properties of TLS data are proved for a host that keeps loads, starts and exits apart, with nothing
failing and no directory without raw data (`Quiet`, the configuration of `tls_quiet`); without that they are
false (see above). `CountTheorem` rests on `MmpTlspLock`, which makes the two accesses of a decrement
one step for every other exiting thread, and on `ApartInv`, which says who can be under way together. For
`EveryThreadTheorem` and `OwnedOnceTheorem` the load must have prepared a block for every thread that the
kernel will visit (`EnoughInv`, where the exact count is used), the copies that the kernel swaps must be
what the thread owns (`OwnedInv`, `CopyInv`), and what is to be freed must be apart from what is owned
(`HeldInv`, `DataInv`). All of it holds for any number of threads, modules, indices and blocks.

*Loader.* All theorems of `LdrLoaderProofs` assume `Overlap = {}`: where an unload overlaps another call
most of them are false. None of the properties is inductive. `IInv` ties the position of a call to its
module: a module that a load is making has one reference and no handle (`InMaking`), one that is given up
has one reference more than handles (`GivenUp`), one that is taken down has no handle, and a module of no
call is settled (`Settled`). `RegInv` says that a register lists only what the module's own flags say, so
that the taking down removes it, and `NameInv` that a named load which found no match still has none when it
links its entry. `OneModuleAtATime` reduces each step to the call that takes it and to its module; then
there is one lemma per action. `CountTheorem` and `NothingLeftTheorem` hold for every set of failing steps,
the latter but for the images that `MemoryLoadLibrary` itself leaks (`Leaked`), which no call ever touches
again.

*Worker.* `NoLostWakeup` and the refinement follow from one invariant, `IInv`. The wake-up property is nearly
inductive by itself; it needs that after `OnExit` the list is empty and the worker outside its scan. The
promise needs that a listed item is of a thread that pushed once and of which nothing was freed, that an exit
code other than `STILL_ACTIVE` is that of a thread that is gone, and, where `OpenThread` succeeds, that an
item's handle is its own thread's (`HandleInv`). `PromiseTheorem` then maps each step to a step of
`PostponedTls` or to none; `EraseItem` says what is left of the vector after an erase.

*Global data.* The name passes through five phases (`Unnamed`, `Writing`, `Searching`, `Complete`,
`Abandoned`); `Phases` says what is mapped and who may have succeeded in each, and `LockInv` that only the
lock's owner is inside. `OneBlockTheorem` and `NameTheorem` follow for any copies, versions, Windows and
contents of the section. `SearchTheorem` and `FoundTheorem` are about the searches: `FindsNext` says that a
resumed search goes to the next occurrence or ends if there is none, and `SearchInv` that the search for the
tree has met at most the first candidate and the one for the table has not passed a place whose header passes
the code's test. So a second candidate for the tree is always noticed, and what is taken for the table is the
first place that looks like one: ntdll's own exactly if its header passes and no decoy is in front of it.

*LDR entries.* `IInvariance`, `RingsTheorem`, `CountsTheorem` and `FastFailTheorem` hold whatever fails and
wherever ntdll's loader runs. A ring is stated without recursion, as a set that the links permute and no
proper part of which is closed under them (`Circle`); `RingGrows` and `RingShrinks` keep it, and
`WholeIsRing` proves that the walk of `Reached` then meets each block once and is back, by the first step at
which it would not. While an entry is being freed its own ring is what `Rest` says of the blocks left. The
owner's mark in the target's ring is found at the right block because ntdll records a target once for an
owner (`FindsItsBlock`); without that `RtlFreeDependencies` could free a block that is still linked.
`CountInv` states the two ways of counting, before and since Windows 10. `FastFailTheorem` follows: a
dependency keeps its target alive, in its ring and counted, so that only a shared node is left to end the
process. `RegisteredTheorem` assumes that ntdll's loader runs in a call only while dependencies are freed,
as it must: with `OrderInv`, the node of the entry under way has the key it was inserted with, not its
`DllBase`, so that the tree stays in order.

*.NET hooks.* Both theorems assume that no address is used while it is being unmapped (see above).
A hook searches under the lock and acts later without it; `ThreadInv` says that the entry it found is still
in the list, which rests on `ExclusiveInv`: who lets go of an object is alone with it, and one call makes it.
`HandleInv` and `BaseInv` follow a value through its life: not entered while it is free or another
object, entered or about to be while it is ours, and taken out before the handle can be given out again.

*Checksum.* `PlusLaws`, `StoredIsAccepted` and `AcceptedIsStored` are arithmetic on words, with every division
first turned into a case (`PlusValue`, `MinusValue`).

Every invariant that a run checks is stated by a theorem, most under the conditions that the run's constants
have, and so is the action property of the table. Model-checked only: the four liveness properties (the
prover has no rules for fairness used here), and what still holds of `LdrLoader` when loads overlap
(`loader_overlap`), where the theorems assume that they do not. Not proved either: what a fold over an image
computes (see *CheckSum*), which is an induction over data. Where a proof needs a least place or a first
failing step it is had from the library's theorem that `<` on numbers is well-founded, which needs no
operator as a parameter.

## The plan

Done, in order of importance: `InvertedFunctionTable`, `MmpTls`, `LdrLoader`, then `MmpTlsFiber` with its
abstract specification, `LdrEntry`, `MmpDotNet`, `GlobalData` with `PatternSearch`, and `CheckSum`. Left:

1. Theorems: the loader's counts and handles when loads overlap.
2. Abstract specifications: the table as a set of images with a flag, which the sorted array implements; a
   module as absent, loading, loaded or unloading with a number of handles, which `LdrLoader` implements
   for calls that do not overlap.
3. Operators for image mapping: the relocation of an image and the protection of its sections.
4. The two hooks of `GetFileVersion`, the search for ntdll's hash table, and `ReflectiveMapDll`.

## What is not modelled, and why

The wrappers convert strings and call the loader. The patterns of `MmpLdrpTls.cpp` and the search for the
hash table scan a particular ntdll; the 32-bit search for the inverted table differs from the 64-bit one in
what it compares. The hooks of `GetFileVersion` and `GetFileAttributesExW` use only names and no state of the
list, and an event that cannot be created puts a null handle into the list (`MmpDotNet.cpp:103`), which is
left out. The reflective loader, the headers under `src/deps` and the C runtime are third-party code.
`Main.cpp` calls a few functions with null arguments so that they are linked. `docs/` is an export list and
`tests/` a stub. Image copying, relocation and the walk over imports write only the image and appear as steps
that succeed or fail. A worker that is terminated, or dies of an exception, inside its critical section is not
modelled.

