# Formal models of mozi

This directory holds TLA+ models of the parts of mozi that carry its own logic,
the TLC configurations that check them on small instances, and TLAPS proofs of
the safety properties, for every instance. Run TLC on an `MC` module with the
configuration named below, `tlapm` on the modules that end in `Proofs`.
`PROJECT.json` lists the runs, the hazards the properties aim at, and the lines
of the code behind every definition.

Large parts of the repository do not compile as they stand (misspelt
identifiers, a misplaced semicolon in `RegisterConsumer`, a missing one in the
predicate of `Flush`). Such slips are read in their evident sense; a condition
or assignment that does compile is modelled as it is written, even where
something else was meant. One slip is
more than a spelling: the subtraction of two numbers, `sequence_number.h:159-168`,
declares no `res` and borrows without comparing the low words. `Difference` of
`SequenceNumber` supplies both after `operator-` of a number and an integer above it
(lines 133-144), so what is checked and proved of it is about that reading.

## 1. The system

### Inventory

| Component | State | Operations | What is hard | What makes it correct |
|-|-|-|-|-|
| Coroutine runtime, `core/coroutine/detail/mzco.*`, `mzswap.S` | `mz_t` (registers, save buffer, `is_end`), `mz_share_stack_t` (`owner`, memory), thread-local `mz_gtls_co` | `mz_create`, `mz_resume`, `mz_yield`, `mz_exit`, `mz_destory`, share stack creation and destruction | Several coroutines execute in the same memory; images are copied out and in, long before a mistake shows | A resumed coroutine finds its stack as it left it; owners do not dangle; images fit their buffers |
| Share stack sizing, `mzco.cc:191-298` | size, guard page, limit | `mz_share_stack_new2`, `mz_share_stack_destory` | Rounding and alignment at page boundaries | Large enough, limit above the guard page, no abort |
| Logger, `core/log/logger.*` | `Resources`: queue, consumers, filters, flags, worker thread, two mutexes, one condition variable | `QueueLog`, `Flush`, `ClearConsumers`, `RegisterConsumer`, filters, `Reset`, `KillThread`, `run` | Every interleaving of callers and worker; lost wake-ups; kill and restart | Nothing lost or reordered, `Flush` delivers, nobody waits for ever |
| Double buffered queue, `double_buffered_queue.h` | front and back queue with a mutex each | `Push`, `Pop`, `Front`, `Swap`, `Empty`, `BothEmpty`, `Size`, `Clear` | `Swap` discards the front queue | FIFO as long as the consumer drains first |
| `MzCoroutine`, `core/coroutine/mz_coroutine.*` (and its older form `coroutine.h`) | `CoState`, update flag, lock flag, wake time | construction, `Resume`, `Yield`, `HangUp`, `Sleep`, `UpdateState`, `SetUpdateFlag`, `Acquire`, `Release`, `Stop` | Notifications racing with suspension; entry functions that return | A resumed coroutine has its own context; a notification ends one wait, a sleep ends |
| Semaphore, `core/utils/semaphore.h` | count, `disable_` | `post`, `post(n)`, `wait`, `enable`, `disable` | Waiters across disable and enable, wrap-around | No permit lost or invented |
| Object pool, `core/internal/object_pool.h` | cells, `free_index_`, `size_` | reserve, construct, add, remove, free, get, iterators | Circular search, stale pointers | Every object destroyed once, `size_` counts the used cells |
| RTPS history, `rtps/storage/history.*`, `reader_history.h` | list of changes, full flag, recursive mutex | find, remove (by iterator, pointer, predicate), `getChange` | Callers hold the mutex over several calls, or do not; iterators go stale | Every change is in the list until it is released |
| Cache change, serialized payload, `cache_change.h`, `serialized_payload.h` | length, capacity and block; fragment list inside the payload bytes | `setFragmentSize`, `addFragments`, `copy`, `reserve`, `empty` | Fragments out of order, repeated and overlapping, of any size; list nodes that overlap; failing allocations | Not complete before the first fragment; data stays inside the payload; no loop without end |
| Bitmap range, `fixed_size_bitmap.h` | base, words, number of bits | add, remove, ranges, moving the window, bitmaps of others | Word boundaries, windows that move past everything, `remove` on an empty range | It is the set of the numbers put in |
| Sequence numbers, time, durations | two words; wrapping words | arithmetic, comparison | Carries, signs, wraps | Agreement with the integers |
| GUIDs, entity ids | octets | comparison, text | A comparison that turns its argument round in place | One order; a lone comparison restores |
| Locators, `ip_locator.*` | kind, port halves, 16 octets of address | setters, classification, texts | The octets mean something else for each kind; three ways to read an IPv6 text | A text means its address; one class per locator |
| Properties, `property.h`, `binary_property.h` | names, values, flags | construction, serialised sizes | Alignment of each length | The announced size is that of the message |
| Component factory, shared library | callback map, library handle | register, unregister, create, load, unload | A handle closed twice, an entry of unloaded code | Code stays while somebody holds it and is not called afterwards |
| Singleton, `singleton.h` | pointer, once flag | `Instance`, `CleanUp` | Test outside `call_once`, exceptions, no memory | One whole object or none |
| Log consumers, host identification, executor, endpoints, message receiver, geometry, autopilot modules, simulation | | | I/O, system calls, floating point, or declarations only | not modelled |

### Interactions

The runtime is used through `MzCoroutine`, which gives each coroutine a share
stack of its own and takes as its main coroutine whatever `mz_get_co` returns, or a new one;
the runtime's own tests and `doc/EN/coroutine.md` use several coroutines per
stack. The logger is called from every other component through macros; it
shares `Resources` between its callers and its worker, under `cv_mtx` (flags
and waiting), `config_mtx` (consumers and filters) and the two mutexes of the
queue. A `CacheChange` contains a `SerializedPayload` and keeps its list of missing
fragments inside it; a history keeps pointers to changes and orders them by
sequence number; sets of sequence and fragment numbers are what reliability
messages will carry; a locator, a GUID and a property list are values that
endpoints exchange. The endpoints themselves are declarations without bodies, so
these parts are called by nobody yet and are modelled as their interfaces allow
them to be called. Component libraries register themselves in the factory's map
when `SharedLibrary` loads them.

## 2. Modules

| Module | Models | State and actions |
|-|-|-|
| `PrivateStacks` | the promise of the runtime | every coroutine has an image of its own; only the executing one changes its image |
| `MzCo` | `mzco.h`, `mzco.cc`, `mzswap.S` | the fields of `mz_t` and `mz_share_stack_t` as functions of their address, the memory of each stack; one action per API call, three for the ways through `mz_resume`, one for its assertions |
| `MCMzCo` | | symmetry for TLC |
| `MzCoProofs` | | proofs about `MzCo`, and that it implements `PrivateStacks` |
| `LogDelivery` | the promise of the logger | one row of entries; its head is handed, once, to the consumers and under the filters of that moment |
| `DoubleBufferedQueue` | the queue | two sequences and its operations, composed into `Logger` |
| `Logger`, `LoggerProofs` | `logger.cc` | `Resources`, one program counter per thread, the set of threads inside `cv.wait` |
| `Semaphore`, `SemaphoreProofs` | `semaphore.h` | counter, `disable_`, the threads inside `wait` split into blocked and woken; one action per call and per test of the predicate |
| `ObjectPool`, `ObjectPoolProofs` | `object_pool.h` | the cells, `free_index_`, `size_`, the objects alive in the cells, one iterator; one action per call |
| `MzCoroutine`, `MzCoroutineProofs` | `mz_coroutine.*` | state, flags and wake-up time of each object, the saved contexts and who executes |
| `CacheChange` | `cache_change.h` | fragment list in the first bytes of the payload; one action per operation |
| `SerializedPayload` | `serialized_payload.h` | length, capacity, block; every allocation may fail |
| `BitmapRange` | `fixed_size_bitmap.h` | words of bits, each the set of the offsets that are 1; beside it the set meant |
| `History` | `history.cc`, `reader_history.h` | list, mutex, the iterator each thread holds |
| `SequenceNumber` | `sequence_number.h` | two words, beside them the integer |
| `TimeArithmetic` | `time.cc`, `duration.cc` | a time, a duration, a mark, beside them the integers meant |
| `IPLocator` | `ip_locator.cc`, `locator.h` | one locator under every sequence of setters; classification and comparison are operators |
| `IPv6Text` | the texts in `ip_locator.cc` | a text as its fields, an address as its groups |
| `Guid` | `guid.h` | two GUIDs, one of which may have been read from a text |
| `EntityId` | `entity_id.h` | the octets of a shared id, one step per access of a thread |
| `Properties` | `property.h`, `binary_property.h` | a sequence of properties with their sizes and flags |
| `ShareStackSize` | the arithmetic of `mz_share_stack_new2` | requested size to area, guard page, `align_retptr`, `align_limit` |
| `Singleton` | `singleton.h` | once flag, pointer, a program counter per thread |
| `ComponentLibrary` | `shared_library.cc`, `component_factory.cc`, `register_macro.h` | handles, reference counts of the loader, the callback map and the calls of its callbacks |
| `MCMzCo`, `MCLogger`, `MCSemaphore`, `MCObjectPool`, `MCMzCoroutine`, `MCShareStackSize` | | instances of one component |
| `MCStorage`, `StorageProofs` | | `CacheChange`, `SerializedPayload`, `BitmapRange`, `History` |
| `MCValues`, `ValuesProofs` | | `SequenceNumber`, `TimeArithmetic`, `IPv6Text`, `IPLocator`, `Guid`, `Properties`, `ShareStackSize` |
| `MCSharing`, `SharingProofs` | | `EntityId`, `Singleton`, `ComponentLibrary` |

The last three put small components side by side in one run. A behaviour stays
in one part, which its initial state chooses (`part`), so nothing is multiplied
and no part can hide what another does. The first component is extended, the
others are instances with variables of their own, which stay as they begin while
another part runs.
A property of such a run is the
conjunction of what its parts promise, each guarded by `part`; the conjuncts are
defined, with a comment each, in the module of the part, its `TypeOK` among them.

Operators whose comment begins with "Slip:" (or "A plausible slip") are not
part of the models. Each is a mutated form of the definition that follows it:
a forgotten reset, a boundary off by one, a wake-up left out. Every property
was confirmed to fail when the definition is replaced by its slip, so no
property holds for lack of anything that could break it.

### The coroutine runtime (`MzCo`)

Addresses are model values; an address is in `live`, `mains` or `stacks` while
the object behind it exists, and can be reused after it was freed, as `malloc`
does. The memory of a stack is counted in words from `align_retptr` downwards,
a stack pointer is the number of words in use. `Run` is what user code does:
it grows the stack by at most one word, or returns to any smaller depth, and
writes the top word. Words below the stack pointer stay behind as garbage, so
an image copied a word short or a word long would be noticed. A coroutine may
run past `align_limit` into the slack between the limit and the guard page,
which only the assertion of a later `mz_resume` discovers. Past the guard page
the program receives a signal and ends; that is outside the model.

`ResumeOwner`, `ResumeFree` and `ResumeEvict` are the three ways through
`mz_resume`: the coroutine still owns its stack, nobody does, or another does
and is saved first. `ResumeAbort` is any failing assertion. `Exit` is
`mz_exit`, `Return` an entry function that returns into
`mz_funcp_protector_asm` and aborts.

The guards contain the contract of the API that nothing in the code enforces:
only the main coroutine resumes (`doc/EN/coroutine.md:53`), nobody uses a freed
object, a stack or main coroutine outlives the coroutines on it, and no
coroutine destroys itself. What a caller gets who breaks it is undefined in the
code and absent from the model. Fields of a freed object are reset, because no
legal program reads them.

Left out: registers other than the stack pointer (saved and restored together
with it in one routine), FPU control words, `max_cpsz`, the Valgrind hooks and
failing allocations. Threads do not interact: `mz_gtls_co` is thread local.

### Share stack sizing (`ShareStackSize`)

Addresses are offsets from `ptr`. Page size and minimum size are parameters, 64
and 64 in the runs instead of 4096 and 4096, so that TLC can try every size;
the arithmetic has no other constant that depends on them. The expression
`sz & (u_pgsz - 1 != 0)` is modelled by what the compiler makes of it, a test
of the lowest bit.

### The logger (`Logger`)

A thread that calls a function goes through the steps the function has between
points where others can interfere: acquiring and releasing `cv_mtx`, the lock
scopes of the queue, notifications. `cv_mtx` names the thread that holds it. A
scope that merely assigns a few fields under the mutex is one step that
requires the mutex free. `condition_variable::wait` is split as its contract
says: test the predicate, release and block (`FlushSleep`, `ClearSleep`,
`RunSleep`), be woken by `notify_all` or spuriously (`SpuriousWakeup`), take
the mutex again (`Wake`), test again. The accesses of `logging_thread` in
`KillThread` outside the mutex are steps of their own.

Queue operations are atomic, since each holds the mutexes of the queues it
touches throughout. Entries are numbered in push order. `mark`, `calls`,
`pushed` and `popped` are history variables. `filter` says whether a filter is
set that nothing passes. `current_loop` restarts after `MaxLoop` (10000 in the
code, 1 in the runs, which makes a restart frequent).

Left out: verbosity (it decides in the macros whether `QueueLog` is called),
`ReportFilenames` and `ReportFunctions` (they blank fields of an entry), what
consumers write, and two threads inside `KillThread` at the same time, which is
undefined behaviour of `std::thread`.

### The semaphore (`Semaphore`)

Every operation holds the mutex from its first statement to its last, so each
is one step. A call of `wait` either takes a permit or blocks; a blocked thread
is woken by a notification or spuriously (`SpuriousWakeup`) and then tests the
predicate once it has the mutex: it takes a permit (`WakeTake`), leaves because
the semaphore is disabled (`WakeLeave`), or blocks again (`WakeAgain`). A wait
on a disabled semaphore returns at once and changes nothing. The counter is
unsigned and wraps around at `MaxWord`: a thread that leaves a disabled
semaphore decrements it all the same, and `post()` there increments it past the
largest value. `posted` and `taken` are history variables that count permits
since the last `enable`.

Two things the code does are worth knowing. `post()` has an effect only while
the semaphore is disabled, `post(n)` only while it is enabled, so a waiter of an
enabled semaphore is released by `post(1)` and never by `post()`. And a waiter
that `disable` has woken may block again if `enable` is called before it gets
the mutex; `DisableReleases` is stated accordingly.

### The object pool (`ObjectPool`)

A pointer is an offset from `first_`. `Reserve` stands for `reserve` and
`allocate`, `Construct` for `construct`, `add`, `create` and `insert`, `Remove`
for what `remove` and both `free` do to a cell in use (on any other they do
nothing). The loop of `nextFree` is one step: `NextFree(i)` holds of the first
free cell in circular order from `free_index_`. `life` counts the objects in
the room of each cell, `abandoned` the cells whose object the user removed
without destroying it; `seen` and `through` are the history of an iterator. By
contract `remove(i, true)` and `free(ptr, true)` are for objects that the pool
constructed; on raw memory they would run a destructor where there is no object.
`reserve` does not note the address of the room in the cell, so `get` on a
reserved cell gives the null pointer, or the address left from the cell's last
object, which is the same room.

### The wrapper (`MzCoroutine`)

One thread runs the coroutines; `mz_gtls_co` is a variable of the thread, and a
coroutine is constructed and resumed by the same one. It is NULL until a first
`mz_resume` assigns it (`mzco.cc:450-452`), and neither the constructor nor `mz_create` assigns
it, so every object constructed before gets a main coroutine of its own from
`Construct`, which nothing ever frees. `Mains` are those main coroutines; one that no
object and not the thread refers to counts as unused, so that objects can come and go.
The runtime is reduced to what the wrapper can
get wrong: which flow of control each saved context would resume. `mzswap(a, b)`
saves whoever executes in `a` and loads `b`, so a coroutine that is resumed by
another than the one that constructed it overwrites a context that was still
needed; `crossed` notes that this has happened, and `OwnContext` says what holds
until then. `Yield(state)`, `HangUp` and `Sleep` set the state before they
yield, and other threads may call in between. `Stop` and `SetUpdateFlag` are
modelled by what they assign: `Stop` assigns the value that is already there,
and the flag that `SetUpdateFlag` sets is the one that `UpdateState` sets as
well and nobody clears, so in the lifetime of a coroutine at most one wait is
ended by a notification (`OneUpdate`). A coroutine is destroyed only when nothing
of it is needed any more: the thread is not in it, nobody returns to it, and its
registers hold its own context.

### Storage (`CacheChange`, `SerializedPayload`, `BitmapRange`, `History`)

`CacheChange` follows the list of missing fragments byte by byte. A node is four
bytes of the payload, at `(offset + 3u) & 3u` for a fragment that begins at
`offset` (`NodeOf`): the complement of the mask is missing, so every node begins
at one of the bytes 0 to 3, and only the first seven bytes of the payload
(`NodeBytes`) can ever hold one. If fragment sizes are multiples of four all
nodes are the bytes 3 to 6 (`OneNode`); with other sizes they overlap and
overwrite parts of each other, `FreshList` builds what is left of them, and a
walk (`Walk`, `Skip`) may go round for ever, which `hung` notes. Bytes that a
node has behind a block of less than seven may be anything at each call
(`Found`), and writing one there is noted (`nodeOutside`). An index stands in the
lowest byte of its node; one that does not is beyond every fragment (`FAR`).
Data that is copied in goes over these bytes too and may be read as indices
(`Data`). Fragment numbers, counts and lengths are whatever can arrive, in 32
bits (`W`).

`SerializedPayload` counts bytes and lets each allocation fail. `copy` assigns
the length before it refuses; `refused`, `failed` and `dropped` remember what
has gone wrong so that the properties can say what still holds.

`BitmapRange` keeps the words as sets of offsets and shifts them as the code
does, carrying between words. `wide` is the argument of the template and chooses
between its two uses: fragment numbers, whose sums wrap, and sequence numbers, whose
sums do not. The fragment numbers tried stay a window below the wrap. `set` is
what a user expects to be inside; it is followed as long as `exact`, that is
until a bitmap claims more bits than there are, the base moves down (the code
takes the bits that cross words from the wrong side), it moves by 2^32 at once, or
`remove` is called on an empty range with a number beyond the bitmap: `max()` of an
empty range is the last number there is, so the word that `remove` changes may lie
behind `bitmap_`, and when the number is that maximum `num_bits_` is computed from what
lies there. From then on `num_bits_` is any number, and `isSet` and `for_each` promise nothing.

`History` takes the operations one call at a time and lets a thread hold the
mutex across calls, as its users do. Adding a change has no body in the
repository and is external. `removeAllChanges` begins with `mp_mtx_ = nullptr`
in its condition and crashes at the lock: no behaviour goes on after it.
`removeChange(CacheChange*)` only looks.

### Values

`SequenceNumber`, `TimeArithmetic`, `IPLocator`, `IPv6Text`, `Guid` and
`Properties` carry, beside the representation of the code, the mathematical
value it stands for. Word sizes and numbers of octets are parameters: the code
treats all octets and groups alike, so that five groups, three octets of prefix
and words of three bits have every carry, run of zeros and padding that occurs
with the real ones. What is known to be wrong is stated as it is:
`setLogicalPort` returns the port and sets nothing; `isMulticast` compares the
wrong kind and assigns where it should compare; an IPv6 text with `::` between
two groups is always refused (`MiddleRefused`); one that ends in `::` is accepted, but
the groups that `::` stands for become the group before it instead of zeros
(`OpenEnd` in `AcceptedIsMeant`), so `1::` is read as `1:1:1:1:1:1:1:1` and reported as
read; a zone behind too few groups is read as groups (`Plain`); the text of a GUID reads back as
the unknown GUID (`ReadBackIsUnknown`).

### Shared values (`EntityId`, `Singleton`, `ComponentLibrary`)

`EntityId` takes each load and store of the two `reverse` calls of `operator==`
as a step, on an id that several threads compare. `Singleton` takes `Instance`
apart: the test of the pointer, `call_once`, allocation, construction, the store
of the pointer. The pointer is not atomic, so the store may become visible
before the constructor's own writes, unless the constructor throws.
`ComponentLibrary` counts the references that `dlopen` and `dlclose` keep;
`Unload` leaves the handle as it is and the destructor closes again. The map of the
factory holds function objects made by the code of a library. Nothing takes an
entry out when that code goes, so that the next `CreateSingleComponent`, and the
registration or unregistration that destroys the old function object, calls code
that is not there (`Stale`, `crashed`; destroying a function object need not call
it, so that is a choice).

## 3. Runs

| Run | Question | Instance |
|-|-|-|
| `co_one_stack` | Do coroutines on one stack ever see each other's data? Are owner, current coroutine and save buffers consistent? | 3 coroutines, 1 stack, limit 1 word, 1 word of slack |
| `co_deep` | Do growing buffers keep images intact, and do stacks and main coroutines disturb each other? | 2 coroutines, 2 main coroutines, 2 stacks, limit 3, initial buffer 1: buffers grow twice, to 4 words |
| `log_safety` | Do the queues and the rounds implement the row of entries of `LogDelivery`, is anything lost, does `Flush` deliver, does `ClearConsumers` wait? | 2 logging threads (one also flushes, one clears), 1 that kills, registers, resets and filters, 3 entries |
| `log_liveness` | Is every entry delivered, do `Flush`, `ClearConsumers` and `KillThread` return? | 1 thread that logs and clears, 1 that flushes, 1 that kills, 2 calls |
| `semaphore` | Is a permit lost or invented, does a thread sleep beside a permit, does `disable` release the waiters? | 4 threads, 7 the largest word, 6 permits, 3 at a time |
| `object_pool` | Do `size_` and the cells agree, is each object destroyed once, is an iteration complete? | 3 cells of 2 bytes, every pointer into and just outside them |
| `mz_coroutine` | Does each coroutine keep its context, what does an update end, does a sleep end? | 2 coroutines, which may construct each other, 2 main coroutines; 3 times |
| `mz_coroutine_return` | May a user function return? No: see findings | 1 coroutine |
| `stack_size_assert` | Does every size survive `mz_share_stack_new2`? No: see findings | sizes 0..300, pages of 64, with and without guard page |
| `storage` | Are fragments, sets of numbers, changes and payloads what was put in? | payloads of 0, 5 or 9 bytes, fragments of 0, 3, 4 or 5, words of 32 values; 3 words of 2 bits; 3 changes of 2 writers, 2 threads; blocks up to 4 bytes |
| `values` | Are the values what they stand for, their texts and sizes right? | words of 8 values, 4 of them high; times of 16; addresses of 5 groups; prefixes of 3 octets; 2 properties; stack sizes 0..300 |
| `sharing` | What do comparisons, constructors and loads do to each other? | 2 comparing threads, 2 ids; 3 threads in `Instance`, 2 exceptions; 2 libraries of one name, 2 objects, 2 loads each, 2 references |

Why these bounds are enough. A copy involves the coroutine resumed and the
owner evicted; a third coroutine adds every order in which an image can wait
while two others use the memory. One word within the limit and one beyond
separate "empty", "full" and "too deep"; `co_deep` adds images with content at
several depths. What holds for these instances is moreover proved for all. In the
logger the longest chain of rounds that an entry or a `Flush` depends on is
three (the round in progress, the one that takes the back queue, the one that
announces it); three entries and a loop counter of two values produce all of
them, including a `Flush` that sees the counter return to the value it
remembered. Four threads and three permits at a time give every number of
sleepers and wake-ups with a permit taken in between; the counter wraps around
in both directions. Three cells are the least for which the circular search
passes over a used cell and round the end in one call, and an iterator has
cells before, at and behind it. Two coroutine objects suffice for a context to
be loaded by the wrong one. Nine bytes hold three fragments of 3 or 4 bytes, so that a list has a first, a middle
and a last member, and two of 5. Fragments of 4 put all nodes in one place, those of 3
and 5 put them at 3, 2, 1 and at 3, 0; a payload of 5 has nodes that reach beyond it. Three words of a
bitmap have one that is neither first nor last, and two bits a boundary on each
side. Three changes are the least with which a removal passes one that stays and
one that goes. An entity id is swapped pair by pair; a second thread gives every
overlap of two swaps, and the proof covers more threads.

**Deadlock.** It is checked for the coroutine runtime, where a failed assertion
is the only end (`Gone`), for the stack sizes and for the semaphore. Elsewhere the configuration switches
it off, for the reason it names: a destroyed pool is used no more; the number of
log calls is bounded and a program that calls nothing more stops; an assertion
or a crash ends the process; a text or a GUID is read once.

**Fairness.** The logger assumes strong fairness of the worker and of each
thread inside a call. Weak fairness is not enough because a thread that waits
for a mutex is not continuously able to take it, others hold it in between; the
C++ standard's mutexes on the supported platforms do not starve a waiter for
ever. The semaphore has weak fairness of a woken thread: its operations are
single steps, so nobody holds the mutex in between and the thread can go on all
the time. `MzCoroutine` has weak fairness of the clock and of `UpdateState`:
the latter is what a scheduler does for the coroutines it keeps, and since the
scheduler is not in the repository it is an assumption about it, which the
`SleepEnds` property states in its comment. `Singleton` has weak fairness of a
thread inside `Instance`; that a constructor throws finitely often (`MaxThrow`)
is assumed, since one that always throws sends every caller back with an
exception anyway. No thread is obliged to begin a call, and no spurious wake-up
is obliged to happen.

### What the runs show

- The runtime implements private stacks, and every field of it is consistent.
- **Finding** (`stack_size_assert`): an even size above one page that is no
  multiple of the page size aborts the program when a guard page is requested.
  `mzco.cc:217` tests `sz & (u_pgsz - 1 != 0)`, that is the lowest bit of `sz`,
  so such a size is not rounded and the assertion at line 232, that the area is
  a whole number of pages, fails. The documentation calls the size advisory
  (`doc/EN/coroutine.md:50`). Odd sizes are rounded, and everything that
  survives is large enough (`LargeEnough` in `SizesFit`).
- **Finding** (`mz_coroutine_return`): `coEntry` returns when the user function
  does, while the protector under it demands that a coroutine "should call
  `mz_exit()` instead of direct `return`" (`mzco.cc:145`) and aborts.
- The logger hands on one row of entries, whatever its consumers and filters
  go through between two entries of a round.
- The logger loses no entry between `Push` and `Pop`, although `Swap` discards
  the front queue, because only the worker swaps and it drains first. Killing
  and restarting the worker keeps that, since a worker is joined before
  `logging_thread` is reset.
- `Flush` does not promise everything that was logged before it: an entry that
  sits in the back queue while the worker has drained the front queue but not
  yet counted the round is left to the next round, and both waits may be
  satisfied by the end of this one. `FlushDelivers` states exactly what is
  promised (`Covered`).
- `ClearConsumers` waits without regard to `logging`. After `KillThread` has
  left entries behind it waits until somebody logs again; `ClearReturns`
  therefore promises a return unless somebody stops the logger.
- `KillThread` can wait for ever: if the first `QueueLog` starts a worker
  between the two halves of `KillThread` (lines 214 and 216), the worker is
  joined without having been told to stop. `KillReturns` states what remains
  true: once logging is off when it goes to notify, it returns.
- The semaphore never loses a wake-up and its counter is exact while it is
  enabled, although it passes through meaningless values while it is disabled:
  `enable` clears whatever `post()` and leaving threads have done to it.
- The pool destroys each object once, in whatever order cells are reserved,
  constructed, removed and freed by pointer, and an iterator misses no cell that
  stays in use.
- Coroutines that construct coroutines keep their contexts as long as each is
  resumed by its creator, and only then.
- The first fragment decides: no sample is complete before it came, and if
  fragment sizes are multiples of four and the payload has seven bytes it alone
  completes the sample, whatever else is missing. With other sizes, nodes
  overwrite each other, calls can loop for ever and fragments can be taken for
  received; with a payload shorter than seven bytes nodes are written behind it.
  `FirstFragmentDecides` and `StaysWithin` state this as it is. In
  every case no fragment data leaves the payload while no copy was refused.
- A bitmap range is the set of what was put in and neither taken out nor passed
  by the window, but for the calls named under `BitmapRange`.
- An IPv6 text that is accepted and has neither a zone nor an open end means the
  address it leaves. One with an open end (`1::`) is accepted and read as another
  address, and one with `::` in the middle is refused.
- A refused or failed payload operation leaves sizes that belong to no block;
  a crash in a later copy takes an allocation that failed before it.
- Threads that compare one entity id at the same time may see and leave it
  turned round, but an octet never leaves its pair; a comparison alone is
  harmless.
- The singleton hands out one whole object to whoever passes `call_once`; only
  the unguarded test in front of it can hand out one that is not yet
  constructed. A failed allocation is final.
- A library loaded through two objects stays as long as neither closes it too
  often; `Unload` followed by the destructor does. The entry for the name of a loaded
  library may be that of a library of the same name loaded after it, and unloaded
  since: then creating the component calls code that is gone. Only a program that
  unregisters each name before the last `dlclose` of its library is safe
  (`UnregisteredFirst`).

## 4. Proofs

`MzCoProofs` proves the invariants of `MzCo` for any sets of coroutines, main
coroutines, stacks and words and any limit, slack and buffer size, from
`ParamAssumption` only (the null pointer is no object, sizes are positive). The
inductive invariant is

    IInv == TypeOK /\ PartsExist /\ OwnerIsLive /\ RunningOwnsStack
            /\ SavedImageComplete /\ CopiedBackOnce

`PartsExist` (the stack and main coroutine of a live coroutine exist) is needed
so that the stack whose owner a step changes is one the other conjuncts speak
about. `OwnerIsLive` identifies the coroutine that `mz_resume` evicts, and
`RunningOwnsStack` shows that nothing but the executing coroutine writes to
memory that an owner has not saved. `SavedImageComplete` needs the assertion at
`mzco.cc:369`: without it an image beyond the limit would be saved, and
`valid_sz <= Limit` fails. There is one lemma per action and one step per
conjunct the action can disturb.

| Theorem | States |
|-|-|
| `Invariance`, `TypeCorrect` | `IInv` and `TypeOK` are invariants |
| `OwnerNeverDangles` | `OwnerIsLive`: an owner is a live coroutine of that stack that is not over |
| `RunnerOwnsItsStack` | `RunningOwnsStack`: the assertion of `mz_exit` never fails |
| `ImageIsSaved` | `SavedImageComplete`: an evicted coroutine has its whole image in its buffer |
| `SavesAndRestoresPair` | `CopiedBackOnce`: no image is restored twice |
| `StacksArePrivate` | `MzCo` implements `PrivateStacks` |

The refinement mapping takes as the frame of a coroutine the words up to its
depth, from the memory of its stack if it owns it and from its save buffer
otherwise. Stack and main coroutine creation, and aborts, are stuttering steps;
the three ways through `mz_resume` are one abstract `Resume`, and the proof for
each is that the copying changes the frame of no coroutine.

`SemaphoreProofs` proves the safety of the semaphore for any finite set of
threads and any word width, from `SemaphoreAssumption` (the permits posted
between two calls of `enable` fit a `size_t`). The inductive invariant is

    IInv == TypeOK /\ blocked \cap woken = {} /\ NobodySleepsDisabled
            /\ PermitsConserved /\ NoLostWakeup

`NobodySleepsDisabled` is what makes `NoLostWakeup` survive `enable`: the
sleepers it would have to speak about do not exist. The argument of
`NoLostWakeup` is one of cardinalities: `post(n)` adds n permits and either n
woken threads or wakes all, and a thread that takes a permit on its way out, or
finds none, keeps the balance.

`ObjectPoolProofs` proves the pool for every capacity and object size with

    IInv == TypeOK /\ SizeCounts /\ ObjectsTracked /\ IteratorInv

where `IteratorInv` says that every cell an iterator has behind it and should
visit, it has visited, and that such cells are in use.

`LoggerProofs` proves the logger for any number of threads, consumers, entries
and rounds, from `LoggerAssumption` (the worker is no caller, one thread kills).
The inductive invariant is

    IInv == TypeOK /\ CallsCounted /\ QueuesHold /\ WorkerInv /\ MarksInv
            /\ FlushInv /\ ClearWaitsForBacklog /\ ReceivedInv

`WorkerInv` is the heart of it: only a draining worker has anything in the front
queue, so that `Swap`, which discards that queue, never discards an entry, and
there is one worker because it is joined before `logging_thread` is reset.
`FlushInv` follows what `Flush` waits for over the round that takes it from the
back queue: it is in the front queue or gone, or the swap is still to come and
no round has been counted since the first wait. That the second wait suffices
hangs on this disjunction.

The logger implements `LogDelivery` under the mapping `pending <- front_queue \o
back_queue`, `logged <- pushed`; the abstract module has no queues, worker,
rounds, waits or locks. `StepDelivers` maps every step of the logger to a step
of it or to a stutter. `Push` is `Log`, with room left because `CallsCounted`
counts the entries against the calls; an entry of a round is `HandOn`, which
takes consumers and filters as they are then; and `Swap` is a stutter only
because `WorkerInv` gives it an empty front queue: otherwise
entries would leave the row unseen. `KillThread`, restarts of the
worker and every wait are stutters, too. That the entries of one consumer are in
order and none twice (`ConsumersSeeOrder`) is proved as well and needs no run of
its own.

`MzCoroutineProofs` proves the wrapper for any number of objects and main
coroutines, from `CoAssumption` (objects, main coroutines and the thread's own flow are
different things), with

    IInv == TypeOK /\ FlowsAreUnique /\ FlowsExist /\ ReturnsToCreator
            /\ OwnInv /\ FlagInv

No flow of control is saved in two contexts (`FlowsAreUnique`), none outlives its
coroutine, and while every coroutine was resumed by its creator each context but
that of the executing flow holds its own. `FlagInv` says what `OneUpdate` needs:
`updated_` is set before a wait is ended and stays set.

`StorageProofs` covers all of `MCStorage`, each part with an invariant of its own.

- *Fragments*, of any sizes in payloads of any lengths, from `LengthAssumption`
  (32-bit words hold twice the largest length). `WalkIs` unfolds the loops of
  the code round by round. `NodeSays` says that the list has lost its first fragment
  only if that one came and, where all nodes are one, that either nothing has
  arrived and the node ends the list behind the first fragment, or the list is
  empty, and that no walk goes on for ever (`ShortWalk`, `WalkRests`).
  `FieldsFit` ties count and size to the length; `WithinPayload` follows from it
  and from where 32-bit products wrap (`Places`, `TakenFit`).
- *Payload*: `PayloadInv` adds to what is promised that at most one block exists
  beside the one held.
- *Bitmaps*, for any number and width of the words and any numbers
  (`BitmapAssumption`: a count of bits does not wrap). `NumbersInv` says, with the
  types, that as long as `exact` holds the set meant is what the bits stand for and
  `num_bits_` is one past the highest of them (`Top`). A bit's place is a word and an offset, its quotient and
  remainder by the width, so each shift, with what it carries across a boundary, becomes
  one sum (`ShiftLeft` moves each place down by the distance); the search for the
  highest bit is then the maximum of the places. That `shift_map_right` in place leaves
  words is all that is needed of it, since the set is not followed past it.
- *History*: `HistoryInv` adds the types and that a guarded iterator belongs to
  the thread that holds the mutex; removal, whose loop goes on after an erase, is
  a lemma about sequences without repetitions.

`ValuesProofs` covers all of `MCValues`.

- *Sequence numbers*, for every width of the words (`WordAssumption`): a number
  is the integer counted to (`TypeOK /\ TracksValue` is inductive), and from that
  the order and the distances: `LessIsValueOrder` compares two numbers digit by
  digit, and `DifferenceSubtracts` is the same argument with a borrow.
- *Times*, for every word and every length of a second (`TimeAssumption`):
  `TimeInv` adds that the mark is the time `elapsed` ago in the word. The wraps
  are handled by the uniqueness of quotient and remainder (`DivisionIs`).
- *Sizes*, for any lengths and page sizes (`PropertyAssumption`,
  `StackAssumption`): the invariant is the types. The announced size is a fold along the sequence and is
  compared with the layout member by member, by an argument on the least member where they differ.
- *Names* (`LocatorAssumption`, `GuidAssumption`): `PlaceInv` adds that the first
  twelve octets of a UDPv4 locator are zero unless parts of another kind were
  written into it, which is why locators that agree in the four octets of
  `toIPv4` agree in all. `memcmp` is the difference at the first place where two rows
  of octets differ; a row in front of another decides before it is looked at,
  which gives the order of GUIDs and puts a process inside its host.
- *Texts of IPv6 addresses*, for any number of groups beyond three
  (`TextAssumption`): a text that `IPv6isCorrect` accepts has groups in every field but
  for one `::` and the end beside it (`CorrectIs`), so each branch of `setIPv6` is
  one shape of text, and what it leaves is `Sound` for that shape (`LeadingIs`,
  `TrailingIs`, `PlainIs`). `TextInv` says so of the text read last; for an open
  end `Sound` names the other address that is left, and that it is another. For the way
  back, what `toIPv6string` leaves out is a longest run of zeros only where that
  run reaches the end (`SkippedIs`); with zeros side by side this gives four shapes of
  text (`WrittenIs`), and each is refused or read as another address: two of them
  are not correct, one has its `::` between groups, and one is filled with a
  group that the address does not repeat.
- *Texts of GUIDs* (`GuidAssumption`): what `operator<<` writes is characters, and its
  second is a digit where `operator>>` expects a dot, so it is read as the
  unknown GUID. A text from elsewhere gives a GUID or the unknown one.

`SharingProofs` covers all of `MCSharing`.

- *Entity ids*, for any threads and ids (`IdsAssumption`). For
  `OctetsStayInPairs` the invariant adds what a thread in the middle of a swap
  holds (`HeldInPair`): both octets on their way come from the pair being
  swapped, so whatever other threads have stored meanwhile, a store returns an
  octet to its own pair. For `HarmlessAlone` it follows the one comparison that
  is underway by its program counter through both reverses (`Follows`).
- *Singleton*, for any number of threads and exceptions: what the once flag says
  about the pointer (`FlagSays`) and what is known of a thread at each place of
  `Instance` (`PlaceSays`).
- *Libraries* (`LibraryAssumption`): the loader's count of a library is the sum
  of what the objects with its name have open, until one closed too often or
  gave a handle up; `OneChanges` says what a call does to that sum. `Entries` keeps the
  callback map: what is entered under a name is of that name (`EnteredKeeps`), the entry
  of a loaded library is its own or of one loaded after it, and where nothing was
  forgotten no entry is stale (`CloseKeepsEntries`, `CreateKeeps`).

| Theorem | States |
|-|-|
| `CounterIsExact`, `WakeupsAreNotLost` | `PermitsConserved` and `NoLostWakeup` of the semaphore |
| `SizeIsExact`, `ObjectsDieOnce`, `IterationsAreComplete`, `UsedCellsAreKept` | `SizeCounts`, `ObjectsTracked`, `IterationComplete`, `UsedUntouched` of the pool |
| `LoggerLosesNothing`, `ConsumersGetOrder`, `ClearWaits`, `FlushIsSound` | `NothingLost`, `ConsumersSeeOrder`, `ClearWaitsForBacklog`, `FlushDelivers` of the logger |
| `LoggerImplementsDelivery` | `Logger` implements `LogDelivery` |
| `ContextsAreOwn`, `UpdatesOnce` | `OwnContext` and `OneUpdate` of the wrapper |
| `FirstFragmentIsAll`, `DataStaysInside` | `FirstDecides` and `WithinPayload` of the fragments |
| `PayloadHolds`, `BitsAreKept`, `HistoryAccounts` | `PayloadSound`, `BitsAreTheSet` and `ChangesAccounted` |
| `CounterIsInteger` (from `CounterTracksValue`, `CounterOrder`, `LessIsValueOrder`) | `NumbersAreValues` of the sequence numbers |
| `TimesAreRight`, `SizesAlwaysFit`, `NamesAlwaysAgree`, `TextsAreRead` | `TimesAreExact`, `SizesFit`, `NamesAgree`, `TextsReadBack` |
| `OctetsKept`, `AloneIsHarmless` | `OctetsStayInPairs` and `HarmlessAlone` |
| `SingletonHolds` (from `SingletonIsSingle`, `PassedGetWhole`, `SingletonFailsForGood`) | `OneWholeObject`, which the run `sharing` checks as `OneSingleton`: one object, whole for who came through `call_once` |
| `SharingHolds`, `LibraryIsKept` | the first three properties of `sharing` together, and `LibraryKept` |
| `LoggerTypes`, `CoroutineTypes`, `CounterTypes`, `EntityIdTypes`, `SingletonTypes` | `TypeOK` of these modules |

The theorems about `MCStorage`, `MCValues` and `MCSharing` are about the
specifications the runs check, with their assumptions on the constants; the types of the parts
are conjuncts of their invariants.

**Only model-checked.** All liveness (`EntryDelivered`, `FlushReturns`, `ClearReturns`,
`KillReturns`, `WaitersMoveOn`, `SleepEnds`, `InstanceReturns`), since fairness
and ENABLED are out of its reach. That the search of `nextFree` ends follows from
`SizeIsExact` on paper and is not stated.

The prover has no rule of induction that takes a formula as a parameter. Where a
proof needs an induction it takes the least counterexample instead, which exists
because the order of the naturals is well founded (`LeastOf`), and refutes it;
that works for folds and recursive functions alike.

## 5. Plan

What remains, in this order.

1. `DoubleBufferedQueue` lock by lock, implementing an abstract queue, with
   `Size` and `Clear`.
2. `Acquire` and `Release` of `MzCoroutine`, once a scheduler in the repository
   uses them.

## 6. Not modelled

- Log consumers, `color.h`, `host_id.cc`, name resolution and the interface list
  of the locators are I/O and system calls.
- The executor, thread factory, class loader, endpoints, message receiver, pools
  of changes and payloads, the bodies that the histories of readers and writers
  lack, autopilot modules and simulation are declarations without behaviour.
- `coroutine.h` and its factory duplicate `MzCoroutine` without its states.
- Geometry and optimisation are floating point and unfinished.
- Instance handles, vendor types, hashes and output operators other than those
  of GUIDs and IPv6 addresses copy or format and decide nothing. The regular
  expression of `isIPv4` and the find functions of property lists likewise.
- Verbosity and the report flags of the logger, priority, processor and group of
  a coroutine are plain fields.
