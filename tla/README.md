# otf2xx in TLA+

otf2xx is a C++ library to write and read traces in the Open Trace Format 2.
These modules model the parts of it that keep state, check them with TLC and
prove the properties that matter most with TLAPS.

    tlc -config EventBuffer.cfg MCEventBuffer             a run
    tlapm EventBufferProofs.tla                           the proofs of a module

## 1. The system

A *program* makes definitions (strings, regions, locations, communicators ...)
and events that refer to them. A writer turns both into the records of a trace;
a reader turns records into definitions and events again and hands them to a
callback of the program. The OTF2 library, which reads and writes the files, is
external.

| Component | State | Operations | Hard part | Correct when |
|---|---|---|---|---|
| Ownership (`intrusive_ptr.hpp`, `definition/detail/ref_counted.hpp`, `base.hpp`) | a counter in each impl object; the pointers to it, some of them members of other objects | construct, copy, move, assign, destroy | threads share objects; deleting one may delete a chain of others | counters are right at each atomic access, nothing dangles, each object is deleted once, by one thread, and none leaks |
| References and generators (`reference.hpp`, `reference_generator.hpp`) | the greatest reference so far, of a type of some width | `register_reference`, `next` | -1, the undefined reference and the wrap-around are one apart | a generated reference is new |
| Registry (`registry.hpp`, `definition/container.hpp`) | for each kind of definition a map by reference and, for some, maps by key; a generator for each id space | `operator()`, `create`, `emplace`, `get`, `get_variant` | two maps of one holder and two holders of one id space are filled independently | what is stored stays, by key and by reference the same is found |
| Event buffer (`event/buffer.hpp`) | a queue of events, some of them MPI requests that wait for their receive | an `event` overload for each type, `process_data`, `events_done` | what is held back, and for how long; which request a receive completes | order is kept, nothing is lost, each request is shown with the data of its own receive |
| Reader callbacks (`src/reader/callback/definitions.cpp`) | the registry of the reader | a function for each kind of record | a record is resolved when it is read | all look-ups are answered, with the right definition |
| Global writer (`writer/global.hpp`) | the registry of the program, until the destructor stores it | `write`, the destructor | the order in which 40 kinds are stored | a trace that was written can be read |
| Events (`event/*.hpp`) | 68 classes: a time, an attribute list and members, some of them weak references to definitions | construct, copy with a new time stamp, `add_attribute` | some constructors forget attributes | an event is a value |
| Archive and local writers (`writer/archive.hpp`, `writer/local.hpp`) | writers by location, event counts in the definitions of locations | `operator()(location)`, `write` for each type of event, `close_local_writer`, the destructor | 68 records in which members go by position; refused events; closing in any order | records hold the events, counts are those of the files |
| Reader session (`reader/reader.hpp`, `reader/util.hpp`) | registered locations, the clock, open readers and files | `read_definitions`, `register_location`, `read_events` | handles that are opened conditionally and closed always; locations are merged by time | every event of the registered locations is shown, in the order of time |
| Events from records (`src/reader/callback/events.cpp`) | none but the registry | a function for each type of event | a reference may be to several kinds; metric events before the start | each record becomes the event it was written from |
| Clock conversion (`chrono/convert.hpp`) | a factor and an offset | ticks to time and back | three roundings, a length of -1 | it does not decrease, it fits; there and back is the identity within a tick |
| Attribute lists (`attribute_list.hpp`, `attribute_value.hpp`) | a pointer to a list of the OTF2 library, and whether it is owned | clone, move, `add`, `has`, `get`, the destructor | lists that are borrowed for the time of a callback; swap in the move assignment | no list is used after it was freed, freed twice or leaked; an event behaves like a value |
| Metric values (`event/detail/metric_values.hpp`) | vectors | typed access by proxy | | |
| Traits and type lists | none (evaluated by the compiler) | | | |

They interact by calls, in one thread, apart from ownership, which any thread
may take part in. `reader::read_definitions` and `read_events` run to the end of
the trace and call the callback of the program in between; with
`set_callback(..., true)` the event buffer stands between the two. The callbacks
for definitions fill the registry of the reader, which owns them through
`intrusive_ptr`. `~Archive` destroys the local writers, then the global one.

Nothing is persisted step by step and recovered, and there are no messages or
timeouts; the hazards (`PROJECT.json`) are those of shared counters, of orders,
of sequences of legal calls, and of bounds.

## 2. What is modelled

### Event buffer: `MpiRequests`, `EventStream`, `EventBuffer`, `EventBufferProofs`

`MpiRequests` says what an event, a request and its answer are. `EventStream` is
the promise to the callback: events are offered, some of them have been shown,
and what is shown next is the next one offered, a request only with the data of
a receive that answers it. `EventBuffer` is the code.

| Code | Model |
|---|---|
| `nodes_` | `nodes`; a node is the event, `completed`, and which receive's data it carries |
| calls of `callback_.event` | `delivered` |
| `add` (template, request, receive) | `Add`, `AddRequest`, `AddReceive` |
| the loop of `process_data` | `ProcessNode`, `ProcessUnknown` (the `default:` label, which throws), `ProcessEnd` |
| overloads that the buffer lacks | `Ignore`, `Forward` (the two that the base class turns into `enter` and `leave`) |
| `events_done`, `~buffer` | `EventsDone`, `Destroy` |

`Dispatched` and `Overridden` are the case labels and the overloads, one by one.
Data other than the type, the location and the request id is abstracted. The
trace keeps to what MPI says of requests (`Opens`, `Closes`); whether ids are
used again, whether requests are cancelled and whether the trace is truncated is
up to `Reuse`, `Types` and `Truncated`. Definitions pass through the buffer as
well (`buffer.hpp:991-1121`) and change nothing in it; they are not modelled. Kinds
for which the buffer has no overload, such as `inter_comm`, `call_path`,
`calling_context` or `rma_win`, are dropped like the events of `Ignore`.

The properties are about the events that reach `add`: an event of one of the 30
types the buffer has no overload for is dropped, against what `reader.hpp:142` says
(configuration `EventBufferUnhandled`). And they make an exception for a
request id that is used again while a request of it still is in the queue
(`overlaps`): the loop of `add` takes the first node with the id, completed or not,
so the receive of the second request is attached to the first one, which was
completed and waits behind another, or was cancelled, and the second stays open
(configuration `EventBufferOverlap`).

- `EventBuffer`: any trace of 7 events at 2 locations with 2 ids: ids that are used
  again, requests that are cancelled, types that are dropped, forwarded or
  unknown to the queue, and any end. Order is kept, nothing is lost or doubled
  (`InOrderOnce`), nothing ready is left at the front (`HeadIsPending`), every request
  carries the data of the receive that ended it (`RequestCarriesItsReceive`), what
  is held back, also at the end of a truncated trace, is behind a request that
  is not answered (`HeldBackOnlyByOpenRequest`), a trace that answers all its
  requests leaves the queue empty (`EmptyAfterCompleteTrace`), and the buffer
  implements `EventStream`. `events_done` does not flush, so what is held back then
  is never shown.
- `EventBufferCancel`: see section 5, as for the configurations
  `EventBufferUnhandled`, `EventBufferIo` and `EventBufferOverlap`.

Seven events are three requests with their receives and an event between them
at any place, or an id that is used three times; the search and the loop tell
no more apart than two ids, two locations and their order. There is no liveness:
each call of the reader ends, and what the buffer still owes the callback waits
for the trace and not for a step of its own.

### Ownership: `IntrusivePtr`, `IntrusivePtrProofs`

A step is one atomic access of a counter, or the code between two. `ref` is
`data_` of each pointer: handles, the temporary each thread works on, and the
members of objects. `New`, `InitMember`, `Constructed`, `Retain`, `Swap` are the
construction of a definition; `Copy` and `Move` the assignments and
constructors; `Drop`, `Release`, `Delete`, `Keep` the destructor; `DestroyMember`
and `Free` the destructor of the object, which may enter `Release` again, so
`dying` is a stack. `Give` is the program handing a pointer to another thread.
`AddMember` and `RemoveMember` are those of groups, metric classes and topologies,
whose members change while they are used. The classes of such members
do not lead back to the class that has them; `Depth` counts how far down a class is
(a constructor may take members of its own class, such as a parent, but those
exist before the object does).

- `IntrusivePtrThreads`: 2 threads, 2 pointers, 3 objects with a member each.
  Counters, lifetimes and deletions are right at each atomic step, no object is
  kept by a ring of counters (`NoGarbage`), each one that dies is on one stack of
  destructors (`UnwoundByOne`), and nothing leaks. *Fairness*: `WF(Continue(t))`: a thread that is in an operation ends
  it; none has to begin one.

Two threads are enough for the race of the last two releases, three objects for
a chain in which the middle is shared. In the model the accesses of all counters
have one order. The code gives less: `retain` is relaxed (`ref_counted.hpp:64`),
`release` is acquire and release (`ref_counted.hpp:71`). Both read, change and write
one counter, so those of one counter do have one order, and each gets the value
before it; a release that reaches 0 is ordered behind the other releases of the
object, and so the deletion behind all uses of it. What the relaxed order allows
beyond that, that threads see changes of two counters in different orders, no
step of the code depends on: each decides by the one counter it changes. That a
pointer is handed to another thread properly is up to the program (`Give`).

### Registry: `References`, `Registry`, `RegistryProofs`

One id space: the holders that share it (`Holders`), those with keys (`Keyed`),
and the generator, whose `old_max` is an unsigned number that starts at -1
(`References`, arithmetic modulo `Undefined + 1`). An action is one call.
The program may choose any references; the history variable `careful` says
whether all it has chosen were free.

- `RegistryCalls`: 2 holders, 2 keys, 4 references, 5 calls. A generated
  reference is new, what is stored stays, what a key finds is stored; and as
  long as the program is careful, keys and references find the same definition
  and `get_variant` does not depend on the order of the variants. Five calls
  fill both holders of a reference, take both keys and exhaust the generator.

### Definitions in a file: `DefinitionClasses`, `DefinitionRecords`, `DefinitionCallbacks`, `DefinitionSchema`, `DefinitionFile`, `DefinitionFileProofs`, `GlobalWriter`, `GlobalWriterProofs`

Three tables follow each member of a definition of any of the 40 kinds:
`DefinitionClasses` has the parameters of its constructor and what its accessors
return, `DefinitionRecords` which accessors `store` calls for the arguments of the
record, `DefinitionCallbacks` which argument the reader's callback hands to each
parameter, and in which kinds it looks that up. `DefinitionSchema` composes them
into two: which members refer to which kinds (`SchemaUses`), and which member of
the definition written each of them comes from (`SchemaSource`); for members that
are plain values it assumes, and TLC evaluates, that they come from themselves
(`ValuesAssumption`). It also has the order of the 30 calls of `store` with which
the writer's destructor stores the registry. `DefinitionFile` takes such tables as
constants and runs them: `Register` (`write`, or `registry()`), `Destroy`, `Store` (one
record; a call with several containers merges them by reference, `Before`),
`Stored`, then `Read`, `Skip` (no callback is set) or `Fail` (a look-up throws)
for each record, `Finish`. A record keeps references only, so the reader has to
find out which kind one means (`Candidates`, `Answer`).

A program registers what its definitions use (else no trace it writes is
complete), with any references. A `metric_instance` has a scope, as its
constructor demands, and for a `comm_group` there is a `comm_locations_group`, as
`store` asserts (`Searchable`).

- `DefinitionFileRoundTrip`: `MCFamilies` are groups of kinds that use each other;
  together they have every kind and every use. For each, all registries of up
  to 3 definitions with references up to 2. Three definitions are one that uses
  another that uses a third, or one with two uses; a use in the wrong order
  shows with two, and so do two members that change places. Every look-up is
  answered, with the right definition (`ResolvedInOrder`), except for two sorts of
  use: that of the dimensions of a `cart_topology` (`Late`), which is stored
  first; and a use of a greater reference of the same call of `store`
  (`Forward`). A trace without these is read to its end (`FailsOnlyBehind`). One
  that is has everything that was stored and has a callback, as the accessors of
  the writer's definitions show it (`RoundTrip`), which is as it was defined but
  for the metric members (`Misread`, `ReadAsDefined`).
- `DefinitionFileDimension`: see section 5, as for the configurations
  `DefinitionFileForward`, `DefinitionFileDescription`, `DefinitionFileRecorder` and
  `DefinitionFileCoordinate`.

A call of `store` goes by reference and not by use, so a definition whose parent
(`system_tree_node`, `call_path`, `calling_context`, `comm`, `io_handle`, creating
`location_group`) has the greater reference, and a `comm_group` with a smaller
reference than its `comm_locations_group`, are stored too early and cannot be
read. References that the registry draws ascend in the order of creation; a
program that numbers its definitions itself has to see to it.

`GlobalWriter` has the two algorithms that `DefinitionFile` takes by their result:
the merge of several containers (`NextToStore`, the recursion of
`apply_to_tuple_min` over iterators of which those at their end count as the
greatest reference, and `AfterStore`), and the members of a `comm_group`, which
the writer turns into positions in the `comm_locations_group` with the same
paradigm (`StoredMembers`) and the reader into members again (`ReadMembers`).
`MCGlobalWriter`, which every run of `MCDefinitionFile` extends, has TLC compare
them with what they are meant to compute: three containers with any references
below 3 are merged into one sorted sequence, and groups of up to three members
come back, with members twice and another group before. A member that the group
of locations lacks is written as it is and read as the location at that position
(`StrangersAreReplaced`); the assertions of the code do not look for it.

### Events in a file: `EventClasses`, `EventRecords`, `EventCallbacks`, `Chrono`, `ChronoProofs`, `EventLog`, `EventFile`, `EventFileProofs`

Three tables say, for each of the 68 types of event, what its class holds and
whether the constructor with a new time stamp keeps the attributes
(`EventClasses`), which members `local::write` hands to the library in which
order (`EventRecords`), and from which argument and by which look-up the callback
of the reader takes each member (`EventCallbacks`). `Chrono` is `convert`, with
doubles that round to the nearest as those of the program do, but have `Bits`
bits. `EventFile` takes tables and conversion as constants and runs them:

| Code | Model |
|---|---|
| constructors of events, `add_attribute`, construction with a new time stamp | `Construct`, `AddAttribute`, `Restamp`; the event is in `hand` until it is written |
| `get_local_writer` and `local::write`; `check` throws | `Write`, `Refuse`; a record keeps references and ticks, `RecordOf` |
| the constructor of a location, `event_written` | `Initial`, `counted` |
| `close_event_writer`, `close_local_writer` | `CloseEventWriter`, `CloseLocalWriter` |
| `global::write` of clock properties | `WriteClock` |
| `~Archive`, with `~local` and `~global` | `Destroy` |
| `read_definitions`, of which `set_clock_properties` may throw | `ReadDefinitions`; the definitions themselves are in `DefinitionFile` |
| `register_location`, `read_events` | `RegisterLocation`, `ReadEvents`, `ReadNothing` |
| a callback of `events.cpp` | `Show` (`EventOf`), `Skip` (none is set, or a metric before the start), `Fail` (a look-up throws or an assertion fails) |
| `OTF2_Reader_ReadAllGlobalEvents` | `HandedOut`: of the upcoming records of the registered locations any of the earliest |

`EventLog` is the promise: a log for each location, of which reading shows all
but what the reader passes over, in an order that time allows. The program has a
global writer, since its events refer to definitions.

A location counts its events on from the number it was constructed with
(`location_impl.hpp:62`): 0 for a new one, the number in the trace for one that
came from a reader. So what is stored is that number and one more for each record
(`CountsAreStored`): of a location that is written again, twice the number of its
events, if the program takes the definition of the reader as it is and writes
all of them (`RewrittenCountIsTrue`, section 5). Only for `Initial[l] = 0` is it the
number of records.

Of what was written the reader passes over (`Lost`): the events of four types for
which it sets no callback, and metrics before the start of the clock. `NoneLost`
says nothing else is missing when `events_done` is called; `EveryEventShown`, which
is what `reader.hpp:142` says, does not hold (section 5).

- `EventFile`: `MaxEvents` is 3 and there are 2 locations, one of them of a trace that
  was read and had two events, 2 times, 1 attribute and
  3 clocks: the one that is stored by default, a plain one, and one that starts
  after the first time and is coarser. Each of the 68 types occurs as the only
  event of a trace with every definition it may refer to; several events are of
  type `enter` or `metric`, the type the reader treats in another way. One
  event tells whether a member comes back, two at two locations whether they are
  merged by time, three whether it matters which one is refused in between.
  `Definitions` has two kinds of each shared id space with different references.
  No fairness is assumed: that `read_events` comes to an end is the
  library's, which hands out each of finitely many records once.
- `EventFileDelete`, `EventFileNoClock`, `EventFileRewritten`, `EventFileUnregistered`: see
  section 5, as for the configuration `EventFileNoLocation`.

`MCEventFileTables` assumes, and TLC evaluates, that the tables of the code are
`Faithful` for these definitions: each member is taken from the argument it was
written to, with a look-up that finds what may be meant. It also evaluates
`ThereAndBack`: ticks that are not finer than points in time survive the
conversion and back within one tick, for all frequencies, starts and ticks up
to the greatest that a double holds exactly. `GreatestTime` is about the check in the
constructor of `convert` (`convert.hpp:89`): with doubles the bound is met, but it
is one too high. A clock may end at 2^63 units, which do not fit the `int64_t`
they are cast to (a clock in nanoseconds with a length of 2^63 is accepted).

### Attribute lists: `AttributeTypes`, `AttributeValues`, `AttributeLists`, `AttributeListProofs`

`AttributeTypes` is the table of types: which can be added, which can be got, and
which type and member of the union an `attribute_value` gets from what it is made
of; its assumptions are that the type tells the member, and that all that can be
added but a reference to another attribute can be made.

`AttributeValues` is the promise: each event has attributes of its own, as if it
held them as a value, and a callback sees the same list until it returns.
`AttributeLists` is the code: `list` and `owned` of each object, and the lists of
the OTF2 library with their contents. `Construct`, `Borrow` (an event made of the
list of a callback), `Copy` and `CopyShown` (by `Clone`), `MoveConstruct`,
`MoveAssign` (which swaps), `Add` (which first makes a list of its own, `OwnList`),
`Has`, `Get` and `Destroy` are its members. `BeginCallback` and `EndCallback` are the
library, which frees the list afterwards; `Forward` is the callback for
`calling_context_enter` and `_leave`, which calls that for `enter` or `leave` with a
clone.

- `AttributeLists`: 2 objects, 4 lists, 2 attributes, values of 2 types, callbacks
  nested twice. Two objects are all that a copy, a move or an assignment
  relates, and 4 lists are one for each object and each callback.

The model holds the program to two rules. What it makes of the list of a callback
without adding to it does not outlive the callback (`EndCallback`): the code does
not prevent that, and such an event dangles. And it does not use an event that
was moved from, but to destroy it or assign to it: such an event still has a
pointer to a list it does not own.

## 3. What is proved

All theorems hold for every value of the constants.

*Event buffer.* `TypeCorrect`, `OrderKept` and `HeadPending` are inductive by
themselves or with the type invariant. `BufferImplementsStream` needs
`CarriedInv`: the data a queued request carries is that of a receive that was
added later and answers it. The other three hold for every trace, with ids used
again, cancelled requests and any end. `OpenInv`: a request whose id is active
and was not used again has not ended. `SeparateInv`: of the requests in the queue
whose ids are not in `overlaps`, no two have the same id, each that has data has
that of the receive that ended it, and each that was answered is complete. This
gives `RequestsCarryTheirReceive` and `HeldBackBehindOpenRequest`.
`EmptyWhenDestroyed` adds `PendingInv`, every request of a trace without
cancellations is active or answered, and `ThrownInv`, `process_data` throws only of
a type it has no case for.

*Ownership.* `Inv` says that counters are the number of holders, pointers point
to objects that are alive, objects on a stack are dying and on one stack only,
and a thread that is about to retain or delete an object has what it needs:
either a pointer keeps it alive, or it is the only one. It is proved step by
step for any number of threads, pointers and objects (finitely many), and gives
`TypeCorrect`, `CountCorrect`, `PointersAreAlive`, `DeletedOnce`, `GoneForGood`.
`RingsAreImpossible` says that counting pointers is enough here: no living objects
are kept by each other alone. Its inductive form, `NoRing`, is about all objects:
of any set of them, one is not a member of the others. It holds because a
constructor makes an object that nothing points to, and `AddMember` goes to a greater
depth, while no member goes to a smaller one (`MembersBelow`). `AllAttended` adds that
a living object without pointers has a thread that works on it. `FreedOnce` says
that a dying object is on one stack of destructors, at one depth.

*Registry.* `Inv` adds to the types that no reference in use or drawn is above
`old_max` (`Covered`) and that what a key finds is stored. It gives `TypeCorrect`,
`StoredByKey`, `Fresh` and `Stays` for every width of references and any program.
`CarefulInv` adds that, while the program is careful, a reference is in one
holder only; it gives `KeysAgree` and `OneMeaning`.

*Definitions in a file.* The theorems hold for every schema, so they reduce the
question whether a trace can be read to one about two tables, which TLC answers
when it evaluates the assumptions of `DefinitionFile` for the schema of the code.
`MeaningAssumption`: a record says which definition it means, because the kinds
that may be meant share an id space, or the kind is recorded, or the search is
for one kind. `SourceAssumption`: what a member comes from may refer to the same
kinds. `OrderAssumption`: all uses but those in `Late` are stored by the
same call or an earlier one. `AccessorAssumption`: accessors return the member they
are named for, but for the kinds in `Misread`.
`RegistryInv` says that references are given once and supplements numbered from
0, `FileInv` that the file is the registry in the order `Before`, up to where the
writer is, `ReadInv` that the reader has exactly what the records it passed stand
for, as the accessors of the writer's definitions show it (`Passed`). Then a look-up has no answer but the right one (`CandidatesFact`), and has
that one if it is stored before (`NextFact`), so the callback makes the definition
again (`CreatedFact`). This gives `TypeCorrect`, `InOrderIsResolved`, `ReadIsRight`,
`TraceIsReadBack` and `ReadAsItWasDefined`, and `OnlyForwardUsesFail`: whatever `Late` is,
and however the program numbers, a trace none of whose definitions has a use of
`Late` or of a greater reference in its call of `store` is read without a look-up
that throws. For the schema of the code that is every trace without dimensions
of topologies whose program numbers what it uses first.

*Events in a file.* `FileInv` says that the records are those of the events that
were accepted, as many as were counted beyond `Initial`, sorted in each file; `ReadInv` that nothing is
shown before reading (`NotYet`), that what is shown is a record that was taken
(`AllShown`), each location in turn (`InTurn`), that nothing shown is later than
what is left (`Ordered`), and that what was taken is shown or passed over
(`Covered`). They are
inductive for any tables and any conversion that does not decrease, and give
`TypeCorrect`, `Counts`, `TimeAdvances` and `Complete`. `AsWritten`, `NothingMissing` and
`Refinement` assume that the tables are `Faithful`: then the callback makes the
event of the record that it was written from. So whether events survive is a
question about the three tables, which TLC answers for the code.

*Clock conversion.* `ChronoProofs` is about doubles of any precision, any unit of time
and all clocks whose numbers have `w` bits, if the exponents of doubles suffice for
numbers of twice that width (`Width`; 2 * 64 + 53 + 2 is less than 1023). Rounding
to the nearest keeps the order of two quotients (`DoubleMonotone`), since one that is
above a power of two does not round to below it, and so do the product and the
cut that follow. This gives `TimesDoNotDecrease` and
`TicksDoNotDecrease`, which is what `EventFile` assumes of its conversion
(`TimesAssumption`, `ClocksAssumption`), and `SameUnitIsExact`. `AcceptedClocksFit` is about the
check of the constructor: the quotient it compares with and the product it stands
for are rounded three times, which could add up, but a double that exceeds a
power of two by less than half a unit is rounded to the power of two
(`DoubleError`, `DoubleAbovePower`). The powers of two are a recursive function, of which
all that is needed follows from its equation and the least element of a set
(`LeastElement`), without induction over an operator.

*Global writer.* `apply_to_tuple_min` finds an iterator with the least key, by the
least number of comparisons after which that would fail (`ChosenIsLeast`); so the
merge takes a definition as long as one is left, and none that is left has a
smaller reference (`MergeTakesTheLeast`, `MergeAscends`). References have to be
below the greatest, the undefined one, and containers in the order of their
references, as a `std::map` is. The recursion is a recursive function, which
exists because its beginnings do (`SequenceExists`). `MembersComeBack` holds for
any groups of which one has the paradigm, as the assertion of the reader demands,
and the members.

*Attribute lists.* `Inv`, for any number of objects, lists, attributes and nested
callbacks: an owner has a list that exists, is lent to no callback and has no
other owner (`OwnedInv`); what is borrowed is lent by some callback that runs
(`BorrowedInv`), callbacks lend lists that exist, each another one (`LentInv`), an
object that is gone has nothing (`NoneInv`), and every list that exists has an
owner or is lent (`AllHeld`). `OwnedOnce` alone is not inductive: a list that is
freed must not be the one that another event has borrowed. The refinement rests on
the same parts, since what is added to or freed is seen by its owner only. This
gives `TypeCorrect`, `Safe`, `FreedOnce`, `NoLeak` and `Refinement`.

## 4. What is only model-checked

Liveness (the `NothingLeaks` of `IntrusivePtr`), which the prover does not reach; that the tables of the code are
faithful, which TLC evaluates; that ticks come back within one tick
(`ThereAndBack`), for which the errors of five roundings would have to be bounded; and
the runs that show a disagreement.

## 5. Disagreements with the documentation

Each of these has a run of its own that TLC finds violated; `findings` in
`PROJECT.json` quotes the lines.

1. A cancelled MPI request blocks the buffer's queue for good
   (`EventBufferCancel`).
2. A `cart_topology` is stored before its dimensions and cannot be read
   (`DefinitionFileDimension`).
3. The callback of `io_delete_file` tests for an `io_handle` where it means a file,
   and throws for most traces that have the event (`EventFileDelete`).
4. A trace to which no clock properties were written cannot be read
   (`EventFileNoClock`).
5. A location that came from a reader and whose events are all written again is
   stored with twice their number, although that is what the comment at
   `location.hpp:125` asks the program for (`EventFileRewritten`).
6. Four types of event that can be written have no callback and are skipped
   without a word: `comm_create`, `comm_destroy` and the two of non-blocking
   collectives, although their callbacks exist (`EventRegistered`,
   `EventFileUnregistered`).

These have a configuration with a property that TLC finds violated as well
(`tlc -config EventBufferIo.cfg MCEventBuffer`, for example):

| Configuration | Module | Property | Shows |
|---|---|---|---|
| `EventBufferUnhandled` | `MCEventBuffer` | `EveryEventCallsBack` | events of about 30 types never reach the callback of a buffered reader (`event/buffer.hpp:533`) |
| `EventBufferOverlap` | `MCEventBuffer` | `EveryRequestCarriesItsReceive` | a receive of an id that is used again overwrites the data of a completed request that is still queued (`event/buffer.hpp:968`) |
| `EventBufferIo` | `MCEventBuffer` | `NoUnknownEvent` | 13 I/O event types throw when they are queued behind a request (`event/buffer.hpp:709`) |
| `RegistryFull` | `MCRegistry` | `GivesUpWhenFull` | `next()` gives up while references are free (`reference_generator.hpp:109`) |
| `DefinitionFileForward` | `MCDefinitionFile` | `Resolved` | a definition with a smaller reference than its parent makes the reader throw (`writer/global.hpp:504`) |
| `DefinitionFileDescription` | `MCDefinitionFile` | `EveryAccessorTrue` | `description()` of a `metric_member` returns its name, so the writer stores the name twice (`definition/metric_member.hpp:97`, "returns the description of the metric member") |
| `DefinitionFileRecorder` | `MCDefinitionFile` | `EveryDefinitionStored` | `metric_class_recorder`s are not stored (`writer/global.hpp:573`) |
| `DefinitionFileCoordinate` | `MCDefinitionFile` | `CallbackForEach` | `cart_coordinate`s are skipped by the reader (`reader/reader.hpp:246`) |
| `EventFileNoLocation` | `MCEventFile` | `EventReaderAssigned` | `read_events` without registered locations closes an event reader that was never opened (`reader/reader.hpp:188`) |

And these were met when the tables were made, and are in them or are named where
they are left out:

- Metric events before the start of the clock are dropped, all others are
  asserted not to exist (`events.cpp:133`, `convert.hpp:120`).
- RMA and I/O events forget their attributes when they are constructed again
  with a new time stamp (`Forgetful`).
- The writer converts with a clock of its own, whatever clock properties are
  written (`local.hpp:959`): a program that writes others shifts all times.
- `rma_sync::lock` returns a member that no constructor sets.
- `add_attribute` lacks groups, `get_attribute` all types of reference,
  `attribute_value` attributes.
- A second definition object with the reference of a location that has a writer
  counts no events: the writer counts in the first (`archive.hpp:408`).
- A member of a `comm_group` that is not in its `comm_locations_group` comes back
  as another location (`StrangersAreReplaced`, `writer/global.hpp:173`).

## 6. What is not modelled, and the plan

Next, in this order:

1. Copies of a registry, which share a generator with the original, and weak
   references into a registry that is gone.
2. Metric values with their typed proxies.
3. Liveness of the writer's side with several threads is not planned: an archive
   is used by one thread, or by several that the program keeps apart.

Left out: the traits and type lists, which have no state; the impl objects behind
the accessors, which hold what they are constructed with; the OTF2 library, of which the models say only
that records come back in the order in which they were written, that events
earlier than the last are refused, and that locations are merged by time; MPI
collectives, the flush callbacks and the properties of the archive; local
definitions, markers; the files a reader opens and closes (`reader/util.hpp`),
whose errors are those of the library; exceptions of the program's callback,
after which neither reading nor writing can be resumed. That OTF2 may empty an
attribute list it is given with an event does not show in the model, in which
no event is written twice.
