# common_serialization: a TLA+ verification project

TLA+ models of `common_serialization`, a C++ library that implements the Common Serialization
Protocol (CSP, described in `src/CSP.txt`): serialization of structs with versions and flags, and a
client and a server that exchange them. TLC model-checks the modules on small instances; TLAPS
proves theorems about them for every value of the constants. Paths below are relative to `src/`;
`msg/` stands for `csp_messaging/include/common_serialization/csp_messaging/`, `base/` for
`csp_base/include/common_serialization/csp_base/` and `cont/` for
`containers/include/common_serialization/containers/`.

## 1. Inventory of the system

| Part | State | Operations | What makes it correct |
|---|---|---|---|
| Data handler registrar, `msg/GenericServerDataHandlerRegistrar.h` | multimap id → entry (handler, service, state, in-use counter); lists of waiting unregister calls, each with a counter and a latch; one reader-writer mutex | registerHandler, unregisterHandler, unregisterService, aquireHandler, aquireHandlers, releaseHandler | no entry goes while it is in use; counters are exact; latches are opened once, while they exist; every unregister call returns |
| Locks and latches, `GuardRW.h`, `concurrency/typedefs.h` | a mutex, a latch | lock, shared lock, unlock, count_down, wait | exclusion; used by the registrar only |
| Server, `msg/Server.h` | settings, registrar, m_isInited | init, handleMessage, handleGetSettings, handleData | each message gets one reply that tells the truth; each acquired handler runs and is released |
| Server data handlers, `msg/IServerDataHandler.h`, `…Traits.h` | none of their own | handleDataCommon | refuses what it cannot serve, before it has written a reply |
| Client, `msg/Client.h` | settings, m_isValid | init (two forms), handleData, getServerHandlerSettings | agrees on settings that suit both sides; never takes a failure for a success |
| Service structs, `msg/service_structs/` | protocol versions, mandatory and forbidden flags, interfaces | isValid, getCompatibleSettings, clear, init | the intersection of two parties' settings |
| Contexts and flags, `base/context/` | version, message type, flags, data flags; derived flags | setters, conversions | derived flags agree with what they are derived from |
| Context processors, `base/processing/{common,data,status}/` | none | serialize, deserialize of each context | accept exactly what the other side may write |
| Body processor, `base/processing/data/BodyProcessor.h`, `base/ISerializable.h` | pointer maps, objects made while reading | serialize, deserialize of values, arrays, pointers | both sides number recursive pointers alike; no pointer outlives its object |
| Version converter, `base/processing/data/VersionConverter.h` | none | chains of conversions up and down | each step once, in order, ending at the right version |
| Vector and Walker, `cont/Vector.h`, `cont/Walker.h` | storage, size, capacity; offset | reserve, push, insert, erase, …; seek, read, write | size ≤ capacity ≤ storage, also after an error; offset ≤ size |
| Smart pointers, `cont/UniquePtr.h`, `cont/GenericPointerKeeper.h` | one pointer | allocate, release, reset | one owner |
| Allocation managers, allocators, memory management | none | allocate; copy, move and destroy ranges | nothing constructed twice or left undestroyed |
| Std structs processing | none | a serializer per standard container | inverse of each other |
| Structs of the tests, `unit_tests_helper_libs/serializable_structs_libs/` | their members | fill, generated serialize, deserialize and conversions | each arrives as it was filled |
| Utilities (`Status.h`, `Uuid.h`, helpers) | none | status macros | the first error is kept |

### How the parts interact

A user calls `Client::handleData`; the client serializes the common context, the data context and
the body, and calls `IIoProcessor::process`, which the user of the library implements (a socket, a
pipe, a function call). At the other side somebody calls `Server::handleMessage` with the bytes,
possibly from many threads at once. The server reads the common context, answers a request for its
settings by itself, and gives a Data message to the handlers the registrar finds for the id of its
struct: to the one unicast handler, or to each of the multicast handlers in turn. A handler reads
the data context and the body, calls the user's function, and writes a reply. Meanwhile services
register and unregister handlers on the same registrar from other threads, and an unregister call
must not return while a handler of its runs, because its caller may then destroy the handler.

### What is hard

* *Concurrency* is all in the registrar. Three kinds of thing are observed without the mutex: the
  in-use counters (atomic), the latches, and - in one path of `releaseHandler` - the entry and the
  list of waiting calls.
* *Order and failure* are in the messaging. The client negotiates in two requests and the server
  may be replaced between them or later; a multicast message is handled by several handlers, each of
  which may refuse, fail or break off in the middle of its reply; the reply is one buffer for all.
* *Errors in the middle* of an operation: of a vector that cannot grow, of a serialization.
* *Numbering*: a pointer that was met before is written as an offset. Writer and reader each keep a map of what they
  have met, through arrays, converted structs and structs copied as bytes, and the maps must agree although the
  two builds know different versions of the same structs.
* There are no timeouts, no retries and nothing that survives a crash: each call is a request and a
  reply, and a call whose communicator fails ends with an error. The doc comment of
  `Client::handleData` (`msg/Client.h:130`) says that it packs and sends the input again
  when a status allows it; the code returns the status.

`PROJECT.json` lists each hazard at its line, with the properties that cover it.

## 2. Modules

| Module | Models | Checked by | Proved |
|---|---|---|---|
| `DrainingRegistry` | what the registrar promises its callers | as a property of the registrar | |
| `HandlerRegistrar` | the registrar, with its mutex, counters and latches | 2 passing runs, 2 violations | |
| `HandlerRegistrarInvariant` | the two disciplines of removal, by handler and by service, the inductive invariant of each, and that of what is acquired together | registrar_by_handler, registrar_by_service | |
| `DataInduction` | | | induction over Nat as a fact about a set, and functions defined from the value before |
| `HandlerRegistrarProofs` | | | `TypeCorrect`, `HandlerInvHolds`, `RemovalByHandlerSafe`, `…Counts`, `…Latches`, `…Implements`, `ServiceInvHolds`, `RemovalByServiceSafe`, `…Counts`, `…Latches`, `…Reads`, `…Implements`, `RemovalByHandlerTogether`, `RemovalByServiceTogether` |
| `MCHandlerRegistrar` | instances | | |
| `CspMessages` | settings and messages, the checks of the common context | with the next | |
| `CspMessaging` | Client, Server, server data handlers, and the inductive invariants of the replies and of the agreement | 1 passing run | |
| `CspMessagingProofs` | | | `RepliesAreTrue`, `RequestsAnswered`, `SuccessIsTrue`, `AgreementHolds`, `MessagingTypeCorrect`, `AgreedSettingsSuit`, `AgreedClientsServed` |
| `MCCspMessaging` | instances | | |
| `StoredSequence` | what a walker promises its callers: a sequence and a cursor | as a property of the walker | |
| `ElementMemory` | copy, move and destroy of ranges of one block (`GenericAllocationManager`) | with `WalkerCursor` | |
| `VectorStorage` | the methods of `Vector` | with `WalkerCursor` | |
| `WalkerMethods` | the methods of `Walker`: the vector's method, and where the cursor goes | with the next | |
| `WalkerCursor` | `Walker` over a vector, any calls in any order | 1 passing run, 1 violation | |
| `WalkerProofs` | | | `WalkerTypeCorrect`, `CapacityStaysReal`, `ElementsStayLive`, `NothingMisused`, `WalkerKeepsTheSequence` |
| `MCWalkerCursor` | instances | | |
| `ElementLoops` | the loops of `GenericAllocationManager`, element by element | with `ContainerTests` | |
| `TestScripts` | what the unit tests of the containers say: calls, and what an assertion sees | with `ContainerTests` | |
| `VectorTests`, `WalkerTests`, `AllocationTests` | those tests | with `ContainerTests` | |
| `ContainerTests` | the tests, carried out on the model | 1 passing run | |
| `MCContainerTests` | instances | | |
| `DataContexts` | the data context, the versions of structs, when they are copied as bytes, the chains of conversions | with the next | |
| `BodyProcessing` | `ISerializable`, `BodyProcessor` and `VersionConverter`: messages from one build to another | 1 passing run, 2 violations | |
| `BodyInvariant` | the inductive invariant of the body | body | |
| `BodyProofs` | | | `BodyInvHolds`, `BodyTypeCorrect`, `PointersLive` |
| `BodyReading` | what two builds must have in common to read each other, the grammar of a message, and the inductive invariant of its reading | its hypotheses by the runs of `BodyProcessing` | |
| `BodyReadingProofs` | | | `AcceptedMessagesAreRead` |
| `BodySharing` | what structs and pointers must be like to arrive, what a token tells of the writer's objects, and the inductive invariant of the copy that the reader makes | its hypotheses on builds by the runs of `BodyProcessing` | |
| `BodyTellingProofs` | | | what the writer wrote tells of its objects one by one; and that the reader reads members, numbers, structs and arrays as told (lemmas) |
| `BodySharingProofs` | | | `MessagesAreReceivedAsSent`, `SharedObjectsStayShared` |
| `MCBodyProcessing` | instances | | |
| `SerializableStructs` | how a struct is described | with `StructExchange` | |
| `TestStructs` | the structs of the tests, their legacy structs and conversions | with `StructExchange` | |
| `StructLayout` | where a compiler puts the members (external) | with `StructExchange` | |
| `StructMemory` | values in the memory of a platform | with `StructExchange` | |
| `WireFormat`, `WireReading` | what `BodyProcessor` and the template processors write and read, byte by byte | with `StructExchange` | |
| `StructExchange` | one struct from one program to another | 1 passing run | |
| `MCStructExchange` | instances | | |

### HandlerRegistrar

The variables are the members of `GenericServerDataHandlerRegistrar` and the locals of its
functions.

* `entry`, `inMap`: the nodes of `m_handlerMap`. A *slot* is the address of a node. A slot that is
  erased keeps its content until `registerHandler` reuses it, so that a client which still has the
  address reads what the memory would most likely hold, and a reuse is seen as such.
* `serviceList`, `handlerList`, `total`, `handle`, `done`: the nodes of `m_unregisterServiceList` and
  `m_unregisterHandlerList`. Each unregister call adds one node, so a node is named by its thread.
* `apc`, `arg`, `todo`, `calls` (admins) and `cpc`, `id`, `held`, `cur`, `last`, `target` (clients):
  where a thread is in its function, and its locals. A *client* is a thread in `Server::handleData`,
  an *admin* a thread that registers and unregisters.

A step is a section of code between two points where another thread can see the difference: taking
or giving up the mutex, an atomic counter, a latch. A section under the exclusive mutex is one step;
`unregisterService`'s loop has a step for each entry (`MarkEntry`), because a client that has unlocked
inside `releaseHandler` runs beside it. `ReleaseHandler`, `ReleaseService`, `CountDownService`,
`FallThrough`/`ReleaseLast` and `CountDownHandler` are the sections of `releaseHandler`: the decrement under the
shared lock, the two cases of the `switch`, and each `count_down` after its `unlock`. That the case
`ServiceRemove` has no `break` and falls through to `HandlerRemove` is modelled as it is.

The order in which `unregisterService` and `aquireHandlers` meet entries is left open, and
`aquireHandlers` may fail after any entry. Memory order is not modelled: the counters are relaxed
atomics that are read only under the mutex or by the thread that wrote them last.

### DrainingRegistry

The contract of `IServerDataHandlerRegistrar` with no lock, counter or latch: an entry whose removal
has begun gets no new user, and it goes when its users are gone. `HandlerRegistrar` implements it
under the mapping `live` = entries of the map, `closing` = those whose state is not `Active`,
`using` = the clients that hold them.

### CspMessages and CspMessaging

`CspMessages` has what both sides share: the record of a `CspPartySettings` and its intersection,
the three kinds of message, and the checks of the common context (`base/processing/common/`). A
message is a record; `binOutput` is the sequence of messages that have been written to the output.
`cut` says whether an error broke a message off in its context or in its body.

`CspMessaging` has one client and the server its communicator reaches. The variables `settings`,
`valid` are the members of `Client`, `serverSettings` those of `Server`; `call`, `offer`, `received`,
`expected`, `told` are the arguments and results of the client's call; `request`, `serving`, `todo`,
`status`, `binOutput` are the locals of `handleMessage` and `handleData`; `returned` and `ran` record
what the last call returned and what the handlers of the last message did. Each call of the client
is a step up to `process` and a step after it (`InitByServer`, `ReceiveVersions`, `ReceiveSettings`;
`HandleData`, `ReceiveData`; `GetServerHandlerSettings`, `ReceiveHandlerSettings`), and the server's
steps between them are `HandleMessage`, `HandleDataMessage` (which acquires the handlers) and
`RunHandler` for each handler. `ServerInit` puts another server in the place of the one there was, at any
time but while it works on a message. `OtherRequest` is a message of some other client, in a form
this client would not send.

The handlers of a message are any set of handlers of its struct with at most one unicast handler: what `registerHandler` lets stand
beside one another, and all that an acquire hands out together (`AcquiredTogether`, checked and proved of the registrar). So a unicast handler may run among
multicast ones, before or after them. `CSP.txt:1727-1732` makes it the user's duty that a unicast routine is the only one of its struct and that several
multicast routines have no output; nothing in the code sees to it, and no guard of the model does. It is the operator `RoutinesSuit`, and a
hypothesis of the half of `NoFalseSuccess` that needs it.

Left to nondeterminism: which handlers are registered when the message comes (none, some, all),
whether a policy, the body or the user's function makes a handler fail, whether a reply breaks off,
whether the communicator fails. Left out: data flags and unmanaged pointers (their refusals are
covered by a handler that fails before it writes), and what the bodies hold.

At this commit `kProtocolVersions` is `{1}`, so that negotiation of protocol versions is dormant. It
is a list in order to grow, and all of the code that negotiates is there. The run therefore gives
the client a build with versions 2 and 1 and the server one with 3, 2 and 1.

### ElementMemory, VectorStorage, WalkerCursor, StoredSequence

A walker is a vector and an offset, and a vector is a block (`cells`), a size and a capacity. A cell is raw
memory, holds an element, or holds an object that was moved from or whose `init` failed.
`ElementMemory` has the ranges operations of the allocation manager over cells, for three kinds of
elements: bytes, elements with a move constructor, and elements that a move merely copies. What a
call may not do to memory (destroy twice, build over a living element, read a dead one, move between overlapping
regions, leave the block, give back a block with an element in it) is recorded in `faults`.

`VectorStorage` has one operator for each method of `Vector`, from a vector and the arguments to the vector and the
status; `grow`, `relocates` and `fail` are what the allocator and the elements do in the call. `WalkerCursor` has one
action for each method of `Walker`, which runs the vector's method to its end and sets `offset`, so that
every public path of the vector is taken with the cursor it leaves behind.

`StoredSequence` is what a caller may expect: which elements and which cursor each method leaves, when it succeeds and when
it does not. `WalkerCursor` implements it with `items` = the cells below the size and `cursor` = `offset`.
It records that only `init` loses elements when it fails, and then leaves the cursor where it was - the one way to a
cursor beyond the end - and that only `insert` of a range may have done a part of its work.

The code does not survive every call. `Spared` names five kinds that a run leaves out; the passing run leaves out
all five, and what it shows is about all other calls. With any one of them let in, TLC finds one of the
properties of the run violated:

| `Spared` | Call | What then fails |
|---|---|---|
| longer tail | `erase` of fewer elements than stand on their right (`cont/Vector.h:821`) | `MovesDoNotOverlap`, `ElementsLive`: finding 5 |
| relocation | a copied element fails while the vector grows (`cont/Vector.h:1055`) | `CapacityIsReal`: capacity of the new block, with the old one |
| positioned copy | an element fails to be copied in `replace` or `insert` (`cont/Vector.h:656`) | `CapacityIsReal`, and the new block is lost |
| among copied | `insert` in place before elements without a move constructor (`cont/Vector.h:720`) | `NoMisuse`: what the moved elements hold is lost |
| displaced range | `insert` of a range has no memory for `temp` or at the end (`cont/Vector.h:760`) | `KeepsTheSequence`: displaced elements are lost |

Sizes near 2^64 are modelled with a `SizeMax` of the run (the checks for overflow, what `calculateNewSize` falls back
to), and so is a storage of the user's (`RawKeeperAllocator`), which no copy of the vector shares. Left out: arguments that
point into the vector itself, `getVector` (which lets a caller change the vector behind the cursor's back) and the
arithmetic of iterators, which are the indices they stand for.

### The tests of the containers

`ElementMemory` says in one formula what a range operation leaves. `ElementLoops` has the loops themselves, element by
element: which object is built or destroyed first, forwards or backwards, what is destroyed after an error half way,
what becomes of the source. The two are compared for every small layout of a block (`Layouts` in `AllocationTests`).

`VectorTests`, `WalkerTests` and `AllocationTests` are the unit tests of `Vector`, `Walker` and the allocation manager,
told as sequences of calls, each with what the test expects of the object after it (`TestScripts`). `ContainerTests` carries
them out, each for the kinds of elements it is instantiated for, in the operators the other modules are built from. That all
assertions hold ties the model to what the authors of the code say it does: a method that was translated wrongly would fail a
test that the code passes. Tests of iterators, constructors of convenience and of what the compiler refuses are not among them.

### DataContexts and BodyProcessing

`DataContexts` is what both sides compute without a message: the fields of `context::Data` that steer the body, the
tests of the data `ContextProcessor`, the private versions of a struct with the layout each of them had, the choice
of the version a struct has in a message (`getBestCompatInterfaceVersion`), whether a struct goes as bytes
(`SimplyAssigned`), and the chains `ToVersion` and `FromVersion`. A *build* is a record of what one program was
compiled with, so that the two ends of a message may be years apart.

`BodyProcessing` is a writer of one build and a reader of another, and the messages between them one after the other.
A *place* is where an object stands: the object it belongs to, a member's name, an index. The value of a number is the place it has in the writer,
so that the reader's memory shows where each value came from: the data are their own identity, and no message is
accepted because two values happen to be equal. The message `out` is counted in tokens (a number, the prefix of a
pointer, a struct copied as a whole), and an offset is a count of tokens; that the tokens have the widths the reader
expects is left out. The nested calls of `serialize` and `deserialize` are the stack `agenda`, the innermost first: each action takes
its own item off and puts the calls it makes in its place, so each overload of the code is one action.

| Variables | In the code |
|---|---|
| `sctx`, `dctx` | `context::SData`, `context::DData`; they serve several messages, cleared or not, after success and after failure (`NextMessage`) |
| `pointersMap` | the map pointer → offset of the writer |
| `objectsMap` | the map offset → pointer of the reader |
| `out`, `tell` | the binary data, and the reader's walker over it |
| `memory`, `made`, `dead` | the reader's objects, those of the added pointers and the temporaries, and the temporaries that are gone |

A temporary of an older version is an object of its own, which dies when it has been converted, or when an error unwinds
the calls above it (`Abandon`): `ErrorNoMemory` when the temporary is made (`FromOldStruct`), or when the next one of a chain upwards is (`ConvertToUpperVersion`). `Converted` stands for the `init` functions of a chain: they carry what both neighbours
have and leave the rest at its default, as the generated ones do.

Left to the exchange: the sizes of integers and the bytes of numbers, empty structs, structs that a template processor takes,
pointers that are not numbered. Left out: pointers to an object and to its first member at once
(they have one address, see the hazard at `BodyProcessor.h:570`), and pointer maps supplied by the user, which the
library does not clear between messages. As in the code, the root is not registered, so
that no pointer of the graphs leads to it.

What a build is, is assumed and not left to the instance (`IsBuild`): private versions are listed downwards, as `getBestCompatInterfaceVersion` and the
chains of conversions need them; the interface version of a definition is that of the last change to it or to a part of it, which makes it no less than those of its parts;
a struct consists of structs that existed when it was defined. `OriginAssumption` says that a reader still has the oldest version the writer has of the root: the origin is the version in which a struct was
first defined (`base/ISerializable.h:106`). Without it a context that is kept after `ErrorNotSupportedInterfaceVersion`, whose version is by then that of the refused message, takes the same message at a second
attempt, and the conversion ends in `ErrorInternal`. `GraphsAssumption` says that the places of the writer's objects are not those of the reader's, which are numbered.

`Spared` names one kind of message the passing run leaves out: pointers to elements of an array, where a version does not match.
Let in, it is finding 3.

### StructExchange and what it is made of

`BodyProcessing` counts tokens; the exchange counts bytes. A writer on one platform serializes a struct of the repository's
tests, and a reader on another one deserializes it as the same struct, as one of its legacy structs, or as a struct with
members of other sizes.

* `SerializableStructs` and `TestStructs` describe the structs as data: tag, versions, members in the order in which the
  generated functions take them, what `fill()` gives them, and the conversions between the versions. One operator,
  `WriteStruct`, then does for all of them what the generated functions of each spell out.
* A *platform* is an order of bytes and a greatest alignment. `StructLayout` is the compiler's part (external): where the members are, and so
  what a struct is as bytes, padding included. `StructMemory` turns values into the bytes of a platform and back. Padding is
  zero there; no property depends on it, because it is skipped when a value is read back.
* `WireFormat` and `WireReading` have one operator for each overload of `BodyProcessor`'s `serialize` and `deserialize`
  and of the serializers of the standard containers (strings, vectors, pairs, maps, tuples), with the prefixes of sizes,
  the casts to a smaller and to a bigger type, the copying as bytes where tags and layouts allow it, and the version converter.
* `StructExchange` is `Serialize`, `LoseTheEnd` and `Deserialize`: the message may be truncated on its way.

The properties leave out two kinds of exchanges, by name, in which writer and reader do not agree at this commit
(`OneByteOnOneSide` and `LeftToNobody`); both are described under section 4. Without the first `RefusedForAReason` fails, without the second `ReceivedAsSent`.

## 3. Runs

| Run | Shows | Bounds |
|---|---|---|
| registrar_by_handler | `TypeOK`, `HeldHandlersStay`, `CountersExact`, `LatchCountedOnce`, `HandlerInv`, refinement of `DrainingRegistry`, `UnregisterReturns`, when handlers are unregistered one by one | 2 clients, 2 admins, 3 handlers of 2 services and 2 ids, 3 nodes, 4 and 3 calls |
| registrar_by_service | the same with `ServiceInv` for `HandlerInv`, and `ReleaseReadsLiveEntry`, `AcquiredTogether`, when services are withdrawn as a whole | the same, all three handlers of one id, one of them multicast |
| registrar_stress_test (violation) | mixing both kinds of removal on one service can erase a handler in use | the same |
| registrar_two_admins (violation) | two threads removing the same handler in the two ways: one waits for ever | the same |
| messaging | `TypeOK`, `SettingsSuitBoth`, `AgreedClientIsServed`, `EveryRequestAnswered`, `NoFalseSuccess`, `ReplyInv`, `AgreementInv` | 5 client settings, 5 servers, 4 handlers (a unicast and a multicast one of one struct, two multicast ones of another), 3 kinds of call, 1 additional flag, 4 foreign messages |
| walker | `TypeOK`, `CapacityIsReal`, `ElementsLive`, `NoMisuse`, refinement of `StoredSequence` | 3 kinds of elements, 2 values, arrays of up to 2, size up to 3, blocks of up to 4 |
| walker_erase (violation) | `erase` moves between overlapping regions | the same, movable elements |
| body | `TypeOK`, `BodyInv`, `AcceptedIsRead`, `ReceivedAsSent`, `SharedStaysShared`, `PointersAreLive` | 4 builds as writer and as reader, 31 graphs, 8 settings of the writer |
| body_elements (violation) | a pointer to an element leads into a temporary that is gone | the same, one pair of builds, the reader one version younger |
| body_four_versions (violation) | the oldest of four versions is read and then not converted | 1 build, 4 versions, no pointers |
| container_tests | `AssertionsHold`, `MisusedByInsertOnly` | the tests as they are; blocks of up to 128, `SizeMax` 1000; every layout of a block of 5 elements |
| exchange | `ReceivedAsSent`, `ReadToItsEnd`, `RefusedForAReason`, `PrefixRefused` | the structs of the tests and their legacy structs, all orders of bytes, 3 pairs of alignments, all flags, all versions |

*Why the bounds are enough.* Registrar: two clients let one be the last user and the other arrive
late or be the last but one; two admins let one wait while the other changes the map and the lists;
handlers h1 and h3 share an id (the multicast path) and h1 and h2 share a service (a withdrawal that
must add up counters); in the second run all three share the id, so that a unicast handler is refused beside another and a multicast one is not; with three nodes an erased node is reused while a client still remembers it; three or four calls are a registration, a
removal, and the same again. `CounterMax` = 7 stands for 2^32 - 1 and exceeds what two clients can
add to one counter or two entries' sum. Messaging: there is no bound but the finite sets of inputs, and
the state space is exhausted (about 1 400 000 states). The offers are chosen so that each outcome of
the negotiation occurs: no common version, a version the client's build lacks, flags that clash, a
byte order the server cannot write, no common interface, an interface version older than a handler's minimum.
Walker: with three elements and arrays of two there are edits at the front, in the middle and at the end, with a tail that is
shorter and longer than what is inserted or erased; blocks of four let a vector fit exactly, have room,
grow to the double and fall back to what is needed. A position may lie one beyond the largest size.
Body: the four builds are the same three structs over time. The root gains, loses and regains members (the chain down passes a
version without `z`), its array is of a struct that changes without the root's changing in version 2 (so that the latest interface version exceeds the private
one), and the struct its pointers lead to never changes itself. Every build writes to every other, newer and
older. The graphs have up to two nodes in a chain, with a loop at either, a cycle of both, shared and null pointers, and pointers to
an element. Eight settings give every version that some build does not have, bytes and no bytes, another byte order,
pointers with and without numbering, and two that are refused. A third message is like a second one in every variable, so the
state space is finite without a bound on their number (420 027 states).
Container tests: the tests themselves fix the sizes (blocks of up to 128); `SizeMax` exceeds what any of them
asks for, but where a test asks for too much. Exchange: the order of bytes of writer, message and reader are independent of each other; alignments are 8 (as on x86-64), 4 (i386) and
1 (packed builds), in the pairs 8/8, 8/1 and 4/8; the flags are all subsets of the three that change the bytes, with and without
`allowUnmanagedPointers` where there is a pointer; the versions are all that a struct ever had and one before the first. Numbers that change their size take the
value they are filled with, the bounds of the smaller type (32767, -32768, 255) and their neighbours beyond. A message loses its last byte or its second
half (33 012 states).

*Deadlock* is checked in every run but two: an idle client or admin can always start a call
until the bound of its calls; clients have no such bound, and a walker can always be called. A test of the containers and an
exchange end, so that container_tests and exchange do not check it.

*Fairness* (registrar): weak fairness of each step of a thread that is inside a call, and of
`ReleaseHandler` (a handler that runs ends). It is what a scheduler gives a thread that can run:
the mutex is not held across a step, a wait on a latch is enabled for good once the latch is open. No
fairness on starting a call. The messaging module states no liveness: a call of the client is a straight line. Nor do the walker's and the body's: they are sequential.
That a serialization ends although its pointers form a cycle is seen from the finite state space of the run: one that did not end would
make `out` grow without end.

### What the properties are about

* `HeldHandlersStay`: `unregisterHandler` and `unregisterService` never erase an entry, nor return to a
  caller that may destroy the handler, while a client may be inside `handleDataCommon`.
* `CountersExact`: counter = number of users, over partial failures of `aquireHandlers` and reuse of nodes.
* `LatchCountedOnce`: `count_down` comes after `unlock`; the list node that holds the latch must
  still be there, and nobody else may be about to open it.
* `ReleaseReadsLiveEntry`: the unlocked fall through reads an entry that is there.
* `ImplementsDrainingRegistry`: no acquisition of an entry whose removal waits.
* `UnregisterReturns`: whatever the order of the releases, the one that must open the latch does.
* `SettingsSuitBoth`: what `init` agrees on suits both sides, whatever a failed `init` left behind and
  whichever server answered which of the two requests.
* `AgreedClientIsServed`: and what was agreed on is not refused later, whatever flags a call adds.
* `EveryRequestAnswered`: the one message that is left without a reply is one in a byte order the
  server refuses, because the status would have to be written in it.
* `NoFalseSuccess`: a client's `NoError` means that a handler of its message ran and succeeded, whatever broke off; and that all of them did, where the routines of the
  struct are as `CSP.txt:1727-1732` asks. For other sets the second half is false (section 4).
* `AcquiredTogether`: what `handleData` loops over is of one id and has at most one unicast handler, although handlers come and go between `aquireHandler` and `aquireHandlers`.
* `ReplyInv`, `AgreementInv`, `ServiceInv`, `HandlerInv`: the properties above made inductive; section 5 says what had to be added.
* `CapacityIsReal`: the capacity is that of the block the vector has, whichever allocation was refused.
* `ElementsLive`: after edits that destroy, move and build over the same places, some of them broken off, exactly the places
  below the size hold elements.
* `NoMisuse`: and on the way nothing was destroyed twice, built over, read dead or lost.
* `KeepsTheSequence`: the vector holds what its callers put in it, and the cursor is where they expect it.
* `AcceptedIsRead`: once the contexts agree, the body never fails for another reason than memory, and is read to its last byte: both
  sides choose the same version, the same bytes-or-members and the same prefix for each part, from different tables.
* `ReceivedAsSent`: every object that can be reached arrives, with each number from its own member, and what some version between
  did not have is at its default.
* `SharedStaysShared`: the pointers of the reader are equal exactly where those of the writer are.
* `PointersAreLive`: nothing the reader keeps points into a temporary, after success and after an error half way.
* `AssertionsHold`: the model answers each test of the containers as its authors expect, and the loops leave what `ElementMemory` says, with an error at any element.
* `MisusedByInsertOnly`: on the way through all tests, memory is misused by one method only (`insert` among elements that a move copies).
* `ReceivedAsSent` (exchange): each number arrives, although four parties decide about its bytes: two compilers, two builds.
* `ReadToItsEnd`: and the reader stops where the writer stopped; a prefix that only one of them expects would shift all that follows.
* `RefusedForAReason`: neither side refuses anything but what the flags, the versions or the bounds of a type forbid.
* `PrefixRefused`: `Walker::read` succeeds on less than it is asked for; still no truncated message is taken for a whole one.

## 4. Findings

1. **Removal by service and by handler on one service** (registrar_stress_test). In `releaseHandler`
   the case `ServiceRemove` unlocks, opens the latch, and falls through to the case
   `HandlerRemove` without the mutex. The woken admin may by then have erased the entry, registered the handler again and
   called `unregisterHandler`; the late client then opens the latch of that call while another client runs the
   handler. `csp_messaging/unit_tests/ComplexTests.cpp:301` (StressTest) makes exactly these calls.
2. **Two threads remove the same handler** (registrar_two_admins). `unregisterHandler` overwrites
   the state `ServiceRemove` by which the release finds the node of `unregisterService`; that call never returns.
3. **Pointers to elements of converted arrays** (body_elements). `deserialize` of an array registers the places its elements are
   read into. If the struct around it is of an older version, this is a temporary: a later pointer to such an
   element is left dangling once the temporary is converted and destroyed. A writer may produce it, because it registers
   elements likewise.
4. **Four versions** (body_four_versions). `convertToUpperVersion` asks at each step for an `init` of the *last* struct of the
   chain from the next one, where it then uses the `init` of the *next* one. With two or more versions between it returns
   `ErrorNoSuchHandler`, after it has read the struct, although every `init` between neighbours exists.
5. **Erase before a longer tail** (walker_erase). `Vector::erase` moves the right part down with
   `moveToRawNoOverlap`, whose regions may not overlap, and then destroys the places it came from, where
   elements stand that it has just moved in: `erase(0, 1)` of three elements with destructors leaves size 2 and a dead second
   element. The tests erase only where the right part is no longer than what is erased.

Seen while modelling, and no run of its own:

* `registerHandler` tests for other handlers only when the new one is unicast
  (`msg/GenericServerDataHandlerRegistrar.h:106`), so that a multicast handler may come to stand beside a unicast one, which `CSP.txt:1727` excludes. The server
  runs them all. If the multicast one fails first, the unicast one clears the output (`msg/IServerDataHandler.h:170`) and writes its reply; the server adds no
  status to an output that has something, and the client's `handleData` returns `NoError`. `CspMessaging` has these steps; without `RoutinesSuit` TLC finds `NoFalseSuccess` violated by them.
* After its wait `unregisterHandler` searches the map again (`msg/GenericServerDataHandlerRegistrar.h:144`), with a rehash in mind. If another thread has registered
  the same handler meanwhile, there are two entries of one id and one handler in no particular order, and it may erase the new one while it is in use; the old one stays, in the state `HandlerRemove`, for
  good. Let both admins register h1 and one unregister it, and TLC finds `HeldHandlersStay` violated.
* `addedPointers` and the loop over handlers (`msg/Server.h:189-217`): each multicast handler is also handed the unmanaged pointers that were made for those before it.
* The default `MinimumInterfaceVersion` (`msg/IServerDataHandlerTraits.h:55`) is the smaller of the first versions of input and output; a handler
  can serve only from the larger.
* `base/context/Common.h:91`: a reply's context takes the build's latest protocol version for the smallest it accepts, so that a
  reply in an older one would be refused once there is an older one; the common `ContextProcessor.h:77` narrows the version from 16
  to 8 bits.
* Under another order of bytes, an array of bytes is copied as it is (`base/processing/data/BodyProcessor.h:168` and `:320`). If
  `sizeOfIntegersMayBeNotEqual` is set and the same member is an array of wider numbers at the other side, one side copies and the other goes number by number.
* Under another order of bytes, a struct without functions is not copied, and `serializeSimplyAssignable`
  (`base/processing/data/BodyProcessor.h:503`) returns `NoError` having written nothing of it.
* A `long double` is refused by the writer and the reader in different ways (`base/processing/rw.h:38` and `:63`).
* `deserialize` of an array of structs (`base/processing/data/BodyProcessor.h:352`) builds over elements that live if the array is that of a `std::vector`.
* In the tests: `MultiModesTests.cpp:37` does not use the flags it is given; `SpecialProcessingType::fill` sets `ds2.m_d0` three times (`structs.h:426`);
  `SimplyAssignableAlignedToOne_Version0` and `_Version1` are tagged as aligned to one, with an alignment of 2; the latter lists version 0 and has no converter from it.
* `Common::setProtocolVersion` (`base/context/Common.h:127`) sets the flag for different protocol versions the opposite way from the
  constructor; nothing reads the flag yet.
* `Client::handleData` (`msg/Client.h:363`) compares the first version of `ISerializableDummy`, 1, with the version of
  an unrelated interface, which is refused if it is 0.
* `base/context/DataFlags.h:72` says that `kAllowUnmanagedPointers` is set automatically where `kCheckRecursivePointers` needs it; both context
  processors refuse the one without the other, as the runs show.
* A `DData` that is used again without being cleared takes the version of its last message for the smallest it accepts; clearing it also
  destroys the objects the last message has brought.
* The forbidden and mandatory flags of member structs are tested only where versions do not match.
* Whether a tagged struct is copied depends on its interface version in the program that asks (`base/processing/data/BodyProcessor.h:500`), which grows with
  its parts: of two programs one may copy it with its padding and the other go member by member in the same message (§5, `OneHistory`).

## 5. Proofs

The proofs rest on the ASSUMEs of the modules and on nothing else; TLC evaluates those in every run. Where a theorem needs more, it says so
as a hypothesis on constants (`RemovalByHandler`, `RemovalByService`, `SurvivedCalls`, the hypotheses on builds), for the findings show that it is false without.

**The registrar.** Assumptions: the sets are disjoint from `None`, functions have their types, clients and slots are finite, `CounterMax` is
large enough for one increment per client and slot.

* `TypeCorrect == Spec => []TypeOK`, for every program of the admins, both kinds of removal included.
* Under `RemovalByHandler` (nobody calls `unregisterService`, and one thread owns each handler):
  `HandlerInvHolds`, and from it `RemovalByHandlerSafe` (`HeldHandlersStay`), `RemovalByHandlerCounts`
  (`CountersExact`) and `RemovalByHandlerLatches` (`LatchCountedOnce`).

`HeldHandlersStay` is not inductive. An entry is erased in three places. When the counter is zero under the mutex,
`CountersExact` says that nobody holds it. When a thread wakes from its latch, one must know that the latch
is open only when the counter is zero (`OpenLatchUnused`), that the entry it finds again is the one it waited
for (`WaitersEntry`, `OneEntryPerHandler`), and that the counter cannot have grown since (an entry under removal is not
`Active`, so not acquired). That a latch is opened only for an entry whose users are gone rests on `OneOpener`:
the client that saw the counter reach zero is the only one on its way to that latch, its entry is still in the
map because the thread that would erase it still waits (`RemovedEntryAwaited`), and the node it will find is
that thread's. `NoServiceRemoval` says that the other kind of removal does not occur - finding 1 shows
that the discipline cannot simply be dropped. `HandlerInv` is the conjunction; TLC checks it as an
invariant of registrar_by_handler. The proof has a lemma per action (`RegisterHandlerInv`,
`UnregisterHandlerInv`, …), assembled in `NextHandlerInv`; before them are the lemmas about
updates of entries and counters they share.

`RemovalByHandlerImplements == Spec => ImplementsDrainingRegistry`, under the same discipline. Each section of the code is one step of
`DrainingRegistry` or none (`NextMaps`): `RegisterHandler` opens an entry, the marking of an entry in use closes it, an erasure
removes it, `AquireHandler` and `AquireHandlers` are acquisitions, the latter of several entries at once, and the decrement of the counter is the release. Latches,
lists and returns are stutters. A removal must be of an entry without users, which is where
`HandlerInv` is needed: `CountersExact` and `OpenLatchUnused` say that there are none (`ZeroUnused`). Every lemma is about one action.

* Under `RemovalByService` (nobody calls `unregisterHandler`, and only the thread that withdraws a service registers its handlers):
  `ServiceInvHolds`, and from it the same three properties, `RemovalByServiceReads` (`ReleaseReadsLiveEntry`) and `RemovalByServiceImplements`.

Here one latch waits for many entries, and the counter in front of it is a sum that releases take from while others still run. `ServiceInv`
counts what it stands for: `Draining(a)` is the set of uses (a client and an entry) that admin a's withdrawal has to see end, and `NodeCountersExact` says
that the counter of the node is its cardinality. A use leaves the set in two steps, which is the hard case: `releaseHandler` first takes it from the entry's
own counter, and under the same lock from the node's, but the loop of `unregisterService` visits the entries one by one, so that an entry is in the sum only
after it has been marked. `LoopAlone` says that the loop runs beside no reader, `Withdrawals` that what is left to visit is the admin's own. The unlocked
fall through of `releaseHandler` is harmless because `m_unregisterHandlerList` is empty (`NoHandlerRemoval`) and because a reader's entry is in the map until it
is done (`ReadersEntry`). `OneServiceOpener` and `OpenLatchDrained` do for the latch what `OneOpener` and `OpenLatchUnused` do above.

* `RemovalByHandlerTogether`, `RemovalByServiceTogether`: `AcquiredTogether` under either discipline. `TogetherInv` adds `OneUnicast`, that the map has at most one
  unicast handler of an id: a registration is refused otherwise, and an acquire takes from the map what it has of one id. That nothing a client holds is erased or its node used again is
  `HeldHandlersStay`, and so the discipline is needed. This is what the messaging assumes of the handlers it is handed.

**The replies** (`CspMessagingProofs`), for all settings, protocol versions, messages of other clients, and sets of handlers as the registrar hands them out. `EveryRequestAnswered` and `NoFalseSuccess`
are not inductive, and `ReplyInv` is their strengthening:

* `HandlersCanBeAnswered`: while handlers run, the message is of a protocol version the server's build has and of a byte order the
  server writes, so that the status of a handler that fails can be written at any time.
* `EachRunsOnce` and `FirstErrorStays`: a handler that ran is not run again; and while no error is recorded, every handler that has run succeeded.
* `ClaimsAreTrue`: a message in the output that a client would take for a success is that of a handler that succeeded, whatever was appended behind a reply that broke off. If
  the routines are as `CSP.txt` asks (`RoutinesSuit`), it is only there when all of them have run and no error was recorded: a handler with an output is then alone, and those without write
  nothing when they succeed.
* `OneMessageAtATime`: nothing of a message or a call is left for the next.

There is a lemma per action (`NextReplyInv` puts them together), and below them one for each way in which a reply comes about:
`AnswerWithInv`, `AnswerErrorInv`, `ReturnAtOnceInv`, `TakeReplyInv`, `SendInv`. Assumptions: those of the module, all evaluated by TLC: `None` is no
result of a call, the versions a server offers are a sequence of positive numbers, a build has the versions from some latest one down to 1, and each handler has its traits.

**The agreement** (in the same module), for all byte orders, settings of both sides, handlers, calls and requests of others. `SettingsSuitBoth` and
`AgreedClientIsServed` compare what a client has with what a server has that may have been replaced since, so neither is inductive. `AgreementInv` follows the settings from
`Client::init` to the replies of later calls:

* `InitFromCleared`: `getCompatibleSettings` only ever adds to settings that hold nothing, so that nothing of an earlier `init`, failed or not, comes through.
* `SettingsCome`: a GetSettings message that is answered with data was readable, which shows that client and server have one byte order.
* `SettingsAgreed`: a valid client forbids what the server it heard from forbids; and then `SettingsSuitBoth`.
* `RequestSuits`: a message of `handleData` or `getServerHandlerSettings` has one of the agreed versions, all mandatory and no forbidden flags, and a byte order the
  build can write, whatever flags the call adds.
* `AgreedWhileServed`: so the server refuses none of them for its version or flags, at any time before the reply is taken.

That the common versions are the intersection in decreasing order is an induction over the list (`FoundInByRounds`, `FoundInSeq`): `FoundIn` is a recursive function, and
`DataInduction` gives it its rounds. `MessagingTypeCorrect` is a part of the same invariant. Assumptions beside those above: the versions each side offers are in decreasing order, as
`msg/service_structs/structs.h:294` says of them; a server offers versions of its own build; offers, traits and calls have their types.

**The vector and the walker** (`WalkerProofs`), for all kinds of elements, values, arrays, sizes, block sizes and `SizeMax`, and for every sequence of calls.
`Sound(v)` is the invariant of a vector that every method finds and leaves: the capacity is the length of the block, the size no more than that, exactly the places below the size hold
elements, and nothing was misused. `Settled` adds the cursor, `WalkerInv` the type of the recorded call. `WalkerTypeCorrect`, `CapacityStaysReal`, `ElementsStayLive` and `NothingMisused` follow from it,
and `WalkerKeepsTheSequence` says that `WalkerCursor` implements `StoredSequence`.

The argument goes up in four layers. *Ranges*: what each operation of `ElementMemory` leaves in a block (`Destroyed`, `CopiedToRaw`, `CopyToRawFails`, `MovedToRaw`, `MovedToDirty`), among
them the move to a place that overlaps its source. *Methods*: each method of `VectorStorage`, on a sound vector, `Fails` (and keeps the elements), `MakesRoom`, or `Edits`: the first elements, then those of the
argument, then the rest (`Splices`). *Sequences*: an edit of the vector is the edit of the sequence of its elements that `StoredSequence` speaks of (`SplicedItems`, `FailedItems`). *Calls*: one lemma for each method of
`Walker` says that its call is `Answered`, with the cursor it sets (`EveryCallAnswered`).

`insert` of a range is a loop over its elements. Its k-th round leaves the first k elements written over those that stood there, and those put aside in order (`Stands`); the loop stands there or has
stopped with an error (`LoopStands`, by induction over the rounds), and what was put aside, with what the range has not reached, is appended at the end (`RestPutBack`).

`SurvivedCalls` names the calls the code does not survive, in the kinds of elements for which it does not: erasing fewer elements than stand on their right (finding 5); for copied elements, a failing relocation and an insert
among elements that a move merely copies; for elements that can fail to be copied, that failure in `replace` and `insert`. The refinement also needs memory for what insert of a range puts aside ("displaced range"); the invariants do not.
Failures of every other kind - allocations refused, elements that fail to be copied in `pushBackN` and `init`, sums that wrap around, null arrays, positions outside - are in the theorems.

**The body** (`BodyProofs`), for all builds, members, numbers of versions, graphs, calls, flags and contexts that are used again. `BodyInv` (in `BodyInvariant`) is what holds between any two
calls of `serialize` and `deserialize`:

* `IsAgenda`: what is left to do is of structs, members and versions that the build has and the message can hold (`StructInMessage`): the origin of a struct is no younger than the message, and where versions match its
  latest definition is no younger either. `IsBuild` hands this from a struct to its parts (`MembersInMessage`), and the choice of a version in the chains of conversions keeps it (`VersionsDown`, `VersionsUp`).
  From it follows that every struct on the agenda has a version in the message (`MessageVersion`), so that the layout that is looked up exists.
* `IsMessage`, `IsMemory`, `InOrder`: the tokens and the places have their shapes, offsets are within what was written or read, and nothing of a message is left for the next.
* `PointersStay`: what the reader's memory and `objectsMap` hold leads to the copy, or to an object that is neither gone nor a temporary that waits for its conversion. This is what `PointersAreLive`, which speaks of idle
  programs only, has to know in between: at a conversion, and at an error that unwinds the calls above it, the temporaries die.

`PointersStay`, and so `PointersLive`, holds unless `ElementsNumbered`: a reader that numbers elements of arrays while structs are converted registers places in temporaries, which is finding 3. The theorem says that there is no other way to a
dangling pointer; the run has the rest of those messages (`Spared` names fewer).

**A message is read to its end** (`BodyReadingProofs`): `AcceptedMessagesAreRead == Spec => []AcceptedIsRead`, if the two builds of each pair have
`OneHistory`, `FlagsOfParts` and `ThreeVersions`, for all such builds, structs, members, graphs, calls, flags and contexts that are used again.

Writer and reader know different versions, and each follows its own `agenda`, with its own chains of conversions, temporaries and places; what they share is
the version of the message. `BodyReading` therefore describes a message by a grammar of that version. An item of an agenda comes to a *symbol*
(`ItemSymbols`): a number, a pointer, or a struct at the version it has in the message (`getBestCompatInterfaceVersion`), whatever version it was converted
from or will be converted to. A `Reading` is what symbols are to come and how many tokens are behind; it `Meets` the next token or not, and what is there
`After` it depends on the tokens only. `OneHistory` makes the two sides' symbols the same (lemma `SameSymbols`).

* `WritingLeads`: from the start of the message the tokens written so far lead to what is left to write, for as long as something is written.
* `ReadingLeads`: what is left to read leads to the end of the message. When `Deserialize` begins it is `WritingLeads` at the end of the writing; each step of
  the reader follows one step of the grammar. So the next token is the one the reader's item asks for, and when nothing is left to do all tokens are behind.
* `ContextsAgree`: the reader has the version, the flags and the order of bytes of the message, and no build has a message later than itself.
* `ItemsSuit`: the flags suit each struct that is left to do, and `convertToUpperVersion` finds its way for each conversion that waits.

`Leads` is "the second reading is in every closed set of readings that has the first": reachability without a recursion, so that a proof can name a closed set,
and that tokens appended to a message leave what led to a reading in place (`LeadsKept`). Being about all sets, it cannot be evaluated by TLC; with a
recursive walk in its place TLC found `ReadingInv` true in all states of the run body. The whole of it is needed: what the reader meets now says nothing of
what it meets after a struct inside, a pointer to one, or an array that is not unrolled yet.

The hypotheses are about constants, and `MCBodyProcessing` has TLC evaluate them (`BuildsOfTheTheorem`):

* `OneHistory`: both builds have the same private versions up to each version a message between them can have, and the same layout of each; a younger build
  may name a younger version of a part in it, if that part is the same in the message. It excludes one pair of builds that the code permits: a struct that is
  tagged simply assignable, whose part changed although its own private version did not. A build from before the change copies it with its padding, one
  from after it writes it member by member to the same version of the message, for `getLatestInterfaceVersion` has grown (`BodyProcessor.h:500`; `CSP.txt:1640` has the same rule).
* `FlagsOfParts`: the forbidden and mandatory flags of a struct contain those of its parts (`CSP.txt:1236` and `:1245` ask for it; nothing in the code checks it).
* `ThreeVersions`: no struct has more than three private versions. With four the theorem is false, by the finding of body_four_versions.

**A message arrives as it was sent** (`BodyTellingProofs`, `BodySharingProofs`):

* `MessagesAreReceivedAsSent == Spec => [](PlainGraph => ReceivedAsSent)`,
* `SharedObjectsStayShared == Spec => [](PlainGraph => SharedStaysShared)`,

if the builds have `OneHistory`, `FlagsOfParts`, `ThreeVersions` and `PlainStructs`, for all such builds, structs, numbers of versions and members, graphs, calls, flags and
contexts that are used again.

`AcceptedIsRead` says that the reader meets tokens of the kind it expects; this says that they are the right ones. `BodySharing` gives the symbols of the grammar the place
of the *writer* they are about. A `Tracing` is what symbols are to come, how many tokens are behind, and which objects were met at which offsets. A token `Tells` of the
first symbol if it holds the number that stands at that place, or the null pointer, or a prefix 1 for an object that is met for the first time, or the offset of one that was
met before. What is told is what the version of the message keeps: `Lasting` are the members that every version from the latest down to that of the message has,
and a member that one of them lacks is told of as 0 or null.

* `WrittenAsTold`: from the root, the tokens written so far tell of the places of the writer up to those that are left to write, and the objects met are those of `pointersMap` (`Seen`). A temporary of
  an older version stands at the place of the struct it was converted from; `item.kept` is what the chain has carried over so far.
* `ReadAsTold`: the reader has an `origin`, which gives each object it has made, temporaries included, the place of the writer it comes from; the offsets it has `numbered`; and the structs it has
  `opened`. What is left to read tells of the places the agenda's items come from (`ReaderKnows`). Beside it:
  * `MemoryAsTold`: what stands in a slot is what stood in the slot it comes from; a pointer leads to an object that stays and comes from where the writer's pointer leads.
  * `AllIsThere`: no member of a struct is forgotten: each was read, is left to read, or comes with a conversion that is left to do. Without it a reader that skips members would be correct.
  * `NumberedAsTold`: the offsets in `objectsMap` name the objects that `pointersMap` has at them, and with `checkRecursivePointers` two objects of the reader never come from one of the writer.
  * `InTheirTime`: nothing is read into a temporary once its conversion is under way, and no temporary is converted twice.
* `Arrived`, when the last token is read: the same without an agenda. Every struct that was opened has exactly the members that last, with what was sent.

The invariant is `SharingInv`, on top of `ReadingInv`. There is a lemma for each action of either side, those of the writer and of the reader's members, numbers, structs and arrays in `BodyTellingProofs`; the hard one is `ConvertFromOldStruct`, at which what was known of
a temporary must become known of the struct it is converted to (`ConvertTells`): slots, structs inside of it and what is still to come of it move there together (`Moved`), and what the chain of
`init`s hands on is shown to be what lasts, because a chain lists each version between the two exactly once (`VersionsDown` and `VersionsUp` of `BodyProofs`).
At the end `Met` walks from the root along the writer's pointers and the reader's side by side, as many steps as there are pointers (`MetFits`, by induction over the steps);
each pair it meets is a struct and the one it comes from, which is `ReceivedAsSent`; and that an object of the reader comes from one object of the writer, and with
`checkRecursivePointers` the other way round too, is `SharedStaysShared`.

`Traces` is reachability without a recursion, as `Leads` above, and the `\E` over functions in `ReadAsTold` is not one TLC can evaluate either. With a recursive walk and with `origin`, `numbered`
and `opened` kept in variables beside those of `BodyProcessing`, TLC found each conjunct of `WrittenAsTold` and `ReaderKnows` true in all states of the run body.

The hypotheses beyond those of `AcceptedIsRead`:

* `PlainStructs`, evaluated by TLC with the others: a member keeps its name, kind and type from version to version (`KeepsMembers`; a converter of another shape is the user's `init`, which the model does not have);
  a struct is not empty (the exchange has empty ones), and one tagged to be copied as bytes is of numbers, as all of them are in the model; its first member is not an array, whose first element would be
  numbered at the offset of the struct - in memory they have one address, which the places of the model do not express (the hazard at `BodyProcessor.h:570`); and a part that an older definition names at a version of its own has since
  lost none of the members that reach the message from there (`PartsAsLatest`): otherwise a member of the part would arrive from an array of the older definition and not from elsewhere, and `Survives` does not tell these apart.
* `PlainGraph`: the writer's pointers are finitely many, every place they lead to is of one type, none leads into an object (to an element of an array: that is finding 3, for a reader that converts) and none to the root,
  which `addPointerToMap` does not number (`BodyProcessor.h:559`), so that a pointer back to it would be written as a second copy. It is a hypothesis on the states, not the constants, as the graph is
  chosen for each message; TLC finds it true of every graph of the run whose pointers lead to objects (`GraphsOfTheTheorem`), loops and shared objects among them.

*Only model-checked*: liveness (`UnregisterReturns`); of `BodyProcessing` messages with pointers to elements of arrays; everything of `ContainerTests` and of `StructExchange`, whose operators are recursive over values and
types. Induction over the natural numbers is within reach where a recursion is written as a function, through the fact `DataInduction` states about sets of numbers; the library's theorems that take an operator, `SelectSeq`, `@@` and
RECURSIVE operators are not.

## 6. Not modelled

* Smart pointers (`UniquePtr`, `GenericPointerKeeper`): sequential owners of one pointer. Memory management: wrappers of `new` and
  `delete`; whether there is memory is an input of the modules that ask for some. Allocators other than `RawKeeperAllocator`
  and the construction of one element, for the same reason.
* `Uuid`, type traits, `std_equivalents.h`: values and what a compiler computes.
* The bytes of the headers of messages: a message is a record in `CspMessages`, the exchange has bodies only.
* `ManyPointersType`, `DForAllModesTests` and `ContainBigStructs2ForAllModes` of the tests: `BodyProcessing` has numbered pointers, on structs of its own.
* That a map keeps one of two equal keys: a map that was written has none.
* Guards' deferred states, and anything of a mutex but exclusion.
* A handler that calls the registrar from inside `handleData` (it would wait for itself).

## 7. Plan

Order of work, the most important behaviour first. Done: 1 - 8, 10 - 15.

1. `HandlerRegistrar`, `DrainingRegistry` with runs and findings.
2. Proofs of type correctness and of removal by handler.
3. `CspMessages`, `CspMessaging`.
4. `ElementMemory`, `VectorStorage`, `WalkerCursor`, `StoredSequence`.
5. `DataContexts`, `BodyProcessing`.
6. The unit tests of the containers on the model, and the loops of the allocation manager.
7. The exchange: wire format, platforms, standard containers, structs of the tests.
8. Proofs that removal by handler implements `DrainingRegistry`, and of `NoFalseSuccess` and `EveryRequestAnswered`.
9. `ServerOverRegistrar`: `Server::handleData` composed with the registrar, so that the handlers a
   message finds are those registered at the time, and a failed `Server::init`.
10. Proofs of removal by service, with the fall through as its hard case (done).
11. Proofs of the agreement of a client and a server, and of the types of `CspMessaging` (done).
12. Proofs that `Vector` and `Walker` keep their blocks and elements, and that `Walker` implements `StoredSequence` (done).
13. Proofs about `BodyProcessing`: its types, and where the reader's pointers lead (done).
14. Proof that an accepted message is read to its end, `AcceptedIsRead`: the two agendas as readings of one grammar (done).
15. Proofs of `ReceivedAsSent` and `SharedStaysShared`: what each token tells of, where each object of the reader comes from, and the two numberings of pointers as one (done).
16. `AcceptedIsRead` under a weaker `OneHistory`, and the exchange of one struct byte by byte for all layouts, once its recursive operators are functions.
