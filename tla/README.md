# airstat in TLA+

airstat reads ethernet frames from a raw socket, passes them as events over a
bus and runs each through a chain of rules (log, drop, call, goto, ...) that a
configuration file defines. This directory holds TLA+ modules of its parts,
TLC configurations that check them on small instances, and proofs for TLAPS.
Paths below are relative to `src/src` unless they say otherwise.

1. [The system](#1-the-system)
2. [Modules and the code they stand for](#2-modules-and-the-code-they-stand-for)
3. [What the runs show](#3-what-the-runs-show)
4. [Fairness](#4-fairness)
5. [What is proved](#5-what-is-proved)
6. [Where code and documentation part](#6-where-code-and-documentation-part)
7. [What is not modelled](#7-what-is-not-modelled)
8. [Plan](#8-plan)

To check a module, `tlc -config <cfg> <module>`; to check the proofs,
`tlapm` on `BlockingQueueProofs.tla`, `EtherChainProofs.tla`, `PipelineProofs.tla`,
`ChainLoadProofs.tla`, `BusProofs.tla`, `StartupProofs.tla`, `StringMapProofs.tla` and
`EventIdOrder.tla`. The longest, `StringMapProofs` and `BusProofs`, take about eight minutes
each on one processor, `ChainLoadProofs` and `StartupProofs` about four.

## 1. The system

### Threads and the way of a frame

    main            bus thread               chain workers (main.c: one)
    recvfrom        take an event            take a packet
    malloc bytes    look up type and id      run one handler of its chain
    raise event --> call the handlers:       put it back, or free bytes
      [event queue]   on_packet_event__ -->    and packet
                      makes a packet  [packet queue] <--+ (put back)
                    delete the event

The threads share three things: the two blocking queues, the heap (a pointer
in a queue hands over what it points to) and the read-only rules. The bus'
registry of handlers has no lock: main fills it before the first event.

### Components

| component | source | state | operations | what makes it correct |
|---|---|---|---|---|
| blocking queue | `impl/blocking_queue.c` | linked list with a dummy tail, one mutex, conditions *not empty* and *depleted* | add, take with timeout, wait_digest | first-in first-out and exactly once for any number of threads; no node leaked, freed twice or freed while linked; no lost wake-up; its own assertion |
| event bus | `impl/bus.c`, `bus.h` | tree of types -> tree of ids -> growing array of handlers; queue of events | bind, raise, dispatch, delete | a bind is found; an event calls all handlers once, in order; no array is used after it moved |
| chain context | `chain_ss/chain_ss.c` | packet queue, workers, the packet each holds | start, on_packet_event__, the worker's loop | every allocation has one owner and is freed once; packets take turns; each frame gets the treatment the chain means |
| chain handlers | `chain_ss/ether_chain.c` | `next_handler` and the current rule, in the packet | BEGIN, return, continue, drop, call, goto, log | handler by handler they amount to the chain read from top to bottom |
| configuration | `chain_ss/chain.c` | the file's position; rules linked by `next` and `goto_chain`, reference counts, map of names | cut into tokens, read rules and chains, link calls, error exits, keep four chains, delete the others | a text is read as it was written, or not at all; counts are exact; what is kept is allocated and nothing else is; no cycles; error exits free once |
| string map | `impl/string_map.c` | red-black tree of keys and values | insert, remove, has_key, get, free | a map; freeing hands over each value once, in key order |
| plugins | `plugin_ss/plugin_ss.c` | list of loaded plugins | load a directory, find a function | all or nothing |
| start-up | `main_ss/`, `socket_ss/` | - | one after the other, each with an error exit | handlers are bound before frames come |
| IP header subsystem, ethernet packet handlers | `iphdr_ss/`, `ether_ss/ether_ss.c` | - | print a header | never initialised by main |
| red-black tree | `tree/tree.h` | links, parents, colors | vendored macros: insert, find, remove, minimum, next | the links agree, it stays balanced, what was inserted is found |

### What is hard

- The queue's take waits *once* (no loop around the condition), frees its node
  outside the mutex, and returns a timeout even if an item has come by then. A
  timer that expires as the signal comes may consume it.
- The bytes of a frame are reached from the event and from the packet at once;
  the worker may free them before the bus thread deletes the event.
- A packet put back may be taken and freed by another worker immediately.
- A handler that binds changes the array the dispatch loop is going through.
- An address is read digit by digit into bytes, in place, and a read that fails
  half-way leaves what it has written.
- A token that starts with a space is thrown away, with all its class has in
  it, and what comes behind it is returned, whatever that is. One error message
  prints a token that has just been freed.
- A map is freed by going along a tree that each step rebalances.
- Event ids are compared by a difference that wraps around.
- Reference counts leave out the map's own pointers while the map is being
  freed, and chains nest, so error exits free several of them in turn.

`PROJECT.json` lists these as hazards, with the line and the properties.

## 2. Modules and the code they stand for

| module | models | role |
|---|---|---|
| `FifoQueue` | the promise of `blocking_queue.h` | abstract specification: Put, Get, Timeout, Digested on a sequence |
| `BlockingQueue` | `impl/blocking_queue.c` | detailed specification; `Contents` maps the linked list to the sequence |
| `Deadline` | `millis_in_future` in `impl/blocking_queue.c` | operators: the time a wait ends |
| `BlockingQueueProofs` | - | theorems about both |
| `EtherChain` | `chain_ss/ether_chain.c` | handlers as functions of a packet; `Meaning`, the reference definition of a chain |
| `EtherChainProofs` | - | theorems about it |
| `Pipeline` | `chain_ss/chain_ss.c`, the loop of `impl/bus.c`, reading in `socket_ss/socket_ss.c` | composition: EXTENDS EtherChain, with two INSTANCEs of FifoQueue between the threads |
| `PipelineProofs` | - | theorems about it, EXTENDS EtherChainProofs |
| `Tokens` | the tokenizer of `chain_ss/chain.c` | operators |
| `ChainText` | reading and linking in `chain_ss/chain.c` | from a text to the chains it defines: EXTENDS Tokens and Pattern |
| `ChainLoad` | memory in `chain_ss/chain.c` | what the parser allocates, counts and frees |
| `ChainLoadProofs` | - | theorems about it |
| `RBTree` | `tree/tree.h` | operators on a tree, for any comparison |
| `FiniteMap` | the promise of `string_map.h` | abstract specification: inserts, removes and HandOver on a function |
| `StringMap` | `impl/string_map.c` | detailed specification, with an INSTANCE of RBTree that compares by strcmp |
| `StringMapProofs` | - | theorems about it and about the operators of RBTree |
| `Bus` | `impl/bus.c` | binding and dispatch |
| `BusProofs` | - | theorems about it |
| `EventIdOrder` | the comparison of ids in `impl/bus.c` | operators and theorems |
| `EventIds` | the tree of ids in `impl/bus.c` | an INSTANCE of RBTree with that comparison |
| `Pattern` | patterns in `chain_ss/chain.c` | operators, with `MeantToMatch` as the reference definition |
| `Startup` | `main_ss/`, `plugin_ss/plugin_ss.c`, the opening of the socket | composition: EXTENDS ChainText with the plugins to link to, and compares its patterns with EtherChain's `PacketMatchesPattern` |
| `StartupProofs` | - | theorems about it and about the operators of Pattern |
| `MC...` | - | constants for TLC |

**BlockingQueue.** What a call does while it has the mutex is one action; the
waits (`TakeWait`, `DigestWait`), the return of a wait (`TakeWoken`,
`TakeExpired`, `DigestReturn`) and the `free()` after the unlock (`TakeFree`)
are others. The list is a memory `mem` of nodes numbered in the order of
`calloc`, with `freed` the numbers given back. `Signal` wakes one arbitrary
waiter. `EndWait` is ETIMEDOUT, for a thread that still waits and for one
that was signalled already: POSIX lets a timedwait that times out consume a signal sent
at the same time, which then wakes nobody else. `WakeSpuriously` is a return without
either, with the constant `SpuriousWakeups`; the program counter keeps the three ways a
wait ends apart (`woken`, `stirred`, `expired`), so that a property can tell
them. `TakeAbort` is the failing `assert`. A timer may expire at any time; what
it is set to is `Deadline`, a sum of signed numbers stored in a uint64_t; where it
overflows C leaves the value undefined, so any may result. Errors of pthread
calls other than ETIMEDOUT are not in the model; the one that a wrong deadline would
cause does not come up as long as the sum fits (`DeadlineExact`).

**Pipeline.** `mainPc`, `busPc` and `workerPc` are the threads' positions, and
`bytes`, `events` and `packet` say what is allocated. `OnPacketEvent` is one
iteration of `bus_event_node_fire_event`, `RunHandler` the reset of
`next_handler` and the call of the handler (`EtherChain!Handle`), `Requeue`
and `PacketDelete` the two ends of the worker's loop. `effects` and `passedBy`
are history variables: what was done to each frame, and on whom handlers were
run while it waited. The queues are instances of the abstract `FifoQueue`, which
`BlockingQueue` is proved to implement; what is lost by that is the assertion,
which ends the process when there are several workers, so Pipeline with two
workers says what holds as long as the process is alive.

**EtherChain** has the handlers, one alternative of `Handle` and `Effect` for each, and
beside them what a chain *means*, by its rules and not by the handlers: a rule concerns the
frames its pattern matches and no other, `log` and `call` act and the frame goes on, `goto`
sends it to another chain, the others end its way. In two places that is not what the
code does, and `Implemented` says so: `ether_chain.c:126` calls the plugin without a look
at the rule's pattern, and of `return` and `continue` the code itself says that they are NOT
implemented (lines 104 and 109). What is claimed is therefore about frames that meet
implemented rules only (`AllImplemented`).

EtherChain assumes that `next` and `goto` have no cycle (`ChainAssumption`).
That this is so for every configuration is `WaysEnd` of ChainLoad, and
`RulesRanked` proves the assumption itself from ChainLoad's specification.

**ChainLoad** has the configuration as environment: each action is one
statement the parser may meet, so a run goes through all configurations within
the bounds. A chain is the number of its first rule, as in C it is that rule's
address; `open` is the stack of calls of `read_chain`, `freeing` that of
`free_chain`, which recurses through `try_delete_chain`. Tokens and patterns are
not in it: a syntax error is one action (`SyntaxError`), except where it leaves
something changed (`ReadGotoNoSemicolon`), passes NULL to strcmp (`NullToken`) or prints a
token that it has freed (`NoBrace`, `chain.c:299-300`), after which the program takes its
error exit or does not get there. Only the memory of *rules* is modelled: that of tokens,
patterns and names is not, and nothing is claimed of it.
Which texts lead to which of these is the business of ChainText.

**Tokens and ChainText.** A text is a sequence of items: a sign, a space (any run
of white space), a word of letters and digits, or an underscore, which is of the words'
class but no beginning of a name (`Identifier` is `isalnum(token[0])`). `next_token` takes the longest run of one
class, so `}}` is one token and so is everything between parentheses, spaces
included; `next_token_skip_space` is the function as it stands, which drops a
token that starts with a space and returns whatever is behind it. A read of one
rule (`ReadRule`) asks for its tokens in the order of the code (`RuleTokens`) and
then crashes, fails or appends, according to `Dereferenced` (a null token reaches
strcmp or compile_pattern) and `WellFormed`. `open` is the stack of read_chain,
`chains` the map. A parse ends `done`, `failed` (an error message), `crashed` (a null token) or
`undefined` (the freed token was printed). ChainText is a part of a next-state relation:
Startup adds the file and the plugins.

A configuration is a text together with what was meant by it, which only the properties look
at: the chains it defines, which names stand outside all others, to which a goto
comes too early, and whether the text is complete (`whole`). `Acceptable` says, from that alone,
what a reader has to accept.

**RBTree** has a tree as a record of links, parents and colors, and an operator for
each macro. Code that tree.h has twice, mirrored, is written once with the side as
a parameter. A `while` is a function, its round, from what it is about to what it is
about next (`InsertRound`, `RemoveRound`, one step down or up in the searches), and
`Loop` repeats a round until it changes nothing. `Loop` stops after as many rounds as there are
nodes; the proofs show that every loop has ended by then, so nothing is cut off.
**StringMap** is the map over it; `ImplementsMap` compares it with the map it stands for
in ChainLoad. string_map_remove frees the key of a node and never the node, to
which nothing leads any more; such nodes are not counted in the model.

**EventIds** is the second kind of tree in the program, with the comparison of
event ids, that has no order over all ids; Bus has the trees as finite maps, which
the program's own small ids justify (`NearIdsAreOrdered`).

**Bus** has one action per operation on a tree and per statement on a node or an array,
because no lock holds two of them together: the test for a first array, its calloc and the
two counts behind it, the test for a full one, the doubled size, the realloc (which copies
and frees) and the store of its result, the count and the slot are actions of their own, and so
are, in the dispatch loop, the test, the address of the slot and the call through it. `op[t]` is the
bind or lookup thread t is at, `fire` the dispatch of the bus thread. The trees are finite
maps; `Insert` is RB_INSERT, which keeps an equal element that is already there. `misused`
says that freed memory or a slot that is not there was used, or null called. With `Concurrent`
main binds while the bus thread works. That is a data race and C leaves undefined what comes of
it; the interleavings of the model are some of that, enough to show a bind that is lost
(`bus_shared`). Nothing else is claimed of it: every other run and every theorem is about
binds by main before the first event and by handlers on the bus thread.

**Pattern** keeps the characters of an address, by their ASCII codes, since what a
rule matches depends on each; `Stored` says which octets are overwritten
before a read fails at a separator. Everything else in a word is abstract.

**Startup** is main with an alternative for each exit. The directory is any
subset of `Files`, in any order; `Kind` says what loading a file meets, and
`FailEntry` stands for every way in which `read_plugin` fails (they all close
the library and return an error). A link that leads nowhere is both skipped and
loaded, since `file_loadable` then reads what stat() has not written. A parse that fails
is an exit; one that is `undefined` leaves open whether main gets there.

Modules that model code hold, before the operations concerned, variants named
`Slip...`: an operation with a plausible mistake. They are no part of the
specifications. Replacing the operation by its variant makes the property it is
paired with fail (`PROJECT.json`, mutants), which shows that the property looks
at what the code does.

## 3. What the runs show

| run | instance | properties | result |
|---|---|---|---|
| `bq_queue` | 2 takers, one of which also adds, 1 adder, 1 caller of wait_digest, 3 adds, 2 items, timers that consume signals, spurious wake-ups | TypeOK, NodesAccountedFor, NoLostWakeup, AbortNeedsAnother, ImplementsFifo, EveryItemTaken, DigestedWhenDepleted | hold |
| `bq_assert` | 2 takers, 1 adder, no spurious wake-ups | AssertHolds | violated, see 6 |
| `bq_digest` | 1 taker, 1 adder, 1 caller of wait_digest | NoEffectWhenEmpty | violated, see 6 |
| `pipeline` | 2 workers that may fail to start, 2 frames, 3 chains to start at | TypeOK, NoDanglingPointer, OneOwner, FilteredAsConfigured, NobodyPassesTwice, EveryFrameFreed; no deadlock | hold |
| `chains_load` | all configurations of at most 4 rules, 3 names, nesting 2 | TypeOK, CountsPointers, KeptExactly, WaysEnd, ErrorExitsReadNoFreedRule | hold |
| `chains_count` | the same with 3 rules | NoUseAfterFree | violated, see 6 |
| `bus_alone` | 2 types, 2 ids, 4 binds, 3 events, arrays of one slot | TypeOK, BindsAreFound, AllWaitingCalled, NoStaleArray | hold |
| `bus_shared` | the same, 2 binds, 1 event, main binds at any time | BindsAreFound | violated, see 6 |
| `startup` | 2 plugins, a link that leads nowhere, a plugin of another type; a few hundred texts of up to 2 rules or 2 chains, in all layouts, with white space before and behind, gotos that come too early, names with an underscore, empty chains, whole and broken off; 8 words for patterns; addresses of 2 octets | TypeOK, PluginsWhole, CallsLinked, ReadAsWritten, NoPartOfAChain, MatchesWithoutZeros | hold |
| `pattern_zero` | the same | MatchesAsWritten | violated, see 6 |
| `string_map` | 10 keys, one of them with two values | TypeOK, Balanced, AllFreed, ImplementsMap | hold |
| `event_ids` | ids of 4 bits, all bound in any order | EveryIdFound | violated, see 6 |

Why the bounds suffice for the cases that matter:

- *Queue*: two takers are the fewest with one asleep and one that comes first, one
  whose timer has consumed the signal that the other needed, or one that takes along the
  list while the other frees its node; three adds let the list empty, fill and empty again
  after a timeout. One of them has both roles a thread can have (a worker takes and
  adds). The proofs are for any number.
- *Pipeline*: two frames make order, overtaking and sharing possible, and two
  workers hold two packets, or one holds a stale pointer to the other's. The
  configuration of `MCPipeline` has each rule type but `continue` (which the end of a chain
  is handled as), with patterns that match and that do not, a goto, a chain that ends without
  a `return`, and one head is the null pointer (no ether chain). The four headers are
  all combinations of two addresses. Every frame that enters at `ether` meets implemented
  rules only, its `call` among them, so FilteredAsConfigured is about all of these; none
  that enters at `other` does, and the remaining properties are about those too.
- *ChainLoad*: use after free needs two chains and a goto; four rules in three
  names, one of them kept, add a chain that two gotos share, a chain that
  replaces one of its name, and failures inside nested chains. The kept name is
  in the middle of the order in which the map is freed.
- *Bus*: arrays start with one slot instead of ten, so that the second and the
  third bind to an event make them grow; four binds let a handler bind, one bound
  by it bind again, and one more come between two events; with three events one
  is raised while another is dispatched and a third is behind it.
- *String map*: ten keys are the fewest with a tree in which the loop of
  RB_REMOVE_COLOR goes up twice; all its cases occur, on either side. One key has
  two values, which tells an overwritten value from the old one. Nothing bounds the
  number of calls: every tree of these keys that calls can make is reached.
- *Event ids*: the violation needs three ids that go round; ids of four bits have
  room for them and for others between. `FarIdsGoRound` is for every width.
- *Startup*: two plugins that export the same name and every order of the
  directory; calls of a routine that exists and of one that does not. The texts
  have a space or none behind each parenthesis and brace, a pattern or none, one
  rule or two, a chain in a chain or before it, white space at either end as `example.conf` has
  it, and each of the shorter ones is cut off behind every item. What must be refused is
  there too: a call that no plugin exports, an empty chain, a goto to its own, an unknown or
  a later chain, and a name with an underscore in front. A third rule meets nothing that the second does
  not: the reader has no state but its position, the stack and the map. Octets are
  read independently of each other but for the last, which has no separator
  behind it, so two show both kinds; `AddressReadAsMeant` is for any number. The
  values have digits of each range `from_hex` distinguishes, and two words of
  one key show which one counts.

CHECK_DEADLOCK is FALSE where the model stops: the process after a failed
assertion (`bq_queue`, `bq_assert`), a parse that has returned (`chains_*`),
main at an exit or in its loop (`startup`, `pattern_zero`), a bus whose MaxEvents
were dispatched (`bus_*`; main stops raising at the bound), a map that was freed
(`string_map`), and ids that are all bound (`event_ids`). In the pipeline, which is
checked for deadlock as `bq_digest` is, threads always have a timeout to return from.

What does *not* hold of texts is in the properties' hypotheses. `ReadAsWritten` is
about complete texts in the layout of `example.conf` (`Plain`): a space behind a left
parenthesis makes the reader drop the pattern, and two braces without a space between them are
one token, which closes one chain or opens none. Within it a parse succeeds exactly if the text
is `Acceptable`, and never crashes or reads a freed token. `NoPartOfAChain` is about texts in
that layout that break off inside a chain, at any place: the program does not go on with
the rest as if it were whole; it exits with an error or crashes on a null token. In
other layouts it may go on: in the last text of `MCConfigs` (`Swallowed`) what is dropped
behind a parenthesis includes a brace, and the rest is read as a whole chain.

## 4. Fairness

*BlockingQueue*: weak fairness of a taker's own steps. A taker is a `while(1)`
around `blocking_queue_take` (`bus_pthread_main`, `chain_thread__main__`) and a
thread that can run runs. Nothing is assumed of adders, of timers (`EndWait`), of
spurious wake-ups or of wait_digest, so `EveryItemTaken` does not rest on a timeout that
would hide a lost signal. With a taker whose timer consumes the signal, the item is taken
because that taker calls again and finds the list not empty. The property leaves
room for the assertion, which may end the process instead.

*Pipeline*: weak fairness of every thread's steps, for the same reason, and
strong fairness of the two takes. A thread at the top of its loop may time out
again and again, so taking is not continuously enabled for the abstract queue's
client; that it takes an item that is there is what `EveryItemTaken` says of the
real queue. Nothing makes frames arrive. `EveryFrameFreed` says that each frame is
freed in the end unless no worker could be started, since the code goes on without.

## 5. What is proved

### The queue

`BlockingQueueProofs` proves, for all sets of threads, adders, takers and
digesters, all items, every MaxAdds and both values of SpuriousWakeups
(assumption: `QueueAssumption`, that is: the roles are threads, nobody both takes and calls
wait_digest, the threads are finite in number, and the null value is not an item):

| theorem | statement | rests on |
|---|---|---|
| `TypeCorrect` | `Spec => []TypeOK` | `ListInv` |
| `MemorySafe` | `Spec => []NodesAccountedFor` | `ListInv`, `MemoryInv` |
| `WakeupsNotLost` | `Spec => []NoLostWakeup` | `ListInv` |
| `AbortOnlyIfOvertaken` | `Spec => []AbortNeedsAnother` | `ListInv`, `OvertakenIfEmpty` |
| `QueueIsFifo` | `Spec => ImplementsFifo` | `ListInv` |
| `DigestedByTheLastTake` | `Spec => DigestedWhenDepleted` | `ListInv`, `OnlyDigesters` |

`TypeOK` alone is not inductive: that `head' = mem[head].next` is a node needs
the *shape* of the list, and `ListInv` adds it (`ListShape`: nodes from head to
dummy are consecutive, hold items and are linked; `GarbageHeld`: the local
`garbage` is set exactly while its free is outstanding).

`NodesAccountedFor` is true but not inductive either: `MemoryInv` says that the
freed nodes and the nodes still held are disjoint, that two threads never hold
the same node, and that both sets together are precisely the nodes before the
head.

`NoLostWakeup` is inductive together with ListInv. It counts the takers that are awake: those
that were signalled, and those back from a wait that timed out, which may have
consumed a signal and are about to call again. An add makes one item more and, if anyone
sleeps, one woken taker more (`CountAwake` has the cardinality); a timer moves a taker from the
first kind to the second; a taker of either kind that leaves takes an item with
it; and one goes to sleep only when there is none. A taker that was stirred for no reason is not
counted: the item it may take has another taker.

`AbortOnlyIfOvertaken` says when the assertion may fail: the taker that is at it was
stirred without a signal, or another taker has got an item. It rests on
`OvertakenIfEmpty`: whenever the list is empty and a taker was signalled, another one has
taken something, since the signal came with an item. So with one taker, as in
main.c, the assertion rests on the platform having no spurious wake-ups, and with two it does
not hold at all (`bq_assert`); what a timer does, at whatever moment, never breaks it.

`QueueIsFifo` maps the list to `Contents`. `AddIsPut` shows that linking a new
dummy appends to the sequence, `TakeIsGet` that unlinking the head is Head and
Tail, `QuietIsReturn` that what is left changes the sequence not at all: those
steps are stutters or the return of a timeout or of wait_digest.

`DigestedByTheLastTake` is an action property. The take that leaves the list empty is
the one whose `next` is the dummy, by `ListShape`; who waits in the second condition
has called wait_digest (`OnlyDigesters`), so that its signal reaches one of them;
every other step leaves those that wait where they are or ends a wait without a signal,
which the states `digest_expired` and `digest_stirred` tell from one with it.

### The handlers and the pipeline

`EtherChainProofs` has one theorem, `HandlerFollowsMeaning`: whatever handler a packet that
meets implemented rules only asks for, what it does, followed by what it leaves to be
done, is what was left before, and the rules it leaves to be met are implemented. The handlers
that are *not* what a rule means are excluded by `Implemented`, by name, and nothing else is.
It holds for every set of rules whose pointers have a rank
(`ChainAssumption`). `Meaning` is a recursive function, so its equation
(`MeaningSolves`) comes first; the library's induction theorems cannot be used, and
the argument takes the least rank at which the equation fails, which `WFMin` finds
in a set of numbers.

`PipelineProofs` proves every safety property of the run `pipeline` for any
number of workers, whichever of them fail to start, any number of frames and every
configuration:

| theorem | statement | rests on |
|---|---|---|
| `PipelineTypes` | `Spec => []TypeOK` | `Owned` |
| `NothingDangles` | `Spec => []NoDanglingPointer` | `Owned` |
| `OwnedOnce` | `Spec => []OneOwner` | `Owned` |
| `ConfiguredForAllChains` | `Spec => []FilteredAsConfigured` | `Owned`, `Filtered`, `HandlerFollowsMeaning` |
| `PacketsTakeTurns` | `Spec => []NobodyPassesTwice` | `Owned`, `Turns` |

The invariant follows a frame on its way. `Owned` says where its bytes are: with
main or the bus until on_packet_event__ has run for it (`Before`), with its packet
from then on (`BytesOwned`), and a packet is in the queue or with one worker, and
there once (`PacketsOnce`; `EventsOnBus` says the same of events). None of the
five properties is inductive alone: that a worker may use its packet needs that no
queue entry and no other worker has the same one, which needs that no second
packet is ever made for a frame, which needs that a frame is raised once. `Ready`
says that a packet that waits asks for a handler, and for the one of its rule.
`Filtered` is FilteredAsConfigured with what is left to do put behind what was done, for a
frame that meets implemented rules only from where its packet is.
`Turns` says why nobody passes twice: who was run while a packet waits is behind it
in the queue, or about to be put there.

### The loading of chains

`ChainLoadProofs` proves every property of the run `chains_load`, for
configurations of any length, nesting and names:

| theorem | statement | rests on |
|---|---|---|
| `ChainTypes` | `Spec => []TypeOK` | `Shapes` |
| `CountsRight` | `Spec => []CountsPointers` | `PointersKept`, `CountsFit` |
| `NoWayBack` | `Spec => []WaysEnd` | `Linked` |
| `RulesRanked` | `Spec => [](\E rank : Ranked(rank))` | `Linked` |
| `NoFreedRuleOnErrorExits` | `Spec => []ErrorExitsReadNoFreedRule` | `FreedInOrder`, `Phases` |
| `KeepsWhatIsReached` | `Spec => []KeptExactly` | all of `IInv` |

At the heart is `Linked(end)`, where `end[r]` is the last rule so far of r's chain:
`next` leads to a later rule with the same end, and a goto to a chain that ended
before the goto was read. The pair of a rule's end and its number is what falls
along every pointer; `RulesRanked` puts it into one number, which is what
`ChainAssumption` of EtherChain asks of the rules, so what is proved of handlers
and pipeline is about every configuration the parser can read.

`FreedInOrder` says that a chain is freed from its start and each call of
free_chain is at the first rule that is left of one, `PointersKept` that nothing
points to a rule that is freed or about to be, `CountsFit` that the counts
are exact (or too high by then, in the error exits, which free gotos without
giving back what they count), and `Visited` that a chain which nothing points to is still
to come in the map's deletion, so that nothing leaks unless a chain was replaced by
one of its name. All of that holds up to the first use of a freed rule (`misused`): the
run `chains_count` shows that there is one. `ErrorExitsReadNoFreedRule` says that it is not in
the error exits (a freed *token* is read in one of them, which is outside this module's
memory), and it is why the invariant has the two parts. TLC checked
the invariant on configurations of three and of four rules before it was proved;
that is how `misused => freeing = <<>>` was found to be missing.

### The bus

`BusProofs` proves every property of the run `bus_alone`, for any number of
types, ids, slots, binds and events:

| theorem | statement | rests on |
|---|---|---|
| `BusTypes` | `~Concurrent`: `Spec => []TypeOK` | `Sound`, `Undisturbed` |
| `NeverStale` | `~Concurrent`: `Spec => []NoStaleArray` | `Undisturbed` |
| `NoBindLost` | `~Concurrent`: `Spec => []BindsAreFound` | `Sound`, `Undisturbed` |
| `AllWaitingAreCalled` | `~Concurrent`: `Spec => []AllWaitingCalled` | `Undisturbed` |

All four assume a main that binds before the first event only, as main.c does; handlers on
the bus thread bind at any time, also to the event they are called for. `Concurrent`
binds are a data race, of which nothing is claimed.

The invariant has two parts. `Sound` is where pointers lead (`Shapes`), that types,
trees and nodes are linked one to one (`NothingShared`), and who may be in the trees
(`Matched`). `Undisturbed` is what a thread may rely on since no other is in its way: at most
one is on its way down the trees (`OneThread`), what it has found there is still there and what
it has not found is not (`OnTheWay`), the node of an event lists what was bound to it
(`Listed`), a dispatch has called the first of these (`CalledSoFar`), and the arrays are in order
(`Orderly`). The last is where the single statements of `bus_event_node_add_handler` count.
Between two of them a node may count slots its array does not have, or point to an
array that realloc has freed; `Stage` says for each place what the next statement may take
for granted, `InHand` which node is in such a state, `Owned` that an array is the array of one
node, `Counted` that a handler is counted before it is stored, and `SlotTaken` that
the address the dispatch loop has got is one of the array that the node still has, as no
handler runs between that and the call. `OnTheWay` is what fails first when main binds
too, and the run `bus_shared` shows that the hypothesis cannot be dropped.

### The string map and its tree

`StringMapProofs` proves every property of the run `string_map`, for any finite set of
strings and any values:

| theorem | statement | rests on |
|---|---|---|
| `Refinement` | `Spec => ImplementsMap` | `MapInv` |
| `TreeIsBalanced` | `Spec => []Balanced` | `MapInv` |
| `TypesHold` | `Spec => []TypeOK` | `MapInv` |
| `FreesAllNodes` | `Spec => []AllFreed` | `MapInv` |

None of them is inductive. That a key is found needs that keys are in order in the
tree, which the properties do not mention; that a rotation keeps the order needs that what
is below a node is known; that a rebalancing ends needs the heights. The invariant
`MapInv` says that there are a set I of nodes, a function B from a node to the nodes from
it on down, and a function H to the black nodes on each way down from it, such that

- the links agree in both directions (`Linked`), B adds up and what is left of a node is
  less than it, what is right of it greater (`Below`), and nodes outside I are blank (`Bare`);
- H adds up on both sides of each node (`Level`), no red node has a red child (`Calm`)
  and the root is black;
- the nodes in I have values and no others do (`Valued`), and when the map is being freed, the
  node it has come to is the least in I (`Visits`).

I, B and H are bound in the invariant and not variables, so each lemma on the tree
takes them as they were and says that there are some that fit afterwards. The argument goes
up in four layers.

- *Loops* (`LoopEnds`): a loop whose rounds keep a condition that is indexed by the
  rounds to go ends with what a round leaves as it is. The index is a number of
  nodes: B shrinks on the way down and grows on the way up.
- *Writes*: what the record is after each macro that writes links, as equations
  on accessors (`SetParentWrites`, `ReplaceWrites`, `Rotated`, `SubstituteWrites`, ...).
- *Rebalancing*: a rotation keeps the tree (`TurnedTree`) and changes the heights of the
  two nodes that trade places only (`LevelTurned`). Within RB_INSERT_COLOR one red node may have
  a red parent (`Inserting`); within RB_REMOVE_COLOR the ways through one place are one
  black node short (`OneShort`). A round removes that, or moves it up: `UncleRed`,
  `InnerTurned` and `OuterRaised` for the first loop; `SiblingBlackens`,
  `SiblingReddens`, `FarReddens` and `Evens` for the second.
- *Operations*: `Inserts` (where the search ends is where the key belongs, `FindsPlace`),
  `Removes` (a node with one child, `RemovesLeaf`, or one whose successor takes its
  place, `RemovesInner`), `FindsKey`, `MinIs` and `NextIs`, the last by
  `LiesApart`: all keys below a node are on one side of each key that is not below it.

`Refinement` follows: in such a tree the answers of string_map_get are the
function `value` (`AnswersAreValues`), and each action changes that as the abstract one
does. string_map_free is right although it asks for the next node *before* the removal,
because a removal leaves the nodes in place and only changes their links:
what was the least but one is the least afterwards (`FreeNodeKeeps`).

`TypeOK` and `Balanced` use `InTree` and `BlackHeight`, recursive functions on links;
`InTreeIs` and `BlackHeightIs` prove that these exist and are I and H for a tree of the
invariant.

Of the comparison the lemmas use only that it orders the keys as numbers. The bus'
does that for ids less than half their range apart (`NearIdsAreOrdered`), but no theorem is
about that instance of the tree.

### Start-up

`StartupProofs` proves for any directory, read in any order, any plugins and any
configuration:

| theorem | statement | rests on |
|---|---|---|
| `AllOrNothing` | `Spec => []PluginsWhole` | `Loaded` |
| `CallsLead` | `Spec => []CallsLinked` | `Loaded`, `ReadSoFar` |
| `StartupTypes` | `Spec => []TypeOK` | the same, with `Reads` and `RulesOK` |
| `MatchedWithoutZeros` | `Spec => []MatchesWithoutZeros` | `RulesOK` |

They assume of a text that it is a sequence of items and of a word that its value is
one of ASCII characters (`StartupAssumption`), of addresses that they have an octet.
`Loaded` says that, while the directory is read, the chain has the plugins of the
entries seen so far and none of these failed. `ReadSoFar` says that what is read are
rules, that whatever is in the map has been linked against the plugins there are, and
that a worker is started only after the parse: main changes no plugin from then on. The
link map names the *last* plugin that exports a routine; that there is one is
`GreatestNumber`. `Reads` says that what has not been read is the end of the text, as
each of the readers of tokens takes them from the front (`NextTokenReads`, `TokenReads`,
`RuleReads`).

`RulesOK` ties the pattern of a rule to its words. compile_pattern is a recursive
function over the words, as its loop is; that the function exists and the equation of
a round holds is `CompiledByRounds`, by the least number of rounds for which there would be
none, and that each round keeps `CompiledWell`, by the least round that would not, is
`PatternCompiled`. `CompiledWell` says of the words read so far: octets are bytes and
features known ones, and, if no word is damaged or has a zero, the feature of a key is set
iff some word of the key is an address, and the address is that of the last such word
(`AsksFor`). `ComparesWhatIsNamed` turns that into what packet_matches_pattern asks.
So from the characters of the file to the frame a pattern matches nothing but what
it says, for any configuration and any number of octets, as long as no address has
the digit 0; `pattern_zero` shows why that hypothesis stays.

### Arithmetic

What a round of compile_pattern rests on are two theorems about the operators of
Pattern, in `StartupProofs` too and for addresses of any length: `PatternTyped`, that whatever is read a pattern's octets stay
bytes, and `AddressReadAsMeant`, that an address without the digit 0 is stored
as what it means and its feature set, so the arithmetic in a `u8_t` loses
nothing. They rest on what `from_hex` returns for each range of characters
(`FromHexIsDigit`), and assume only that there is at least one octet.

`EventIdOrder` proves, for ids of any width, that the comparison in the bus never
takes two ids for one (`OnlyEqualIdsCompareEqual`), that it is the order of the
numbers for ids less than half their range apart (`NearIdsAreOrdered`: the trees
of the program's own ids are sound), and that over all ids it is no order
(`FarIdsGoRound`). Each is arithmetic on the two wrap-arounds.

`BlockingQueueProofs` proves of `millis_in_future`, for every clock, timeout and width, that
as long as the sum is within the range of the signed type there is one result, that it is
the clock plus the timeout, neither sooner nor later, and normalised, so that timedwait does not
refuse it (`DeadlineExact`). A sum that overflows is undefined in C, and nothing is claimed of it;
with 64 bits that takes a timeout of three hundred years. The proof
divides once, by q and r with n = Second * q + r, and each product is hidden from
the solver where it is not needed.

### Model-checked only

- `EveryItemTaken` and `EveryFrameFreed`: liveness under fairness and ENABLED are
  beyond the prover.
- `EveryIdFound` of EventIds is violated where it is checked; there is nothing to prove but
  `FarIdsGoRound`, why it is so at every width.
- Of Startup: ReadAsWritten and NoPartOfAChain, which compare what is read with what each text
  was meant to define, a finite table.
- That frames which meet a rule that is not implemented are freed all the same, once, and
  in turn: the properties of Pipeline other than FilteredAsConfigured, on the third chain of
  `MCPipeline` (the theorems say it of every configuration).

The models' numbers have no width but for event ids, octets and the deadline, so
no theorem is about a counter of the C code that wraps around.

## 6. Where code and documentation part

- `bq_assert`: **the assertion at `impl/blocking_queue.c:119` can fail.** Taker 1
  waits; an item is added and wakes it; before it has the mutex back taker 2
  calls take and gets the item; taker 1 asserts a non-empty list.
  `create_chain_ctx` accepts any number of workers. main.c asks for one, and then only a
  spurious wake-up, which POSIX allows and the `if` in line 101 does not guard against, leads
  there; that nothing else does is `AbortNeedsAnother`.
- `bq_digest`: **wait_digest waits on an empty queue.** `blocking_queue.h:49-50` says that it has
  no effect then; the code waits without looking at the list, for the next time that the
  queue becomes empty or for its timer. What it does keep is `DigestedWhenDepleted`.
- `chains_count`: **a chain can be freed while the map points to it.** Chain `z`
  is the target only of a goto in `a`, and neither is kept: freeing the
  map deletes `a`, whose goto deletes `z`, and the map's own entry for `z` is
  visited after that. `chain.h:55` calls m_ref a reference count.
- `bus_shared`: **a bind can be lost.** `bus.h:23` calls the bus thread safe. The
  lookup of a type and the insertion of its node are two steps, dispatches insert
  nodes too, and RB_INSERT keeps the first of two, so a handler bound through
  the second is never found. main.c binds before any event and is not affected.
- `pattern_zero`: **the digit 0 is not read.** `from_hex` asks for `ch > 0x30`, so 0
  counts as 255, and no error is reported. `src/example.conf:7` names the address
  00:00:00:00:00:00; its rule compares with ef:ef:ef:ef:ef:ef.
- `event_ids`: **an id can be bound and not be found.** `bus.h:15` lets client code
  provide any id. The comparison of ids is a difference that wraps around, and once
  three ids go round in it a rotation puts a node where no search looks. The ids
  of the program are small and not affected.

Without a run of their own, because no document of the repository promises otherwise:

- `ether_chain.c:126` calls a plugin for every frame, whatever the rule's pattern, and
  `return` and `continue` end a frame's way where the code prints that they are NOT
  implemented (104, 109). `Implemented` in EtherChain excepts them from what is claimed.
- `chain.c:299-300` frees a token and then prints it. A chain with `{}` for its braces gets
  there (`chain x {}` is a complete file). ReadAsWritten says that no complete configuration in the layout
  of example.conf does.
- A file that breaks off may be taken for a whole one if a space stands behind a left
  parenthesis (`Swallowed` in MCStartup), and NoPartOfAChain is about the other layout for it.

The properties that hold say what remains true around these: `ErrorExitsReadNoFreedRule`
says that the use of a freed rule is confined to the final deletion of unused
chains, never to the error exits; `NoLostWakeup` and `ImplementsFifo` hold for
worker pools as long as the assertion has not ended the process.

## 7. What is not modelled

- The memory of tokens, patterns and names (`chain.c`): which of them are freed, and when. The
  model has it where the program's way depends on it (`NoBrace`).
- What a data race in the bus does beyond the interleaving of its statements: nothing is claimed of
  binds by several threads.
- The clock itself. A word of a pattern longer than `compile_pattern`'s buffer of
  1024 characters, which `next_word` would cut; a token longer than the buffer of
  the same size for error messages; the text of those messages.
- What a plugin's function does with a packet: it is an entry of `effects`.
- Of `tree/tree.h`, what nobody calls: splay trees, RB_NFIND, RB_MAX, RB_PREV.
  Bus and ChainLoad have finite maps in the place of trees. Two threads in one
  tree at once (`bus_shared` has them between the operations only).
- What is printed: `print_chains`, `print_hex`.
- `iphdr_ss` and `ether_ss/ether_ss.c`: unreachable from main, and they only print.
- Allocation failure: no call in the program looks for it.
- Several return values that are ignored (mutexes, `pthread_create` of the bus
  thread is looked at in main only).

## 8. Plan

1. *Done*: the queue, the handlers, the pipeline, the loading of chains and the bus,
   each with its proofs; the reading of the chains' text; the order of ids and the
   arithmetic of deadlines and patterns, with proofs; start-up and plugins, with proofs;
   the string map on its tree, with proofs.
2. *Composition*: `RulesRanked` and `HandlerFollowsMeaning` together say that
   every chain that is read is run as it is meant, where its rules are implemented. A refinement from the rules of
   ChainLoad to the `Rule` of EtherChain would say it in one formula.
