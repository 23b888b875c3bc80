# Verification of network-data-distributor

TLA+ models of the code under `src/functionality/`, TLC configurations that
check them on small instances, and proofs checked by TLAPS for every value of
the constants. `PROJECT.json` maps every definition to the lines it stands for.

## 1. The system

A node of a distributed store talks to other nodes through a
`SocketCommunicator`, which sends strings over TCP and collects what arrives in
an inbox. The inbox is an `ObjectPool`, the pool is built from two
`Semaphore`s, and a semaphore puts threads to sleep on `ThreadBlocker`s.

| Component | State | Operations | Used by |
|---|---|---|---|
| `ThreadBlocker` (thread_blocker.cpp) | a mutex, a condition variable, the flag `thread_should_continue`; all shared by copies | `block_this`, `unblock_other` | `Semaphore`, one per waiting thread |
| `Semaphore` (semaphore.cpp) | `resources`, a mutex, the deque `waiting_threads`; shared by copies | `acquire(n)`, `give(n)`, `attempt_unblock` | `ObjectPool`, `SocketCommunicator` |
| `ObjectPool` (object_pool.hpp) | a deque, `object_availability` (0 at first), `object_list_access` (1 at first) | `add_object`, `check_for_object`, `wait_for_object` | `SocketCommunicator::message_pool` |
| `TwoWayMap` (two_way_map.hpp) | two `unordered_map`s | `put`, `erase` (by either key), `get_or_default`, `contains` | nobody yet |
| `SocketCommunicator` (socket_communicator.cpp) | `is_online`, `local_descriptor`, `address_to_descriptor`, `message_pool` | `go_online`, `go_offline`, `send_to`, `poll_inbox`, `close_connection`, and the accept and receive loops, each in a thread with a *copy* of the communicator | the application |
| `SocketAgent` (socket_agent.cpp) | none; the descriptor table of the process | `agent_open_server`, `agent_accept`, `agent_connect`, `agent_send`, `agent_receive`, `agent_close_connection` | `SocketCommunicator` |
| `SocketAddress` (socket_address.cpp) | an ip, a port and a descriptor, any of them missing | `operator<`, `as_string`, and the constructor that reads a string | `SocketCommunicator` (as the key of its cache) |
| `ObjStrIterator` (obj_str_iterator.cpp) | the rest of a string | `vector_to_string`, `get_next`, `has_next` | nobody yet |
| `Stringable`, `Address`, `Communicator` | interfaces | | the classes above |
| the test programs, at the end of each class's file | threads, semaphores | `main` | built one by one, with a macro `TEST_...` |
| `main`, `center_node`, `socket_host`, `experiments` | stubs, programs that try things out | | |

What is hard here: a notification sent without the mutex; units handed from the
giving thread to the one it wakes; two semaphores in one pool, one acquired
inside the other; copies of the communicator that share some members and not
others; a descriptor cache without a lock; descriptors that the system hands
out again; a byte stream taken for a stream of messages; strings put together
from names that may hold the separators; two barriers that share their
semaphores. `PROJECT.json` lists
the hazards one by one, at their lines.

### What makes each component correct

- `ThreadBlocker`: no wake-up is lost, none is used twice.
- `Semaphore`: units are conserved; service is in order of arrival; nobody
  sleeps beside units that are his.
- `ObjectPool`: each object is delivered once, in order; nobody meets an empty
  deque; every call returns that should.
- `TwoWayMap`: the maps are inverse; `put` and `erase` change nothing else.
- `SocketCommunicator`: the cache knows the open connections; a message goes to
  its peer; the receive loop reads from its own connection; one server at a
  time; `go_offline` stops the accept loop. The last three are what the comments
  claim and the code does not keep: runs InboundClose, GoOnlineRace and
  OfflineIgnored; what holds of each instead is in the runs Connections and
  SocketCommunicator.
- The stream: bytes arrive once, in order, and all of them.
- `SocketAddress`: the order is total and asymmetric; an address survives its
  string, so that two addresses have two keys.
- `ObjStrIterator`: a vector comes back from its string.
- The test programs with threads: no schedule makes one fail or hang.

## 2. The modules

| Module | What it is | How it corresponds to the code |
|---|---|---|
| `ThreadBlocker` | the class at the level of mutex and wait set | `block_this` and `unblock_other` are one action per step that other threads can see; the predicate loop of `wait`, its spurious wake-ups and the gap between unlocking and `notify_one` are there |
| `BlockerContract` | a binary permit | `ThreadBlocker` implements it (safety and progress) |
| `SemaphoreOps` | queue entries, what the first k need, how many a number of units serves | shared by the next two |
| `Semaphore` | the class | one action per critical section or turn of `give`'s loop; sleeping is the permit of `BlockerContract`, one per thread, as each `acquire` makes a blocker of its own |
| `FifoSemaphore` | an atomic first-in first-out semaphore | `Semaphore` implements it (safety proved, progress checked); a `give` takes effect when it locks the mutex |
| `UnitSemaphore` | the same for one unit at a time | `Semaphore` with requests and gifts of 1 implements it (proved); `ObjectPool` is built from it |
| `ObjectPool` | the class | its two semaphores are instances of `UnitSemaphore`; `front()` and `pop_front()` are separate steps |
| `PoolContract` | an atomic queue with add, check and wait | `ObjectPool` implements it |
| `TwoWayMap`, `PartialBijection` | the class, and the set of pairs it stands for | `put` is its two erases and the two insertions; run as one of the test programs, with any calls |
| `MessageStream` | senders, a TCP stream, the receive loop | one action per `send` and `recv`, with any number of bytes |
| `Connections` | the descriptor cache, the descriptor table, the receive loop of an accepted connection | one action per access of the cache and per system call: `contains` (`Lookup`) and `operator[]` (`Get`), which inserts what is not there, are two; the lowest free number is handed out, as the system does; `AcceptLoops` accept loops run, each of which accepts once (see the remarks below) |
| `SocketCommunicator` | going online and offline, the accept loops and their copies, the gate of `send_to` and `poll_inbox` | `get_is_online` and `set_is_online` are one step each, as `is_online_access` makes them; what is behind the gate is one step, its detail is in `Connections` and `ObjectPool` |
| `SocketAddress` | the class, as operators on records | a string is a sequence of characters, because separators and order matter; positions count from 1 and 0 is `npos`; a descriptor's decimal notation is a constant; the difference of two descriptors wraps |
| `ObjStrIterator` | the class, driven as its test drives it | the objects are `SocketAddress`es, the library's only `Stringable`, and the `StringWrapper`s of the test, the empty one among them; the string may also come from elsewhere (`IterateOther`), and `get_next` may fail |
| `ObjectPoolTest` | the test of `ObjectPool` | over the *detailed* pool, whose actions it schedules; both parts, the three rounds of the first and the semaphore `threads_completed` of the second |
| `SocketAgentTest` | the test of `SocketAgent` | servers, the threads that send, the backlog, and the two barriers of `main`; `accept`, `socket` and `connect` may fail, which ends the process; `recv` may return a part of a message that has more than one byte |
| `SemaphoreTest` | the test of `Semaphore` | over two `FifoSemaphore`s, which the class implements |
| `TestPrograms`, `MCTestPrograms` | one of these programs per behaviour | the variables of the others stay as they are |
| `ThreadBlockerProofs`, `SemaphoreProofs`, `ObjectPoolProofs`, `TwoWayMapProofs`, `MessageStreamProofs`, `SocketCommunicatorProofs`, `ConnectionsProofs`, `TestProgramsProofs` | theorems | section 5 |

Each level rests on the contract of the one below, not on its detail:
ThreadBlocker => permit; Semaphore (over permits) => UnitSemaphore; ObjectPool
(over UnitSemaphore) => queue; MessageStream and Connections use the inbox as a
queue or a set; the tests of `Semaphore` and `SocketAgent` use semaphores, the
test of `ObjectPool` the pool in detail.

### Two remarks about the source

`socket_communicator.cpp` does not compile as it stands: the header declares no
`address_to_descriptor`, `get_or_create_descriptor` uses an `address_str` it
does not define, and `SocketAddress` has no `get_is_descriptor`. The models
take what their uses mean: a map member of the communicator from an address's
string to a descriptor, and the test whether an address holds a descriptor.

`accepting_thread` (line 141) and `receiving_thread` (line 90) are local
`std::thread` objects, destroyed joinable at the end of their block: that calls
`std::terminate`, against the comment at 78-79 ("Continuous accepting of
connections"). The models keep what happens up to that point, which may come
late, since it is up to the scheduler when the destructor runs: the process
ends by `DestroyThread`, `LoopDestroyThread` or `Terminate`, and an accept loop
has no second turn. Several connections are accepted only if several accept
loops run, as after a race of `go_online` (`AcceptLoops`).

## 3. The runs

All with deadlock allowed (`CHECK_DEADLOCK FALSE`) where the system may stop:
nobody has to call, a thread in `wait_for_object` may wait for ever, a process
may have ended. `ThreadBlocker` checks deadlock.

| Run | Bounds | What it shows |
|---|---|---|
| ThreadBlocker | 3 threads, 3 unblocks | no lost wake-up (one thread unblocks while one sleeps and one tests), the binary permit with progress |
| Semaphore | 3 threads, requests 0-2, gifts 0-2, 3 units given, 1 at first | conservation, no overtaking (a small request behind a large one), nobody servable sleeps, affordable waiters return, FIFO refinement |
| ObjectPool | 2 adders, 2 checkers, 2 waiters among 4 threads, 3 objects | balance of units and objects, order, refinement, and that only a sleeping check can hold callers up |
| MessageStream | 2 senders, 2 messages each of 0, 2 or 3 bytes, at most 2 bytes allowed | order and arrival |
| Connections | 1 application thread with every call, 2 peers, 2 accept loops, 3 connections, 3 descriptors | cache, uniqueness, no stale use while addresses are by name |
| SocketCommunicator | 3 threads go online, 2 go offline, 2 send and poll, 3 addresses | a loop always has a server; its copy is online unless a `go_offline` came before it was made |
| TestPrograms | 4 and 4 keys, 6 calls; vectors of at most 2 objects, of addresses with 5 names and 4 descriptors and of the 5 names; 3 ones and a two, 5 and 4 threads; 3 servers, one with a number of two digits, 6 senders; 3 units in three segmentations | the maps are inverse and a bijection; vectors come back from their strings; the order decides; the barriers hold; no check fails; every test with threads ends |

The bounds are the smallest in which the cases meet: two threads that compete
and a third that sleeps, a queue of two behind a head that cannot be served, a
waiter and a check that want one object, a message that one `send` does not
finish, a descriptor that is closed and handed out to another peer. `Connections`
has one application thread because the cache is only meant for one (see
ConcurrentSends); two receive loops and the peers run beside it. In
`TestPrograms` four keys on each side are as many as a `put` and two `erase`s can
tell apart, and six calls reach every state of the maps that any calls reach; the
names are empty, one a prefix of another, and with each
separator; two descriptors are far enough apart to overflow (`IntRange`); the
numbers of threads are smaller than the tests' own (18, 52, 30 and 10) but keep
what they are for: waiters and checks in one round, threads that are served in
the second half only, a segment of no units, and three servers, so that one may
be early at a barrier while another is late. Of the server numbers 0, 1 and 10 the
last is sent in two bytes, so that one `recv` may return half of it: `TestsPass`
claims the test's check for the other two only.

Five runs end in a counterexample; each shows the code against its own words:

| Run | What happens |
|---|---|
| PoolCheckWait | `check_for_object` waits for a unit inside the list while the `wait_for_object` that has the unit waits for the list: both sleep for ever, and so does every later call |
| ConcurrentSends | two threads send to one address, both connect, and the cache forgets one of the connections: `close_connection` never closes it |
| InboundClose | `close_connection` of the address of a received message, which the comment at 60-62 allows, closes the descriptor under the receive loop. The loop does not notice, and receives from the next connection that is given the number |
| GoOnlineRace | two `go_online` calls pass the test before either sets `is_online`, and two servers are open |
| OfflineIgnored | the accept loop tests the `is_online` of its own copy of the communicator, which no `go_offline` sets: it goes on to accept offline |

Two more disagreements are in the models without a run: a reply to a received
message goes to a descriptor that may have been closed or handed out again (line
183, against "for now, that recipient_descriptor is open" at 145-146), which is
why `RecipientOpen` and `NoBadDescriptor` are stated for addresses with an ip
and a port only (`by_descriptor`); and one `recv` is taken for one message
(106-117), though TCP joins and splits what is sent, so `BytesInOrder` speaks of
bytes and not of messages. Nor is there a property of what the code does not
promise: that nobody is past the gate of `send_to` or `poll_inbox` when the
communicator goes offline (145 and 154 only assume it), or that `go_offline`
closes the server. The tests
have two slips of their own: object_pool.cpp:85 and 88 test the pointer to a
thread's result, which is never null, so `TestsPass` speaks of what the threads
have found and not of what `main` prints; socket_address.cpp:156 makes the same
comparison twice, which is why `OrderDecides` and `RoundTrip` ask for more than
the test does.

## 4. Fairness

Weak fairness of each thread's steps *inside* a call: the threads are
preemptively scheduled. Nobody has to call, spurious wake-ups need not happen,
and no order is assumed among threads that compete for a mutex (a
`std::mutex` promises none); what progress there is holds all the same, because
a thread that does not get the mutex is overtaken by calls that end, of which
the runs allow finitely many (`MaxUnblocks`, `MaxGiven`, `MaxObjects`). In
`MessageStream`, `send` and `recv` go on while there are bytes, which TCP
promises while the connection is up. `Connections` and `SocketCommunicator`
have no fairness: only safety is claimed of them. In `TestPrograms` some enabled
step is always taken, no more: every thread of a test takes finitely many steps,
so that weak fairness of the whole next-state relation is enough, and follows
from that of the threads.

## 5. The proofs

Each `...Proofs` module of a state machine has one inductive invariant `IInv`, one lemma per
action that keeps it, `LEMMA Invariance == Spec => []IInv`, and the theorems
that follow. They hold for every value of the constants under the assumptions
declared beside them: `NoThread` is not a thread, requests, gifts and bounds
are natural numbers, a pool's threads are finitely many, descriptors are numbers
and are not peers, the keys of a `TwoWayMap` are of two types (`KeysAssumption`); of strings
and characters, `ConstantsOK` (char's order is total, a decimal notation denotes
one number and has no separator) and `NotationAssumption` (nor the separator of
a vector's elements); of the test of `SocketAgent`, `ServersAssumption` (finitely
many servers, more than one, with natural numbers: the code has thirty, and
with one server the test's
`acquire(NUM_SERVER_THREADS - 1)` would ask for nothing); of the test of
`ObjectPool`, `RoundsAssumption` (finitely many threads, of one round each, and in
the first two rounds as many as there are objects, as object_pool.cpp:118-138
creates them); of the test of `Semaphore`, `SegmentsAssumption` (finitely many
threads, at least one segment, none negative).

Where a recursive function of the community modules is involved (the sum of a set,
the concatenation of a sequence of strings), the proofs show first what it
satisfies: `CHOOSE` picks a function that obeys the recursion because there is one
for every size, and only one. Induction is over a set of numbers or of finite sets
(`NaturalInduction`, `LeastSet`: if there were a counterexample, take a
smallest one), which needs no more than well-foundedness.

| Module | Theorems | The invariant, and why the property alone is not inductive |
|---|---|---|
| `ThreadBlockerProofs` | types; `NoLostWakeup`; `ReturnsWithinUnblocks`; every step is a step of the permit | `HoldersOwnMutex` (the critical sections exclude each other) and `SleepersSawFalse` (the flag cannot be set between a thread's test and its sleep): without them a thread may go to sleep after the notification it needed |
| `SemaphoreProofs` | types; `NoServableHead`; `SleeperQueuedOrReleased`; `NoOvertaking`; `Conservation`; every step is a step of `FifoSemaphore` (`ImplementsFifoSafety`); with requests and gifts of 1 (`OneUnitAtATime`), of `UnitSemaphore` | `OwnerInside`, `AmountRequested`, and the correspondence of sleepers and queue in three parts: who is queued sleeps (`QueuedAsleep`), each is queued once (`QueuedOnce`), and who sleeps unreleased is queued (`SleepersKept`). For the refinements a `give` takes effect when it locks the mutex: the threads it is about to release (`ToRelease`) are already out of the abstract line, and their units out of the abstract counter. That the turns of `give`'s loop together release the longest front of the queue the units pay for, which is the one step of the contract, is a fact about sums of a queue's beginnings |
| `ObjectPoolProofs` | types; `Balance`; `NeverPopsEmpty`; `ListAccessExclusive`; `DeliveredOnceInOrder`; `WaitersSleepOnlyWithoutObjects`; `CheckSleepsOnlyOnPromised`; `SleepingCheckIsNeverReleased`; `ImplementsQueue` | `LineInv` of both semaphores (those in line are inside an acquire, once each, and only while the counter is 0), so that a handover moves exactly one thread between the counted sets; `RetrievedIsFirst` and `SizeStillTested` (what a thread has read of the deque is still so); `SleepingCheckInLine`; `OnlyWaitersWait`. `Balance` and exclusion are arithmetic of cardinalities |
| `SocketCommunicatorProofs` | types; `LoopHasServer`; `LoopsStartOnline` | a thread that starts a loop has opened a server (`StartedWithServer`) and has set `is_online`, which is off again only after some `go_offline` (`StartedOnline`), so each copy is made in that state or later: neither is in the property, which speaks of the copies alone |
| `TwoWayMapProofs` | `MutuallyInverse`; `ImplementsBijection`, of the class | `Inverse`: each erase keeps it, and after the two erases of `put` neither key is left, so the insertions keep it |
| `ConnectionsProofs` | for one application thread: types, `OneConnectionPerPeer`, `CloseClosesAll`, `CacheMatchesConnections`, `RecipientOpen`, `LoopsKeepTheirConnections`, `NoBadDescriptor` | the types hold because `contains` is still true when `operator[]` is called (`GetEffect`). Then two layers. `OutInv`, which holds whatever the application does with addresses: every connection the communicator has made is in the cache, but for the one it has made just now. `SafeInv`, which holds while no address is a descriptor: the cache knows nothing else (`CacheSafe`), the descriptor a call has in hand is open and the peer's (`CallSafe`), and no two receive loops, and no loop and the cache, share a descriptor (`LoopsSafe`); a property such as `NoBadDescriptor` says nothing of the descriptors that are kept for later, so it is not inductive |
| `MessageStreamProofs` | types; `BytesInOrder`; `EndMeansEverything` | received, inbox and wire together are one unbroken piece of what was sent (`Complete`), in the order of each sender; after the last `send` nobody adds to it (`NobodySends`), and the receive loop ends only on an empty wire (`ReceivesToTheEnd`) |
| `TestProgramsProofs` | `MapsStayInverse` and `MapIsBijection`; `OrderAlwaysDecides` (of any two addresses) and `OrderDecides`; `RoundTrip`; `KeysDiffer`; `VectorComesBack`; `BarriersHold`; `TestsPass`, from `PoolTestPasses`, `AgentTestPasses` and `CounterTestPasses` | The maps: every step is one of the class (`Maps`), whose theorems are instantiated. The order: of two strings that differ, the first place where they do decides, or one is a prefix of the other. `RoundTrip`: a string joined at separators is split where `find` finds the first. The vector (`IteratorInv`): what is left of the string is always what is left of the vector (`PartOfTheWay`). The barriers (`AgentInv`): the units of *both* semaphores and the threads between the barriers are counted together (`UnitsCounted`), and of each server the connections pending, in hand and received (`ConnectionsCounted`); nobody arrives at the second barrier before everybody is through the first (`SecondAfterFirst`), as he has had a message from each. The test of `ObjectPool` (`PoolTestInv`): the theorems of `ObjectPoolProofs` are instantiated with the test's threads (`Objects`), and each object delivered is one thread's (`TakenOnce`), so that the threads that have one are as many as the objects (`TakersCounted`); hence a round ends only with the ones, or the twos, used up (`InRounds`), and main is told as often as values are stored (`InHalves`). The test of `Semaphore` (`CounterTestInv`): the lemmas on queues of `SemaphoreProofs` (`Queues`) say whom a `give` serves; the units main has given bound the flags from above (`UnitsGiven`), those that have come back bound them from below (`UnitsReturned`), and at a count the two are equal |

`SleepingCheckIsNeverReleased` is worth a word: together with
`CheckSleepsOnlyOnPromised` it says that the deadlock which the run PoolCheckWait
exhibits with a few threads is permanent with any number of them, and that it
needs a thread in `wait_for_object`; the run ObjectPool (`ReturnsUnlessCheckSleeps`)
says that nothing else holds up a caller.

The chain `Semaphore` => `UnitSemaphore` => `ObjectPool` => `PoolContract` is
thus proved for safety; that `Semaphore` may treat its blockers as permits rests
on `ImplementsPermit` and, for progress, on the run ThreadBlocker.

What stays with TLC. Everything with `~>`, fairness or `ENABLED`, which the
provers cannot do: `AffordableWaiterReturns`, `ReturnsUnlessCheckSleeps`,
`EverythingArrives`, `TestsEnd`, and the fairness in `ImplementsFifo`,
`ImplementsPermit` and the like, of which the theorems prove the safety. Every
invariant that a passing run checks is a theorem.

`ConnectionsProofs` assumes `Threads = {app}` because with two threads the cache
does lose connections (run ConcurrentSends), and an address erased between
`contains` and `operator[]` comes back with descriptor 0: the code has no lock
there. The peers and the receive loops remain concurrent with `app`; of accept
loops there are any number `AcceptLoops`, each of which accepts once, as the
destructor of its thread ends the process, and each accepted connection has a
receive loop. That addresses hold names and not descriptors is the condition
`by_descriptor` of the properties themselves, and run InboundClose shows why it
is needed.

## 6. What is not modelled, and why

- `exit_on_error = false` in `SocketAgent`: the returns of errors and the
  descriptors they leak. Every caller passes `EXIT_ON_ERROR` or true.
- The width of `resources` (signed, compared with unsigned requests): it takes
  2^31 units to tell the difference.
- The data race on `address_to_descriptor`: one access is one step.
- Messages with a byte 0 (`strcpy`, and `recv`'s buffer read as a C string):
  bytes are told apart by where they come from.
- The translation of addresses to `sockaddr_in`, the printing of errors: no
  state of their own.
- The test programs of `ThreadBlocker` (one thread per blocker, released one at
  a time) and `SocketAddress` (fixed comparisons): the runs and theorems of these
  classes take every sequence. The test of `SocketCommunicator` is an empty `main`.
- In `SocketAgentTest`, the bytes a `recv` has left of a message: the test
  receives once per connection. A thread with a number of two digits may get one
  of them only, and `success` is then whatever the network makes it; the theorem
  and `TestsPass` claim nothing of it. `MessageStream` has the stream in general.
- A `recv` that is under way when another thread closes its descriptor: what it
  returns is up to the system. In `Connections` it returns at once.
- In `Connections`, what a message to descriptor 0 does: it is standard input, no
  socket, so `send` fails and ends the process.
- `main`, `center_node`, `socket_host`: stubs. `experiments`: programs the
  library does not use.

## 7. How the project grew

ThreadBlocker and its contract, Semaphore and its two contracts, ObjectPool,
TwoWayMap, MessageStream, Connections, SocketCommunicator, and the proofs of
each; then the gate of `send_to` and `poll_inbox`, `SocketAddress` and
`ObjStrIterator`, the test programs, and the proofs of `Connections`, of the gate
and of `SocketAddress`; then the proofs that count: conservation and the FIFO
contract of `Semaphore`, the stream, vectors of any length, the two barriers, the
tests of `ObjectPool` and `Semaphore`; then the descriptor cache call by call,
several accept loops, `go_offline` against the accept loop's copy, partial
messages in the test of `SocketAgent`, and `TwoWayMap` as a test program.

Worth doing next, if the code grows that way: the error returns of `SocketAgent`
once somebody handles them; a framing of messages (todo.txt:3-4), which
`MessageStream` is ready for; a lock on the descriptor cache, after which
`ConcurrentSends` should pass and the assumption of `ConnectionsProofs` should go.
