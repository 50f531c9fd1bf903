# TLA+ models of MyCppUtils

MyCppUtils is a collection of small C++ utilities under `src/src/`, one
directory each, that share no code with one another (the one exception is
`Base64`, which `Websocket` uses). The verification is organised the same way:
one TLA+ module per utility, an `MC` module with the small instances TLC
checks, and a `_proofs` module where theorems are proved with TLAPS. Vendored
code (`src/third`: boost, websocketpp, OpenSSL, curl, gmm) is not modelled; where
a utility calls it, the model says what the caller relies on and `PROJECT.json`
marks the definition as external.

## 1. Inventory

| Utility | State | Operations | Who interacts |
|---|---|---|---|
| `ThreadSafeQueue` | `m_Queue`, `m_bTermination`, a mutex, a condition variable | `Push`, `WaitAndPop` (2), `TryPop` (2), `Termination`, `Empty`, `Size`, `IsTermination` | producer and consumer threads share one object |
| `TinyTimer` | flags `m_bExpired`, `m_bTryExpired`, `m_bLoopExecute`, `m_Thread` | `SetTimer` (async and sync), `KillTimer`, destructor | owner, detached timer threads, threads that kill |
| `Singleton` | `m_pSingleton`, `m_Mutex` | `GetInstance`, `DeleteInstance` | any number of threads, one static pointer |
| `TwowaySocket` server | listening socket, set of client sockets, map socket -> receive thread, close flag | `SetServerPort`, `CreateServerSocket`, `CloseServer`, accept loop, receive loop | owner thread, accept thread, one thread per client, the peer |
| `TwowaySocket` client, `AsynClientSocket` | one socket, connection flag | connect with timeout, framed send, close | owner, one detached thread per message |
| `AsynServerSocket` | listening socket, detached threads | create, close, accept loop, receive loop | owner, accept thread, receive threads |
| `WebsocketClient` | current connection's metadata, `m_WebsocketStatus`, mode, saved URL and credentials, `m_bIsNeedCloseConnection` | `Connect` (2), `ReConnect`, `Close`, sends, `OnOpen`, `OnFail`, `OnClose`, `OnMessage`, destructor | owner thread, the asio thread, the peer |
| `HttpClient`, `AsynHttpClient` | a curl handle per call | `Get`, `Post`, `PostJson` and their `Asyn` forms | caller, a thread per call that the caller joins |
| `JsonParse` (`cJSON.c`, `CJsonObject.cpp`) | a tree of nodes; wrappers that own or borrow a node, with caches of child wrappers and a traversal pointer | parse, print, get, add, replace, delete, traverse | single-threaded; wrappers alias one tree |
| `Base64`, `StringFormat`, `UUID`, `CharactersetConvert`, `PortOccupation` | none (pure or one system call) | conversions, process listing | - |
| `ComputationalGeometry` | values only | segment, triangle, circle predicates, hulls | - |

What makes each of them right, and what is hard about it:

* **ThreadSafeQueue** - elements come out once, in the order they went in; no
  consumer sleeps while there is work for it; after `Termination` nobody blocks
  and (says the comment) nothing enters. Hard: `Push` reads the flag before it
  takes the lock; a single `notify_one` competes with `TryPop`, spurious wake-ups
  and threads that never slept.
* **TinyTimer** - at most one timer is armed; a one-shot runs once; a kill ends
  the timer it was meant for. Hard: three flags are shared by all the threads the
  object ever starts, and the last two stores of an old thread can come after the
  next `SetTimer` and `KillTimer`.
* **Singleton** - one construction, the same object for all, handles that keep it
  alive. Hard: unlocked reads of a two-word pointer; `DeleteInstance` has no lock.
* **Sockets** - a frame is delivered whole and once; closing a server ends its
  threads and closes each socket once. Hard: socket numbers are reused by the
  system while a map still has them as keys; a peer splits and joins frames at
  will; each error path closes something already closed. There are two ways to send
  (with a length before the data or without) and two to receive, and
  `TwowaySocket`'s own clients send without the length its server expects.
* **WebsocketClient** - the status tells whether the current connection is open;
  closing and reconnecting leave no connection behind. Hard: handlers run on the
  asio thread and belong to whichever connection caused them, the status does not.
* **HTTP** - a callback for each request; the documentation calls blocking
  functions asynchronous.
* **JSON** - the tree stays a tree, wrappers never refer to freed nodes, printing
  and parsing are inverse. Hard: wrappers are cached by key and by index and not
  every mutation evicts them.
* **Pure conversions and geometry** - round trips and agreement with a reference
  definition on bounded inputs.

`PROJECT.json` lists the hazards line by line and, for each, the property that
would notice it going wrong.

## 2. Plan

The order in which the project grew, the most important behaviour first:
`ThreadSafeQueue` with its abstract specification `ClosableQueue`; `TinyTimer`;
`Singleton`; `WebsocketClient`; `CJsonObject`; `JsonList` with its abstract
specification `ItemSequence`; `TwowaySocket`, which composes `Winsock`,
`TwowayServer` and the clients; `Framing` with its abstract specification
`MessageChannel`; the proofs of each.

What could come next:

1. The accept thread of `AsynServerSocket`: `TwowayServer` without the map, with
   detached threads that outlive `CloseServer`.
2. The messages and user callbacks of `WebsocketClient`, with a callback that calls
   the client again.
3. The pure conversions (`Base64`, `StringFormat`, `cJSON`'s parser and printer) against
   reference definitions on bounded inputs. They would be recursive operators that
   only TLC evaluates and no theorem can speak of.

## 3. The modules

Every module describes its own abstraction in its header. The name of an action
is the name of the function or of the step of it; `PROJECT.json` ("map") gives the
lines. Definitions whose comment begins "A plausible slip, for comparison" are
not part of any specification: each is a wrong variant of the definition that
follows, and shows which property notices that mistake.

### ThreadSafeQueue, ClosableQueue

`m_Queue` and `m_bTermination` are the members. The mutex is the atomicity of the
actions: each critical section is one action, and `Push`, which reads the flag
before it locks, is two (`PushTest`, `PushEnqueue`). The condition variable is two
sets, `sleeping` and `woken`; `NotifyOne` moves any one sleeper, `SpuriousWakeup` any
at any time. `WaitAndPop(c)` is both the first evaluation of the predicate and the
later ones. `pushed`, `popped` and `late` are history.

`ClosableQueue` is what the class promises: a FIFO that can be closed, whose takers
block only while it is open and empty. The refinement maps "blocked" to
`sleeping \cup woken`.

### TinyTimer

One owner calls `SetTimer` (loop or one-shot, asynchronous or not) and `KillTimer`;
other threads (or the task itself) call `KillTimer`. Each load and each store of an
atomic flag is a step, also within one condition (`KillTestExpired`,
`KillTestTryExpired`, `KillTestThread` are the three of line 106); `wait_for` is the evaluation of its predicate, the sleep, and
the wake-up by notification, timeout or spuriously, so that a notification that
comes in between is lost as in the code. The g-th armed timer is generation `g`; the
flags are shared by all generations, which is what the properties are about.

### Singleton

`m_pSingleton` is two words, `ptr` and `ctrl`, and copying or writing it is two steps
in either order (in C++ this is a data race; the model gives it the outcomes of an
implementation that copies word by word). `DeleteInstance` empties it twice and
takes no lock, as in lines 33 and 34.

### WebsocketClient

The owner's thread runs `Connect`, `ReConnect`, `Close` and the destructor in the
steps between which the asio thread can act; the asio thread runs `Opened`,
`OnOpen`, `OnFail`, `OnClose`, `PeerCloses`, `Terminate`. `m_state[k]` is websocketpp's state
of connection `k`; it is external, modelled by what `WebsocketClient.cpp` relies on.
`early` and `foreign` record the two races that the single status field cannot tell
apart, and `StatusExplained` says that there is no third.

### CJsonObject

The root's children as a sequence of keys and identities, the two maps of wrappers
as functions from keys and indexes to what they wrap, the cursor of `GetKey`. The
overloads that take an object or a string, a number or a Boolean differ in
what they evict and are actions of their own. `Matches` is the comparison without
case that the search uses and the maps do not. `aliased` and `shifted` record the
calls after which the code leaves a wrapper behind: the invariants except exactly
those, and say that there are no others.

### JsonList, ItemSequence

The same children one level down: `child`, `next`, `prev` and `string` are the fields of
`cJSON`, `c`, `which` and `i` the locals of the functions, and `pc` names the loop the
call is in. `heap` is what malloc gave out and free did not take back, `loose` what
the callers own. `list` is history: the sequence the pointers are said to stand for.
`ItemSequence` has a call begin and take effect in one step, at the place its index
or its key names (a negative index is the first place, an index or key that is not
there is no place); the refinement mapping is `list` with the names. Callers
bring only nodes they own, new or detached; a name is a value and the
case-insensitive comparison is `CJsonObject`'s matter.

### Winsock, TwowayServer, TwowaySocket

`Winsock` is the external part: `holder[n]` says which socket the number `n` stands for,
a closed number can be given out again at once, and `WSACleanup` (`Release`) closes
everything when its count reaches zero. `TwowayServer` has the server's steps: the
accept thread accepts (`Accept`) and files the receive thread under the number in a
second step (`Store`), which ends the process when a joinable thread is still filed there; a receive
thread tests the flag, waits in `recv` or in the loop for the rest of a message, and
closes its number when its peer has left (`PeerLeft`, `PeerLeftMidway`) or when it
finds the flag set (`TestClose`); `CloseServer` is the owner's five steps in the code's order.
`TwowaySocket` adds the two clients, which take their numbers from the same table and undo
`WSAStartup` at every failure, and the facade that calls all three and ignores what they
return: a message can be sent whenever no other call runs, after `Close` as well (`StartSend`,
`Idle`). `aborted` is the reason for which the process has ended (`std::terminate`, or
a null pointer); `left`, `midway` and `fails` are history and name the code's own
reasons for the exceptions in the properties. A socket is a member of `Peers`, `Clients` or
`Listener`: its identity is what the properties compare with its number. Left out: addresses; the data
(which is `Framing`'s matter), with it the test of line 328, so that a message that
is complete when the flag is set may be printed or not; a second `Init`.

### Framing, MessageChannel

One connection, with the senders of `src/AsynClientSocket` ("framed") and of
`src/TwowaySocket` ("raw") and the receivers of `TwowaySocket`'s server ("framed") and of
`src/AsynServerSocket` ("raw"), in all four combinations, since the example programs
share a port. `stream` is the bytes on the way, and a step of a receiver takes any
number of them that fits its buffer. `Send(t)` gives the connection some of the bytes of
call `t`; on a blocking socket the call goes on and another thread's bytes may come
between, on a nonblocking one (the socket stays so when `connect` needs no time, or too
much) the rest is never sent. `ReceiveWhole`, `ReceivePart` and `ReceiveMore` are the branches of
the receive thread, `ReceiveBreaks` those in which it copies a negative length or writes past its array. `torn` and
`misread` are history: a message began within another; a `recv` got less than a length
or more than a message.

`MessageChannel` is what the framing is for: messages are offered, enter or are
dropped, and those that entered are delivered whole and in order. The mapping
takes `text`, `wire` and `shown` for what was offered, entered and delivered. Its state is
"garbled" once `torn` or `misread` holds, or with any raw end: from then on nothing is
promised; "lost" is a reset within a message, of which a part may then be shown; a
process that is broken without a misread would be in a state that the channel does not have. Left
out: a client that is destroyed under one of its threads; a connect that fails changes nothing here.

## 4. The runs

| Run | Instance | What it shows |
|---|---|---|
| `queue` | 2 producers, 3 consumers, 2 values, 4 pushes | order, no lost wake-up, at most one late element per producer, refinement of `ClosableQueue` with its liveness: work is taken, and the exit state releases everybody |
| `queue_exit_comment` | same module, smaller | a counterexample to the comment that pushes in the exit state are ignored |
| `timer` | 2 generations, owner and 1 killer, runs counted to 3 | one armed timer, one-shots run once and end, a kill takes effect within one run unless an older thread erases it |
| `timer_kill_lost` | 2 generations, no killer but the owner | a counterexample to "KillTimer kills the timer" |
| `singleton` | 2 getters, 1 deleter, 2 deletions, 6 objects | one construction while nobody deletes; at most two more per deletion |
| `singleton_torn` | 2 getters, no deleter | a counterexample to safe access: a handle without its control block |
| `websocket` | 3 connections, 2 URLs | status, handle, flag and saved URL through every interleaving of owner and asio thread |
| `websocket_destructor` | same module | a counterexample to the destructor's comment |
| `json_object` | 3 spellings of 2 keys, 2 children, 7 identities | caches, uniqueness of keys and enumeration through any sequence of calls |
| `json_list` | 3 nodes, 2 names and none, indexes -1 to 3 | the pointers are a sequence, nothing lost or freed early, every loop ends |
| `twoway` | 2 clients, 2 peers, 3 numbers (1 250 939 states) | each thread and client uses its own socket until a client or a divided message goes wrong, Winsock stays loaded, `CloseServer` returns and leaves nothing behind, the process ends only for a named reason |
| `framing` | 3 texts, 2 messages, pieces of 3 and 5 bytes, a buffer of 8 (832 827 states) | the framing implements `MessageChannel`; data without a length is never printed by the server that expects one |

The bounds. The queue's hazards need a late producer beside a sleeper, a notified
consumer and a `TryPop`: two producers and three consumers with four elements
contain each combination. The timer's need an old thread between its last two
stores while the next generation runs: two generations. `MaxRuns = 3` tells "once"
from "once more" from "more". `MaxMade = 6` is above `1 + 2 * MaxDeletes`, so the bound of
`BoundedInstances` is not the model's own. The client's need an old connection that
ends after a newer one opened, twice: three connections. The JSON runs have
two keys that match under different spellings beside one that does not, and lists
with a head, a middle and a tail; indexes reach past the end. The server
run has four sockets beside the listener and three numbers, so that every number is
given out again while a map or a client still has it. Messages are offered without end, also
after failures and after `Close`; `fails` is history and tells "once" from "more". The framing run has an
empty text, one shorter than a length and one that reads as a length; pieces end
within a length, after it and within a text, a buffer of eight bytes holds either
less than a frame or parts of two, and two messages can change places, mix and follow each
other. The theorems of section 6 remove the bounds where they apply.

Fairness. Threads run: each thread inside a call goes on (weak fairness); nobody is
obliged to call anything. The timeout of `wait_for` has strong fairness because its
deadline is absolute, so that spurious wake-ups cannot put it off for ever. A woken
consumer gets the mutex (weak fairness of `Resume`), although not before others.
websocketpp sets a timer on the opening and on the closing handshake, so that a
connection leaves `connecting` and `closing`; an open one may stay open for ever. A socket
call that waits for the network returns when its number is closed or reset, and only
then has to; nobody has to connect, send or leave. The sender and the receiver of
`Framing` go on while there is something to send or take. The `timer` runs and `framing` switch the deadlock check off: when all generations or
messages are used up nothing has to happen. `singleton` and `json_object` check safety only.

## 5. Findings

Each is a line of the repository that the program does not keep, shown by a run:

* `queue_exit_comment` (`ThreadSafeQueue.h:95` and `:115`): a `Push` that tested the
  flag before `Termination` enqueues after it.
* `timer_kill_lost` (`TinyTimer.h:82` and `:102`): the thread of an older generation
  stores `m_bTryExpired = false` after the kill of a newer one; the newer loop
  runs for ever.
* `singleton_torn` (`Singleton.h:25`, `README.md:11`): the unlocked copy can get the
  object without a share in its ownership.
* `websocket_destructor` (`WebsocketClient.cpp:31` and `:32`): the metadata's status is
  never updated, so the destructor never closes an open connection.

More are not divergences from anything written. `TwowaySocket`'s clients do not fit
its own server: `RawNotShown` says that the server prints nothing of them before 16 megabytes. What
can go wrong with numbers that are reused is excepted, by name, in
`SocketsKeptApart`, `WinsockLoaded` and `AbortExplained`; what can go wrong with a stream that is cut
elsewhere than at the messages is what `Intact` excepts. Two gaps are excepted in
the invariants of `CJsonObject`: a wrapper cached under another spelling of a key
survives the child (`aliased`), and so does a wrapper by index when a
number or a string is put first (`shifted`).

## 6. The proofs

TLAPS proves, for all values of the constants that meet the named assumptions
(`QueueAssumption`, `TimerAssumption`, `SingletonAssumption`, `ClientAssumption`,
`FoldAssumption`, `MaxAssumption`, `KeyAssumption`, `NullAssumption`, `NoKeyAssumption`,
`MaxIndexAssumption`, `NumbersAssumption`, `TwowayAssumption`, `FramingAssumption`; TLC
evaluates them in every run):

* `ThreadSafeQueue_proofs` - `TypeOK`, `Fifo`, `NoLostWakeup`, `LateArrivals`, each inductive given
  `TypeOK`, and that every step is one of `ClosableQueue` or a stutter. The wake-up
  invariant counts: an element and the consumer that is on its way to it come
  together and go together. From it follows what the fairness of `ClosableQueue` asks of each state
  and each step: an element or the exit always finds a waiting consumer awake
  (`ServerAwake`), no wake-up is taken back, and the resumption is the `Take` or the `Refuse` that
  is owed (`WakeupsServe`).
* `TinyTimer_proofs` - all five invariants of the run. `IInv` adds to the types: only the
  next generation is being armed (`Latest`), the loop flag is that of the armed one
  (`LoopFlag`), and how far a one-shot's run has got (`RunsOfOneShot`). Given it, a killed
  generation has not run since or is past its last run (`KillsCounted`), and a flag
  that was not stored late has a thread that will clear it (`FlagHasReader`). A generation that is
  bound to end (killed and not erased, or a one-shot that has run) does not go round
  the loop again: every step of its thread lowers a rank (`EndingComesCloser`).
* `Singleton_proofs` - all three invariants of the run. `IInv` adds where each word comes
  from while nobody has deleted (`Undeleted`) and which counters belong to whom
  (`Places`). `BoundedInstances` follows from accounts (`Accounts`): a construction uses up
  an empty pointer, a write of a deleter makes one, and each deletion has two, of
  which some are still to come. While nobody deletes, the words stay once they are written
  (`WordsStay`), and a copy that misses the control block read it while a maker stood between its
  two writes (`MissesOnlyInAssign`): the window that the run `singleton_torn` finds is that one
  and no other.
* `WebsocketClient_proofs` - all invariants and action properties of the run: `TypeOK`, `OpenIsBacked`,
  `StatusExplained`, and what the owner's fields promise (`HandleKept`, `CloseFlagRight`,
  `UrlRemembered`). `IInv` splits the state by thread (`OwnerSide`, `AsioSide`) and adds what
  an early handler looks like (`EarlyKnown`). Three more are about the end: handlers run in
  their order and none is lost (`HandlersInOrder`), when the destructor has joined none is left to
  call the object (`NoHandlerOnDestroyed`), and while it joins the asio thread can always go on
  (`JoinIsAnswered`), each step bringing one connection closer to its end (`TearsDown`) - unless all
  that is left is open, the case of the run `websocket_destructor`.
* `CJsonObject_proofs` - all five invariants of the run. The invariant is the conjunction
  of the properties with `NodesDistinct`: eviction is right because identities are
  distinct. What callers have from them: nothing the object keeps points to a freed child
  (`NothingDangles`), two wrappers share a child only where a search would find one
  (`WrappersApart`), and an object is a map from keys without case to children (`ObjectIsMap`), each
  but for the gaps that the history variables record.
* `JsonList_proofs` - `TypeOK`, `Linked`, `OneOwner` and `ImplementsSequence`. What makes the
  invariant inductive are the loop invariants (`Looking`): the cursor stands at the
  place the counter says, and a search by key has passed no child with that name.
  The refinement follows: when a loop ends on a node, the node is at the place the
  call names (`AtPlace`, `KeyPlace`), and when it runs off the end there is no such
  place (`NoPlace`). For memory: every pointer a call can follow is null or allocated
  (`PointersAlive`), and `cJSON_Delete` frees the one node it was given, though it walks the links
  (`FreesOnlyItsOwn`). For termination: the nodes ahead of the cursor, counted twice for a search
  that is followed by a walk, fall with every step (`CallsGetOn`) from a bound that the length
  gives (`CallsAreShort`).
* `TwowaySocket_proofs` - all five invariants of the run. `Structure` ties the phases of
  the owner to the threads and sockets there are (`Setup`, `Phases`), each running thread to the
  map (`FiledRight`) and each number to its holder (`HolderRight`); `CloseIsComplete` follows
  from it. For the others: Winsock is loaded while a number is held (`Opened`), and its count is
  the server's and that of the clients that never failed, as long as none failed
  twice (`Counted`); until somebody leaves no number comes back (`Clean`, `Unfiled`), and
  without a mishap every number is its owner's (`Apart`). `CloseServer` waits only for calls that
  return: what its sweep has closed stays closed until it has joined (`Swept`), so the accept and
  every `recv` it waits for have lost their socket (`WaitsAreWoken`); and with the flag set no thread of
  the server goes round its loop again, but for the one more peer an accept may bring (`ThreadsWindDown`).
* `Framing_proofs` - that `bytesToInt` reads what `intToByte` wrote for every length an `int` can
  have (`LengthSurvives`); `TypeOK`, with how much a call has sent (`Sends`); `RawNotShown`, from the
  fact that a text has no zero byte (`RawSent`); and that every step is one of
  `MessageChannel` or a stutter. The invariant of the refinement is `Channel`: what has not been shown lies in
  `got` and `stream`, message after message (`Ends`), and the last one is as long as its sender has
  got (`Agree`). What a `recv` finds at the front is therefore a frame or its beginning (`Leads`),
  so that a length read is a length sent. The channel keeps its promise in every step
  (`Promise`), which gives in terms of the sockets that what is printed is what was sent, in order, once
  and whole, with at most the last one cut short by the end of the connection (`ShownAsSent`). And
  what is sent and not printed is never all in the receiver's hands (`OwedIsThere`): there is something
  to receive, and a thread that does.

The texts of `Framing` are any sequences of non-zero bytes shorter than `Huge` (16 megabytes):
their length is far below what the four bytes can hold.

The definitions that only theorems speak of (`ServerAwake`, `EndingComesCloser`, `TearsDown`,
`PointersAlive`, `ShownAsSent` and the others above that no run lists) stand in the `_proofs` modules; they
were checked by TLC on the instances of the runs before they were proved, and a run that
lists them would repeat what the theorems say of every instance.

Only model-checked: the six liveness properties (`TimersEnd`, `DestructorWaitsForOpen`, `CallsReturn`,
`CloseReturns`, the fairness halves of `ImplementsClosableQueue` and
`ImplementsMessageChannel`). The step from a state in which an action is enabled to its being taken needs
`ENABLED`, which the prover does not handle, and an induction over the rank. What is
proved is the part a wrong line of code would break, the safety half:

| Liveness property | Its rank falls | Somebody can always go on |
|---|---|---|
| `TimersEnd` | `EndingTimersEnd` | every place of a running thread has an action of its own |
| `DestructorWaitsForOpen` | `ConnectionsTearDown` | `DestructorIsAnswered` |
| `CallsReturn` | `CallsComeToAnEnd`, from `CallsBounded` | one thread, no waits |
| `CloseReturns` | `ServerThreadsWindDown` | `CloseServerWaitsAreWoken` |
| `ImplementsClosableQueue` | `ResumptionsServe` | `BlockedFindServer` |
| `ImplementsMessageChannel` | a `recv` takes at least one byte of the stream | `OwedCanBeTaken` |

## 7. What is not modelled

The HTTP clients (straight-line calls of curl; the thread of an asynchronous call is
joined by the call itself), Base64, string formatting, the JSON parser and printer
(conversions without state), the geometry (floating-point predicates with a tolerance).
UUID, character sets and port occupation are calls of the operating system with no
state of their own. `src/third` is vendored, and by far the larger part of the repository.

Of what is modelled, these are left out: the destruction of a timer, of a server's
members or of a client under a detached thread (undefined in the code; the timer's is listed as a
hazard); the accept thread of `AsynServerSocket`; reference counts of the singleton;
messages of the websocket; values of JSON nodes and what lies below a child,
including the reads of freed memory that follow from the excepted gaps; failures of
malloc.
