# AsciiTerraRPG in TLA+

AsciiTerraRPG is a console role-playing game for several players: a server
(`AsciiTerra_Server/GameServer.cpp`), a client (`AsciiTerra_Client/GameClient.cpp`)
and a small networking library on top of asio (`SpNetCommon/src`). This
directory holds TLA+ models of the code, TLC configurations that check them on
small instances, and proofs of some theorems for every instance. Line numbers
are those of the sources under `src/`.

## The system

Two threads run in the server process. The *asio thread* runs `m_asioContext`:
it accepts connections, shakes hands, reads messages and pushes them to
`m_qMessagesIn`, and writes what was given to `Send`. The *game thread* runs
`CustomServer::Run`: it sleeps on the queue and passes every message to
`OnMessage`. The client has the same two threads, its game loop polling keys and
one incoming message every 100 ms.

| Component | State | Operations | What makes it correct |
| --- | --- | --- | --- |
| `THSQueue` (`spThreadSafeQueue.h`) | a deque, two mutexes, a condition variable | push, pop, empty, wait | it is an atomic deque; nobody pops an empty one; a message in it is taken out |
| `connection` (`spiderNet.h:114-516`) | socket, `m_qMessagesOut`, `m_msgTemporaryIn`, handshake words, the handlers pending on it | Send, the write chain, the read chain, the handshake, close | in each direction what is delivered was sent, in order, once; nothing is handled before validation; honest clients are validated |
| `client_interface` (`spiderNet.h:18-110`) | one connection | Connect, Send, Disconnect | as its connection |
| `server_interface` (`spiderNet.h:520-706`) | `m_deqConnection`, `nIDCounter`, `m_qMessagesIn` | accept, MessageClient, MessageAllClients, Update | the container is never changed under a loop that goes on over it; a dead client is noticed and forgotten |
| `CustomServer` (`GameServer.cpp`) | `PlayersList`, the turn (`CurrentPlayerID`, `CurrentTurns`), `GarbageIDs` | register, approve an action, end a turn, forget a client, AI turn | the turn always has a holder who can act; only it acts; it goes round; clients agree with the server about who is there |
| `GameWorld` (`spNetMETA.h:326-526`) | players, enemies, inventories, map | moves, targets, attacks | what is approved stays on the map; indices and quantities stay in range; replicas that apply the same actions agree |
| `MakeAITurn` (`GameServer.cpp:135-283`) | a loop over the enemies | target, move, attack, compaction | it ends; ids name the same enemies everywhere |
| `CustomClient` (`GameClient.cpp`) | a replica of the world, `PlayerID` | one message per tick | its replica follows the server's |
| `RingBuffer` (`DynamirArray.h`) | a block, `head`, `elementsInside` | pushes and pops at both ends, Resize | it is a bounded deque (not used by the game) |
| `SharedMemoryHandle`, `WeakMemoryHandle`, `UniqueMemoryHandle` (`Memory.h`) | pointers, a global map of counts | copies, moves, resets | counts are exact; objects are deleted once (not used by the game) |
| `message`, `tt_Timer`, `StaticArray` | bytes, time points, arrays | push, extract, durations | what is extracted was pushed; durations are right |

The interactions that are hard to test:

* Sending to a client whose socket has closed calls `OnClientDisconnect`, which
  may call `ChooseNextPlayerForTurn`, which sends. So every handler of the game
  thread may be re-entered at each of its sends, while it iterates over the
  container the inner call changes. The socket may close between any two of
  those sends, because another thread closes it.
* The handshake and the first messages use the same byte stream, and both
  sides may `Send` before the handshake is over.
* A write chain keeps itself going through its own handlers; whether one runs
  is deduced from `m_qMessagesOut`.
* Handlers hold a raw `this`.
* `wait` tests and sleeps under different mutexes.
* A client is told of actions and never of their results: it runs the rules of
  the game on its own copy, one message per 100 ms, and depends on every id and
  count in it being the server's.
* To delete an object runs the destructors of the handles in it, in the middle
  of the outer handle's operation.

`PROJECT.json` lists them with their lines under `hazards`.

## The modules

| Module | Models |
| --- | --- |
| `AbstractQueue` | what `THSQueue` promises: an atomic double-ended queue |
| `THSQueue`, `MCTHSQueue` | the queue, one step per lock, unlock, load or store; its producers and `Update`'s consumer loop |
| `THSQueueProofs` | proofs about `THSQueue` |
| `Channel` | what a user of `connection` counts on, in one direction |
| `Connection`, `MCConnection` | the two ends of one connection, one step per asio handler |
| `ConnectionProofs`, `ChannelProofs` | proofs about `Connection`: its types and handshake; its two channels |
| `GameServer`, `MCGameServer` | `server_interface` and `CustomServer`, one step per read of a socket's state |
| `GameServerProofs`, `GameServerRosterProofs`, `GameServerTurnProofs` | proofs about `GameServer`: its types and stack; who calls whom, and what follows for players and rosters; whose turn it is |
| `GameWorld` | the rules: `spNetMETA.h`, the vector operations they need, `CheckPlayerAction`, the choice of targets |
| `Gameplay`, `MCGameplay` | a game by these rules: the server's world, `MakeAITurn`, and the copy of one client |
| `GameplayProofs` | proofs about `Gameplay` |
| `AbstractDeque` | what a `RingBuffer` is for |
| `RingBuffer`, `Handles`, `MCLibrary` | the library's ring buffer and its memory handles, checked side by side |
| `LibraryProofs` | proofs about `RingBuffer` and `Handles` |

`THSQueue` refines `AbstractQueue`; `Connection` refines two instances of
`Channel`; `RingBuffer` refines `AbstractDeque`. The models compose by their interfaces: `Connection` and `GameServer`
take the queues between them as atomic, which is what `AbstractQueue` is shown
to be; `GameServer` takes from `Connection` that a connected, validated client's
messages arrive in order and that a socket may close at any time; `Gameplay` takes
the same from `Connection` and leaves the closing to `GameServer`.

### THSQueue

`pc` is the program counter of each thread, `muxQueue` and `muxBlocking` the
owners of the mutexes, `cvBlocking` the threads asleep on the condition
variable. An operation on `std::deque` is a load and a store of the container
(`load`), so that mutual exclusion is a theorem of the model and no assumption.
`PushStep` is `push_back`/`push_front` (49-66): both locks, `notify_one`, and the
destructors in reverse order. The consumer is the game thread in `Update(-1,
true)`: `wait` (89-96) as `WaitTest`, `WaitLock`, `Block`, `Relock`, `LeaveWait`, then
the loop `while (!empty()) pop_front()` (`spiderNet.h:651-654`). Spurious wake-ups
are allowed, and never required. `clear`, `count`, `front` and `back` are not
modelled: nothing calls them but the destructor.

`MayPush` is a bound: a push starts only while the queue is shorter than `Cap`,
or when the consumer is asleep and no other push is under way. The second part
matters for liveness: a bound must not hold back the very push that wakes the
consumer.

### Connection

The two ends have the same code (`owner` tells them apart), so most actions take
the end as a parameter. `posted` holds the lambdas of `Send` (217-231), `writes` the
pending `async_write` operations, `reading` what the pending `async_read` waits for,
`wire` the words one end has written and the other not read. A message header is
eight bytes, as a handshake word is; so both are one word, and a word is
consumed by whatever read is pending. A body is one word of its own. TCP is
external: in order, nothing lost while both ends are open; a write to a closed
peer may succeed or fail. `Accept` is the accept handler (566-597) with
`OnClientConnect` (`GameServer.cpp:15`), which posts `ServerAccept`, and `ConnectToClient`.
`sent` and `received` are history variables: the calls of `Send` and the pushes to
`m_qMessagesIn`.

`Freed` is the destruction of the server's connection: `m_deqConnection` has
dropped it and no queued message holds its `shared_ptr`. What its handlers then do
is undefined, and none is modelled: it does happen, because closing the socket
completes the pending read with an error, in a handler that holds a raw `this`
(`spiderNet.h:346`) of a connection `MessageAllClients` may have freed (632).

`Chatter` lets the client send before it has read `ClientAccepted`, as the
program does (`GameClient.cpp:361` runs as soon as `IsConnected()`); `MayLeave` lets its
process end at any step.

Left out: an accept whose peer has already reset (`remote_endpoint()` throws at
570 and ends the asio thread), a connect that is refused, and the close that
`Disconnect` posts and `m_context.stop()` may drop; the process ends there and
closes the socket, which `Leave` has.

### GameServer

Clients are `1 .. N` in the order in which `nIDCounter` numbers them; 1 stands for
10000. `m_deqConnection` is only ever pushed at its back, so it is a function from
ids to `held`, `null` (a reset `shared_ptr` that has not been erased) or `absent`.
`order` is the iteration order of the `unordered_map` `PlayersList`: any, fixed at the
start (a rehash may change it, which no property here depends on within a turn).

The game thread is `stack`, a sequence of activation records, the running one
first. A record has a label `pc`, its arguments (`c`, `m`), the position of its loop
(`i`, with the bound `n` a range-for computed when it began) and `dirty`, the flag
`bInvalidClientExists`. `Call` pushes a record and stores where to go on, `Return`
pops. A step extends from one read of a socket's state to the next, so that
`Close` falls between any two of them. In C++ the depth is bounded by the machine's
stack; here by `MaxDepth`, and a call that does not fit is the fault
`stack_overflow`. In every such state some client has two unfinished
`OnClientDisconnect` records, so the bound cuts nothing but that recursion.

`fault` says how the process died: `null_deref`, `bad_iterator`, `out_of_range`
(`std::unordered_map::at`), `erased_under_loop`, `stack_overflow`, `data_race`
(`Accept` while the game thread iterates over the deque, undefined behaviour taken as
either harmless or fatal). A dead process takes no further step.

`known` and `myTurn` are what each client has learnt from the messages given to
`Send` for it (`GameClient.cpp:396-451`): the players it lists, and whether it was
told that it is its turn.

`MayReceive` is what a `CustomClient` sends: one registration, heartbeats, actions
and broadcasts. `EarlyKeys` lets the user press keys before the registration has
returned, when `PlayerID` is still 0.

Left out here: the map, positions and hit points (an action is approved or not; any
action may kill the last enemy), which are `Gameplay`'s; how `MakeAITurn` decides (its
messages are sent one by one, their number is any up to `MaxAI`, and it is taken to end);
`GameUpdatePlayer`, which no client sends; `ServerPing`, which bounces a message and
changes nothing. The two world updates of a registration (422-432) are one send, being
sends to the same client with nothing between.

### GameWorld and Gameplay

`GameWorld` has no variables: a world is a record of players and enemies, and each
function of the code is an operator from a world to a world, because server and
clients run the same function on their own copies. Coordinates are integers
(`int16` in the code, on a map of 40 by 40); `CurrentTurns` is a 4-bit field, so that
0 - 1 is 15; a distance is the root cast back to an integer. A move falls through to the
attack (`spNetMETA.h:339-345`), which therefore hits one cell beyond. `TakeDamage` and
`MakeAttack` are written once in the model and twice in the code.

`Gameplay` has the server's `world`, `CurrentPlayerID` and `ai`, the locals of
`MakeAITurn` with a program counter: the function is taken one pass of its loops at a time,
because it may never end. The handlers of the game thread are otherwise one
action each. The *watcher* is a client, any of them, whose copy of the world is in
`client`; `inbox` is what was sent to it and not handled yet. `client.fault` is how its
process died: an assertion, or an `at` without an element. Its `Handled` is the switch of
`UpdatePlayer`, as far as messages change or read the copy.

A watcher may connect long before it registers, because `UpdatePlayer` waits for its user
to type a name (`GameClient.cpp:386`); meanwhile it gets every broadcast. Of the other
clients only what they ask for matters, and they may press any key at any time.

Left out: clients that leave (`GameServer` has them), and attacks asked for by a
player, which no `CustomClient` sends (110-112); the operators have them.

### RingBuffer

`memory`, `capacity`, `head` and `elementsInside` are the members; `result` is what the last
pop returned. The abstraction to `AbstractDeque` reads the slots from the tail to the
head (`Contents`). `Resize` copies `head + 1 * sizeof(ValueT)` bytes (541), so
the abstract deque lets a resize lose elements at the front; `ResizeKeeps` says when it
does not. A pop of an empty buffer returns a reference to a `ValueT{}` that is gone (452, 478):
its reader finds the default or anything else. What works on uninitialised memory
(the default constructor and both copies), what frees twice (a moved-from buffer), and
a `Resize` to no more than `head` that writes past the new block, are undefined and left out.

Besides: `Front()` returns the element at the back and `Back()` the one at the front
(381-403).

### Handles

`Data` is the pointer of every shared handle, `RefMap` the global map of counts,
`alive` the objects in memory. The type handled is a list node with a handle of its own,
named by the node's address, so that `harz_delete` recurses. A call is a list `todo` of
the steps it has left; a step may put others before the rest, which is what a nested
destructor does. `fault` says what went wrong: a handle read from an object that
is gone, an object freed twice, the assertion of line 610, the error message of 302.

## What is checked

All runs are exhaustive for their bounds. "violation" runs are expected to fail:
each documents a place where the code does not do what its own comment says.

| Run | Instance | Shows |
| --- | --- | --- |
| `queue` | two pushing threads, both ends, two elements, `Cap = 1` | `TypeOK`, `PopHasElement`, `Implements`; under `HeartbeatSpec` also `MessagesHandled` |
| `queue_lost_wakeup` | one pushing thread, `Cap = 3` | *violation* of `MessagesHandled` when nobody need push again |
| `server_turns` | 2 clients, 2 actions per turn, both may leave, early keys, enemies, two queued messages | `TypeOK`, `TurnHasHolder`, `TurnCanStart`, `OnlyHolderSpends` |
| `server_leave` | 3 clients, 2 may leave, 1 action per turn | `PlayersReachable`, `OneTurnHolder`, `RostersAgree`, `TurnIsKept` |
| `server_round` | 3 clients, none leaves, enemies | `TurnsGoRound` (liveness), `NoCrash` |
| `server_tidy` | 1 client that may leave | *violation* of `TidiedUp` |
| `connection` | 3 messages from the server, 2 from the client, with and without a body, chatter, may leave | `TypeOK`, `OneWriter`, `InStep`, `ValidatedFirst`, `ServerReceivesWhatWasSent`, `ClientReceivesWhatWasSent`; under `FairSpec` also `AllArrives` (liveness) |
| `connection_refused` | the same | *violation* of `HonestClientValidated` |
| `world` | 2 players, up to 2 enemies on 7 by 5 cells, 1 action per turn, 2 turns of the enemies, a watcher one message behind | `TypeOK`, `TileInBounds`, `EnemiesStayArmed`, `AmmunitionLeft`, `PlayersFollow`, `WorldFollows`, `IDsKnown`, `StuckForEver`, `AITurnEnds` (liveness) |
| `ai_hangs` | the same | *violation* of `ZNeverNeeded` |
| `replica_turns` | the same | *violation* of `TurnActionsFit` |
| `library` | buffers of 1 to 4 slots and 2 values; 3 addresses, 2 shared, 2 unique and 1 weak handle | `RingTypeOK`, `LookFindsAll`, `RingImplements`, `ResizeKeeps`; `CountsExact`, `OwnedOnce`, `ReleasedOnce`, `WeakIsSafe`, `SafeSources` |

Why the bounds are enough. In the queue, the steps of a thread depend on the
others' only through the two mutexes and on the deque being empty or not; two
producers and a queue of up to three elements reach every combination. In the
server, a third client is what makes an outer loop, an inner loop and a leaver in the
middle of the deque different (what takes a fourth is in `MCGameServer`); two leavers give a removal found while
another is handled; a queue of one message suffices for the runs about leaving
because the game thread handles one at a time and everything that may happen meanwhile
is `Close` and `Accept`. Two actions per turn tell "spends one" from "ends the turn". In the
connection, three messages from the server are `ServerAccept`, `ClientAccepted` and one more
with or without a body, so that each pair of kinds follows each other in the
client's direction.

In the world, the map is just large enough for an enemy to walk along x and then y with
a distance left along z; a spawn place outside of the map and one inside cover both
cases of `NewPlayer`; the two enemies have different factions in some initial states,
so that they also fight each other; two turns of the enemies follow each other with the
dead of the first. Hit points are low, so that players and enemies die. In the library,
four slots hold every order of head, tail and gap; three objects make a list of three,
a cycle, and an address that is used again while a weak handle still has it.

Deadlock is checked for the queue and the server (`Stopped` is the server's
proper end: it died, or all clients are gone and it waits), and for the world and
the library (`Over` is the bound on the enemies' turns). It is not for a
connection, which ends when both sockets are closed and nothing is pending.

Fairness. `FairSpec` of the queue: a thread inside a call goes on, nobody need
call. `HeartbeatSpec` adds that pushes go on, because a connected client sends
`ClientJustCheck` every 100 ms. `FairSpec` of the server: the game thread runs;
nothing is assumed of clients or of the asio thread, and `TurnsGoRound` has "actions go on being
approved" as its hypothesis. `FairSpec` of a connection: the kernel connects and the accept handler runs, both io_contexts run, the server's game loop runs;
nobody need send, and nobody need close. `FairSpec` of a game: the game thread goes on
with the enemies' turn; no player need press a key and no client need read.

### What the violations say

* **Lost wake-up** (`spThreadSafeQueue.h:91-94`). `wait` finds the queue empty,
  releases `muxQueue`, and a push including its `notify_one` falls before the sleep.
  The run `queue` shows how far it goes: any later push ends the sleep.
* **Endless recursion** (`GameServer.cpp:123-125`). The turn is handed on before the
  player who left is erased, so the last player is chosen again, found dead again,
  and so on. It takes one client: one that holds the turn and leaves.
* **An honest client is refused** (`spiderNet.h:407-431`). A heartbeat written
  before the answer to the challenge is taken for the answer.
* **The enemies' turn never ends** (`GameServer.cpp:196-235`). The step an enemy takes is
  subtracted from all three coordinates of its target (213, 224), so a target gets a
  height no enemy has; with x and y reached, the loop neither acts nor counts.
  `AITurnEnds` shows that this is the only way for the turn not to end.
* **A client's assertion fails** (`spNetMETA.h:252`). The actions of another player are
  counted down in every client and filled up only in its own.

One more violation takes four clients and an instance of its own, `ServerErase.cfg` of
`MCGameServer`, which finds `NoErasedIteration` violated (`spiderNet.h:612`, `:643`). A broadcast
finds a dead client and resets its entry, goes on, and finds the turn's holder dead as
well; the next player is chosen, is told so, and has closed too; the `MessageClient` that
found it out erases all reset entries, moving the elements that the broadcast's
range-for (619) holds a reference to and goes on over. The fourth client is the one the
turn goes on to: with three, that search meets the reset entry first (`null_deref`).
`GatheredSpec` keeps the behaviours in which all clients register before anybody leaves or
the server looks for dead clients, and afterwards only ping or leave, with `PlayersList` in
the order of the ids; each of them is one of `Spec`.

Three more that no instance shows, because a run of its own would say no more than this:
a removal found while another is announced is cleared with it and never announced
(`GameServer.cpp:392-401`); a message without a body is delivered with an
earlier one's (`spiderNet.h:336-340`), which the handlers do not read, and up to
which the channels compare messages (`Faithful`); and a connection's pending handlers may outlive
it (`spiderNet.h:631-632`).

Besides: `m_deqConnection` is commented "Container of active validated
connections" (`spiderNet.h:693`) and holds connections from their acceptance on
(578), which is how `Accept` has it.

## What is proved

The proofs hold for every value of the constants that satisfies the modules'
assumptions: any finite or infinite set of producers and elements, any ids and
payloads, any number of clients, any `MaxTurns` of the 4-bit field, any map, items, spawn
places, players and enemies, any capacity and size of element, any variables, members and
objects, any bounds.

`THSQueueProofs`: the inductive invariant is `IInv`, the conjunction of `TypeOK`,
`MutualExclusion`, `LoadIsCurrent` and `PopHasElement`. None is inductive without the
others: `LoadIsCurrent` survives another thread's store only because that thread would
own `muxQueue`, `PopHasElement` survives a pop only because the consumer is the
only thread that pops, and the type of `deq` after a pop needs its non-emptiness. From it:

* `TypeCorrect`, `LocksExclude`, `LoadsStayCurrent`, `PopsFindElement`: the four invariants
  (the `queue` run checks the type and `PopHasElement`; the other two are parts of the
  inductive invariant, which only the proof needs);
* `QueueRefinement`: `Spec => Implements`. Every step maps to a push, a pop or a stutter;
  a store is an atomic operation because what was loaded is still there.

`ConnectionProofs`: the inductive invariant joins five parts to `TypeOK`.
`Unaccepted` says that nothing of the server's end exists before the accept handler;
`FirstWord` that the challenge is the next word of a client that has not taken it, which
makes the type of its answer right; `WriterOK` is `OneWriter` with its converse,
that a header or body is only being written while a message is at the front of
`m_qMessagesOut`: without it the handler could not read the front (`spiderNet.h:240-252`).
`ReadsValidated` ties the read that is pending to the state of the handshake, and `NotTold`
follows `ClientAccepted` backwards through every place it passes (`posted`,
`m_qMessagesOut`, the wire, `m_msgTemporaryIn`, `received`): before the check it is in none of
them. From it:

* `TypeCorrect`: `Spec => []TypeOK`;
* `SingleWriter`: `Spec => []OneWriter`, whatever is posted while a write is pending,
  fails or is aborted;
* `CheckedFirst`: `Spec => []ValidatedFirst`.

`ChannelProofs` proves the two refinements of `Channel`. Each word on its way has a
position, the header or the body of the i-th message sent. The unread words lie, one after
the other, between the reader's position, which follows from `received` and from what its
pending read waits for, and the writer's, which follows from what is still in
`m_qMessagesOut` (`Flow`): with a position for each word no word need be looked for. The
inductive invariant says so of both directions (`FlowToClient`, `FlowToServer`), with two
exceptions for the handshake's words: `Unanswered` and `AnsweredOnce` say that the
challenge comes before and its answer between the messages. `DeliveredTo` ties what was received to what
was sent, up to the body of a message without one. From it:

* `StaysInStep`: `Spec => []InStep`, no header is ever taken for a body;
* `ServerChannel`, `ClientChannel`: `Spec` implies `ServerReceivesWhatWasSent` and
  `ClientReceivesWhatWasSent`. The handler that pushes to `m_qMessagesIn` is a delivery, the call of
  `Send` a send, and every other step a stutter.

`GameServerProofs`: the inductive invariant joins the types of the variables
with `StackOK`, the shape of the stack: `Run`'s or `Update`'s record is at the bottom and nowhere
else, `OnMessage`'s record lies right above it, at most one, and its loop over
`GarbageIDs` stays within the vector. The last two need each other: the vector
shrinks only in `ClearGarbage`, which runs at the level where no other loop over it
is suspended. That is why the type of the announced id, and with it `TypeOK`, needs the
shape. From it:

* `TypeCorrect`: `Spec => []TypeOK`, which includes that a handler returns to a record and
  that no player ever has more actions than a turn has;
* `HolderSpends`: `Spec => OnlyHolderSpends`, whoever leaves in the middle of
  whatever handler.

`GameServerRosterProofs` counts the records from the bottom of the stack (`frame`), because a
step changes only its top. `CallsOK` says who calls whom and with which arguments, for every
two adjacent records. With it, `Reachable` joins six parts: whoever is being removed is closed
(`AddressesOK`); `OnClientDisconnect` has dropped its player when it returns to the loop that
will reset the entry (`VictimOK`); a reset entry has a loop on the stack that will
erase it (`NullsOK`); and every player is held by `m_deqConnection`, unless it was registered after
it had been found dead, while its first message is still to be sent (`ReachOK`, `Unwelcome`).
For rosters, `Untold` says of two players, one of which does not know the other, which
record of the registration under way still owes it: one that has just begun, its loop over `PlayersList`, or
its broadcast; and `GarbageOK` that no removal that is announced names a player. For `NoCrash`, `Calm`
says that whoever a record, a loop or a queued message will look for is a player. From them:

* `AllReachable`: `Spec => []PlayersReachable`;
* `AllAgree`: `Spec => []RostersAgree`;
* `NothingFails`: `Spec => []NoCrash`, if `Leavers = {}`, `EarlyKeys = FALSE` and `MaxDepth >= 5`. Each
  of the three is needed: `server_tidy` is what a leaver does; an early key makes
  `PlayersList.at()` throw; and `Run`, `OnMessage`, `ChooseNextPlayerForTurn`, `MakeAITurn` and
  `MessageAllClients` are five records.

The proof about `m_deqConnection` is how `NoErasedIteration` turned out to be false: the
invariant that would carry it needs "no entry is null while the turn is handed on", which a
run with four clients refutes.

`GameServerTurnProofs` builds on both. `OnceOK` says that a client's registration is in
the queue or in hand before it is a player, and never again: a second one would fill up the
actions of a player who is not the holder. `TurnOK` says where on the stack the turn is being passed
on, in eight parts. There is no holder only while the first player is introduced
(`HolderOK`, with `WelcomeOK`). A holder without actions is either still in the handler of its last
action or below a search for the next (`SpentOK`, `ActingOK`). A connected holder that
has not been told of its turn is about to be, and whoever else was told is gone (`ToldOK`).
Whoever is being removed has passed the turn on or is about to (`PassedOK`), and a search takes
it only from a holder that is closed or spent (`TakenOK`), also after the AI's turn it had to
wait for (`AIPartOK`).

TLC refuted `TurnOK` as an invariant: a broadcast of the AI's turn may find dead the last player
of the round, whose own removal began that turn. It still holds the turn, so the search
chooses nobody else, begins another AI turn, and so on (the endless recursion, one level
deeper). `Doomed` describes these states, and what is inductive is that either `TurnOK` holds
or the state is `Doomed`. A doomed step leads to another such state or to a failure, so the game
thread is never again between two messages, and the holder does not change: that is why the
four properties hold nevertheless. From it:

* `TurnIsHeld`: `Spec => []TurnHasHolder`;
* `TurnStarts`: `Spec => []TurnCanStart`;
* `OneTold`: `Spec => []OneTurnHolder`;
* `TurnKept`: `Spec => TurnIsKept`;
* `NoWayBack`: a `Doomed` state stays one until the process fails. No run states it; such states are
  reached in the instance of `server_turns`.

`GameplayProofs`: the inductive invariant joins three ideas to the types of the
variables. In every inventory a slot in use holds one or more (`Stock`), so that an arrow can always be taken; every enemy holds a weapon that is no arrow, so that
shooting the last arrow leaves it armed; and every player is where one may appear, off the map included,
or inside the hills (`Placed`), from where each approved move leads inside the hills
again. The same invariant covers the client's copy and every message on its way,
because the client runs the same rules on what it is told. From it:

* `TypeCorrect`, `TilesStayInBounds`, `EnemiesAlwaysArmed`, `AmmunitionNeverWraps`;
* `StuckStaysStuck`: `Spec => StuckForEver`.

The second inductive invariant, `FInv`, is about the watcher's copy, and about a future: not the
client as it is but the one it will be when it has handled `inbox` and the actions of a turn
the enemies are in the middle of (`Becomes`). That client follows the server's world (`Follows`): a
client without a `PlayerID` knows no enemies and no players but those of the server (`Strange`); one
with a `PlayerID` has the same players at the same places, its own turn actions, at least as
many enemies as the server, and, as long as none of its enemies is dead, the same world but for the
actions others have left (`Familiar`, `LikeWorld`); of one that died only the cause is kept. The
server's step and the message for it are then compared on two worlds that are alike: both run the
same rules, so each rule needs a lemma that it takes like worlds to like worlds (`...Like`), that it
brings no dead enemy back (`DeadStay`) and counts only the actor's actions (`TurnsStay`). What ties
`EnemyID` to the server's list is that `ActiveEnemyID + 1` is `i` until a dead enemy is passed, and
never more: that is why the server's id is an index of the client's list even after a death, and
the right one before. `WelcomeMakes` shows that a welcome, taken message by message, turns any such
stranger into an exact copy. A client handles a message by losing it from its future, which `FInv`
does not notice (`HandleFollows`).

`CaughtUp` is a recursive function over the messages. Facts about it are proved without an
induction theorem: a set of numbers that has 0 and goes on has them all, because a set of
numbers has a least element (`MinOK`, `AllNumbers`). From it:

* `IDsAlwaysKnown`: `Spec => []IDsKnown`;
* `PlayersAlwaysFollow`: `Spec => []PlayersFollow`;
* `WorldAlwaysFollows`: `Spec => []WorldFollows`.

`LibraryProofs`, of the ring buffer: the inductive invariant is `RingTypeOK` with `HeadTellsEmpty`; neither
is inductive alone, because the tail is computed from both `head` and the number of
elements (`HeadTellsEmpty` is proved and is not a property of the `library` run). Lemmas say where the slots lie after each operation, wrapped or not. From it:

* `RingTypeCorrect`, `EmptyIsTold`, `LookFindsEverything`;
* `RingRefinement`: `RingSpec => RingImplements`;
* `ResizeKeepsAll`: `RingSpec => ResizeKeeps`.

`LibraryProofs`, of the handles: `CountsExact` and `OwnedOnce` hold between calls and not in
the middle of one, with destructors inside destructors, which is what the next step starts
from; and that nothing is freed twice depends on all that is left to do. The inductive
invariant `HInv` is therefore about `todo`, counted from its end (`step`, `left`), because a step changes only
what is done next:

* `OrderOK`: what follows what. An object is freed right after its destructor and before the handle
  that let it go forgets it; all deleting comes before anything is acquired or taken;
  and no object is to be freed twice.
* `CountOK`: a count is the number of handles that hold the object, but for the one that has given it
  up and forgets it next (`Holders`). A handle whose object is not counted is
  about to forget it (`Forgets`): in between it holds what is being deleted.
* `AliveOK`, `UniqueOK`: an object in memory is counted, or owned by one unique handle,
  or about to be freed or taken, and what is about to be freed is not counted any more.
* `DoingOK`, `LaterOK`: the member that releases its object outlives the release, or is the one whose
  own destructor runs. Either a variable or a unique handle holds the object it is in
  (`Anchored`), or somebody else holds what it lets go of, so that nothing is deleted (`Spared`). Without
  them, `Data = nullptr` after the delete could write to a member that is gone.
* `SourceOK`: only a copy or a move reads a member after something was let go, and the argument
  of `Reset` is a variable of the caller or a temporary.

The one assumption is `HandlesAssumption`: variables, members and the temporary are different
things, none of them `nullptr`. From it:

* `CountsAreExact`, `OneOwner`, `WeakHandlesAreSafe`, `NothingReleasedTwice`, `SourcesAreSafe`:
  `HandlesSpec => []P` for `CountsExact`, `OwnedOnce`, `WeakIsSafe`, `ReleasedOnce`, `SafeSources`.

Only model-checked: all liveness (`MessagesHandled`, `TurnsGoRound`, `AllArrives`,
`AITurnEnds`), which the prover does not reach.

## Not modelled

See `components` in `PROJECT.json`. Console output and formatting keep no state of the
protocol. `tt_Timer` reads a clock and truncates durations to 32 bits before it divides
them; a wrong duration moves the moment of a check that is a free choice in the models.
asio is modelled from its use. The byte stack of `message` holds one value per message in
this program. `clear`, `count`, `front` and `back` of `THSQueue`, `RemoveItem` of an inventory and
the matrices of `spNetMath.h` are called by nobody. What is undefined in the ring buffer and
the build of the handles with MEMORY_MULTITHREAD_SAFE are left out as said above.

## Plan

1. The handles with MEMORY_MULTITHREAD_SAFE, one lock at a time, and `message`'s byte stack.
