# TLA+ specifications of the game server

The repository holds a small MMORPG: a Windows IOCP server (`SERVER/SERVER`), a
client (`CLIENT`) and a load generator (`stress_test`). What is hard about it is the
server: a fixed pool of worker threads takes completions from one port and runs
handlers that share sessions, NPCs and sectors with very few locks; a timer thread
and a database thread feed the same port. These specifications model the server
at the grain at which its threads interleave (one access to shared state, or one
critical section, per step), and so the connections of the load generator; both
ends of the byte streams between server and clients; and where NPCs go on the map. TLC checks
them on small instances, and TLAPS proves the safety properties for all instances.

## Inventory

| Component | State | Operations | Interacts with |
|---|---|---|---|
| Session table, accept loop (`server_frame.cpp`) | `_sessions`, `_new_client_id`, `_client_socket` | `do_accept`, the branches of `worker_thread`, `disconnect`, `get_server_object` | every handler looks sessions up in it |
| Epoch-based reclamation (`session_ebr.h`) | `_epoch_counter`, `_epoch_array`, a `_free_queue` per thread | `begin_epoch`, `end_epoch`, `push_ptr`, `pop_ptr` | guards every handler; retires and reuses sessions |
| NPCs (`npc.cpp`, `agro_npc.cpp`, `peace_npc.cpp`) | `_hp`, `_is_active`, `_target_player`, position | move, chase, attack, take damage, die, respawn | woken by player moves, driven by timer events |
| Sectors (`sector.cpp`, searches in `server_entity.cpp`) | `_sectors`, `_sector_lock` | `insert`, `update_sector`, `erase`, search of the nine sectors | used by every move, login, attack |
| Timer (`server_frame.cpp`) | `_timer_event_map` and its lock | `add_timer_event`, `timer_thread` | delivers NPC and game events to the port |
| Database thread (`server_frame.cpp`, `db_functions.cpp`) | `_db_queue`, `_has_db_task`, the table of users | `add_db_event`, `db_thread`, login, creation, update | login and disconnect queue tasks; answers come through the port |
| Player statistics (`session.cpp`) | `_hp`, `_exp`, `_level`, `_is_active` | damage, heal, kill reward, respawn | game events from the timer |
| View lists (`session.cpp`, `npc.cpp`) | `_view_list` and its lock | enter, move and leave packets of login, moves and disconnect | sectors, sessions |
| Packet framing (`session.cpp`, client `network_modules.cpp`) | `_prev_remain` and the receive buffer; `packet_buffer`, `in_packet_size`, `saved_packet_size` | `process_recv`, `do_recv`; `process_data` | the network |
| Protocol header (`game_header.h`) | none | layouts and numbers of packets, directions | included by server, client and load generator, each its own copy |
| Client (`client_sample`) | `players`, its `avatar` | `process_packet`, key handling, drawing | one connection |
| Load generator (`NetworkModule.cpp`) | `g_clients`, `num_connections`, `client_to_close`, `active_clients`, `global_delay`, `max_limit` | `Worker_Thread`, `Test_Thread`, `Adjust_Number_Of_Client`, `DisconnectClient` | up to 10 000 connections; `GetPointCloud` reads its clients for the window |
| NPC script (`agro_npc.lua`) | none | `event_player_move` | `API_get_x`, `API_get_y`, under `_lua_lock` |

What must be right of each:

* sessions: no handler uses memory that has been reused; one accept is outstanding;
  a retired session cannot be looked up;
* NPCs: an awake NPC goes on moving, a dead one comes back, one that is alone sleeps;
* sectors: no deadlock; everyone in exactly one sector; nobody overlooked;
* timer: every event once, in order, not early, and in the end;
* database: progress survives leaving and coming back; the thread does not sleep on work;
* statistics: a player that dies comes back, alive; hit points stay in range; rewards are not lost; healing goes on, once per login;
* view lists: what a client shows is what its server-side list says, and nobody
  stays on screen after it has gone;
* framing: the packets handled are the packets sent, and none waits for the next;
* protocol: what is sent fits the buffers and the types it is read through;
* load generator: clients are counted right, none goes unheard, and the point cloud has room for all.

The hard behaviours are interleavings (all of them), reuse of memory, values tested
and then used (`_hp`, `_is_active`, `_target_player`, positions), lost wake-ups, and the
life of a connection against asynchronous answers. `PROJECT.json` lists each hazard with its line.

## Modules

| Module | Models | Kind |
|---|---|---|
| `NpcLifecycle` | the life of one NPC under concurrent events | state machine |
| `NpcLifecycleProofs` | its invariants | proofs |
| `SessionEbr` | `session_ebr.h`: the steps on epochs and retired objects | data structure used by the next |
| `ServerSessions` | accept, look-up, failure and retirement of sessions on workers and the database thread | state machine, EXTENDS `SessionEbr` |
| `ServerSessionsProofs` | its invariants | proofs |
| `SectorGrid` | the geometry of sectors and of sight | operators |
| `Sectors` | logins, moves, searches and departures under the sector locks | state machine, EXTENDS `SectorGrid` |
| `SectorsProofs` | the geometry, the invariants of `Sectors`, and what a chase (`NpcChase`) comes to | proofs |
| `NpcChase` | where an NPC goes and whom it hits | state machine, EXTENDS `SectorGrid` |
| `DbQueue` | `add_db_event` and the sleep of `db_thread` | data structure used by the next |
| `Accounts` | a user's progress through login, play, disconnect and the table | state machine, EXTENDS `DbQueue` |
| `DelayedDelivery` | what `add_timer_event` promises | abstract specification |
| `TimerQueue` | the timer map and the timer thread | state machine, implements `DelayedDelivery` |
| `ThreadsProofs` | the invariants of `Accounts` and `TimerQueue`, the two threads beside the workers, and the refinement of `DelayedDelivery` | proofs |
| `PlayerStats` | hit points, experience and level of one player under concurrent game events | state machine |
| `PlayerStatsProofs` | its invariants | proofs |
| `Visibility` | view lists, the packets about them and the client's table of objects | state machine |
| `VisibilityProofs` | its invariants | proofs |
| `PacketStream` | what framing promises: packets handled whole and in order | abstract specification |
| `Framing` | both ends of a connection, with its bytes | state machine; its client implements `PacketStream` |
| `Protocol` | packet sizes, who sends which, directions | operators |
| `FramingProofs` | the invariants of `Framing`, the refinement, and that the packets of `Protocol` are such as `Framing` assumes | proofs |
| `LoadGenerator` | the connections of the load generator | state machine |
| `LoadGeneratorProofs` | its invariants | proofs |
| `MC...` | symmetry sets and small positions for TLC | model checking |

### How state and actions correspond to the code

`NpcLifecycle`: `hp`, `active` are the atomics `_hp`, `_is_active`; `target` is the plain
field `_target_player`; `inSector` says whether the NPC's id is in the grid; `near` stands for
the positions (which players see the NPC). `pending` is the bag of events on their way,
timer and completion port together. A worker's `pc` walks through `dispatch_npc_update`,
`process_game_event`, `wakeup_npc` one shared access at a time. The Lua function
`event_player_move` is one step because `_lua_lock` is held. `aborted` is the end of the
process by the exception of `_sessions.at`, which nothing catches.

`ServerSessions`: `sessions` is `_sessions` for the ids of players; `accept` is the
one outstanding `AcceptEx`; `recv`, `sends`, `dbLogin`, `loggedIn` are outstanding operations and
completions; `held` are the session pointers a handler has in its hands. `MaxEpoch`
bounds the number of handlers run. Sockets fail at any time after the peer has
gone or the socket was closed. Thread 0 is the database thread, which runs
`disconnect` as well.

`Sectors`: `lock` is `_sector_lock`, `sectors` is `_sectors`. A critical section on one
lock is one step; `update_sector`'s two locks are taken in two steps. `noticed` is what
the last search of a player found. Players whose handlers overlapped, that moved
outside the game or that logged in twice are collected in `strayed`: the code makes no
promise about them, they go on disturbing the others.

`Accounts`: `progress` stands for position, experience and level together, as one number, of which an `int16_t` holds
those from `-Half` to below `Half`. `row` is the table (external); `FindUser` reads it through the cast of `db_login`
(`AsShort`). `leave` says where each thread is in `disconnect`: `LookUp` is the null test, `ReadInfo` and
`QueueUpdate` the argument and the push of `add_db_event`, `Unpublish` the rest. Any number of workers, and the
database thread when a user could not be created, may be at it for one session, which goes on playing meanwhile. A second
login of a session is taken like the first. `last` is what was read of a user last. `shared` and `lost` collect users the
code makes no promise about: those with two sessions at a time, where a session counts until every thread
that found it has queued its update; those gone before their login was answered; those that made progress between two
disconnects of one session; those that logged in twice in one; those whose update failed. Without any one of these
exceptions TLC finds `ProgressSurvives` violated.

`TimerQueue`: the multimap is the set of events in stage `queued` under the order
`Before` (time, then insertion). The lock is held exactly while the timer thread is at
`look`, and an insertion is one critical section.

`PlayerStats`: `pending` is the bag of game events on their way; `Add`, `Compare` and `Clamp` are the
three accesses of `update_hp`; a reward holds `levelLock`, a death halves `_exp` without it by a
read and a write. `Init` is the end of the first login, with any level and experience; another login (`TakeLogIn`, `Enter` to `SetMaxExp`, then
`PostHeal`) comes while events of the player are handled, for the same or another user's row, and posts its own first heal. What is claimed of hit points and
rewards ends there (`again`): nothing orders a second login against what is being handled. The events of a player that
has left are dropped (`ServerSessions`), and level 0, with which the first reward divides by zero, is left out by `StatsAssumption`.

`Visibility`: `viewList` is `_view_list`; `mail` is a packet between the change of the list and
`do_send`; `objects` is the client's `players`, in which `operator[]` makes an `"empty"` object for a packet
about something unknown. All positions are in one sector, whose lock a login holds while it sends.
An NPC's hits and death are told to the players near it (`TellHp`, `TellDeath`) before it is taken out of its sector (`Bury`); it respawns
(`Respawn`) where it stood. Handlers of one player or NPC that overlap are possible and recorded in `raced`, NPCs that have died in `killed`,
and leaves sent in `parted`. A client moves only after it has logged in.

`NpcChase`: `npc` and `player` are `_x` and `_y`, `target` says whether `_target_player` is the player, `hit`
whether the last step dispatched damage. There is one NPC and one player; `free` stands for
others in the way. The handlers that `NpcLifecycle` takes apart are one step each.

`Framing`: a byte is its position in the stream, and `Values` is what a byte may be read as: the size, if a packet begins there, or anything.
`at` is `ptr`, `inSize`, `saved` and `packetBuffer` are the static variables of `process_data`; `AsSize` is the
conversion of a `char` to `size_t`. `prevRemain` is `_prev_remain`, `recvBuf` the `_send_buf` of `_recv_over`, `iter` and
`end` the loop of `process_recv`. The server handles a packet as soon as its first byte has arrived, and remembers as a negative
`_prev_remain` how much of it is missing; the next receive then starts in front of the buffer. That works
if the missing bytes arrive together with more (which then lies at the start of the buffer), and goes wrong if they arrive alone:
`starved` records that, and `deaf` that a receive has run over `_comp_type`.

`LoadGenerator`: a client is its slot in `g_clients`; `sock`, `recv`, `sends` are its socket and outstanding
operations, `next` is `num_connections`, `active`, `toClose` and `maxLimit` are `active_clients`, `client_to_close` and
`max_limit`. `late` says whether `global_delay` is above the limit, and changes freely. The exchange in `DisconnectClient` and the
count after it are two steps, as are the flag and the count when avatar information arrives. Nothing keeps `toClose` below
`MaxClients`: past the end, `Overrun` either goes on, if the memory there reads as a client that is not connected, or is the end of what can be said
(`"wrecked"`). `passed` are the slots it went by. The server is known by what it sends: at most `MAX_USER`
answers, never `LOGIN_FAIL`. The loop that puts packets together is that of
`process_data`, but with an unsigned size, and packets arrive whole here.

### What the code does that no property demands otherwise

Modelling showed behaviour that may surprise, but that no comment, document or test
of the repository speaks against. The models follow it.

* An id is never used again (`server_frame.cpp:233`), so `MAX_USER` bounds the
  connections made, not the players present; that ids are not reused is what keeps late events from a wrong player (`IdNeverReused`).
* The first row and column of sectors are never searched (`sector.cpp:13`): whoever is there is found by nobody and hit by no NPC, but finds, and wakes,
  those in the valid sectors beside its own (`FirstSectorsAreNeverSearched`, `SafeInFirstSectors`).
* The server gets out of step with a client when the rest of a packet arrives alone (`session.cpp:112`), and may then
  write in front of its buffer and stop receiving (`RecvOverType`).
* An NPC without a target moves only right and down (`RandomMovesNeverGoBack`), and one at the right edge never
  gets at a player diagonally to its left (`CorneredStays`).
* A player is not told of one that logs in next to it, nor of one that walks away: the null tests at `session.cpp:249`
  and `:398` are inverted. It keeps the latter on screen until it moves itself, and for ever if the other leaves meanwhile.
* A list changes before its packet is sent (`session.cpp:492`), so the enter of one handler may overtake the leave another has yet to send.
  The client then loses a player that is on its list, and is not told of it again while it stays there. `FoundIsShown` therefore promises the
  screen only for players no leave has been sent about (`parted`).
* An NPC sends its moves without looking at the list (`npc.cpp:67`), so a move can reach a client that has no such
  object; and a player that stands by when an NPC respawns does not see it.
* `send_chat_packet` accepts texts whose packet the client would take for longer than any
  (`ChatTestIsTooWide`); the texts the server writes are shorter.
* A second login, or a move before the login, is not refused (`session.cpp:127`); `Sectors`, `Accounts` and `PlayerStats` follow what it does (`strayed`, `lost`, `again`).
  It starts a second chain of heals, so that the player recovers twice as fast as the design document's "every 5 seconds"; `OneHealPerLogin` says that nothing else does.
* Position, experience and level come back from the table through `int16_t` (`db_functions.cpp:42`): what does not fit comes back as another number (`AsShort`).
* Several threads may be in `disconnect` for one session. Both queue its state; if it changed in between, the older may be written last.
* `client_to_close` of the load generator is never compared with the number of clients (`NetworkModule.cpp:285`). It leaves `g_clients` once as many
  closings have been asked for; `EndNeedsStragglers` says that this takes 100 clients whose logins were answered after it had passed them.
* The timer goes by the system clock, which may be set back (`server_frame.cpp:398`): this is not modelled.

## Runs

| Run | Shows | Bounds |
|---|---|---|
| `npc_agro` | `TypeOK`, `ActiveHasMover`, `DeadHasRespawn` | 2 workers, 2 players, 2 moves, 2 attacks, hit points 2, damage 1 or 2: two lethal hits, a hit during a respawn, and a wake-up during falling asleep all occur |
| `npc_liveness` | `DeadIsRevived`, `LonelyFallsAsleep` | 2 workers, 1 player, lethal hits only |
| `sessions` | `TypeOK`, `RetiredIsUnpublished`, `AcceptHasOneOwner`, `ReclaimSafe`, `IdNeverReused` | 2 workers and the database thread, ids 0 and 1, 4 handlers, 3 addresses: one connection fails and its memory is offered to the next while a third thread still runs |
| `sector_moves` | `TypeOK`, `InOneSector`, `NoDeadlock`, `SightIsMutual` | 2 workers, 2 players, 3 positions in 2 sectors, view range 1 |
| `accounts` | `TypeOK`, `RowCatchesUp`, `ProgressSurvives` | 2 sessions of one user, 2 workers in `disconnect`, progress -2 to 2 of which -2 to 1 fit an `int16_t` (`Half`), one handler in `add_db_event` at a time (`MaxAdding`), a second login (`again`) but no third; not searched on where no user is within the promise (`Promised`), where the properties say nothing. The database thread itself disconnects only users that are beyond it with its first step; the theorems cover the rest |
| `accounts_shared` | violates `OneSessionPerUser` | 2 sessions of one user, 1 worker in `disconnect` |
| `accounts_wakeup` | violates `WorkIsTaken` | 1 session, which no worker disconnects. Deadlock is not checked: a session that stays and asks for nothing leaves nothing to do |
| `timer` | `TimerTypeOK`, `InOrder`, `Implements`, `AllPosted` | 3 events, delays 0 to 2, clock to 3 |
| `player_stats` | `TypeOK`, `AliveAtRest`, `OneHealPerLogin`, `NoRewardLost`, `DeadComesBack` | 2 workers, 4 hits of 2, maximum 3, experience from -1, 2 rewards of 3 where a level takes 2, and 2 logins, the second for level 1 or 2: two deaths, two lethal hits at once, and a hit during a respawn occur |
| `visibility` | `TypeOK`, `FoundIsShown`, `ShownAsListed`, `NpcShownInSight` | 2 workers, 2 players and an NPC, 3 positions in a row, those next to each other in sight; 2 moves or hits besides logins and departures. The NPC starts at one position (`SpecOneStart`) |
| `framing` | `TypeOK`, `InStepUnlessStarved`, `ClientImplements`, `ArrivedIsHandled` | 3 packets each way of 1 to 4 bytes, a buffer of 4, 4 packets handled by the server: every cut of every stream, a packet as large as the buffer, and a server that is out of step. Sizes stay below the sign bit, which the theorems `SentPacketsAreAdmitted` and `ChatTestIsTooWide` are about |
| `load_generator` | `TypeOK`, `ActiveIsConnected`, `PointCloudFits`, `ConnectedIsHeard`, `EndNeedsStragglers` | 2 workers and the test thread, 3 slots, 2 clients active at most and 2 answered, 4 closings (`MaxClose`), so that the index does leave the slots: a third connection is up when the limit is reached, and three threads disconnect at once. Deadlock is not checked: the generator may be left with nothing to do, or wrecked |

Two of everything is enough for the races described: each involves two handlers, and
a third thread only where a bystander's epoch matters (`sessions`). Bounds cut behaviours,
they never disable a handler half-way: `MaxMoves`, `MaxAttacks`, `MaxHits`, `MaxKills`,
`MaxLogins`, `MaxEpoch`, `MaxSends`, `MaxProgress`, `MaxClose` and `MaxClock` guard the start of something only; `MaxAdding` makes a
handler wait for another to leave `add_db_event`, which is what a scheduler may do anyway.  Symmetry is used in
runs without liveness.

The two violations are disagreements between the code and its header or design
document; `PROJECT.json` quotes them.

### Fairness

* Workers: a handler that has started runs on (weak fairness). Every posted event is
  taken in the end (strong fairness of `Take`), because the completion port is a FIFO
  queue and all workers wait on it.
* Timer: time goes by and the timer thread runs (weak); a thread that wants the lock
  gets it while the timer thread sleeps its millisecond (strong, as the lock is free
  again and again but not all the time).
* Database thread and workers run on (weak), also in `PlayerStats`: `DeadComesBack` needs no more than
  that a respawn that has begun goes on.
* `Framing`: the client's thread runs `process_data` on after it has received (weak); nothing is assumed of the network, so
  `ArrivedIsHandled` says that a packet never waits for the bytes of the next.

Nothing is assumed of players: they need not move, attack, log in or leave.

## Proofs

* `NpcLifecycleProofs`: `TypeCorrect`, `ActiveHasMoverInvariant`, `DeadHasRespawnInvariant`.
  `ActiveHasMover` is inductive only together with "the process has not ended, and whoever
  is between the swap of `_is_active` and the post of the move still will post it", which is what
  counting the workers in `Movers` says; `DeadHasRespawn` needs the same of `Revivers`, where a worker at
  the swap counts only while the value it loaded is still the current one.
* `ServerSessionsProofs`: `TypeCorrect`, `AcceptSocketHasOneOwner`, `RetiredSessionIsUnpublished`,
  `ReclaimIsSafe` and `IdsAreNeverReused`. Their core: the stamp of a retired object is at most the epoch
  counter; a thread holding a pointer obtained while the object was published
  has an epoch value fetched before; a slot that a scan has passed is empty, or not older than the
  stamp, and remains so, because whoever enters later fetches a larger value; and
  an object is in one queue, once. The proof holds for every number of threads, clients and objects.
* `SectorsProofs`: of the geometry, `NineSectorsSuffice` (whatever is in view range lies in one of the nine sectors
  around), `SectorInBounds` (for square maps, as the arrays are declared with height and width
  exchanged) and `FirstSectorsAreNeverSearched`, for every view range and map size. Of `Sectors`, all four properties:
  `TypeCorrect`; `LocksAreOrdered`, because among the threads that hold a first lock one holds that of the greatest
  address, and its second lies above; `OneSectorEach` and `NobodyIsOverlooked`. A step of a
  handler touches only its own thread and entity (`Touches`), so each entity can be looked at alone; one whose handlers do not overlap
  is, at each label, in the sectors that `Placed` names. For `NobodyIsOverlooked` the invariant `Mutual` says of two players
  in each other's sight that one has found the other or that its search under way still comes to the other's sector: the one
  that searches later finds the other, because both are in their sectors before they search.
* `PlayerStatsProofs`: `TypeCorrect`; `HealingGoesOn` (heals pending or with a worker, and logins that have still to post their first, are as many as
  logins were asked for); `NobodyStaysDead`, that a player nobody is busy with is active (whoever makes it inactive is the one that respawns it) and, while it has
  logged in once, not above its maximum (whoever takes it there has still to compare) and, if the hits of the other workers cannot add up to a life (`Survivable`), alive. For the last, `Worn` bounds what has been taken
  off since the hit points were restored: each other worker may have one hit (`Stray`) that found the player active before it died, and no second one.
  `RewardsAreKept`: the level and experience of a player that has neither died nor logged in again are, at rest, those of as many rewards as have been taken, since a reward is
  handled under `levelLock` from the first read to the last write. `Rewarded` is a recursive function; that it is what its equation
  says is proved by induction over the set of numbers up to which such a function exists (`SetInduction`, from the least number of a set).
* `ThreadsProofs`, of the timer: `TimerTypeCorrect`, `PostedInOrder` and `TimerImplements`, the refinement of
  `DelayedDelivery`. The invariant adds that events in the vector were due when the clock was
  read, that insertions are numbered upwards, and `InOrder` for the events in the vector.Of the database thread, for any number of users, sessions, tasks and threads in `disconnect`,
  and any width of the integers: `TypeCorrect`, `RowsCatchUp`, `ProgressIsKept`, and `FitsAreKept`, which with `ShortsFit` (the cast leaves what fits alone) says what
  `ProgressSurvives` comes to for ordinary values. A session of a user not in `lost` has at most one login, queued or answered (`LoginsAreOne`); a user
  not in `shared` has one session present at a time, where one that a thread has still to write for is present (`Alone`); and of a user in neither, `RowsInStep` says
  that the row, or the last update queued for it, is what was read of it last, unless a thread has read it and not yet queued it (`Owed`), and then every such thread
  has read the same; and that a login of it in the queue is behind all its updates, and no thread owes one: it is answered with what the last one wrote, because one thread takes
  the tasks in order.
* `VisibilityProofs`: `TypeCorrect`, `ScreenFollowsList`, `FoundOnScreen` and `NpcsOnScreen`, for any number of players, NPCs, workers and
  positions. `RacesKnown` says that handlers of one player or NPC that overlap are recorded, so a pair not in `raced` has at most one handler at a time
  (`AtMostOne`), and a step of anybody else leaves the pair alone (`Apart`). Then `Unmet`: nobody knows of a player that has not logged in; `ListsTracked`: what is on a list and has been sent no
  leave is on the screen, or its enter is on its way; `FoundListed`: what the last search found is listed, or the handler has
  still to come to it; `NpcsTold`: what a client shows of an NPC in its sight, at each label of the player's handler and of the
  NPC's. The attempt to prove `FoundIsShown` for all players found showed it false beyond the bounds of its run; it now excepts `parted`.
* `FramingProofs`: `TypeCorrect`, `ClientHandlesWhatIsSent`, the refinement of `PacketStream`, and `ServerStaysInStep`, for any number and sizes of packets. The
  client's part of the invariant says that what is saved is the beginning of the first packet not handled; the server's, that between two receives
  what has been received plus what is owed ends a packet, and that in the loop the bytes up to `end` are the last received. `SentPacketsAreAdmitted` closes the
  gap to `game_header.h`: the packets sent have sizes `FramingAssumption` admits, in particular none the server sends is negative as a `char`.
  `ChatTestIsTooWide` and `DirectionsAgree` are about `Protocol` alone.
* `LoadGeneratorProofs`: `TypeCorrect`, `ActiveCountIsRight`, `NobodyUnheard`, `PointsFit` and `EndIsBehindStragglers`. `TypeCorrect` claims no bound of `client_to_close`. The invariant: one worker at a time handles what a client
  has received, avatar information comes once and before anything connects or closes the client, and no more clients are answered than `MAX_USER`; a slot below `client_to_close` has been passed, is the one being looked at, or will not be connected again (`Behind`), so that beyond the last slot all connected clients
  are stragglers, and of those there are as many as the test of `active_clients` demands.
* `SectorsProofs`, of `NpcChase`: `StaysOnTheMap`, `ChaseEnds` (each move of a chase hits, brings the NPC exactly one move nearer by `MovesToAttack`, or finds the way barred),
  `CorneredStays`, `RandomMovesNeverGoBack`, `AgroRangeIsSight`, `SafeInFirstSectors`, on maps of every size. `NpcChase` has no run of its own: every property of it is proved.

Assumptions are those named in the modules (`LifecycleAssumption`, `ThreadsAssumption`,
`SessionsAssumption`, `QueueAssumption`, `GridAssumption`, `SectorsAssumption`, `AccountsAssumption`, `StatsAssumption`, `TimerAssumption`, `VisibilityAssumption`,
`FramingAssumption`, `LoadAssumption`).

Only model-checked: the liveness properties (`DeadIsRevived`, `LonelyFallsAsleep`, `AllPosted`, `DeadComesBack`, `ArrivedIsHandled`);
liveness under fairness and ENABLED are out of the prover's reach. Every safety property and both
refinements that a passing run checks are proved.

## Not modelled

* ODBC and statement texts (`db_util.cpp`, the calls in `db_functions.cpp`): a statement succeeds or fails.
* The Lua interpreter and its headers, a library.
* Drawing and windows: `client.cpp` but for its keys, and `DrawModule.cpp`.
* Start-up: threads, listening socket, the placing of NPCs (their places are initial states).
* The stub `party_system.h`, the unused `temp.cpp`, `ebr.h` (commented out) and `test_codes`.
* Chat is sent to nobody (`send_chat_packet_to_every_one` has its body commented out), and
  `EVENT_KILL_ENEMY` is never sent to an NPC.
* Of `Visibility`: the statistics packets of a player's own damage, heals and rewards. They change nothing in the table of a client
  that shows the player, and make an `"empty"` object in one that does not, as those of NPCs do.
* Positions, `client_map` and the values of the delay in `LoadGenerator`: nothing it decides depends on
  more of them than `late`.

## Plan

1. `NpcChase` with two NPCs that are in each other's way, and the refinement of its moves by `NpcLifecycle`.
2. `NpcLifecycle` and `PlayerStats` together: the reward of a kill, from the NPC's death to the player's level.
3. The players' own statistics packets in `Visibility`.
